----------------------------- MODULE SignalPath -----------------------------
(***************************************************************************)
(* What the engine knows about the path of the samples and tells the       *)
(* window (engine/run.rs): the plan and the badge of the open stream, kept *)
(* true through volume, mute, settings, a change of mode and a failed      *)
(* reopening; and what the stream really does (engine/exclusive_path.rs,   *)
(* audio/session_build.rs, audio/render).                                  *)
(*                                                                         *)
(* The lock of the device is Engine.tla's; here it is held or not.  Two    *)
(* volumes stand for all: 100 and another one.                             *)
(***************************************************************************)
EXTENDS Planner

CONSTANTS
  Sources,      \* formats of the tracks
  Devices,      \* capabilities of the devices a claim may give
  Streams,      \* formats a shared stream may be opened in
  Options       \* settings of the Optimal mode and of the device

(* A device that takes doubles must say in which formats: for one that     *)
(* reports none the planner takes the source's own.                        *)
ASSUME SignalPathAssumption ==
  /\ Sources \subseteq SourceFormats
  /\ \A caps \in Devices :
       /\ caps.access = "exclusive"
       /\ caps.channels \subseteq Nat \ {0} /\ caps.formats \subseteq Formats
       /\ caps.formats = {} => \A src \in Sources : ~(src.kind = "float" /\ src.bits = 64)
  /\ \A desc \in Streams : desc.sample \in Formats /\ desc.channels \in Nat \ {0}
  /\ \A o \in Options : {o.dop, o.volumeLock, o.dither} \subseteq BOOLEAN

VARIABLES
  mode,         \* active_mode
  options,      \* mode_settings: volumeLock, dither, rateFallback,
                \* dop, dsdFilter
  volume,       \* last_volume, 100 or 50
  muted,        \* last_muted
  held,         \* the claim's capabilities, NoDevice without a claim
  active,       \* active_path: plan and badge of the shared stream
  path,         \* exclusive_path with exclusive_signal
  hw,           \* format the device was last configured to
  shown,        \* badge of the last event the window got
  todo,         \* what is left of the commands of a change of mode
  plan,         \* the plan this step made, NoPlan if it made none
  outcome       \* what became of the opening of this step

vars == <<mode, options, volume, muted, held, active, path, hw, shown, todo, plan, outcome>>

NoDevice == [access |-> "none"]
NoPlan   == [reason |-> "no plan"]
NoActive == [open |-> FALSE]
NoPath   == [open |-> FALSE]

Modes == {"Compatible", "Optimal", "Strict"}

Policy(m, opts) ==
  [mode |-> m, fixedRate |-> 0, rateFallback |-> opts.rateFallback,
   dither |-> opts.dither, volumeLock |-> opts.volumeLock, dsdFilter |-> opts.dsdFilter]

EffectiveGain(m, opts, v) ==
  IF m = "Strict" \/ (m = "Optimal" /\ opts.volumeLock) THEN 100 ELSE v

GainState(m, opts, v, silent) ==
  IF silent THEN "muted" ELSE IF EffectiveGain(m, opts, v) = 100 THEN "unity" ELSE "scaled"

Init ==
  /\ mode \in Modes /\ options \in Options
  /\ volume = 100 /\ muted = FALSE
  /\ held = NoDevice /\ active = NoActive /\ path = NoPath /\ hw = Unreadable
  /\ shown = "NoStream" /\ todo = "none" /\ plan = NoPlan /\ outcome = "none"

-----------------------------------------------------------------------------
(***************************************************************************)
(* The exclusive path.                                                     *)
(***************************************************************************)
(* exclusive_session_plan, build_exclusive_render and exclusive_feed: the  *)
(* plan is not carried out when the ring, the format or the decoder's      *)
(* output is not the one it names.  Only a ring of floats converts rates   *)
(* and channels.                                                           *)
Builds(p) ==
  CASE p.route = "dop" -> /\ p.sample \notin {"S16", "F32"}
                          /\ p.source.channels = p.channels
    [] p.route # "dop" /\ p.exact ->
         /\ p.source.rate = p.rate
         /\ p.source.channels = p.channels
    [] OTHER -> p.mode # "Strict"

(* The render of OptimalPcm alone multiplies by the volume.                *)
Stage(p, opts) == IF p.route # "dop" /\ p.mode = "Optimal" /\ ~opts.volumeLock
                  THEN "atomicGain" ELSE "noGain"

(* configure is not repeated when the path that gives way asked for the    *)
(* same format: what the driver reported then is carried over.             *)
Reuses(p) == path.open /\ Target(path.plan) = Target(p)

(* The device takes the format asked for or another, and the driver says   *)
(* which, or nothing.                                                      *)
OtherFormat == [rate |-> 0, sample |-> "other", channels |-> 0]

Configured(p) ==
  IF Reuses(p) THEN {[hw |-> hw, driver |-> path.driver]}
  ELSE {[hw |-> f, driver |-> d] : f \in {Target(p), OtherFormat}, d \in {Unreadable}}
       \cup {[hw |-> f, driver |-> f] : f \in {Target(p), OtherFormat}}

Closed(how) == path' = NoPath /\ outcome' = how /\ shown' = "NoStream"

(* open_exclusive with the claim: the old path goes first, then the plan,  *)
(* the source, the device, the render, the decoder and the output thread,  *)
(* any of which may fail.                                                  *)
OpenExclusive(src, opts) ==
  LET policy == Policy(mode, opts)
      p    == PlanWithDevice(src, held, policy, opts.dop)
      gain == GainState(mode, opts, volume, muted)
  IN  /\ plan' = p
      /\ UNCHANGED active
      /\ \/ ~Accepted(p) /\ Closed("incompatible") /\ UNCHANGED hw
         \/ Accepted(p) /\ Closed("failed") /\ UNCHANGED hw
         \/ /\ Accepted(p)
            /\ \E c \in Configured(p) :
                 /\ hw' = c.hw
                 /\ \/ Builds(p) /\ Closed("failed")
                    \/ ~Builds(p) /\ Closed("unbuilt")
                    \/ LET badge == Verdict(WithGain(p, gain, policy), gain, "exclusive", c.driver)
                       IN  /\ Builds(p)
                           /\ path' = [open |-> TRUE, plan |-> p, driver |-> c.driver,
                                       stage |-> Stage(p, opts), badge |-> badge, muted |-> muted,
                                       gain |-> EffectiveGain(mode, opts, volume)]
                           /\ outcome' = "opened" /\ shown' = badge

(* The stream of the legacy player, and the path rebuilt from what it got. *)
OpenCompatible(src) ==
  /\ UNCHANGED <<path, hw>>
  /\ \/ /\ outcome' = "failed" /\ shown' = "NoStream"
        /\ plan' = NoPlan /\ UNCHANGED active
     \/ \E desc \in Streams :
          LET caps == [access |-> "shared", rates |-> [kind |-> "discrete", set |-> {desc.rate}],
                       channels |-> {desc.channels}, formats |-> {desc.sample}]
              policy == Policy(mode, options)
              p     == PlanWithDevice(src, caps, policy, TRUE)
              gain  == GainState(mode, options, volume, muted)
              badge == Verdict(WithGain(p, gain, policy), gain, "shared", Unreadable)
          IN  /\ plan' = p
              /\ IF Accepted(p)
                 THEN /\ active' = [open |-> TRUE, plan |-> p, badge |-> badge]
                      /\ outcome' = "opened" /\ shown' = badge
                 ELSE /\ active' = NoActive
                      /\ outcome' = "incompatible" /\ shown' = "NoStream"

(* EngineCmd::Open: a file that cannot be probed leaves the path open.     *)
NotOpened ==
  /\ outcome' = "failed" /\ shown' = "NoStream" /\ plan' = NoPlan
  /\ UNCHANGED <<active, path, hw>>

OpenTrack(src) ==
  /\ UNCHANGED <<mode, options, volume, muted, held>>
  /\ \/ NotOpened
     \/ mode = "Compatible" /\ OpenCompatible(src)
     \/ mode # "Compatible" /\ held # NoDevice /\ OpenExclusive(src, options)

Open(src) == todo = "none" /\ OpenTrack(src) /\ UNCHANGED todo

-----------------------------------------------------------------------------
(***************************************************************************)
(* Volume and mute.                                                        *)
(***************************************************************************)
WithStreamGain(pt, m, opts, v, silent) ==
  IF pt.open THEN [pt EXCEPT !.gain = EffectiveGain(m, opts, v), !.muted = silent] ELSE pt

\* Mutant: the snapshots are left as they are until the next opening.
RefreshLater(stream, v, silent) == path' = stream /\ UNCHANGED <<active, shown>>

(* refresh_path_gain: both snapshots are rebuilt for the gain of the       *)
(* active mode, and an event goes out for each badge that changed, the     *)
(* exclusive path's last.                                                  *)
RefreshPathGain(stream, v, silent) ==
  LET gain == GainState(mode, options, v, silent)
      Rebuilt(p, m, access, driver) ==
        Verdict(WithGain(p, gain, Policy(m, options)), gain, access, driver)
      shared    == Rebuilt(active.plan, "Compatible", "shared", Unreadable)
      exclusive == Rebuilt(path.plan, mode, "exclusive", path.driver)
  IN  /\ active' = IF active.open THEN [active EXCEPT !.badge = shared] ELSE active
      /\ path'   = IF path.open THEN [stream EXCEPT !.badge = exclusive] ELSE stream
      /\ shown'  = CASE path.open /\ exclusive # path.badge -> exclusive
                     [] ~(path.open /\ exclusive # path.badge) /\ active.open /\ shared # active.badge -> shared
                     [] OTHER -> shown

NoOpening == plan' = NoPlan /\ outcome' = "none"

ApplyVolume(v) ==
  /\ volume' = v
  /\ RefreshPathGain(WithStreamGain(path, mode, options, v, muted), v, muted)
  /\ NoOpening /\ UNCHANGED <<mode, options, muted, held, hw>>

ApplyMuted(silent) ==
  /\ muted' = silent
  /\ RefreshPathGain(WithStreamGain(path, mode, options, volume, silent), volume, silent)
  /\ NoOpening /\ UNCHANGED <<mode, options, volume, held, hw>>

(* The window sends no volume where its rule says there is none.           *)
SetVolume(v) ==
  /\ todo = "none" /\ mode # "Strict" /\ ~(mode = "Optimal" /\ options.volumeLock)
  /\ ApplyVolume(v) /\ UNCHANGED todo

SetMuted(silent) == todo = "none" /\ ApplyMuted(silent) /\ UNCHANGED todo

-----------------------------------------------------------------------------
(***************************************************************************)
(* Settings, modes and the device.                                         *)
(***************************************************************************)
(* The options of the Optimal mode and of the device whose change reopens  *)
(* the stream of the active mode.                                          *)
Reopens(new) ==
  \/ mode = "Optimal" /\ new # options
  \/ mode = "Strict" /\ new.dop # options.dop

(* SetModeSettings: the settings are stored and the volume applied; an     *)
(* open exclusive path is reopened when the active mode's options changed. *)
(* A file that cannot be probed any more leaves the old path playing.      *)
SetModeSettings(new) ==
  LET stream == WithStreamGain(path, mode, new, volume, muted)
      reopen == Reopens(new) /\ path.open
  IN  /\ todo = "none" /\ new # options /\ options' = new
      /\ UNCHANGED <<mode, volume, muted, held, todo>>
      /\ \/ /\ ~reopen /\ path' = stream
            /\ NoOpening /\ UNCHANGED <<active, hw, shown>>
         \/ /\ reopen /\ path' = stream
            /\ outcome' = "failed" /\ shown' = "NoStream" /\ plan' = NoPlan
            /\ UNCHANGED <<active, hw>>
         \/ reopen /\ OpenExclusive(path.plan.source, new)

StopPlayback == path' = NoPath /\ active' = NoActive

(* SetActiveMode: between the exclusive modes the path stays open with the *)
(* plan of the old mode until the track is opened again, unless the modes  *)
(* have devices of their own.  The Compatible mode gives the device up,    *)
(* and its own snapshot outlives it.                                       *)
SetActiveMode(m) ==
  /\ todo = "none" /\ m # mode /\ mode' = m /\ todo' = "open"
  /\ NoOpening /\ UNCHANGED <<options, volume, muted, hw, shown>>
  /\ \/ /\ m # "Compatible"
        /\ path' = WithStreamGain(path, m, options, volume, muted)
        /\ UNCHANGED <<held, active>>
     \/ /\ held # NoDevice
        /\ StopPlayback /\ held' = NoDevice
     \/ /\ m = "Compatible" /\ held = NoDevice
        /\ UNCHANGED <<held, active, path>>

(* select_active_mode goes on: the track, if there is one, is opened       *)
(* again, then the volume and the mute kept for the mode are sent.         *)
SwitchOpens(src) == todo = "open" /\ todo' = "volume" /\ OpenTrack(src)

SwitchSilent ==
  /\ todo = "open" /\ todo' = "volume"
  /\ NoOpening /\ UNCHANGED <<mode, options, volume, muted, held, active, path, hw, shown>>

SwitchVolume(v) ==
  /\ todo = "volume" /\ todo' = "muted"
  /\ mode = "Strict" => v = 100
  /\ ApplyVolume(v)

SwitchMuted(silent) == todo = "muted" /\ todo' = "none" /\ ApplyMuted(silent)

(* The claim of a device ends well.                                        *)
Claimed(caps) ==
  /\ mode # "Compatible" /\ held = NoDevice
  /\ held' = caps /\ hw' = Unreadable
  /\ NoOpening /\ UNCHANGED <<mode, options, volume, muted, active, path, shown, todo>>

(* The device is lost, or given up by the user.                            *)
Released ==
  /\ held # NoDevice
  /\ StopPlayback /\ held' = NoDevice
  /\ NoOpening /\ UNCHANGED <<mode, options, volume, muted, hw, shown, todo>>

(* Stop, and the end of a track, keep the device.                          *)
Stop ==
  /\ StopPlayback
  /\ NoOpening /\ UNCHANGED <<mode, options, volume, muted, held, hw, shown, todo>>

Next ==
  \/ \E src \in Sources : Open(src) \/ SwitchOpens(src)
  \/ \E v \in {50, 100} : SetVolume(v) \/ SwitchVolume(v)
  \/ \E silent \in BOOLEAN : SetMuted(silent) \/ SwitchMuted(silent)
  \/ \E new \in Options : SetModeSettings(new)
  \/ \E m \in Modes : SetActiveMode(m)
  \/ SwitchSilent
  \/ \E caps \in Devices : Claimed(caps)
  \/ Released
  \/ Stop

PathSpec == Init /\ [][Next]_vars

-----------------------------------------------------------------------------
(***************************************************************************)
(* What the samples of the source become in the render and on the wire.    *)
(***************************************************************************)
Unity(pt) == ~pt.muted /\ (pt.stage = "noGain" \/ pt.gain = 100)

(* Words moved as they are: a DoP frame, integers in a field that holds    *)
(* them, floats through a ring of floats with no rate to convert.          *)
BitExact(pt) ==
  LET p == pt.plan
  IN  /\ ~pt.muted
      /\ CarriesSource(p)
      /\ \/ p.route = "dop"
         \/ Unity(pt) /\ (p.exact \/ p.source.kind = "float")
      /\ hw = Target(p)

(* The bit-perfect badge is never shown over an open path that changes the *)
(* samples: not after any order of volume, mute, settings and modes, with  *)
(* a reopening that failed, or with the configuration of the path before.  *)
(* About verdict, refresh_path_gain, apply_gain and the reuse of           *)
(* ConfiguredFormat.                                                       *)
BadgeIsTrue == shown = "BitPerfect" /\ path.open => BitExact(path)

(* The transforms of a plan say that something is lost exactly when the    *)
(* formats on both ends say so.  About the steps of plan_with_device: each *)
(* decides for itself what to write down, from what the steps before did.  *)
LossIsReported ==
  Accepted(plan) => (Lossy(plan) = {} <=> CarriesSource(plan))

(* The Strict mode plays no track whose samples would not arrive whole.    *)
StrictKeepsSource ==
  Accepted(plan) /\ plan.mode = "Strict" =>
    CarriesSource(plan) /\ Lossy(plan) = {}

(* A track the planner accepted is not refused by the player itself.       *)
PlannedTrackOpens == outcome # "unbuilt"
=============================================================================
