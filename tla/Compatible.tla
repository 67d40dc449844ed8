----------------------------- MODULE Compatible -----------------------------
(***************************************************************************)
(* The engine in the Compatible mode, in detail: what EngineOpen and       *)
(* EngineStop of module Player stand for.  The Player of audio/player.rs   *)
(* owns a session, which the callback and the decoder share, and a stream  *)
(* to the device that Output chooses; the engine (engine/run.rs) opens,    *)
(* reopens and polls it.  Settings, volume and the devices change at any   *)
(* time.  DSD is decoded to PCM here, so all files are opened alike.       *)
(*                                                                         *)
(* The device of the settings decides nothing on Linux: what cpal lists is *)
(* collapsed to one entry, the sinks of the server are not on its list and *)
(* open_pw_node_stream has no caller.  So preferred_device is left out.    *)
(***************************************************************************)
EXTENDS Output, SequencesExt

CONSTANTS Tracks,    \* records [rate, channels]
          Length,    \* positions of a track: 0 .. Length
          Outputs,   \* the devices cpal may list
          Fallback,  \* what cpal calls the default: one of them
          Sinks,     \* ids of sinks of the server (pw-dump), none of them cpal's
          Rates,     \* values of fixed_rate, 0 is none
          Volumes,   \* gains
          MaxOpens   \* bound: openings by the user

ASSUME CompatibleAssumption ==
  /\ Length \in Nat \ {0} /\ MaxOpens \in Nat
  /\ \A t \in Tracks : t.rate \in Nat /\ t.channels \in Nat \ {0}

NoTrack == [rate |-> 0, channels |-> 0]
System == "system"     \* SharedDeviceChoice::SystemDefault

VARIABLES
  host,      \* the devices cpal lists
  catalog,   \* [sinks, known]: the sinks of catalog.shared, shared_catalog_known
  settings,  \* ModeSettings.compatible: [device, fixed, dither]
  volume,    \* last_volume
  eng,       \* Engine: [current, stopped, failed], opens: how often so far
  player,    \* Player: [fixed, dither, volume, session, stream, ack, news]
  out,       \* the events of the step that has just been made
  behind     \* for the properties: settings the stream may not have, and why

vars == <<host, catalog, settings, volume, eng, player, out, behind>>

NoSession == [track |-> NoTrack, pos |-> 0, playing |-> FALSE, ended |-> FALSE,
              seeking |-> FALSE, gain |-> 0]
NoStream == [to |-> Nothing, dither |-> FALSE, runs |-> FALSE]

\* at_end and is_playing.
AtEnd(p) == p.session.ended /\ ~p.session.seeking
IsPlaying(p) == p.session.playing /\ ~AtEnd(p)

-----------------------------------------------------------------------------
(* Player                                                                   *)

\* select_output_for with what the Player was last told.
Chosen(p, t) == LET d == Collapse(host, Fallback)
                IN IF d = Nothing THEN Nothing
                   ELSE ChooseOutput(d, t.rate, t.channels, p.fixed)

\* teardown, before the output is asked for.  decode_events stays.
TornDown(p) == [p EXCEPT !.session = NoSession, !.stream = NoStream]

\* install after apply_state: the session of track t from pos.
Opened(p, t, pos, runs) ==
  [p EXCEPT !.session = [track |-> t, pos |-> pos, playing |-> FALSE,
                         ended |-> FALSE, seeking |-> FALSE, gain |-> p.volume],
            !.stream = [to |-> Chosen(p, t), dither |-> p.dither, runs |-> runs],
            !.ack = FALSE, !.news = "none"]

\* What may become of open_pcm, and the error it leaves: the file is no good
\* ("file", the old session stays); there is no output, it cannot be built or
\* the start buffer is not filled ("output"); the decoder's thread does not
\* start ("fault").  A stream that cannot be started is installed all the same.
OpenAt(p, t, pos) ==
  {[p |-> p, err |-> "file"]}
    \cup {[p |-> TornDown(p), err |-> x] : x \in {"output", "fault"}}
    \cup (IF Chosen(p, t) = Nothing THEN {}
          ELSE {[p |-> Opened(p, t, pos, r), err |-> "none"] : r \in BOOLEAN})

\* seek, and play.  The callback takes the seek when it runs.
SeekTo(p, pos) ==
  IF p.session = NoSession THEN p
  ELSE [p EXCEPT !.session.pos = pos, !.session.seeking = TRUE, !.ack = FALSE]
Started(p) ==
  IF p.session = NoSession THEN p
  ELSE [(IF AtEnd(p) THEN SeekTo(p, 0) ELSE p)
        EXCEPT !.session.playing = TRUE, !.ack = FALSE]

\* Player::stop.
Halted(p) == IF p.session = NoSession THEN p
             ELSE [SeekTo(p, 0) EXCEPT !.session.playing = FALSE]

\* release_engine: the session stays, for its position and its flags.
Released(p) == [p EXCEPT !.stream = NoStream]

\* set_dither: a new value reopens the current track where there is a stream
\* (reopen_current).
WithDither(p, d) ==
  LET q == [p EXCEPT !.dither = d]
      pos == IF AtEnd(p) THEN 0 ELSE p.session.pos
  IN IF p.dither = d \/ p.stream = NoStream THEN {q}
     ELSE {IF r.err = "none" /\ IsPlaying(p) THEN Started(r.p) ELSE r.p :
             r \in OpenAt(q, p.session.track, pos)}

\* apply_legacy_fields.
Applied(p, s) == WithDither([p EXCEPT !.fixed = s.fixed], s.dither)

-----------------------------------------------------------------------------
(* Commands                                                                 *)

\* Open, of a file whose header is no good and of the others.
Open ==
  /\ eng.opens < MaxOpens
  /\ \E t \in Tracks, start \in {0, 1}, autoplay \in BOOLEAN :
       \/ /\ out' = <<"Skipped">>
          /\ eng' = [eng EXCEPT !.opens = @ + 1]
          /\ UNCHANGED <<player, behind>>
       \/ \E r \in OpenAt(player, t, 0) :
            IF r.err = "none"
            THEN LET q == IF start = 0 THEN r.p ELSE SeekTo(r.p, start)
                 IN /\ player' = IF autoplay THEN Started(q) ELSE q
                    /\ eng' = [current |-> t, stopped |-> FALSE, failed |-> FALSE,
                               opens |-> eng.opens + 1]
                    /\ out' = <<"Opened">>
                    /\ behind' = IF behind = "stopped" THEN "no" ELSE behind
            ELSE /\ player' = r.p
                 /\ eng' = [eng EXCEPT !.opens = @ + 1]
                 /\ out' = <<IF r.err = "fault" THEN "OpenFailed" ELSE "Skipped">>
                 /\ UNCHANGED behind
  /\ UNCHANGED <<host, catalog, settings, volume>>

\* What leaves everything but the Player alone.
PlayerOnly == out' = <<>> /\ UNCHANGED <<host, catalog, settings, volume, behind>>

Play == /\ player' = Started(player)
        /\ eng' = [eng EXCEPT !.stopped = FALSE]
        /\ PlayerOnly

\* Pause, only of what plays.
Pause == /\ IsPlaying(player)
         /\ player' = [player EXCEPT !.session.playing = FALSE]
         /\ UNCHANGED eng /\ PlayerOnly

\* stop_playback: the stream stays open.
Stop == /\ player' = Halted(player)
        /\ eng' = [eng EXCEPT !.stopped = TRUE]
        /\ PlayerOnly

Seek == /\ player.session # NoSession
        /\ \E pos \in 0 .. Length : player' = SeekTo(player, pos)
        /\ UNCHANGED eng /\ PlayerOnly

SetVolume ==
  /\ \E v \in Volumes :
       /\ volume' = v
       /\ player' = [player EXCEPT !.volume = v,
                                   !.session.gain = IF player.session = NoSession
                                                    THEN 0 ELSE v]
  /\ out' = <<>>
  /\ UNCHANGED <<host, catalog, settings, eng, behind>>

\* migrate_vanished_compatible_device, by catalogue c.
Migrated(s, c) == IF c.known /\ s.device \in Sinks \ c.sinks
                  THEN [s EXCEPT !.device = System] ELSE s

\* Mutant: the position is not restored.
ReopenFromStart(s) ==
  IF eng.current = NoTrack
  THEN player' \in Applied(player, s) /\ out' = <<>> /\ UNCHANGED eng
  ELSE \E q \in Applied(Released(player), s) : \E r \in OpenAt(q, eng.current, 0) :
         IF r.err = "none"
         THEN /\ player' = IF IsPlaying(player) THEN Started(r.p) ELSE r.p
              /\ out' = <<>>
              /\ UNCHANGED eng
         ELSE /\ player' = r.p
              /\ eng' = [eng EXCEPT !.stopped = TRUE]
              /\ out' = <<"OpenFailed">>

\* Mutant: the track is opened before the Player is told.
ReopenUntold(s) ==
  IF eng.current = NoTrack
  THEN player' \in Applied(player, s) /\ out' = <<>> /\ UNCHANGED eng
  ELSE \E r \in OpenAt(Released(player), eng.current, 0) :
         /\ player' \in Applied([r.p EXCEPT !.session.playing = player.session.playing], s)
         /\ out' = IF r.err = "none" THEN <<>> ELSE <<"OpenFailed">>
         /\ eng' = [eng EXCEPT !.stopped = (r.err # "none")]

\* reopen_with_legacy: once, at the position, playing if it played.
Reopen(s) ==
  LET pos == player.session.pos
  IN IF eng.current = NoTrack
     THEN player' \in Applied(player, s) /\ out' = <<>> /\ UNCHANGED eng
     ELSE \E q \in Applied(Released(player), s) : \E r \in OpenAt(q, eng.current, 0) :
            IF r.err = "none"
            THEN LET w == IF pos > 0 THEN SeekTo(r.p, pos) ELSE r.p
                 IN /\ player' = IF IsPlaying(player) THEN Started(w) ELSE w
                    /\ out' = <<>>
                    /\ UNCHANGED eng
            ELSE /\ player' = r.p
                 /\ eng' = [eng EXCEPT !.stopped = TRUE]
                 /\ out' = <<"OpenFailed">>

\* SetModeSettings with a change that needs the stream anew
\* (mode_apply_action): a stopped engine only keeps it for the next Open.
SetModeSettings ==
  /\ \E dev \in {System, "pipewire", settings.device} \cup catalog.sinks,
        f \in Rates, d \in BOOLEAN :
       LET new == [device |-> dev, fixed |-> f, dither |-> d]
           s == Migrated(new, catalog)
       IN /\ settings # new
          /\ settings' = s
          /\ IF eng.stopped
             THEN player' \in Applied(player, s) /\ out' = <<>> /\ UNCHANGED eng
             ELSE Reopen(s)
          /\ behind' = IF eng.stopped THEN "stopped" ELSE "no"
  /\ UNCHANGED <<host, catalog, volume>>

Command == Open \/ Play \/ Pause \/ Stop \/ Seek \/ SetVolume \/ SetModeSettings

-----------------------------------------------------------------------------
(* The rest of the engine's loop, and what runs beside it                   *)

\* A device comes or goes for cpal; the engine is not told.
HostChanges ==
  /\ \E d \in Outputs :
       host' = IF d \in host THEN host \ {d} ELSE host \cup {d}
  /\ out' = <<>>
  /\ UNCHANGED <<catalog, settings, volume, eng, player, behind>>

\* SharedEnumerateDone, with the sinks unless pw-dump has failed: one that is
\* gone is not the choice any more.  Nothing is opened anew.
Enumerated ==
  /\ catalog' \in {[sinks |-> S, known |-> TRUE] : S \in SUBSET Sinks}
                 \cup {[sinks |-> {}, known |-> FALSE]}
  /\ settings' = Migrated(settings, catalog')
  /\ out' = IF settings' # settings THEN <<"Notice">> ELSE <<>>
  /\ UNCHANGED <<host, volume, eng, player, behind>>

\* poll_session: a decoder that has failed is reported once and keeps its
\* track from being reported as over.
PollFailure ==
  /\ player.news = "failed"
  /\ player' = [player EXCEPT !.news = "none"]
  /\ eng' = [eng EXCEPT !.failed = TRUE]
  /\ out' = IF eng.current = NoTrack THEN <<>> ELSE <<"Skipped">>
  /\ UNCHANGED <<host, catalog, settings, volume, behind>>

\* poll_session: the end is reported once (clear_end).
PollEnd ==
  /\ player.news = "none" /\ AtEnd(player) /\ ~player.ack
  /\ player' = [player EXCEPT !.ack = TRUE]
  /\ out' = IF eng.failed \/ eng.current = NoTrack THEN <<>> ELSE <<"Ended">>
  /\ UNCHANGED <<host, catalog, settings, volume, eng, behind>>

\* A period of the callback.  It takes a seek that was asked for, playing or
\* not; of a failed decoder it sees the end of the track.
Callback ==
  /\ player.stream.runs
  /\ \/ /\ player.session.seeking
        /\ player' = [player EXCEPT !.session.seeking = FALSE, !.session.ended = FALSE]
     \/ /\ ~player.session.seeking /\ player.session.playing /\ ~player.session.ended
        /\ player' = [player EXCEPT
                        !.session.pos = IF @ < Length THEN @ + 1 ELSE @,
                        !.session.ended = (player.session.pos = Length)]
  /\ UNCHANGED eng /\ PlayerOnly

\* The decoder meets a damaged place.
DecoderFails ==
  /\ player.stream # NoStream /\ player.news = "none" /\ ~eng.failed
  /\ player' = [player EXCEPT !.news = "failed"]
  /\ UNCHANGED eng /\ PlayerOnly

\* The start: startup_commands.  The settings are stored, but not one of them
\* is a change and the mode is the one the engine has, so that of them all only
\* the device (SetDevice) reaches the Player, and the volume.
Init ==
  /\ host \in SUBSET Outputs /\ catalog = [sinks |-> {}, known |-> FALSE]
  /\ settings \in [device : {System, "pipewire"} \cup Sinks, fixed : Rates, dither : BOOLEAN]
  /\ volume \in Volumes
  /\ eng = [current |-> NoTrack, stopped |-> TRUE, failed |-> FALSE, opens |-> 0]
  /\ player = [fixed |-> 0, dither |-> TRUE,
               volume |-> volume, session |-> NoSession, stream |-> NoStream,
               ack |-> FALSE, news |-> "none"]
  /\ out = <<>> /\ behind = "start"

Next == \/ Command \/ HostChanges \/ Enumerated
        \/ PollFailure \/ PollEnd \/ Callback \/ DecoderFails

Spec == Init /\ [][Next]_vars

-----------------------------------------------------------------------------

\* What the stream should give track t under the settings.
Wanted(t) == IF settings.fixed # 0 THEN settings.fixed ELSE t.rate

\* A stream that is open has what the settings and the volume say now, through
\* every reopening, failure and change of device: the dither, the gain, the
\* rate wished for or the report that the device has it not; no loss goes
\* without a reason, nor a reason other than that without a loss (ADR-04); and
\* it never goes past the server to bare hardware (ADR-07).  Known exceptions:
\* the settings found at start until they are changed (behind = "start"), and
\* what was changed while stopped until the next Open.
StreamIsAsSet ==
  player.stream # NoStream /\ behind = "no" =>
    LET t == player.session.track
        o == player.stream.to
    IN /\ player.stream.dither = settings.dither
       /\ player.session.gain = volume
       /\ o.reason # "rate" =>
            /\ o.rate = Wanted(t)
            /\ o.reason = "none" <=> o.rate = t.rate /\ o.ch = t.channels
       /\ o.kind # "hw"

Sounding == player.stream.runs /\ IsPlaying(player)

\* What sounds goes on where it is, or the queue is told why it does not: a
\* change of settings never loses the position, starts another track or stops
\* without an event.  Known exception: a stream that cannot be started after
\* a reopening is not reported (stream'.runs is not asked for).
GoesOnOrIsTold ==
  [][ Sounding =>
        \/ /\ player'.session.playing
           /\ player'.session.track = player.session.track
           /\ player'.session.pos \in {player.session.pos, player.session.pos + 1}
        \/ ToSet(out') \cap {"Skipped", "OpenFailed"} # {}
        \/ Open \/ Stop \/ Pause \/ Seek ]_vars
=============================================================================
