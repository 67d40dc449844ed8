---------------------------- MODULE MCSignalPath ----------------------------
(***************************************************************************)
(* Tracks and devices for TLC: each width and kind of source, mono and six *)
(* channels; a DAC with DoP, a 16-bit one of few rates, one of odd formats *)
(* and channels, one of floats alone, two that report a range of rates.    *)
(* One scope opens every track on every device with every option, the      *)
(* others follow a few of them through the commands.                       *)
(***************************************************************************)
EXTENDS SignalPath

CONSTANT Scopes

VARIABLE scope   \* the number of the one that was chosen

mcVars == <<vars, scope>>

Pcm(bits, rate, channels) == [kind |-> "pcm", bits |-> bits, rate |-> rate, channels |-> channels]
Float(bits)  == [kind |-> "float", bits |-> bits, rate |-> 48000, channels |-> 2]
Dsd(rate)    == [kind |-> "dsd", bits |-> 1, rate |-> rate, channels |-> 2]

MCSources == {Pcm(b, r, c) : b \in {16, 24, 32}, r \in {44100, 96000}, c \in {1, 2}}
             \cup {Pcm(24, 192000, 6), Float(32), Float(64), Dsd(2822400), Dsd(5644800)}

List(rates) == [kind |-> "discrete", set |-> rates]
Span(a, b)  == [kind |-> "range", min |-> a, max |-> b]
Dac(rates, channels, formats) ==
  [access |-> "exclusive", rates |-> rates, channels |-> channels, formats |-> formats]

Good  == Dac(List({44100, 96000, 176400, 192000}), {2}, {"S16", "S24_3", "S32"})
Plain == Dac(List({48000, 88200}), {2}, {"S16"})
MCDevices == {Good, Plain,
              Dac(Span(40000, 100000), {4, 6}, {"S24"}),
              Dac(Span(50000, 60000), {}, {"F32", "S16"}),
              Dac(List({44100, 96000}), {}, {"F32"}),
              Dac(List({}), {1, 2}, {"S24", "S32"})}

Stream(rate, sample) == [rate |-> rate, channels |-> 2, sample |-> sample]
MCStreams == {Stream(48000, "F32"), Stream(44100, "S16"), Stream(44100, "F32")}

Opts(lock, dither, dop, rule, filter) ==
  [volumeLock |-> lock, dither |-> dither, dop |-> dop, rateFallback |-> rule, dsdFilter |-> filter]
Loose == Opts(FALSE, TRUE, TRUE, "sameFamily", 30)
Fixed == Opts(TRUE, TRUE, TRUE, "sameFamily", 30)
MCOptions == {Loose, Fixed,
              Opts(FALSE, FALSE, FALSE, "nearest", 50), Opts(TRUE, FALSE, TRUE, "noDownsample", 50)}

(* A scope: the tracks, devices and options, and whether the user does     *)
(* more than open and stop.                                                *)
Scope(s, d, o, all) == [sources |-> s, devices |-> d, options |-> o, commands |-> all]

MCScopes ==
  << Scope(MCSources, MCDevices, MCOptions, FALSE),
     Scope({Pcm(16, 44100, 2), Pcm(24, 96000, 2)}, {Good}, {Loose, Fixed}, TRUE),
     Scope({Dsd(2822400)}, {Good}, {Loose, Opts(FALSE, TRUE, FALSE, "sameFamily", 30)}, TRUE),
     Scope({Pcm(24, 44100, 2)}, {Good, Plain}, {Fixed}, TRUE) >>

MCInit == scope \in DOMAIN Scopes /\ Init /\ options \in Scopes[scope].options

Here == Scopes[scope]

Commands ==
  \/ \E src \in Here.sources : SwitchOpens(src)
  \/ \E v \in {50, 100} : SetVolume(v) \/ SwitchVolume(v)
  \/ \E silent \in BOOLEAN : SetMuted(silent) \/ SwitchMuted(silent)
  \/ \E new \in Here.options : SetModeSettings(new)
  \/ \E m \in Modes : SetActiveMode(m)
  \/ SwitchSilent
  \/ Released

MCNext == /\ \/ \E src \in Here.sources : (outcome = "none" \/ Here.commands) /\ Open(src)
             \/ \E caps \in Here.devices : Claimed(caps)
             \/ Stop
             \/ Here.commands /\ Commands
          /\ UNCHANGED scope

MCSpec == MCInit /\ [][MCNext]_mcVars
=============================================================================
