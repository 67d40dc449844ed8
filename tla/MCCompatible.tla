---------------------------- MODULE MCCompatible ----------------------------
(* Compatible for TLC: a server with two aliases that differ in what they   *)
(* offer, bare hardware, one sink, and two tracks of which one suits the    *)
(* first alias.  A behaviour belongs to a scope, which says what changes.   *)
EXTENDS Compatible

CONSTANT Scopes

VARIABLE scope

From(c, lo, hi) == [ch |-> c, min |-> lo, max |-> hi]
Device(id, c, rate, ranges) ==
  [id |-> id, kind |-> id, channels |-> c, rate |-> rate, ranges |-> ranges]

PipeWire == Device("pipewire", 2, 48000, {From(2, 44100, 44100)})
Default == Device("default", 1, 44100, {From(1, 44100, 44100), From(1, 96000, 96000)})
Hardware == Device("hw", 2, 44100, {From(2, 44100, 192000)})

MCOutputs == {PipeWire, Default, Hardware}
MCTracks == {[rate |-> 44100, channels |-> 2], [rate |-> 96000, channels |-> 1]}

\* Devices that come and go; rate and dither; the volume.  Each with the
\* openings by the user that it allows.
MCScopes ==
  << [hosts |-> {{}, {Default}, {Hardware, Default}}, sinks |-> {"sink"}, rates |-> {0},
      dithers |-> {TRUE}, volumes |-> {100}, opens |-> 2],
     [hosts |-> {{PipeWire, Default}}, sinks |-> {}, rates |-> {0, 96000},
      dithers |-> BOOLEAN, volumes |-> {100}, opens |-> 1],
     [hosts |-> {{Hardware}}, sinks |-> {}, rates |-> {0, 96000},
      dithers |-> {TRUE}, volumes |-> {50, 100}, opens |-> 1] >>

Within == LET here == Scopes[scope]
          IN /\ host \in here.hosts /\ catalog.sinks \subseteq here.sinks
             /\ settings.device \in {System, "pipewire"} \cup here.sinks
             /\ settings.fixed \in here.rates /\ settings.dither \in here.dithers
             /\ volume \in here.volumes /\ eng.opens <= here.opens

MCInit == scope \in DOMAIN Scopes /\ Init /\ Within
MCNext == Next /\ UNCHANGED scope /\ Within'

MCSpec == MCInit /\ [][MCNext]_<<vars, scope>>
=============================================================================
