------------------------------ MODULE MCPlayer ------------------------------
(* Player for TLC, in two scopes: the playlist alone, with two columns and  *)
(* every operation of AppCore on it, and the play queue over a playlist of  *)
(* two tracks that sorts by one column.                                     *)
EXTENDS Player

CONSTANTS MaxInputs,   \* bound: what the user does to the queue
          MaxTracks,   \* bounds: ids given in a session, per scope
          MaxReq       \* bound: openings after which tracks end or fail

VARIABLES scope, inputs

\* By title, and by year and, in one year, album; the second has no album.
MCKeys == {<< <<1>>, <<7, 3>> >>, << <<2>>, <<7, None>> >>}
MCMaxTracks == [table |-> 3, queue |-> 3]

MayAdd(n) == nextId + n <= MaxTracks[scope]

-----------------------------------------------------------------------------
\* The playlist: several tracks may be equal in both columns.

Loads == UNION {[1 .. n -> TrackKeys] : n \in 0 .. 2}

\* EditsTable within the bound, without calls that have the result of another
\* (a row moved before itself goes to the end, two of three rows moved before
\* the third, tags that do not change).  With Shuffle on a move draws the pass
\* anew whatever the order becomes: moves of a row to the end give every order.
MCEditsTable ==
  /\ \/ \E k \in TrackKeys : MayAdd(1) /\ Add(k)
     \/ \E id \in ToSet(rows) : Remove1(id)
     \/ Clear
     \/ \E c \in Columns : HeaderClick(c)
     \/ \E S \in SUBSET ToSet(rows) :
          \E b \in (IF Cardinality(S) = 1 THEN ToSet(rows) \ S ELSE {}) \cup {None} :
            (shuffle => Cardinality(S) = 1 /\ b = None) /\ Reorder(S, b)
     \/ \E id \in ToSet(rows) : \E k \in TrackKeys \ {keys[id]} : UpdateTags(id, k)
     \/ \E ks \in Loads : MayAdd(Len(ks)) /\ Replace(ks)
  /\ UNCHANGED <<shuffle, repeat>>

\* What is left of a pass when Shuffle goes off is not read again.
MCToggleShuffle == (shuffle => history = <<>>) /\ ToggleShuffle

\* Repeat One and no repetition are the same to the pass, and only the pass
\* asks for it: one of the two is enough, with Shuffle on.
MCCycleRepeat == shuffle /\ repeat = "off" /\ CycleRepeat

MCTable ==
  /\ scope = "table"
  /\ MCEditsTable \/ MovesInPass \/ MCToggleShuffle \/ MCCycleRepeat
  /\ UNCHANGED <<queueVars, mirrorVars, tickVars, cmds, events, engine, strayed, inputs>>

-----------------------------------------------------------------------------
\* The queue.

Plain == << <<1>>, <<7, 3>> >>
Other == << <<2>>, <<7, None>> >>

MCUserInput ==
  /\ scope = "queue"
  /\ inputs < MaxInputs /\ inputs' = inputs + 1
  /\ \/ TrayInput
     \/ WindowInput /\ sort' \in {<<>>, <<1, "asc">>, <<1, "desc">>}
     \/ \E n \in 0 .. 2 : MayAdd(n) /\ \E ks \in [1 .. n -> {Plain}] : Loaded(ks)
     \/ MayAdd(1) /\ Scanned(Plain)

\* The UI reads events only when a tick begins, and the engine reads nothing
\* of the UI but cmds: its steps within a tick are those after it.
MCEngine == /\ scope = "queue" /\ phase = "idle"
            /\ EngineCommand \/ (req < MaxReq /\ EnginePolls)
            /\ UNCHANGED inputs

MCTick == scope = "queue" /\ Tick /\ UNCHANGED inputs

MCPlayerInit ==
  /\ inputs = 0
  /\ \/ /\ scope = "table" /\ PlayerInit(<<>>) /\ ~shuffle /\ repeat = "off"
     \/ /\ scope = "queue" /\ PlayerInit(<<Other, Plain>>)

MCPlayerNext == (MCTable \/ MCTick \/ MCEngine \/ MCUserInput) /\ UNCHANGED scope

MCPlayerSpec == MCPlayerInit /\ [][MCPlayerNext]_<<playerVars, scope, inputs>>
=============================================================================
