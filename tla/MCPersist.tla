----------------------------- MODULE MCPersist ------------------------------
(* Persist for TLC.  A behaviour belongs to one of several scopes, each with *)
(* the files that are touched, the ways in which files are found at start,   *)
(* and a bound on the user's and the platform's inputs.                      *)
EXTENDS PersistProps

CONSTANT Scopes

VARIABLES scope, inputs

Healthy == [f \in File |-> "ok"]

\* One file in the ways ks, the others fine.
Finding(f, ks) == {[Healthy EXCEPT ![f] = k] : k \in ks}

\* The session state alone, also without a writer.
StateScope ==
  [active |-> {"state"}, boots |-> Finding("state", {"ok", "absent", "damaged"}),
   intervals |-> {1}, dead |-> BOOLEAN, inputs |-> 4]

\* The playlist alone, found in every way.
PlaylistScope ==
  [active |-> {"playlist"}, boots |-> Finding("playlist", Found),
   intervals |-> {1}, dead |-> {FALSE}, inputs |-> 3]

\* Both TOML files; an explicit save may change the interval.
TomlScope ==
  [active |-> Toml,
   boots |-> Finding("settings", {"unreadable"}) \cup
             {[Healthy EXCEPT !["state"] = k, !["settings"] = "damaged"] :
                k \in {"damaged", "unreadable"}},
   intervals |-> {1}, dead |-> {FALSE}, inputs |-> 2]

\* State and playlist with their common deadline.
SharedScope ==
  [active |-> {"state", "playlist"}, boots |-> {Healthy},
   intervals |-> {1}, dead |-> {FALSE}, inputs |-> 2]

SafetyScopes == {StateScope, PlaylistScope, TomlScope, SharedScope}

LiveScopes == {[StateScope EXCEPT !.inputs = 3],
               [PlaylistScope EXCEPT !.inputs = 2]}

MCInit == /\ scope \in Scopes /\ inputs = 0
          /\ Init
          /\ boot \in scope.boots /\ interval \in scope.intervals
          /\ dead \in scope.dead

\* An exit costs no input unless it brings a change with it.
Counted == inputs' = inputs + (IF phase' = "exiting" /\ mem' = mem THEN 0 ELSE 1)

MCNext == /\ \/ UserStep(scope.active) /\ Counted /\ inputs' <= scope.inputs
             \/ /\ Elapse \/ TickBegin \/ TickLoad \/ HandlerStep \/ WriterStep
                /\ UNCHANGED inputs
          /\ UNCHANGED scope

MCSpec == MCInit /\ [][MCNext]_<<vars, scope, inputs>>

MCFairSpec == MCSpec /\ UiFairness
=============================================================================
