----------------------------- MODULE SavedFiles -----------------------------
(***************************************************************************)
(* What the writer thread apap-persist promises to its client, without the *)
(* channel, the slots or the job queue: every working file is a register   *)
(* that only ever moves forward through the snapshots issued for it, some  *)
(* of which are skipped, and a snapshot is confirmed only when it is what  *)
(* the file holds.  Module Writer is shown to implement this.              *)
(***************************************************************************)
EXTENDS Integers

CONSTANT File

None == -1

VARIABLES issued,     \* for each file, the snapshot ids issued for it
          stored,     \* for each file, the id of the snapshot it holds
          confirmed   \* for each file, the newest id reported as written

vars == <<issued, stored, confirmed>>

TypeOK == /\ issued \in [File -> SUBSET Nat]
          /\ stored \in [File -> Nat \cup {None}]
          /\ confirmed \in [File -> Nat \cup {None}]

Init == /\ issued = [f \in File |-> {}]
        /\ stored = [f \in File |-> None]
        /\ confirmed = [f \in File |-> None]

\* The client issues a new snapshot of file f: ids grow over all files.
Issue(f) == \E i \in issued'[f] :
              /\ i \in Nat /\ \A g \in File : \A j \in issued[g] : j < i
              /\ issued' = [issued EXCEPT ![f] = @ \cup {i}]
              /\ UNCHANGED <<stored, confirmed>>

\* The file comes to hold a newer snapshot that was issued for it.
Store(f, i) == /\ i \in issued[f]
               /\ i > stored[f]
               /\ stored' = [stored EXCEPT ![f] = i]
               /\ UNCHANGED <<issued, confirmed>>

\* The snapshot the file holds is reported as written.
Confirm(f) == /\ confirmed' = [confirmed EXCEPT ![f] = stored[f]]
              /\ UNCHANGED <<issued, stored>>

Next == \E f \in File : \/ Issue(f)
                        \/ \E i \in issued[f] : Store(f, i)
                        \/ Confirm(f)

Spec == Init /\ [][Next]_vars
=============================================================================
