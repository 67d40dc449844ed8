----------------------------- MODULE MCSession -----------------------------
(* Session for TLC: where it starts, and where its seeks go.  The source    *)
(* carries out the first, refuses one of the others and fails once at the   *)
(* most; the user starts and stops the sound before the first seek.  (The   *)
(* theorems of SessionProofs know of no such bound.)                        *)
EXTENDS Session, FiniteSets

CONSTANTS Start, Targets

MCTargets == <<2, 0>>

MCInit == SessionInit /\ pos = Start /\ refused = {}

MCDecode == Decode /\ Cardinality(refused') <= 1 /\ Cardinality(broke') <= 1

MCNext == \/ MCDecode
          \/ Output \/ Started \/ NotStarted \/ Close \/ Joins
          \/ requested = 1 /\ PlayPause
          \/ Len(asked) <= Len(Targets) /\ StoreTarget(Targets[Len(asked)])

MCSpec == MCInit /\ [][MCNext]_vars /\ Scheduled
=============================================================================
