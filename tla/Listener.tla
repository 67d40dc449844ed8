------------------------------ MODULE Listener ------------------------------
(***************************************************************************)
(* What a session promises to whoever listens to the frames it hands to    *)
(* the device, without threads, ring or handshake: frames come in order    *)
(* and none is left out between two periods; a seek is heard as one jump,  *)
(* to its target or to a later one, or to a frame a little before it; what *)
(* was left behind is never heard again; and beyond the track there is     *)
(* nothing but the silence that a source leaves when it fails.             *)
(***************************************************************************)
EXTENDS Integers, Sequences

CONSTANTS Length,  \* frames of the track
          Period,  \* frames of one period of the device
          Align,   \* how far before its target a seek may land
          Silence  \* frames of silence after a failure

VARIABLES asked,    \* the targets, by the number of the seek; the first is the start
          refused,  \* seeks that the source could not carry out
          broke,    \* seeks after which the source failed
          given     \* the last frame handed over: [g: its seek, n: its number]

listenerVars == <<asked, refused, broke, given>>

Lands(t) == ((t - Align) .. t) \cap Nat

Init == /\ asked \in {<<t>> : t \in 0 .. Length}
        /\ refused \in {{}, {1}} /\ broke = {}
        /\ given = [g |-> 0, n |-> -1]

Ask == /\ \E t \in 0 .. Length : asked' = Append(asked, t)
       /\ UNCHANGED <<refused, broke, given>>

Refuse == /\ \E s \in SUBSET DOMAIN asked : refused' = refused \cup s
          /\ UNCHANGED <<asked, broke, given>>

Break == /\ \E s \in SUBSET DOMAIN asked : broke' = broke \cup s
         /\ UNCHANGED <<asked, refused, given>>

\* Some frames of a period that come after what was heard last.
Continue == /\ given.g > 0
            /\ \E k \in 1 .. Period : given' = [given EXCEPT !.n = @ + k]

\* The first frames of a later seek: they begin where a seek to its target, or
\* to that of a seek that has come meanwhile, may land.
Jump == \E g \in (given.g + 1) .. Len(asked) :
          \/ \E h \in g .. Len(asked), k \in 1 .. Period :
               \E n \in Lands(asked[h]) : given' = [g |-> g, n |-> n + k - 1]
          \/ g \in refused /\ given' \in [g : {g}, n : 0 .. Length + Silence]

Reach(g) == IF g \in broke THEN Length + Silence ELSE Length

Hear == /\ Continue \/ Jump
        /\ given'.n < Reach(given'.g)
        /\ UNCHANGED <<asked, refused, broke>>

Next == Ask \/ Refuse \/ Break \/ Hear

Spec == Init /\ [][Next]_listenerVars
=============================================================================
