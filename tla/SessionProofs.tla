--------------------------- MODULE SessionProofs ---------------------------
(***************************************************************************)
(* The ring of a session never mixes generations, the position shown is    *)
(* the one heard, the end of the track is its end, and what is heard is    *)
(* what the listener was promised: for every length of the track, every    *)
(* size of the ring, and seeks at any moment.                              *)
(***************************************************************************)
EXTENDS Session, SequenceTheorems, TLAPS

Frame == [g : Nat, n : Int]

\* What the steps that write to the ring need to know of its frames.
TypesOK ==
  /\ {target, aim} \subseteq 0 .. Length /\ {source, landed} \subseteq Nat
  /\ {requested, stopped, acked, seen, myGen, req, tail} \subseteq Nat
  /\ ring \in Seq(Frame) /\ Len(ring) <= Capacity
  /\ waitAck \in BOOLEAN

\* The handshake.  The decoder stops a generation and waits until it is
\* acknowledged; the callback flushes what has been stopped and then
\* acknowledges it, so whoever is at work agrees with the other.
Handshake ==
  /\ acked <= stopped /\ stopped = myGen /\ myGen <= seen /\ seen <= requested
  /\ myGen # acked => waitAck
  /\ dpc = "work" => myGen = acked /\ ~waitAck
  /\ cpc \in {"flush", "ack"} => acked < req /\ req <= requested
  /\ cpc = "ack" => req <= stopped /\ ring = <<>>

\* A source that has not failed is within the track, and at its end when it is
\* done; one that has failed leaves one refill of silence at the most.
Drained ==
  /\ source <= Length + Packet
  /\ failed => done
  /\ ~failed => source <= Length /\ (done => source = Length)

RingInv == TypesOK /\ Handshake /\ Drained /\ RingIsCurrent

\* What the steps that leave the decoder's source alone keep.
LEMMA NumbersAreInts ==
  ASSUME TypesOK
  PROVE  /\ {target, aim, source, landed, tail} \subseteq Nat
         /\ {Length, Packet, Period, Capacity} \subseteq Nat \ {0} /\ Align \in Nat
BY SessionAssumption DEF TypesOK

LEMMA MinFacts ==
  ASSUME NEW a \in Int, NEW b \in Int
  PROVE  Min({a, b}) \in {a, b} /\ Min({a, b}) <= a /\ Min({a, b}) <= b
<1>1. \E x \in {a, b} : \A y \in {a, b} : x <= y
  OBVIOUS
<1>. QED  BY <1>1 DEF Min

\* As many frames of the tail as fit go to the end of the ring.
LEMMA WriteTailDoes ==
  ASSUME RingInv, NEW t \in Nat, WriteTail(t), source' \in Int
  PROVE  \E k \in 0 .. t :
           /\ ring' \in Seq(Frame) /\ Len(ring') = Len(ring) + k /\ Len(ring') <= Capacity
           /\ tail' = t - k /\ written' = written + k
           /\ \A i \in 1 .. Len(ring) : ring'[i] = ring[i]
           /\ \A i \in Len(ring) + 1 .. Len(ring) + k :
                ring'[i] = [g |-> myGen, n |-> (source' - t) + (i - Len(ring)) - 1]
<1>. DEFINE k == Min({t, Capacity - Len(ring)})
            f == Frames(myGen, source' - t, k)
<1>1. /\ ring \in Seq(Frame) /\ Len(ring) \in Nat /\ Len(ring) <= Capacity /\ myGen \in Nat
      /\ Capacity \in Nat
  BY SessionAssumption DEF RingInv, TypesOK
<1>2. k \in 0 .. t /\ k <= Capacity - Len(ring)
  <2>. DEFINE room == Capacity - Len(ring)
  <2>1. room \in Nat
    BY <1>1
  <2>. HIDE DEF room
  <2>2. Min({t, room}) \in {t, room} /\ Min({t, room}) <= t /\ Min({t, room}) <= room
    <3>1. t \in Int /\ room \in Int
      BY <2>1
    <3>. QED  BY <3>1, MinFacts, Zenon
  <2>. QED  BY <2>1, <2>2 DEF room
<1>3. ring' = ring \o f /\ tail' = t - k /\ written' = written + k
  BY DEF WriteTail
<1>. HIDE DEF k
<1>4. f = [i \in 1 .. k |-> [g |-> myGen, n |-> (source' - t) + i - 1]]
  BY DEF Frames
<1>. HIDE DEF f
<1>5. f \in Seq(Frame) /\ Len(f) = k
  <2>1. \A i \in 1 .. k : [g |-> myGen, n |-> (source' - t) + i - 1] \in Frame
    BY <1>1, <1>2 DEF Frame
  <2>2. f \in [1 .. k -> Frame]
    BY <1>4, <2>1
  <2>. QED  BY <1>2, <2>2, SeqDef
<1>6. /\ ring' \in Seq(Frame) /\ Len(ring') = Len(ring) + k
      /\ \A i \in 1 .. Len(ring) + k :
           ring'[i] = IF i <= Len(ring) THEN ring[i] ELSE f[i - Len(ring)]
  BY <1>1, <1>3, <1>5, ConcatProperties
<1>7. \A i \in Len(ring) + 1 .. Len(ring) + k : i - Len(ring) \in 1 .. k
  BY <1>1, <1>2
<1>8. \A i \in Len(ring) + 1 .. Len(ring) + k : ring'[i] = f[i - Len(ring)]
  BY <1>1, <1>2, <1>6
<1>9. \A i \in Len(ring) + 1 .. Len(ring) + k :
        ring'[i] = [g |-> myGen, n |-> (source' - t) + (i - Len(ring)) - 1]
  BY <1>4, <1>7, <1>8
<1>10. \A i \in 1 .. Len(ring) : ring'[i] = ring[i]
  BY <1>1, <1>2, <1>6
<1>. QED  BY <1>1, <1>2, <1>3, <1>6, <1>9, <1>10

\* They are of the generation the decoder is in.
LEMMA WriteStep ==
  ASSUME RingInv, myGen = acked, NEW t \in Nat, WriteTail(t), source' \in Int,
         acked' = acked
  PROVE  /\ ring' \in Seq(Frame) /\ Len(ring') <= Capacity /\ tail' \in Nat
         /\ RingIsCurrent'
<1>1. PICK k \in 0 .. t :
        /\ ring' \in Seq(Frame) /\ Len(ring') = Len(ring) + k /\ Len(ring') <= Capacity
        /\ tail' = t - k
        /\ \A i \in 1 .. Len(ring) : ring'[i] = ring[i]
        /\ \A i \in Len(ring) + 1 .. Len(ring) + k :
             ring'[i] = [g |-> myGen, n |-> (source' - t) + (i - Len(ring)) - 1]
  BY WriteTailDoes
<1>2. Len(ring) \in Nat /\ \A i \in 1 .. Len(ring) : ring[i].g = acked
  BY DEF RingInv, TypesOK, RingIsCurrent
<1>3. \A i \in 1 .. Len(ring) : ring'[i].g = acked
  BY <1>1, <1>2
<1>4. ASSUME NEW i \in Len(ring) + 1 .. Len(ring) + k
      PROVE  ring'[i].g = acked
  <2>1. ring'[i] = [g |-> myGen, n |-> (source' - t) + (i - Len(ring)) - 1]
    BY <1>1
  <2>. QED  BY <2>1
<1>5. \A i \in 1 .. Len(ring') : i \in 1 .. Len(ring) \/ i \in Len(ring) + 1 .. Len(ring) + k
  BY <1>1, <1>2
<1>6. RingIsCurrent'
  BY <1>1, <1>3, <1>4, <1>5 DEF RingIsCurrent
<1>. QED  BY <1>1, <1>6

\* A period is taken from the front of the ring, or none.
LEMMA PlayDoes ==
  ASSUME RingInv, Play
  PROVE  \/ UNCHANGED <<ring, pos, given>>
         \/ \E k \in 0 .. Period :
              /\ k <= Len(ring)
              /\ ring' \in Seq(Frame) /\ Len(ring') = Len(ring) - k
              /\ \A i \in 1 .. Len(ring) - k : ring'[i] = ring[k + i]
              /\ pos' = pos + k
              /\ given' = IF k = 0 THEN given ELSE ring[k]
<1>. DEFINE n == Len(ring)
            k == Min({Period, n})
<1>1. ring \in Seq(Frame) /\ n \in Nat /\ Period \in Nat
  BY SessionAssumption DEF RingInv, TypesOK
<1>2. k \in 0 .. Period /\ k <= n
  <2>. HIDE DEF n
  <2>1. n \in Int /\ Period \in Int
    BY <1>1
  <2>2. Min({Period, n}) \in {Period, n} /\ Min({Period, n}) <= n /\ Min({Period, n}) <= Period
    BY <2>1, MinFacts, Zenon
  <2>. QED  BY <1>1, <2>2
<1>3. \/ UNCHANGED <<ring, pos, given>>
      \/ /\ ring' = SubSeq(ring, k + 1, Len(ring))
         /\ pos' = pos + k
         /\ given' = IF k = 0 THEN given ELSE ring[k]
  BY DEF Play
<1>. HIDE DEF k
<1>4. CASE ring' = SubSeq(ring, k + 1, Len(ring))
  <2>1. \A i \in k + 1 .. Len(ring) : ring[i] \in Frame
    BY <1>1, <1>2
  <2>. QED  BY <1>1, <1>2, <1>3, <1>4, <2>1
<1>. QED  BY <1>3, <1>4

-----------------------------------------------------------------------------
(* Steps of the decoder, the output thread and the engine                  *)

\* One step of the decoder publishes the end, or writes what is in the tail:
\* a new packet, the silence after a failure, or what was left of them.
LEMMA WorkDoes ==
  ASSUME RingInv, Work
  PROVE  /\ source' \in Nat /\ Drained'
         /\ \/ UNCHANGED source /\ tail = 0 /\ done' /\ PublishEof
            \/ \E t \in Nat :
                 WriteTail(t) /\ source' - t = source - tail /\ (tail > 0 \/ ~done)
         /\ broke' \in {broke, broke \cup {myGen}}
         /\ source' # source /\ source' > Length => myGen \in broke'
<1>1. /\ {source, tail} \subseteq Nat /\ {Length, Packet} \subseteq Nat \ {0} /\ Drained
  BY NumbersAreInts DEF RingInv
<1>2. CASE Refill
  <2>1. tail = 0 /\ ~done /\ ~failed /\ source <= Length
    BY <1>1, <1>2 DEF Refill, Drained
  <2>2. CASE source < Length /\ source' = Min({source + Packet, Length})
             /\ UNCHANGED <<done, failed, broke>> /\ WriteTail(source' - source)
    <3>. DEFINE next == source + Packet
    <3>1. next \in Int /\ source < next /\ Length \in Int
      BY <1>1
    <3>. HIDE DEF next
    <3>2. Min({next, Length}) \in {next, Length} /\ Min({next, Length}) <= Length
      BY <3>1, MinFacts, Zenon
    <3>3. source' \in {next, Length} /\ source' <= Length
      BY <2>2, <3>2 DEF next
    <3>4. source' \in Nat /\ source' - source \in Nat /\ source' - (source' - source) = source
      BY <1>1, <2>2, <3>1, <3>3
    <3>5. Drained'
      BY <1>1, <2>1, <2>2, <3>3, <3>4 DEF Drained
    <3>6. \E t \in Nat : WriteTail(t) /\ source' - t = source - tail /\ (tail > 0 \/ ~done)
      BY <1>1, <2>1, <2>2, <3>4
    <3>7. broke' = broke /\ ~(source' > Length)
      BY <1>1, <2>2, <3>3, <3>4
    <3>. QED  BY <3>4, <3>5, <3>6, <3>7
  <2>3. CASE source = Length /\ done' = TRUE /\ UNCHANGED <<source, failed, broke>>
             /\ PublishEof
    BY <1>1, <2>1, <2>3 DEF Drained
  <2>4. CASE /\ done' = TRUE /\ failed' = TRUE /\ broke' = broke \cup {myGen}
             /\ source' = source /\ PublishEof
    BY <1>1, <2>1, <2>4 DEF Drained
  <2>5. CASE /\ done' = TRUE /\ failed' = TRUE /\ broke' = broke \cup {myGen}
             /\ source' = source + Packet /\ WriteTail(Packet)
    <3>1. source' \in Nat /\ source' - Packet = source - tail /\ source' <= Length + Packet
      BY <1>1, <2>1, <2>5
    <3>. QED  BY <1>1, <2>1, <2>5, <3>1 DEF Drained
  <2>. QED  BY <1>2, <2>2, <2>3, <2>4, <2>5 DEF Refill
<1>3. CASE tail > 0 /\ UNCHANGED <<source, done, failed, broke>> /\ WriteTail(tail)
  BY <1>1, <1>3 DEF Drained
<1>4. CASE tail = 0 /\ done /\ UNCHANGED <<source, done, failed, broke>> /\ PublishEof
  BY <1>1, <1>4 DEF Drained
<1>. QED  BY <1>2, <1>3, <1>4 DEF Work

LEMMA WorkStep ==
  ASSUME RingInv, Work
  PROVE  RingInv'
<1>1. /\ UNCHANGED <<target, requested, stopped, acked, seen, aim, myGen, waitAck, req, cpc,
                     landed>>
      /\ dpc = "work" /\ dpc' = "poll"
  BY DEF Work, Goes, output
<1>2. myGen = acked /\ ~waitAck
  BY <1>1 DEF RingInv, Handshake
<1>3. source' \in Nat /\ Drained'
  BY WorkDoes
<1>4. source' \in Int /\ tail \in Nat
  BY <1>3 DEF RingInv, TypesOK
<1>5. ring' \in Seq(Frame) /\ Len(ring') <= Capacity /\ tail' \in Nat /\ RingIsCurrent'
  <2>1. CASE PublishEof
    BY <1>1, <2>1 DEF PublishEof, RingInv, TypesOK, RingIsCurrent
  <2>2. ASSUME NEW t \in Nat, WriteTail(t)
        PROVE  ring' \in Seq(Frame) /\ Len(ring') <= Capacity /\ tail' \in Nat /\ RingIsCurrent'
    BY <1>1, <1>2, <1>4, <2>2, WriteStep
  <2>. QED  BY <2>1, <2>2, WorkDoes
<1>6. Handshake'
  <2>1. cpc # "ack"
    BY <1>1, <1>2 DEF RingInv, TypesOK, Handshake
  <2>. QED  BY <1>1, <2>1 DEF RingInv, Handshake
<1>. QED  BY <1>1, <1>3, <1>5, <1>6 DEF RingInv, TypesOK

\* Where a source stands after a seek, carried out or refused.
LEMMA ResetDoes ==
  ASSUME RingInv, Reset
  PROVE  /\ source' \in 0 .. Length /\ landed' = source' /\ Drained'
         /\ \/ source' \in Lands(aim) /\ refused' = refused
            \/ refused' = refused \cup {seen}
<1>1. {source, aim, landed} \subseteq Nat /\ {Length, Packet} \subseteq Nat \ {0} /\ Align \in Nat
      /\ aim <= Length
  BY NumbersAreInts DEF RingInv, TypesOK
<1>2. CASE source' \in Lands(aim) /\ refused' = refused
  BY <1>1, <1>2 DEF Reset, Lands, Drained
<1>3. CASE source' \in (IF failed THEN {Length} ELSE source .. Length)
           /\ refused' = refused \cup {seen}
  BY <1>1, <1>3 DEF Reset, Drained
<1>. QED  BY <1>2, <1>3 DEF Reset

LEMMA DecodeStep ==
  ASSUME RingInv, Decode
  PROVE  RingInv'
<1>1. CASE Poll
  BY <1>1 DEF Poll, RingInv, TypesOK, Handshake, Drained, RingIsCurrent, shared, output, history
<1>2. CASE Aim
  BY <1>2 DEF Aim, Goes, RingInv, TypesOK, Handshake, Drained, RingIsCurrent, shared, output, history
<1>3. CASE Again
  BY <1>3 DEF Again, RingInv, TypesOK, Handshake, Drained, RingIsCurrent, shared, output, history
<1>4. CASE Reset
  <2>1. source' \in Nat /\ landed' = source' /\ Drained'
    BY <1>4, ResetDoes, NumbersAreInts DEF RingInv
  <2>2. /\ UNCHANGED <<target, requested, stopped, acked, ring, seen, aim, myGen, waitAck,
                       output>>
        /\ tail' = 0 /\ dpc = "reset" /\ dpc' = "clear"
    BY <1>4 DEF Reset, Goes
  <2>. QED  BY <2>1, <2>2 DEF RingInv, TypesOK, Handshake, RingIsCurrent, output
<1>5. CASE Clear
  BY <1>5 DEF Clear, Goes, RingInv, TypesOK, Handshake, Drained, RingIsCurrent, output
<1>6. CASE Halt
  BY <1>6 DEF Halt, Goes, RingInv, TypesOK, Handshake, Drained, RingIsCurrent, output, history
<1>7. CASE WaitAck
  BY <1>7 DEF WaitAck, RingInv, TypesOK, Handshake, Drained, RingIsCurrent, shared, output, history
<1>8. CASE Work
  BY <1>8, WorkStep
<1>9. CASE Leave
  BY <1>9 DEF Leave, Goes, RingInv, TypesOK, Handshake, Drained, RingIsCurrent, shared, output, history
<1>. QED  BY <1>1, <1>2, <1>3, <1>4, <1>5, <1>6, <1>7, <1>8, <1>9 DEF Decode

LEMMA OutputStep ==
  ASSUME RingInv, Output
  PROVE  RingInv'
<1>. USE DEF RingInv, Handshake, Drained, RingIsCurrent
<1>1. CASE Begin
  <2>1. TypesOK'
    BY <1>1 DEF Begin, TypesOK, shared, decoder, history
  <2>. QED  BY <1>1, <2>1 DEF Begin, TypesOK, shared, decoder, history
<1>2. CASE Flush
  <2>1. UNCHANGED <<target, requested, stopped, acked, decoder, req, landed>>
    BY <1>2 DEF Flush, history
  <2>2. CASE stopped = req /\ cpc' = "ack" /\ ring' = <<>>
    <3>1. <<>> \in Seq(Frame) /\ Len(<<>>) = 0 /\ Capacity >= 0
      BY EmptySeq, SessionAssumption
    <3>2. TypesOK'
      BY <2>1, <2>2, <3>1 DEF TypesOK, decoder, history
    <3>. QED  BY <1>2, <2>1, <2>2, <3>2 DEF Flush, TypesOK, decoder, history
  <2>3. CASE cpc' = "write" /\ ring' = ring
    BY <2>1, <2>3 DEF TypesOK, decoder, history
  <2>. QED  BY <1>2, <2>2, <2>3 DEF Flush
<1>3. CASE Ack
  BY <1>3 DEF Ack, Moves, TypesOK, decoder, history
<1>4. CASE Play
  <2>1. UNCHANGED <<target, requested, stopped, acked, decoder, req, landed>> /\ cpc' \in {"write", "end"}
    BY <1>4 DEF Play
  <2>2. ring' \in Seq(Frame) /\ Len(ring') <= Capacity /\ RingIsCurrent'
    <3>1. CASE ring' = ring
      BY <2>1, <3>1 DEF TypesOK
    <3>2. ASSUME NEW k \in 0 .. Period, k <= Len(ring), ring' \in Seq(Frame),
                 Len(ring') = Len(ring) - k,
                 \A i \in 1 .. Len(ring) - k : ring'[i] = ring[k + i]
          PROVE  Len(ring') <= Capacity /\ RingIsCurrent'
      <4>1. Len(ring) \in Nat /\ Len(ring) <= Capacity /\ Capacity \in Nat
        BY SessionAssumption DEF TypesOK
      <4>2. \A i \in 1 .. Len(ring) - k : k + i \in 1 .. Len(ring)
        BY <3>2, <4>1
      <4>3. \A i \in 1 .. Len(ring) : ring[i].g = acked
        <5>. HIDE DEF RingInv, Handshake, Drained
        <5>. QED  BY DEF RingInv, TypesOK
      <4>4. \A i \in 1 .. Len(ring) - k : ring'[i].g = acked
        BY <3>2, <4>2, <4>3
      <4>5. DOMAIN ring' = 1 .. Len(ring) - k
        BY <3>2
      <4>. QED  BY <2>1, <3>2, <4>1, <4>4, <4>5
    <3>. HIDE DEF RingInv, Handshake, RingIsCurrent
    <3>3. \/ ring' = ring
          \/ \E k \in 0 .. Period :
               /\ k <= Len(ring) /\ ring' \in Seq(Frame) /\ Len(ring') = Len(ring) - k
               /\ \A i \in 1 .. Len(ring) - k : ring'[i] = ring[k + i]
      BY <1>4, PlayDoes
    <3>. QED  BY <3>1, <3>2, <3>3
  <2>. QED  BY <2>1, <2>2 DEF TypesOK, decoder, history
<1>5. CASE End
  BY <1>5 DEF End, TypesOK, shared, decoder, history
<1>6. CASE Mark
  BY <1>6 DEF Mark, Moves, TypesOK, decoder, history
<1>7. CASE Write
  BY <1>7 DEF Write, TypesOK, decoder, history
<1>8. CASE Quit
  BY <1>8 DEF Quit, Moves, TypesOK, shared, decoder, history
<1>. QED  BY <1>1, <1>2, <1>3, <1>4, <1>5, <1>6, <1>7, <1>8 DEF Output

LEMMA EngineStepKeeps ==
  ASSUME RingInv, EngineStep
  PROVE  RingInv'
<1>. USE DEF RingInv, TypesOK, Handshake, Drained, RingIsCurrent
<1>1. CASE Started
  BY <1>1 DEF Started, decoder, history
<1>2. CASE NotStarted
  BY <1>2 DEF NotStarted, shared, decoder, output, history
<1>3. CASE PlayPause
  BY <1>3 DEF PlayPause, decoder, output, history
<1>4. CASE Seek
  BY <1>4, SessionAssumption DEF Seek, StoreTarget, decoder, output, history
<1>5. CASE Request
  BY <1>5 DEF Request, decoder, output, history
<1>6. CASE Close \/ StopDecoder \/ Closed
  BY <1>6 DEF Close, StopDecoder, Closed, shared, decoder, output, history
<1>. QED  BY <1>1, <1>2, <1>3, <1>4, <1>5, <1>6 DEF EngineStep, Joins

-----------------------------------------------------------------------------
\* However the requests of a seek interleave with the decoder and with the
\* callback, both agree on what is stopped, flushed and acknowledged.
THEOREM HandshakeInvariant == SessionSpec => []RingInv
<1>1. SessionInit => RingInv
  <2>. SUFFICES ASSUME SessionInit PROVE RingInv
    OBVIOUS
  <2>1. /\ source \in 0 .. Length /\ landed = source /\ done = FALSE /\ failed = FALSE
    <3>1. PICK s \in 0 .. Length : source \in Lands(s) \/ source = 0
      BY DEF SessionInit
    <3>2. source \in 0 .. Length
      BY <3>1, SessionAssumption DEF Lands
    <3>. QED  BY <3>2 DEF SessionInit
  <2>2. ring = <<>> /\ target = 0 /\ aim = 0 /\ tail = 0 /\ dpc = "poll" /\ cpc = "off"
        /\ requested = 1 /\ stopped = 1 /\ acked = 1 /\ seen = 1 /\ myGen = 1 /\ req = 1
        /\ waitAck = FALSE
    BY DEF SessionInit
  <2>3. ring \in Seq(Frame) /\ Len(ring) <= Capacity
    BY <2>2, EmptySeq, SessionAssumption
  <2>4. TypesOK
    <3>1. Length \in Nat \ {0}
      BY SessionAssumption
    <3>2. waitAck \in BOOLEAN
      BY <2>2, Zenon
    <3>. QED  BY <2>1, <2>2, <2>3, <3>1, <3>2 DEF TypesOK
  <2>5. Handshake
    BY <2>2 DEF Handshake
  <2>6. RingIsCurrent
    BY <2>2 DEF RingIsCurrent
  <2>7. Drained
    BY <2>1, SessionAssumption DEF Drained
  <2>. QED  BY <2>4, <2>5, <2>6, <2>7 DEF RingInv
<1>2. RingInv /\ [SessionNext]_vars => RingInv'
  <2>1. RingInv /\ UNCHANGED vars => RingInv'
    BY DEF vars, shared, decoder, output, history, RingInv, TypesOK, Handshake, Drained,
           RingIsCurrent
  <2>. QED  BY <2>1, DecodeStep, OutputStep, EngineStepKeeps DEF SessionNext
<1>. QED  BY <1>1, <1>2, PTL DEF SessionSpec

\* I-R5 of the session: whatever the length of the track, the size of the
\* ring and the moments of the seeks, no frame of an older or a newer
\* generation is in the ring.
THEOREM RingStaysCurrent == SessionSpec => []RingIsCurrent
<1>1. RingInv => RingIsCurrent
  BY DEF RingInv
<1>. QED  BY <1>1, HandshakeInvariant, PTL

-----------------------------------------------------------------------------
(* The position                                                            *)

Last == Len(asked)

\* A decoder between the two ends of a seek has read a newer generation.
\* Only the last target asked for is followed through: what is asked while
\* another seek is carried out moves the aim of both.
Targets ==
  /\ asked \in Seq(Int) /\ pos \in Int /\ given \in Frame /\ asking \in BOOLEAN
  /\ Last = requested + (IF asking THEN 1 ELSE 0)
  /\ acked >= 1 /\ given.g <= acked
  /\ Last > 1 => target = asked[Last]
  /\ dpc \in {"aim", "again", "reset", "clear", "stop"} => seen > myGen

\* Where the source stands before the seek is acknowledged.
SourceInv ==
  /\ dpc \in {"again", "reset"} /\ seen = Last => aim = asked[Last]
  /\ dpc \in {"clear", "stop"} \/ acked # myGen => source = landed /\ tail = 0
  /\ dpc \in {"clear", "stop"} /\ seen = Last /\ seen \notin refused =>
       landed \in Lands(asked[Last])
  /\ myGen = Last /\ myGen \notin refused => landed \in Lands(asked[Last])
  /\ cpc = "ack" /\ req = Last => pos = asked[Last]

\* The frame that is heard next, by the position that is shown: as far from
\* where the source stood after the seek as the position is from the target.
Place == landed + (pos - asked[Last])

\* After it: the ring goes on at that frame, the tail where the ring ends, and
\* the source where the tail ends.
StreamInv ==
  acked = Last =>
    /\ \A i \in 1 .. Len(ring) : ring[i].n = Place + i - 1
    /\ source - tail = Place + Len(ring)
    /\ Place = IF given.g = acked THEN given.n + 1 ELSE landed

PosInv == RingInv /\ Targets /\ SourceInv /\ StreamInv

\* What is acknowledged, stopped and read is never newer than what was asked.
LEMMA Order ==
  ASSUME RingInv, Targets
  PROVE  /\ acked \in Nat /\ myGen \in Nat /\ seen \in Nat /\ req \in Nat /\ Last \in Nat
         /\ acked <= myGen /\ myGen <= seen /\ seen <= requested /\ requested <= Last
BY DEF RingInv, TypesOK, Handshake, Targets, Last

LEMMA PlaceIsInt ==
  ASSUME RingInv, Targets
  PROVE  /\ Last \in Nat \ {0} /\ asked[Last] \in Int /\ pos \in Int /\ landed \in Nat
         /\ Place \in Int
<1>1. Last \in Nat /\ acked >= 1 /\ acked <= Last /\ acked \in Nat /\ asked \in Seq(Int)
  <2>1. acked >= 1 /\ asked \in Seq(Int)
    BY DEF Targets
  <2>2. acked \in Nat /\ Last \in Nat /\ acked <= Last
    BY Order DEF RingInv, TypesOK
  <2>. QED  BY <2>1, <2>2
<1>2. asked[Last] \in Int /\ Last \in Nat \ {0}
  BY <1>1 DEF Last
<1>3. pos \in Int /\ landed \in Nat
  BY DEF Targets, RingInv, TypesOK
<1>. QED  BY <1>2, <1>3 DEF Place

LEMMA PositionIsFromInv == PosInv => PositionIsTrue
<1>. SUFFICES ASSUME PosInv, AtRest
              PROVE  /\ pos = IF given.g = acked THEN given.n + 1 + (asked[acked] - landed)
                                                 ELSE asked[acked]
                     /\ acked \notin refused => landed \in Lands(asked[acked])
  BY DEF PositionIsTrue
<1>1. acked = Last /\ myGen = Last
  BY Order DEF PosInv, RingInv, TypesOK, Targets, AtRest
<1>2. /\ asked[Last] \in Int /\ pos \in Int /\ landed \in Int /\ Place \in Int /\ given.n \in Int
      /\ Place = IF given.g = acked THEN given.n + 1 ELSE landed
  BY <1>1, PlaceIsInt DEF PosInv, StreamInv, Targets, Frame
<1>3. Place = landed + (pos - asked[Last])
  BY DEF Place
<1>4. landed \in Lands(asked[Last]) \/ acked \in refused
  BY <1>1 DEF PosInv, SourceInv
<1>5. pos = IF given.g = acked THEN given.n + 1 + (asked[Last] - landed)
                               ELSE asked[Last]
  <2>1. pos = Place - landed + asked[Last]
    BY <1>2, <1>3
  <2>2. CASE given.g = acked
    BY <1>2, <2>1, <2>2
  <2>3. CASE given.g # acked
    BY <1>2, <2>1, <2>3
  <2>. QED  BY <2>2, <2>3
<1>6. asked[acked] = asked[Last]
  BY <1>1
<1>. QED  BY <1>4, <1>5, <1>6

\* The writes go on where the ring ends.
LEMMA WritePosStep ==
  ASSUME PosInv, myGen = acked, NEW t \in Nat, WriteTail(t), source' \in Int,
         source' - t = source - tail, UNCHANGED <<acked, asked, given, pos, landed>>
  PROVE  StreamInv'
<1>1. /\ Len(ring) \in Nat /\ source \in Int /\ tail \in Nat /\ Place \in Int
  BY PlaceIsInt DEF PosInv, RingInv, TypesOK
<1>2. PICK k \in 0 .. t :
        /\ Len(ring') = Len(ring) + k /\ tail' = t - k
        /\ \A i \in 1 .. Len(ring) : ring'[i] = ring[i]
        /\ \A i \in Len(ring) + 1 .. Len(ring) + k :
             ring'[i] = [g |-> myGen, n |-> (source' - t) + (i - Len(ring)) - 1]
  BY WriteTailDoes DEF PosInv
<1>. SUFFICES ASSUME acked = Last
              PROVE  /\ \A i \in 1 .. Len(ring') : ring'[i].n = Place + i - 1
                     /\ source' - tail' = Place + Len(ring')
                     /\ Place = IF given.g = acked THEN given.n + 1 ELSE landed
  BY DEF StreamInv, Place, Last
<1>3. /\ \A i \in 1 .. Len(ring) : ring[i].n = Place + i - 1
      /\ Place = IF given.g = acked THEN given.n + 1 ELSE landed
  BY DEF PosInv, StreamInv
<1>4. source - tail = Place + Len(ring)
  BY DEF PosInv, StreamInv
<1>5. source' - tail' = Place + Len(ring')
  <2>1. source' - (t - k) = (source' - t) + k
    BY <1>2
  <2>. QED  BY <1>1, <1>2, <1>4, <2>1
<1>6. ASSUME NEW i \in 1 .. Len(ring') PROVE ring'[i].n = Place + i - 1
  <2>1. CASE i <= Len(ring)
    BY <1>1, <1>2, <1>3, <2>1
  <2>2. CASE i > Len(ring)
    <3>1. i \in Len(ring) + 1 .. Len(ring) + k
      BY <1>1, <1>2, <2>2
    <3>2. ring'[i] = [g |-> myGen, n |-> (source' - t) + (i - Len(ring)) - 1]
      BY <1>2, <3>1
    <3>3. ring'[i].n = (source' - t) + (i - Len(ring)) - 1
      BY <3>2
    <3>4. (source' - t) + (i - Len(ring)) - 1 = Place + i - 1
      BY <1>1, <1>4, <3>1
    <3>. QED  BY <3>3, <3>4
  <2>. QED  BY <1>1, <1>2, <2>1, <2>2
<1>. QED  BY <1>3, <1>5, <1>6

LEMMA WorkPosStep ==
  ASSUME PosInv, Work
  PROVE  Targets' /\ SourceInv' /\ StreamInv'
<1>1. /\ UNCHANGED <<target, requested, stopped, acked, pos, seen, aim, myGen, waitAck,
                     cpc, req, asking, asked, refused, given, landed>>
      /\ dpc = "work" /\ dpc' = "poll"
  BY DEF Work, Goes, output, engine
<1>2. myGen = acked
  BY <1>1 DEF PosInv, RingInv, Handshake
<1>3. Targets' /\ SourceInv'
  BY <1>1, <1>2 DEF PosInv, Targets, SourceInv, Last
<1>4. source' \in Int
  BY WorkDoes DEF PosInv
<1>5. ASSUME PublishEof, source' = source
      PROVE  StreamInv'
  BY <1>1, <1>5 DEF PublishEof, PosInv, StreamInv, Place, Last
<1>6. ASSUME NEW t \in Nat, WriteTail(t), source' - t = source - tail
      PROVE  StreamInv'
  BY <1>1, <1>2, <1>4, <1>6, WritePosStep
<1>. QED  BY <1>3, <1>5, <1>6, WorkDoes DEF PosInv

LEMMA DecodePosStep ==
  ASSUME PosInv, Decode
  PROVE  Targets' /\ SourceInv' /\ StreamInv'
<1>. USE Order DEF PosInv, Targets, SourceInv, StreamInv, Place, Last
<1>0. requested \in Nat /\ seen \in Nat /\ myGen \in Nat /\ stopped = myGen /\ acked \in Nat
  BY DEF RingInv, TypesOK, Handshake
<1>1. CASE Poll
  BY <1>0, <1>1 DEF Poll, shared, output, engine, history
<1>2. CASE Aim
  BY <1>0, <1>2 DEF Aim, Goes, output, engine, history, shared
<1>3. CASE Again
  BY <1>0, <1>3 DEF Again, shared, output, engine, history
<1>4. CASE Reset
  <2>1. /\ UNCHANGED <<target, requested, acked, pos, seen, aim, myGen, ring, cpc, req,
                       asking, asked, given>>
        /\ dpc = "reset" /\ dpc' = "clear" /\ tail' = 0
    BY <1>4 DEF Reset, Goes, output, engine
  <2>2. acked # Last /\ myGen # Last
    BY <1>0, <2>1
  <2>3. /\ landed' = source'
        /\ \/ source' \in Lands(aim) /\ refused' = refused
           \/ refused' = refused \cup {seen}
    BY <1>4, ResetDoes
  <2>. QED  BY <1>0, <2>1, <2>2, <2>3
<1>5. CASE Clear
  BY <1>0, <1>5 DEF Clear, Goes, output, engine
<1>6. CASE Halt
  BY <1>0, <1>6 DEF Halt, Goes, output, engine, history
<1>7. CASE WaitAck
  BY <1>0, <1>7 DEF WaitAck, shared, output, engine, history
<1>8. CASE Work
  BY <1>8, WorkPosStep
<1>9. CASE Leave
  BY <1>0, <1>9 DEF Leave, Goes, shared, output, engine, history
<1>. QED  BY <1>1, <1>2, <1>3, <1>4, <1>5, <1>6, <1>7, <1>8, <1>9 DEF Decode

\* A period that is handed over takes the position as far as the ring.
LEMMA PlayPosStep ==
  ASSUME PosInv, Play
  PROVE  Targets' /\ SourceInv' /\ StreamInv'
<1>1. /\ UNCHANGED <<target, requested, stopped, acked, decoder, req, asking, asked, refused,
                     landed>>
      /\ cpc = "play" /\ cpc' \in {"write", "end"}
  BY DEF Play, engine
<1>2. /\ ring \in Seq(Frame) /\ Len(ring) \in Nat /\ pos \in Int /\ Period \in Nat
      /\ Place \in Int /\ source \in Int /\ tail \in Nat /\ acked \in Nat /\ given \in Frame /\ given.g <= acked
      /\ \A i \in 1 .. Len(ring) : ring[i].g = acked /\ ring[i] \in Frame
  <2>1. ring \in Seq(Frame) /\ Len(ring) \in Nat /\ \A i \in 1 .. Len(ring) : ring[i] \in Frame
    BY DEF PosInv, RingInv, TypesOK
  <2>2. \A i \in 1 .. Len(ring) : ring[i].g = acked
    BY <2>1 DEF PosInv, RingInv, RingIsCurrent
  <2>3. /\ pos \in Int /\ Place \in Int /\ source \in Int /\ tail \in Nat /\ acked \in Nat /\ Period \in Nat
        /\ given \in Frame /\ given.g <= acked
    BY SessionAssumption, PlaceIsInt DEF PosInv, RingInv, TypesOK, Targets
  <2>. QED  BY <2>1, <2>2, <2>3
<1>3. CASE UNCHANGED <<ring, pos, given>>
  BY <1>1, <1>3 DEF PosInv, Targets, SourceInv, StreamInv, Place, Last, decoder
<1>4. ASSUME NEW k \in 0 .. Period, k <= Len(ring), Len(ring') = Len(ring) - k,
             \A i \in 1 .. Len(ring) - k : ring'[i] = ring[k + i],
             pos' = pos + k, given' = IF k = 0 THEN given ELSE ring[k]
      PROVE  Targets' /\ SourceInv' /\ StreamInv'
  <2>1. Len(ring') = Len(ring) - k /\ \A i \in 1 .. Len(ring) - k : ring'[i] = ring[k + i]
    BY <1>4
  <2>2. given' \in Frame /\ given'.g <= acked
    <3>1. CASE k = 0
      BY <1>2, <1>4, <3>1
    <3>2. CASE k # 0
      <4>1. k \in 1 .. Len(ring) /\ given' = ring[k]
        BY <1>2, <1>4, <3>2
      <4>. QED  BY <1>2, <4>1
    <3>. QED  BY <3>1, <3>2
  <2>3. Targets' /\ SourceInv'
    BY <1>1, <1>2, <1>4, <2>2 DEF PosInv, Targets, SourceInv, Last, decoder
  <2>4. Place' = Place + k /\ Place' \in Int
    <3>1. landed \in Int /\ asked[Last] \in Int /\ pos \in Int /\ k \in Int
      BY <1>2, PlaceIsInt DEF PosInv
    <3>2. landed + ((pos + k) - asked[Last]) = (landed + (pos - asked[Last])) + k
      BY <3>1
    <3>. QED  BY <1>1, <1>2, <1>4, <3>2 DEF Place, Last
  <2>5. ASSUME acked = Last
        PROVE  /\ \A i \in 1 .. Len(ring') : ring'[i].n = Place' + i - 1
               /\ source - tail = Place' + Len(ring')
               /\ Place' = IF given'.g = acked THEN given'.n + 1 ELSE landed
    <3>1. /\ \A i \in 1 .. Len(ring) : ring[i].n = Place + i - 1
          /\ Place = IF given.g = acked THEN given.n + 1 ELSE landed
      BY <2>5 DEF PosInv, StreamInv
    <3>2. source - tail = Place + Len(ring)
      BY <2>5 DEF PosInv, StreamInv
    <3>. HIDE DEF Place
    <3>3. \A i \in 1 .. Len(ring') : ring'[i].n = Place' + i - 1
      <4>. SUFFICES ASSUME NEW i \in 1 .. Len(ring) - k PROVE ring'[i].n = Place' + i - 1
        BY <2>1
      <4>1. ring'[i] = ring[k + i] /\ k + i \in 1 .. Len(ring)
        BY <1>2, <1>4, <2>1
      <4>2. ring[k + i].n = Place + (k + i) - 1
        BY <3>1, <4>1
      <4>3. Place' + i - 1 = Place + (k + i) - 1
        BY <1>2, <2>4
      <4>. QED  BY <4>1, <4>2, <4>3
    <3>4. source - tail = Place' + Len(ring')
      <4>1. Place \in Int /\ Len(ring) \in Int /\ k \in Int
        BY <1>2
      <4>2. (Place + k) + (Len(ring) - k) = Place + Len(ring)
        BY <4>1
      <4>. QED  BY <2>1, <2>4, <3>2, <4>2
    <3>5. CASE k = 0
      BY <1>2, <1>4, <2>4, <3>1, <3>3, <3>4, <3>5
    <3>6. CASE k # 0
      <4>1. given' = ring[k] /\ k \in 1 .. Len(ring)
        BY <1>2, <1>4, <3>6
      <4>2. given'.n = Place + k - 1 /\ given'.g = acked
        BY <1>2, <3>1, <4>1
      <4>3. Place' = given'.n + 1
        BY <1>2, <2>4, <4>2
      <4>. QED  BY <3>3, <3>4, <4>2, <4>3
    <3>. QED  BY <3>5, <3>6
  <2>6. StreamInv'
    BY <1>1, <2>5 DEF StreamInv, Last, decoder
  <2>. QED  BY <2>3, <2>6
<1>. QED  BY <1>3, <1>4, PlayDoes DEF PosInv

LEMMA OutputPosStep ==
  ASSUME PosInv, Output
  PROVE  Targets' /\ SourceInv' /\ StreamInv'
<1>. USE Order DEF PosInv, Targets, SourceInv, StreamInv, Place, Last
<1>0. /\ requested \in Nat /\ myGen \in Nat /\ stopped = myGen /\ acked \in Nat /\ req \in Nat
      /\ target \in Int
  BY DEF RingInv, TypesOK, Handshake
<1>1. CASE Begin
  BY <1>0, <1>1 DEF Begin, shared, decoder, engine, history
<1>2. CASE Flush
  <2>1. cpc = "flush" /\ acked < req /\ req <= requested
    BY <1>2 DEF Flush, RingInv, Handshake
  <2>2. CASE stopped = req /\ cpc' = "ack" /\ ring' = <<>> /\ pos' = target
    BY <1>0, <1>2, <2>1, <2>2 DEF Flush, decoder, engine, history
  <2>3. CASE cpc' = "write" /\ UNCHANGED <<ring, pos>>
    BY <1>0, <1>2, <2>3 DEF Flush, decoder, engine, history
  <2>. QED  BY <1>2, <2>2, <2>3 DEF Flush
<1>3. CASE Ack
  <2>1. cpc = "ack" /\ acked < req /\ req <= stopped /\ ring = <<>>
    BY <1>3 DEF Ack, Moves, RingInv, Handshake
  <2>2. /\ UNCHANGED <<target, requested, stopped, pos, ring, decoder, req, engine, history>>
        /\ acked' = req /\ cpc' = "write"
    BY <1>3 DEF Ack, Moves
  <2>3. given.g \in Nat /\ given.g <= acked /\ acked >= 1
    BY DEF Frame
  <2>4. acked' >= 1 /\ given'.g <= acked'
    BY <1>0, <2>1, <2>2, <2>3 DEF history
  <2>5. Targets'
    BY <2>2, <2>4 DEF decoder, engine, history
  <2>6. SourceInv'
    BY <1>0, <2>1, <2>2 DEF decoder, engine, history
  <2>7. ASSUME req = Last
        PROVE  source = landed /\ tail = 0 /\ pos = asked[Last] /\ acked # myGen
    BY <1>0, <2>1, <2>7
  <2>8. /\ acked' = req /\ Len(ring') = 0 /\ given.g # req
        /\ UNCHANGED <<source, landed, tail, pos, given, asked, ring>>
    BY <1>0, <2>1, <2>2, <2>3, EmptySeq DEF decoder, history
  <2>9. StreamInv'
    <3>. SUFFICES ASSUME req = Last
                  PROVE  /\ \A i \in 1 .. 0 : ring[i].n = Place + i - 1
                         /\ source - tail = Place + 0
                         /\ Place = landed
      BY <2>8
    <3>1. landed \in Int /\ asked[Last] \in Int
      BY PlaceIsInt
    <3>2. source = landed /\ tail = 0 /\ Place = landed
      BY <2>7, <3>1
    <3>. HIDE DEF Place
    <3>. QED  BY <3>1, <3>2
  <2>. QED  BY <2>5, <2>6, <2>9
<1>4. CASE Play
  BY <1>4, PlayPosStep
<1>5. CASE End
  BY <1>0, <1>5 DEF End, shared, decoder, engine, history
<1>6. CASE Mark
  BY <1>0, <1>6 DEF Mark, Moves, decoder, engine, history
<1>7. CASE Write
  BY <1>0, <1>7 DEF Write, decoder, engine, history
<1>8. CASE Quit
  BY <1>0, <1>8 DEF Quit, Moves, shared, decoder, engine, history
<1>. QED  BY <1>1, <1>2, <1>3, <1>4, <1>5, <1>6, <1>7, <1>8 DEF Output

\* What is asked for while another seek is on its way only adds to what is
\* asked: nothing that is carried out is the last any more.
LEMMA EnginePosStep ==
  ASSUME PosInv, EngineStep
  PROVE  Targets' /\ SourceInv' /\ StreamInv'
<1>. USE Order DEF PosInv, Targets, SourceInv, StreamInv, Place, Last
<1>0. /\ requested \in Nat /\ myGen \in Nat /\ acked \in Nat /\ req \in Nat /\ asked \in Seq(Int)
      /\ cpc = "ack" => req <= Last
  BY DEF RingInv, TypesOK, Handshake
<1>1. CASE Started
  BY <1>0, <1>1 DEF Started, decoder, history
<1>2. CASE NotStarted
  BY <1>0, <1>2 DEF NotStarted, shared, decoder, output, history
<1>3. CASE PlayPause
  BY <1>0, <1>3 DEF PlayPause, decoder, output, engine, history
<1>4. ASSUME NEW t \in 0 .. Length, StoreTarget(t)
      PROVE  Targets' /\ SourceInv' /\ StreamInv'
  <2>1. /\ asked' \in Seq(Int) /\ Len(asked') = Len(asked) + 1 /\ asked'[Len(asked')] = t
    <3>1. t \in Int
      BY SessionAssumption
    <3>2. asked' = Append(asked, t)
      BY <1>4 DEF StoreTarget
    <3>3. asked \in Seq(Int)
      BY <1>0
    <3>. HIDE DEF PosInv, Targets, SourceInv, StreamInv, Place, Last
    <3>. QED  BY <3>1, <3>2, <3>3
  <2>2. ~asking /\ asking' = TRUE /\ target' = t /\ Last = requested
    BY <1>4, <1>0 DEF StoreTarget
  <2>3. UNCHANGED <<requested, acked, ring, decoder, output, refused, given, pos>>
    BY <1>4 DEF StoreTarget
  <2>4. Targets'
    BY <1>0, <2>1, <2>2, <2>3 DEF decoder
  <2>5. /\ Last' = Last + 1 /\ Last \in Nat /\ seen \in Nat
        /\ acked <= Last /\ myGen <= Last /\ seen <= Last
    <3>1. RingInv /\ Targets
      BY DEF PosInv
    <3>2. requested \in Nat /\ Last' = Last + 1
      BY <1>0, <2>1
    <3>. HIDE DEF PosInv, Targets, Last
    <3>. QED  BY <3>1, <3>2, Order
  <2>6. Last' # acked' /\ Last' # myGen' /\ Last' # seen'
    <3>1. acked' = acked /\ myGen' = myGen /\ seen' = seen /\ acked \in Nat /\ myGen \in Nat
      BY <1>0, <2>3 DEF decoder
    <3>. HIDE DEF Last
    <3>. QED  BY <2>5, <3>1
  <2>7. UNCHANGED <<dpc, aim, seen, myGen, acked, source, landed, tail, req, cpc>>
    BY <1>4, <2>3 DEF StoreTarget, decoder, output
  <2>8. cpc = "ack" => req # Last'
    BY <1>0, <2>5
  <2>9. SourceInv
    BY DEF PosInv
  <2>. HIDE DEF Last
  <2>. QED  BY <2>4, <2>6, <2>7, <2>8, <2>9
<1>5. CASE Request
  <2>1. /\ asking = TRUE /\ asking' = FALSE /\ requested' = requested + 1
        /\ UNCHANGED <<target, acked, ring, pos, decoder, output, history>>
    BY <1>5 DEF Request
  <2>2. Last = requested'
    BY <1>0, <2>1
  <2>3. Targets'
    <3>1. asking' \in BOOLEAN
      BY <2>1, Zenon
    <3>2. Last' = requested' + (IF asking' THEN 1 ELSE 0)
      BY <1>0, <2>1, <2>2 DEF history
    <3>. QED  BY <2>1, <3>1, <3>2 DEF decoder, history
  <2>. QED  BY <1>0, <2>1, <2>3 DEF decoder, output, history
<1>6. CASE Close \/ StopDecoder \/ Closed
  <2>1. UNCHANGED <<shared, ring, decoder, output, asking, history>>
    BY <1>6 DEF Close, StopDecoder, Closed
  <2>. QED  BY <2>1 DEF shared, decoder, output, history
<1>. QED  BY <1>1, <1>2, <1>3, <1>4, <1>5, <1>6 DEF EngineStep, Joins, Seek

-----------------------------------------------------------------------------
\* Once the last seek is acknowledged, the decoder, the ring and the callback
\* are one stretch of the track after another, as far from the position shown
\* as the source stood from the target after the seek; before that the position
\* shown is the target.
THEOREM PositionInvariant == SessionSpec => []PosInv
<1>1. SessionInit /\ RingInv => PosInv
  <2>. SUFFICES ASSUME SessionInit, RingInv PROVE Targets /\ SourceInv /\ StreamInv
    BY DEF PosInv
  <2>1. PICK s \in 0 .. Length :
          /\ pos = s /\ asked = <<s>>
          /\ source \in Lands(s) \/ 1 \in refused
    BY DEF SessionInit
  <2>2. /\ landed = source /\ ring = <<>> /\ tail = 0 /\ dpc = "poll" /\ cpc = "off"
        /\ requested = 1 /\ stopped = 1 /\ acked = 1 /\ seen = 1 /\ myGen = 1 /\ req = 1
        /\ asking = FALSE /\ given = [g |-> 0, n |-> -1]
    BY DEF SessionInit
  <2>3. s \in Int /\ Last = 1 /\ asked \in Seq(Int) /\ asked[1] = s /\ Len(ring) = 0
    BY <2>1, <2>2, SessionAssumption DEF Last
  <2>4. given \in Frame /\ given.g = 0
    BY <2>2 DEF Frame
  <2>5. Targets
    <3>1. asking \in BOOLEAN
      BY <2>2, Zenon
    <3>. QED  BY <2>1, <2>2, <2>3, <2>4, <3>1 DEF Targets
  <2>6. SourceInv
    BY <2>1, <2>2, <2>3 DEF SourceInv
  <2>7. StreamInv
    <3>1. landed \in Int /\ Place = landed
      BY <2>1, <2>2, <2>3 DEF Place, RingInv, TypesOK
    <3>. QED  BY <2>2, <2>3, <2>4, <3>1 DEF StreamInv
  <2>. QED  BY <2>5, <2>6, <2>7
<1>2. PosInv /\ RingInv' /\ [SessionNext]_vars => PosInv'
  <2>1. PosInv /\ UNCHANGED vars => Targets' /\ SourceInv' /\ StreamInv'
    BY DEF vars, shared, decoder, output, engine, history, PosInv, Targets, SourceInv,
           StreamInv, Place, Last
  <2>. QED  BY <2>1, DecodePosStep, OutputPosStep, EnginePosStep DEF SessionNext, PosInv
<1>. QED  BY <1>1, <1>2, HandshakeInvariant, PTL DEF SessionSpec

\* With no seek on its way the position that is shown runs with what is heard,
\* from the target on: it is off by what the seek missed its target by, Align at
\* most unless the source refused, and by no frame more or less.
THEOREM PositionStaysTrue == SessionSpec => []PositionIsTrue
BY PositionIsFromInv, PositionInvariant, PTL

-----------------------------------------------------------------------------
(* The end of the track                                                    *)

\* The decoder is between its reset and its stop.
Resets == dpc \in {"clear", "stop"}

\* The position and the ring reach as far as the decoder has counted, once
\* the last seek is acknowledged.
Counted ==
  /\ aim \in Nat /\ base \in Nat /\ written \in Nat /\ target \in Nat
  /\ Resets /\ seen = Last => base = asked[Last] /\ written = 0
  /\ myGen = Last /\ acked # myGen => base = asked[Last] /\ written = 0
  /\ acked = Last => pos + Len(ring) = base + written

\* The end is known when everything is in the ring.
EofIsKnown ==
  /\ published <=> eof # NoEof
  /\ eof # NoEof => done /\ tail = 0 /\ eof = base + written
  /\ Resets \/ acked # myGen => eof = NoEof

\* A flag that is not late was set by a period that saw this end, or is about
\* to be cleared.
FlagIsDue ==
  /\ cpc = "mark" => IF eof = NoEof THEN Resets \/ acked # myGen
                                    ELSE acked = Last => pos >= eof
  /\ ended /\ ~late => IF eof = NoEof THEN dpc = "clear"
                                      ELSE acked = Last => pos >= eof

EndInv == PosInv /\ Counted /\ EofIsKnown /\ FlagIsDue

LEMMA CompleteIsFromInv == EndInv => EndedIsComplete
<1>. SUFFICES ASSUME EndInv, AtRest, ended, ~late
              PROVE  /\ done /\ ring = <<>> /\ tail = 0
                     /\ failed \/ source = Length
                     /\ source = IF given.g = acked THEN given.n + 1 ELSE landed
  BY DEF EndedIsComplete
<1>1. /\ acked = Last /\ acked \in Nat /\ Len(ring) \in Nat /\ pos \in Int
      /\ ring \in Seq(Frame)
  BY DEF EndInv, PosInv, RingInv, TypesOK, Targets, AtRest
<1>2. dpc # "clear"
  BY <1>1, Order DEF EndInv, PosInv, Targets, AtRest
<1>3. eof # NoEof /\ pos >= eof
  BY <1>1, <1>2 DEF EndInv, FlagIsDue
<1>4. done /\ tail = 0 /\ eof = base + written
  BY <1>3 DEF EndInv, EofIsKnown
<1>5. pos + Len(ring) = base + written /\ base \in Nat /\ written \in Nat
  BY <1>1 DEF EndInv, Counted
<1>6. Len(ring) = 0
  BY <1>1, <1>3, <1>4, <1>5
<1>7. failed \/ source = Length
  BY <1>4 DEF EndInv, PosInv, RingInv, Drained
<1>8. source = IF given.g = acked THEN given.n + 1 ELSE landed
  <2>1. /\ source - tail = Place + Len(ring)
        /\ Place = IF given.g = acked THEN given.n + 1 ELSE landed
    BY <1>1 DEF EndInv, PosInv, StreamInv
  <2>2. source \in Int /\ Place \in Int
    BY PlaceIsInt DEF EndInv, PosInv, RingInv, TypesOK
  <2>. HIDE DEF Place
  <2>3. source = Place
    BY <1>4, <1>6, <2>1, <2>2
  <2>. QED  BY <2>1, <2>3
<1>. QED  BY <1>1, <1>4, <1>6, <1>7, <1>8, EmptySeq

LEMMA WorkEndStep ==
  ASSUME EndInv, Work
  PROVE  Counted' /\ EofIsKnown' /\ FlagIsDue'
<1>1. /\ UNCHANGED <<target, requested, stopped, acked, pos, seen, aim, myGen, base, ended,
                     cpc, asked, late>>
      /\ dpc = "work" /\ dpc' = "poll"
  BY DEF Work, Goes, output, engine
<1>2. /\ myGen = acked /\ acked \in Nat /\ tail \in Nat /\ pos \in Int
      /\ Len(ring) \in Nat
  BY <1>1 DEF EndInv, PosInv, RingInv, TypesOK, Handshake, Targets
<1>3. /\ aim \in Nat /\ base \in Nat /\ written \in Nat /\ target \in Nat
      /\ acked = Last => pos + Len(ring) = base + written
  BY DEF EndInv, Counted
<1>4. eof = NoEof => cpc # "mark" /\ ~(ended /\ ~late)
  BY <1>1, <1>2 DEF EndInv, FlagIsDue, Resets
<1>5. /\ published <=> eof # NoEof
      /\ eof # NoEof => done /\ tail = 0 /\ eof = base + written
  BY DEF EndInv, EofIsKnown
<1>6. ASSUME PublishEof, tail = 0, done'
      PROVE  Counted' /\ EofIsKnown' /\ FlagIsDue'
  <2>1. /\ published' /\ UNCHANGED <<ring, tail, written>>
        /\ eof' = IF published THEN eof ELSE base + written
    BY <1>6 DEF PublishEof
  <2>2. Counted'
    BY <1>1, <1>2, <1>3, <2>1 DEF Counted, Resets, Last
  <2>3. eof' # NoEof /\ eof' = base + written
    BY <1>3, <1>5, <2>1 DEF NoEof
  <2>4. EofIsKnown'
    BY <1>1, <1>2, <1>6, <2>1, <2>3 DEF EofIsKnown, Resets
  <2>5. CASE published
    BY <1>1, <1>5, <2>1, <2>3, <2>4, <2>5, <2>2 DEF EndInv, FlagIsDue, Last
  <2>6. CASE ~published
    BY <1>1, <1>4, <1>5, <2>2, <2>4, <2>6 DEF FlagIsDue
  <2>. QED  BY <2>5, <2>6
<1>7. ASSUME NEW t \in Nat, WriteTail(t), source' \in Int, tail > 0 \/ ~done
      PROVE  Counted' /\ EofIsKnown' /\ FlagIsDue'
  <2>1. PICK k \in 0 .. t : Len(ring') = Len(ring) + k /\ written' = written + k
    BY <1>7, WriteTailDoes DEF EndInv, PosInv
  <2>2. UNCHANGED <<published, eof>>
    BY <1>7 DEF WriteTail
  <2>3. eof = NoEof /\ ~published
    BY <1>5, <1>7
  <2>4. Counted'
    BY <1>1, <1>2, <1>3, <2>1 DEF Counted, Resets, Last
  <2>5. EofIsKnown' /\ FlagIsDue'
    BY <1>1, <1>4, <2>2, <2>3 DEF EofIsKnown, FlagIsDue
  <2>. QED  BY <2>4, <2>5
<1>8. source' \in Int
  BY WorkDoes DEF EndInv, PosInv
<1>. QED  BY <1>6, <1>7, <1>8, WorkDoes DEF EndInv, PosInv

LEMMA DecodeEndStep ==
  ASSUME EndInv, Decode
  PROVE  Counted' /\ EofIsKnown' /\ FlagIsDue'
<1>. USE DEF Counted, EofIsKnown, FlagIsDue, Resets, Last
<1>0. /\ acked \in Nat /\ myGen \in Nat /\ seen \in Nat /\ requested \in Nat /\ Last \in Nat
      /\ acked <= myGen /\ myGen <= seen /\ seen <= requested /\ requested <= Last
      /\ dpc \in {"aim", "again", "reset", "clear", "stop"} => seen > myGen
      /\ dpc \in {"again", "reset"} /\ seen = Last => aim = asked[Last]
      /\ Counted /\ EofIsKnown /\ FlagIsDue
  BY Order DEF EndInv, PosInv, RingInv, TypesOK, Targets, SourceInv
<1>1. CASE Poll
  BY <1>0, <1>1 DEF Poll, shared, output, engine, history
<1>2. CASE Aim
  BY <1>0, <1>2 DEF Aim, Goes, shared, output, engine, history
<1>3. CASE Again
  BY <1>0, <1>3 DEF Again, shared, output, engine, history
<1>4. CASE Reset
  BY <1>0, <1>4 DEF Reset, Goes, output, engine
<1>5. CASE Clear
  BY <1>0, <1>5 DEF Clear, Goes, output, engine
<1>6. CASE Halt
  BY <1>0, <1>6 DEF Halt, Goes, output, engine, history
<1>7. CASE WaitAck
  BY <1>0, <1>7 DEF WaitAck, shared, output, engine, history
<1>8. CASE Work
  BY <1>8, WorkEndStep
<1>9. CASE Leave
  BY <1>0, <1>9 DEF Leave, Goes, shared, output, engine, history
<1>. QED  BY <1>1, <1>2, <1>3, <1>4, <1>5, <1>6, <1>7, <1>8, <1>9 DEF Decode

LEMMA OutputEndStep ==
  ASSUME EndInv, Output
  PROVE  Counted' /\ EofIsKnown' /\ FlagIsDue'
<1>0. /\ acked \in Nat /\ myGen \in Nat /\ req \in Nat /\ requested \in Nat /\ Last \in Nat
      /\ acked <= myGen /\ requested <= Last /\ myGen <= requested /\ stopped = myGen
      /\ cpc \in {"flush", "ack"} => acked < req /\ req <= requested
      /\ cpc = "ack" => req <= myGen /\ ring = <<>>
      /\ cpc = "ack" /\ req = Last => pos = asked[Last]
      /\ pos \in Int /\ Len(ring) \in Nat
      /\ Counted /\ EofIsKnown /\ FlagIsDue
  <2>1. RingInv /\ Targets /\ SourceInv /\ Counted /\ EofIsKnown /\ FlagIsDue
    BY DEF EndInv, PosInv
  <2>2. /\ acked \in Nat /\ myGen \in Nat /\ req \in Nat /\ requested \in Nat /\ Last \in Nat
        /\ acked <= myGen /\ requested <= Last /\ myGen <= requested
    BY <2>1, Order DEF RingInv, TypesOK
  <2>3. /\ stopped = myGen /\ Len(ring) \in Nat
        /\ cpc \in {"flush", "ack"} => acked < req /\ req <= requested
        /\ cpc = "ack" => req <= myGen /\ ring = <<>>
    BY <2>1 DEF RingInv, TypesOK, Handshake
  <2>4. /\ pos \in Int
        /\ cpc = "ack" /\ req = Last => pos = asked[Last]
    BY <2>1 DEF Targets, SourceInv
  <2>. QED  BY <2>1, <2>2, <2>3, <2>4
<1>. USE DEF Counted, EofIsKnown, FlagIsDue, Resets, Last
<1>1. CASE Begin
  BY <1>0, <1>1 DEF Begin, shared, decoder, engine, history
<1>2. CASE Flush
  BY <1>0, <1>2 DEF Flush, decoder, engine, history
<1>3. CASE Ack
  BY <1>0, <1>3 DEF Ack, Moves, decoder, engine, history
<1>4. CASE Play
  <2>1. /\ UNCHANGED <<target, requested, stopped, acked, eof, ended, decoder, req, asked,
                       late>>
        /\ cpc = "play" /\ cpc' \in {"write", "end"}
    BY <1>4 DEF Play
  <2>2. \/ UNCHANGED <<ring, pos>>
        \/ \E k \in 0 .. Period : Len(ring') = Len(ring) - k /\ pos' = pos + k
    <3>1. RingInv
      BY DEF EndInv, PosInv
    <3>2. \/ UNCHANGED <<ring, pos, given>>
          \/ \E k \in 0 .. Period : Len(ring') = Len(ring) - k /\ pos' = pos + k
      BY <1>4, <3>1, PlayDoes
    <3>. QED  BY <3>2
  <2>3. pos' \in Int /\ pos' >= pos /\ pos' + Len(ring') = pos + Len(ring)
    BY <1>0, <2>2
  <2>4. Counted' /\ EofIsKnown'
    BY <1>0, <2>1, <2>3 DEF decoder
  <2>5. eof # NoEof => eof \in Int
    BY <1>0
  <2>6. FlagIsDue'
    BY <1>0, <2>1, <2>3, <2>5 DEF decoder
  <2>. QED  BY <2>4, <2>6
<1>5. CASE End
  BY <1>0, <1>5 DEF End, shared, decoder, engine, history
<1>6. CASE Mark
  BY <1>0, <1>6 DEF Mark, Moves, decoder, engine, history
<1>7. CASE Write
  BY <1>0, <1>7 DEF Write, decoder, engine, history
<1>8. CASE Quit
  BY <1>0, <1>8 DEF Quit, Moves, shared, decoder, engine, history
<1>. QED  BY <1>1, <1>2, <1>3, <1>4, <1>5, <1>6, <1>7, <1>8 DEF Output

LEMMA EngineEndStep ==
  ASSUME EndInv, EngineStep
  PROVE  Counted' /\ EofIsKnown' /\ FlagIsDue'
<1>0. /\ acked \in Nat /\ myGen \in Nat /\ seen \in Nat /\ Last \in Nat
      /\ acked <= myGen /\ myGen <= seen /\ seen <= Last
      /\ asked \in Seq(Int)
      /\ Counted /\ EofIsKnown /\ FlagIsDue
  BY Order DEF EndInv, PosInv, RingInv, TypesOK, Targets
<1>. USE DEF Counted, EofIsKnown, FlagIsDue, Resets, Last
<1>1. CASE Started
  BY <1>0, <1>1 DEF Started, decoder, history
<1>2. CASE NotStarted
  BY <1>0, <1>2 DEF NotStarted, shared, decoder, output, history
<1>3. CASE PlayPause
  BY <1>0, <1>3 DEF PlayPause, decoder, output, engine, history
<1>4. ASSUME NEW t \in 0 .. Length, StoreTarget(t)
      PROVE  Counted' /\ EofIsKnown' /\ FlagIsDue'
  <2>1. Len(asked') = Len(asked) + 1 /\ t \in Nat
    BY <1>0, <1>4, SessionAssumption DEF StoreTarget
  <2>2. /\ target' = t
        /\ UNCHANGED <<acked, eof, ended, pos, ring, decoder, cpc, late>>
    BY <1>4 DEF StoreTarget, output
  <2>3. Last' = Last + 1 /\ acked' # Last' /\ seen' # Last' /\ myGen' # Last'
    BY <1>0, <2>1, <2>2 DEF decoder
  <2>4. Counted'
    BY <1>0, <2>1, <2>2, <2>3 DEF decoder
  <2>. QED  BY <1>0, <2>2, <2>3, <2>4 DEF decoder
<1>5. CASE Request
  BY <1>0, <1>5 DEF Request, decoder, output, history
<1>6. CASE Close \/ StopDecoder \/ Closed
  <2>1. UNCHANGED <<shared, ring, decoder, output, asking, history>>
    BY <1>6 DEF Close, StopDecoder, Closed
  <2>. QED  BY <1>0, <2>1 DEF shared, decoder, output, history
<1>. QED  BY <1>1, <1>2, <1>3, <1>4, <1>5, <1>6 DEF EngineStep, Joins, Seek

\* What the decoder has counted, what it has published and what the callback
\* has flagged agree, however a seek comes between the look at the end and the
\* flag.
THEOREM EndInvariant == SessionSpec => []EndInv
<1>1. SessionInit /\ PosInv => EndInv
  <2>. SUFFICES ASSUME SessionInit PROVE Counted /\ EofIsKnown /\ FlagIsDue
    BY DEF EndInv
  <2>1. PICK s \in 0 .. Length : pos = s /\ base = s /\ asked = <<s>>
    BY DEF SessionInit
  <2>2. /\ ring = <<>> /\ tail = 0 /\ dpc = "poll" /\ cpc = "off" /\ written = 0
        /\ acked = 1 /\ myGen = 1 /\ aim = 0 /\ target = 0 /\ eof = NoEof
        /\ published = FALSE /\ ended = FALSE
    BY DEF SessionInit
  <2>3. s \in Nat /\ Len(ring) = 0
    BY <2>2, SessionAssumption
  <2>4. Counted
    BY <2>1, <2>2, <2>3 DEF Counted, Resets
  <2>. QED  BY <2>2, <2>4 DEF EofIsKnown, FlagIsDue, Resets
<1>2. EndInv /\ PosInv' /\ [SessionNext]_vars => EndInv'
  <2>1. EndInv /\ UNCHANGED vars => Counted' /\ EofIsKnown' /\ FlagIsDue'
    BY DEF vars, shared, decoder, output, engine, history, EndInv, Counted, EofIsKnown,
           FlagIsDue, Resets, Last
  <2>. QED  BY <2>1, DecodeEndStep, OutputEndStep, EngineEndStep DEF SessionNext, EndInv
<1>. QED  BY <1>1, <1>2, PositionInvariant, PTL DEF SessionSpec

\* When the engine is told of the end, every frame that the source has yielded
\* since the seek was heard, and the source is at the end of the track, or has
\* failed.
THEOREM EndIsTheEnd == SessionSpec => []EndedIsComplete
BY CompleteIsFromInv, EndInvariant, PTL

-----------------------------------------------------------------------------
(* What is heard                                                           *)

\* Where a seek may be aimed: at its target, or at that of a seek that came
\* while it was carried out; and where it may begin to be heard.
Aims(g) == {asked[h] : h \in g .. Last}
Starts(g) == {n \in Nat : \E t \in Aims(g) : n \in Lands(t)}

\* The generation whose place the source has, between the two ends of a seek.
Gen == IF Resets THEN seen ELSE myGen

\* How far the frames of a generation may reach.
Reach(g) == IF g \in broke THEN Length + Packet ELSE Length

InTrack ==
  /\ source <= Reach(Gen) /\ source - tail >= 0
  /\ asked \in Seq(0 .. Length)
  /\ \A i \in 1 .. Len(ring) : 0 <= ring[i].n /\ ring[i].n < Reach(acked)

\* The source stands at the beginning of the generation that is not yet
\* acknowledged, or has refused to.
Waits ==
  /\ dpc \in {"again", "reset"} => aim \in Aims(seen)
  /\ Resets \/ acked # myGen =>
       tail = 0 /\ (source \in Starts(Gen) \/ Gen \in refused)

\* The frame that the listener hears next, if it is to come from the ring.
Begins(b) == IF given.g = acked THEN b = given.n + 1
                                ELSE b \in Starts(acked) \/ acked \in refused

\* What is in the ring comes after what was heard, without a gap, and what
\* the decoder writes next comes after that.
Follows ==
  \E b \in Int :
    /\ Begins(b)
    /\ \A i \in 1 .. Len(ring) : ring[i].n = b + i - 1
    /\ ~Resets /\ acked = myGen => source - tail = b + Len(ring)

HeardInv == PosInv /\ InTrack /\ Waits /\ Follows

\* A generation can begin with the last target.
LEMMA LastStarts ==
  ASSUME NEW g \in Nat, g <= Last, Last \in Nat
  PROVE  asked[Last] \in Aims(g)
BY DEF Aims

\* A seek that finds its target may begin with it.
LEMMA AimStarts ==
  ASSUME NEW g, NEW t \in Aims(g), t \in Nat
  PROVE  t \in Starts(g)
<1>1. t \in Lands(t)
  BY SessionAssumption DEF Lands
<1>. QED  BY <1>1 DEF Starts

LEMMA ReachIsNat ==
  ASSUME NEW g
  PROVE  /\ Reach(g) \in Nat /\ Reach(g) >= Length
         /\ g \in broke => Reach(g) = Length + Packet
BY SessionAssumption DEF Reach

LEMMA HeardOrder ==
  ASSUME HeardInv
  PROVE  /\ RingInv /\ Targets /\ InTrack /\ Waits /\ Follows
         /\ acked \in Nat /\ myGen \in Nat /\ seen \in Nat /\ req \in Nat /\ Last \in Nat
         /\ 1 <= acked /\ acked <= myGen /\ myGen <= seen /\ seen <= requested
         /\ requested <= Last /\ requested \in Nat /\ stopped = myGen
         /\ source \in Int /\ tail \in Nat /\ Len(ring) \in Nat
         /\ given \in Frame /\ given.g \in Nat /\ given.n \in Int /\ given.g <= acked
<1>1. RingInv /\ Targets /\ InTrack /\ Waits /\ Follows
  BY DEF HeardInv, PosInv
<1>2. stopped = myGen /\ requested \in Nat /\ source \in Int /\ tail \in Nat /\ Len(ring) \in Nat
  BY <1>1 DEF RingInv, TypesOK, Handshake
<1>3. 1 <= acked /\ given \in Frame /\ given.g <= acked
  BY <1>1, Order DEF Targets
<1>. QED  BY <1>1, <1>2, <1>3, Order DEF Frame

\* Steps that touch neither the ring nor the source.
LEMMA RestKeepsHeard ==
  ASSUME HeardInv,
         UNCHANGED <<acked, myGen, tail, source, ring, asked, refused, broke, given>>,
         Resets' <=> Resets, Resets => seen' = seen,
         dpc' \in {"again", "reset"} => (aim \in Aims(seen))'
  PROVE  InTrack' /\ Waits' /\ Follows'
<1>1. Gen' = Gen
  BY DEF Gen
<1>2. \A g : Reach(g)' = Reach(g) /\ Aims(g)' = Aims(g) /\ Starts(g)' = Starts(g)
  BY DEF Reach, Starts, Aims, Last
<1>3. InTrack /\ Waits /\ Follows
  BY HeardOrder
<1>4. InTrack'
  BY <1>1, <1>2, <1>3 DEF InTrack
<1>5. Waits'
  BY <1>1, <1>2, <1>3 DEF Waits
<1>6. Follows'
  BY <1>2, <1>3 DEF Follows, Begins
<1>. QED  BY <1>4, <1>5, <1>6

\* What the decoder writes goes on where the ring ends.
LEMMA WriteHeardStep ==
  ASSUME HeardInv, dpc = "work", dpc' = "poll", NEW t \in Nat, WriteTail(t),
         source' - t = source - tail, source' \in Nat, source' <= Reach(myGen)',
         broke \subseteq broke', UNCHANGED <<acked, myGen, asked, refused, given>>
  PROVE  InTrack' /\ Waits' /\ Follows'
<1>1. PICK k \in 0 .. t :
        /\ Len(ring') = Len(ring) + k /\ tail' = t - k
        /\ \A i \in 1 .. Len(ring) : ring'[i] = ring[i]
        /\ \A i \in Len(ring) + 1 .. Len(ring) + k :
             ring'[i] = [g |-> myGen, n |-> (source' - t) + (i - Len(ring)) - 1]
  <2>1. RingInv /\ source' \in Int
    BY HeardOrder
  <2>. QED  BY <2>1, WriteTailDoes
<1>2. acked = myGen /\ ~Resets /\ ~Resets' /\ Gen' = myGen
  <2>1. acked = myGen
    BY HeardOrder DEF RingInv, Handshake
  <2>. QED  BY <2>1 DEF Resets, Gen
<1>3. /\ source \in Int /\ tail \in Nat /\ Len(ring) \in Nat /\ source' \in Int
      /\ ring \in Seq(Frame) /\ InTrack /\ Follows
  BY HeardOrder DEF RingInv, TypesOK
<1>4. PICK b \in Int :
        /\ Begins(b)
        /\ \A i \in 1 .. Len(ring) : ring[i].n = b + i - 1
        /\ source - tail = b + Len(ring)
  BY <1>2, <1>3 DEF Follows
<1>5. source' - t >= 0
  <2>1. source - tail >= 0
    BY <1>3 DEF InTrack
  <2>. QED  BY <2>1, Zenon
<1>. DEFINE far == Reach(myGen)'
<1>6. far \in Nat /\ source' <= far /\ Reach(acked) <= far /\ Reach(acked) \in Nat
  BY <1>2, SessionAssumption DEF Reach
<1>7. Reach(acked)' = far /\ Reach(Gen)' = far
  BY <1>2 DEF Reach
<1>. HIDE DEF far
<1>8. source' - tail' = b + Len(ring')
  <2>1. source' - (t - k) = (source' - t) + k
    BY <1>1, <1>3
  <2>. QED  BY <1>1, <1>3, <1>4, <2>1
<1>9. ASSUME NEW i \in 1 .. Len(ring')
      PROVE  ring'[i].n = b + i - 1 /\ 0 <= ring'[i].n /\ ring'[i].n < far
  <2>1. CASE i <= Len(ring)
    <3>1. i \in 1 .. Len(ring) /\ ring'[i] = ring[i]
      BY <1>1, <1>3, <2>1
    <3>2. ring[i].n \in Int
      <4>1. ring[i] \in Frame
        BY <1>3, <3>1
      <4>. QED  BY <4>1 DEF Frame
    <3>3. 0 <= ring[i].n /\ ring[i].n < Reach(acked)
      BY <1>3, <3>1 DEF InTrack
    <3>4. ring[i].n = b + i - 1
      BY <1>4, <3>1
    <3>5. ring[i].n < far
      BY <1>6, <3>2, <3>3
    <3>. QED  BY <3>1, <3>3, <3>4, <3>5
  <2>2. CASE i > Len(ring)
    <3>1. i \in Len(ring) + 1 .. Len(ring) + k
      BY <1>1, <1>3, <2>2
    <3>2. ring'[i] = [g |-> myGen, n |-> (source' - t) + (i - Len(ring)) - 1]
      BY <1>1, <3>1
    <3>3. ring'[i].n = (source' - t) + (i - Len(ring)) - 1
      BY <3>2
    <3>4. (source' - t) + (i - Len(ring)) - 1 = b + i - 1
      <4>1. source' - t = b + Len(ring)
        BY <1>4
      <4>2. b \in Int /\ Len(ring) \in Int /\ i \in Int
        BY <1>3, <3>1
      <4>. QED  BY <4>1, <4>2
    <3>5. i - Len(ring) \in Int /\ i - Len(ring) >= 1 /\ i - Len(ring) <= t
      BY <1>1, <1>3, <3>1
    <3>6. ASSUME NEW x \in Int, NEW y \in Int, x <= far, x - t >= 0, y >= 1, y <= t
          PROVE  0 <= (x - t) + y - 1 /\ (x - t) + y - 1 < far
      BY <1>6, <3>6
    <3>7. /\ 0 <= (source' - t) + (i - Len(ring)) - 1
          /\ (source' - t) + (i - Len(ring)) - 1 < far
      BY <1>3, <1>5, <1>6, <3>5, <3>6
    <3>. QED  BY <3>3, <3>4, <3>7
  <2>. QED  BY <1>1, <1>3, <2>1, <2>2
<1>10. Follows'
  <2>1. Begins(b)'
    BY <1>4 DEF Begins, Starts, Aims, Last
  <2>. QED  BY <1>4, <1>8, <1>9, <2>1 DEF Follows
<1>11. InTrack'
  <2>1. tail' \in Int /\ tail' <= t
    BY <1>1
  <2>2. ASSUME NEW x \in Int, NEW y \in Int, y <= t, x - t >= 0
        PROVE  x - y >= 0
    BY <2>2
  <2>3. source' - tail' >= 0
    BY <1>3, <1>5, <2>1, <2>2
  <2>4. asked' \in Seq(0 .. Length)
    BY <1>3 DEF InTrack
  <2>. QED  BY <1>6, <1>7, <1>9, <2>3, <2>4 DEF InTrack
<1>12. Waits'
  BY <1>2 DEF Waits
<1>. QED  BY <1>10, <1>11, <1>12

LEMMA WorkHeardStep ==
  ASSUME HeardInv, Work
  PROVE  InTrack' /\ Waits' /\ Follows'
<1>1. /\ UNCHANGED <<acked, myGen, seen, aim, asked, refused, given>>
      /\ dpc = "work" /\ dpc' = "poll"
  BY DEF Work, Goes
<1>2. RingInv /\ InTrack /\ Waits /\ Follows /\ acked = myGen /\ ~Resets /\ ~Resets'
  BY <1>1, HeardOrder DEF RingInv, Handshake, Resets
<1>3. Gen = myGen /\ Gen' = myGen
  BY <1>1, <1>2 DEF Gen
<1>4. /\ source' \in Nat /\ Drained' /\ broke' \in {broke, broke \cup {myGen}}
      /\ source' # source /\ source' > Length => myGen \in broke'
  BY <1>2, WorkDoes
<1>5. /\ broke \subseteq broke' /\ Reach(myGen) <= Reach(myGen)' /\ Reach(myGen) \in Nat
      /\ Reach(myGen)' \in Nat /\ Length <= Reach(myGen)'
      /\ myGen \in broke' => Reach(myGen)' = Length + Packet
  BY <1>1, <1>4, SessionAssumption DEF Reach
<1>. DEFINE near == Reach(myGen)
            far == Reach(myGen)'
<1>6. source' <= far
  <2>1. source' <= Length + Packet /\ source <= Reach(myGen) /\ source \in Nat /\ Length \in Nat
    BY <1>2, <1>3, <1>4, SessionAssumption DEF Drained, InTrack, RingInv, TypesOK
  <2>2. /\ source <= near /\ near <= far /\ near \in Nat /\ far \in Nat /\ Length <= far
        /\ myGen \in broke' => far = Length + Packet
    BY <1>3, <1>5, <2>1
  <2>3. source' \in Nat /\ (source' # source /\ source' > Length => myGen \in broke')
    BY <1>4
  <2>. HIDE DEF near, far
  <2>4. CASE source' = source
    BY <2>1, <2>2, <2>4
  <2>5. CASE source' # source /\ source' > Length
    BY <2>1, <2>2, <2>3, <2>5
  <2>6. CASE ~(source' > Length)
    BY <2>1, <2>2, <2>3, <2>6
  <2>. QED  BY <2>4, <2>5, <2>6
<1>7. ASSUME PublishEof, source' = source
      PROVE  InTrack' /\ Waits' /\ Follows'
  <2>1. UNCHANGED <<ring, tail>>
    BY <1>7 DEF PublishEof
  <2>2. InTrack'
    <3>1. ASSUME NEW i \in 1 .. Len(ring)
          PROVE  0 <= ring[i].n /\ ring[i].n < Reach(acked)'
      <4>1. 0 <= ring[i].n /\ ring[i].n < Reach(acked) /\ ring[i] \in Frame
        BY <1>2 DEF InTrack, RingInv, TypesOK
      <4>2. Reach(acked)' = Reach(myGen)' /\ Reach(acked) = Reach(myGen) /\ ring[i].n \in Int
        BY <1>1, <1>2, <4>1 DEF Frame, Reach
      <4>3. near <= far /\ near \in Nat /\ far \in Nat
        BY <1>5
      <4>4. ring[i].n < near /\ Reach(acked)' = far
        BY <4>1, <4>2
      <4>. HIDE DEF near, far
      <4>. QED  BY <4>1, <4>2, <4>3, <4>4
    <3>2. source' <= Reach(Gen)'
      BY <1>1, <1>3, <1>6 DEF Reach
    <3>. QED  BY <1>1, <1>2, <1>7, <2>1, <3>1, <3>2 DEF InTrack
  <2>3. Waits'
    BY <1>1, <1>2 DEF Waits
  <2>4. Follows'
    BY <1>1, <1>2, <1>7, <2>1 DEF Follows, Begins, Starts, Aims, Last
  <2>. QED  BY <2>2, <2>3, <2>4
<1>8. ASSUME NEW t \in Nat, WriteTail(t), source' - t = source - tail
      PROVE  InTrack' /\ Waits' /\ Follows'
  BY <1>1, <1>4, <1>5, <1>6, <1>8, WriteHeardStep
<1>. QED  BY <1>2, <1>7, <1>8, WorkDoes

LEMMA ResetHeardStep ==
  ASSUME HeardInv, Reset
  PROVE  InTrack' /\ Waits' /\ Follows'
<1>1. /\ UNCHANGED <<acked, myGen, seen, ring, asked, broke, given>>
      /\ dpc = "reset" /\ dpc' = "clear" /\ tail' = 0
  BY DEF Reset, Goes
<1>2. /\ source' \in 0 .. Length
      /\ \/ source' \in Lands(aim) /\ refused' = refused
         \/ refused' = refused \cup {seen}
  BY HeardOrder, ResetDoes
<1>3. ~Resets /\ Resets' /\ Gen' = seen
  BY <1>1 DEF Resets, Gen
<1>4. aim \in Aims(seen) /\ InTrack /\ Follows
  BY <1>1, HeardOrder DEF Waits
<1>5. InTrack'
  <2>1. source' - tail' >= 0
    <3>1. source' \in Nat
      BY <1>2, SessionAssumption
    <3>2. tail' = 0
      BY <1>1
    <3>3. ASSUME NEW x \in Nat, NEW y, y = 0
          PROVE  x - y >= 0
      BY <3>3
    <3>. QED  BY <3>1, <3>2, <3>3, Zenon
  <2>2. source' <= Reach(Gen)'
    BY <1>2, SessionAssumption DEF Reach
  <2>3. Reach(acked)' = Reach(acked)
    BY <1>1 DEF Reach
  <2>. QED  BY <1>1, <1>4, <2>1, <2>2, <2>3 DEF InTrack
<1>6. Waits'
  <2>1. source' \in Starts(seen) \/ seen \in refused'
    BY <1>2, <1>4, SessionAssumption DEF Starts
  <2>2. Starts(seen)' = Starts(seen) /\ Starts(Gen)' = Starts(seen)'
    BY <1>1, <1>3 DEF Starts, Aims, Last
  <2>. QED  BY <1>1, <1>3, <2>1, <2>2 DEF Waits
<1>7. Follows'
  <2>1. Starts(acked)' = Starts(acked) /\ refused \subseteq refused'
    BY <1>1, <1>2 DEF Starts, Aims, Last
  <2>2. \A b \in Int : Begins(b) => Begins(b)'
    BY <1>1, <2>1 DEF Begins
  <2>. QED  BY <1>1, <1>3, <1>4, <2>2 DEF Follows
<1>. QED  BY <1>5, <1>6, <1>7

LEMMA DecodeHeardStep ==
  ASSUME HeardInv, Decode
  PROVE  InTrack' /\ Waits' /\ Follows'
<1>1. CASE Poll
  BY <1>1, RestKeepsHeard DEF Poll, shared, history, Resets
<1>2. CASE Aim
  <2>1. /\ UNCHANGED <<acked, myGen, seen, tail, source, ring, asked, refused, broke, given>>
        /\ aim' = target /\ dpc = "aim" /\ dpc' = "again"
    BY <1>2 DEF Aim, Goes, shared, history
  <2>2. seen > myGen /\ Last > 1 => target = asked[Last]
    BY <2>1, HeardOrder DEF Targets
  <2>3. target \in Aims(seen)
    <3>1. seen > myGen
      BY <2>1, HeardOrder DEF Targets
    <3>2. seen \in Nat /\ seen <= Last /\ Last \in Nat /\ Last > 1
      BY <3>1, HeardOrder
    <3>. QED  BY <2>2, <3>1, <3>2, LastStarts
  <2>4. (aim \in Aims(seen))'
    BY <2>1, <2>3 DEF Aims, Last
  <2>. QED  BY <2>1, <2>4, RestKeepsHeard DEF Resets
<1>3. CASE Again
  <2>1. /\ UNCHANGED <<acked, myGen, aim, tail, source, ring, asked, refused, broke, given>>
        /\ dpc = "again" /\ dpc' = (IF requested = seen THEN "reset" ELSE "aim")
        /\ seen' = requested
    BY <1>3 DEF Again, shared, history
  <2>2. aim \in Aims(seen)
    BY <2>1, HeardOrder DEF Waits
  <2>3. dpc' = "reset" => (aim \in Aims(seen))'
    BY <2>1, <2>2 DEF Aims, Last
  <2>. QED  BY <2>1, <2>3, RestKeepsHeard DEF Resets
<1>4. CASE Reset
  BY <1>4, ResetHeardStep
<1>5. CASE Clear
  BY <1>5, RestKeepsHeard DEF Clear, Goes, Resets
<1>6. CASE Halt
  <2>1. /\ UNCHANGED <<acked, seen, tail, source, ring, asked, refused, broke, given>>
        /\ dpc = "stop" /\ dpc' = "ack" /\ myGen' = seen
    BY <1>6 DEF Halt, Goes, history
  <2>2. Resets /\ ~Resets' /\ Gen = seen /\ Gen' = seen
    BY <2>1 DEF Resets, Gen
  <2>3. acked' # myGen'
    BY <2>1, HeardOrder DEF Targets
  <2>4. /\ \A g : Reach(g)' = Reach(g) /\ Aims(g)' = Aims(g) /\ Starts(g)' = Starts(g)
        /\ Gen' = Gen
    BY <2>1, <2>2 DEF Reach, Starts, Aims, Last
  <2>5. InTrack' /\ Waits'
    <3>1. InTrack /\ Waits
      BY HeardOrder
    <3>2. InTrack'
      BY <2>1, <2>4, <3>1 DEF InTrack
    <3>3. Waits'
      BY <2>1, <2>2, <2>4, <3>1 DEF Waits
    <3>. QED  BY <3>2, <3>3
  <2>6. Follows'
    BY <2>1, <2>3, <2>4, HeardOrder DEF Follows, Begins
  <2>. QED  BY <2>5, <2>6
<1>7. CASE WaitAck
  BY <1>7, RestKeepsHeard DEF WaitAck, shared, history, Resets
<1>8. CASE Work
  BY <1>8, WorkHeardStep
<1>9. CASE Leave
  BY <1>9, RestKeepsHeard DEF Leave, Goes, shared, history, Resets
<1>. QED  BY <1>1, <1>2, <1>3, <1>4, <1>5, <1>6, <1>7, <1>8, <1>9 DEF Decode

\* A generation that is acknowledged begins where the source waits.
LEMMA AckHeardStep ==
  ASSUME HeardInv, Ack
  PROVE  InTrack' /\ Waits' /\ Follows'
<1>1. /\ UNCHANGED <<dpc, myGen, seen, aim, tail, source, ring, asked, refused, broke, given>>
      /\ cpc = "ack" /\ acked' = req
  BY DEF Ack, Moves, decoder, history
<1>2. acked < req /\ req <= requested /\ req <= myGen /\ ring = <<>>
  BY <1>1, HeardOrder DEF RingInv, Handshake
<1>3. /\ acked \in Nat /\ req \in Nat /\ myGen \in Nat /\ Last \in Nat /\ req <= Last
      /\ source \in Int /\ Len(ring') = 0 /\ given.g # req /\ acked # myGen
  BY <1>1, <1>2, HeardOrder
<1>4. /\ tail = 0 /\ (source \in Starts(Gen) \/ Gen \in refused)
      /\ dpc \in {"again", "reset"} => aim \in Aims(seen)
      /\ InTrack
  BY <1>3, HeardOrder DEF Waits
<1>5. Gen' = Gen /\ \A g : Reach(g)' = Reach(g) /\ Aims(g)' = Aims(g) /\ Starts(g)' = Starts(g)
  BY <1>1 DEF Gen, Resets, Reach, Starts, Aims, Last
<1>6. InTrack' /\ Waits'
  <2>1. \A i \in 1 .. Len(ring') : FALSE
    BY <1>3
  <2>2. InTrack'
    BY <1>1, <1>4, <1>5, <2>1 DEF InTrack
  <2>3. Waits'
    BY <1>1, <1>4, <1>5 DEF Waits
  <2>. QED  BY <2>2, <2>3
<1>7. Follows'
  <2>1. \A i \in 1 .. Len(ring') : FALSE
    BY <1>3
  <2>2. CASE ~Resets /\ req = myGen
    <3>1. Gen = req
      BY <2>2 DEF Gen
    <3>2. Begins(source)'
      BY <1>1, <1>3, <1>4, <1>5, <3>1 DEF Begins
    <3>3. source' - tail' = source + Len(ring')
      BY <1>1, <1>3, <1>4
    <3>. QED  BY <1>1, <1>3, <2>1, <3>2, <3>3 DEF Follows
  <2>3. CASE Resets \/ req # myGen
    <3>1. asked[Last] \in Nat
      <4>1. asked \in Seq(0 .. Length) /\ Last \in 1 .. Len(asked)
        BY <1>2, <1>3, <1>4 DEF InTrack, Last
      <4>2. asked[Last] \in 0 .. Length
        <5>1. ASSUME NEW S, NEW q \in Seq(S), NEW i \in 1 .. Len(q)
              PROVE  q[i] \in S
          BY <5>1
        <5>. QED  BY <4>1, <5>1, Zenon
      <4>. QED  BY <4>2, SessionAssumption
    <3>2. PICK b \in Int : b = asked[Last] /\ b \in Starts(req)
      BY <1>3, <3>1, LastStarts, AimStarts
    <3>3. Begins(b)'
      BY <1>1, <1>3, <1>5, <3>2 DEF Begins
    <3>4. ~(~Resets' /\ acked' = myGen')
      BY <1>1, <2>3 DEF Resets
    <3>. QED  BY <2>1, <3>2, <3>3, <3>4 DEF Follows
  <2>. QED  BY <2>2, <2>3
<1>. QED  BY <1>6, <1>7

LEMMA PlayHeardStep ==
  ASSUME HeardInv, Play
  PROVE  InTrack' /\ Waits' /\ Follows'
<1>1. UNCHANGED <<dpc, acked, myGen, seen, aim, tail, source, asked, refused, broke>>
  BY DEF Play, decoder
<1>2. CASE UNCHANGED <<ring, given>>
  BY <1>1, <1>2, HeardOrder, RestKeepsHeard DEF Resets, Waits, Aims, Last
<1>3. ASSUME NEW k \in 0 .. Period, k <= Len(ring), Len(ring') = Len(ring) - k,
             \A i \in 1 .. Len(ring) - k : ring'[i] = ring[k + i],
             given' = IF k = 0 THEN given ELSE ring[k]
      PROVE  InTrack' /\ Waits' /\ Follows'
  <2>1. /\ Len(ring) \in Nat /\ source \in Int /\ tail \in Nat
        /\ InTrack /\ Waits /\ Follows
    BY HeardOrder
  <2>2. PICK b \in Int :
          /\ Begins(b)
          /\ \A i \in 1 .. Len(ring) : ring[i].n = b + i - 1
          /\ ~Resets /\ acked = myGen => source - tail = b + Len(ring)
    BY <2>1 DEF Follows
  <2>3. \A i \in 1 .. Len(ring) - k : k + i \in 1 .. Len(ring)
    BY <1>3, <2>1
  <2>0. Gen' = Gen /\ \A g : Reach(g)' = Reach(g) /\ Aims(g)' = Aims(g) /\ Starts(g)' = Starts(g)
    BY <1>1 DEF Gen, Resets, Reach, Starts, Aims, Last
  <2>4. InTrack'
    <3>1. \A i \in 1 .. Len(ring') : 0 <= ring'[i].n /\ ring'[i].n < Reach(acked)
      BY <1>3, <2>1, <2>3 DEF InTrack
    <3>. QED  BY <1>1, <2>1, <2>0, <3>1 DEF InTrack
  <2>5. Waits'
    BY <1>1, <2>1, <2>0 DEF Waits, Resets
  <2>6. Begins(b + k)'
    <3>1. CASE k = 0
      <4>1. b + k = b /\ given' = given
        BY <1>3, <2>2, <3>1
      <4>. QED  BY <1>1, <2>2, <2>0, <4>1 DEF Begins
    <3>2. CASE k # 0
      <4>1. k \in 1 .. Len(ring) /\ given' = ring[k]
        BY <1>3, <2>1, <3>2
      <4>2. given'.n = b + k - 1
        BY <2>2, <4>1
      <4>3. given'.g = acked
        <5>1. RingIsCurrent /\ ring \in Seq(Frame)
          BY HeardOrder DEF RingInv, TypesOK
        <5>2. k \in DOMAIN ring
          BY <4>1, <5>1
        <5>. QED  BY <4>1, <5>1, <5>2 DEF RingIsCurrent
      <4>4. b + k = given'.n + 1
        BY <2>2, <4>1, <4>2
      <4>. QED  BY <1>1, <4>3, <4>4 DEF Begins
    <3>. QED  BY <3>1, <3>2
  <2>7. ASSUME NEW i \in 1 .. Len(ring')
        PROVE  ring'[i].n = (b + k) + i - 1
    <3>1. ring'[i] = ring[k + i] /\ k + i \in 1 .. Len(ring) /\ i \in Int
      BY <1>3, <2>1, <2>3
    <3>2. ring[k + i].n = b + (k + i) - 1
      BY <2>2, <3>1
    <3>. QED  BY <2>2, <3>1, <3>2
  <2>8. b + Len(ring) = (b + k) + Len(ring')
    BY <1>3, <2>1, <2>2
  <2>9. b + k \in Int
    BY <2>2
  <2>10. ~Resets' /\ acked' = myGen' => source' - tail' = (b + k) + Len(ring')
    BY <1>1, <2>2, <2>8 DEF Resets
  <2>11. Follows'
    <3>. DEFINE c == b + k
    <3>1. c \in Int /\ Begins(c)'
      BY <2>6, <2>9
    <3>2. \A i \in 1 .. Len(ring') : ring'[i].n = c + i - 1
      BY <2>7
    <3>3. ~Resets' /\ acked' = myGen' => source' - tail' = c + Len(ring')
      BY <2>10
    <3>. HIDE DEF c
    <3>. QED  BY <3>1, <3>2, <3>3 DEF Follows
  <2>. QED  BY <2>4, <2>5, <2>11
<1>. QED
  <2>1. RingInv
    BY HeardOrder
  <2>. QED  BY <1>2, <1>3, <2>1, PlayDoes

LEMMA OutputHeardStep ==
  ASSUME HeardInv, Output
  PROVE  InTrack' /\ Waits' /\ Follows'
<1>1. ASSUME UNCHANGED <<dpc, acked, myGen, seen, aim, tail, source, ring, asked, refused,
                         broke, given>>
      PROVE  InTrack' /\ Waits' /\ Follows'
  BY <1>1, HeardOrder, RestKeepsHeard DEF Resets, Waits, Aims, Last
<1>2. CASE Begin
  BY <1>1, <1>2 DEF Begin, shared, decoder, history
<1>3. CASE Flush
  <2>1. /\ UNCHANGED <<dpc, acked, myGen, seen, aim, tail, source, asked, refused, broke, given>>
        /\ cpc = "flush"
    BY <1>3 DEF Flush, decoder, history
  <2>2. CASE UNCHANGED ring
    BY <1>1, <2>1, <2>2
  <2>3. CASE stopped = req /\ ring' = <<>>
    <3>1. acked # myGen
      BY <2>1, <2>3, HeardOrder DEF RingInv, Handshake
    <3>2. Len(ring') = 0 /\ \A i \in 1 .. Len(ring') : FALSE
      BY <2>3
    <3>0. /\ \A g : Reach(g)' = Reach(g) /\ Aims(g)' = Aims(g) /\ Starts(g)' = Starts(g)
          /\ Gen' = Gen
      BY <2>1 DEF Gen, Resets, Reach, Starts, Aims, Last
    <3>3. InTrack'
      BY <2>1, <3>2, <3>0, HeardOrder DEF InTrack
    <3>4. Waits'
      BY <2>1, <3>0, HeardOrder DEF Waits, Resets
    <3>5. Follows'
      BY <2>1, <3>1, <3>2, <3>0, HeardOrder DEF Follows, Begins
    <3>. QED  BY <3>3, <3>4, <3>5
  <2>. QED  BY <1>3, <2>2, <2>3 DEF Flush
<1>4. CASE Ack
  BY <1>4, AckHeardStep
<1>5. CASE Play
  BY <1>5, PlayHeardStep
<1>6. CASE End
  BY <1>1, <1>6 DEF End, shared, decoder, history
<1>7. CASE Mark
  BY <1>1, <1>7 DEF Mark, Moves, decoder
<1>8. CASE Write
  BY <1>1, <1>8 DEF Write, decoder, history
<1>9. CASE Quit
  BY <1>1, <1>9 DEF Quit, Moves, shared, decoder, history
<1>. QED  BY <1>2, <1>3, <1>4, <1>5, <1>6, <1>7, <1>8, <1>9 DEF Output

\* A new target is one more with which every generation could begin.
LEMMA AskHeardStep ==
  ASSUME HeardInv, NEW t \in 0 .. Length, StoreTarget(t)
  PROVE  InTrack' /\ Waits' /\ Follows'
<1>1. UNCHANGED <<dpc, acked, myGen, seen, aim, tail, source, ring, refused, broke, given>>
  BY DEF StoreTarget, decoder
<1>2. InTrack /\ Waits /\ Follows /\ {acked, myGen, seen} \subseteq Nat \ {0}
  <2>1. /\ acked \in Nat /\ myGen \in Nat /\ seen \in Nat
        /\ 1 <= acked /\ acked <= myGen /\ myGen <= seen
    BY HeardOrder
  <2>2. acked # 0 /\ myGen # 0 /\ seen # 0
    BY <2>1
  <2>. QED  BY <2>1, <2>2, HeardOrder
<1>3. /\ asked' \in Seq(0 .. Length) /\ Last \in Nat /\ Last' = Last + 1
      /\ \A h \in 1 .. Last : asked'[h] = asked[h]
  <2>1. asked' = Append(asked, t)
    BY DEF StoreTarget
  <2>2. asked \in Seq(0 .. Length)
    BY <1>2 DEF InTrack
  <2>. QED  BY <2>1, <2>2 DEF Last
<1>4. ASSUME NEW g \in Nat \ {0}
      PROVE  \A h \in g .. Last : h \in g .. Last' /\ asked'[h] = asked[h]
  BY <1>3
<1>5. /\ Aims(seen) \subseteq Aims(seen)' /\ Starts(acked) \subseteq Starts(acked)'
      /\ Starts(Gen) \subseteq Starts(Gen)'
  <2>1. Gen \in Nat \ {0} /\ Gen' = Gen
    BY <1>1, <1>2 DEF Gen, Resets
  <2>2. \A g \in Nat \ {0} : Aims(g) \subseteq {asked'[h] : h \in g .. Last'}
    BY <1>4 DEF Aims
  <2>3. /\ Aims(seen)' = {asked'[h] : h \in seen .. Last'}
        /\ Aims(acked)' = {asked'[h] : h \in acked .. Last'}
        /\ Aims(Gen)' = {asked'[h] : h \in Gen .. Last'}
    BY <1>1, <2>1 DEF Aims
  <2>4. /\ Aims(seen) \subseteq Aims(seen)' /\ Aims(acked) \subseteq Aims(acked)'
        /\ Aims(Gen) \subseteq Aims(Gen)'
    BY <1>2, <2>1, <2>2, <2>3
  <2>. QED  BY <2>4 DEF Starts, Lands
<1>6. InTrack'
  <2>1. Gen' = Gen /\ \A g : Reach(g)' = Reach(g)
    BY <1>1 DEF Gen, Resets, Reach
  <2>. QED  BY <1>1, <1>2, <1>3, <2>1 DEF InTrack
<1>7. Waits'
  <2>1. Gen' = Gen /\ (Resets' <=> Resets)
    BY <1>1 DEF Gen, Resets
  <2>. QED  BY <1>1, <1>2, <1>5, <2>1 DEF Waits
<1>8. Follows'
  <2>1. Resets' <=> Resets
    BY <1>1 DEF Resets
  <2>2. \A b \in Int : Begins(b) => Begins(b)'
    BY <1>1, <1>5 DEF Begins
  <2>. QED  BY <1>1, <1>2, <2>1, <2>2 DEF Follows
<1>. QED  BY <1>6, <1>7, <1>8

LEMMA EngineHeardStep ==
  ASSUME HeardInv, EngineStep
  PROVE  InTrack' /\ Waits' /\ Follows'
<1>1. ASSUME UNCHANGED <<ring, decoder, history, acked>>
      PROVE  InTrack' /\ Waits' /\ Follows'
  BY <1>1, HeardOrder, RestKeepsHeard DEF decoder, history, Resets, Waits, Aims, Last
<1>2. CASE Seek
  BY <1>2, AskHeardStep DEF Seek
<1>3. CASE Started \/ NotStarted \/ PlayPause \/ Close \/ Joins
  BY <1>1, <1>3 DEF Started, NotStarted, PlayPause, Close, Joins, Request, StopDecoder,
                    Closed, shared
<1>. QED  BY <1>2, <1>3 DEF EngineStep

\* What was handed to the device, what is in the ring and what the decoder
\* writes next follow each other without a gap; a generation begins where a seek
\* to its target, or to that of one which came while it was carried out, may
\* land; and nothing but the silence of a failure reaches beyond the track.
THEOREM HeardInvariant == SessionSpec => []HeardInv
<1>1. SessionInit /\ PosInv => HeardInv
  <2>. SUFFICES ASSUME SessionInit PROVE InTrack /\ Waits /\ Follows
    BY DEF HeardInv
  <2>1. PICK s \in 0 .. Length :
          asked = <<s>> /\ (source \in Lands(s) \/ (source = 0 /\ refused = {1}))
    BY DEF SessionInit
  <2>2. /\ ring = <<>> /\ tail = 0 /\ dpc = "poll" /\ acked = 1 /\ myGen = 1
        /\ given = [g |-> 0, n |-> -1]
    BY DEF SessionInit
  <2>3. /\ source \in Int /\ source \in 0 .. Length /\ Len(ring) = 0 /\ ~Resets
        /\ asked \in Seq(0 .. Length) /\ Last = 1 /\ asked[1] = s
    <3>1. source \in 0 .. Length
      BY <2>1, SessionAssumption DEF Lands
    <3>. QED  BY <2>1, <2>2, <3>1, SessionAssumption DEF Resets, Last
  <2>4. InTrack
    <3>1. source <= Reach(Gen) /\ source - tail >= 0
      BY <2>2, <2>3, SessionAssumption DEF Reach
    <3>2. \A i \in 1 .. Len(ring) : FALSE
      BY <2>3
    <3>. QED  BY <2>3, <3>1, <3>2 DEF InTrack
  <2>5. Waits
    BY <2>2, <2>3 DEF Waits
  <2>6. Follows
    <3>1. Begins(source)
      <4>1. 1 \in 1 .. Last /\ s = asked[1] /\ source \in Nat
        BY <2>3, SessionAssumption
      <4>2. source \in Lands(s) => source \in Starts(1)
        BY <4>1 DEF Starts, Aims
      <4>. QED  BY <2>1, <2>2, <4>2 DEF Begins
    <3>2. source - tail = source + Len(ring)
      BY <2>2, <2>3
    <3>3. \A i \in 1 .. Len(ring) : FALSE
      BY <2>3
    <3>. QED  BY <2>3, <3>1, <3>2, <3>3 DEF Follows
  <2>. QED  BY <2>4, <2>5, <2>6
<1>2. HeardInv /\ PosInv' /\ [SessionNext]_vars => HeardInv'
  <2>1. HeardInv /\ UNCHANGED vars => InTrack' /\ Waits' /\ Follows'
    BY DEF vars, shared, decoder, output, engine, history, HeardInv, InTrack, Waits, Follows,
           Begins, Gen, Reach, Resets, Starts, Aims, Last
  <2>. QED  BY <2>1, DecodeHeardStep, OutputHeardStep, EngineHeardStep
            DEF SessionNext, HeardInv
<1>. QED  BY <1>1, <1>2, PositionInvariant, PTL DEF SessionSpec

-----------------------------------------------------------------------------
(* The listener                                                            *)

\* A period that is handed over continues what was heard, or is the jump to
\* a later generation.
LEMMA PlayIsHeard ==
  ASSUME HeardInv, Play
  PROVE  [Heard!Next]_Heard!listenerVars
<1>1. UNCHANGED <<asked, refused, broke>>
  BY DEF Play
<1>2. CASE given' = given
  BY <1>1, <1>2 DEF Heard!listenerVars
<1>3. ASSUME NEW k \in 0 .. Period, k <= Len(ring), k # 0, given' = ring[k]
      PROVE  Heard!Hear
  <2>1. /\ Len(ring) \in Nat /\ Last \in Nat /\ acked \in Nat /\ 1 <= acked /\ acked <= Last
        /\ given \in Frame /\ given.g <= acked /\ given.g \in Nat /\ given.n \in Int
        /\ InTrack /\ Follows /\ RingInv
    BY HeardOrder
  <2>2. k \in 1 .. Len(ring) /\ k \in 1 .. Period
    BY <1>3, <2>1, SessionAssumption
  <2>3. ring[k] \in Frame /\ ring[k].g = acked
    <3>1. ring \in Seq(Frame) /\ RingIsCurrent
      BY <2>1 DEF RingInv, TypesOK
    <3>2. k \in DOMAIN ring
      BY <2>2, <3>1
    <3>. QED  BY <3>1, <3>2 DEF RingIsCurrent
  <2>4. /\ given'.g = acked /\ given'.n \in Int /\ 0 <= given'.n /\ given'.n < Reach(acked)
        /\ Heard!Reach(given'.g) = Reach(acked)
    <3>1. given'.n \in Int
      BY <1>3, <2>3 DEF Frame
    <3>2. given'.g = acked /\ 0 <= given'.n /\ given'.n < Reach(acked)
      BY <1>3, <2>1, <2>2, <2>3 DEF InTrack
    <3>. QED  BY <3>1, <3>2 DEF Heard!Reach, Reach
  <2>5. PICK b \in Int : Begins(b) /\ ring[k].n = b + k - 1
    BY <2>1, <2>2 DEF Follows
  <2>6. CASE given.g = acked
    <3>1. given'.n = given.n + k
      BY <1>3, <2>1, <2>2, <2>5, <2>6 DEF Begins
    <3>2. given' = [given EXCEPT !.n = @ + k]
      BY <1>3, <2>1, <2>3, <2>6, <3>1 DEF Frame
    <3>3. Heard!Continue
      BY <2>1, <2>2, <2>6, <3>2 DEF Heard!Continue
    <3>. QED  BY <1>1, <2>4, <3>3 DEF Heard!Hear
  <2>7. CASE given.g # acked
    <3>1. acked \in (given.g + 1) .. Len(asked)
      BY <2>1, <2>7 DEF Last
    <3>2. given' = [g |-> acked, n |-> given'.n]
      BY <1>3, <2>3 DEF Frame
    <3>3. CASE acked \in refused
      <4>1. given'.n \in 0 .. Length + Packet
        <5>1. Reach(acked) \in Nat /\ Reach(acked) <= Length + Packet
          BY SessionAssumption DEF Reach
        <5>. QED  BY <2>4, <5>1, SessionAssumption
      <4>2. given' \in [g : {acked}, n : 0 .. Length + Packet]
        BY <3>2, <4>1
      <4>3. Heard!Jump
        BY <3>1, <3>3, <4>2 DEF Heard!Jump
      <4>. QED  BY <1>1, <2>4, <4>3 DEF Heard!Hear
    <3>4. CASE acked \notin refused
      <4>1. PICK h \in acked .. Len(asked) : b \in Heard!Lands(asked[h])
        BY <2>5, <2>7, <3>4 DEF Begins, Starts, Aims, Last, Lands, Heard!Lands
      <4>2. given' = [g |-> acked, n |-> b + k - 1]
        BY <1>3, <2>5, <3>2
      <4>3. Heard!Jump
        BY <2>2, <3>1, <4>1, <4>2 DEF Heard!Jump
      <4>. QED  BY <1>1, <2>4, <4>3 DEF Heard!Hear
    <3>. QED  BY <3>3, <3>4
  <2>. QED  BY <2>6, <2>7
<1>4. \/ given' = given
      \/ \E k \in 0 .. Period : k <= Len(ring) /\ k # 0 /\ given' = ring[k]
  <2>1. RingInv
    BY HeardOrder
  <2>. QED  BY <2>1, PlayDoes
<1>. QED  BY <1>2, <1>3, <1>4 DEF Heard!Next

LEMMA StepIsHeard ==
  ASSUME HeardInv, [SessionNext]_vars
  PROVE  [Heard!Next]_Heard!listenerVars
<1>1. ASSUME UNCHANGED history
      PROVE  [Heard!Next]_Heard!listenerVars
  BY <1>1 DEF history, Heard!listenerVars
<1>2. CASE UNCHANGED vars
  BY <1>1, <1>2 DEF vars
<1>3. CASE Decode
  <2>1. CASE Reset
    <3>1. /\ UNCHANGED <<asked, broke, given>>
          /\ refused' = refused \/ refused' = refused \cup {seen}
      BY <2>1 DEF Reset
    <3>2. seen \in 1 .. Last /\ asked \in Seq(Int)
      BY HeardOrder DEF Targets
    <3>3. {seen} \in SUBSET DOMAIN asked
      BY <3>2 DEF Last
    <3>4. CASE refused' = refused
      BY <3>1, <3>4 DEF Heard!listenerVars
    <3>5. CASE refused' = refused \cup {seen}
      BY <3>1, <3>3, <3>5 DEF Heard!Next, Heard!Refuse
    <3>. QED  BY <3>1, <3>4, <3>5
  <2>2. CASE Clear
    BY <2>2 DEF Clear, Heard!listenerVars
  <2>3. CASE Poll \/ Aim \/ Again \/ Halt \/ WaitAck \/ Leave
    BY <1>1, <2>3 DEF Poll, Aim, Again, Halt, WaitAck, Leave
  <2>4. CASE Work
    <3>1. UNCHANGED <<asked, refused, given>> /\ broke' \in {broke, broke \cup {myGen}}
      BY <2>4, HeardOrder, WorkDoes DEF Work
    <3>2. myGen \in 1 .. Last /\ asked \in Seq(Int)
      BY HeardOrder DEF Targets
    <3>3. {myGen} \in SUBSET DOMAIN asked
      BY <3>2 DEF Last
    <3>4. CASE broke' = broke
      BY <3>1, <3>4 DEF Heard!listenerVars
    <3>5. CASE broke' = broke \cup {myGen}
      BY <3>1, <3>3, <3>5 DEF Heard!Next, Heard!Break
    <3>. QED  BY <3>1, <3>4, <3>5
  <2>. QED  BY <1>3, <2>1, <2>2, <2>3, <2>4 DEF Decode
<1>4. CASE Output
  <2>1. CASE Play
    BY <2>1, PlayIsHeard
  <2>2. CASE Mark
    BY <2>2 DEF Mark, Heard!listenerVars
  <2>3. CASE Begin \/ Flush \/ Ack \/ End \/ Write \/ Quit
    BY <1>1, <2>3 DEF Begin, Flush, Ack, End, Write, Quit
  <2>. QED  BY <1>4, <2>1, <2>2, <2>3 DEF Output
<1>5. CASE EngineStep
  <2>1. CASE Seek
    BY <2>1 DEF Seek, StoreTarget, Heard!Next, Heard!Ask
  <2>2. CASE Started \/ NotStarted \/ PlayPause \/ Close \/ Joins
    BY <1>1, <2>2 DEF Started, NotStarted, PlayPause, Close, Joins, Request, StopDecoder,
                      Closed
  <2>. QED  BY <1>5, <2>1, <2>2 DEF EngineStep
<1>. QED  BY <1>2, <1>3, <1>4, <1>5 DEF SessionNext

\* Three threads, a ring and a handshake are heard as the listener was
\* promised: frames in order and without a gap, a seek as one jump to its
\* target or to a later one, or to where the source lands before it, nothing
\* that was left behind, and after a failure one refill of silence at the most.
THEOREM SessionIsHeardAsPromised == SessionSpec => ImplementsListener
<1>1. SessionInit => Heard!Init
  <2>. SUFFICES ASSUME SessionInit PROVE Heard!Init
    OBVIOUS
  <2>1. PICK s \in 0 .. Length : asked = <<s>>
    BY DEF SessionInit
  <2>2. refused \in {{}, {1}} /\ broke = {} /\ given = [g |-> 0, n |-> -1]
    BY DEF SessionInit
  <2>. QED  BY <2>1, <2>2 DEF Heard!Init
<1>2. HeardInv /\ [SessionNext]_vars => [Heard!Next]_Heard!listenerVars
  BY StepIsHeard
<1>. QED  BY <1>1, <1>2, HeardInvariant, PTL DEF SessionSpec, ImplementsListener, Heard!Spec

=============================================================================
