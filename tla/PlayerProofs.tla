---------------------------- MODULE PlayerProofs ----------------------------
(***************************************************************************)
(* Proofs about the playlist with its Shuffle pass (module Playlist) and   *)
(* about the play queue with its engine (module Player), for any rows,     *)
(* sort keys and lengths of the queues between the two threads.            *)
(*                                                                         *)
(* First sequences that list a set and what sorting makes of them; then    *)
(* TableInv and PassInv, one lemma per operation of AppCore; then QueueInv *)
(* (what is on its way answers the awaited row) and SoundInv (what will    *)
(* sound is shown), one lemma per step of each, and the theorems.          *)
(***************************************************************************)
EXTENDS Player, FiniteSetTheorems, SequenceTheorems, WellFoundedInduction, TLAPS

-----------------------------------------------------------------------------
(* Sequences that hold every element of a set once                         *)

Distinct(v) == \A i, j \in DOMAIN v : i # j => v[i] # v[j]

Lists(v, T) == v \in Seq(T) /\ Distinct(v) /\ ToSet(v) = T

\* A set of natural numbers has a least one.
LEMMA LeastNatural ==
  ASSUME NEW S \in SUBSET Nat, S # {}
  PROVE  \E m \in S : \A k \in S : m <= k
<1>. DEFINE Less == {ss \in Nat \X Nat : ss[1] < ss[2]}
<1>1. IsWellFoundedOn(Less, Nat)
  BY NatLessThanWellFounded, Zenon DEF OpToRel
<1>. HIDE DEF Less
<1>2. PICK m \in S : \A k \in S : <<k, m>> \notin Less
  BY <1>1, WFMin
<1>3. \A k \in S : ~(k < m)
  BY <1>2 DEF Less
<1>. QED  BY <1>3

\* What holds of 0 and goes from each number to the next holds of all.
LEMMA NatStep ==
  ASSUME NEW S \in SUBSET Nat, 0 \in S, \A n \in S : n + 1 \in S
  PROVE  S = Nat
<1>1. SUFFICES ASSUME Nat \ S # {} PROVE FALSE
  OBVIOUS
<1>2. PICK m \in Nat \ S : \A k \in Nat \ S : m <= k
  BY <1>1, LeastNatural
<1>3. m # 0 /\ m - 1 \in Nat /\ m - 1 \notin Nat \ S
  BY <1>2
<1>. QED  BY <1>2, <1>3

LEMMA ListsBijection ==
  ASSUME NEW T, NEW v, Lists(v, T)
  PROVE  IsFiniteSet(T) /\ Cardinality(T) = Len(v)
<1>1. v \in [1 .. Len(v) -> T] /\ Len(v) \in Nat
  BY DEF Lists
<1>2. v \in Bijection(1 .. Len(v), T)
  <2>1. \A i, j \in 1 .. Len(v) : i # j => v[i] # v[j]
    BY DEF Lists, Distinct
  <2>2. \A t \in T : \E i \in 1 .. Len(v) : v[i] = t
    BY DEF Lists, ToSet
  <2>. QED  BY <1>1, <2>1, <2>2 DEF Bijection, Injection, Surjection, IsInjective
<1>3. ExistsBijection(1 .. Len(v), T)
  BY <1>2 DEF ExistsBijection
<1>. QED  BY <1>1, <1>3, FS_NatBijection, FS_CountingElements

\* SetToSeqs gives them all.
LEMMA SeqsAreLists ==
  ASSUME NEW T, IsFiniteSet(T), NEW v
  PROVE  v \in SetToSeqs(T) <=> Lists(v, T)
<1>. DEFINE n == Cardinality(T)
<1>0. n \in Nat
  BY FS_CardinalityType
<1>1. ASSUME v \in SetToSeqs(T) PROVE Lists(v, T)
  <2>1. v \in [1 .. n -> T] /\ \A i, j \in 1 .. n : i # j => v[i] # v[j]
    BY <1>1 DEF SetToSeqs
  <2>2. v \in Seq(T) /\ Len(v) = n /\ DOMAIN v = 1 .. n
    BY <1>0, <2>1
  <2>3. v \in Injection(1 .. n, T)
    BY <2>1 DEF Injection, IsInjective
  <2>4. IsFiniteSet(1 .. n) /\ Cardinality(1 .. n) = n
    BY <1>0, FS_Interval
  <2>5. v \in Surjection(1 .. n, T)
    BY <2>3, <2>4, FS_Injection
  <2>6. ToSet(v) = T
    BY <2>1, <2>2, <2>5 DEF ToSet, Surjection
  <2>. QED  BY <2>1, <2>2, <2>6 DEF Lists, Distinct
<1>2. ASSUME Lists(v, T) PROVE v \in SetToSeqs(T)
  <2>1. n = Len(v)
    BY <1>2, ListsBijection
  <2>2. v \in [1 .. n -> T] /\ DOMAIN v = 1 .. n
    BY <1>2, <2>1 DEF Lists
  <2>. QED  BY <1>2, <2>2 DEF Lists, Distinct, SetToSeqs
<1>. QED  BY <1>1, <1>2

LEMMA ListsEmpty == Lists(<<>>, {}) /\ \A v : Lists(v, {}) => v = <<>>
BY DEF Lists, Distinct, ToSet

LEMMA ListsIndex ==
  ASSUME NEW T, NEW v, Lists(v, T)
  PROVE  /\ Len(v) \in Nat /\ DOMAIN v = 1 .. Len(v)
         /\ \A i \in 1 .. Len(v) : v[i] \in T
         /\ \A x \in T : \E i \in 1 .. Len(v) : v[i] = x
         /\ \A i, j \in 1 .. Len(v) : v[i] = v[j] => i = j
BY DEF Lists, Distinct, ToSet

LEMMA ListsOnce ==
  ASSUME NEW T, NEW v, Lists(v, T), NEW i \in 1 .. Len(v), NEW j \in 1 .. Len(v), v[i] = v[j]
  PROVE  i = j
BY ListsIndex

\* A sequence given by its elements.
LEMMA ListsFrom ==
  ASSUME NEW T, NEW v \in Seq(T),
         \A x \in T : \E i \in 1 .. Len(v) : v[i] = x,
         \A i, j \in 1 .. Len(v) : v[i] = v[j] => i = j
  PROVE  Lists(v, T)
<1>1. DOMAIN v = 1 .. Len(v) /\ \A i \in 1 .. Len(v) : v[i] \in T
  OBVIOUS
<1>. QED  BY <1>1 DEF Lists, Distinct, ToSet

\* PosIn and IndexOf find the place.
LEMMA PosInFacts ==
  ASSUME NEW T, NEW v, Lists(v, T), NEW x \in T
  PROVE  PosIn(v, x) \in 1 .. Len(v) /\ v[PosIn(v, x)] = x /\ IndexOf(v, x) = PosIn(v, x)
BY ListsIndex DEF PosIn, IndexOf, Lists

LEMMA ListsConcat ==
  ASSUME NEW T, NEW U, T \cap U = {}, NEW v, Lists(v, T), NEW w, Lists(w, U)
  PROVE  Lists(v \o w, T \cup U)
<1>. DEFINE m == Len(v)  n == Len(w)  c == v \o w
<1>1. /\ v \in Seq(T) /\ w \in Seq(U) /\ m \in Nat /\ n \in Nat
      /\ \A i \in 1 .. m : v[i] \in T
      /\ \A i \in 1 .. n : w[i] \in U
  BY ListsIndex DEF Lists
<1>2. /\ Len(c) = m + n /\ DOMAIN c = 1 .. m + n
      /\ \A i \in 1 .. m + n : c[i] = IF i <= m THEN v[i] ELSE w[i - m]
  BY <1>1
<1>3. c \in Seq(T \cup U)
  <2>1. v \in Seq(T \cup U) /\ w \in Seq(T \cup U)
    BY <1>1
  <2>. QED  BY <2>1
<1>4. \A x \in T \cup U : \E i \in 1 .. Len(c) : c[i] = x
  <2>. SUFFICES ASSUME NEW x \in T \cup U PROVE \E i \in 1 .. m + n : c[i] = x
    BY <1>2
  <2>1. CASE x \in T
    <3>1. PICK i \in 1 .. m : v[i] = x
      BY <2>1, ListsIndex
    <3>. QED  BY <1>1, <1>2, <3>1
  <2>2. CASE x \in U
    <3>1. PICK i \in 1 .. n : w[i] = x
      BY <2>2, ListsIndex
    <3>2. m + i \in 1 .. m + n /\ ~(m + i <= m) /\ m + i - m = i
      BY <1>1, <3>1
    <3>. QED  BY <1>2, <3>1, <3>2
  <2>. QED  BY <2>1, <2>2
<1>5. \A i, j \in 1 .. Len(c) : c[i] = c[j] => i = j
  <2>. SUFFICES ASSUME NEW i \in 1 .. m + n, NEW j \in 1 .. m + n, c[i] = c[j] PROVE i = j
    BY <1>2
  <2>1. \A k \in 1 .. m + n : \/ k <= m /\ k \in 1 .. m
                              \/ ~(k <= m) /\ k - m \in 1 .. n
    BY <1>1
  <2>2. CASE i <= m /\ j <= m
    BY <1>2, <2>1, <2>2, ListsIndex
  <2>3. CASE ~(i <= m) /\ ~(j <= m)
    <3>1. w[i - m] = w[j - m] /\ i - m \in 1 .. n /\ j - m \in 1 .. n
      BY <1>2, <2>1, <2>3
    <3>2. i - m = j - m
      BY <3>1, ListsIndex
    <3>. QED  BY <1>1, <3>2
  <2>4. ASSUME NEW k \in 1 .. m + n, NEW l \in 1 .. m + n, k <= m, ~(l <= m)
        PROVE  c[k] # c[l]
    <3>1. c[k] \in T /\ c[l] \in U
      BY <1>1, <1>2, <2>1, <2>4
    <3>. QED  BY <3>1
  <2>. QED  BY <2>2, <2>3, <2>4
<1>. HIDE DEF c
<1>6. Lists(c, T \cup U)
  BY <1>3, <1>4, <1>5, ListsFrom
<1>. QED  BY <1>6 DEF c

LEMMA ListsOne == ASSUME NEW x PROVE Lists(<<x>>, {x})
BY DEF Lists, Distinct, ToSet

\* A part of a list without gaps.
LEMMA ListsPart ==
  ASSUME NEW T, NEW v, Lists(v, T), NEW a \in Nat \ {0}, NEW b \in Nat,
         b <= Len(v), a <= b + 1
  PROVE  /\ Lists(SubSeq(v, a, b), {v[i] : i \in a .. b})
         /\ Len(SubSeq(v, a, b)) = b - a + 1
         /\ \A i \in 1 .. b - a + 1 : SubSeq(v, a, b)[i] = v[a + i - 1]
<1>. DEFINE n == b - a + 1  s == SubSeq(v, a, b)  U == {v[i] : i \in a .. b}
<1>1. n \in Nat /\ v \in Seq(T) /\ Len(v) \in Nat
  BY DEF Lists
<1>2. Len(s) = n /\ DOMAIN s = 1 .. n /\ \A i \in 1 .. n : s[i] = v[a + i - 1]
  BY <1>1
<1>3. \A i \in 1 .. n : a + i - 1 \in 1 .. Len(v)
  <2>. SUFFICES ASSUME NEW i \in 1 .. n PROVE a + i - 1 \in 1 .. Len(v)
    OBVIOUS
  <2>1. i \in Int /\ 1 <= i /\ i <= n /\ Len(v) \in Int
    BY <1>1
  <2>2. 1 <= a + i - 1 /\ a + i - 1 <= Len(v)
    BY <2>1
  <2>. QED  BY <2>1, <2>2
<1>4. s \in Seq(U)
  <2>1. \A i \in a .. b : v[i] \in U
    OBVIOUS
  <2>. QED  BY <2>1, SubSeqProperties
<1>5. \A x \in U : \E i \in 1 .. Len(s) : s[i] = x
  <2>. SUFFICES ASSUME NEW x \in U PROVE \E i \in 1 .. n : s[i] = x
    BY <1>2, Zenon
  <2>1. PICK k \in a .. b : v[k] = x
    OBVIOUS
  <2>2. k - a + 1 \in 1 .. n /\ a + (k - a + 1) - 1 = k
    OBVIOUS
  <2>. QED  BY <1>2, <2>1, <2>2
<1>6. \A i, j \in 1 .. Len(s) : s[i] = s[j] => i = j
  <2>. SUFFICES ASSUME NEW i \in 1 .. n, NEW j \in 1 .. n, s[i] = s[j] PROVE i = j
    BY <1>2
  <2>1. a + i - 1 \in 1 .. Len(v) /\ a + j - 1 \in 1 .. Len(v)
    BY <1>3
  <2>2. v[a + i - 1] = v[a + j - 1]
    BY <1>2
  <2>3. a + i - 1 = a + j - 1
    BY <2>1, <2>2, ListsIndex
  <2>. QED  BY <2>3
<1>7. Len(s) = n /\ \A i \in 1 .. n : s[i] = v[a + i - 1]
  BY <1>2
<1>. HIDE DEF n, s, U
<1>8. Lists(s, U)
  BY <1>4, <1>5, <1>6, ListsFrom
<1>. QED  BY <1>7, <1>8 DEF n, s, U

\* The function that Only is defined with exists: what it is at each place
\* is known from the place before.
LEMMA OnlyDef ==
  ASSUME NEW s, NEW S, Len(s) \in Nat
  PROVE  \E g : /\ Only(s, S) = g[Len(s)]
               /\ g = [n \in 0 .. Len(s) |->
                        IF n = 0 THEN <<>>
                        ELSE IF s[n] \in S THEN Append(g[n - 1], s[n])
                        ELSE g[n - 1]]
<1>. DEFINE Step(g, n) == IF n = 0 THEN <<>>
                          ELSE IF s[n] \in S THEN Append(g[n - 1], s[n])
                          ELSE g[n - 1]
            Good == {n \in Nat : \E g : g = [k \in 0 .. n |-> Step(g, k)]}
<1>1. 0 \in Good
  <2>. DEFINE g == [k \in 0 .. 0 |-> <<>>]
  <2>1. g = [k \in 0 .. 0 |-> Step(g, k)]
    OBVIOUS
  <2>. QED  BY <2>1
<1>2. \A n \in Good : n + 1 \in Good
  <2>. SUFFICES ASSUME NEW n \in Nat, NEW g, g = [k \in 0 .. n |-> Step(g, k)]
                PROVE  n + 1 \in Good
    OBVIOUS
  <2>. DEFINE h == [k \in 0 .. n + 1 |-> IF k <= n THEN g[k] ELSE Step(g, n + 1)]
  <2>1. \A k \in 0 .. n : h[k] = g[k]
    OBVIOUS
  <2>2. ASSUME NEW k \in 0 .. n + 1 PROVE h[k] = Step(h, k)
    <3>1. CASE k = 0
      BY <3>1
    <3>2. CASE k # 0
      <4>1. k - 1 \in 0 .. n
        BY <3>2
      <4>2. h[k - 1] = g[k - 1]
        BY <2>1, <4>1
      <4>3. Step(h, k) = Step(g, k)
        BY <4>2
      <4>4. CASE k <= n
        <5>1. k \in 0 .. n
          BY <4>4
        <5>2. g[k] = Step(g, k)
          BY <5>1, Zenon
        <5>. QED  BY <2>1, <4>3, <5>1, <5>2, Zenon
      <4>5. CASE ~(k <= n)
        <5>1. k = n + 1
          BY <4>5
        <5>. QED  BY <4>3, <5>1
      <4>. QED  BY <4>4, <4>5
    <3>. QED  BY <3>1, <3>2
  <2>3. h = [k \in 0 .. n + 1 |-> Step(h, k)]
    BY <2>2
  <2>. HIDE DEF h, Step
  <2>. QED  BY <2>3
<1>3. Good = Nat
  <2>1. Good \in SUBSET Nat
    OBVIOUS
  <2>. HIDE DEF Good
  <2>. QED  BY <1>1, <1>2, <2>1, NatStep
<1>4. \E g : g = [k \in 0 .. Len(s) |-> Step(g, k)]
  BY <1>3
<1>. HIDE DEF Good
<1>. DEFINE kept[n \in 0 .. Len(s)] ==
               IF n = 0 THEN <<>>
               ELSE IF s[n] \in S THEN Append(kept[n - 1], s[n])
               ELSE kept[n - 1]
<1>5. kept = [k \in 0 .. Len(s) |-> Step(kept, k)]
  BY <1>4, Zenon
<1>6. Only(s, S) = kept[Len(s)]
  BY DEF Only
<1>. HIDE DEF kept
<1>. QED  BY <1>5, <1>6, Zenon

\* Only(s, S) keeps the places m, in their order.
KeptAt(m, s, S) ==
  /\ Len(m) = Len(Only(s, S))
  /\ \A i \in 1 .. Len(m) : Only(s, S)[i] = s[m[i]]
  /\ \A i, j \in 1 .. Len(m) : i < j => m[i] < m[j]
  /\ \A k \in 1 .. Len(s) : s[k] \in S => \E i \in 1 .. Len(m) : m[i] = k

LEMMA OnlyPlaces ==
  ASSUME NEW T, NEW s \in Seq(T), NEW S
  PROVE  /\ Only(s, S) \in Seq(T \cap S)
         /\ \E m \in Seq(1 .. Len(s)) : KeptAt(m, s, S)
<1>0. Len(s) \in Nat /\ \A n \in 1 .. Len(s) : s[n] \in T
  OBVIOUS
<1>1. PICK kept :
        /\ Only(s, S) = kept[Len(s)]
        /\ kept = [n \in 0 .. Len(s) |->
                     IF n = 0 THEN <<>>
                     ELSE IF s[n] \in S THEN Append(kept[n - 1], s[n])
                     ELSE kept[n - 1]]
  BY <1>0, OnlyDef, Zenon
<1>. DEFINE L == Len(s)
            Places(o, m, n) ==
              /\ o \in Seq(T \cap S) /\ m \in Seq(1 .. n) /\ Len(m) = Len(o)
              /\ \A i \in 1 .. Len(m) : o[i] = s[m[i]]
              /\ \A i, j \in 1 .. Len(m) : i < j => m[i] < m[j]
              /\ \A k \in 1 .. n : s[k] \in S => \E i \in 1 .. Len(m) : m[i] = k
            Good == {n \in Nat : n <= L => \E m : Places(kept[n], m, n)}
<1>2. /\ kept[0] = <<>>
      /\ \A n \in Nat : n + 1 <= L =>
            kept[n + 1] = IF s[n + 1] \in S THEN Append(kept[n], s[n + 1]) ELSE kept[n]
  <2>1. 0 \in 0 .. L
    BY <1>0
  <2>2. ASSUME NEW n \in Nat, n + 1 <= L PROVE n + 1 \in 0 .. L /\ n + 1 # 0 /\ (n + 1) - 1 = n
    BY <1>0, <2>2
  <2>3. kept[0] = <<>>
    BY <1>1, <2>1
  <2>4. ASSUME NEW k \in 0 .. L, k # 0
        PROVE  kept[k] = IF s[k] \in S THEN Append(kept[k - 1], s[k]) ELSE kept[k - 1]
    BY <1>1, <2>4, Zenon
  <2>5. ASSUME NEW n \in Nat, n + 1 <= L
        PROVE  kept[n + 1] = IF s[n + 1] \in S THEN Append(kept[n], s[n + 1]) ELSE kept[n]
    BY <2>2, <2>4, <2>5
  <2>. QED  BY <2>3, <2>5
<1>. HIDE DEF L, Places
<1>a. \A n : n \in Good <=> n \in Nat /\ (n <= L => \E m : Places(kept[n], m, n))
  BY Zenon
<1>. HIDE DEF Good
<1>3. 0 \in Good
  <2>1. kept[0] = <<>>
    BY <1>2
  <2>2. Places(<<>>, <<>>, 0)
    BY DEF Places
  <2>. QED  BY <1>a, <2>1, <2>2
<1>4. \A n \in Good : n + 1 \in Good
  <2>. SUFFICES ASSUME NEW n \in Nat, n + 1 <= L, NEW m, Places(kept[n], m, n)
                PROVE  \E w : Places(kept[n + 1], w, n + 1)
    <3>1. ASSUME NEW n \in Nat, n + 1 <= L PROVE n <= L
      BY <1>0, <3>1 DEF L
    <3>2. \A n \in Nat : n + 1 \in Nat
      OBVIOUS
    <3>. QED  BY <1>a, <3>1, <3>2, Zenon
  <2>1. kept[n + 1] = IF s[n + 1] \in S THEN Append(kept[n], s[n + 1]) ELSE kept[n]
    BY <1>2
  <2>. DEFINE o == kept[n]
  <2>2. o \in Seq(T \cap S) /\ m \in Seq(1 .. n) /\ Len(m) = Len(o) /\ s[n + 1] \in T
    BY <1>0 DEF Places, L
  <2>3. m \in Seq(1 .. n + 1) /\ \A i \in 1 .. Len(m) : m[i] \in 1 .. n
    BY <2>2
  <2>. HIDE DEF o
  <2>4. CASE s[n + 1] \in S
    <3>. DEFINE w == Append(m, n + 1)  q == Append(o, s[n + 1])
    <3>1. /\ w \in Seq(1 .. n + 1) /\ q \in Seq(T \cap S)
          /\ Len(w) = Len(m) + 1 /\ Len(q) = Len(m) + 1 /\ Len(m) \in Nat
      BY <2>2, <2>3, <2>4
    <3>2. \A i \in 1 .. Len(m) + 1 :
            \/ i \in 1 .. Len(m) /\ w[i] = m[i] /\ q[i] = o[i]
            \/ i = Len(m) + 1 /\ w[i] = n + 1 /\ q[i] = s[n + 1]
      BY <2>2, <2>3, <2>4
    <3>. HIDE DEF w, q
    <3>3. \A i \in 1 .. Len(w) : q[i] = s[w[i]]
      BY <3>1, <3>2 DEF o, Places
    <3>4. \A i, j \in 1 .. Len(w) : i < j => w[i] < w[j]
      <4>. SUFFICES ASSUME NEW i \in 1 .. Len(m) + 1, NEW j \in 1 .. Len(m) + 1, i < j
                    PROVE  w[i] < w[j]
        BY <3>1, Zenon
      <4>0. i \in 1 .. Len(m) /\ i # Len(m) + 1
        BY <3>1
      <4>1. i \in 1 .. Len(m) /\ w[i] = m[i]
        BY <3>2, <4>0
      <4>2. CASE j \in 1 .. Len(m)
        <5>1. w[j] = m[j]
          BY <3>1, <3>2, <4>2
        <5>. QED  BY <4>1, <4>2, <5>1 DEF Places
      <4>3. CASE j \notin 1 .. Len(m)
        <5>1. w[j] = n + 1
          BY <3>2, <4>3
        <5>2. m[i] \in 1 .. n
          BY <2>3, <4>1
        <5>. QED  BY <4>1, <5>1, <5>2
      <4>. QED  BY <4>2, <4>3
    <3>5. \A k \in 1 .. n + 1 : s[k] \in S => \E i \in 1 .. Len(w) : w[i] = k
      <4>. SUFFICES ASSUME NEW k \in 1 .. n + 1, s[k] \in S
                    PROVE  \E i \in 1 .. Len(m) + 1 : w[i] = k
        BY <3>1
      <4>1. CASE k = n + 1
        <5>1. Len(m) + 1 \in 1 .. Len(m) + 1 /\ Len(m) + 1 \notin 1 .. Len(m)
          BY <3>1
        <5>. QED  BY <3>2, <4>1, <5>1
      <4>2. CASE k # n + 1
        <5>1. PICK i \in 1 .. Len(m) : m[i] = k
          BY <4>2 DEF Places
        <5>2. i \in 1 .. Len(m) + 1 /\ i # Len(m) + 1
          BY <3>1
        <5>. QED  BY <3>2, <5>1, <5>2
      <4>. QED  BY <4>1, <4>2
    <3>6. Places(q, w, n + 1)
      BY <3>1, <3>3, <3>4, <3>5 DEF Places
    <3>. QED  BY <2>1, <2>4, <3>6 DEF q, o
  <2>5. CASE s[n + 1] \notin S
    <3>1. \A k \in 1 .. n + 1 : s[k] \in S => k \in 1 .. n
      BY <2>5
    <3>2. Places(o, m, n + 1)
      BY <2>2, <2>3, <3>1 DEF o, Places
    <3>. QED  BY <2>1, <2>5, <3>2 DEF o
  <2>. QED  BY <2>4, <2>5
<1>5. Good = Nat
  <2>1. Good \in SUBSET Nat
    BY <1>a
  <2>. QED  BY <1>3, <1>4, <2>1, NatStep
<1>6. \E m : Places(kept[L], m, L)
  BY <1>0, <1>5, <1>a DEF L
<1>7. PICK m : Places(Only(s, S), m, Len(s))
  BY <1>1, <1>6, Zenon DEF L
<1>. QED  BY <1>7 DEF Places, KeptAt

\* What Only keeps, it keeps once and in order.
LEMMA OnlyLists ==
  ASSUME NEW T, NEW s, Lists(s, T), NEW S
  PROVE  /\ Lists(Only(s, S), T \cap S)
         /\ \A x, y \in T \cap S :
              PosIn(s, x) < PosIn(s, y) => PosIn(Only(s, S), x) < PosIn(Only(s, S), y)
<1>. DEFINE o == Only(s, S)
<1>1. s \in Seq(T)
  BY DEF Lists
<1>2. o \in Seq(T \cap S)
  BY <1>1, OnlyPlaces
<1>. HIDE DEF o
<1>3. PICK m \in Seq(1 .. Len(s)) :
        /\ Len(m) = Len(o)
        /\ \A i \in 1 .. Len(m) : o[i] = s[m[i]]
        /\ \A i, j \in 1 .. Len(m) : i < j => m[i] < m[j]
        /\ \A k \in 1 .. Len(s) : s[k] \in S => \E i \in 1 .. Len(m) : m[i] = k
  <2>1. PICK m \in Seq(1 .. Len(s)) : KeptAt(m, s, S)
    BY <1>1, OnlyPlaces
  <2>. QED  BY <2>1, Zenon DEF KeptAt, o
<1>4. \A i \in 1 .. Len(m) : m[i] \in 1 .. Len(s)
  OBVIOUS
<1>5. \A x \in T \cap S : \E i \in 1 .. Len(o) : o[i] = x
  <2>. SUFFICES ASSUME NEW x \in T \cap S PROVE \E i \in 1 .. Len(o) : o[i] = x
    OBVIOUS
  <2>1. PICK k \in 1 .. Len(s) : s[k] = x
    BY ListsIndex
  <2>2. PICK i \in 1 .. Len(m) : m[i] = k
    BY <1>3, <2>1
  <2>. QED  BY <1>3, <2>1, <2>2
<1>6. \A i, j \in 1 .. Len(o) : o[i] = o[j] => i = j
  <2>. SUFFICES ASSUME NEW i \in 1 .. Len(m), NEW j \in 1 .. Len(m), o[i] = o[j] PROVE i = j
    BY <1>3
  <2>1. m[i] = m[j]
    <3>1. m[i] \in 1 .. Len(s) /\ m[j] \in 1 .. Len(s)
      BY <1>4
    <3>2. s[m[i]] = s[m[j]]
      BY <1>3
    <3>. QED  BY <3>1, <3>2, ListsOnce
  <2>2. Len(m) \in Nat /\ m[i] \in Nat /\ m[j] \in Nat
    BY <1>4
  <2>. QED  BY <1>3, <2>1, <2>2
<1>7. Lists(o, T \cap S)
  BY <1>2, <1>5, <1>6, ListsFrom
<1>8. ASSUME NEW x \in T \cap S, NEW y \in T \cap S, PosIn(s, x) < PosIn(s, y)
      PROVE  PosIn(o, x) < PosIn(o, y)
  <2>. DEFINE i == PosIn(o, x)  j == PosIn(o, y)
  <2>1. i \in 1 .. Len(o) /\ j \in 1 .. Len(o) /\ o[i] = x /\ o[j] = y
    BY <1>7, PosInFacts
  <2>2. /\ PosIn(s, x) \in 1 .. Len(s) /\ s[PosIn(s, x)] = x
        /\ PosIn(s, y) \in 1 .. Len(s) /\ s[PosIn(s, y)] = y
    BY PosInFacts
  <2>. HIDE DEF i, j
  <2>3. m[i] = PosIn(s, x) /\ m[j] = PosIn(s, y)
    <3>1. i \in 1 .. Len(m) /\ j \in 1 .. Len(m)
      BY <1>3, <2>1
    <3>2. m[i] \in 1 .. Len(s) /\ m[j] \in 1 .. Len(s) /\ s[m[i]] = x /\ s[m[j]] = y
      BY <1>3, <1>4, <2>1, <3>1
    <3>3. m[i] = PosIn(s, x)
      BY <2>2, <3>2, ListsOnce
    <3>4. m[j] = PosIn(s, y)
      BY <2>2, <3>2, ListsOnce
    <3>. QED  BY <3>3, <3>4
  <2>4. ~(j < i) /\ i # j
    <3>1. m[i] < m[j] /\ m[i] \in Nat /\ m[j] \in Nat
      BY <1>8, <2>2, <2>3
    <3>2. j < i => m[j] < m[i]
      BY <1>3, <2>1
    <3>. QED  BY <3>1, <3>2
  <2>5. i \in Nat /\ j \in Nat
    BY <2>1
  <2>6. i < j
    BY <2>4, <2>5
  <2>. QED  BY <2>6 DEF i, j
<1>. QED  BY <1>7, <1>8 DEF o

LEMMA WithoutLists ==
  ASSUME NEW T, NEW s, Lists(s, T), NEW id
  PROVE  /\ Lists(Without(s, id), T \ {id})
         /\ \A x, y \in T \ {id} :
              PosIn(s, x) < PosIn(s, y) => PosIn(Without(s, id), x) < PosIn(Without(s, id), y)
<1>1. T \cap (ToSet(s) \ {id}) = T \ {id}
  BY DEF Lists
<1>. QED  BY <1>1, OnlyLists DEF Without

\* x is put into v at place i.
PutAt(w, v, i, x) ==
  \A j \in 1 .. Len(v) + 1 :
    w[j] = IF j < i THEN v[j] ELSE IF j = i THEN x ELSE v[j - 1]

\* A row put into a list: before its place nothing moves, after it all by one.
LEMMA ListsInsert ==
  ASSUME NEW T, NEW v, Lists(v, T), NEW x, x \notin T, NEW i \in 1 .. Len(v) + 1
  PROVE  /\ Lists(InsertAt(v, i, x), T \cup {x})
         /\ Len(InsertAt(v, i, x)) = Len(v) + 1
         /\ PutAt(InsertAt(v, i, x), v, i, x)
<1>. DEFINE n == Len(v)  a == SubSeq(v, 1, i - 1)  b == SubSeq(v, i, n)
            A == {v[k] : k \in 1 .. i - 1}  B == {v[k] : k \in i .. n}
<1>0. n \in Nat /\ v \in Seq(T) /\ i \in Nat /\ i - 1 \in Nat /\ i - 1 <= n /\ i <= n + 1 /\ i >= 1
  BY DEF Lists
<1>1. /\ Lists(a, A) /\ Len(a) = i - 1
      /\ \A j \in 1 .. i - 1 : a[j] = v[j]
  <2>1. (i - 1) - 1 + 1 = i - 1
    BY <1>0
  <2>2. \A j \in 1 .. i - 1 : 1 + j - 1 = j
    BY <1>0
  <2>3. 1 \in Nat \ {0} /\ 1 <= (i - 1) + 1
    BY <1>0
  <2>. HIDE DEF a, A
  <2>4. /\ Lists(a, A) /\ Len(a) = (i - 1) - 1 + 1
        /\ \A j \in 1 .. (i - 1) - 1 + 1 : a[j] = v[1 + j - 1]
    BY <1>0, <2>3, ListsPart DEF a, A
  <2>. QED  BY <2>1, <2>2, <2>4
<1>2. /\ Lists(b, B) /\ Len(b) = n - i + 1
      /\ \A j \in 1 .. n - i + 1 : b[j] = v[i + j - 1]
  BY <1>0, ListsPart
<1>3. A \cap {x} = {} /\ (A \cup {x}) \cap B = {} /\ A \cup {x} \cup B = T \cup {x}
  <2>1. A \cup B = T /\ x \notin A /\ x \notin B
    <3>1. \A k \in 1 .. n : v[k] \in A \/ v[k] \in B
      BY <1>0
    <3>2. \A k \in 1 .. n : v[k] \in T
      BY ListsIndex
    <3>3. A \subseteq T /\ B \subseteq T
      BY <1>0, <3>2
    <3>4. \A y \in T : \E k \in 1 .. n : v[k] = y
      BY ListsIndex
    <3>. QED  BY <3>1, <3>3, <3>4
  <2>2. A \cap B = {}
    <3>. SUFFICES ASSUME NEW k \in 1 .. i - 1, NEW l \in i .. n, v[k] = v[l] PROVE FALSE
      OBVIOUS
    <3>1. k \in 1 .. n /\ l \in 1 .. n /\ k # l
      BY <1>0
    <3>. QED  BY <3>1, ListsIndex
  <2>. HIDE DEF A, B
  <2>. QED  BY <2>1, <2>2
<1>4. InsertAt(v, i, x) = (a \o <<x>>) \o b
  <2>1. a \in Seq(T \cup {x}) /\ b \in Seq(T \cup {x})
    <3>1. \A k \in 1 .. n : v[k] \in T \cup {x}
      BY ListsIndex
    <3>2. \A k \in 1 .. i - 1 : v[k] \in T \cup {x}
      BY <1>0, <3>1
    <3>3. \A k \in i .. n : v[k] \in T \cup {x}
      BY <1>0, <3>1
    <3>. QED  BY <1>0, <3>2, <3>3, SubSeqProperties
  <2>. QED  BY <2>1 DEF InsertAt
<1>5. Lists(InsertAt(v, i, x), T \cup {x})
  <2>. HIDE DEF a, b, A, B
  <2>1. Lists(a \o <<x>>, A \cup {x})
    BY <1>1, <1>3, ListsOne, ListsConcat
  <2>2. Lists((a \o <<x>>) \o b, A \cup {x} \cup B)
    BY <1>2, <1>3, <2>1, ListsConcat
  <2>. QED  BY <1>3, <1>4, <2>2
<1>6. a \in Seq(A) /\ b \in Seq(B)
  BY <1>1, <1>2 DEF Lists
<1>. HIDE DEF a, b, A, B, n
<1>7. LET c == (a \o <<x>>) \o b
      IN /\ Len(c) = n + 1
         /\ \A j \in 1 .. n + 1 :
              c[j] = IF j < i THEN a[j] ELSE IF j = i THEN x ELSE b[j - i]
  <2>. DEFINE d == a \o <<x>>
  <2>1. /\ d \in Seq(A \cup {x}) /\ Len(d) = i
        /\ \A j \in 1 .. i : d[j] = IF j < i THEN a[j] ELSE x
    BY <1>0, <1>1, <1>6
  <2>. HIDE DEF d
  <2>2. /\ Len(d \o b) = i + (n - i + 1)
        /\ \A j \in 1 .. i + (n - i + 1) :
              (d \o b)[j] = IF j <= i THEN d[j] ELSE b[j - i]
    <3>1. d \in Seq(A \cup {x} \cup B) /\ b \in Seq(A \cup {x} \cup B)
      BY <1>6, <2>1
    <3>2. Len(b) = n - i + 1 /\ n - i + 1 \in Nat
      BY <1>0, <1>2
    <3>. QED  BY <1>0, <2>1, <3>1, <3>2
  <2>3. i + (n - i + 1) = n + 1
    BY <1>0
  <2>. QED  BY <1>0, <2>1, <2>2, <2>3 DEF d
<1>8. \A j \in 1 .. n + 1 :
        /\ j < i => j \in 1 .. i - 1
        /\ ~(j < i) /\ j # i => j - i \in 1 .. n - i + 1 /\ i + (j - i) - 1 = j - 1
  BY <1>0
<1>9. ASSUME NEW j \in 1 .. n + 1
      PROVE  InsertAt(v, i, x)[j] = IF j < i THEN v[j] ELSE IF j = i THEN x ELSE v[j - 1]
  <2>1. InsertAt(v, i, x)[j] = IF j < i THEN a[j] ELSE IF j = i THEN x ELSE b[j - i]
    BY <1>4, <1>7
  <2>2. j < i => a[j] = v[j]
    BY <1>1, <1>8
  <2>3. ~(j < i) /\ j # i => b[j - i] = v[j - 1]
    BY <1>2, <1>8
  <2>. QED  BY <2>1, <2>2, <2>3
<1>10. Len(InsertAt(v, i, x)) = n + 1
  BY <1>4, <1>7
<1>. QED  BY <1>5, <1>9, <1>10 DEF n, PutAt

-----------------------------------------------------------------------------
(* Sorting                                                                 *)

\* R is a set of pairs <<x, y>>: x comes after y.
Sorted(v, R) == \A i, j \in DOMAIN v : i < j => <<v[i], v[j]>> \notin R

Ordering(R, T) ==
  /\ \A x, y \in T : x # y => <<x, y>> \in R \/ <<y, x>> \in R
  /\ \A x, y \in T : <<x, y>> \in R => <<y, x>> \notin R
  /\ \A x, y, z \in T : <<x, y>> \in R /\ <<y, z>> \in R => <<x, z>> \in R

\* A set has one sorted list at most.
LEMMA SortedOnce ==
  ASSUME NEW T, NEW R, Ordering(R, T), NEW v, NEW w,
         Lists(v, T), Sorted(v, R), Lists(w, T), Sorted(w, R)
  PROVE  v = w
<1>. DEFINE n == Len(v)  Differ == {i \in 1 .. n : v[i] # w[i]}
<1>1. n \in Nat /\ Len(w) = n /\ v \in Seq(T) /\ w \in Seq(T)
  BY ListsBijection DEF Lists
<1>0. /\ \A x \in T : \E i \in 1 .. n : v[i] = x
      /\ \A i, j \in 1 .. n : v[i] = v[j] => i = j
  BY ListsIndex
<1>a. /\ \A x \in T : \E i \in 1 .. Len(w) : w[i] = x
      /\ \A i, j \in 1 .. Len(w) : w[i] = w[j] => i = j
  BY ListsIndex
<1>2. ASSUME Differ # {} PROVE FALSE
  <2>1. PICK m \in Differ : \A k \in Differ : m <= k
    <3>1. Differ \in SUBSET Nat
      BY <1>1
    <3>. HIDE DEF Differ
    <3>. QED  BY <1>2, <3>1, LeastNatural
  <2>2. m \in 1 .. n /\ v[m] # w[m] /\ v[m] \in T /\ w[m] \in T
    BY <1>1, <2>1
  <2>3. \A k \in 1 .. n : k < m => v[k] = w[k]
    BY <1>1, <2>1
  <2>4. PICK k \in 1 .. n : w[k] = v[m]
    BY <1>1, <1>0, <1>a, <2>2
  <2>5. PICK l \in 1 .. n : v[l] = w[m]
    BY <1>1, <1>0, <1>a, <2>2
  <2>6. m < k
    <3>1. ~(k < m)
      <4>. SUFFICES ASSUME k < m PROVE FALSE
        OBVIOUS
      <4>1. v[k] = v[m]
        BY <2>3, <2>4
      <4>. QED  BY <1>1, <1>0, <1>a, <2>2, <2>4, <2>5, <4>1
    <3>2. k # m
      BY <2>2, <2>4
    <3>. QED  BY <1>1, <2>2, <3>1, <3>2
  <2>7. m < l
    <3>1. ~(l < m)
      <4>. SUFFICES ASSUME l < m PROVE FALSE
        OBVIOUS
      <4>1. w[l] = w[m]
        BY <2>3, <2>5
      <4>. QED  BY <1>1, <1>0, <1>a, <2>2, <2>4, <2>5, <4>1
    <3>2. l # m
      BY <2>2, <2>5
    <3>. QED  BY <1>1, <2>2, <3>1, <3>2
  <2>8. <<v[m], w[m]>> \notin R
    <3>1. m \in DOMAIN v /\ l \in DOMAIN v
      BY <1>1, <2>2
    <3>. QED  BY <2>5, <2>7, <3>1 DEF Sorted
  <2>9. <<w[m], v[m]>> \notin R
    <3>1. m \in DOMAIN w /\ k \in DOMAIN w
      BY <1>1, <2>2
    <3>. QED  BY <2>4, <2>6, <3>1 DEF Sorted
  <2>. QED  BY <2>2, <2>8, <2>9 DEF Ordering
<1>3. \A i \in 1 .. n : v[i] = w[i]
  BY <1>2
<1>. QED  BY <1>1, <1>3, SeqEqual

\* A list of what comes neither before nor after a place is put there.
LEMMA SortedInsert ==
  ASSUME NEW T, NEW R, NEW v, Lists(v, T), Sorted(v, R), NEW x, x \notin T,
         Ordering(R, T \cup {x}), NEW i \in 1 .. Len(v) + 1,
         i > 1 => <<v[i - 1], x>> \notin R,
         i <= Len(v) => <<v[i], x>> \in R
  PROVE  Sorted(InsertAt(v, i, x), R)
<1>. DEFINE n == Len(v)  w == InsertAt(v, i, x)
<1>0. n \in Nat /\ i \in Nat /\ i >= 1 /\ i <= n + 1 /\ DOMAIN v = 1 .. n
      /\ \A k \in 1 .. n : v[k] \in T
  BY ListsIndex
<1>1. /\ Len(w) = n + 1
      /\ \A j \in 1 .. n + 1 : w[j] = IF j < i THEN v[j] ELSE IF j = i THEN x ELSE v[j - 1]
      /\ Lists(w, T \cup {x})
  <2>1. Lists(w, T \cup {x}) /\ Len(w) = n + 1
    BY ListsInsert
  <2>2. \A j \in 1 .. n + 1 : w[j] = IF j < i THEN v[j] ELSE IF j = i THEN x ELSE v[j - 1]
    <3>1. PutAt(w, v, i, x)
      BY ListsInsert
    <3>. QED  BY <3>1 DEF PutAt
  <2>. QED  BY <2>1, <2>2
<1>. HIDE DEF w, n
<1>2. DOMAIN w = 1 .. n + 1
  BY <1>1, ListsIndex
<1>3. \A k, l \in 1 .. n : k < l => <<v[k], v[l]>> \notin R
  BY <1>0 DEF Sorted
<1>4. ASSUME NEW k \in 1 .. n, k < i PROVE <<v[k], x>> \notin R
  <2>1. CASE k = i - 1
    BY <1>0, <1>4, <2>1
  <2>2. CASE k # i - 1
    <3>1. k < i - 1 /\ i - 1 \in 1 .. n
      BY <1>0, <1>4, <2>2
    <3>2. <<v[k], v[i - 1]>> \notin R /\ <<v[i - 1], x>> \notin R
      BY <1>0, <1>3, <3>1
    <3>3. v[k] # v[i - 1] /\ x # v[i - 1] /\ v[k] \in T /\ v[i - 1] \in T
      <4>1. v[k] # v[i - 1]
        BY <3>1, ListsIndex DEF n
      <4>. QED  BY <1>0, <3>1, <4>1
    <3>4. <<v[i - 1], v[k]>> \in R /\ <<x, v[i - 1]>> \in R
      BY <3>2, <3>3 DEF Ordering
    <3>5. <<x, v[k]>> \in R
      BY <3>3, <3>4 DEF Ordering
    <3>. QED  BY <3>3, <3>5 DEF Ordering
  <2>. QED  BY <2>1, <2>2
<1>5. ASSUME NEW k \in 1 .. n, k >= i PROVE <<x, v[k]>> \notin R
  <2>1. i \in 1 .. n /\ <<v[i], x>> \in R
    BY <1>0, <1>5 DEF n
  <2>2. CASE k = i
    BY <1>0, <2>1, <2>2 DEF Ordering
  <2>3. CASE k # i
    <3>1. <<v[i], v[k]>> \notin R
      BY <1>0, <1>3, <1>5, <2>1, <2>3
    <3>. QED  BY <1>0, <2>1, <3>1 DEF Ordering
  <2>. QED  BY <2>2, <2>3
<1>6. ASSUME NEW j \in 1 .. n + 1, NEW k \in 1 .. n + 1, j < k PROVE <<w[j], w[k]>> \notin R
  <2>1. CASE k < i
    <3>1. w[j] = v[j] /\ w[k] = v[k] /\ j \in 1 .. n /\ k \in 1 .. n
      BY <1>0, <1>1, <1>6, <2>1
    <3>. QED  BY <1>3, <1>6, <3>1
  <2>2. CASE k = i
    <3>1. w[j] = v[j] /\ w[k] = x /\ j \in 1 .. n /\ j < i
      BY <1>0, <1>1, <1>6, <2>2
    <3>. QED  BY <1>4, <3>1
  <2>3. CASE k > i /\ j = i
    <3>1. w[j] = x /\ w[k] = v[k - 1] /\ k - 1 \in 1 .. n /\ k - 1 >= i
      BY <1>0, <1>1, <1>6, <2>3
    <3>. QED  BY <1>5, <3>1
  <2>4. CASE k > i /\ j < i
    <3>1. w[j] = v[j] /\ w[k] = v[k - 1] /\ k - 1 \in 1 .. n /\ j \in 1 .. n /\ j < k - 1
      BY <1>0, <1>1, <1>6, <2>4
    <3>. QED  BY <1>3, <3>1
  <2>5. CASE k > i /\ j > i
    <3>1. w[j] = v[j - 1] /\ w[k] = v[k - 1] /\ k - 1 \in 1 .. n /\ j - 1 \in 1 .. n /\ j - 1 < k - 1
      BY <1>0, <1>1, <1>6, <2>5
    <3>. QED  BY <1>3, <3>1
  <2>. QED  BY <1>0, <2>1, <2>2, <2>3, <2>4, <2>5
<1>7. Sorted(w, R)
  BY <1>2, <1>6 DEF Sorted
<1>. QED  BY <1>7 DEF w

\* Every finite set has a sorted list.
LEMMA SortedExists ==
  ASSUME NEW T, IsFiniteSet(T), NEW R, Ordering(R, T)
  PROVE  \E v : Lists(v, T) /\ Sorted(v, R)
<1>. DEFINE Sortable(U) == \E v : Lists(v, U) /\ Sorted(v, R)
            Good == {n \in Nat : \A U \in SUBSET T : Cardinality(U) = n => Sortable(U)}
<1>1. 0 \in Good
  <2>. SUFFICES ASSUME NEW U \in SUBSET T, Cardinality(U) = 0 PROVE Sortable(U)
    OBVIOUS
  <2>1. U = {}
    BY FS_Subset, FS_EmptySet
  <2>2. Lists(<<>>, U) /\ Sorted(<<>>, R)
    BY <2>1, ListsEmpty DEF Sorted
  <2>. QED  BY <2>2
<1>2. \A n \in Good : n + 1 \in Good
  <2>. SUFFICES ASSUME NEW n \in Nat, \A U \in SUBSET T : Cardinality(U) = n => Sortable(U),
                       NEW U \in SUBSET T, Cardinality(U) = n + 1
                PROVE  Sortable(U)
    OBVIOUS
  <2>1. IsFiniteSet(U) /\ U # {}
    BY FS_Subset, FS_EmptySet
  <2>2. PICK x : x \in U
    BY <2>1
  <2>3. Cardinality(U \ {x}) = n /\ U \ {x} \in SUBSET T
    <3>1. Cardinality(U \ {x}) = Cardinality(U) - 1
      BY <2>1, <2>2, FS_RemoveElement
    <3>. QED  BY <3>1
  <2>4. PICK v : Lists(v, U \ {x}) /\ Sorted(v, R)
    BY <2>3
  <2>. DEFINE Later == {i \in 1 .. Len(v) : <<v[i], x>> \in R}
  <2>5. Len(v) \in Nat
    BY <2>4, ListsIndex
  <2>6. PICK i \in 1 .. Len(v) + 1 : /\ i > 1 => <<v[i - 1], x>> \notin R
                                     /\ i <= Len(v) => <<v[i], x>> \in R
    <3>1. CASE Later = {} /\ Len(v) # 0
      <4>1. Len(v) + 1 > 1 /\ (Len(v) + 1) - 1 \in 1 .. Len(v) /\ Len(v) + 1 \in 1 .. Len(v) + 1
            /\ ~(Len(v) + 1 <= Len(v))
        BY <2>5, <3>1
      <4>. QED  BY <3>1, <4>1
    <3>2. CASE Len(v) = 0
      <4>1. 1 \in 1 .. Len(v) + 1 /\ ~(1 <= Len(v)) /\ ~(1 > 1)
        BY <3>2
      <4>. QED  BY <4>1
    <3>3. CASE Later # {}
      <4>1. PICK m \in Later : \A k \in Later : m <= k
        <5>1. Later \in SUBSET Nat
          OBVIOUS
        <5>. HIDE DEF Later
        <5>. QED  BY <3>3, <5>1, LeastNatural
      <4>2. m \in 1 .. Len(v) + 1 /\ <<v[m], x>> \in R
        BY <2>5, <4>1
      <4>3. ASSUME m > 1 PROVE <<v[m - 1], x>> \notin R
        <5>1. m - 1 \in 1 .. Len(v) /\ ~(m <= m - 1)
          BY <2>5, <4>1, <4>3
        <5>. QED  BY <4>1, <5>1
      <4>. QED  BY <4>2, <4>3
    <3>. QED  BY <3>1, <3>2, <3>3
  <2>7. Ordering(R, (U \ {x}) \cup {x}) /\ (U \ {x}) \cup {x} = U /\ x \notin U \ {x}
    BY <2>2 DEF Ordering
  <2>8. Sorted(InsertAt(v, i, x), R)
    BY <2>4, <2>6, <2>7, SortedInsert
  <2>9. Lists(InsertAt(v, i, x), U)
    <3>1. Lists(InsertAt(v, i, x), (U \ {x}) \cup {x})
      BY <2>4, <2>6, <2>7, ListsInsert, Zenon
    <3>. QED  BY <2>7, <3>1
  <2>. QED  BY <2>8, <2>9
<1>3. Good = Nat
  <2>1. Good \in SUBSET Nat
    OBVIOUS
  <2>. HIDE DEF Good
  <2>. QED  BY <1>1, <1>2, <2>1, NatStep
<1>4. Sortable(T)
  BY <1>3, FS_CardinalityType
<1>. QED  BY <1>4

-----------------------------------------------------------------------------
(* The order of the table                                                  *)

Fields == Nat \cup {None}
Directions == {"asc", "desc"}

\* compare_keys on the fields of one column.
LexLess(x, y, dir) ==
  \E i \in DOMAIN x :
    /\ \A j \in 1 .. i - 1 : x[j] = y[j]
    /\ FieldLess(x[i], y[i], IF i = 1 THEN dir ELSE "asc")

LEMMA FieldOrder ==
  ASSUME NEW x \in Fields, NEW y \in Fields, NEW z \in Fields, NEW d \in Directions
  PROVE  /\ ~FieldLess(x, x, d)
         /\ x # y => FieldLess(x, y, d) \/ FieldLess(y, x, d)
         /\ FieldLess(x, y, d) /\ FieldLess(y, z, d) => FieldLess(x, z, d)
<1>1. None \notin Nat
  BY DEF None
<1>2. d = "asc" \/ d = "desc"
  BY DEF Directions
<1>. QED  BY <1>1, <1>2 DEF FieldLess, Fields

LEMMA LexOrder ==
  ASSUME NEW x \in Seq(Fields), NEW y \in Seq(Fields), NEW z \in Seq(Fields),
         Len(x) = Len(y), Len(y) = Len(z), NEW d \in Directions
  PROVE  /\ ~LexLess(x, x, d)
         /\ x # y => LexLess(x, y, d) \/ LexLess(y, x, d)
         /\ LexLess(x, y, d) /\ LexLess(y, z, d) => LexLess(x, z, d)
<1>. DEFINE n == Len(x)  Dir(i) == IF i = 1 THEN d ELSE "asc"
<1>0. /\ n \in Nat /\ Len(y) = n /\ Len(z) = n
      /\ DOMAIN x = 1 .. n /\ DOMAIN y = 1 .. n /\ DOMAIN z = 1 .. n
      /\ \A i \in 1 .. n : x[i] \in Fields /\ y[i] \in Fields /\ z[i] \in Fields
  OBVIOUS
<1>a. \A i : Dir(i) \in Directions
  BY DEF Directions
<1>b. \A a, b : LexLess(a, b, d) <=>
        \E i \in DOMAIN a : /\ \A j \in 1 .. i - 1 : a[j] = b[j]
                            /\ FieldLess(a[i], b[i], Dir(i))
  BY Zenon DEF LexLess
<1>. HIDE DEF n, Dir
<1>1. ~LexLess(x, x, d)
  <2>1. \A i \in 1 .. n : ~FieldLess(x[i], x[i], Dir(i))
    BY <1>0, <1>a, FieldOrder
  <2>. QED  BY <1>0, <1>b, <2>1
<1>2. ASSUME x # y PROVE LexLess(x, y, d) \/ LexLess(y, x, d)
  <2>. DEFINE Differ == {i \in 1 .. n : x[i] # y[i]}
  <2>1. Differ # {}
    BY <1>0, <1>2, SeqEqual DEF n
  <2>2. PICK m \in Differ : \A k \in Differ : m <= k
    <3>1. Differ \in SUBSET Nat
      BY <1>0
    <3>. HIDE DEF Differ
    <3>. QED  BY <2>1, <3>1, LeastNatural
  <2>3. m \in 1 .. n /\ x[m] # y[m] /\ x[m] \in Fields /\ y[m] \in Fields
    BY <1>0
  <2>4. \A j \in 1 .. m - 1 : x[j] = y[j]
    <3>. SUFFICES ASSUME NEW j \in 1 .. m - 1 PROVE x[j] = y[j]
      OBVIOUS
    <3>1. j \in 1 .. n /\ ~(m <= j)
      BY <1>0, <2>3
    <3>. QED  BY <2>2, <3>1
  <2>5. FieldLess(x[m], y[m], Dir(m)) \/ FieldLess(y[m], x[m], Dir(m))
    BY <1>a, <2>3, FieldOrder
  <2>. QED  BY <1>0, <1>b, <2>3, <2>4, <2>5
<1>3. ASSUME LexLess(x, y, d), LexLess(y, z, d) PROVE LexLess(x, z, d)
  <2>1. PICK i \in 1 .. n : /\ \A j \in 1 .. i - 1 : x[j] = y[j]
                            /\ FieldLess(x[i], y[i], Dir(i))
    BY <1>0, <1>b, <1>3
  <2>2. PICK k \in 1 .. n : /\ \A j \in 1 .. k - 1 : y[j] = z[j]
                            /\ FieldLess(y[k], z[k], Dir(k))
    BY <1>0, <1>b, <1>3
  <2>3. CASE i < k
    <3>1. i \in 1 .. k - 1 /\ \A j \in 1 .. i - 1 : j \in 1 .. k - 1
      BY <1>0, <2>3
    <3>2. \A j \in 1 .. i - 1 : x[j] = z[j]
      BY <2>1, <2>2, <3>1
    <3>3. FieldLess(x[i], z[i], Dir(i))
      BY <2>1, <2>2, <3>1
    <3>. QED  BY <1>0, <1>b, <3>2, <3>3
  <2>4. CASE k < i
    <3>1. k \in 1 .. i - 1 /\ \A j \in 1 .. k - 1 : j \in 1 .. i - 1
      BY <1>0, <2>4
    <3>2. \A j \in 1 .. k - 1 : x[j] = z[j]
      BY <2>1, <2>2, <3>1
    <3>3. FieldLess(x[k], z[k], Dir(k))
      BY <2>1, <2>2, <3>1
    <3>. QED  BY <1>0, <1>b, <3>2, <3>3
  <2>5. CASE i = k
    <3>1. \A j \in 1 .. i - 1 : x[j] = z[j]
      BY <2>1, <2>2, <2>5
    <3>2. FieldLess(x[i], z[i], Dir(i))
      <4>1. FieldLess(x[i], y[i], Dir(i)) /\ FieldLess(y[i], z[i], Dir(i))
        BY <2>1, <2>2, <2>5
      <4>2. x[i] \in Fields /\ y[i] \in Fields /\ z[i] \in Fields
        BY <1>0
      <4>. QED  BY <1>a, <4>1, <4>2, FieldOrder
    <3>. QED  BY <1>0, <1>b, <3>1, <3>2
  <2>. QED  BY <1>0, <2>3, <2>4, <2>5
<1>. QED  BY <1>1, <1>2, <1>3

\* A table of the rows T with a sort key.
Sorts(s) == s \in Columns \X Directions
TableOf(t, T) == /\ Lists(t.rows, T) /\ t.keys \in [T -> TrackKeys] /\ Sorts(t.sort)

AfterSet(t, T) == {p \in T \X T : After(t, p[1], p[2])}

LEMMA AfterIsOrdering ==
  ASSUME NEW T, NEW t, TableOf(t, T)
  PROVE  Ordering(AfterSet(t, T), T)
<1>. DEFINE c == t.sort[1]  d == t.sort[2]  K(a) == t.keys[a][c]  P(a) == PosIn(t.rows, a)
            L(a, b) == LexLess(K(a), K(b), d)
<1>1. c \in Columns /\ d \in Directions /\ \A a \in T : t.keys[a] \in TrackKeys
  BY DEF TableOf, Sorts
<1>2. /\ \A k \in TrackKeys : k[c] \in Seq(Fields)
      /\ \A k, l \in TrackKeys : Len(k[c]) = Len(l[c])
  BY <1>1, KeysAssumption DEF Fields
<1>3. \A a, b \in T : K(a) \in Seq(Fields) /\ Len(K(a)) = Len(K(b))
  BY <1>1, <1>2
<1>4. \A a, b : KeyLess(t, a, b) <=> L(a, b)
  BY Zenon DEF KeyLess, LexLess
<1>5. \A a, b : After(t, a, b) <=> L(b, a) \/ (~L(a, b) /\ P(a) > P(b))
  <2>. HIDE DEF L
  <2>. QED  BY <1>4, Zenon DEF After, P
<1>6. /\ \A a \in T : P(a) \in Int
      /\ \A a, b \in T : P(a) = P(b) => a = b
  <2>1. Lists(t.rows, T)
    BY DEF TableOf
  <2>2. \A a \in T : PosIn(t.rows, a) \in 1 .. Len(t.rows) /\ t.rows[PosIn(t.rows, a)] = a
    BY <2>1, PosInFacts
  <2>. QED  BY <2>2
<1>. HIDE DEF K, P, c, d
<1>7. ASSUME NEW e \in T, NEW f \in T, NEW g \in T
      PROVE  /\ ~L(e, e)
             /\ K(e) # K(f) => L(e, f) \/ L(f, e)
             /\ L(e, f) /\ L(f, g) => L(e, g)
  BY <1>1, <1>3, LexOrder
<1>. HIDE DEF L
<1>8. \A e, f \in T : K(e) = K(f) => ~L(e, f) /\ ~L(f, e)
  BY <1>7 DEF L
<1>9. \A e, f, g \in T : K(e) = K(f) => (L(e, g) <=> L(f, g)) /\ (L(g, e) <=> L(g, f))
  BY DEF L
<1>10. ASSUME NEW e \in T, NEW f \in T, NEW g \in T
       PROVE  /\ e # f => After(t, e, f) \/ After(t, f, e)
              /\ After(t, e, f) => ~After(t, f, e)
              /\ After(t, e, f) /\ After(t, f, g) => After(t, e, g)
  <2>1. P(e) \in Int /\ P(f) \in Int /\ P(g) \in Int
    BY <1>6
  <2>2. /\ L(e, f) \/ L(f, e) \/ K(e) = K(f)
        /\ L(f, g) \/ L(g, f) \/ K(f) = K(g)
        /\ L(e, g) \/ L(g, e) \/ K(e) = K(g)
    BY <1>7
  <2>3. e # f => P(e) # P(f)
    BY <1>6
  <2>4. e # f => After(t, e, f) \/ After(t, f, e)
    <3>1. e # f => P(e) > P(f) \/ P(f) > P(e)
      BY <2>1, <2>3
    <3>. QED  BY <1>5, <3>1, Zenon
  <2>5. After(t, e, f) => ~After(t, f, e)
    BY <1>5, <1>7, <2>1
  <2>6. ASSUME After(t, e, f), After(t, f, g) PROVE After(t, e, g)
    <3>1. L(f, e) \/ (K(e) = K(f) /\ P(e) > P(f))
      BY <1>5, <2>2, <2>6
    <3>2. L(g, f) \/ (K(f) = K(g) /\ P(f) > P(g))
      BY <1>5, <2>2, <2>6
    <3>3. L(g, e) \/ (K(e) = K(g) /\ P(e) > P(g))
      <4>1. CASE L(f, e) /\ L(g, f)
        <5>1. \A x, y, z \in T : L(x, y) /\ L(y, z) => L(x, z)
          BY <1>7, Zenon
        <5>. QED  BY <4>1, <5>1, Zenon
      <4>2. CASE L(f, e) /\ K(f) = K(g)
        BY <1>9, <4>2, Zenon
      <4>3. CASE K(e) = K(f) /\ L(g, f)
        BY <1>9, <4>3, Zenon
      <4>4. CASE K(e) = K(f) /\ P(e) > P(f) /\ K(f) = K(g) /\ P(f) > P(g)
        BY <2>1, <4>4
      <4>. QED  BY <3>1, <3>2, <4>1, <4>2, <4>3, <4>4
    <3>. QED  BY <1>5, <1>8, <3>3
  <2>. QED  BY <2>4, <2>5, <2>6
<1>11. \A e, f \in T : <<e, f>> \in AfterSet(t, T) <=> After(t, e, f)
  BY DEF AfterSet
<1>. QED  BY <1>10, <1>11 DEF Ordering

\* What comes after what depends on nothing but the keys, the sort key and
\* the order of the rows.
LEMMA AfterSame ==
  ASSUME NEW U, NEW t, NEW u, t.sort = u.sort,
         \A x \in U : t.keys[x] = u.keys[x],
         \A x, y \in U : PosIn(t.rows, x) > PosIn(t.rows, y)
                           <=> PosIn(u.rows, x) > PosIn(u.rows, y)
  PROVE  \A x, y \in U : After(t, x, y) <=> After(u, x, y)
<1>1. \A x, y \in U : KeyLess(t, x, y) <=> KeyLess(u, x, y)
  BY DEF KeyLess
<1>. QED  BY <1>1 DEF After

\* Places of the same elements in the same order.
LEMMA SameOrder ==
  ASSUME NEW T, NEW v, Lists(v, T), NEW U \in SUBSET T, NEW w, Lists(w, U),
         \A x, y \in U : PosIn(v, x) < PosIn(v, y) => PosIn(w, x) < PosIn(w, y)
  PROVE  /\ \A x, y \in U : PosIn(v, x) > PosIn(v, y) <=> PosIn(w, x) > PosIn(w, y)
         /\ \A R : Sorted(v, R) => Sorted(w, R)
<1>1. \A x \in U : PosIn(v, x) \in 1 .. Len(v) /\ v[PosIn(v, x)] = x
  BY PosInFacts
<1>2. \A x \in U : PosIn(w, x) \in 1 .. Len(w) /\ w[PosIn(w, x)] = x
  BY PosInFacts
<1>3. /\ Len(v) \in Nat /\ DOMAIN v = 1 .. Len(v) /\ Len(w) \in Nat /\ DOMAIN w = 1 .. Len(w)
      /\ \A i \in 1 .. Len(w) : w[i] \in U
      /\ \A i, j \in 1 .. Len(w) : w[i] = w[j] => i = j
  BY ListsIndex
<1>4. ASSUME NEW x \in U, NEW y \in U, ~(PosIn(v, x) < PosIn(v, y)), x # y
      PROVE  PosIn(w, y) < PosIn(w, x)
  <2>1. PosIn(v, x) \in Int /\ PosIn(v, y) \in Int /\ PosIn(v, x) # PosIn(v, y)
    BY <1>1, <1>4
  <2>2. PosIn(v, y) < PosIn(v, x)
    BY <1>4, <2>1
  <2>. QED  BY <2>2
<1>5. ASSUME NEW x \in U, NEW y \in U
      PROVE  PosIn(v, x) > PosIn(v, y) <=> PosIn(w, x) > PosIn(w, y)
  <2>1. /\ PosIn(v, x) \in Int /\ PosIn(v, y) \in Int
        /\ PosIn(w, x) \in Int /\ PosIn(w, y) \in Int
    BY <1>1, <1>2
  <2>2. CASE x = y
    BY <2>1, <2>2
  <2>3. CASE PosIn(v, y) < PosIn(v, x)
    BY <2>1, <2>3
  <2>4. CASE ~(PosIn(v, y) < PosIn(v, x)) /\ x # y
    BY <1>4, <2>1, <2>4
  <2>. QED  BY <2>2, <2>3, <2>4
<1>6. ASSUME NEW R, Sorted(v, R), NEW i \in 1 .. Len(w), NEW j \in 1 .. Len(w), i < j
      PROVE  <<w[i], w[j]>> \notin R
  <2>. DEFINE x == w[i]  y == w[j]
  <2>1. x \in U /\ y \in U /\ PosIn(w, x) = i /\ PosIn(w, y) = j
    BY <1>2, <1>3
  <2>2. PosIn(v, x) < PosIn(v, y)
    <3>1. x # y
      BY <1>3, <1>6
    <3>2. ~(PosIn(w, y) < PosIn(w, x))
      BY <1>6, <2>1
    <3>. QED  BY <1>4, <2>1, <3>1, <3>2
  <2>3. <<v[PosIn(v, x)], v[PosIn(v, y)]>> \notin R
    BY <1>1, <1>3, <1>6, <2>1, <2>2 DEF Sorted
  <2>. QED  BY <1>1, <2>1, <2>3
<1>. QED  BY <1>3, <1>5, <1>6 DEF Sorted

LEMMA SortKeyIsPair == <<>> \notin Columns \X Directions
OBVIOUS

\* resort: the only list of the rows that is sorted.
LEMMA ResortedIs ==
  ASSUME NEW T, NEW t, TableOf(t, T)
  PROVE  /\ Lists(Resorted(t), T) /\ Sorted(Resorted(t), AfterSet(t, T))
         /\ \A v : Lists(v, T) /\ Sorted(v, AfterSet(t, T)) => v = Resorted(t)
<1>. DEFINE Least(v) == \A i, j \in DOMAIN v : i < j => ~After(t, v[i], v[j])
<1>1. Ordering(AfterSet(t, T), T) /\ IsFiniteSet(T) /\ ToSet(t.rows) = T
  BY AfterIsOrdering, ListsBijection DEF TableOf, Lists
<1>2. ASSUME NEW v, Lists(v, T) PROVE Least(v) <=> Sorted(v, AfterSet(t, T))
  <2>1. \A i \in DOMAIN v : v[i] \in T
    BY <1>2, ListsIndex
  <2>2. \A i, j \in DOMAIN v : <<v[i], v[j]>> \in AfterSet(t, T) <=> After(t, v[i], v[j])
    BY <2>1 DEF AfterSet
  <2>. QED  BY <2>2 DEF Sorted
<1>3. t.sort # <<>>
  BY SortKeyIsPair DEF TableOf, Sorts
<1>4. Resorted(t) = CHOOSE v \in SetToSeqs(T) : Least(v)
  BY <1>1, <1>3 DEF Resorted
<1>5. PICK w : Lists(w, T) /\ Sorted(w, AfterSet(t, T))
  BY <1>1, SortedExists
<1>6. w \in SetToSeqs(T) /\ Least(w)
  BY <1>1, <1>2, <1>5, SeqsAreLists
<1>. HIDE DEF Least
<1>7. Resorted(t) \in SetToSeqs(T) /\ Least(Resorted(t))
  BY <1>4, <1>6, Zenon
<1>8. Lists(Resorted(t), T) /\ Sorted(Resorted(t), AfterSet(t, T))
  BY <1>1, <1>2, <1>7, SeqsAreLists
<1>. QED  BY <1>1, <1>8, SortedOnce

LEMMA NoSortKey ==
  ASSUME NEW t, t.sort = <<>>
  PROVE  Resorted(t) = t.rows
BY DEF Resorted

-----------------------------------------------------------------------------
(* The table under every operation                                         *)

TableInv ==
  /\ nextId \in Nat /\ ToSet(rows) \subseteq 0 .. nextId - 1
  /\ Lists(rows, ToSet(rows)) /\ Lists(visible, ToSet(rows))
  /\ keys \in [ToSet(rows) -> TrackKeys]
  /\ sort = <<>> \/ Sorts(sort)
  /\ sort = <<>> => visible = rows
  /\ ~stale => visible = Resorted(Table(rows, keys, sort))

LEMMA ResortDoes ==
  ASSUME NEW T, NEW r, Lists(r, T), NEW k \in [T -> TrackKeys], NEW s, s = <<>> \/ Sorts(s)
  PROVE  /\ Lists(Resorted(Table(r, k, s)), T)
         /\ s = <<>> => Resorted(Table(r, k, s)) = r
<1>. DEFINE t == Table(r, k, s)
<1>1. t.rows = r /\ t.keys = k /\ t.sort = s
  BY DEF Table
<1>. HIDE DEF t
<1>2. CASE s = <<>>
  BY <1>1, <1>2, NoSortKey DEF t
<1>3. CASE s # <<>>
  <2>1. TableOf(t, T)
    BY <1>1, <1>3 DEF TableOf
  <2>. QED  BY <1>3, <2>1, ResortedIs DEF t
<1>. QED  BY <1>2, <1>3

\* Sorted rows stay sorted when the table grows or shrinks, as long as those
\* that stay keep their keys and their order.
LEMMA StaysSorted ==
  ASSUME NEW T, NEW t, TableOf(t, T), NEW U, NEW u, TableOf(u, U), t.sort = u.sort,
         NEW W, W \subseteq T, W \subseteq U,
         \A x \in W : t.keys[x] = u.keys[x],
         \A x, y \in W : PosIn(t.rows, x) > PosIn(t.rows, y)
                           <=> PosIn(u.rows, x) > PosIn(u.rows, y),
         NEW v, Lists(v, W), Sorted(v, AfterSet(t, T))
  PROVE  Sorted(v, AfterSet(u, U))
<1>1. \A x, y \in W : After(t, x, y) <=> After(u, x, y)
  BY AfterSame
<1>2. \A x, y \in W : <<x, y>> \in AfterSet(t, T) <=> <<x, y>> \in AfterSet(u, U)
  BY <1>1 DEF AfterSet
<1>3. \A i \in DOMAIN v : v[i] \in W
  BY ListsIndex
<1>. QED  BY <1>2, <1>3 DEF Sorted

SamePlaces(T, v, w) == \A x \in T : PosIn(v, x) = PosIn(w, x)

LEMMA AppendPlaces ==
  ASSUME NEW T, NEW r, Lists(r, T), NEW x, x \notin T
  PROVE  /\ Lists(Append(r, x), T \cup {x})
         /\ SamePlaces(T, Append(r, x), r)
         /\ InsertAt(r, Len(r) + 1, x) = Append(r, x)
<1>0. r \in Seq(T) /\ Len(r) \in Nat
  BY DEF Lists
<1>. DEFINE a == Append(r, x)
<1>1. a = r \o <<x>>
  BY <1>0
<1>2. Lists(a, T \cup {x})
  <2>1. T \cap {x} = {}
    OBVIOUS
  <2>. HIDE DEF a
  <2>. QED  BY <1>1, <2>1, ListsOne, ListsConcat
<1>3. ASSUME NEW y \in T PROVE PosIn(a, y) = PosIn(r, y)
  <2>1. PosIn(r, y) \in 1 .. Len(r) /\ r[PosIn(r, y)] = y
    BY PosInFacts
  <2>2. Len(a) = Len(r) + 1 /\ \A i \in 1 .. Len(r) : a[i] = r[i]
    BY <1>0
  <2>. HIDE DEF a
  <2>3. PosIn(a, y) \in 1 .. Len(a) /\ a[PosIn(a, y)] = y
    BY <1>2, PosInFacts
  <2>4. PosIn(r, y) \in 1 .. Len(a) /\ a[PosIn(r, y)] = y
    BY <1>0, <2>1, <2>2
  <2>. QED  BY <1>2, <2>3, <2>4, ListsIndex
<1>4. InsertAt(r, Len(r) + 1, x) = a
  <2>1. SubSeq(r, 1, Len(r)) = r
    BY <1>0, SubSeqFull
  <2>2. SubSeq(r, Len(r) + 1, Len(r)) = <<>>
    BY <1>0
  <2>3. Len(r) + 1 - 1 = Len(r)
    BY <1>0
  <2>4. (r \o <<x>>) \o <<>> = r \o <<x>>
    <3>1. r \in Seq(T \cup {x}) /\ <<x>> \in Seq(T \cup {x})
      BY <1>0
    <3>. QED  BY <3>1
  <2>. HIDE DEF a
  <2>5. InsertAt(r, Len(r) + 1, x)
          = SubSeq(r, 1, (Len(r) + 1) - 1) \o <<x>> \o SubSeq(r, Len(r) + 1, Len(r))
    BY Zenon DEF InsertAt
  <2>6. InsertAt(r, Len(r) + 1, x) = (r \o <<x>>) \o <<>>
    BY <2>1, <2>2, <2>3, <2>5
  <2>. QED  BY <1>1, <2>4, <2>6, Zenon
<1>. QED  BY <1>2, <1>3, <1>4 DEF SamePlaces

\* playlist_add: the new row is where the sort key wants it.
LEMMA AddKeeps ==
  ASSUME TableInv, NEW k \in TrackKeys, Add(k)
  PROVE  TableInv' /\ ToSet(rows') = ToSet(rows) \cup {nextId} /\ nextId' = nextId + 1
<1>. DEFINE T == ToSet(rows)  n == nextId  U == T \cup {n}
            r == Append(rows, n)  kk == NewKeys(k)
            Here(i) == IF sort = <<>> THEN i = Len(visible) + 1
                       ELSE /\ i > 1 => ~After(Table(r, kk, sort), visible[i - 1], n)
                            /\ i <= Len(visible) => After(Table(r, kk, sort), visible[i], n)
<1>1. PICK i \in 1 .. Len(visible) + 1 :
        /\ Here(i)
        /\ rows' = r /\ keys' = kk /\ sort' = sort /\ visible' = InsertAt(visible, i, n)
  BY DEF Add, Show, Table
<1>2. nextId' = n + 1 /\ stale' = stale
  BY DEF Add
<1>3. n \in Nat /\ n \notin T
  BY DEF TableInv
<1>4. Lists(rows, T) /\ Lists(visible, T) /\ keys \in [T -> TrackKeys]
  BY DEF TableInv
<1>5. /\ Lists(r, U) /\ \A y \in T : PosIn(r, y) = PosIn(rows, y)
      /\ InsertAt(rows, Len(rows) + 1, n) = r
  <2>. HIDE DEF T, n
  <2>1. Lists(Append(rows, n), T \cup {n})
    BY <1>3, <1>4, AppendPlaces
  <2>2. \A y \in T : PosIn(Append(rows, n), y) = PosIn(rows, y)
    <3>1. SamePlaces(T, Append(rows, n), rows)
      BY <1>3, <1>4, AppendPlaces
    <3>. QED  BY <3>1 DEF SamePlaces
  <2>3. InsertAt(rows, Len(rows) + 1, n) = Append(rows, n)
    BY <1>3, <1>4, AppendPlaces
  <2>. QED  BY <2>1, <2>2, <2>3
<1>6. kk \in [U -> TrackKeys] /\ \A y \in T : kk[y] = keys[y]
  BY <1>3, <1>4 DEF NewKeys
<1>7. ToSet(rows') = U
  BY <1>1, <1>5 DEF Lists
<1>8. Lists(visible', U)
  BY <1>1, <1>3, <1>4, ListsInsert
<1>9. U \subseteq 0 .. (n + 1) - 1
  BY <1>3 DEF TableInv
<1>10. sort = <<>> => visible' = r
  BY <1>1, <1>5 DEF TableInv
<1>. HIDE DEF T, U, n, r, kk
<1>11. ASSUME ~stale PROVE visible' = Resorted(Table(r, kk, sort))
  <2>1. CASE sort = <<>>
    BY <1>5, <1>6, <1>10, <2>1, ResortDoes
  <2>2. CASE sort # <<>>
    <3>. DEFINE t == Table(rows, keys, sort)  u == Table(r, kk, sort)
    <3>1. /\ t.rows = rows /\ t.keys = keys /\ t.sort = sort
          /\ u.rows = r /\ u.keys = kk /\ u.sort = sort
      BY DEF Table
    <3>. HIDE DEF t, u
    <3>2. Sorts(sort)
      BY <2>2 DEF TableInv
    <3>3. TableOf(t, T) /\ TableOf(u, U)
      BY <1>4, <1>5, <1>6, <3>1, <3>2 DEF TableOf
    <3>4. Sorted(visible, AfterSet(t, T))
      <4>1. visible = Resorted(t)
        BY <1>11 DEF TableInv, t
      <4>. QED  BY <3>3, <4>1, ResortedIs
    <3>5. Sorted(visible, AfterSet(u, U))
      <4>1. T \subseteq U
        BY DEF U
      <4>. QED  BY <1>4, <1>5, <1>6, <3>1, <3>3, <3>4, <4>1, StaysSorted
    <3>6. /\ i > 1 => ~After(u, visible[i - 1], n)
          /\ i <= Len(visible) => After(u, visible[i], n)
      BY <1>1, <2>2 DEF u
    <3>7. /\ i > 1 => <<visible[i - 1], n>> \notin AfterSet(u, U)
          /\ i <= Len(visible) => <<visible[i], n>> \in AfterSet(u, U)
      <4>1. Len(visible) \in Nat /\ \A j \in 1 .. Len(visible) : visible[j] \in U
        BY <1>4, ListsIndex DEF U
      <4>2. n \in U
        BY DEF U
      <4>3. i <= Len(visible) => visible[i] \in U
        BY <4>1
      <4>. QED  BY <3>6, <4>2, <4>3 DEF AfterSet
    <3>8. Ordering(AfterSet(u, U), T \cup {n})
      BY <3>3, AfterIsOrdering DEF U
    <3>9. Sorted(visible', AfterSet(u, U))
      BY <1>1, <1>3, <1>4, <3>5, <3>7, <3>8, SortedInsert DEF T
    <3>. QED  BY <1>8, <3>3, <3>9, ResortedIs DEF u
  <2>. QED  BY <2>1, <2>2
<1>12. TableInv'
  <2>1. nextId' \in Nat /\ ToSet(rows)' \subseteq 0 .. nextId' - 1
    BY <1>2, <1>3, <1>7, <1>9
  <2>2. sort' = <<>> \/ Sorts(sort')
    BY <1>1 DEF TableInv
  <2>3. ~stale' => visible' = Resorted(Table(rows', keys', sort'))
    BY <1>1, <1>2, <1>11
  <2>. QED  BY <1>1, <1>5, <1>6, <1>7, <1>8, <1>10, <2>1, <2>2, <2>3 DEF TableInv
<1>. QED  BY <1>2, <1>7, <1>12 DEF T, U, n

\* playlist_remove.
LEMMA RemoveKeeps ==
  ASSUME TableInv, NEW id, Remove1(id)
  PROVE  TableInv' /\ ToSet(rows') = ToSet(rows) \ {id} /\ nextId' = nextId
<1>. DEFINE T == ToSet(rows)  U == T \ {id}  r == Without(rows, id)
            kk == [i \in U |-> keys[i]]
<1>1. /\ rows' = r /\ keys' = kk /\ sort' = sort /\ visible' = Without(visible, id)
      /\ nextId' = nextId /\ stale' = stale
  BY DEF Remove1, Show, Table
<1>2. Lists(rows, T) /\ Lists(visible, T) /\ keys \in [T -> TrackKeys]
  BY DEF TableInv
<1>3. /\ Lists(r, U) /\ Lists(visible', U)
      /\ \A x, y \in U : PosIn(rows, x) < PosIn(rows, y) => PosIn(r, x) < PosIn(r, y)
      /\ \A x, y \in U : PosIn(visible, x) < PosIn(visible, y)
                           => PosIn(visible', x) < PosIn(visible', y)
  BY <1>1, <1>2, WithoutLists
<1>4. kk \in [U -> TrackKeys] /\ \A y \in U : kk[y] = keys[y]
  BY <1>2
<1>5. ToSet(rows') = U
  BY <1>1, <1>3 DEF Lists
<1>6. U \in SUBSET T
  OBVIOUS
<1>. HIDE DEF T, U, r, kk
<1>7. ASSUME ~stale PROVE visible' = Resorted(Table(r, kk, sort))
  <2>1. CASE sort = <<>>
    BY <1>1, <1>3, <1>4, <2>1, ResortDoes DEF TableInv, r
  <2>2. CASE sort # <<>>
    <3>. DEFINE t == Table(rows, keys, sort)  u == Table(r, kk, sort)
    <3>1. /\ t.rows = rows /\ t.keys = keys /\ t.sort = sort
          /\ u.rows = r /\ u.keys = kk /\ u.sort = sort
      BY DEF Table
    <3>. HIDE DEF t, u
    <3>2. Sorts(sort)
      BY <2>2 DEF TableInv
    <3>3. TableOf(t, T) /\ TableOf(u, U)
      BY <1>2, <1>3, <1>4, <3>1, <3>2 DEF TableOf
    <3>4. Sorted(visible, AfterSet(t, T))
      <4>1. visible = Resorted(t)
        BY <1>7 DEF TableInv, t
      <4>. QED  BY <3>3, <4>1, ResortedIs
    <3>5. Sorted(visible', AfterSet(t, T))
      BY <1>2, <1>3, <1>6, <3>4, SameOrder
    <3>6. \A x, y \in U : PosIn(rows, x) > PosIn(rows, y) <=> PosIn(r, x) > PosIn(r, y)
      BY <1>2, <1>3, <1>6, SameOrder
    <3>7. Sorted(visible', AfterSet(u, U))
      BY <1>3, <1>4, <1>6, <3>1, <3>3, <3>5, <3>6, StaysSorted
    <3>. QED  BY <1>3, <3>3, <3>7, ResortedIs DEF u
  <2>. QED  BY <2>1, <2>2
<1>8. TableInv'
  <2>1. nextId' \in Nat /\ ToSet(rows)' \subseteq 0 .. nextId' - 1
    BY <1>1, <1>5, <1>6 DEF TableInv, T
  <2>2. (sort' = <<>> \/ Sorts(sort')) /\ (sort' = <<>> => visible' = rows')
    BY <1>1 DEF TableInv, r
  <2>3. ~stale' => visible' = Resorted(Table(rows', keys', sort'))
    BY <1>1, <1>7
  <2>. QED  BY <1>1, <1>3, <1>4, <1>5, <2>1, <2>2, <2>3 DEF TableInv
<1>. QED  BY <1>1, <1>5, <1>8 DEF T, U

\* playlist_clear.
LEMMA ClearKeeps ==
  ASSUME TableInv, Clear
  PROVE  TableInv' /\ ToSet(rows') = {} /\ nextId' = nextId
<1>1. CASE rows = <<>>
  <2>1. UNCHANGED <<rows, visible, sort, keys, nextId, stale>>
    BY <1>1 DEF Clear, tableVars
  <2>2. ToSet(rows) = {}
    BY <1>1 DEF ToSet
  <2>. QED  BY <2>1, <2>2 DEF TableInv
<1>2. CASE rows # <<>>
  <2>1. /\ rows' = <<>> /\ keys' = <<>> /\ sort' = sort /\ visible' = <<>>
        /\ nextId' = nextId /\ stale' = stale
    BY <1>2 DEF Clear, Show, Table
  <2>2. ToSet(rows') = {} /\ Lists(<<>>, {}) /\ <<>> \in [{} -> TrackKeys]
    BY <2>1, ListsEmpty DEF ToSet
  <2>3. sort = <<>> \/ Sorts(sort)
    BY DEF TableInv
  <2>4. Lists(Resorted(Table(<<>>, <<>>, sort)), {})
    BY <2>2, <2>3, ResortDoes
  <2>5. Resorted(Table(<<>>, <<>>, sort)) = <<>>
    BY <2>4, ListsEmpty
  <2>6. nextId' \in Nat /\ ToSet(rows)' \subseteq 0 .. nextId' - 1
    BY <2>1, <2>2 DEF TableInv
  <2>7. ~stale' => visible' = Resorted(Table(rows', keys', sort'))
    BY <2>1, <2>5
  <2>. QED  BY <2>1, <2>2, <2>3, <2>6, <2>7 DEF TableInv
<1>. QED  BY <1>1, <1>2

\* The rows are sorted by the key s.
LEMMA SortKeeps ==
  ASSUME TableInv, NEW s, s = <<>> \/ Sorts(s), UNCHANGED <<rows, keys, nextId>>,
         sort' = s, visible' = Resorted(Table(rows, keys, s))
  PROVE  TableInv'
<1>1. Lists(rows, ToSet(rows)) /\ keys \in [ToSet(rows) -> TrackKeys]
  BY DEF TableInv
<1>2. /\ Lists(visible', ToSet(rows))
      /\ s = <<>> => visible' = rows
  BY <1>1, ResortDoes
<1>3. ToSet(rows)' = ToSet(rows)
  OBVIOUS
<1>4. visible' = Resorted(Table(rows', keys', sort'))
  OBVIOUS
<1>. QED  BY <1>2, <1>3, <1>4 DEF TableInv

\* playlist_header_click.
LEMMA HeaderClickKeeps ==
  ASSUME TableInv, NEW c \in Columns, HeaderClick(c)
  PROVE  TableInv' /\ rows' = rows /\ nextId' = nextId
<1>1. PICK s \in {<<>>, <<c, "asc">>, <<c, "desc">>} :
        /\ rows' = rows /\ keys' = keys /\ nextId' = nextId
        /\ sort' = s /\ visible' = Resorted(Table(rows, keys, s))
  <2>. DEFINE s == IF sort = <<c, "asc">> THEN <<c, "desc">>
                   ELSE IF sort = <<c, "desc">> THEN <<>>
                   ELSE <<c, "asc">>
  <2>1. Show(Table(rows, keys, s), Resorted(Table(rows, keys, s))) /\ nextId' = nextId
    BY DEF HeaderClick
  <2>2. s \in {<<>>, <<c, "asc">>, <<c, "desc">>}
    OBVIOUS
  <2>. HIDE DEF s
  <2>3. /\ rows' = rows /\ keys' = keys /\ sort' = s
        /\ visible' = Resorted(Table(rows, keys, s))
    BY <2>1 DEF Show, Table
  <2>. QED  BY <2>1, <2>2, <2>3
<1>2. s = <<>> \/ Sorts(s)
  BY DEF Sorts, Directions
<1>. QED  BY <1>1, <1>2, SortKeeps

\* playlist_reorder: what is seen, with the rows S moved, is the source order.
LEMMA ReorderKeeps ==
  ASSUME TableInv, NEW S \in SUBSET ToSet(rows), NEW b, Reorder(S, b)
  PROVE  TableInv' /\ ToSet(rows') = ToSet(rows) /\ nextId' = nextId
<1>. DEFINE T == ToSet(rows)
            others == Only(visible, ToSet(visible) \ S)
            i == IF b \in ToSet(others) THEN PosIn(others, b) ELSE Len(others) + 1
            v == SubSeq(others, 1, i - 1) \o Only(visible, S)
                   \o SubSeq(others, i, Len(others))
            moved == Only(visible, S)  n == Len(others)
            A == {others[k] : k \in 1 .. i - 1}  B == {others[k] : k \in i .. n}
<1>1. /\ rows' = v /\ keys' = keys /\ sort' = <<>> /\ visible' = v
      /\ nextId' = nextId /\ stale' = FALSE
  BY DEF Reorder, Show, Table
<1>2. Lists(visible, T) /\ ToSet(visible) = T
  BY DEF TableInv, Lists
<1>3. Lists(others, T \ S) /\ Lists(moved, S)
  <2>1. T \cap (ToSet(visible) \ S) = T \ S /\ T \cap S = S
    BY <1>2
  <2>2. /\ Lists(Only(visible, ToSet(visible) \ S), T \cap (ToSet(visible) \ S))
        /\ Lists(Only(visible, S), T \cap S)
    BY <1>2, OnlyLists
  <2>. QED  BY <2>1, <2>2
<1>. HIDE DEF T, others, moved
<1>4. n \in Nat /\ i \in 1 .. n + 1
  <2>1. n \in Nat /\ ToSet(others) = T \ S
    BY <1>3, ListsIndex DEF Lists
  <2>2. b \in ToSet(others) => PosIn(others, b) \in 1 .. n
    BY <1>3, <2>1, PosInFacts
  <2>. QED  BY <2>1, <2>2
<1>. HIDE DEF i
<1>5. Lists(SubSeq(others, 1, i - 1), A)
  <2>. DEFINE m == i - 1
  <2>1. 1 \in Nat \ {0} /\ m \in Nat /\ m <= n /\ 1 <= m + 1
    BY <1>4
  <2>. HIDE DEF m
  <2>2. Lists(SubSeq(others, 1, m), {others[k] : k \in 1 .. m})
    BY <1>3, <2>1, ListsPart
  <2>. QED  BY <2>2 DEF m
<1>6. Lists(SubSeq(others, i, n), B)
  <2>1. i \in Nat \ {0} /\ n <= n /\ i <= n + 1
    BY <1>4
  <2>. QED  BY <1>3, <1>4, <2>1, ListsPart
<1>7. A \cup B = T \ S /\ A \cap B = {}
  <2>1. \A k \in 1 .. n : others[k] \in T \ S
    BY <1>3, ListsIndex
  <2>2. \A k \in 1 .. n : k \in 1 .. i - 1 \/ k \in i .. n
    BY <1>4
  <2>3. \A x \in T \ S : \E k \in 1 .. n : others[k] = x
    BY <1>3, ListsIndex
  <2>4. \A k \in 1 .. i - 1 : k \in 1 .. n
    BY <1>4
  <2>5. \A k \in i .. n : k \in 1 .. n
    BY <1>4
  <2>6. ASSUME NEW k \in 1 .. i - 1, NEW l \in i .. n PROVE others[k] # others[l]
    <3>1. k # l
      BY <1>4
    <3>. QED  BY <1>3, <2>4, <2>5, <3>1, ListsIndex
  <2>. QED  BY <2>1, <2>2, <2>3, <2>4, <2>5, <2>6
<1>8. S \subseteq T
  BY DEF T
<1>. DEFINE a == SubSeq(others, 1, i - 1)  c == SubSeq(others, i, n)
<1>9. v = (a \o moved) \o c
  BY DEF moved
<1>. HIDE DEF v, A, B, n, a, c
<1>10. Lists(v, T)
  <2>1. Lists(a \o moved, A \cup S)
    <3>1. A \cap S = {}
      BY <1>7
    <3>. QED  BY <1>3, <1>5, <3>1, ListsConcat DEF a
  <2>2. Lists((a \o moved) \o c, (A \cup S) \cup B)
    <3>1. (A \cup S) \cap B = {}
      BY <1>7
    <3>. QED  BY <1>6, <2>1, <3>1, ListsConcat DEF c
  <2>3. (A \cup S) \cup B = T
    BY <1>7, <1>8
  <2>. QED  BY <1>9, <2>2, <2>3
<1>11. ToSet(v) = T
  BY <1>10 DEF Lists
<1>12. Resorted(Table(v, keys, <<>>)) = v
  <2>1. Table(v, keys, <<>>).sort = <<>> /\ Table(v, keys, <<>>).rows = v
    BY DEF Table
  <2>. QED  BY <2>1, NoSortKey
<1>13. nextId' \in Nat /\ ToSet(rows)' \subseteq 0 .. nextId' - 1 /\ keys' \in [T -> TrackKeys]
  BY <1>1, <1>11 DEF TableInv, T
<1>14. visible' = Resorted(Table(rows', keys', sort'))
  BY <1>1, <1>12
<1>15. ToSet(rows)' = T /\ Lists(rows', T) /\ Lists(visible', T)
  BY <1>1, <1>10, <1>11
<1>16. TableInv'
  BY <1>1, <1>13, <1>14, <1>15 DEF TableInv
<1>. QED  BY <1>1, <1>15, <1>16 DEF T

\* playlist_update_tags.
LEMMA UpdateTagsKeeps ==
  ASSUME TableInv, NEW id, NEW k \in TrackKeys, UpdateTags(id, k)
  PROVE  TableInv' /\ UNCHANGED <<rows, visible, nextId>>
<1>1. /\ UNCHANGED <<rows, visible, sort, nextId>>
      /\ keys' = [keys EXCEPT ![id] = k]
      /\ id \in ToSet(rows) /\ (~stale' => ~stale /\ k = keys[id])
  BY DEF UpdateTags
<1>2. keys' \in [ToSet(rows) -> TrackKeys]
  BY <1>1 DEF TableInv
<1>3. ~stale' => keys' = keys
  BY <1>1 DEF TableInv
<1>. QED  BY <1>1, <1>2, <1>3 DEF TableInv

\* New rows for tracks that are loaded.
Fresh(n, ks) == n .. n + Len(ks) - 1

CountsFrom(r, n) == \A i \in 1 .. Len(r) : r[i] = n + i - 1

LEMMA FreshLists ==
  ASSUME NEW n \in Nat, NEW m \in Nat, NEW r \in Seq(n .. n + m - 1), Len(r) = m,
         CountsFrom(r, n)
  PROVE  Lists(r, n .. n + m - 1)
<1>3. \A x \in n .. n + m - 1 : \E i \in 1 .. Len(r) : r[i] = x
  <2>. SUFFICES ASSUME NEW x \in n .. n + m - 1 PROVE \E i \in 1 .. Len(r) : r[i] = x
    OBVIOUS
  <2>1. x - n + 1 \in 1 .. m /\ n + (x - n + 1) - 1 = x
    OBVIOUS
  <2>. QED  BY <2>1 DEF CountsFrom
<1>4. \A i, j \in 1 .. Len(r) : r[i] = r[j] => i = j
  BY DEF CountsFrom
<1>. DEFINE T == n .. n + m - 1
<1>5. /\ r \in Seq(T)
      /\ \A x \in T : \E i \in 1 .. Len(r) : r[i] = x
  BY <1>3
<1>. HIDE DEF T
<1>6. Lists(r, T)
  BY <1>4, <1>5, ListsFrom
<1>. QED  BY <1>6 DEF T

\* The rows r with the keys k are new, counted from n.
AreFresh(r, k, n, ks) == /\ r = [i \in DOMAIN ks |-> n + i - 1]
                         /\ k = [id \in ToSet(r) |-> ks[id - n + 1]]

LEMMA FreshRows ==
  ASSUME NEW n \in Nat, NEW ks \in Seq(TrackKeys), NEW r, NEW k, AreFresh(r, k, n, ks)
  PROVE  /\ Lists(r, Fresh(n, ks)) /\ ToSet(r) = Fresh(n, ks) /\ Len(r) = Len(ks)
         /\ k \in [Fresh(n, ks) -> TrackKeys]
<1>0. r = [i \in DOMAIN ks |-> n + i - 1] /\ k = [id \in ToSet(r) |-> ks[id - n + 1]]
  BY DEF AreFresh
<1>1. DOMAIN ks = 1 .. Len(ks) /\ Len(ks) \in Nat /\ \A i \in 1 .. Len(ks) : ks[i] \in TrackKeys
  OBVIOUS
<1>2. r \in Seq(Fresh(n, ks)) /\ Len(r) = Len(ks) /\ \A i \in 1 .. Len(ks) : r[i] = n + i - 1
  BY <1>0, <1>1 DEF Fresh
<1>5. Lists(r, Fresh(n, ks))
  BY <1>1, <1>2, FreshLists DEF Fresh, CountsFrom
<1>6. ToSet(r) = Fresh(n, ks)
  BY <1>5 DEF Lists
<1>7. \A x \in Fresh(n, ks) : x - n + 1 \in 1 .. Len(ks)
  BY <1>1 DEF Fresh
<1>8. k \in [Fresh(n, ks) -> TrackKeys]
  BY <1>0, <1>1, <1>6, <1>7
<1>. QED  BY <1>2, <1>5, <1>6, <1>8

\* Other rows, sorted by the key there is.
LEMMA RowsKeep ==
  ASSUME TableInv, NEW T, Lists(rows', T), keys' \in [T -> TrackKeys], sort' = sort,
         nextId' \in Nat, T \subseteq 0 .. nextId' - 1,
         visible' = Resorted(Table(rows', keys', sort'))
  PROVE  TableInv' /\ ToSet(rows') = T /\ Lists(visible', T) /\ Len(visible') = Len(rows')
<1>. DEFINE r == rows'  k == keys'  v == Resorted(Table(r, k, sort))
<1>1. (sort = <<>> \/ Sorts(sort)) /\ Lists(r, T) /\ k \in [T -> TrackKeys]
  BY DEF TableInv
<1>2. visible' = v /\ rows' = r
  OBVIOUS
<1>. HIDE DEF r, k
<1>0. Lists(v, T) /\ (sort = <<>> => v = r)
  BY <1>1, ResortDoes
<1>3. /\ Lists(visible', T)
      /\ sort = <<>> => visible' = rows'
  BY <1>0, <1>2
<1>4. Len(visible') = Len(rows')
  BY <1>3, ListsBijection
<1>5. ToSet(rows') = T
  BY DEF Lists
<1>6. ToSet(rows)' = T
  BY <1>5
<1>7. TableInv'
  BY <1>1, <1>3, <1>6 DEF TableInv
<1>. QED  BY <1>3, <1>4, <1>5, <1>7

\* The rows are those of a loaded playlist.
LEMMA LoadKeeps ==
  ASSUME TableInv, NEW ks \in Seq(TrackKeys),
         rows' = [i \in DOMAIN ks |-> nextId + i - 1],
         keys' = [id \in ToSet(rows') |-> ks[id - nextId + 1]],
         sort' = sort, nextId' = nextId + Len(ks),
         visible' = Resorted(Table(rows', keys', sort'))
  PROVE  TableInv' /\ ToSet(rows') = Fresh(nextId, ks) /\ Len(visible') = Len(ks)
<1>1. nextId \in Nat
  BY DEF TableInv
<1>2. /\ Lists(rows', Fresh(nextId, ks)) /\ Len(rows') = Len(ks)
      /\ keys' \in [Fresh(nextId, ks) -> TrackKeys]
  <2>. DEFINE r == rows'  k == keys'
  <2>1. AreFresh(r, k, nextId, ks)
    BY Zenon DEF AreFresh
  <2>. HIDE DEF r, k
  <2>2. /\ Lists(r, Fresh(nextId, ks)) /\ ToSet(r) = Fresh(nextId, ks) /\ Len(r) = Len(ks)
        /\ k \in [Fresh(nextId, ks) -> TrackKeys]
    BY <1>1, <2>1, FreshRows, Zenon
  <2>. QED  BY <2>2 DEF r, k
<1>3. nextId' \in Nat /\ Fresh(nextId, ks) \subseteq 0 .. nextId' - 1
  <2>1. Len(ks) \in Nat /\ nextId' = nextId + Len(ks)
    OBVIOUS
  <2>. QED  BY <1>1, <2>1 DEF Fresh
<1>. QED  BY <1>2, <1>3, RowsKeep, Zenon

LEMMA ReplaceKeeps ==
  ASSUME TableInv, NEW ks \in Seq(TrackKeys), Replace(ks)
  PROVE  TableInv' /\ ToSet(rows') = Fresh(nextId, ks) /\ Len(visible') = Len(ks)
<1>1. /\ rows' = [i \in DOMAIN ks |-> nextId + i - 1]
      /\ keys' = [id \in ToSet(rows') |-> ks[id - nextId + 1]]
      /\ sort' = sort /\ nextId' = nextId + Len(ks)
      /\ visible' = Resorted(Table(rows', keys', sort'))
  BY DEF Replace, Show, Table
<1>. QED  BY <1>1, LoadKeeps

\* Every operation of AppCore on the table.
Grown == /\ nextId' \in Nat /\ nextId <= nextId'
         /\ ToSet(visible') \subseteq ToSet(visible) \cup nextId .. nextId' - 1

LEMMA VisibleRows ==
  ASSUME TableInv
  PROVE  /\ ToSet(visible) = ToSet(rows) /\ nextId \in Nat
         /\ ToSet(visible) \subseteq 0 .. nextId - 1 /\ IsFiniteSet(ToSet(visible))
BY ListsBijection DEF TableInv, Lists

\* TableInv after a step, as a fact about the primed rows.
LEMMA VisibleRowsAfter ==
  ASSUME TableInv'
  PROVE  /\ ToSet(visible') = ToSet(rows') /\ nextId' \in Nat
         /\ ToSet(visible') \subseteq 0 .. nextId' - 1 /\ IsFiniteSet(ToSet(visible'))
<1>1. Lists(visible', ToSet(rows')) /\ nextId' \in Nat /\ ToSet(rows') \subseteq 0 .. nextId' - 1
  BY DEF TableInv
<1>. QED  BY <1>1, ListsBijection DEF Lists

LEMMA SameTable ==
  ASSUME TableInv, UNCHANGED tableVars
  PROVE  TableInv' /\ Grown
<1>1. UNCHANGED <<rows, visible, sort, keys, nextId, stale>>
  BY DEF tableVars
<1>2. TableInv'
  BY <1>1 DEF TableInv
<1>. QED  BY <1>1, <1>2 DEF TableInv, Grown

-----------------------------------------------------------------------------
(* The parts of the Shuffle pass                                           *)

\* History h, current c (None: no row) and upcoming u share out the rows V.
Parts(h, c, u, V) ==
  /\ Lists(h, ToSet(h)) /\ Lists(u, ToSet(u))
  /\ ToSet(h) \cap ToSet(u) = {} /\ c \notin ToSet(h) \cup ToSet(u)
  /\ V = ToSet(h) \cup ToSet(u) \cup ({c} \ {None})

\* Ids below n have been given to rows, those of tk have been handed out.
PassOf(h, c, u, tk, V, n) ==
  /\ Parts(h, c, u, V)
  /\ tk \cap ToSet(u) = {} /\ tk \subseteq 0 .. n - 1

PassInv ==
  shuffle => PassOf(history, passCurrent, upcoming, taken, ToSet(visible), nextId)

LEMMA PartsFrom ==
  ASSUME NEW H, NEW h, Lists(h, H), NEW U, NEW u, Lists(u, U), NEW c,
         H \cap U = {}, c \notin H \cup U, NEW V, V = H \cup U \cup ({c} \ {None})
  PROVE  Parts(h, c, u, V) /\ ToSet(h) = H /\ ToSet(u) = U
BY DEF Parts, Lists

LEMMA ListsAppend ==
  ASSUME NEW T, NEW v, Lists(v, T), NEW x, x \notin T
  PROVE  Lists(Append(v, x), T \cup {x}) /\ Lists(<<x>> \o v, T \cup {x})
<1>1. Lists(<<x>>, {x})
  BY ListsOne
<1>2. Lists(v \o <<x>>, T \cup {x}) /\ Lists(<<x>> \o v, {x} \cup T)
  BY <1>1, ListsConcat
<1>3. v \in Seq(T \cup {x})
  <2>1. v \in Seq(T) /\ Len(v) \in Nat /\ \A i \in 1 .. Len(v) : v[i] \in T
    BY ListsIndex DEF Lists
  <2>. QED  BY <2>1
<1>4. Append(v, x) = v \o <<x>>
  BY <1>3
<1>5. {x} \cup T = T \cup {x}
  OBVIOUS
<1>. QED  BY <1>2, <1>4, <1>5

Still(c, W) == IF c \in W THEN c ELSE None

NotPlayed(h, c, u, W) ==
  (ToSet(u) \cap W) \cup (W \ (ToSet(Only(h, W)) \cup {Still(c, W)} \cup (ToSet(u) \cap W)))

\* rebuild.
LEMMA RebuildParts ==
  ASSUME NEW n \in Nat, NEW m \in Nat, n <= m, NEW V, NEW W, IsFiniteSet(W),
         W \subseteq V \cup n .. m - 1, None \notin W,
         NEW h, NEW c, NEW u, NEW tk, PassOf(h, c, u, tk, V, n),
         NEW w \in SetToSeqs(NotPlayed(h, c, u, W))
  PROVE  PassOf(Only(h, W), Still(c, W), w, tk, W, m)
<1>. DEFINE H == ToSet(h) \cap W  g == Only(h, W)  d == Still(c, W)  U == NotPlayed(h, c, u, W)
<1>1. /\ Lists(h, ToSet(h)) /\ ToSet(h) \cap ToSet(u) = {} /\ c \notin ToSet(h) \cup ToSet(u)
      /\ V = ToSet(h) \cup ToSet(u) \cup ({c} \ {None})
      /\ tk \cap ToSet(u) = {} /\ tk \subseteq 0 .. n - 1
  BY DEF PassOf, Parts
<1>2. Lists(g, H) /\ ToSet(g) = H
  <2>1. Lists(g, H)
    BY <1>1, OnlyLists, Zenon
  <2>. HIDE DEF g, H
  <2>. QED  BY <2>1 DEF Lists
<1>. HIDE DEF g
<1>3. Lists(w, U)
  <2>1. U \subseteq W
    BY DEF NotPlayed
  <2>2. IsFiniteSet(U)
    BY <2>1, FS_Subset
  <2>. QED  BY <2>2, SeqsAreLists
<1>4. (d = c /\ c \in W) \/ (d = None /\ c \notin W)
  BY DEF Still
<1>5. U = (ToSet(u) \cap W) \cup (W \ (H \cup {d} \cup (ToSet(u) \cap W)))
  BY <1>2 DEF g, NotPlayed
<1>. HIDE DEF d, U
<1>6. H \cap U = {} /\ d \notin H \cup U /\ W = H \cup U \cup ({d} \ {None})
  BY <1>1, <1>4, <1>5
<1>. HIDE DEF H
<1>7. Parts(g, d, w, W) /\ ToSet(w) = U
  <2>1. H \cap U = {} /\ d \notin H \cup U
    BY <1>6
  <2>2. W = H \cup U \cup ({d} \ {None})
    BY <1>6
  <2>. QED  BY <1>2, <1>3, <2>1, <2>2, PartsFrom
<1>8. tk \cap U = {}
  <2>. SUFFICES ASSUME NEW x \in U PROVE x \notin tk
    OBVIOUS
  <2>1. CASE x \in ToSet(u)
    BY <1>1, <2>1
  <2>2. CASE x \notin ToSet(u)
    <3>1. x \in W /\ x \notin H /\ x # d
      BY <1>5, <2>2
    <3>2. x \notin V
      BY <1>1, <1>4, <2>2, <3>1 DEF H
    <3>3. x \in n .. m - 1
      BY <3>1, <3>2
    <3>4. x \notin 0 .. n - 1
      BY <3>3
    <3>. QED  BY <1>1, <3>4
  <2>. QED  BY <2>1, <2>2
<1>9. tk \subseteq 0 .. m - 1
  BY <1>1
<1>. QED  BY <1>7, <1>8, <1>9 DEF PassOf, g, d

\* The history when another track starts.
Past(h, c) == IF c = None THEN h ELSE Append(h, c)

\* started, with a track of upcoming.
LEMMA StartedParts ==
  ASSUME NEW h, NEW c, NEW u, NEW V, Parts(h, c, u, V), None \notin V, NEW id \in ToSet(u)
  PROVE  /\ Parts(Without(Past(h, c), id), id, Without(u, id), V)
         /\ ToSet(Without(u, id)) = ToSet(u) \ {id}
<1>. DEFINE H == ToSet(h) \cup ({c} \ {None})  U == ToSet(u) \ {id}
<1>1. /\ Lists(h, ToSet(h)) /\ Lists(u, ToSet(u))
      /\ ToSet(h) \cap ToSet(u) = {} /\ c \notin ToSet(h) \cup ToSet(u)
      /\ V = ToSet(h) \cup ToSet(u) \cup ({c} \ {None})
  BY DEF Parts
<1>2. Lists(Past(h, c), H)
  <2>1. CASE c = None
    <3>1. H = ToSet(h)
      BY <2>1
    <3>. QED  BY <1>1, <2>1, <3>1 DEF Past
  <2>2. CASE c # None
    <3>1. H = ToSet(h) \cup {c}
      BY <2>2
    <3>2. Lists(Append(h, c), ToSet(h) \cup {c})
      BY <1>1, ListsAppend
    <3>. QED  BY <2>2, <3>1, <3>2 DEF Past
  <2>. QED  BY <2>1, <2>2
<1>3. Lists(Without(Past(h, c), id), H \ {id}) /\ Lists(Without(u, id), U)
  BY <1>1, <1>2, WithoutLists
<1>4. /\ (H \ {id}) \cap U = {} /\ id \notin (H \ {id}) \cup U
      /\ V = (H \ {id}) \cup U \cup ({id} \ {None})
  BY <1>1
<1>. HIDE DEF H, U
<1>5. Parts(Without(Past(h, c), id), id, Without(u, id), V) /\ ToSet(Without(u, id)) = U
  BY <1>3, <1>4, PartsFrom
<1>. QED  BY <1>5 DEF U

\* upcoming when the last track of the history is current again.
Ahead(c, u) == IF c = None THEN u ELSE <<c>> \o u

\* back.
LEMMA BackParts ==
  ASSUME NEW h, NEW c, NEW u, NEW V, Parts(h, c, u, V), None \notin V, h # <<>>
  PROVE  /\ Parts(Front(h), Last(h), Ahead(c, u), V) /\ Last(h) \in V
         /\ ToSet(Ahead(c, u)) = ToSet(u) \cup ({c} \ {None})
<1>. DEFINE T == ToSet(h)  n == Len(h)  x == h[n]  U == ToSet(u) \cup ({c} \ {None})
<1>1. /\ Lists(h, T) /\ Lists(u, ToSet(u)) /\ T \cap ToSet(u) = {} /\ c \notin T \cup ToSet(u)
      /\ V = T \cup ToSet(u) \cup ({c} \ {None})
  BY DEF Parts
<1>2. n \in Nat /\ n # 0 /\ n - 1 \in Nat /\ h \in Seq(T) /\ n \in 1 .. n
  BY <1>1 DEF Lists
<1>3. Front(h) = SubSeq(h, 1, n - 1) /\ Last(h) = x
  BY DEF Front, Last
<1>4. Lists(Front(h), {h[i] : i \in 1 .. n - 1})
  <2>1. 1 \in Nat \ {0} /\ n - 1 <= Len(h) /\ 1 <= n - 1 + 1
    BY <1>2
  <2>. QED  BY <1>1, <1>2, <1>3, <2>1, ListsPart
<1>5. x \in T /\ {h[i] : i \in 1 .. n - 1} = T \ {x}
  <2>1. \A i \in 1 .. n : h[i] \in T
    BY <1>1, ListsIndex
  <2>2. \A y \in T : \E i \in 1 .. n : h[i] = y
    BY <1>1, ListsIndex
  <2>3. \A i, j \in 1 .. n : h[i] = h[j] => i = j
    BY <1>1, ListsIndex
  <2>4. 1 .. n = 1 .. (n - 1) \cup {n} /\ n \notin 1 .. n - 1
    BY <1>2
  <2>. HIDE DEF n, T
  <2>. QED  BY <2>1, <2>2, <2>3, <2>4
<1>6. Lists(Ahead(c, u), U)
  <2>1. CASE c = None
    <3>1. U = ToSet(u)
      BY <2>1
    <3>. QED  BY <1>1, <2>1, <3>1 DEF Ahead
  <2>2. CASE c # None
    <3>1. U = ToSet(u) \cup {c}
      BY <2>2
    <3>2. Lists(<<c>> \o u, ToSet(u) \cup {c})
      BY <1>1, ListsAppend
    <3>. QED  BY <2>2, <3>1, <3>2 DEF Ahead
  <2>. QED  BY <2>1, <2>2
<1>7. Lists(Front(h), T \ {x})
  BY <1>4, <1>5
<1>8. /\ (T \ {x}) \cap U = {} /\ x \notin (T \ {x}) \cup U
      /\ V = (T \ {x}) \cup U \cup ({x} \ {None})
  BY <1>1, <1>5
<1>. HIDE DEF T, U, x, n
<1>9. Parts(Front(h), x, Ahead(c, u), V) /\ ToSet(Ahead(c, u)) = U
  BY <1>6, <1>7, <1>8, PartsFrom
<1>. QED  BY <1>1, <1>3, <1>5, <1>9 DEF U

\* Lists of a finite set, once more as an operator on sets.
LEMMA SeqsOf ==
  ASSUME NEW T, IsFiniteSet(T), NEW v \in SetToSeqs(T)
  PROVE  Lists(v, T) /\ ToSet(v) = T /\ (v = <<>> <=> T = {})
         /\ (v # <<>> => Head(v) \in T)
<1>1. Lists(v, T)
  BY SeqsAreLists
<1>2. ToSet(v) = T /\ v \in Seq(T)
  BY <1>1 DEF Lists
<1>3. v = <<>> => T = {}
  BY <1>2 DEF ToSet
<1>4. T = {} => v = <<>>
  BY <1>1, ListsEmpty
<1>. QED  BY <1>1, <1>2, <1>3, <1>4

\* apply_playlist_effect.
LEMMA OrderChangedKeeps ==
  ASSUME TableInv, TableInv', Grown, PassInv, shuffle' = shuffle, OrderChanged
  PROVE  PassInv'
<1>. SUFFICES ASSUME shuffle
              PROVE  PassOf(history', passCurrent', upcoming', taken', ToSet(visible'), nextId')
  BY DEF PassInv
<1>1. PassOf(history, passCurrent, upcoming, taken, ToSet(visible), nextId)
  BY DEF PassInv
<1>2. /\ history' = Only(history, ToSet(visible'))
      /\ passCurrent' = Still(passCurrent, ToSet(visible'))
      /\ upcoming' \in SetToSeqs(NotPlayed(history, passCurrent, upcoming, ToSet(visible')))
      /\ taken' = taken
  <2>1. Rebuild(visible')
    BY DEF OrderChanged
  <2>2. history' = Only(history, ToSet(visible')) /\ taken' = taken
    BY <2>1 DEF Rebuild
  <2>3. passCurrent' = Still(passCurrent, ToSet(visible'))
    BY <2>1 DEF Rebuild, Still
  <2>4. LET kept == ToSet(upcoming) \cap ToSet(visible')
        IN  upcoming' \in SetToSeqs(kept \cup (ToSet(visible') \
                            (ToSet(history') \cup {passCurrent'} \cup kept)))
    BY <2>1, Zenon DEF Rebuild
  <2>. QED  BY <2>2, <2>3, <2>4, Zenon DEF NotPlayed
<1>3. /\ nextId \in Nat /\ nextId' \in Nat /\ nextId <= nextId'
      /\ ToSet(visible') \subseteq ToSet(visible) \cup nextId .. nextId' - 1
      /\ IsFiniteSet(ToSet(visible')) /\ None \notin ToSet(visible')
  BY VisibleRows, VisibleRowsAfter DEF Grown, None
<1>4. PassOf(Only(history, ToSet(visible')), Still(passCurrent, ToSet(visible')), upcoming',
             taken, ToSet(visible'), nextId')
  BY <1>1, <1>2, <1>3, RebuildParts
<1>. QED  BY <1>2, <1>4

\* A new pass over the rows there are after the step.
LEMMA NewPassKeeps ==
  ASSUME TableInv', NewPass(visible')
  PROVE  PassOf(history', passCurrent', upcoming', taken', ToSet(visible'), nextId')
<1>. DEFINE V == ToSet(visible')
<1>1. history' = <<>> /\ passCurrent' = None /\ upcoming' \in SetToSeqs(V) /\ taken' = {}
  BY DEF NewPass
<1>2. IsFiniteSet(V) /\ None \notin V
  BY VisibleRowsAfter DEF None
<1>. HIDE DEF V
<1>3. Lists(upcoming', V) /\ Lists(<<>>, {})
  BY <1>1, <1>2, SeqsOf, ListsEmpty
<1>4. {} \cap V = {} /\ None \notin {} \cup V /\ V = {} \cup V \cup ({None} \ {None})
  BY <1>2
<1>5. Parts(<<>>, None, upcoming', V)
  BY <1>3, <1>4, PartsFrom
<1>. QED  BY <1>1, <1>5 DEF PassOf, V

\* The pass is not touched and no row comes or goes.
LEMMA SamePass ==
  ASSUME PassInv, UNCHANGED passVars, ToSet(visible') = ToSet(visible), nextId' = nextId,
         shuffle' => shuffle
  PROVE  PassInv'
<1>1. UNCHANGED <<history, passCurrent, upcoming, taken>>
  BY DEF passVars
<1>. SUFFICES ASSUME shuffle'
              PROVE  PassOf(history', passCurrent', upcoming', taken', ToSet(visible'), nextId')
  BY DEF PassInv
<1>. QED  BY <1>1 DEF PassInv

LEMMA Grows ==
  ASSUME TableInv, TableInv', NEW W, ToSet(rows') \subseteq ToSet(rows) \cup W,
         nextId <= nextId', W \subseteq nextId .. nextId' - 1
  PROVE  Grown
BY VisibleRows, VisibleRowsAfter DEF Grown

\* The operations with order_changed, one by one.
LEMMA AddDoes ==
  ASSUME TableInv, PassInv, NEW k \in TrackKeys, Add(k), shuffle' = shuffle
  PROVE  TableInv' /\ PassInv' /\ Grown
<1>1. TableInv' /\ ToSet(rows') = ToSet(rows) \cup {nextId} /\ nextId' = nextId + 1
  BY AddKeeps
<1>2. Grown
  <2>1. nextId \in Nat
    BY VisibleRows
  <2>2. nextId <= nextId' /\ {nextId} \subseteq nextId .. nextId' - 1
    BY <1>1, <2>1
  <2>. QED  BY <1>1, <2>2, Grows
<1>3. OrderChanged
  BY DEF Add
<1>. QED  BY <1>1, <1>2, <1>3, OrderChangedKeeps

LEMMA RowsSubset ==
  ASSUME TableInv, TableInv', ToSet(rows') \subseteq ToSet(rows), nextId' = nextId
  PROVE  Grown
<1>1. nextId <= nextId'
  BY VisibleRows
<1>2. ToSet(rows') \subseteq ToSet(rows) \cup {} /\ {} \subseteq nextId .. nextId' - 1
  OBVIOUS
<1>. QED  BY <1>1, <1>2, Grows

LEMMA RemoveDoes ==
  ASSUME TableInv, PassInv, NEW id, Remove1(id), shuffle' = shuffle
  PROVE  TableInv' /\ PassInv' /\ Grown
<1>1. TableInv' /\ ToSet(rows') = ToSet(rows) \ {id} /\ nextId' = nextId
  BY RemoveKeeps
<1>2. Grown
  BY <1>1, RowsSubset
<1>3. OrderChanged
  BY DEF Remove1
<1>. QED  BY <1>1, <1>2, <1>3, OrderChangedKeeps

LEMMA ClearDoes ==
  ASSUME TableInv, PassInv, Clear, shuffle' = shuffle
  PROVE  TableInv' /\ PassInv' /\ Grown
<1>1. TableInv' /\ ToSet(rows') = {} /\ nextId' = nextId
  BY ClearKeeps
<1>2. Grown
  BY <1>1, RowsSubset
<1>3. CASE rows = <<>>
  <2>1. UNCHANGED passVars /\ UNCHANGED tableVars
    BY <1>3 DEF Clear
  <2>2. visible' = visible
    BY <2>1 DEF tableVars
  <2>. QED  BY <1>1, <1>2, <2>1, <2>2, SamePass
<1>4. CASE rows # <<>>
  <2>1. OrderChanged
    BY <1>4 DEF Clear
  <2>. QED  BY <1>1, <1>2, <2>1, OrderChangedKeeps
<1>. QED  BY <1>3, <1>4

LEMMA HeaderClickDoes ==
  ASSUME TableInv, PassInv, NEW c \in Columns, HeaderClick(c), shuffle' = shuffle
  PROVE  TableInv' /\ PassInv' /\ Grown
<1>1. TableInv' /\ rows' = rows /\ nextId' = nextId
  BY HeaderClickKeeps
<1>2. Grown
  BY <1>1, RowsSubset
<1>3. OrderChanged
  BY DEF HeaderClick
<1>. QED  BY <1>1, <1>2, <1>3, OrderChangedKeeps

LEMMA ReorderDoes ==
  ASSUME TableInv, PassInv, NEW S \in SUBSET ToSet(rows), NEW b, Reorder(S, b),
         shuffle' = shuffle
  PROVE  TableInv' /\ PassInv' /\ Grown
<1>1. TableInv' /\ ToSet(rows') = ToSet(rows) /\ nextId' = nextId
  BY ReorderKeeps
<1>2. Grown
  BY <1>1, RowsSubset
<1>3. OrderChanged
  BY DEF Reorder
<1>. QED  BY <1>1, <1>2, <1>3, OrderChangedKeeps

LEMMA UpdateTagsDoes ==
  ASSUME TableInv, PassInv, NEW id, NEW k \in TrackKeys, UpdateTags(id, k), shuffle' = shuffle
  PROVE  TableInv' /\ PassInv' /\ UNCHANGED <<visible, nextId>>
<1>1. TableInv' /\ UNCHANGED <<rows, visible, nextId>>
  BY UpdateTagsKeeps
<1>2. UNCHANGED passVars
  BY DEF UpdateTags
<1>. QED  BY <1>1, <1>2, SamePass

LEMMA ReplaceDoes ==
  ASSUME TableInv, PassInv, NEW ks \in Seq(TrackKeys), Replace(ks), shuffle' = shuffle
  PROVE  TableInv' /\ PassInv'
<1>1. TableInv'
  BY ReplaceKeeps
<1>2. CASE shuffle
  <2>1. NewPass(visible')
    BY <1>2 DEF Replace
  <2>. QED  BY <1>1, <2>1, NewPassKeeps DEF PassInv
<1>3. CASE ~shuffle
  <2>1. ~shuffle'
    BY <1>3, Zenon
  <2>. QED  BY <1>1, <2>1 DEF PassInv
<1>. QED  BY <1>1, <1>2, <1>3

-----------------------------------------------------------------------------
(* The moves in the pass                                                   *)

LEMMA PassNow ==
  ASSUME TableInv, PassInv, shuffle
  PROVE  /\ Parts(history, passCurrent, upcoming, ToSet(visible))
         /\ taken \cap ToSet(upcoming) = {} /\ taken \subseteq 0 .. nextId - 1
         /\ ToSet(visible) \subseteq 0 .. nextId - 1 /\ None \notin ToSet(visible)
         /\ IsFiniteSet(ToSet(visible)) /\ nextId \in Nat
BY VisibleRows DEF PassInv, PassOf, None

LEMMA StartedMoves ==
  ASSUME NEW h, NEW u, NEW id \in ToSet(u), NEW V, None \notin V,
         Parts(h, passCurrent, u, V), Started(h, u, id)
  PROVE  Parts(history', passCurrent', upcoming', V) /\ ToSet(upcoming') = ToSet(u) \ {id}
<1>1. passCurrent # id
  BY DEF Parts
<1>2. /\ history' = Without(Past(h, passCurrent), id) /\ upcoming' = Without(u, id)
      /\ passCurrent' = id
  BY <1>1 DEF Started, Past
<1>. QED  BY <1>2, StartedParts

\* shuffle_first and shuffle_started: a row of the table or none.
LEMMA TakeNextKeeps ==
  ASSUME TableInv, PassInv, shuffle, NEW id, TakeNext(id), UNCHANGED <<tableVars, shuffle>>
  PROVE  PassInv' /\ id \in ToSet(visible) \cup {None}
<1>. DEFINE V == ToSet(visible)
<1>0. visible' = visible /\ nextId' = nextId
  BY DEF tableVars
<1>1. /\ Parts(history, passCurrent, upcoming, V)
      /\ taken \cap ToSet(upcoming) = {} /\ taken \subseteq 0 .. nextId - 1
      /\ V \subseteq 0 .. nextId - 1 /\ None \notin V /\ IsFiniteSet(V)
  BY PassNow
<1>2. /\ Lists(history, ToSet(history)) /\ Lists(upcoming, ToSet(upcoming))
      /\ V = ToSet(history) \cup ToSet(upcoming) \cup ({passCurrent} \ {None})
      /\ passCurrent \notin ToSet(history) \cup ToSet(upcoming)
  BY <1>1 DEF Parts
<1>. SUFFICES /\ Parts(history', passCurrent', upcoming', V)
              /\ taken' \cap ToSet(upcoming') = {} /\ taken' \subseteq 0 .. nextId - 1
              /\ id \in V \cup {None}
  BY <1>0 DEF PassInv, PassOf
<1>. HIDE DEF V
<1>3. CASE upcoming # <<>>
  <2>1. /\ id = Head(upcoming) /\ Started(history, upcoming, id)
        /\ taken' = taken \cup {id}
    BY <1>3 DEF TakeNext
  <2>2. id \in ToSet(upcoming)
    BY <1>2, <1>3, <2>1 DEF Lists, ToSet
  <2>3. Parts(history', passCurrent', upcoming', V) /\ ToSet(upcoming') = ToSet(upcoming) \ {id}
    BY <1>1, <2>1, <2>2, StartedMoves
  <2>. QED  BY <1>1, <1>2, <2>1, <2>2, <2>3
<1>4. CASE upcoming = <<>> /\ repeat = "all"
  <2>1. PICK u \in SetToSeqs(V \ {passCurrent}) :
          /\ id = IF u = <<>> THEN None ELSE Head(u)
          /\ IF u = <<>> THEN history' = <<>> /\ UNCHANGED <<passCurrent, upcoming>>
                         ELSE Started(<<>>, u, id)
    BY <1>4 DEF TakeNext, V
  <2>2. taken' = {id} \ {None}
    BY <1>4 DEF TakeNext
  <2>3. /\ Lists(u, V \ {passCurrent}) /\ ToSet(u) = V \ {passCurrent}
        /\ (u = <<>> <=> V \ {passCurrent} = {})
        /\ (u # <<>> => Head(u) \in V \ {passCurrent})
    <3>1. IsFiniteSet(V \ {passCurrent})
      BY <1>1, FS_Subset
    <3>. QED  BY <3>1, SeqsOf
  <2>4. Lists(<<>>, {}) /\ ToSet(<<>>) = {}
    BY ListsEmpty DEF ToSet
  <2>5. ToSet(upcoming) = {}
    BY <1>4, <2>4
  <2>6. CASE u = <<>>
    <3>1. history' = <<>> /\ passCurrent' = passCurrent /\ upcoming' = <<>> /\ taken' = {}
          /\ id = None
      BY <1>4, <2>1, <2>2, <2>6
    <3>2. {passCurrent} \ {None} = V
      BY <1>1, <1>2, <2>3, <2>6
    <3>3. {} \cap {} = {} /\ passCurrent \notin {} \cup {} /\ V = {} \cup {} \cup ({passCurrent} \ {None})
      BY <3>2
    <3>4. Parts(<<>>, passCurrent, <<>>, V)
      BY <2>4, <3>3, PartsFrom
    <3>. QED  BY <3>1, <3>4
  <2>7. CASE u # <<>>
    <3>1. Started(<<>>, u, id) /\ id \in ToSet(u) /\ id \in V
      BY <2>1, <2>3, <2>7
    <3>2. /\ {} \cap (V \ {passCurrent}) = {} /\ passCurrent \notin {} \cup (V \ {passCurrent})
          /\ V = {} \cup (V \ {passCurrent}) \cup ({passCurrent} \ {None})
      BY <1>2
    <3>3. Parts(<<>>, passCurrent, u, V)
      BY <2>3, <2>4, <3>2, PartsFrom
    <3>4. Parts(history', passCurrent', upcoming', V) /\ ToSet(upcoming') = ToSet(u) \ {id}
      BY <1>1, <3>1, <3>3, StartedMoves
    <3>. QED  BY <1>1, <2>2, <3>1, <3>4
  <2>. QED  BY <2>6, <2>7
<1>5. CASE upcoming = <<>> /\ repeat # "all"
  <2>1. id = None /\ UNCHANGED <<history, passCurrent, upcoming, taken>>
    BY <1>5 DEF TakeNext, passVars
  <2>. QED  BY <1>1, <2>1
<1>. QED  BY <1>3, <1>4, <1>5

\* back.
LEMMA TakeBackKeeps ==
  ASSUME TableInv, PassInv, shuffle, NEW id, TakeBack(id), UNCHANGED <<tableVars, shuffle>>
  PROVE  PassInv' /\ id \in ToSet(visible) \cup {None}
<1>. DEFINE V == ToSet(visible)
<1>0. visible' = visible /\ nextId' = nextId
  BY DEF tableVars
<1>1. /\ Parts(history, passCurrent, upcoming, V)
      /\ taken \cap ToSet(upcoming) = {} /\ taken \subseteq 0 .. nextId - 1
      /\ V \subseteq 0 .. nextId - 1 /\ None \notin V
  BY PassNow
<1>. SUFFICES /\ Parts(history', passCurrent', upcoming', V)
              /\ taken' \cap ToSet(upcoming') = {} /\ taken' \subseteq 0 .. nextId - 1
              /\ id \in V \cup {None}
  BY <1>0 DEF PassInv, PassOf
<1>. HIDE DEF V
<1>2. CASE history = <<>>
  <2>1. id = None /\ UNCHANGED <<history, passCurrent, upcoming, taken>>
    BY <1>2 DEF TakeBack, passVars
  <2>. QED  BY <1>1, <2>1
<1>3. CASE history # <<>>
  <2>1. /\ id = Last(history) /\ history' = Front(history) /\ passCurrent' = id
        /\ upcoming' = Ahead(passCurrent, upcoming) /\ taken' = taken \ {passCurrent}
    BY <1>3 DEF TakeBack, Ahead
  <2>2. /\ Parts(Front(history), Last(history), Ahead(passCurrent, upcoming), V)
        /\ Last(history) \in V
        /\ ToSet(Ahead(passCurrent, upcoming)) = ToSet(upcoming) \cup ({passCurrent} \ {None})
    BY <1>1, <1>3, BackParts
  <2>. QED  BY <1>1, <2>1, <2>2
<1>. QED  BY <1>2, <1>3

\* Shuffle goes on or off.
LEMMA ToggleDoes ==
  ASSUME TableInv, PassInv, ToggleShuffle
  PROVE  TableInv' /\ PassInv' /\ UNCHANGED <<visible, nextId>>
<1>1. UNCHANGED tableVars /\ shuffle' = ~shuffle /\ (~shuffle => NewPass(visible))
  BY DEF ToggleShuffle
<1>2. TableInv' /\ visible' = visible /\ nextId' = nextId
  BY <1>1, SameTable DEF tableVars
<1>3. CASE shuffle
  <2>1. ~shuffle'
    BY <1>1, <1>3, Zenon
  <2>. QED  BY <1>2, <2>1 DEF PassInv
<1>4. CASE ~shuffle
  <2>1. NewPass(visible')
    BY <1>1, <1>2, <1>4
  <2>. QED  BY <1>2, <2>1, NewPassKeeps DEF PassInv
<1>. QED  BY <1>3, <1>4

LEMMA MovesDo ==
  ASSUME TableInv, PassInv, MovesInPass
  PROVE  TableInv' /\ PassInv'
<1>1. shuffle /\ UNCHANGED <<tableVars, shuffle>>
  BY DEF MovesInPass
<1>2. TableInv'
  BY <1>1, SameTable
<1>3. PICK id \in ToSet(visible) \cup {None} : TakeNext(id) \/ TakeBack(id)
  BY DEF MovesInPass
<1>. QED  BY <1>1, <1>2, <1>3, TakeNextKeeps, TakeBackKeeps

LEMMA StuttersDo ==
  ASSUME TableInv, PassInv, UNCHANGED <<tableVars, passVars, shuffle>>
  PROVE  TableInv' /\ PassInv'
<1>1. TableInv' /\ visible' = visible /\ nextId' = nextId
  BY SameTable DEF tableVars
<1>. QED  BY <1>1, SamePass

LEMMA EditsDo ==
  ASSUME TableInv, PassInv, EditsTable
  PROVE  TableInv' /\ PassInv'
<1>1. shuffle' = shuffle
  BY DEF EditsTable
<1>2. CASE \E k \in TrackKeys : Add(k)
  BY <1>1, <1>2, AddDoes
<1>3. CASE \E id \in ToSet(rows) : Remove1(id)
  BY <1>1, <1>3, RemoveDoes
<1>4. CASE Clear
  BY <1>1, <1>4, ClearDoes
<1>5. CASE \E c \in Columns : HeaderClick(c)
  BY <1>1, <1>5, HeaderClickDoes
<1>6. CASE \E S \in SUBSET ToSet(rows), b \in ToSet(rows) \cup {None} : Reorder(S, b)
  BY <1>1, <1>6, ReorderDoes
<1>7. CASE \E id \in ToSet(rows), k \in TrackKeys : UpdateTags(id, k)
  BY <1>1, <1>7, UpdateTagsDoes
<1>8. CASE \E ks \in Seq(TrackKeys) : Replace(ks)
  BY <1>1, <1>8, ReplaceDoes
<1>. QED  BY <1>2, <1>3, <1>4, <1>5, <1>6, <1>7, <1>8 DEF EditsTable

LEMMA PlaylistStep ==
  ASSUME TableInv, PassInv, [PlaylistNext]_playlistVars
  PROVE  TableInv' /\ PassInv'
<1>1. CASE EditsTable
  BY <1>1, EditsDo
<1>2. CASE MovesInPass
  BY <1>2, MovesDo
<1>3. CASE ToggleShuffle
  BY <1>3, ToggleDoes
<1>4. CASE CycleRepeat
  <2>1. UNCHANGED <<tableVars, passVars, shuffle>>
    BY <1>4 DEF CycleRepeat
  <2>. QED  BY <2>1, StuttersDo
<1>5. CASE UNCHANGED playlistVars
  <2>1. UNCHANGED <<tableVars, passVars, shuffle>>
    BY <1>5 DEF playlistVars
  <2>. QED  BY <2>1, StuttersDo
<1>. QED  BY <1>1, <1>2, <1>3, <1>4, <1>5 DEF PlaylistNext

LEMMA PlaylistStart == ASSUME PlaylistInit PROVE TableInv /\ PassInv
<1>1. /\ rows = <<>> /\ visible = <<>> /\ sort = <<>> /\ keys = <<>> /\ nextId = 0
      /\ shuffle = FALSE
  BY DEF PlaylistInit
<1>2. ToSet(<<>>) = {} /\ Lists(<<>>, {}) /\ <<>> \in [{} -> TrackKeys]
  BY ListsEmpty DEF ToSet
<1>3. Resorted(Table(<<>>, <<>>, <<>>)) = <<>>
  BY NoSortKey DEF Table
<1>4. TableInv
  BY <1>1, <1>2, <1>3 DEF TableInv
<1>5. PassInv
  BY <1>1 DEF PassInv
<1>. QED  BY <1>4, <1>5

\* Whatever is added, removed, sorted, dragged, retagged, loaded or played, for
\* any rows and any keys: the visible order holds every row once and is the
\* one sorted order of them unless tags have changed since, and while Shuffle
\* is on its pass shares the rows out.
THEOREM PlaylistInvariant == PlaylistSpec => [](TableInv /\ PassInv)
<1>1. PlaylistInit => TableInv /\ PassInv
  BY PlaylistStart
<1>2. TableInv /\ PassInv /\ [PlaylistNext]_playlistVars => (TableInv /\ PassInv)'
  BY PlaylistStep
<1>. QED  BY <1>1, <1>2, PTL DEF PlaylistSpec

LEMMA TableMatches == ASSUME TableInv PROVE ViewMatchesSource
<1>1. Lists(rows, ToSet(rows)) /\ Lists(visible, ToSet(rows))
  BY DEF TableInv
<1>2. Cardinality(ToSet(rows)) = Len(rows) /\ Cardinality(ToSet(rows)) = Len(visible)
  BY <1>1, ListsBijection
<1>3. ToSet(visible) = ToSet(rows)
  BY <1>1 DEF Lists
<1>4. (sort = <<>> => visible = rows) /\ (~stale => visible = Resorted(Table(rows, keys, sort)))
  BY DEF TableInv
<1>. QED  BY <1>2, <1>3, <1>4 DEF ViewMatchesSource

LEMMA PassDivides == ASSUME TableInv, PassInv PROVE PassIsPartition
<1>. SUFFICES ASSUME shuffle
              PROVE  LET now == IF passCurrent = None THEN <<>> ELSE <<passCurrent>>
                         pass == history \o now \o upcoming
                     IN /\ Len(pass) = Len(visible) /\ ToSet(pass) = ToSet(visible)
                        /\ taken \cap ToSet(upcoming) = {}
  BY DEF PassIsPartition
<1>. DEFINE c == IF passCurrent = None THEN <<>> ELSE <<passCurrent>>
            C == {passCurrent} \ {None}  V == ToSet(visible)
            H == ToSet(history)  U == ToSet(upcoming)  p == history \o c \o upcoming
<1>1. Parts(history, passCurrent, upcoming, V) /\ taken \cap U = {}
  BY PassNow
<1>2. Lists(c, C)
  BY ListsEmpty, ListsOne
<1>3. /\ Lists(history, H) /\ Lists(upcoming, U) /\ H \cap C = {} /\ (H \cup C) \cap U = {}
      /\ V = H \cup C \cup U
  BY <1>1 DEF Parts
<1>4. Lists(visible, V)
  BY DEF TableInv, Lists
<1>5. Lists(p, V)
  <2>. HIDE DEF c, C, V, H, U
  <2>1. Lists(history \o c, H \cup C)
    BY <1>2, <1>3, ListsConcat
  <2>. QED  BY <1>3, <2>1, ListsConcat
<1>6. Len(p) = Len(visible)
  <2>. HIDE DEF p, V
  <2>. QED  BY <1>4, <1>5, ListsBijection
<1>7. ToSet(p) = V
  BY <1>5 DEF Lists
<1>. QED  BY <1>1, <1>6, <1>7

\* PlaylistModel: the table and the source order hold the same rows once each,
\* whatever was inserted by binary search, dragged or sorted anew.
THEOREM TableAlwaysMatches == PlaylistSpec => []ViewMatchesSource
BY PlaylistInvariant, TableMatches, PTL

\* ShufflePass: history, current and upcoming share out the rows of the table,
\* and no row that was handed out comes a second time, also when rows come and
\* go in the middle of a pass.
THEOREM PassAlwaysDivides == PlaylistSpec => []PassIsPartition
BY PlaylistInvariant, PassDivides, PTL

-----------------------------------------------------------------------------
(* The playlist under the play queue                                       *)

\* What a step of the player may do to the playlist.
PlaylistEffect ==
  \/ UNCHANGED <<tableVars, passVars, shuffle>>
  \/ /\ shuffle' = shuffle
     /\ \/ \E k \in TrackKeys : Add(k)
        \/ \E id : Remove1(id)
        \/ Clear
        \/ \E c \in Columns : HeaderClick(c)
        \/ \E id : \E k \in TrackKeys : UpdateTags(id, k)
        \/ \E ks \in Seq(TrackKeys) : Replace(ks)
  \/ /\ shuffle /\ UNCHANGED <<tableVars, shuffle>>
     /\ \E id : TakeNext(id) \/ TakeBack(id)
  \/ ToggleShuffle

LEMMA EffectKeeps ==
  ASSUME TableInv, PassInv, PlaylistEffect
  PROVE  TableInv' /\ PassInv'
<1>1. CASE UNCHANGED <<tableVars, passVars, shuffle>>
  BY <1>1, StuttersDo
<1>2. CASE /\ shuffle' = shuffle
           /\ \/ \E k \in TrackKeys : Add(k)
              \/ \E id : Remove1(id)
              \/ Clear
              \/ \E c \in Columns : HeaderClick(c)
              \/ \E id : \E k \in TrackKeys : UpdateTags(id, k)
              \/ \E ks \in Seq(TrackKeys) : Replace(ks)
  BY <1>2, AddDoes, RemoveDoes, ClearDoes, HeaderClickDoes, UpdateTagsDoes, ReplaceDoes
<1>3. CASE /\ shuffle /\ UNCHANGED <<tableVars, shuffle>>
           /\ \E id : TakeNext(id) \/ TakeBack(id)
  BY <1>3, SameTable, TakeNextKeeps, TakeBackKeeps
<1>4. CASE ToggleShuffle
  BY <1>4, ToggleDoes
<1>. QED  BY <1>1, <1>2, <1>3, <1>4, Zenon DEF PlaylistEffect

\* Positions: IndexOf and AdvanceIndex give a row of the order or None.
Position == (Nat \ {0}) \cup {None}

LEMMA IndexIsPlace ==
  ASSUME NEW T, NEW v, Lists(v, T), NEW id
  PROVE  /\ DOMAIN v = 1 .. Len(v) /\ Len(v) \in Nat
         /\ IndexOf(v, id) \in DOMAIN v \cup {None} /\ IndexOf(v, id) \in Position
         /\ (IndexOf(v, id) \in DOMAIN v <=> id \in T)
         /\ id \in T => v[IndexOf(v, id)] = id
<1>1. DOMAIN v = 1 .. Len(v) /\ Len(v) \in Nat /\ ToSet(v) = T
  BY ListsIndex DEF Lists
<1>2. CASE id \in T
  <2>1. IndexOf(v, id) \in 1 .. Len(v) /\ v[IndexOf(v, id)] = id
    BY <1>2, PosInFacts
  <2>. QED  BY <1>1, <1>2, <2>1 DEF Position
<1>3. CASE id \notin T
  <2>1. IndexOf(v, id) = None
    BY <1>1, <1>3 DEF IndexOf
  <2>. QED  BY <1>1, <1>3, <2>1 DEF Position, None
<1>. QED  BY <1>2, <1>3

LEMMA AdvanceIsPlace ==
  ASSUME NEW i \in Position, NEW step \in {1, -1}, NEW n \in Nat, NEW rep
  PROVE  AdvanceIndex(i, step, n, rep) \in 1 .. n \cup {None}
BY DEF AdvanceIndex, Position, None

LEMMA NextSkip ==
  ASSUME TableInv, PassInv, current \in Position, NEW rep, WithNext(rep, SkipTo),
         UNCHANGED <<tableVars, shuffle>>
  PROVE  PlaylistEffect /\ \E i \in DOMAIN visible \cup {None} : SkipTo(i)
<1>1. Lists(visible, ToSet(rows)) /\ DOMAIN visible = 1 .. Len(visible) /\ Len(visible) \in Nat
  BY ListsIndex DEF TableInv
<1>2. CASE shuffle
  <2>1. PICK id \in ToSet(visible) \cup {None} : TakeNext(id) /\ SkipTo(IndexOf(visible, id))
    BY <1>2 DEF WithNext
  <2>. QED  BY <1>1, <1>2, <2>1, IndexIsPlace DEF PlaylistEffect
<1>3. CASE ~shuffle
  <2>1. SkipTo(AdvanceIndex(current, 1, Len(visible), rep)) /\ UNCHANGED passVars
    BY <1>3 DEF WithNext
  <2>2. AdvanceIndex(current, 1, Len(visible), rep) \in 1 .. Len(visible) \cup {None}
    BY <1>1, AdvanceIsPlace
  <2>. QED  BY <1>1, <2>1, <2>2 DEF PlaylistEffect
<1>. QED  BY <1>2, <1>3

LEMMA NextGo ==
  ASSUME TableInv, PassInv, current \in Position, NEW rep, WithNext(rep, GoTo),
         UNCHANGED <<tableVars, shuffle>>
  PROVE  PlaylistEffect /\ \E i \in DOMAIN visible \cup {None} : GoTo(i)
<1>1. Lists(visible, ToSet(rows)) /\ DOMAIN visible = 1 .. Len(visible) /\ Len(visible) \in Nat
  BY ListsIndex DEF TableInv
<1>2. CASE shuffle
  <2>1. PICK id \in ToSet(visible) \cup {None} : TakeNext(id) /\ GoTo(IndexOf(visible, id))
    BY <1>2 DEF WithNext
  <2>. QED  BY <1>1, <1>2, <2>1, IndexIsPlace DEF PlaylistEffect
<1>3. CASE ~shuffle
  <2>1. GoTo(AdvanceIndex(current, 1, Len(visible), rep)) /\ UNCHANGED passVars
    BY <1>3 DEF WithNext
  <2>2. AdvanceIndex(current, 1, Len(visible), rep) \in 1 .. Len(visible) \cup {None}
    BY <1>1, AdvanceIsPlace
  <2>. QED  BY <1>1, <2>1, <2>2 DEF PlaylistEffect
<1>. QED  BY <1>2, <1>3

LEMMA NextAuto ==
  ASSUME TableInv, PassInv, current \in Position, NEW rep, WithNext(rep, AutoAdvanceTo),
         UNCHANGED <<tableVars, shuffle>>
  PROVE  PlaylistEffect /\ \E i \in DOMAIN visible \cup {None} : AutoAdvanceTo(i)
<1>1. Lists(visible, ToSet(rows)) /\ DOMAIN visible = 1 .. Len(visible) /\ Len(visible) \in Nat
  BY ListsIndex DEF TableInv
<1>2. CASE shuffle
  <2>1. PICK id \in ToSet(visible) \cup {None} : TakeNext(id) /\ AutoAdvanceTo(IndexOf(visible, id))
    BY <1>2 DEF WithNext
  <2>. QED  BY <1>1, <1>2, <2>1, IndexIsPlace DEF PlaylistEffect
<1>3. CASE ~shuffle
  <2>1. AutoAdvanceTo(AdvanceIndex(current, 1, Len(visible), rep)) /\ UNCHANGED passVars
    BY <1>3 DEF WithNext
  <2>2. AdvanceIndex(current, 1, Len(visible), rep) \in 1 .. Len(visible) \cup {None}
    BY <1>1, AdvanceIsPlace
  <2>. QED  BY <1>1, <2>1, <2>2 DEF PlaylistEffect
<1>. QED  BY <1>2, <1>3

\* play_next and play_prev.
LEMMA PressNextDoes ==
  ASSUME TableInv, PassInv, current \in Position, PressNext
  PROVE  /\ PlaylistEffect /\ UNCHANGED visible
         /\ \E i \in DOMAIN visible \cup {None} : GoTo(i)
<1>1. UNCHANGED <<tableVars, shuffle>> /\ UNCHANGED visible
  BY DEF PressNext, tableVars
<1>2. CASE visible = <<>>
  BY <1>1, <1>2 DEF PressNext, PlaylistEffect, GoTo
<1>3. CASE visible # <<>>
  <2>1. WithNext(repeat, GoTo)
    BY <1>3 DEF PressNext
  <2>. QED  BY <1>1, <2>1, NextGo
<1>. QED  BY <1>2, <1>3

LEMMA PressPrevDoes ==
  ASSUME TableInv, PassInv, current \in Position, PressPrev
  PROVE  /\ PlaylistEffect /\ UNCHANGED visible
         /\ \E i \in DOMAIN visible \cup {None} : GoTo(i)
<1>1. UNCHANGED <<tableVars, shuffle>> /\ UNCHANGED visible
  BY DEF PressPrev, tableVars
<1>2. CASE visible = <<>>
  BY <1>1, <1>2 DEF PressPrev, PlaylistEffect, GoTo
<1>3. Lists(visible, ToSet(rows)) /\ DOMAIN visible = 1 .. Len(visible) /\ Len(visible) \in Nat
  BY ListsIndex DEF TableInv
<1>4. CASE visible # <<>> /\ shuffle
  <2>1. PICK id \in ToSet(visible) \cup {None} : TakeBack(id) /\ GoTo(IndexOf(visible, id))
    BY <1>4 DEF PressPrev
  <2>. QED  BY <1>1, <1>3, <1>4, <2>1, IndexIsPlace DEF PlaylistEffect
<1>5. CASE visible # <<>> /\ ~shuffle
  <2>1. GoTo(AdvanceIndex(current, -1, Len(visible), repeat)) /\ UNCHANGED passVars
    BY <1>5 DEF PressPrev
  <2>2. AdvanceIndex(current, -1, Len(visible), repeat) \in 1 .. Len(visible) \cup {None}
    BY <1>3, AdvanceIsPlace
  <2>. QED  BY <1>1, <1>3, <2>1, <2>2 DEF PlaylistEffect
<1>. QED  BY <1>2, <1>4, <1>5

\* poll_load_playlist: the rows are those of the playlist, one of them plays.
LEMMA LoadListDoes ==
  ASSUME TableInv, PassInv, NEW ks \in Seq(TrackKeys), LoadList(ks)
  PROVE  /\ TableInv' /\ PassInv' /\ current' = None
         /\ \/ \E i \in DOMAIN visible' : PlayTrack(i, visible', <<Stop>>)
            \/ Send(Stop) /\ pending' = None /\ UNCHANGED <<req, ended>>
<1>0. nextId \in Nat /\ current' = None /\ shuffle' = shuffle
  BY DEF TableInv, LoadList
<1>1. CASE shuffle /\ ks # <<>>
  <2>1. PICK first \in nextId .. nextId + Len(ks) - 1 :
          /\ rows' = [i \in DOMAIN ks |-> nextId + i - 1]
          /\ keys' = [id \in ToSet(rows') |-> ks[id - nextId + 1]]
          /\ visible' = Resorted(Table(rows', keys', sort))
          /\ nextId' = nextId + Len(ks)
          /\ sort' = sort
          /\ history' = <<>>
          /\ passCurrent' = first
          /\ upcoming' \in SetToSeqs(ToSet(rows') \ {first})
          /\ taken' = {first}
          /\ PlayTrack(IndexOf(visible', first), visible', <<Stop>>)
    BY <1>1 DEF LoadList
  <2>2. TableInv' /\ ToSet(rows') = Fresh(nextId, ks)
    <3>1. visible' = Resorted(Table(rows', keys', sort'))
      BY <2>1
    <3>. QED  BY <2>1, <3>1, LoadKeeps
  <2>3. first \in ToSet(rows')
    BY <2>1, <2>2 DEF Fresh
  <2>4. /\ ToSet(visible') = ToSet(rows') /\ nextId' \in Nat
        /\ ToSet(visible') \subseteq 0 .. nextId' - 1 /\ IsFiniteSet(ToSet(visible'))
    BY <2>2, VisibleRowsAfter
  <2>5. Lists(upcoming', ToSet(visible') \ {first}) /\ Lists(<<>>, {})
    <3>1. IsFiniteSet(ToSet(rows') \ {first})
      BY <2>4, FS_Subset
    <3>2. upcoming' \in SetToSeqs(ToSet(rows') \ {first})
      BY <2>1
    <3>3. Lists(upcoming', ToSet(rows') \ {first})
      BY <3>1, <3>2, SeqsOf
    <3>. QED  BY <2>4, <3>3, ListsEmpty
  <2>6. PassInv'
    <3>. DEFINE V == ToSet(visible')
    <3>1. /\ {} \cap (V \ {first}) = {} /\ first \notin {} \cup (V \ {first})
          /\ V = {} \cup (V \ {first}) \cup ({first} \ {None}) /\ first \in 0 .. nextId' - 1
      <4>1. first \in V /\ V \subseteq 0 .. nextId' - 1
        BY <2>3, <2>4
      <4>2. None \notin 0 .. nextId' - 1
        BY <2>4 DEF None
      <4>. HIDE DEF V
      <4>. QED  BY <4>1, <4>2
    <3>2. Lists(upcoming', V \ {first}) /\ Lists(<<>>, {})
      BY <2>5
    <3>. HIDE DEF V
    <3>3. Parts(<<>>, first, upcoming', V) /\ ToSet(upcoming') = V \ {first}
      BY <3>1, <3>2, PartsFrom
    <3>4. PassOf(history', passCurrent', upcoming', taken', V, nextId')
      BY <2>1, <3>1, <3>3 DEF PassOf
    <3>. QED  BY <3>4 DEF PassInv, V
  <2>7. IndexOf(visible', first) \in DOMAIN visible'
    <3>1. Lists(visible', ToSet(rows'))
      BY <2>2 DEF TableInv
    <3>. QED  BY <2>3, <3>1, IndexIsPlace
  <2>. QED  BY <1>0, <2>1, <2>2, <2>6, <2>7
<1>2. CASE ~(shuffle /\ ks # <<>>)
  <2>1. /\ Replace(ks)
        /\ IF ks = <<>> THEN Send(Stop) /\ pending' = None /\ UNCHANGED <<req, ended>>
                        ELSE PlayTrack(1, visible', <<Stop>>)
    BY <1>2 DEF LoadList
  <2>2. TableInv' /\ Len(visible') = Len(ks)
    BY <2>1, ReplaceKeeps
  <2>3. PassInv'
    BY <1>0, <2>1, ReplaceDoes
  <2>4. ks # <<>> => 1 \in DOMAIN visible'
    <3>1. Lists(visible', ToSet(rows'))
      BY <2>2 DEF TableInv
    <3>2. DOMAIN visible' = 1 .. Len(ks)
      BY <2>2, <3>1, ListsIndex
    <3>. QED  BY <3>2
  <2>. QED  BY <1>0, <2>1, <2>2, <2>3, <2>4
<1>. QED  BY <1>1, <1>2

\* The row of an accepted answer is told apart from every other: see RowAwaits.
LEMMA VisibleIds ==
  ASSUME TableInv, NEW i \in DOMAIN visible
  PROVE  visible[i] \in ToSet(rows) /\ visible[i] \in Nat
BY ListsIndex DEF TableInv

-----------------------------------------------------------------------------
(* Messages between the UI and the engine                                  *)

Types == {"Open", "Play", "Stop", "Opened", "Skipped", "OpenFailed", "Ended"}
Message == [type : Types, gen : Int, id : Int]
Asking == {"Open", "Opened"}
Answering == {"Open", "Opened", "Skipped", "OpenFailed"}

LEMMA MessageForms ==
  /\ Play \in Message /\ Stop \in Message
  /\ \A g, id \in Int : Open(g, id) \in Message /\ Open(g, id).gen = g
                          /\ Open(g, id).id = id /\ Open(g, id).type = "Open"
  /\ \A g, id \in Int, t \in Types :
       Event(t, g, id) \in Message /\ Event(t, g, id).gen = g
         /\ Event(t, g, id).id = id /\ Event(t, g, id).type = t
  /\ Play.gen = None /\ Stop.gen = None /\ Play.type = "Play" /\ Stop.type = "Stop"
<1>0. None \in Int
  BY DEF None
<1>. HIDE DEF None
<1>1. Play \in Message /\ Play.gen = None /\ Play.type = "Play"
  BY <1>0 DEF Message, Play, Types
<1>2. Stop \in Message /\ Stop.gen = None /\ Stop.type = "Stop"
  BY <1>0 DEF Message, Stop, Types
<1>3. \A g, id \in Int : Open(g, id) \in Message /\ Open(g, id).gen = g
                          /\ Open(g, id).id = id /\ Open(g, id).type = "Open"
  BY DEF Message, Open, Types
<1>4. \A g, id \in Int, t \in Types :
       Event(t, g, id) \in Message /\ Event(t, g, id).gen = g
         /\ Event(t, g, id).id = id /\ Event(t, g, id).type = t
  BY DEF Message, Event
<1>. QED  BY <1>1, <1>2, <1>3, <1>4

\* The elements of a sequence that grows at its end or loses its head.
LEMMA InAppend ==
  ASSUME NEW S, NEW s \in Seq(S), NEW x \in S
  PROVE  Append(s, x) \in Seq(S) /\ ToSet(Append(s, x)) = ToSet(s) \cup {x}
<1>1. /\ Append(s, x) \in Seq(S) /\ Len(Append(s, x)) = Len(s) + 1 /\ Len(s) \in Nat
      /\ \A i \in 1 .. Len(s) : Append(s, x)[i] = s[i]
      /\ Append(s, x)[Len(s) + 1] = x
  OBVIOUS
<1>2. 1 .. Len(s) + 1 = 1 .. Len(s) \cup {Len(s) + 1}
  BY <1>1
<1>3. DOMAIN s = 1 .. Len(s) /\ DOMAIN Append(s, x) = 1 .. Len(s) + 1
  BY <1>1
<1>. QED  BY <1>1, <1>2, <1>3 DEF ToSet

LEMMA InTail ==
  ASSUME NEW S, NEW s \in Seq(S), s # <<>>
  PROVE  /\ Tail(s) \in Seq(S) /\ Head(s) \in S
         /\ ToSet(s) = {Head(s)} \cup ToSet(Tail(s))
<1>1. /\ Tail(s) \in Seq(S) /\ Head(s) \in S /\ Head(s) = s[1] /\ Len(s) \in Nat /\ Len(s) # 0
      /\ Len(Tail(s)) = Len(s) - 1 /\ \A i \in 1 .. Len(s) - 1 : Tail(s)[i] = s[i + 1]
  OBVIOUS
<1>2. DOMAIN s = 1 .. Len(s) /\ DOMAIN Tail(s) = 1 .. Len(s) - 1
  BY <1>1
<1>3. \A i \in 1 .. Len(s) : i = 1 \/ (i - 1 \in 1 .. Len(s) - 1 /\ (i - 1) + 1 = i)
  BY <1>1
<1>4. \A i \in 1 .. Len(s) - 1 : i + 1 \in 1 .. Len(s)
  BY <1>1
<1>5. 1 \in 1 .. Len(s)
  BY <1>1
<1>6. ASSUME NEW y \in ToSet(s) PROVE y = Head(s) \/ y \in ToSet(Tail(s))
  <2>1. PICK i \in 1 .. Len(s) : s[i] = y
    BY <1>2 DEF ToSet
  <2>2. CASE i = 1
    BY <1>1, <2>1, <2>2
  <2>3. CASE i # 1
    <3>1. i - 1 \in 1 .. Len(s) - 1 /\ Tail(s)[i - 1] = y
      BY <1>1, <1>3, <2>1, <2>3
    <3>. QED  BY <1>2, <3>1 DEF ToSet
  <2>. QED  BY <2>2, <2>3
<1>7. ASSUME NEW y \in ToSet(Tail(s)) PROVE y \in ToSet(s)
  <2>1. PICK i \in 1 .. Len(s) - 1 : Tail(s)[i] = y
    BY <1>2 DEF ToSet
  <2>. QED  BY <1>1, <1>2, <1>4, <2>1 DEF ToSet
<1>8. Head(s) \in ToSet(s)
  BY <1>1, <1>2, <1>5 DEF ToSet
<1>. QED  BY <1>1, <1>6, <1>7, <1>8

LEMMA InConcat ==
  ASSUME NEW S, NEW s \in Seq(S), NEW t \in Seq(S)
  PROVE  s \o t \in Seq(S) /\ ToSet(s \o t) = ToSet(s) \cup ToSet(t)
<1>. DEFINE m == Len(s)  n == Len(t)  c == s \o t
<1>1. /\ m \in Nat /\ n \in Nat /\ c \in Seq(S) /\ Len(c) = m + n
      /\ \A i \in 1 .. m + n : c[i] = IF i <= m THEN s[i] ELSE t[i - m]
  OBVIOUS
<1>2. DOMAIN s = 1 .. m /\ DOMAIN t = 1 .. n /\ DOMAIN c = 1 .. m + n
  BY <1>1
<1>3. \A i \in 1 .. m : i \in 1 .. m + n /\ i <= m
  BY <1>1
<1>4. \A i \in 1 .. n : m + i \in 1 .. m + n /\ ~(m + i <= m) /\ m + i - m = i
  BY <1>1
<1>5. \A i \in 1 .. m + n : \/ i <= m /\ i \in 1 .. m
                            \/ ~(i <= m) /\ i - m \in 1 .. n
  BY <1>1
<1>. HIDE DEF m, n, c
<1>6. ASSUME NEW y \in ToSet(c) PROVE y \in ToSet(s) \cup ToSet(t)
  <2>1. PICK i \in 1 .. m + n : c[i] = y
    BY <1>2 DEF ToSet
  <2>. QED  BY <1>1, <1>2, <1>5, <2>1 DEF ToSet
<1>7. ASSUME NEW y \in ToSet(s) PROVE y \in ToSet(c)
  <2>1. PICK i \in 1 .. m : s[i] = y
    BY <1>2 DEF ToSet
  <2>. QED  BY <1>1, <1>2, <1>3, <2>1 DEF ToSet
<1>8. ASSUME NEW y \in ToSet(t) PROVE y \in ToSet(c)
  <2>1. PICK i \in 1 .. n : t[i] = y
    BY <1>2 DEF ToSet
  <2>2. c[m + i] = t[i] /\ m + i \in 1 .. m + n
    BY <1>1, <1>4
  <2>. QED  BY <1>2, <2>1, <2>2 DEF ToSet
<1>. QED  BY <1>1, <1>6, <1>7, <1>8 DEF c

-----------------------------------------------------------------------------
(* What is on its way between the UI and the engine                        *)

\* Nothing in F is of an Open after the last; when row p of v is awaited the
\* question or its answer is in F, and everything in F that asks or answers
\* with the last number is about that row.
NotAhead(F, r) == \A m \in F : m.gen <= r
OnItsWay(F, r) == \E m \in F : m.gen = r /\ m.type \in Answering
AllAbout(F, r, id) == \A m \in F : m.gen = r /\ m.type \in Asking => m.id = id

Awaits(F, r, p, v) == /\ NotAhead(F, r)
                      /\ p # None => OnItsWay(F, r)
                      /\ p \in DOMAIN v => AllAbout(F, r, v[p])

\* What is in G comes from F or asks nothing; an answer that was in F still
\* has one in G.
Onward(F, G, r) ==
  /\ \A m \in G : \/ m \in F
                  \/ m.gen <= r /\ m.type \notin Asking
                  \/ \E n \in F : m.gen = n.gen /\ m.id = n.id /\ n.type \in Asking
  /\ OnItsWay(F, r) => OnItsWay(G, r)

LEMMA Carried ==
  ASSUME NEW F, NEW r, NEW p, NEW v, Awaits(F, r, p, v), NEW G, Onward(F, G, r),
         NEW q, q # None => p # None,
         NEW w, q \in DOMAIN w => p \in DOMAIN v /\ w[q] = v[p]
  PROVE  Awaits(G, r, q, w)
<1>1. NotAhead(G, r)
  BY DEF Awaits, NotAhead, Onward
<1>2. q # None => OnItsWay(G, r)
  BY DEF Awaits, Onward
<1>3. ASSUME q \in DOMAIN w PROVE AllAbout(G, r, w[q])
  <2>1. AllAbout(F, r, w[q])
    BY <1>3 DEF Awaits
  <2>. QED  BY <2>1 DEF AllAbout, Onward
<1>. QED  BY <1>1, <1>2, <1>3 DEF Awaits

\* No row is awaited any more.
LEMMA NotAwaited ==
  ASSUME NEW F, NEW r, NotAhead(F, r), NEW G,
         \A m \in G : m \in F \/ m.gen <= r, NEW v, None \notin DOMAIN v
  PROVE  Awaits(G, r, None, v)
BY DEF Awaits, NotAhead

\* The track of row i of v is asked for.
LEMMA Asked ==
  ASSUME NEW F, NEW r \in Nat, NotAhead(F, r), F \subseteq Message, NEW v, NEW i \in DOMAIN v,
         v[i] \in Int, NEW G, G \subseteq F \cup {Open(r + 1, v[i]), Stop}, Open(r + 1, v[i]) \in G
  PROVE  Awaits(G, r + 1, i, v)
<1>. DEFINE o == Open(r + 1, v[i])
<1>1. o.gen = r + 1 /\ o.id = v[i] /\ o.type = "Open" /\ Stop.gen = -1
  BY MessageForms DEF None
<1>2. \A m \in F : m.gen \in Int /\ m.gen <= r
  BY DEF NotAhead, Message
<1>. HIDE DEF o
<1>3. \A m \in G : m = o \/ (m.gen \in Int /\ m.gen <= r)
  BY <1>1, <1>2 DEF o
<1>4. o \in G
  BY DEF o
<1>5. NotAhead(G, r + 1)
  BY <1>1, <1>3 DEF NotAhead
<1>6. OnItsWay(G, r + 1)
  BY <1>1, <1>4 DEF OnItsWay, Answering
<1>7. AllAbout(G, r + 1, v[i])
  BY <1>1, <1>3 DEF AllAbout
<1>. QED  BY <1>5, <1>6, <1>7 DEF Awaits

EngineState == [gen : Int, id : Int, state : {"none", "paused", "playing", "over"},
                failed : BOOLEAN]

QueueTypes ==
  /\ req \in Nat
  /\ cmds \in Seq(Message) /\ events \in Seq(Message) /\ batch \in Seq(Message)
  /\ opened \in Seq(Message) /\ applied \in Seq(Message)
  /\ current \in Position /\ pending \in Position
  /\ engine \in EngineState /\ engine.gen <= req

Flying == ToSet(cmds) \cup ToSet(events) \cup ToSet(batch) \cup ToSet(opened) \cup ToSet(applied)

QueueInv ==
  /\ QueueTypes
  /\ phase # "apply" => batch = <<>> /\ opened = <<>>
  /\ \A m \in ToSet(opened) : m.gen = req /\ m.type = "Opened"
  /\ Awaits(Flying, req, pending, visible)

LEMMA FlyingMessages == ASSUME QueueTypes PROVE Flying \subseteq Message
<1>1. \A s \in Seq(Message) : ToSet(s) \subseteq Message
  BY DEF ToSet
<1>. QED  BY <1>1 DEF QueueTypes, Flying

LEMMA NothingIn == ToSet(<<>>) = {}
BY DEF ToSet

-----------------------------------------------------------------------------
(* The engine                                                              *)

LEMMA EngineOpenKeeps ==
  ASSUME QueueInv, EngineOpen, UNCHANGED <<visible, queueVars, mirrorVars, tickVars>>
  PROVE  QueueInv'
<1>. DEFINE c == Head(cmds)
<1>1. /\ UNCHANGED <<visible, current, pending, req, opened, phase, batch, applied>>
      /\ cmds # <<>> /\ c.type = "Open" /\ cmds' = Tail(cmds)
  BY DEF EngineOpen, queueVars, mirrorVars, tickVars
<1>2. QueueTypes /\ NotAhead(Flying, req)
  BY DEF QueueInv, Awaits
<1>3. /\ cmds' \in Seq(Message) /\ c \in Message /\ ToSet(cmds) = {c} \cup ToSet(cmds')
  BY <1>1, <1>2, InTail DEF QueueTypes
<1>4. c.gen \in Int /\ c.id \in Int /\ c.gen <= req
  BY <1>2, <1>3 DEF Message, NotAhead, Flying
<1>5. PICK t \in {"Opened", "Skipped", "OpenFailed"} :
        /\ events' = Append(events, Event(t, c.gen, c.id))
        /\ \/ engine' = [gen |-> c.gen, id |-> c.id, state |-> "paused", failed |-> FALSE]
           \/ engine' = engine
           \/ engine' = [engine EXCEPT !.state = "none"]
  BY DEF EngineOpen
<1>. DEFINE e == Event(t, c.gen, c.id)
<1>6. e \in Message /\ e.gen = c.gen /\ e.id = c.id /\ e.type = t
  BY <1>4, <1>5, MessageForms DEF Types
<1>. HIDE DEF c, e
<1>7. events' \in Seq(Message) /\ ToSet(events') = ToSet(events) \cup {e}
  BY <1>2, <1>5, <1>6, InAppend DEF QueueTypes, e
<1>8. engine' \in EngineState /\ engine'.gen <= req
  <2>1. engine \in EngineState /\ engine.gen <= req
    BY <1>2 DEF QueueTypes
  <2>2. CASE engine' = [gen |-> c.gen, id |-> c.id, state |-> "paused", failed |-> FALSE]
    BY <1>4, <2>2 DEF EngineState
  <2>3. CASE engine' = engine
    BY <2>1, <2>3
  <2>4. CASE engine' = [engine EXCEPT !.state = "none"]
    BY <2>1, <2>4 DEF EngineState
  <2>. QED  BY <1>5, <2>2, <2>3, <2>4
<1>9. QueueTypes'
  BY <1>1, <1>2, <1>3, <1>7, <1>8 DEF QueueTypes
<1>. DEFINE F == Flying  G == Flying'
<1>10. F = {c} \cup ToSet(cmds') \cup ToSet(events) \cup ToSet(batch) \cup ToSet(opened) \cup ToSet(applied)
  BY <1>3 DEF Flying
<1>11. G = {e} \cup ToSet(cmds') \cup ToSet(events) \cup ToSet(batch) \cup ToSet(opened) \cup ToSet(applied)
  BY <1>1, <1>7 DEF Flying
<1>. HIDE DEF F, G
<1>12. Onward(F, G, req)
  <2>1. \A m \in G : m \in F \/ \E n \in F : m.gen = n.gen /\ m.id = n.id /\ n.type \in Asking
    BY <1>1, <1>6, <1>10, <1>11 DEF Asking
  <2>2. OnItsWay(F, req) => OnItsWay(G, req)
    BY <1>6, <1>10, <1>11 DEF OnItsWay, Answering
  <2>. QED  BY <2>1, <2>2 DEF Onward
<1>13. Awaits(G, req', pending', visible')
  <2>1. Awaits(F, req, pending, visible)
    BY DEF QueueInv, F
  <2>. QED  BY <1>1, <1>12, <2>1, Carried
<1>. QED  BY <1>1, <1>9, <1>13 DEF QueueInv, G

\* Play and Stop ask nothing.
LEMMA EngineObeysKeeps ==
  ASSUME QueueInv, EnginePlay \/ EngineStop,
         UNCHANGED <<visible, queueVars, mirrorVars, tickVars>>
  PROVE  QueueInv'
<1>. DEFINE c == Head(cmds)
<1>1. /\ UNCHANGED <<visible, current, pending, req, opened, phase, batch, applied, events>>
      /\ cmds # <<>> /\ c.type \in {"Play", "Stop"} /\ cmds' = Tail(cmds)
  BY DEF EnginePlay, EngineStop, queueVars, mirrorVars, tickVars
<1>2. QueueTypes
  BY DEF QueueInv
<1>3. /\ cmds' \in Seq(Message) /\ c \in Message /\ ToSet(cmds) = {c} \cup ToSet(cmds')
  BY <1>1, <1>2, InTail DEF QueueTypes
<1>4. engine' \in EngineState /\ engine'.gen <= req
  BY <1>2 DEF EnginePlay, EngineStop, QueueTypes, EngineState
<1>5. QueueTypes'
  BY <1>1, <1>2, <1>3, <1>4 DEF QueueTypes
<1>. DEFINE F == Flying  G == Flying'
<1>6. F = {c} \cup G
  BY <1>1, <1>3 DEF Flying
<1>. HIDE DEF F, G, c
<1>7. Onward(F, G, req)
  <2>1. OnItsWay(F, req) => OnItsWay(G, req)
    BY <1>1, <1>6 DEF OnItsWay, Answering
  <2>. QED  BY <1>6, <2>1 DEF Onward
<1>8. Awaits(G, req', pending', visible')
  <2>1. Awaits(F, req, pending, visible)
    BY DEF QueueInv, F
  <2>. QED  BY <1>1, <1>7, <2>1, Carried
<1>. QED  BY <1>1, <1>5, <1>8 DEF QueueInv, G

\* poll_session reports the end or the failure of the open track.
LEMMA EnginePollsKeeps ==
  ASSUME QueueInv, EngineEnds \/ EngineFails,
         UNCHANGED <<visible, queueVars, mirrorVars, tickVars>>
  PROVE  QueueInv'
<1>1. UNCHANGED <<visible, current, pending, req, opened, phase, batch, applied, cmds>>
  BY DEF EngineEnds, EngineFails, queueVars, mirrorVars, tickVars
<1>2. QueueTypes
  BY DEF QueueInv
<1>3. engine' \in EngineState /\ engine'.gen <= req
  BY <1>2 DEF EngineEnds, EngineFails, QueueTypes, EngineState
<1>4. \/ events' = events
      \/ \E t \in {"Ended", "Skipped"} : events' = Append(events, Event(t, engine.gen, engine.id))
  BY DEF EngineEnds, EngineFails
<1>5. engine.gen \in Int /\ engine.id \in Int /\ engine.gen <= req
  BY <1>2 DEF QueueTypes, EngineState
<1>6. /\ events' \in Seq(Message)
      /\ \E x \in {m \in Message : m.gen <= req /\ m.type \notin Asking} :
           ToSet(events') = ToSet(events) \/ ToSet(events') = ToSet(events) \cup {x}
  <2>1. CASE events' = events
    <3>1. Play \in Message /\ Play.gen <= req /\ Play.type \notin Asking
      BY <1>2, MessageForms DEF QueueTypes, None, Asking
    <3>. QED  BY <1>2, <2>1, <3>1 DEF QueueTypes
  <2>2. ASSUME NEW t \in {"Ended", "Skipped"}, events' = Append(events, Event(t, engine.gen, engine.id))
        PROVE  /\ events' \in Seq(Message)
               /\ \E x \in {m \in Message : m.gen <= req /\ m.type \notin Asking} :
                    ToSet(events') = ToSet(events) \/ ToSet(events') = ToSet(events) \cup {x}
    <3>. DEFINE e == Event(t, engine.gen, engine.id)
    <3>1. e \in Message /\ e.gen <= req /\ e.type \notin Asking
      BY <1>5, MessageForms DEF Types, Asking
    <3>. HIDE DEF e
    <3>2. events' \in Seq(Message) /\ ToSet(events') = ToSet(events) \cup {e}
      BY <1>2, <2>2, <3>1, InAppend DEF QueueTypes, e
    <3>. QED  BY <3>1, <3>2
  <2>. QED  BY <1>4, <2>1, <2>2
<1>7. QueueTypes'
  BY <1>1, <1>2, <1>3, <1>6 DEF QueueTypes
<1>8. Onward(Flying, Flying', req)
  <2>1. PICK x \in {m \in Message : m.gen <= req /\ m.type \notin Asking} :
           ToSet(events') = ToSet(events) \/ ToSet(events') = ToSet(events) \cup {x}
    BY <1>6
  <2>. DEFINE F == Flying  G == Flying'
  <2>2. G = F \/ G = F \cup {x}
    BY <1>1, <2>1 DEF Flying
  <2>. HIDE DEF F, G
  <2>. QED  BY <2>1, <2>2 DEF Onward, OnItsWay, F, G
<1>9. Awaits(Flying', req', pending', visible')
  BY <1>1, <1>8, Carried DEF QueueInv
<1>. QED  BY <1>1, <1>7, <1>9 DEF QueueInv

-----------------------------------------------------------------------------
(* The tick                                                                *)

LEMMA TickBeginsKeeps ==
  ASSUME QueueInv, TickBegins
  PROVE  QueueInv'
<1>1. /\ phase = "idle" /\ phase' = "apply" /\ batch' = events /\ events' = <<>>
      /\ UNCHANGED <<playlistVars, queueVars, mirrorVars, applied, cmds, engine>>
  BY DEF TickBegins
<1>2. UNCHANGED <<visible, current, pending, req, opened, applied, cmds, engine>>
  BY <1>1 DEF playlistVars, tableVars, queueVars, mirrorVars
<1>3. QueueTypes /\ batch = <<>> /\ Awaits(Flying, req, pending, visible)
  BY <1>1 DEF QueueInv
<1>4. QueueTypes'
  BY <1>1, <1>2, <1>3 DEF QueueTypes
<1>5. Flying' = Flying
  BY <1>1, <1>2, <1>3, NothingIn DEF Flying
<1>6. Awaits(Flying', req', pending', visible')
  BY <1>2, <1>3, <1>5
<1>. QED  BY <1>1, <1>2, <1>4, <1>6 DEF QueueInv

\* UiAudioState::apply.
LEMMA ApplyEventKeeps ==
  ASSUME QueueInv, ApplyEvent
  PROVE  QueueInv'
<1>. DEFINE e == Head(batch)
<1>1. /\ phase = "apply" /\ phase' = phase /\ batch # <<>> /\ batch' = Tail(batch)
      /\ UNCHANGED <<playlistVars, queueVars, req, cmds, events, engine>>
  BY DEF ApplyEvent
<1>2. UNCHANGED <<visible, current, pending, req, cmds, events, engine>>
  BY <1>1 DEF playlistVars, tableVars, queueVars
<1>3. \/ e.type = "Opened" /\ Answers(e) /\ opened' = <<e>> /\ applied' = applied
      \/ /\ e.type \in {"Skipped", "OpenFailed"} /\ Answers(e)
         /\ applied' = Append(applied, e) /\ opened' = opened
      \/ /\ e.type = "Ended" \/ ~Answers(e)
         /\ applied' = applied /\ opened' = opened
  BY DEF ApplyEvent
<1>4. QueueTypes /\ Awaits(Flying, req, pending, visible) /\ NotAhead(Flying, req)
  BY DEF QueueInv, Awaits
<1>5. batch' \in Seq(Message) /\ e \in Message /\ ToSet(batch) = {e} \cup ToSet(batch')
  BY <1>1, <1>4, InTail DEF QueueTypes
<1>6. e.gen \in Int /\ e.gen <= req /\ req \in Nat
  BY <1>4, <1>5 DEF Message, NotAhead, Flying, QueueTypes
<1>. HIDE DEF e
<1>7. \A m \in ToSet(opened) : m.gen = req /\ m.type = "Opened"
  BY DEF QueueInv
<1>. DEFINE F == Flying  G == Flying'  R == ToSet(cmds) \cup ToSet(events) \cup ToSet(batch')
<1>8. F = R \cup {e} \cup ToSet(opened) \cup ToSet(applied)
  BY <1>5 DEF Flying
<1>9. G = R \cup ToSet(opened') \cup ToSet(applied')
  BY <1>2 DEF Flying
<1>. HIDE DEF F, G, R
<1>10. /\ opened' \in Seq(Message) /\ applied' \in Seq(Message)
       /\ \A m \in ToSet(opened') : m.gen = req /\ m.type = "Opened"
       /\ Onward(F, G, req)
  <2>1. CASE e.type = "Opened" /\ Answers(e) /\ opened' = <<e>> /\ applied' = applied
    <3>1. e.gen = req
      BY <1>6, <2>1 DEF Answers
    <3>2. ToSet(opened') = {e} /\ opened' \in Seq(Message)
      BY <1>5, <2>1 DEF ToSet
    <3>3. G \subseteq F /\ e \in G
      BY <1>8, <1>9, <2>1, <3>2
    <3>4. Onward(F, G, req)
      BY <2>1, <3>1, <3>3 DEF Onward, OnItsWay, Answering
    <3>. QED  BY <1>4, <2>1, <3>1, <3>2, <3>4 DEF QueueTypes
  <2>2. CASE /\ e.type \in {"Skipped", "OpenFailed"} /\ Answers(e)
             /\ applied' = Append(applied, e) /\ opened' = opened
    <3>1. applied' \in Seq(Message) /\ ToSet(applied') = ToSet(applied) \cup {e}
      BY <1>4, <1>5, <2>2, InAppend DEF QueueTypes
    <3>2. G = F
      BY <1>8, <1>9, <2>2, <3>1
    <3>3. Onward(F, G, req)
      BY <3>2 DEF Onward
    <3>. QED  BY <1>4, <1>7, <2>2, <3>1, <3>3 DEF QueueTypes
  <2>3. CASE /\ e.type = "Ended" \/ ~Answers(e)
             /\ applied' = applied /\ opened' = opened
    <3>1. F = G \cup {e}
      BY <1>8, <1>9, <2>3
    <3>2. ~(e.gen = req /\ e.type \in Answering)
      BY <1>6, <2>3 DEF Answers, Answering
    <3>3. Onward(F, G, req)
      BY <3>1, <3>2 DEF Onward, OnItsWay
    <3>. QED  BY <1>4, <1>7, <2>3, <3>3 DEF QueueTypes
  <2>. QED  BY <1>3, <2>1, <2>2, <2>3
<1>11. QueueTypes'
  BY <1>2, <1>4, <1>5, <1>10 DEF QueueTypes
<1>12. Awaits(G, req', pending', visible')
  <2>1. Awaits(F, req, pending, visible)
    BY <1>4 DEF F
  <2>. QED  BY <1>2, <1>10, <2>1, Carried
<1>. QED  BY <1>1, <1>2, <1>10, <1>11, <1>12 DEF QueueInv, G

\* drain_engine_events, take_opened.
LEMMA TakeOpenedKeeps ==
  ASSUME TableInv, PassInv, QueueInv, TakeOpened
  PROVE  TableInv' /\ PassInv' /\ QueueInv'
<1>1. /\ phase = "apply" /\ phase' = "dispatch" /\ batch = <<>> /\ batch' = <<>> /\ opened' = <<>>
      /\ pending' = IF opened = <<>> THEN pending ELSE None
      /\ UNCHANGED <<applied, req, events, engine>>
  BY DEF TakeOpened
<1>2. \/ UNCHANGED <<playlistVars, current, cmds>>
      \/ /\ opened # <<>> /\ pending \in DOMAIN visible /\ current' = pending /\ Send(Play)
         /\ shuffle' = shuffle
         /\ \E k \in TrackKeys : UpdateTags(visible[pending], k)
  BY DEF TakeOpened
<1>3. QueueTypes /\ Awaits(Flying, req, pending, visible) /\ NotAhead(Flying, req)
  BY DEF QueueInv, Awaits
<1>4. TableInv' /\ PassInv' /\ visible' = visible
  <2>1. CASE UNCHANGED <<playlistVars, current, cmds>>
    <3>1. UNCHANGED <<tableVars, passVars, shuffle>> /\ visible' = visible
      BY <2>1 DEF playlistVars, tableVars
    <3>. QED  BY <3>1, StuttersDo
  <2>2. CASE shuffle' = shuffle /\ \E k \in TrackKeys : UpdateTags(visible[pending], k)
    BY <2>2, UpdateTagsDoes
  <2>. QED  BY <1>2, <2>1, <2>2
<1>5. /\ cmds' \in Seq(Message)
      /\ ToSet(cmds') = ToSet(cmds) \/ ToSet(cmds') = ToSet(cmds) \cup {Play}
      /\ current' \in Position /\ pending' \in Position
  <2>1. Play \in Message
    BY MessageForms
  <2>2. cmds' = cmds \/ cmds' = Append(cmds, Play)
    BY <1>2 DEF Send
  <2>3. cmds \in Seq(Message) /\ current \in Position /\ pending \in Position /\ None \in Position
    BY <1>3 DEF QueueTypes, Position
  <2>4. Append(cmds, Play) \in Seq(Message) /\ ToSet(Append(cmds, Play)) = ToSet(cmds) \cup {Play}
    BY <2>1, <2>3, InAppend
  <2>5. current' = current \/ current' = pending
    BY <1>2
  <2>. QED  BY <1>1, <2>2, <2>3, <2>4, <2>5
<1>6. QueueTypes'
  <2>1. <<>> \in Seq(Message)
    OBVIOUS
  <2>. QED  BY <1>1, <1>3, <1>5, <2>1 DEF QueueTypes
<1>. DEFINE F == Flying  G == Flying'
<1>7. Play.gen <= req /\ Play.type \notin Asking
  BY <1>3, MessageForms DEF QueueTypes, None, Asking
<1>8. F = ToSet(cmds) \cup ToSet(events) \cup ToSet(opened) \cup ToSet(applied)
  BY <1>1, NothingIn DEF Flying
<1>9. G = ToSet(cmds') \cup ToSet(events) \cup ToSet(applied)
  BY <1>1, NothingIn DEF Flying
<1>. HIDE DEF F, G
<1>10. Awaits(G, req', pending', visible')
  <2>1. CASE opened = <<>>
    <3>1. G = F /\ pending' = pending
      BY <1>1, <1>2, <1>8, <1>9, <2>1, NothingIn DEF playlistVars
    <3>. QED  BY <1>1, <1>3, <1>4, <3>1 DEF F
  <2>2. CASE opened # <<>>
    <3>1. pending' = None /\ req' = req
      BY <1>1, <2>2
    <3>2. None \notin DOMAIN visible'
      <4>1. DOMAIN visible = 1 .. Len(visible)
        BY ListsIndex DEF TableInv
      <4>. QED  BY <1>4, <4>1 DEF None
    <3>3. \A m \in G : m \in F \/ m.gen <= req
      BY <1>5, <1>7, <1>8, <1>9
    <3>4. NotAhead(F, req)
      BY <1>3 DEF F
    <3>. QED  BY <3>1, <3>2, <3>3, <3>4, NotAwaited
  <2>. QED  BY <2>1, <2>2
<1>11. \A m \in ToSet(opened') : m.gen = req' /\ m.type = "Opened"
  BY <1>1, NothingIn
<1>. QED  BY <1>1, <1>4, <1>6, <1>10, <1>11 DEF QueueInv, G

-----------------------------------------------------------------------------
(* The play queue                                                          *)

\* A Stop or a Play is sent, or nothing.
Sent(c) == cmds' = cmds \/ cmds' = Append(cmds, c)

LEMMA SentKeeps ==
  ASSUME QueueTypes, NEW c \in {Play, Stop}, Sent(c)
  PROVE  /\ cmds' \in Seq(Message) /\ c.gen <= req /\ c.type \notin Asking
         /\ ToSet(cmds') = ToSet(cmds) \/ ToSet(cmds') = ToSet(cmds) \cup {c}
<1>1. c \in Message /\ c.gen = -1 /\ c.type \notin Asking
  BY MessageForms DEF None, Asking
<1>2. cmds \in Seq(Message) /\ req \in Nat
  BY DEF QueueTypes
<1>3. Append(cmds, c) \in Seq(Message) /\ ToSet(Append(cmds, c)) = ToSet(cmds) \cup {c}
  BY <1>1, <1>2, InAppend
<1>4. CASE cmds' = cmds
  BY <1>1, <1>2, <1>4
<1>5. CASE cmds' = Append(cmds, c)
  <2>. DEFINE a == Append(cmds, c)
  <2>. HIDE DEF a
  <2>1. cmds' = a /\ a \in Seq(Message) /\ ToSet(a) = ToSet(cmds) \cup {c}
    BY <1>3, <1>5 DEF a
  <2>. QED  BY <1>1, <1>2, <2>1
<1>. QED  BY <1>4, <1>5 DEF Sent

\* What the UI leaves alone, and when it acts on the queue.
UINow == /\ phase # "apply"
         /\ UNCHANGED <<opened, batch, events, engine>>

\* play_track of a row that is there.
LEMMA PlayTrackKeeps ==
  ASSUME QueueInv, UINow, TableInv',
         NEW i \in DOMAIN visible', NEW sent \in {<<>>, <<Stop>>}, PlayTrack(i, visible', sent),
         applied' \in Seq(Message), ToSet(applied') \subseteq ToSet(applied), current' \in Position
  PROVE  QueueInv'
<1>1. /\ batch = <<>> /\ opened = <<>> /\ batch' = <<>> /\ opened' = <<>>
      /\ events' = events /\ engine' = engine
      /\ QueueTypes /\ NotAhead(Flying, req)
  BY DEF QueueInv, Awaits, UINow
<1>. DEFINE o == Open(req + 1, visible'[i])
<1>2. req' = req + 1 /\ pending' = i /\ cmds' = cmds \o sent \o <<o>>
  BY DEF PlayTrack
<1>3. Lists(visible', ToSet(rows')) /\ ToSet(rows') \subseteq 0 .. nextId' - 1 /\ nextId' \in Nat
  BY DEF TableInv
<1>4. DOMAIN visible' = 1 .. Len(visible') /\ Len(visible') \in Nat /\ visible'[i] \in ToSet(rows')
  BY <1>3, ListsIndex
<1>5. i \in Position /\ visible'[i] \in Int /\ req \in Nat
  BY <1>1, <1>3, <1>4 DEF Position, QueueTypes
<1>6. o \in Message
  BY <1>5, MessageForms
<1>. HIDE DEF o
<1>7. cmds' \in Seq(Message) /\ o \in ToSet(cmds') /\ ToSet(cmds') \subseteq ToSet(cmds) \cup {o, Stop}
  <2>1. Stop \in Message /\ cmds \in Seq(Message)
    BY <1>1, MessageForms DEF QueueTypes
  <2>2. sent \in Seq(Message) /\ ToSet(sent) \subseteq {Stop}
    <3>1. <<>> \in Seq(Message) /\ ToSet(<<>>) = {}
      BY NothingIn
    <3>2. <<Stop>> \in Seq(Message) /\ ToSet(<<Stop>>) = {Stop}
      BY <2>1 DEF ToSet
    <3>3. sent = <<>> \/ sent = <<Stop>>
      OBVIOUS
    <3>. QED  BY <3>1, <3>2, <3>3, Zenon
  <2>3. <<o>> \in Seq(Message) /\ ToSet(<<o>>) = {o}
    BY <1>6 DEF ToSet
  <2>. DEFINE s == cmds \o sent  one == <<o>>
  <2>4. s \in Seq(Message) /\ ToSet(s) = ToSet(cmds) \cup ToSet(sent)
    <3>. HIDE DEF Message
    <3>. QED  BY <2>1, <2>2, InConcat
  <2>5. cmds' = s \o one /\ one \in Seq(Message) /\ ToSet(one) = {o}
    BY <1>2, <2>3
  <2>. HIDE DEF s, one
  <2>6. s \o one \in Seq(Message) /\ ToSet(s \o one) = ToSet(s) \cup ToSet(one)
    BY <2>4, <2>5, InConcat
  <2>. QED  BY <2>2, <2>4, <2>5, <2>6
<1>8. QueueTypes'
  <2>1. req' \in Nat /\ engine.gen <= req + 1
    BY <1>1, <1>2, <1>5 DEF QueueTypes, EngineState
  <2>. QED  BY <1>1, <1>2, <1>5, <1>7, <2>1 DEF QueueTypes
<1>9. Flying' \subseteq Flying \cup {o, Stop} /\ o \in Flying' /\ Flying \subseteq Message
  BY <1>1, <1>7, FlyingMessages, NothingIn DEF Flying
<1>10. Awaits(Flying', req', pending', visible')
  <2>. DEFINE F == Flying  G == Flying'  v == visible'
  <2>1. /\ NotAhead(F, req) /\ F \subseteq Message /\ v[i] \in Int /\ i \in DOMAIN v
        /\ G \subseteq F \cup {Open(req + 1, v[i]), Stop} /\ Open(req + 1, v[i]) \in G
    BY <1>1, <1>5, <1>9 DEF o
  <2>. HIDE DEF F, G, v
  <2>2. Awaits(G, req + 1, i, v)
    BY <1>5, <2>1, Asked
  <2>. QED  BY <1>2, <2>2 DEF G, v
<1>11. \A m \in ToSet(opened') : m.gen = req' /\ m.type = "Opened"
  BY <1>1, NothingIn
<1>. QED  BY <1>1, <1>8, <1>10, <1>11 DEF QueueInv

\* No opening is awaited any more: Stop.
LEMMA StopKeeps ==
  ASSUME QueueInv, UINow, TableInv', Sent(Stop), pending' = None, req' = req,
         applied' \in Seq(Message), ToSet(applied') \subseteq ToSet(applied), current' \in Position
  PROVE  QueueInv'
<1>1. /\ batch = <<>> /\ opened = <<>> /\ batch' = <<>> /\ opened' = <<>>
      /\ events' = events /\ engine' = engine
      /\ QueueTypes /\ NotAhead(Flying, req)
  BY DEF QueueInv, Awaits, UINow
<1>2. /\ cmds' \in Seq(Message) /\ Stop.gen <= req
      /\ ToSet(cmds') = ToSet(cmds) \/ ToSet(cmds') = ToSet(cmds) \cup {Stop}
  BY <1>1, SentKeeps
<1>3. QueueTypes'
  BY <1>1, <1>2 DEF QueueTypes, Position
<1>4. \A m \in Flying' : m \in Flying \/ m.gen <= req
  BY <1>1, <1>2, NothingIn DEF Flying
<1>5. None \notin DOMAIN visible'
  <2>1. Lists(visible', ToSet(rows'))
    BY DEF TableInv
  <2>2. DOMAIN visible' = 1 .. Len(visible')
    BY <2>1, ListsIndex
  <2>. QED  BY <2>2 DEF None
<1>6. Awaits(Flying', req, None, visible')
  BY <1>1, <1>4, <1>5, NotAwaited
<1>7. \A m \in ToSet(opened') : m.gen = req' /\ m.type = "Opened"
  BY <1>1, NothingIn
<1>. QED  BY <1>1, <1>3, <1>6, <1>7 DEF QueueInv

\* The awaited row is still awaited, wherever it is now, or is gone.
LEMMA MovedKeeps ==
  ASSUME QueueInv, UINow, NEW c \in {Play, Stop}, Sent(c), req' = req,
         applied' = applied, current' \in Position, pending' \in Position,
         pending' # None => pending # None,
         pending' \in DOMAIN visible' => /\ pending \in DOMAIN visible
                                         /\ visible'[pending'] = visible[pending]
  PROVE  QueueInv'
<1>1. /\ batch = <<>> /\ opened = <<>> /\ batch' = <<>> /\ opened' = <<>>
      /\ events' = events /\ engine' = engine
      /\ QueueTypes /\ Awaits(Flying, req, pending, visible)
  BY DEF QueueInv, UINow
<1>2. /\ cmds' \in Seq(Message) /\ c.gen <= req /\ c.type \notin Asking
      /\ ToSet(cmds') = ToSet(cmds) \/ ToSet(cmds') = ToSet(cmds) \cup {c}
  BY <1>1, SentKeeps
<1>3. QueueTypes'
  BY <1>1, <1>2 DEF QueueTypes
<1>4. Onward(Flying, Flying', req)
  <2>. DEFINE F == Flying  G == Flying'
  <2>1. G = F \/ G = F \cup {c}
    BY <1>1, <1>2, NothingIn DEF Flying
  <2>. HIDE DEF F, G
  <2>. QED  BY <1>2, <2>1 DEF Onward, OnItsWay, F, G
<1>5. Awaits(Flying', req, pending', visible')
  BY <1>1, <1>4, Carried
<1>6. \A m \in ToSet(opened') : m.gen = req' /\ m.type = "Opened"
  BY <1>1, NothingIn
<1>. QED  BY <1>1, <1>3, <1>5, <1>6 DEF QueueInv

\* Moved finds the row again.
LEMMA MovedFinds ==
  ASSUME TableInv, TableInv', NEW p
  PROVE  /\ Moved(p) \in Position /\ (Moved(p) # None => p # None)
         /\ (Moved(p) \in DOMAIN visible' => /\ p \in DOMAIN visible
                                             /\ visible'[Moved(p)] = visible[p])
<1>1. Lists(visible, ToSet(rows)) /\ DOMAIN visible = 1 .. Len(visible)
  BY ListsIndex DEF TableInv
<1>2. Lists(visible', ToSet(rows'))
  BY DEF TableInv
<1>3. DOMAIN visible' = 1 .. Len(visible')
  BY <1>2, ListsIndex
<1>4. CASE p \notin DOMAIN visible
  <2>1. Moved(p) = None
    BY <1>4 DEF Moved
  <2>. QED  BY <1>3, <2>1 DEF Position, None
<1>5. CASE p \in DOMAIN visible
  <2>. DEFINE v == visible'  id == visible[p]  T == ToSet(rows')
  <2>1. Moved(p) = IndexOf(v, id) /\ p # None
    BY <1>1, <1>5 DEF Moved, None
  <2>. HIDE DEF v, id, T
  <2>2. Lists(v, T)
    BY <1>2 DEF v, T
  <2>3. /\ IndexOf(v, id) \in Position
        /\ (IndexOf(v, id) \in DOMAIN v <=> id \in T)
        /\ id \in T => v[IndexOf(v, id)] = id
    BY <2>2, IndexIsPlace
  <2>. QED  BY <1>5, <2>1, <2>3 DEF v, id
<1>. QED  BY <1>4, <1>5

\* dispatch_applied.
LEMMA DispatchKeeps ==
  ASSUME TableInv, PassInv, QueueInv, Dispatch
  PROVE  TableInv' /\ PassInv' /\ QueueInv'
<1>1. /\ phase = "dispatch" /\ applied # <<>> /\ applied' = Tail(applied)
      /\ UNCHANGED <<tableVars, shuffle, current, opened, phase, batch, events, engine>>
  BY DEF Dispatch
<1>2. QueueTypes /\ UINow /\ visible' = visible
  BY <1>1 DEF QueueInv, UINow, tableVars
<1>3. applied' \in Seq(Message) /\ ToSet(applied') \subseteq ToSet(applied)
  BY <1>1, <1>2, InTail DEF QueueTypes
<1>4. current' \in Position /\ current \in Position
  BY <1>1, <1>2 DEF QueueTypes
<1>5. \/ UNCHANGED passVars /\ Send(Stop) /\ pending' = None /\ UNCHANGED req
      \/ \E rep : WithNext(rep, SkipTo)
  BY DEF Dispatch, Skip, OpenFailed
<1>6. CASE UNCHANGED passVars /\ Send(Stop) /\ pending' = None /\ UNCHANGED req
  <2>1. TableInv' /\ PassInv'
    BY <1>1, <1>6, StuttersDo
  <2>2. Sent(Stop)
    BY <1>6 DEF Sent, Send
  <2>. QED  BY <1>2, <1>3, <1>4, <1>6, <2>1, <2>2, StopKeeps
<1>7. CASE \E rep : WithNext(rep, SkipTo)
  <2>1. PlaylistEffect /\ \E i \in DOMAIN visible \cup {None} : SkipTo(i)
    BY <1>1, <1>4, <1>7, NextSkip
  <2>2. TableInv' /\ PassInv'
    BY <2>1, EffectKeeps
  <2>3. PICK i \in DOMAIN visible \cup {None} : SkipTo(i)
    BY <2>1
  <2>4. CASE i = None
    <3>1. Sent(Stop) /\ pending' = None /\ req' = req
      BY <2>3, <2>4 DEF SkipTo, Sent, Send
    <3>. QED  BY <1>2, <1>3, <1>4, <2>2, <3>1, StopKeeps
  <2>5. CASE i # None
    <3>1. i \in DOMAIN visible' /\ PlayTrack(i, visible', <<>>)
      BY <1>2, <2>3, <2>5 DEF SkipTo
    <3>. QED  BY <1>2, <1>3, <1>4, <2>2, <3>1, PlayTrackKeeps
  <2>. QED  BY <2>4, <2>5
<1>. QED  BY <1>5, <1>6, <1>7

\* A step of the UI that plays a row of the order there is, or none.
LEMMA GoesKeeps ==
  ASSUME QueueInv, UINow, TableInv, TableInv', visible' = visible,
         NEW i \in DOMAIN visible \cup {None}, GoTo(i), applied' = applied, current' = current
  PROVE  QueueInv'
<1>1. /\ applied' \in Seq(Message) /\ ToSet(applied') \subseteq ToSet(applied)
      /\ current' \in Position /\ pending \in Position
  BY DEF QueueInv, QueueTypes
<1>2. CASE i = None
  <2>1. cmds' = cmds /\ pending' = pending /\ req' = req
    BY <1>2 DEF GoTo
  <2>. QED  BY <1>1, <2>1, MovedKeeps DEF Sent
<1>3. CASE i # None
  <2>1. i \in DOMAIN visible' /\ PlayTrack(i, visible', <<>>)
    BY <1>3 DEF GoTo
  <2>. QED  BY <1>1, <2>1, PlayTrackKeeps
<1>. QED  BY <1>2, <1>3

\* handle_auto_advance.
LEMMA TickEndsKeeps ==
  ASSUME TableInv, PassInv, QueueInv, TickEnds
  PROVE  TableInv' /\ PassInv' /\ QueueInv'
<1>1. /\ phase = "dispatch"
      /\ UNCHANGED <<tableVars, shuffle, current, opened, batch, applied, events, engine>>
  BY DEF TickEnds, Polling
<1>2. QueueTypes /\ UINow /\ visible' = visible
  BY <1>1 DEF QueueInv, UINow, tableVars
<1>3. current' \in Position /\ current \in Position /\ pending \in Position
  BY <1>1, <1>2 DEF QueueTypes
<1>4. \/ UNCHANGED <<passVars, pending, req>> /\ Sent(Play)
      \/ WithNext(repeat, AutoAdvanceTo)
  BY DEF TickEnds, Sent, Send
<1>5. CASE UNCHANGED <<passVars, pending, req>> /\ Sent(Play)
  <2>1. TableInv' /\ PassInv'
    BY <1>1, <1>5, StuttersDo
  <2>2. QueueInv'
    BY <1>1, <1>2, <1>3, <1>5, MovedKeeps
  <2>. QED  BY <2>1, <2>2
<1>6. CASE WithNext(repeat, AutoAdvanceTo)
  <2>1. PlaylistEffect /\ \E i \in DOMAIN visible \cup {None} : AutoAdvanceTo(i)
    BY <1>1, <1>3, <1>6, NextAuto
  <2>2. TableInv' /\ PassInv'
    BY <2>1, EffectKeeps
  <2>3. PICK i \in DOMAIN visible \cup {None} : AutoAdvanceTo(i)
    BY <2>1
  <2>4. CASE i = None
    <3>1. cmds' = cmds /\ pending' = pending /\ req' = req
      BY <2>3, <2>4 DEF AutoAdvanceTo
    <3>. QED  BY <1>1, <1>2, <1>3, <2>2, <3>1, MovedKeeps DEF Sent
  <2>5. CASE i # None
    <3>1. GoTo(i)
      BY <2>3, <2>5 DEF AutoAdvanceTo, GoTo
    <3>. QED  BY <1>1, <1>2, <2>2, <3>1, GoesKeeps
  <2>. QED  BY <2>4, <2>5
<1>. QED  BY <1>4, <1>5, <1>6

-----------------------------------------------------------------------------
(* What the user does                                                      *)

\* playlist_op around an operation on the table.
LEMMA OpKeeps ==
  ASSUME TableInv, TableInv', QueueInv, UINow, applied' = applied, req' = req, Sent(Stop),
         NEW cur, PlaylistOp(cur)
  PROVE  QueueInv'
<1>1. current' = Moved(cur) /\ pending' = Moved(pending)
  BY DEF PlaylistOp
<1>2. /\ current' \in Position /\ pending' \in Position
      /\ pending' # None => pending # None
      /\ pending' \in DOMAIN visible' => /\ pending \in DOMAIN visible
                                         /\ visible'[pending'] = visible[pending]
  BY <1>1, MovedFinds
<1>. QED  BY <1>2, MovedKeeps

LEMMA RemoveRowKeeps ==
  ASSUME TableInv, PassInv, QueueInv, UINow, applied' = applied, NEW i, RemoveRow(i)
  PROVE  TableInv' /\ PassInv' /\ QueueInv'
<1>1. /\ Remove1(visible[i]) /\ \E cur : PlaylistOp(cur)
      /\ Sent(Stop) /\ shuffle' = shuffle /\ req' = req
  BY DEF RemoveRow, Sent, Send, mirrorVars
<1>2. TableInv' /\ PassInv'
  BY <1>1, RemoveDoes
<1>. QED  BY <1>1, <1>2, OpKeeps

LEMMA ClearListKeeps ==
  ASSUME TableInv, PassInv, QueueInv, UINow, applied' = applied, ClearList
  PROVE  TableInv' /\ PassInv' /\ QueueInv'
<1>1. Clear /\ PlaylistOp(None) /\ Sent(Stop) /\ shuffle' = shuffle /\ req' = req
  BY DEF ClearList, Sent, Send, mirrorVars
<1>2. TableInv' /\ PassInv'
  BY <1>1, ClearDoes
<1>. QED  BY <1>1, <1>2, OpKeeps

LEMMA SortByKeeps ==
  ASSUME TableInv, PassInv, QueueInv, UINow, applied' = applied, NEW c \in Columns, SortBy(c)
  PROVE  TableInv' /\ PassInv' /\ QueueInv'
<1>1. HeaderClick(c) /\ PlaylistOp(current) /\ Sent(Stop) /\ shuffle' = shuffle /\ req' = req
  BY DEF SortBy, Sent, mirrorVars
<1>2. TableInv' /\ PassInv'
  BY <1>1, HeaderClickDoes
<1>. QED  BY <1>1, <1>2, OpKeeps

LEMMA AddTrackKeeps ==
  ASSUME TableInv, PassInv, QueueInv, UINow, applied' = applied, NEW k \in TrackKeys, AddTrack(k)
  PROVE  TableInv' /\ PassInv' /\ QueueInv'
<1>1. Add(k) /\ PlaylistOp(current) /\ Sent(Stop) /\ shuffle' = shuffle /\ req' = req
  BY DEF AddTrack, Sent, mirrorVars
<1>2. TableInv' /\ PassInv'
  BY <1>1, AddDoes
<1>. QED  BY <1>1, <1>2, OpKeeps

LEMMA LoadListKeeps ==
  ASSUME TableInv, PassInv, QueueInv, UINow, applied' = applied,
         NEW ks \in Seq(TrackKeys), LoadList(ks)
  PROVE  TableInv' /\ PassInv' /\ QueueInv'
<1>1. /\ TableInv' /\ PassInv' /\ current' = None
      /\ \/ \E i \in DOMAIN visible' : PlayTrack(i, visible', <<Stop>>)
         \/ Send(Stop) /\ pending' = None /\ UNCHANGED <<req, ended>>
  BY LoadListDoes
<1>2. /\ current' \in Position /\ applied' \in Seq(Message)
      /\ ToSet(applied') \subseteq ToSet(applied)
  BY <1>1 DEF QueueInv, QueueTypes, Position
<1>3. CASE \E i \in DOMAIN visible' : PlayTrack(i, visible', <<Stop>>)
  BY <1>1, <1>2, <1>3, PlayTrackKeeps
<1>4. CASE Send(Stop) /\ pending' = None /\ UNCHANGED <<req, ended>>
  <2>1. Sent(Stop) /\ pending' = None /\ req' = req
    BY <1>4 DEF Sent, Send
  <2>. QED  BY <1>1, <1>2, <2>1, StopKeeps
<1>. QED  BY <1>1, <1>3, <1>4

\* The playlist is not touched, or Shuffle, Repeat: no row moves.
LEMMA StillKeeps ==
  ASSUME QueueInv, UINow, visible' = visible, NEW c \in {Play, Stop}, Sent(c),
         UNCHANGED <<current, pending, req, applied>>
  PROVE  QueueInv'
<1>1. current' \in Position /\ pending' \in Position
  BY DEF QueueInv, QueueTypes
<1>. QED  BY <1>1, MovedKeeps

LEMMA WindowInputKeeps ==
  ASSUME TableInv, PassInv, QueueInv, WindowInput
  PROVE  TableInv' /\ PassInv' /\ QueueInv'
<1>1. phase = "idle" /\ UNCHANGED <<phase, batch, applied, events, engine>>
  BY DEF WindowInput, backgroundVars, tickVars
<1>2. CASE \E i \in DOMAIN visible : PlayRow(i)
  <2>1. PICK i \in DOMAIN visible : PlayRow(i)
    BY <1>2
  <2>2. UNCHANGED <<tableVars, passVars, shuffle>> /\ visible' = visible
        /\ UNCHANGED <<opened, current>> /\ PlayTrack(i, visible', <<>>)
    BY <2>1 DEF PlayRow, playlistVars, tableVars
  <2>3. TableInv' /\ PassInv'
    BY <2>2, StuttersDo
  <2>4. /\ UINow /\ current' \in Position /\ applied' \in Seq(Message)
        /\ ToSet(applied') \subseteq ToSet(applied)
    BY <1>1, <2>2 DEF UINow, QueueInv, QueueTypes
  <2>. QED  BY <2>2, <2>3, <2>4, PlayTrackKeeps
<1>3. CASE ClearList
  <2>1. UINow
    BY <1>1, <1>3 DEF UINow, ClearList, mirrorVars
  <2>. QED  BY <1>1, <1>3, <2>1, ClearListKeeps
<1>4. CASE \E c \in Columns : SortBy(c)
  <2>1. UINow
    BY <1>1, <1>4 DEF UINow, SortBy, mirrorVars
  <2>. QED  BY <1>1, <1>4, <2>1, SortByKeeps
<1>5. CASE PressShuffle
  <2>1. ToggleShuffle /\ UNCHANGED <<current, pending, req, opened, cmds>>
    BY <1>5 DEF PressShuffle, queueVars, mirrorVars
  <2>2. TableInv' /\ PassInv' /\ visible' = visible
    BY <2>1, ToggleDoes
  <2>3. UINow /\ Sent(Stop)
    BY <1>1, <2>1 DEF UINow, Sent
  <2>. QED  BY <1>1, <2>1, <2>2, <2>3, StillKeeps
<1>6. CASE PressRepeat
  <2>1. CycleRepeat /\ UNCHANGED <<current, pending, req, opened, cmds>>
    BY <1>6 DEF PressRepeat, queueVars, mirrorVars
  <2>2. UNCHANGED <<tableVars, passVars, shuffle>> /\ visible' = visible
    BY <2>1 DEF CycleRepeat, tableVars
  <2>3. TableInv' /\ PassInv'
    BY <2>2, StuttersDo
  <2>4. UINow /\ Sent(Stop)
    BY <1>1, <2>1 DEF UINow, Sent
  <2>. QED  BY <1>1, <2>1, <2>2, <2>3, <2>4, StillKeeps
<1>7. CASE \E i \in DOMAIN visible : RemoveRow(i)
  <2>1. UINow
    BY <1>1, <1>7 DEF UINow, RemoveRow, mirrorVars
  <2>. QED  BY <1>1, <1>7, <2>1, RemoveRowKeeps
<1>. QED  BY <1>2, <1>3, <1>4, <1>5, <1>6, <1>7 DEF WindowInput

LEMMA TrayInputKeeps ==
  ASSUME TableInv, PassInv, QueueInv, TrayInput
  PROVE  TableInv' /\ PassInv' /\ QueueInv'
<1>1. phase # "apply" /\ UNCHANGED <<phase, batch, applied, events, engine>>
  BY DEF TrayInput, Polling, backgroundVars, tickVars
<1>2. current \in Position
  BY DEF QueueInv, QueueTypes
<1>3. CASE PressNext
  <2>1. /\ PlaylistEffect /\ UNCHANGED visible
        /\ \E i \in DOMAIN visible \cup {None} : GoTo(i)
    BY <1>2, <1>3, PressNextDoes
  <2>2. UINow /\ current' = current
    BY <1>1, <1>3 DEF UINow, PressNext
  <2>3. TableInv' /\ PassInv'
    BY <2>1, EffectKeeps
  <2>. QED  BY <1>1, <2>1, <2>2, <2>3, GoesKeeps
<1>4. CASE PressPrev
  <2>1. /\ PlaylistEffect /\ UNCHANGED visible
        /\ \E i \in DOMAIN visible \cup {None} : GoTo(i)
    BY <1>2, <1>4, PressPrevDoes
  <2>2. UINow /\ current' = current
    BY <1>1, <1>4 DEF UINow, PressPrev
  <2>3. TableInv' /\ PassInv'
    BY <2>1, EffectKeeps
  <2>. QED  BY <1>1, <2>1, <2>2, <2>3, GoesKeeps
<1>5. CASE PressStop
  <2>1. UNCHANGED <<current, pending, req, opened>> /\ Sent(Stop)
        /\ UNCHANGED <<tableVars, passVars, shuffle>> /\ visible' = visible
    BY <1>5 DEF PressStop, playlistVars, tableVars, queueVars, mirrorVars, Sent, Send
  <2>2. UINow
    BY <1>1, <2>1 DEF UINow
  <2>3. TableInv' /\ PassInv'
    BY <2>1, StuttersDo
  <2>. QED  BY <1>1, <2>1, <2>2, <2>3, StillKeeps
<1>. QED  BY <1>3, <1>4, <1>5 DEF TrayInput

LEMMA UserInputKeeps ==
  ASSUME TableInv, PassInv, QueueInv, UserInput
  PROVE  TableInv' /\ PassInv' /\ QueueInv'
<1>1. ASSUME NEW ks \in Seq(TrackKeys), Loaded(ks)
      PROVE  TableInv' /\ PassInv' /\ QueueInv'
  <2>1. UINow /\ applied' = applied /\ LoadList(ks)
    BY <1>1 DEF Loaded, Polling, UINow, LoadList, backgroundVars, tickVars
  <2>. QED  BY <2>1, LoadListKeeps
<1>2. ASSUME NEW k \in TrackKeys, Scanned(k)
      PROVE  TableInv' /\ PassInv' /\ QueueInv'
  <2>1. UINow /\ applied' = applied /\ AddTrack(k)
    BY <1>2 DEF Scanned, Polling, UINow, AddTrack, mirrorVars, backgroundVars, tickVars
  <2>. QED  BY <2>1, AddTrackKeeps
<1>. QED  BY <1>1, <1>2, TrayInputKeeps, WindowInputKeeps DEF UserInput

-----------------------------------------------------------------------------
(* The invariant and what follows from it                                  *)

LEMMA PlayerStep ==
  ASSUME TableInv, PassInv, QueueInv, [PlayerNext]_playerVars
  PROVE  TableInv' /\ PassInv' /\ QueueInv'
<1>1. ASSUME UNCHANGED playlistVars
      PROVE  TableInv' /\ PassInv' /\ visible' = visible
  <2>1. UNCHANGED <<tableVars, passVars, shuffle>> /\ visible' = visible
    BY <1>1 DEF playlistVars, tableVars
  <2>. QED  BY <2>1, StuttersDo
<1>2. CASE EngineCommand
  <2>1. UNCHANGED playlistVars /\ UNCHANGED <<queueVars, mirrorVars, tickVars>>
    BY <1>2 DEF EngineCommand
  <2>2. TableInv' /\ PassInv' /\ visible' = visible
    BY <1>1, <2>1
  <2>3. CASE EngineOpen
    BY <2>1, <2>2, <2>3, EngineOpenKeeps
  <2>4. CASE EnginePlay \/ EngineStop
    BY <2>1, <2>2, <2>4, EngineObeysKeeps
  <2>. QED  BY <1>2, <2>3, <2>4 DEF EngineCommand
<1>3. CASE EnginePolls
  <2>1. UNCHANGED playlistVars /\ UNCHANGED <<queueVars, mirrorVars, tickVars>>
    BY <1>3 DEF EnginePolls
  <2>2. TableInv' /\ PassInv' /\ visible' = visible
    BY <1>1, <2>1
  <2>3. EngineEnds \/ EngineFails
    BY <1>3 DEF EnginePolls
  <2>. QED  BY <2>1, <2>2, <2>3, EnginePollsKeeps
<1>4. CASE TickBegins
  <2>1. UNCHANGED playlistVars
    BY <1>4 DEF TickBegins
  <2>. QED  BY <1>1, <1>4, <2>1, TickBeginsKeeps
<1>5. CASE ApplyEvent
  <2>1. UNCHANGED playlistVars
    BY <1>5 DEF ApplyEvent
  <2>. QED  BY <1>1, <1>5, <2>1, ApplyEventKeeps
<1>6. CASE UNCHANGED playerVars
  <2>1. UNCHANGED playlistVars /\ UNCHANGED <<queueVars, mirrorVars, tickVars, cmds, events, engine>>
    BY <1>6 DEF playerVars
  <2>2. TableInv' /\ PassInv' /\ visible' = visible
    BY <1>1, <2>1
  <2>3. UNCHANGED <<current, pending, req, opened, phase, batch, applied, cmds, events, engine>>
    BY <2>1 DEF queueVars, mirrorVars, tickVars
  <2>4. QueueTypes' /\ Flying' = Flying
    BY <2>3 DEF QueueInv, QueueTypes, Flying
  <2>. QED  BY <2>2, <2>3, <2>4 DEF QueueInv
<1>. QED  BY <1>2, <1>3, <1>4, <1>5, <1>6, TakeOpenedKeeps, DispatchKeeps, TickEndsKeeps,
             UserInputKeeps DEF PlayerNext, Tick

LEMMA PlayerStart ==
  ASSUME NEW ks \in Seq(TrackKeys), PlayerInit(ks)
  PROVE  TableInv /\ PassInv /\ QueueInv
<1>. DEFINE n == Len(ks)
<1>1. /\ rows = [i \in DOMAIN ks |-> i - 1] /\ visible = rows /\ sort = <<>>
      /\ keys = [id \in ToSet(rows) |-> ks[id + 1]] /\ nextId = n
      /\ history = <<>> /\ passCurrent = None /\ taken = {}
      /\ (shuffle => upcoming \in SetToSeqs(ToSet(rows)))
  BY DEF PlayerInit
<1>2. /\ current = None /\ pending = None /\ req = 0 /\ opened = <<>>
      /\ phase = "idle" /\ batch = <<>> /\ applied = <<>>
      /\ cmds = <<>> /\ events = <<>> /\ engine = Silence
  BY DEF PlayerInit
<1>3. DOMAIN ks = 1 .. n /\ n \in Nat
  OBVIOUS
<1>4. /\ Lists(rows, Fresh(0, ks)) /\ ToSet(rows) = Fresh(0, ks)
      /\ keys \in [Fresh(0, ks) -> TrackKeys]
  <2>. DEFINE r == [i \in DOMAIN ks |-> 0 + i - 1]  k == [id \in ToSet(r) |-> ks[id - 0 + 1]]
  <2>1. rows = r
    BY <1>1, <1>3
  <2>2. /\ Lists(r, Fresh(0, ks)) /\ ToSet(r) = Fresh(0, ks) /\ k \in [Fresh(0, ks) -> TrackKeys]
    BY FreshRows DEF AreFresh
  <2>3. \A id \in ToSet(r) : id - 0 + 1 = id + 1
    BY <1>3, <2>2 DEF Fresh
  <2>. HIDE DEF r
  <2>4. keys = k
    BY <1>1, <2>1, <2>3
  <2>. QED  BY <2>1, <2>2, <2>4
<1>5. Fresh(0, ks) \subseteq 0 .. nextId - 1 /\ IsFiniteSet(Fresh(0, ks)) /\ None \notin Fresh(0, ks)
  <2>1. Fresh(0, ks) \subseteq 0 .. nextId - 1
    BY <1>1, <1>3 DEF Fresh
  <2>. QED  BY <1>3, <1>4, <2>1, ListsBijection DEF Fresh, None
<1>6. TableInv
  <2>1. Resorted(Table(rows, keys, sort)) = rows
    BY <1>1, NoSortKey DEF Table
  <2>2. nextId \in Nat /\ ToSet(rows) \subseteq 0 .. nextId - 1
    BY <1>1, <1>3, <1>4, <1>5
  <2>3. Lists(rows, ToSet(rows)) /\ Lists(visible, ToSet(rows)) /\ keys \in [ToSet(rows) -> TrackKeys]
    BY <1>1, <1>4
  <2>. QED  BY <1>1, <2>1, <2>2, <2>3 DEF TableInv
<1>7. PassInv
  <2>. SUFFICES ASSUME shuffle
                PROVE  PassOf(history, passCurrent, upcoming, taken, ToSet(visible), nextId)
    BY DEF PassInv
  <2>. DEFINE V == ToSet(visible)
  <2>1. V = ToSet(rows) /\ IsFiniteSet(V) /\ None \notin V
    BY <1>1, <1>4, <1>5
  <2>. HIDE DEF V
  <2>2. Lists(upcoming, V) /\ Lists(<<>>, {})
    BY <1>1, <2>1, SeqsOf, ListsEmpty
  <2>3. {} \cap V = {} /\ None \notin {} \cup V /\ V = {} \cup V \cup ({None} \ {None})
    BY <2>1
  <2>4. Parts(<<>>, None, upcoming, V)
    BY <2>2, <2>3, PartsFrom
  <2>. QED  BY <1>1, <2>4 DEF PassOf, V
<1>8. QueueInv
  <2>1. Silence \in EngineState /\ Silence.gen <= 0
    BY DEF Silence, EngineState, None
  <2>2. QueueTypes
    BY <1>2, <2>1 DEF QueueTypes, Position
  <2>3. Flying = {} /\ ToSet(opened) = {}
    BY <1>2, NothingIn DEF Flying
  <2>4. DOMAIN visible = 1 .. Len(visible)
    BY <1>6, ListsIndex DEF TableInv
  <2>5. None \notin DOMAIN visible
    BY <2>4 DEF None
  <2>6. Awaits(Flying, req, pending, visible)
    BY <1>2, <2>3, <2>5 DEF Awaits, NotAhead
  <2>. QED  BY <1>2, <2>2, <2>3, <2>6 DEF QueueInv
<1>. QED  BY <1>6, <1>7, <1>8

\* The queue and its engine, each at its own pace: the table and the pass are
\* what they are without the player, no answer is ahead of the last Open, and
\* everything of the last Open that is on its way is about the awaited row.
THEOREM PlayerInvariant == PlayerSpec => [](TableInv /\ PassInv /\ QueueInv)
<1>1. (\E ks \in Seq(TrackKeys) : PlayerInit(ks)) => TableInv /\ PassInv /\ QueueInv
  BY PlayerStart
<1>2. TableInv /\ PassInv /\ QueueInv /\ [PlayerNext]_playerVars
        => (TableInv /\ PassInv /\ QueueInv)'
  BY PlayerStep
<1>. QED  BY <1>1, <1>2, PTL DEF PlayerSpec

\* The table holds the rows of the source order also when the tick puts the
\* tags of an opened file, a scanned file or a loaded playlist into it.
THEOREM TableMatchesInPlay == PlayerSpec => []ViewMatchesSource
BY PlayerInvariant, TableMatches, PTL

\* The pass shares the rows out also when skips, ends, Next and Previous move
\* in it while rows are removed and playlists loaded with "play now".
THEOREM PassDividesInPlay == PlayerSpec => []PassIsPartition
BY PlayerInvariant, PassDivides, PTL

LEMMA AnswerIsOfRow == ASSUME QueueInv PROVE AnswerGoesToItsRow
<1>. SUFFICES ASSUME opened # <<>>, pending \in DOMAIN visible
              PROVE  visible[pending] = opened[1].id
  BY DEF AnswerGoesToItsRow
<1>1. opened \in Seq(Message) /\ AllAbout(Flying, req, visible[pending])
  BY DEF QueueInv, QueueTypes, Awaits
<1>2. 1 \in DOMAIN opened
  BY <1>1
<1>3. opened[1] \in ToSet(opened)
  BY <1>2 DEF ToSet
<1>4. opened[1].gen = req /\ opened[1].type = "Opened"
  BY <1>3 DEF QueueInv
<1>. QED  BY <1>1, <1>3, <1>4 DEF AllAbout, Flying, Asking

\* drain_engine_events, take_opened: the answer that is taken for the awaited
\* opening is that of the awaited row, wherever sorting, adding and removing
\* have moved it meanwhile (I-R14).
THEOREM AnswerAlwaysGoesToItsRow == PlayerSpec => []AnswerGoesToItsRow
BY PlayerInvariant, AnswerIsOfRow, PTL

LEMMA AwaitedIsSent == ASSUME QueueInv PROVE AwaitedIsOnItsWay
<1>1. /\ cmds \in Seq(Message) /\ events \in Seq(Message) /\ batch \in Seq(Message)
      /\ opened \in Seq(Message) /\ applied \in Seq(Message)
  BY DEF QueueInv, QueueTypes
<1>. DEFINE a == cmds \o events  b == a \o batch  c == b \o opened  d == c \o applied
<1>2. a \in Seq(Message) /\ ToSet(a) = ToSet(cmds) \cup ToSet(events)
  BY <1>1, InConcat
<1>. HIDE DEF a
<1>3. b \in Seq(Message) /\ ToSet(b) = ToSet(a) \cup ToSet(batch)
  BY <1>1, <1>2, InConcat
<1>. HIDE DEF b
<1>4. c \in Seq(Message) /\ ToSet(c) = ToSet(b) \cup ToSet(opened)
  BY <1>1, <1>3, InConcat
<1>. HIDE DEF c
<1>5. ToSet(d) = ToSet(c) \cup ToSet(applied)
  BY <1>1, <1>4, InConcat
<1>6. ToSet(d) = Flying
  BY <1>2, <1>3, <1>4, <1>5 DEF Flying
<1>7. pending # None => OnItsWay(Flying, req)
  BY DEF QueueInv, Awaits
<1>8. d = cmds \o events \o batch \o opened \o applied
  BY DEF a, b, c
<1>. HIDE DEF d
<1>. QED  BY <1>6, <1>7, <1>8 DEF AwaitedIsOnItsWay, OnItsWay, Answering

\* pending_open: the command of what is awaited, or an answer to it that the
\* mirror will not drop as outdated, is on its way; no order of skips, loads
\* and clicks leaves a row awaited for ever.
THEOREM AwaitedAlwaysComes == PlayerSpec => []AwaitedIsOnItsWay
BY PlayerInvariant, AwaitedIsSent, PTL

-----------------------------------------------------------------------------
(* What sounds                                                             *)

Rising(s) == \A j, k \in DOMAIN s :
               j < k /\ s[j].type = "Open" /\ s[k].type = "Open" => s[j].gen < s[k].gen
PlaysFirst(s) == \A j, k \in DOMAIN s : ~(j < k /\ s[j].type = "Open" /\ s[k].type = "Play")
StoppedAfter(s) == \A j \in DOMAIN s : s[j].type = "Play" =>
                     \E k \in DOMAIN s : j < k /\ s[k].type = "Stop"
NoPlay(s) == \A m \in ToSet(s) : m.type # "Play"
NoOpen(s) == \A m \in ToSet(s) : m.type # "Open"
HasStop(s) == \E m \in ToSet(s) : m.type = "Stop"

LEMMA AppendPlace ==
  ASSUME NEW S, NEW s \in Seq(S), NEW x \in S
  PROVE  /\ DOMAIN Append(s, x) = 1 .. Len(s) + 1 /\ DOMAIN s = 1 .. Len(s) /\ Len(s) \in Nat
         /\ \A i \in 1 .. Len(s) : Append(s, x)[i] = s[i]
         /\ Append(s, x)[Len(s) + 1] = x
         /\ \A i \in 1 .. Len(s) + 1 : i \in 1 .. Len(s) \/ i = Len(s) + 1
OBVIOUS

LEMMA TailPlace ==
  ASSUME NEW S, NEW s \in Seq(S), s # <<>>
  PROVE  /\ DOMAIN Tail(s) = 1 .. Len(s) - 1 /\ DOMAIN s = 1 .. Len(s)
         /\ Len(s) \in Nat /\ 1 \in 1 .. Len(s) /\ s[1] = Head(s)
         /\ \A i \in 1 .. Len(s) - 1 : Tail(s)[i] = s[i + 1] /\ i + 1 \in 1 .. Len(s) /\ 1 < i + 1
         /\ \A i \in 1 .. Len(s) : 1 < i => i - 1 \in 1 .. Len(s) - 1 /\ Tail(s)[i - 1] = s[i]
OBVIOUS

LEMMA AppendSends ==
  ASSUME NEW S, NEW s \in Seq(S), NEW x \in S
  PROVE  /\ (Rising(s) /\ \A m \in ToSet(s) : m.type = "Open" => m.gen < x.gen) => Rising(Append(s, x))
         /\ (Rising(s) /\ x.type # "Open") => Rising(Append(s, x))
         /\ (PlaysFirst(s) /\ (x.type # "Play" \/ NoOpen(s))) => PlaysFirst(Append(s, x))
         /\ (StoppedAfter(s) /\ x.type # "Play") => StoppedAfter(Append(s, x))
         /\ x.type = "Stop" => StoppedAfter(Append(s, x)) /\ HasStop(Append(s, x))
         /\ HasStop(s) => HasStop(Append(s, x))
         /\ (NoPlay(s) /\ x.type # "Play") => NoPlay(Append(s, x))
         /\ (NoOpen(s) /\ x.type # "Open") => NoOpen(Append(s, x))
<1>. DEFINE n == Len(s)  a == Append(s, x)
<1>1. /\ DOMAIN a = 1 .. n + 1 /\ DOMAIN s = 1 .. n /\ n \in Nat
      /\ \A i \in 1 .. n : a[i] = s[i]
      /\ a[n + 1] = x
      /\ \A i \in 1 .. n + 1 : i \in 1 .. n \/ i = n + 1
  BY AppendPlace
<1>2. ToSet(a) = ToSet(s) \cup {x}
  BY InAppend
<1>3. \A i \in 1 .. n : s[i] \in ToSet(s)
  BY <1>1 DEF ToSet
<1>4. /\ \A i, j \in 1 .. n + 1 : i < j => i \in 1 .. n
      /\ \A i \in 1 .. n : i < n + 1 /\ i \in 1 .. n + 1
      /\ n + 1 \in 1 .. n + 1 /\ ~(n + 1 < n + 1)
  BY <1>1
<1>. HIDE DEF n, a
<1>5. (Rising(s) /\ \A m \in ToSet(s) : m.type = "Open" => m.gen < x.gen) => Rising(a)
  BY <1>1, <1>3, <1>4 DEF Rising
<1>6. (Rising(s) /\ x.type # "Open") => Rising(a)
  BY <1>1, <1>4 DEF Rising
<1>7. (PlaysFirst(s) /\ (x.type # "Play" \/ NoOpen(s))) => PlaysFirst(a)
  BY <1>1, <1>3, <1>4 DEF PlaysFirst, NoOpen
<1>8. (StoppedAfter(s) /\ x.type # "Play") => StoppedAfter(a)
  BY <1>1, <1>4 DEF StoppedAfter
<1>9. x.type = "Stop" => StoppedAfter(a) /\ HasStop(a)
  BY <1>1, <1>2, <1>4 DEF StoppedAfter, HasStop
<1>10. /\ HasStop(s) => HasStop(a)
       /\ (NoPlay(s) /\ x.type # "Play") => NoPlay(a)
       /\ (NoOpen(s) /\ x.type # "Open") => NoOpen(a)
  BY <1>2 DEF HasStop, NoPlay, NoOpen
<1>. QED  BY <1>5, <1>6, <1>7, <1>8, <1>9, <1>10 DEF a

LEMMA TailSends ==
  ASSUME NEW S, NEW s \in Seq(S), s # <<>>
  PROVE  /\ Rising(s) => Rising(Tail(s))
         /\ Rising(s) /\ Head(s).type = "Open" =>
              \A m \in ToSet(Tail(s)) : m.type = "Open" => Head(s).gen < m.gen
         /\ PlaysFirst(s) => PlaysFirst(Tail(s))
         /\ PlaysFirst(s) /\ Head(s).type = "Open" => NoPlay(Tail(s))
         /\ StoppedAfter(s) => StoppedAfter(Tail(s))
         /\ StoppedAfter(s) /\ Head(s).type = "Play" => HasStop(Tail(s))
         /\ HasStop(s) /\ Head(s).type # "Stop" => HasStop(Tail(s))
         /\ NoPlay(s) => NoPlay(Tail(s)) /\ Head(s).type # "Play"
         /\ NoOpen(s) => NoOpen(Tail(s)) /\ Head(s).type # "Open"
<1>. DEFINE n == Len(s)  t == Tail(s)
<1>1. /\ DOMAIN t = 1 .. n - 1 /\ DOMAIN s = 1 .. n
      /\ n \in Nat /\ 1 \in 1 .. n /\ s[1] = Head(s)
      /\ \A i \in 1 .. n - 1 : t[i] = s[i + 1] /\ i + 1 \in 1 .. n /\ 1 < i + 1
      /\ \A i \in 1 .. n : 1 < i => i - 1 \in 1 .. n - 1 /\ t[i - 1] = s[i]
  BY TailPlace
<1>2. ToSet(s) = {Head(s)} \cup ToSet(t)
  BY InTail
<1>3. \A m \in ToSet(t) : \E i \in 1 .. n - 1 : t[i] = m
  BY <1>1 DEF ToSet
<1>4. \A i \in 1 .. n - 1 : t[i] \in ToSet(t)
  BY <1>1 DEF ToSet
<1>5. /\ \A i, j \in 1 .. n - 1 : i < j => i + 1 < j + 1
      /\ \A i \in 1 .. n - 1, j \in 1 .. n : i + 1 < j => 1 < j /\ i < j - 1
  BY <1>1
<1>. HIDE DEF n, t
<1>6. Rising(s) => Rising(t)
  <2>. SUFFICES ASSUME Rising(s), NEW j \in 1 .. n - 1, NEW k \in 1 .. n - 1, j < k,
                       t[j].type = "Open", t[k].type = "Open"
                PROVE  t[j].gen < t[k].gen
    BY <1>1 DEF Rising
  <2>. DEFINE x == j + 1  y == k + 1
  <2>1. x \in 1 .. n /\ y \in 1 .. n /\ x < y /\ s[x] = t[j] /\ s[y] = t[k]
    BY <1>1, <1>5
  <2>. HIDE DEF x, y
  <2>2. s[x].type = "Open" /\ s[y].type = "Open"
    BY <2>1
  <2>3. DOMAIN s = 1 .. n
    BY <1>1
  <2>4. s[x].gen < s[y].gen
    BY <2>1, <2>2, <2>3 DEF Rising
  <2>. QED  BY <2>1, <2>4
<1>7. Rising(s) /\ Head(s).type = "Open" => \A m \in ToSet(t) : m.type = "Open" => Head(s).gen < m.gen
  <2>. SUFFICES ASSUME Rising(s), Head(s).type = "Open", NEW m \in ToSet(t), m.type = "Open"
                PROVE  Head(s).gen < m.gen
    OBVIOUS
  <2>1. PICK i \in 1 .. n - 1 : t[i] = m
    BY <1>3
  <2>. DEFINE x == i + 1
  <2>2. x \in 1 .. n /\ 1 < x /\ s[x] = m
    BY <1>1, <2>1
  <2>. HIDE DEF x
  <2>. QED  BY <1>1, <2>2 DEF Rising
<1>8. PlaysFirst(s) => PlaysFirst(t)
  <2>. SUFFICES ASSUME PlaysFirst(s), NEW j \in 1 .. n - 1, NEW k \in 1 .. n - 1, j < k,
                       t[j].type = "Open", t[k].type = "Play"
                PROVE  FALSE
    BY <1>1 DEF PlaysFirst
  <2>. DEFINE x == j + 1  y == k + 1
  <2>1. x \in 1 .. n /\ y \in 1 .. n /\ x < y /\ s[x] = t[j] /\ s[y] = t[k]
    BY <1>1, <1>5
  <2>. HIDE DEF x, y
  <2>2. s[x].type = "Open" /\ s[y].type = "Play"
    BY <2>1
  <2>3. DOMAIN s = 1 .. n
    BY <1>1
  <2>. QED  BY <2>1, <2>2, <2>3 DEF PlaysFirst
<1>9. PlaysFirst(s) /\ Head(s).type = "Open" => NoPlay(t)
  <2>. SUFFICES ASSUME PlaysFirst(s), Head(s).type = "Open", NEW m \in ToSet(t), m.type = "Play"
                PROVE  FALSE
    BY DEF NoPlay
  <2>1. PICK i \in 1 .. n - 1 : t[i] = m
    BY <1>3
  <2>. DEFINE x == i + 1
  <2>2. x \in 1 .. n /\ 1 < x /\ s[x] = m
    BY <1>1, <2>1
  <2>. HIDE DEF x
  <2>3. /\ 1 \in DOMAIN s /\ x \in DOMAIN s /\ 1 < x
        /\ s[1].type = "Open" /\ s[x].type = "Play"
    BY <1>1, <2>2
  <2>. QED  BY <2>3 DEF PlaysFirst
<1>10. StoppedAfter(s) => StoppedAfter(t)
  <2>. SUFFICES ASSUME StoppedAfter(s), NEW j \in 1 .. n - 1, t[j].type = "Play"
                PROVE  \E k \in 1 .. n - 1 : j < k /\ t[k].type = "Stop"
    BY <1>1 DEF StoppedAfter
  <2>1. PICK k \in 1 .. n : j + 1 < k /\ s[k].type = "Stop"
    BY <1>1 DEF StoppedAfter
  <2>2. k - 1 \in 1 .. n - 1 /\ j < k - 1 /\ t[k - 1] = s[k]
    BY <1>1, <1>5, <2>1
  <2>. QED  BY <2>1, <2>2
<1>11. StoppedAfter(s) /\ Head(s).type = "Play" => HasStop(t)
  <2>. SUFFICES ASSUME StoppedAfter(s), s[1].type = "Play" PROVE HasStop(t)
    BY <1>1
  <2>1. PICK k \in 1 .. n : 1 < k /\ s[k].type = "Stop"
    BY <1>1 DEF StoppedAfter
  <2>2. k - 1 \in 1 .. n - 1 /\ t[k - 1] = s[k]
    BY <1>1, <2>1
  <2>. QED  BY <1>4, <2>1, <2>2 DEF HasStop
<1>12. /\ HasStop(s) /\ Head(s).type # "Stop" => HasStop(t)
       /\ NoPlay(s) => NoPlay(t) /\ Head(s).type # "Play"
       /\ NoOpen(s) => NoOpen(t) /\ Head(s).type # "Open"
  BY <1>2 DEF HasStop, NoPlay, NoOpen
<1>. QED  BY <1>6, <1>7, <1>8, <1>9, <1>10, <1>11, <1>12 DEF t

\* What the engine has reported and the UI has not dealt with.
Reports == ToSet(events) \cup ToSet(batch) \cup ToSet(opened) \cup ToSet(applied)

\* The current row is that of the engine's track.
Shown == current \in DOMAIN visible /\ visible[current] = engine.id

\* Openings to come are later than the open track and than all reports; an
\* accepted one is the open track.
OpensAhead == \A o \in ToSet(cmds) : o.type = "Open" =>
                engine.gen < o.gen /\ \A m \in Reports : m.gen < o.gen
OpenedIsOpen == \A m \in Reports : m.type = "Opened" /\ m.gen = req => m.id = engine.id

\* Where the track of the engine is not that of the current row, there is no
\* current row or the track does not play, nor will it by what is on its way.
PlayIsShown == Shown \/ NoPlay(cmds) \/ (current = None /\ StoppedAfter(cmds))
PlayingIsShown == engine.state = "playing" => Shown \/ (current = None /\ HasStop(cmds))
EndIsShown ==
  /\ \A m \in Reports : m.type = "Ended" /\ m.gen = req => Shown \/ current = None
  /\ ended => (Shown \/ current = None) /\ NoOpen(cmds)
Faithful == PlaysFirst(cmds) /\ PlayIsShown /\ PlayingIsShown /\ EndIsShown

\* The commands on their way matter as much as the row: a Play is never behind
\* an Open, a row that has gone is followed by a Stop.
SoundInv == Rising(cmds) /\ OpensAhead /\ OpenedIsOpen /\ (~strayed => Faithful)

LEMMA ReportsAreMessages ==
  ASSUME QueueInv
  PROVE  /\ \A m \in Reports : m \in Message /\ m.gen <= req
         /\ \A o \in ToSet(cmds) : o \in Message /\ o.gen <= req
BY FlyingMessages DEF QueueInv, Awaits, NotAhead, Flying, Reports

LEMMA EngineOpenSounds ==
  ASSUME QueueInv, SoundInv, EngineOpen,
         UNCHANGED <<visible, queueVars, mirrorVars, tickVars, strayed>>
  PROVE  SoundInv'
<1>. DEFINE c == Head(cmds)
<1>1. /\ UNCHANGED <<visible, current, req, ended, opened, batch, applied, strayed>>
      /\ cmds # <<>> /\ c.type = "Open" /\ cmds' = Tail(cmds)
  BY DEF EngineOpen, queueVars, mirrorVars, tickVars
<1>2. /\ cmds \in Seq(Message) /\ events \in Seq(Message) /\ req \in Nat /\ engine \in EngineState
  BY DEF QueueInv, QueueTypes
<1>3. c \in Message /\ ToSet(cmds) = {c} \cup ToSet(cmds')
  BY <1>1, <1>2, InTail
<1>4. c.gen \in Int /\ c.id \in Int /\ c.gen <= req
  BY <1>3, ReportsAreMessages DEF Message
<1>5. PICK t \in {"Opened", "Skipped", "OpenFailed"} :
        /\ events' = Append(events, Event(t, c.gen, c.id))
        /\ \/ engine' = [gen |-> c.gen, id |-> c.id, state |-> "paused", failed |-> FALSE]
           \/ engine' = engine /\ t # "Opened"
           \/ engine' = [engine EXCEPT !.state = "none"] /\ t # "Opened"
  BY DEF EngineOpen
<1>6. /\ engine'.gen \in {engine.gen, c.gen}
      /\ \/ engine'.id = c.id /\ engine'.state = "paused"
         \/ engine'.id = engine.id /\ engine'.state \in {engine.state, "none"} /\ t # "Opened"
  BY <1>2, <1>5 DEF EngineState
<1>. DEFINE e == Event(t, c.gen, c.id)
<1>7. e \in Message /\ e.gen = c.gen /\ e.id = c.id /\ e.type = t
  BY <1>4, <1>5, MessageForms DEF Types
<1>. HIDE DEF c, e
<1>8. ToSet(events') = ToSet(events) \cup {e}
  BY <1>2, <1>5, <1>7, InAppend DEF e
<1>9. Reports' = Reports \cup {e}
  BY <1>1, <1>8 DEF Reports
<1>10. /\ \A m \in Reports : m.gen \in Int /\ m.gen < c.gen
       /\ \A o \in ToSet(cmds') : o.gen \in Int /\ (o.type = "Open" => c.gen < o.gen)
       /\ engine.gen < c.gen /\ engine.gen \in Int
  <2>1. \A o \in ToSet(cmds') : o.type = "Open" => c.gen < o.gen
    BY <1>1, <1>2, TailSends DEF SoundInv, c
  <2>2. /\ \A m \in Reports : m.gen < c.gen
        /\ engine.gen < c.gen
    BY <1>1, <1>3 DEF SoundInv, OpensAhead
  <2>3. /\ \A m \in Reports : m.gen \in Int
        /\ \A o \in ToSet(cmds') : o.gen \in Int
    BY <1>3, ReportsAreMessages DEF Message
  <2>. QED  BY <1>2, <2>1, <2>2, <2>3 DEF EngineState
<1>11. Rising(cmds')
  BY <1>1, <1>2, TailSends DEF SoundInv
<1>12. OpensAhead'
  <2>. SUFFICES ASSUME NEW o \in ToSet(cmds'), o.type = "Open"
                PROVE  engine'.gen < o.gen /\ \A m \in Reports' : m.gen < o.gen
    BY DEF OpensAhead
  <2>1. c.gen < o.gen /\ o.gen \in Int
    BY <1>10
  <2>2. engine'.gen < o.gen
    BY <1>4, <1>6, <1>10, <2>1
  <2>3. ASSUME NEW m \in Reports' PROVE m.gen < o.gen
    <3>1. m = e \/ (m.gen \in Int /\ m.gen < c.gen)
      BY <1>9, <1>10, <2>3
    <3>. QED  BY <1>4, <1>7, <2>1, <3>1
  <2>. QED  BY <2>2, <2>3
<1>13. OpenedIsOpen'
  <2>1. \A m \in Reports : m.gen # req
    BY <1>2, <1>4, <1>10
  <2>2. e.type = "Opened" => e.id = engine'.id
    BY <1>6, <1>7
  <2>. QED  BY <1>1, <1>9, <2>1, <2>2 DEF OpenedIsOpen
<1>14. ASSUME ~strayed' PROVE Faithful'
  <2>0. strayed' = strayed
    BY <1>1
  <2>10. ~strayed
    BY <1>14, <2>0
  <2>1. Faithful
    BY <2>10 DEF SoundInv
  <2>2. PlaysFirst(cmds') /\ NoPlay(cmds')
    BY <1>1, <1>2, <2>1, TailSends DEF Faithful, c
  <2>3. ~ended
    BY <1>1, <1>3, <2>1 DEF Faithful, EndIsShown, NoOpen
  <2>4. ~ended'
    BY <1>1, <2>3, Zenon
  <2>5. \A m \in Reports' : ~(m.type = "Ended" /\ m.gen = req)
    BY <1>2, <1>4, <1>5, <1>7, <1>9, <1>10
  <2>6. PlayingIsShown'
    <3>1. CASE engine'.state = "paused" \/ engine'.state = "none"
      BY <3>1 DEF PlayingIsShown
    <3>2. CASE engine'.id = engine.id /\ engine'.state = engine.state
      <4>1. Shown' <=> Shown
        BY <1>1, <3>2 DEF Shown
      <4>2. HasStop(cmds) => HasStop(cmds')
        BY <1>1, <1>2, TailSends DEF c
      <4>3. PlayingIsShown
        BY <2>1 DEF Faithful
      <4>. QED  BY <1>1, <3>2, <4>1, <4>2, <4>3 DEF PlayingIsShown
    <3>. QED  BY <1>6, <3>1, <3>2
  <2>7. PlayIsShown'
    BY <2>2 DEF PlayIsShown
  <2>8. EndIsShown'
    BY <1>1, <2>4, <2>5 DEF EndIsShown
  <2>. QED  BY <2>2, <2>6, <2>7, <2>8 DEF Faithful
<1>. QED  BY <1>11, <1>12, <1>13, <1>14 DEF SoundInv

\* Play: what it starts is shown.
LEMMA EnginePlaySounds ==
  ASSUME QueueInv, SoundInv, EnginePlay \/ EngineStop,
         UNCHANGED <<visible, queueVars, mirrorVars, tickVars, strayed>>
  PROVE  SoundInv'
<1>. DEFINE c == Head(cmds)
<1>1. /\ UNCHANGED <<visible, current, req, ended, opened, batch, applied, strayed, events>>
      /\ cmds # <<>> /\ cmds' = Tail(cmds) /\ c.type # "Open"
  BY DEF EnginePlay, EngineStop, queueVars, mirrorVars, tickVars
<1>2. cmds \in Seq(Message) /\ engine \in EngineState
  BY DEF QueueInv, QueueTypes
<1>3. ToSet(cmds) = {c} \cup ToSet(cmds')
  BY <1>1, <1>2, InTail
<1>4. /\ engine'.gen = engine.gen /\ engine'.id = engine.id
      /\ \/ c.type = "Play" /\ engine'.state \in {"none", "playing"}
         \/ c.type = "Stop" /\ engine'.state \in {"none", "paused"}
  <2>1. CASE EnginePlay
    BY <1>2, <2>1 DEF EnginePlay, EngineState
  <2>2. CASE EngineStop
    BY <1>2, <2>2 DEF EngineStop, EngineState
  <2>. QED  BY <2>1, <2>2
<1>5. /\ Rising(cmds) => Rising(cmds')
      /\ PlaysFirst(cmds) => PlaysFirst(cmds')
      /\ StoppedAfter(cmds) => StoppedAfter(cmds')
      /\ StoppedAfter(cmds) /\ c.type = "Play" => HasStop(cmds')
      /\ NoPlay(cmds) => NoPlay(cmds') /\ c.type # "Play"
      /\ NoOpen(cmds) => NoOpen(cmds')
  BY <1>1, <1>2, TailSends
<1>. HIDE DEF c
<1>6. Reports' = Reports
  BY <1>1 DEF Reports
<1>7. Shown' <=> Shown
  BY <1>1, <1>4 DEF Shown
<1>8. Rising(cmds') /\ OpensAhead' /\ OpenedIsOpen'
  BY <1>1, <1>3, <1>4, <1>5, <1>6 DEF SoundInv, OpensAhead, OpenedIsOpen
<1>9. ASSUME ~strayed' PROVE Faithful'
  <2>0. strayed' = strayed
    BY <1>1
  <2>10. ~strayed
    BY <1>9, <2>0
  <2>1. Faithful
    BY <2>10 DEF SoundInv
  <2>2. PlaysFirst(cmds') /\ PlayIsShown'
    BY <1>1, <1>5, <1>7, <2>1 DEF Faithful, PlayIsShown
  <2>3. PlayingIsShown'
    <3>1. CASE c.type = "Play"
      <4>1. Shown \/ (current = None /\ HasStop(cmds'))
        BY <1>5, <2>1, <3>1 DEF Faithful, PlayIsShown
      <4>. QED  BY <1>1, <1>7, <4>1 DEF PlayingIsShown
    <3>2. CASE c.type # "Play"
      BY <1>4, <3>2 DEF PlayingIsShown
    <3>. QED  BY <3>1, <3>2
  <2>4. EndIsShown'
    <3>1. ended' = ended
      BY <1>1
    <3>2. ended => (Shown \/ current = None) /\ NoOpen(cmds)
      BY <2>1 DEF Faithful, EndIsShown
    <3>3. ended' => (Shown' \/ current' = None) /\ NoOpen(cmds')
      BY <1>1, <1>5, <1>7, <3>1, <3>2
    <3>. QED  BY <1>1, <1>6, <1>7, <2>1, <3>3 DEF Faithful, EndIsShown
  <2>. QED  BY <2>2, <2>3, <2>4 DEF Faithful
<1>. QED  BY <1>8, <1>9 DEF SoundInv

\* The end of the track that plays.
LEMMA EnginePollsSounds ==
  ASSUME QueueInv, SoundInv, EngineEnds \/ EngineFails,
         UNCHANGED <<visible, queueVars, mirrorVars, tickVars, strayed>>
  PROVE  SoundInv'
<1>1. UNCHANGED <<visible, current, req, ended, opened, batch, applied, strayed, cmds>>
  BY DEF EngineEnds, EngineFails, queueVars, mirrorVars, tickVars
<1>2. events \in Seq(Message) /\ engine \in EngineState
  BY DEF QueueInv, QueueTypes
<1>3. engine.gen \in Int /\ engine.id \in Int
  BY <1>2 DEF EngineState
<1>4. /\ engine'.gen = engine.gen /\ engine'.id = engine.id
      /\ engine'.state = "playing" => engine.state = "playing"
  <2>1. CASE EngineEnds
    BY <1>2, <2>1 DEF EngineEnds, EngineState
  <2>2. CASE EngineFails
    BY <1>2, <2>2 DEF EngineFails, EngineState
  <2>. QED  BY <2>1, <2>2
<1>5. \/ events' = events
      \/ \E t \in {"Ended", "Skipped"} :
           /\ events' = Append(events, Event(t, engine.gen, engine.id))
           /\ t = "Ended" => engine.state = "playing"
  BY DEF EngineEnds, EngineFails
<1>6. ASSUME NEW m \in Reports', m \notin Reports
      PROVE  /\ m.gen = engine.gen /\ m.type # "Opened"
             /\ m.type = "Ended" => engine.state = "playing"
  <2>1. CASE events' = events
    BY <1>1, <1>6, <2>1 DEF Reports
  <2>2. ASSUME NEW t \in {"Ended", "Skipped"}, t = "Ended" => engine.state = "playing",
               events' = Append(events, Event(t, engine.gen, engine.id))
        PROVE  /\ m.gen = engine.gen /\ m.type # "Opened"
               /\ m.type = "Ended" => engine.state = "playing"
    <3>. DEFINE e == Event(t, engine.gen, engine.id)
    <3>1. e \in Message /\ e.gen = engine.gen /\ e.type = t
      BY <1>3, MessageForms DEF Types
    <3>2. ToSet(events') = ToSet(events) \cup {e}
      BY <1>2, <2>2, <3>1, InAppend
    <3>. HIDE DEF e
    <3>3. Reports' = Reports \cup {e}
      BY <1>1, <3>2 DEF Reports
    <3>4. m = e
      BY <1>6, <3>3
    <3>. QED  BY <2>2, <3>1, <3>4
  <2>. QED  BY <1>5, <2>1, <2>2
<1>7. Shown' <=> Shown
  BY <1>1, <1>4 DEF Shown
<1>8. Rising(cmds') /\ OpensAhead' /\ OpenedIsOpen'
  <2>1. Rising(cmds')
    BY <1>1 DEF SoundInv
  <2>2. OpensAhead'
    BY <1>1, <1>4, <1>6 DEF SoundInv, OpensAhead
  <2>3. OpenedIsOpen'
    BY <1>1, <1>4, <1>6 DEF SoundInv, OpenedIsOpen
  <2>. QED  BY <2>1, <2>2, <2>3
<1>9. ASSUME ~strayed' PROVE Faithful'
  <2>0. strayed' = strayed
    BY <1>1
  <2>10. ~strayed
    BY <1>9, <2>0
  <2>1. Faithful
    BY <2>10 DEF SoundInv
  <2>2. PlaysFirst(cmds') /\ PlayIsShown' /\ PlayingIsShown'
    BY <1>1, <1>4, <1>7, <2>1 DEF Faithful, PlayIsShown, PlayingIsShown
  <2>3. EndIsShown'
    <3>1. ended' = ended
      BY <1>1
    <3>2. /\ ended => (Shown \/ current = None) /\ NoOpen(cmds)
          /\ \A m \in Reports : m.type = "Ended" /\ m.gen = req => Shown \/ current = None
      BY <2>1 DEF Faithful, EndIsShown
    <3>3. ended' => (Shown' \/ current' = None) /\ NoOpen(cmds')
      BY <1>1, <1>7, <3>1, <3>2
    <3>4. engine.state = "playing" => Shown \/ current = None
      BY <2>1 DEF Faithful, PlayingIsShown
    <3>. QED  BY <1>1, <1>6, <1>7, <3>2, <3>3, <3>4 DEF EndIsShown
  <2>. QED  BY <2>2, <2>3 DEF Faithful
<1>. QED  BY <1>8, <1>9 DEF SoundInv

LEMMA TickBeginsSounds ==
  ASSUME QueueInv, SoundInv, TickBegins
  PROVE  SoundInv'
<1>1. /\ batch' = events /\ events' = <<>> /\ batch = <<>>
      /\ UNCHANGED <<visible, current, req, ended, opened, applied, cmds, engine, strayed>>
  BY DEF TickBegins, QueueInv, playlistVars, tableVars, queueVars, mirrorVars
<1>2. Reports' = Reports
  BY <1>1, NothingIn DEF Reports
<1>3. Shown' <=> Shown
  BY <1>1 DEF Shown
<1>4. Rising(cmds') /\ OpensAhead' /\ OpenedIsOpen'
  BY <1>1, <1>2 DEF SoundInv, OpensAhead, OpenedIsOpen
<1>5. ASSUME ~strayed' PROVE Faithful'
  <2>1. strayed' = strayed /\ ended' = ended
    BY <1>1
  <2>2. ~strayed
    BY <1>5, <2>1
  <2>3. Faithful
    BY <2>2 DEF SoundInv
  <2>4. PlaysFirst(cmds') /\ PlayIsShown' /\ PlayingIsShown'
    BY <1>1, <1>3, <2>3 DEF Faithful, PlayIsShown, PlayingIsShown
  <2>5. EndIsShown'
    BY <1>1, <1>2, <1>3, <2>1, <2>3 DEF Faithful, EndIsShown
  <2>. QED  BY <2>4, <2>5 DEF Faithful
<1>. QED  BY <1>4, <1>5 DEF SoundInv

\* An end that is accepted for the last Open is that of the row shown.
LEMMA ApplyEventSounds ==
  ASSUME QueueInv, SoundInv, ApplyEvent
  PROVE  SoundInv'
<1>. DEFINE e == Head(batch)
<1>1. /\ batch # <<>> /\ batch' = Tail(batch)
      /\ UNCHANGED <<visible, current, req, cmds, events, engine>>
  BY DEF ApplyEvent, playlistVars, tableVars, queueVars
<1>2. /\ \/ opened' = <<e>> /\ applied' = applied
         \/ applied' = Append(applied, e) /\ opened' = opened
         \/ applied' = applied /\ opened' = opened
      /\ (ended' = ended \/ (e.type = "Ended" /\ session = e.gen))
      /\ strayed' = (strayed \/ (e.type = "Ended" /\ session = e.gen /\ e.gen # req))
  BY DEF ApplyEvent
<1>3. /\ batch \in Seq(Message) /\ applied \in Seq(Message)
      /\ req \in Nat
  BY DEF QueueInv, QueueTypes
<1>4. e \in Message /\ ToSet(batch) = {e} \cup ToSet(batch')
  BY <1>1, <1>3, InTail
<1>. HIDE DEF e
<1>5. Reports' \subseteq Reports /\ e \in Reports
  <2>1. ToSet(<<e>>) = {e}
    BY DEF ToSet
  <2>2. ToSet(Append(applied, e)) = ToSet(applied) \cup {e}
    BY <1>3, <1>4, InAppend
  <2>3. ToSet(applied') \subseteq ToSet(applied) \cup {e} /\ ToSet(opened') \subseteq ToSet(opened) \cup {e}
    BY <1>2, <2>1, <2>2
  <2>. QED  BY <1>1, <1>4, <2>3 DEF Reports
<1>6. Shown' <=> Shown
  BY <1>1 DEF Shown
<1>7. Rising(cmds') /\ OpensAhead' /\ OpenedIsOpen'
  BY <1>1, <1>5 DEF SoundInv, OpensAhead, OpenedIsOpen
<1>8. ASSUME ~strayed' PROVE Faithful'
  <2>1. ~strayed /\ ~(e.type = "Ended" /\ session = e.gen /\ e.gen # req)
    BY <1>2, <1>8
  <2>2. Faithful
    BY <2>1 DEF SoundInv
  <2>3. PlaysFirst(cmds') /\ PlayIsShown' /\ PlayingIsShown'
    BY <1>1, <1>6, <2>2 DEF Faithful, PlayIsShown, PlayingIsShown
  <2>4. /\ ended => (Shown \/ current = None) /\ NoOpen(cmds)
        /\ \A m \in Reports : m.type = "Ended" /\ m.gen = req => Shown \/ current = None
    BY <2>2 DEF Faithful, EndIsShown
  <2>5. CASE ended' = ended
    <3>1. ended' => (Shown' \/ current' = None) /\ NoOpen(cmds')
      BY <1>1, <1>6, <2>4, <2>5
    <3>2. EndIsShown'
      BY <1>1, <1>5, <1>6, <2>4, <3>1 DEF EndIsShown
    <3>. QED  BY <2>3, <3>2 DEF Faithful
  <2>6. CASE e.type = "Ended" /\ session = e.gen
    <3>1. e.gen = req
      BY <2>1, <2>6
    <3>2. Shown \/ current = None
      BY <1>5, <2>4, <2>6, <3>1
    <3>3. NoOpen(cmds)
      <4>1. ASSUME NEW o \in ToSet(cmds), o.type = "Open" PROVE FALSE
        <5>1. req < o.gen /\ o.gen <= req /\ o.gen \in Int
          BY <1>5, <3>1, <4>1, ReportsAreMessages DEF SoundInv, OpensAhead, Message
        <5>. QED  BY <1>3, <5>1
      <4>. QED  BY <4>1 DEF NoOpen
    <3>4. EndIsShown'
      BY <1>1, <1>5, <1>6, <2>4, <3>2, <3>3 DEF EndIsShown
    <3>. QED  BY <2>3, <3>4 DEF Faithful
  <2>. QED  BY <1>2, <2>5, <2>6
<1>. QED  BY <1>7, <1>8 DEF SoundInv

\* An accepted opening is that of the awaited row, and it is open.
LEMMA TakeOpenedSounds ==
  ASSUME TableInv, PassInv, QueueInv, SoundInv, TakeOpened
  PROVE  SoundInv'
<1>1. opened' = <<>> /\ UNCHANGED <<batch, applied, req, ended, events, engine>>
  BY DEF TakeOpened
<1>2. Reports' \subseteq Reports
  BY <1>1, NothingIn DEF Reports
<1>3. CASE UNCHANGED <<playlistVars, current, cmds, strayed>>
  <2>1. UNCHANGED <<visible, current, cmds, strayed>>
    BY <1>3 DEF playlistVars, tableVars
  <2>2. Shown' <=> Shown
    BY <1>1, <2>1 DEF Shown
  <2>3. Rising(cmds') /\ OpensAhead' /\ OpenedIsOpen'
    BY <1>1, <1>2, <2>1 DEF SoundInv, OpensAhead, OpenedIsOpen
  <2>4. ASSUME ~strayed' PROVE Faithful'
    <3>1. strayed' = strayed /\ ended' = ended
      BY <1>1, <2>1
    <3>2. ~strayed
      BY <2>4, <3>1
    <3>3. Faithful
      BY <3>2 DEF SoundInv
    <3>4. PlaysFirst(cmds') /\ PlayIsShown' /\ PlayingIsShown'
      BY <1>1, <2>1, <2>2, <3>3 DEF Faithful, PlayIsShown, PlayingIsShown
    <3>5. EndIsShown'
      BY <1>1, <1>2, <2>1, <2>2, <3>1, <3>3 DEF Faithful, EndIsShown
    <3>. QED  BY <3>4, <3>5 DEF Faithful
  <2>. QED  BY <2>3, <2>4 DEF SoundInv
<1>4. CASE ~(opened = <<>> \/ pending \notin DOMAIN visible)
  <2>1. /\ opened # <<>> /\ pending \in DOMAIN visible
        /\ current' = pending /\ cmds' = Append(cmds, Play) /\ shuffle' = shuffle
        /\ \E k \in TrackKeys : UpdateTags(visible[pending], k)
    BY <1>4 DEF TakeOpened, Send
  <2>2. visible' = visible
    BY <2>1, UpdateTagsDoes
  <2>3. /\ opened \in Seq(Message) /\ cmds \in Seq(Message) /\ req \in Nat
        /\ \A m \in ToSet(opened) : m.gen = req /\ m.type = "Opened"
    BY DEF QueueInv, QueueTypes
  <2>4. 1 \in DOMAIN opened
    BY <2>1, <2>3
  <2>5. opened[1] \in ToSet(opened)
    BY <2>4 DEF ToSet
  <2>6. opened[1] \in Reports /\ opened[1].gen = req /\ opened[1].type = "Opened"
    BY <2>3, <2>5 DEF Reports
  <2>7. visible[pending] = opened[1].id /\ opened[1].id = engine.id
    BY <2>1, <2>6, AnswerIsOfRow DEF AnswerGoesToItsRow, SoundInv, OpenedIsOpen
  <2>8. Shown'
    BY <1>1, <2>1, <2>2, <2>7 DEF Shown
  <2>9. NoOpen(cmds)
    <3>1. ASSUME NEW o \in ToSet(cmds), o.type = "Open" PROVE FALSE
      <4>1. req < o.gen /\ o.gen <= req /\ o.gen \in Int
        BY <2>6, <3>1, ReportsAreMessages DEF SoundInv, OpensAhead, Message
      <4>. QED  BY <2>3, <4>1
    <3>. QED  BY <3>1 DEF NoOpen
  <2>10. Play \in Message /\ Play.type = "Play"
    BY MessageForms
  <2>11. Rising(cmds') /\ NoOpen(cmds') /\ PlaysFirst(cmds')
    <3>. DEFINE x == Play
    <3>1. x \in Message /\ x.type # "Open"
      BY <2>10
    <3>. HIDE DEF x
    <3>2. /\ Rising(cmds) => Rising(Append(cmds, x))
          /\ NoOpen(cmds) => NoOpen(Append(cmds, x))
      BY <2>3, <3>1, AppendSends
    <3>3. NoOpen(Append(cmds, x))
      BY <2>9, <3>2
    <3>4. cmds' \in Seq(Message)
      BY <2>1, <2>3, <2>10
    <3>5. \A i \in DOMAIN cmds' : cmds'[i] \in ToSet(cmds')
      BY <3>4 DEF ToSet
    <3>6. NoOpen(cmds')
      BY <2>1, <3>3 DEF x
    <3>7. PlaysFirst(cmds')
      BY <3>5, <3>6 DEF PlaysFirst, NoOpen
    <3>. QED  BY <2>1, <3>2, <3>6, <3>7 DEF SoundInv, x
  <2>12. OpensAhead' /\ OpenedIsOpen'
    BY <1>1, <1>2, <2>11 DEF SoundInv, OpensAhead, OpenedIsOpen, NoOpen
  <2>13. Faithful'
    BY <2>8, <2>11 DEF Faithful, PlayIsShown, PlayingIsShown, EndIsShown
  <2>. QED  BY <2>11, <2>12, <2>13 DEF SoundInv
<1>. QED  BY <1>3, <1>4 DEF TakeOpened

\* Of what is sent, nothing is lost by a Stop or an Open behind it.
LEMMA BehindSends ==
  ASSUME NEW s \in Seq(Message), NEW x \in Message, x.type \in {"Stop", "Open"}
  PROVE  /\ PlaysFirst(s) => PlaysFirst(Append(s, x))
         /\ StoppedAfter(s) => StoppedAfter(Append(s, x))
         /\ HasStop(s) => HasStop(Append(s, x))
         /\ NoPlay(s) => NoPlay(Append(s, x))
         /\ x.type = "Stop" => /\ StoppedAfter(Append(s, x)) /\ HasStop(Append(s, x))
                               /\ Rising(s) => Rising(Append(s, x))
                               /\ NoOpen(s) => NoOpen(Append(s, x))
<1>1. x.type # "Play" /\ (x.type = "Stop" => x.type # "Open")
  OBVIOUS
<1>. QED  BY <1>1, AppendSends, Zenon

LEMMA StopIsSent ==
  ASSUME NEW s \in Seq(Message), NEW t, t = s \/ t = Append(s, Stop)
  PROVE  /\ t \in Seq(Message) /\ ToSet(t) \subseteq ToSet(s) \cup {Stop}
         /\ PlaysFirst(s) => PlaysFirst(t)
         /\ StoppedAfter(s) => StoppedAfter(t)
         /\ HasStop(s) => HasStop(t)
         /\ NoPlay(s) => NoPlay(t)
         /\ Rising(s) => Rising(t)
         /\ NoOpen(s) => NoOpen(t)
         /\ t = Append(s, Stop) => StoppedAfter(t) /\ HasStop(t)
<1>1. Stop \in Message /\ Stop.type = "Stop"
  BY MessageForms
<1>2. CASE t = s
  <2>1. t # Append(s, Stop)
    BY <1>1, <1>2
  <2>. QED  BY <1>2, <2>1, Zenon
<1>3. CASE t = Append(s, Stop)
  <2>. DEFINE x == Stop
  <2>1. x \in Message /\ x.type = "Stop" /\ t = Append(s, x)
    BY <1>1, <1>3
  <2>. HIDE DEF x
  <2>2. t \in Seq(Message) /\ ToSet(t) \subseteq ToSet(s) \cup {x}
    BY <2>1, InAppend
  <2>3. /\ PlaysFirst(s) => PlaysFirst(t)
        /\ StoppedAfter(s) => StoppedAfter(t)
        /\ HasStop(s) => HasStop(t)
        /\ NoPlay(s) => NoPlay(t)
        /\ Rising(s) => Rising(t)
        /\ NoOpen(s) => NoOpen(t)
        /\ StoppedAfter(t) /\ HasStop(t)
    BY <2>1, BehindSends
  <2>. QED  BY <2>2, <2>3, Zenon DEF x
<1>. QED  BY <1>2, <1>3

\* The row shown stays the row shown, or there is none and the engine is
\* stopped.
Follows(t, s) == \/ (Shown => Shown') /\ (current = None => current' = None)
                 \/ current' = None /\ t = Append(s, Stop)

LEMMA SoundSends ==
  ASSUME QueueInv, SoundInv, Reports' \subseteq Reports, UNCHANGED <<engine, req>>,
         ended' => ended, cmds' = cmds \/ cmds' = Append(cmds, Stop),
         ~strayed' => ~strayed /\ Follows(cmds', cmds)
  PROVE  SoundInv'
<1>1. cmds \in Seq(Message)
  BY DEF QueueInv, QueueTypes
<1>2. /\ ToSet(cmds') \subseteq ToSet(cmds) \cup {Stop}
      /\ PlaysFirst(cmds) => PlaysFirst(cmds')
      /\ StoppedAfter(cmds) => StoppedAfter(cmds')
      /\ HasStop(cmds) => HasStop(cmds')
      /\ NoPlay(cmds) => NoPlay(cmds')
      /\ Rising(cmds) => Rising(cmds')
      /\ NoOpen(cmds) => NoOpen(cmds')
      /\ cmds' = Append(cmds, Stop) => StoppedAfter(cmds') /\ HasStop(cmds')
  BY <1>1, StopIsSent
<1>3. Stop.type # "Open"
  BY MessageForms
<1>4. Rising(cmds') /\ OpensAhead' /\ OpenedIsOpen'
  BY <1>2, <1>3 DEF SoundInv, OpensAhead, OpenedIsOpen
<1>5. ASSUME ~strayed' PROVE Faithful'
  <2>1. Faithful /\ Follows(cmds', cmds)
    BY <1>5 DEF SoundInv
  <2>2. /\ ended => (Shown \/ current = None) /\ NoOpen(cmds)
        /\ \A m \in Reports : m.type = "Ended" /\ m.gen = req => Shown \/ current = None
        /\ PlaysFirst(cmds) /\ PlayIsShown /\ PlayingIsShown
    BY <2>1 DEF Faithful, EndIsShown
  <2>3. /\ (Shown \/ current = None) => (Shown' \/ current' = None)
        /\ PlaysFirst(cmds')
    BY <1>2, <2>1, <2>2, Zenon DEF Follows
  <2>4. PlayIsShown'
    BY <1>2, <2>1, <2>2, Zenon DEF Follows, PlayIsShown
  <2>5. PlayingIsShown'
    <3>1. engine.state = "playing" => Shown \/ (current = None /\ HasStop(cmds))
      BY <2>2 DEF PlayingIsShown
    <3>2. (Shown \/ (current = None /\ HasStop(cmds))) => (Shown' \/ (current' = None /\ HasStop(cmds')))
      BY <1>2, <2>1, Zenon DEF Follows
    <3>3. engine'.state = engine.state
      OBVIOUS
    <3>. QED  BY <3>1, <3>2, <3>3 DEF PlayingIsShown
  <2>6. EndIsShown'
    <3>1. ended' => (Shown' \/ current' = None) /\ NoOpen(cmds')
      BY <1>2, <2>2, <2>3
    <3>. QED  BY <2>2, <2>3, <3>1 DEF EndIsShown
  <2>. QED  BY <2>3, <2>4, <2>5, <2>6 DEF Faithful
<1>. QED  BY <1>4, <1>5 DEF SoundInv

\* play_track: the opening is the last, nothing has been reported of it.
LEMMA SoundAsks ==
  ASSUME QueueInv, SoundInv, Reports' \subseteq Reports, UNCHANGED engine,
         req' = req + 1, ~ended', NEW s, s = cmds \/ s = Append(cmds, Stop),
         NEW o \in Message, o.type = "Open", o.gen = req + 1, cmds' = Append(s, o),
         ~strayed' => ~strayed /\ Follows(s, cmds)
  PROVE  SoundInv'
<1>1. cmds \in Seq(Message) /\ engine \in EngineState /\ engine.gen <= req /\ req \in Nat
  BY DEF QueueInv, QueueTypes
<1>2. /\ s \in Seq(Message) /\ ToSet(s) \subseteq ToSet(cmds) \cup {Stop}
      /\ PlaysFirst(cmds) => PlaysFirst(s)
      /\ StoppedAfter(cmds) => StoppedAfter(s)
      /\ HasStop(cmds) => HasStop(s)
      /\ NoPlay(cmds) => NoPlay(s)
      /\ Rising(cmds) => Rising(s)
      /\ s = Append(cmds, Stop) => StoppedAfter(s) /\ HasStop(s)
  BY <1>1, StopIsSent
<1>3. /\ PlaysFirst(s) => PlaysFirst(cmds')
      /\ StoppedAfter(s) => StoppedAfter(cmds')
      /\ HasStop(s) => HasStop(cmds')
      /\ NoPlay(s) => NoPlay(cmds')
  BY <1>2, BehindSends
<1>4. Stop.type # "Open"
  BY MessageForms
<1>5. \A m \in ToSet(s) : m.type = "Open" => m.gen \in Int /\ m.gen <= req
  BY <1>2, <1>4, ReportsAreMessages DEF Message
<1>6. \A m \in Reports : m.gen \in Int /\ m.gen <= req
  BY ReportsAreMessages DEF Message
<1>7. engine.gen \in Int
  BY <1>1 DEF EngineState
<1>8. Rising(cmds')
  <2>1. \A m \in ToSet(s) : m.type = "Open" => m.gen < o.gen
    BY <1>1, <1>5
  <2>. QED  BY <1>2, <2>1, AppendSends DEF SoundInv
<1>9. ToSet(cmds') = ToSet(s) \cup {o}
  BY <1>2, InAppend
<1>10. OpensAhead'
  <2>. SUFFICES ASSUME NEW p \in ToSet(cmds'), p.type = "Open"
                PROVE  engine.gen < p.gen /\ \A m \in Reports : m.gen < p.gen
    BY DEF OpensAhead
  <2>1. CASE p = o
    BY <1>1, <1>6, <1>7, <2>1
  <2>2. CASE p \in ToSet(cmds)
    BY <2>2 DEF SoundInv, OpensAhead
  <2>. QED  BY <1>2, <1>4, <1>9, <2>1, <2>2
<1>11. \A m \in Reports' : m.gen # req'
  BY <1>1, <1>6
<1>12. OpenedIsOpen'
  BY <1>11 DEF OpenedIsOpen
<1>13. ASSUME ~strayed' PROVE Faithful'
  <2>1. Faithful /\ Follows(s, cmds)
    BY <1>13 DEF SoundInv
  <2>2. PlaysFirst(cmds) /\ PlayIsShown /\ PlayingIsShown
    BY <2>1 DEF Faithful
  <2>3. PlaysFirst(cmds')
    BY <1>2, <1>3, <2>2, Zenon
  <2>4. PlayIsShown'
    BY <1>2, <1>3, <2>1, <2>2, Zenon DEF Follows, PlayIsShown
  <2>5. PlayingIsShown'
    <3>1. engine.state = "playing" => Shown \/ (current = None /\ HasStop(cmds))
      BY <2>2 DEF PlayingIsShown
    <3>2. (Shown \/ (current = None /\ HasStop(cmds))) => (Shown' \/ (current' = None /\ HasStop(cmds')))
      BY <1>2, <1>3, <2>1, Zenon DEF Follows
    <3>3. engine'.state = engine.state
      OBVIOUS
    <3>. QED  BY <3>1, <3>2, <3>3 DEF PlayingIsShown
  <2>6. EndIsShown'
    BY <1>11 DEF EndIsShown
  <2>. QED  BY <2>3, <2>4, <2>5, <2>6 DEF Faithful
<1>. QED  BY <1>8, <1>10, <1>12, <1>13 DEF SoundInv

LEMMA PlayTrackSounds ==
  ASSUME QueueInv, SoundInv, TableInv', Reports' \subseteq Reports, UNCHANGED engine,
         NEW i \in DOMAIN visible', NEW sent \in {<<>>, <<Stop>>}, PlayTrack(i, visible', sent),
         ~strayed' => ~strayed /\ Follows(cmds \o sent, cmds)
  PROVE  SoundInv'
<1>. DEFINE o == Open(req + 1, visible'[i])
<1>1. req' = req + 1 /\ ended' = FALSE /\ cmds' = cmds \o sent \o <<o>>
  BY DEF PlayTrack
<1>2. cmds \in Seq(Message) /\ req \in Nat
  BY DEF QueueInv, QueueTypes
<1>3. Lists(visible', ToSet(rows')) /\ ToSet(rows') \subseteq 0 .. nextId' - 1 /\ nextId' \in Nat
  BY DEF TableInv
<1>4. DOMAIN visible' = 1 .. Len(visible') /\ visible'[i] \in ToSet(rows')
  BY <1>3, ListsIndex
<1>5. visible'[i] \in Int
  BY <1>3, <1>4
<1>6. o \in Message /\ o.type = "Open" /\ o.gen = req + 1
  BY <1>2, <1>5, MessageForms
<1>. HIDE DEF o
<1>. DEFINE s == cmds \o sent
<1>7. s \in Seq(Message) /\ (s = cmds \/ s = Append(cmds, Stop))
  <2>1. Stop \in Message
    BY MessageForms
  <2>2. CASE sent = <<>>
    BY <1>2, <2>2
  <2>3. CASE sent = <<Stop>>
    <3>. DEFINE x == Stop
    <3>1. sent = <<x>> /\ x \in Message
      BY <2>1, <2>3
    <3>. HIDE DEF x
    <3>2. cmds \o <<x>> = Append(cmds, x) /\ Append(cmds, x) \in Seq(Message)
      BY <1>2, <3>1
    <3>. QED  BY <3>1, <3>2 DEF x
  <2>. QED  BY <2>2, <2>3
<1>8. cmds' = s \o <<o>>
  BY <1>1
<1>9. ~strayed' => ~strayed /\ Follows(s, cmds)
  OBVIOUS
<1>. HIDE DEF s
<1>10. cmds' = Append(s, o)
  BY <1>6, <1>7, <1>8
<1>. QED  BY <1>1, <1>6, <1>7, <1>9, <1>10, SoundAsks

\* The row shown where neither the order nor the current row changes.
LEMMA StillFollows ==
  ASSUME UNCHANGED <<visible, current, engine>>, NEW t, NEW s
  PROVE  Follows(t, s)
BY DEF Follows, Shown

LEMMA GoesSounds ==
  ASSUME QueueInv, SoundInv, TableInv', Reports' \subseteq Reports, strayed' = strayed,
         UNCHANGED <<visible, current, engine>>, NEW i \in DOMAIN visible \cup {None}, GoTo(i)
  PROVE  SoundInv'
<1>1. \A t, s : Follows(t, s)
  BY StillFollows
<1>2. ~strayed' => ~strayed
  OBVIOUS
<1>3. CASE i = None
  <2>1. cmds' = cmds /\ ended' = ended /\ req' = req
    BY <1>3 DEF GoTo
  <2>. QED  BY <1>1, <1>2, <2>1, SoundSends
<1>4. CASE i # None
  <2>1. i \in DOMAIN visible' /\ PlayTrack(i, visible', <<>>)
    BY <1>4 DEF GoTo
  <2>. QED  BY <1>1, <1>2, <2>1, PlayTrackSounds
<1>. QED  BY <1>3, <1>4

LEMMA StopSounds ==
  ASSUME QueueInv, SoundInv, Reports' \subseteq Reports, strayed' = strayed,
         UNCHANGED <<visible, current, engine, req, ended>>, Sent(Stop)
  PROVE  SoundInv'
<1>1. \A t, s : Follows(t, s)
  BY StillFollows
<1>2. (ended' => ended) /\ (~strayed' => ~strayed)
  OBVIOUS
<1>. QED  BY <1>1, <1>2, SoundSends DEF Sent

LEMMA DispatchSounds ==
  ASSUME TableInv, PassInv, QueueInv, SoundInv, TableInv', Dispatch
  PROVE  SoundInv'
<1>1. /\ applied # <<>> /\ applied' = Tail(applied) /\ strayed' = strayed
      /\ UNCHANGED <<tableVars, shuffle, current, opened, batch, events, engine>>
  BY DEF Dispatch
<1>2. visible' = visible /\ current \in Position
  BY <1>1 DEF QueueInv, QueueTypes, tableVars
<1>3. ToSet(applied') \subseteq ToSet(applied)
  BY <1>1, InTail DEF QueueInv, QueueTypes
<1>4. Reports' \subseteq Reports
  BY <1>1, <1>3 DEF Reports
<1>5. \/ Send(Stop) /\ UNCHANGED <<req, ended>>
      \/ \E rep : WithNext(rep, SkipTo)
  BY DEF Dispatch, Skip, OpenFailed
<1>6. CASE Send(Stop) /\ UNCHANGED <<req, ended>>
  <2>1. Sent(Stop)
    BY <1>6 DEF Sent, Send
  <2>. QED  BY <1>1, <1>2, <1>4, <1>6, <2>1, StopSounds
<1>7. CASE \E rep : WithNext(rep, SkipTo)
  <2>1. PICK i \in DOMAIN visible \cup {None} : SkipTo(i)
    BY <1>1, <1>2, <1>7, NextSkip
  <2>2. CASE i = None
    <3>1. Sent(Stop) /\ UNCHANGED <<req, ended>>
      BY <2>1, <2>2 DEF SkipTo, Sent, Send
    <3>. QED  BY <1>1, <1>2, <1>4, <3>1, StopSounds
  <2>3. CASE i # None
    <3>1. GoTo(i)
      BY <2>1, <2>3 DEF SkipTo, GoTo
    <3>. QED  BY <1>1, <1>2, <1>4, <3>1, GoesSounds
  <2>. QED  BY <2>2, <2>3
<1>. QED  BY <1>5, <1>6, <1>7

\* Repeat One: the track that is over is the one shown.
LEMMA RepeatSounds ==
  ASSUME QueueInv, SoundInv, Reports' = Reports, strayed' = strayed, ended, ~ended',
         current # None, UNCHANGED <<visible, current, engine, req>>, Send(Play)
  PROVE  SoundInv'
<1>1. cmds \in Seq(Message)
  BY DEF QueueInv, QueueTypes
<1>. DEFINE x == Play
<1>2. x \in Message /\ x.type = "Play" /\ x.type # "Open" /\ cmds' = Append(cmds, x)
  BY MessageForms DEF Send
<1>. HIDE DEF x
<1>3. ToSet(cmds') = ToSet(cmds) \cup {x}
  BY <1>1, <1>2, InAppend
<1>4. /\ Rising(cmds) => Rising(cmds')
      /\ (PlaysFirst(cmds) /\ NoOpen(cmds)) => PlaysFirst(cmds')
  BY <1>1, <1>2, AppendSends
<1>5. Rising(cmds') /\ OpensAhead' /\ OpenedIsOpen'
  BY <1>2, <1>3, <1>4 DEF SoundInv, OpensAhead, OpenedIsOpen
<1>6. ASSUME ~strayed' PROVE Faithful'
  <2>1. Faithful
    BY <1>6 DEF SoundInv
  <2>2. Shown /\ NoOpen(cmds) /\ PlaysFirst(cmds)
    BY <2>1 DEF Faithful, EndIsShown
  <2>3. Shown'
    BY <2>2 DEF Shown
  <2>4. PlaysFirst(cmds')
    BY <1>4, <2>2
  <2>. QED  BY <2>3, <2>4 DEF Faithful, PlayIsShown, PlayingIsShown, EndIsShown
<1>. QED  BY <1>5, <1>6 DEF SoundInv

LEMMA TickEndsSounds ==
  ASSUME TableInv, PassInv, QueueInv, SoundInv, TableInv', TickEnds
  PROVE  SoundInv'
<1>1. /\ strayed' = strayed
      /\ UNCHANGED <<tableVars, shuffle, current, opened, batch, applied, events, engine>>
  BY DEF TickEnds
<1>2. visible' = visible /\ current \in Position
  BY <1>1 DEF QueueInv, QueueTypes, tableVars
<1>3. Reports' = Reports
  BY <1>1 DEF Reports
<1>4. \/ UNCHANGED <<cmds, req, ended>>
      \/ ended /\ current # None /\ Send(Play) /\ ~ended' /\ req' = req
      \/ WithNext(repeat, AutoAdvanceTo)
  BY DEF TickEnds
<1>5. CASE UNCHANGED <<cmds, req, ended>>
  BY <1>1, <1>2, <1>3, <1>5, StopSounds DEF Sent
<1>6. CASE ended /\ current # None /\ Send(Play) /\ ~ended' /\ req' = req
  BY <1>1, <1>2, <1>3, <1>6, RepeatSounds
<1>7. CASE WithNext(repeat, AutoAdvanceTo)
  <2>1. PICK i \in DOMAIN visible \cup {None} : AutoAdvanceTo(i)
    BY <1>1, <1>2, <1>7, NextAuto
  <2>2. CASE i = None
    <3>1. cmds' = cmds /\ req' = req /\ (ended' => ended)
      BY <2>1, <2>2 DEF AutoAdvanceTo
    <3>2. Follows(cmds', cmds)
      BY <1>1, <1>2, StillFollows
    <3>3. ~strayed' => ~strayed
      BY <1>1
    <3>. QED  BY <1>1, <1>3, <3>1, <3>2, <3>3, SoundSends
  <2>3. CASE i # None
    <3>1. GoTo(i)
      BY <2>1, <2>3 DEF AutoAdvanceTo, GoTo
    <3>. QED  BY <1>1, <1>2, <1>3, <3>1, GoesSounds
  <2>. QED  BY <2>2, <2>3
<1>. QED  BY <1>4, <1>5, <1>6, <1>7

\* playlist_op finds the row shown again, unless it has been removed.
LEMMA MovedNone == ASSUME TableInv PROVE Moved(None) = None
<1>1. DOMAIN visible = 1 .. Len(visible)
  BY ListsIndex DEF TableInv
<1>2. None \notin DOMAIN visible
  BY <1>1 DEF None
<1>. QED  BY <1>2 DEF Moved

LEMMA MovedFollows ==
  ASSUME TableInv, TableInv', UNCHANGED engine, current' = Moved(current),
         current \in DOMAIN visible => visible[current] \in ToSet(rows'), NEW t, NEW s
  PROVE  Follows(t, s)
<1>1. current = None => current' = None
  BY MovedNone
<1>2. ASSUME Shown PROVE Shown'
  <2>. DEFINE v == visible'  id == visible[current]  T == ToSet(rows')
  <2>1. current' = IndexOf(v, id) /\ id \in T /\ id = engine.id
    BY <1>2 DEF Shown, Moved
  <2>2. Lists(v, T)
    BY DEF TableInv
  <2>. HIDE DEF v, id, T
  <2>3. IndexOf(v, id) \in DOMAIN v /\ v[IndexOf(v, id)] = id
    BY <2>1, <2>2, IndexIsPlace
  <2>4. current' \in DOMAIN v /\ v[current'] = engine.id
    BY <2>1, <2>3
  <2>. QED  BY <2>4 DEF Shown, v
<1>. QED  BY <1>1, <1>2 DEF Follows

LEMMA NoneFollows ==
  ASSUME TableInv, current' = Moved(None), Send(Stop)
  PROVE  Follows(cmds', cmds)
BY MovedNone DEF Follows, Send

LEMMA RemoveRowSounds ==
  ASSUME TableInv, PassInv, QueueInv, SoundInv, TableInv', Reports' = Reports,
         UNCHANGED engine, NEW i, RemoveRow(i)
  PROVE  SoundInv'
<1>. DEFINE cur == IF current = i THEN None ELSE IF current > i THEN current - 1 ELSE current
<1>1. /\ i \in DOMAIN visible /\ Remove1(visible[i]) /\ current' = Moved(cur)
      /\ IF current = i THEN Send(Stop) ELSE cmds' = cmds
      /\ strayed' = (strayed \/ current > i \/ pending = i)
      /\ req' = req /\ ended' = ended
  BY DEF RemoveRow, PlaylistOp, mirrorVars
<1>2. Lists(visible, ToSet(rows)) /\ current \in Position
  BY DEF TableInv, QueueInv, QueueTypes
<1>3. cmds' = cmds \/ cmds' = Append(cmds, Stop)
  BY <1>1 DEF Send
<1>4. ASSUME ~strayed' PROVE ~strayed /\ Follows(cmds', cmds)
  <2>1. ~strayed /\ ~(current > i)
    BY <1>1, <1>4
  <2>2. CASE current = i
    <3>1. current' = Moved(None) /\ Send(Stop)
      BY <1>1, <2>2
    <3>. QED  BY <2>1, <3>1, NoneFollows
  <2>3. CASE current # i
    <3>1. current' = Moved(current)
      BY <1>1, <2>1, <2>3
    <3>2. ASSUME current \in DOMAIN visible PROVE visible[current] \in ToSet(rows) \ {visible[i]}
      BY <1>1, <1>2, <2>3, <3>2, ListsIndex
    <3>3. ToSet(rows') = ToSet(rows) \ {visible[i]}
      BY <1>1, RemoveKeeps
    <3>4. Follows(cmds', cmds)
      BY <3>1, <3>2, <3>3, MovedFollows
    <3>. QED  BY <2>1, <3>4
  <2>. QED  BY <2>2, <2>3
<1>. QED  BY <1>1, <1>3, <1>4, SoundSends

LEMMA ClearListSounds ==
  ASSUME TableInv, QueueInv, SoundInv, Reports' = Reports,
         UNCHANGED <<engine, strayed>>, ClearList
  PROVE  SoundInv'
<1>1. current' = Moved(None) /\ Send(Stop) /\ req' = req /\ ended' = ended
  BY DEF ClearList, PlaylistOp, mirrorVars
<1>2. Follows(cmds', cmds) /\ cmds' = Append(cmds, Stop)
  BY <1>1, NoneFollows DEF Send
<1>3. (~strayed' => ~strayed) /\ (ended' => ended)
  BY <1>1
<1>. QED  BY <1>1, <1>2, <1>3, SoundSends

\* Rows are sorted or added: none goes.
LEMMA ShownStays ==
  ASSUME TableInv, TableInv', QueueInv, SoundInv, Reports' = Reports,
         UNCHANGED <<engine, strayed, cmds, req, ended>>,
         PlaylistOp(current), ToSet(rows) \subseteq ToSet(rows')
  PROVE  SoundInv'
<1>1. current \in DOMAIN visible => visible[current] \in ToSet(rows')
  BY VisibleIds
<1>2. current' = Moved(current)
  BY DEF PlaylistOp
<1>3. Follows(cmds', cmds)
  BY <1>1, <1>2, MovedFollows
<1>4. (~strayed' => ~strayed) /\ (ended' => ended)
  OBVIOUS
<1>. QED  BY <1>3, <1>4, SoundSends

LEMMA LoadListSounds ==
  ASSUME TableInv, PassInv, QueueInv, SoundInv, Reports' = Reports,
         UNCHANGED <<engine, strayed>>, NEW ks \in Seq(TrackKeys), LoadList(ks)
  PROVE  SoundInv'
<1>1. /\ TableInv' /\ current' = None
      /\ \/ \E i \in DOMAIN visible' : PlayTrack(i, visible', <<Stop>>)
         \/ Send(Stop) /\ UNCHANGED <<req, ended>>
  BY LoadListDoes
<1>2. cmds \o <<Stop>> = Append(cmds, Stop)
  <2>. DEFINE x == Stop
  <2>1. cmds \in Seq(Message) /\ x \in Message
    BY MessageForms DEF QueueInv, QueueTypes
  <2>. HIDE DEF x
  <2>2. cmds \o <<x>> = Append(cmds, x)
    BY <2>1
  <2>. QED  BY <2>2 DEF x
<1>3. Follows(Append(cmds, Stop), cmds) /\ (~strayed' => ~strayed)
  BY <1>1 DEF Follows
<1>4. CASE \E i \in DOMAIN visible' : PlayTrack(i, visible', <<Stop>>)
  <2>1. PICK i \in DOMAIN visible' : PlayTrack(i, visible', <<Stop>>)
    BY <1>4
  <2>2. ~strayed' => ~strayed /\ Follows(cmds \o <<Stop>>, cmds)
    BY <1>2, <1>3
  <2>. QED  BY <1>1, <2>1, <2>2, PlayTrackSounds
<1>5. CASE Send(Stop) /\ UNCHANGED <<req, ended>>
  <2>1. cmds' = Append(cmds, Stop) /\ (ended' => ended)
    BY <1>5 DEF Send
  <2>. QED  BY <1>3, <1>5, <2>1, SoundSends
<1>. QED  BY <1>1, <1>4, <1>5

LEMMA WindowInputSounds ==
  ASSUME TableInv, PassInv, QueueInv, SoundInv, TableInv', WindowInput
  PROVE  SoundInv'
<1>1. UNCHANGED <<batch, applied, events, engine>>
  BY DEF WindowInput, backgroundVars, tickVars
<1>2. opened' = opened => Reports' = Reports
  BY <1>1 DEF Reports
<1>3. CASE \E i \in DOMAIN visible : RemoveRow(i)
  <2>1. PICK i : RemoveRow(i)
    BY <1>3
  <2>2. opened' = opened
    BY <2>1 DEF RemoveRow, mirrorVars
  <2>. QED  BY <1>1, <1>2, <2>1, <2>2, RemoveRowSounds
<1>4. CASE strayed' = strayed /\ \E i \in DOMAIN visible : PlayRow(i)
  <2>1. PICK i \in DOMAIN visible : PlayRow(i)
    BY <1>4
  <2>2. opened' = opened /\ current' = current /\ visible' = visible /\ PlayTrack(i, visible, <<>>)
    BY <2>1 DEF PlayRow, playlistVars, tableVars
  <2>3. i # None
    <3>1. DOMAIN visible = 1 .. Len(visible)
      BY ListsIndex DEF TableInv
    <3>. QED  BY <3>1 DEF None
  <2>4. GoTo(i)
    BY <2>2, <2>3 DEF GoTo
  <2>. QED  BY <1>1, <1>2, <1>4, <2>2, <2>4, GoesSounds
<1>5. CASE strayed' = strayed /\ ClearList
  <2>1. opened' = opened
    BY <1>5 DEF ClearList, mirrorVars
  <2>. QED  BY <1>1, <1>2, <1>5, <2>1, ClearListSounds
<1>6. CASE strayed' = strayed /\ \E c \in Columns : SortBy(c)
  <2>1. PICK c \in Columns : SortBy(c)
    BY <1>6
  <2>2. HeaderClick(c) /\ PlaylistOp(current) /\ UNCHANGED <<opened, cmds, req, ended>>
    BY <2>1 DEF SortBy, mirrorVars
  <2>3. rows' = rows
    BY <2>2, HeaderClickKeeps
  <2>. QED  BY <1>1, <1>2, <1>6, <2>2, <2>3, ShownStays
<1>7. CASE strayed' = strayed /\ (PressShuffle \/ PressRepeat)
  <2>1. UNCHANGED <<current, req, ended, opened, cmds>> /\ (ToggleShuffle \/ CycleRepeat)
    BY <1>7 DEF PressShuffle, PressRepeat, queueVars, mirrorVars
  <2>2. visible' = visible
    BY <2>1, ToggleDoes DEF CycleRepeat, tableVars
  <2>. QED  BY <1>1, <1>2, <1>7, <2>1, <2>2, StopSounds DEF Sent
<1>. QED  BY <1>3, <1>4, <1>5, <1>6, <1>7 DEF WindowInput

LEMMA TrayInputSounds ==
  ASSUME TableInv, PassInv, QueueInv, SoundInv, TableInv', TrayInput
  PROVE  SoundInv'
<1>1. UNCHANGED <<batch, applied, events, engine, strayed>>
  BY DEF TrayInput, backgroundVars, tickVars
<1>2. opened' = opened /\ current' = current /\ current \in Position
  BY DEF TrayInput, PressNext, PressPrev, PressStop, queueVars, mirrorVars, QueueInv, QueueTypes
<1>3. Reports' = Reports
  BY <1>1, <1>2 DEF Reports
<1>4. CASE PressNext \/ PressPrev
  <2>1. visible' = visible /\ \E i \in DOMAIN visible \cup {None} : GoTo(i)
    BY <1>2, <1>4, PressNextDoes, PressPrevDoes
  <2>. QED  BY <1>1, <1>2, <1>3, <2>1, GoesSounds
<1>5. CASE PressStop
  <2>1. visible' = visible /\ req' = req /\ ended' = ended /\ Sent(Stop)
    BY <1>5 DEF PressStop, playlistVars, tableVars, mirrorVars, Sent, Send
  <2>. QED  BY <1>1, <1>2, <1>3, <2>1, StopSounds
<1>. QED  BY <1>4, <1>5 DEF TrayInput

LEMMA UserInputSounds ==
  ASSUME TableInv, PassInv, QueueInv, SoundInv, TableInv', UserInput
  PROVE  SoundInv'
<1>1. ASSUME NEW ks \in Seq(TrackKeys), Loaded(ks) PROVE SoundInv'
  <2>1. UNCHANGED <<opened, batch, applied, events, engine, strayed>> /\ LoadList(ks)
    BY <1>1 DEF Loaded, LoadList, backgroundVars, tickVars
  <2>2. Reports' = Reports
    BY <2>1 DEF Reports
  <2>. QED  BY <2>1, <2>2, LoadListSounds
<1>2. ASSUME NEW k \in TrackKeys, Scanned(k) PROVE SoundInv'
  <2>1. /\ UNCHANGED <<opened, batch, applied, events, engine, strayed, cmds, req, ended>>
        /\ Add(k) /\ PlaylistOp(current)
    BY <1>2 DEF Scanned, AddTrack, mirrorVars, backgroundVars, tickVars
  <2>2. Reports' = Reports
    BY <2>1 DEF Reports
  <2>3. ToSet(rows) \subseteq ToSet(rows')
    BY <2>1, AddKeeps
  <2>. QED  BY <2>1, <2>2, <2>3, ShownStays
<1>. QED  BY <1>1, <1>2, TrayInputSounds, WindowInputSounds DEF UserInput

-----------------------------------------------------------------------------
(* The invariant and what follows from it                                  *)

LEMMA SoundStep ==
  ASSUME TableInv, PassInv, QueueInv, SoundInv, TableInv', [PlayerNext]_playerVars
  PROVE  SoundInv'
<1>1. ASSUME UNCHANGED playlistVars PROVE visible' = visible
  BY <1>1 DEF playlistVars, tableVars
<1>2. CASE EngineCommand
  <2>1. UNCHANGED <<visible, queueVars, mirrorVars, tickVars, strayed>>
    BY <1>1, <1>2 DEF EngineCommand
  <2>2. CASE EngineOpen
    BY <2>1, <2>2, EngineOpenSounds
  <2>3. CASE EnginePlay \/ EngineStop
    BY <2>1, <2>3, EnginePlaySounds
  <2>. QED  BY <1>2, <2>2, <2>3 DEF EngineCommand
<1>3. CASE EnginePolls
  <2>1. UNCHANGED <<visible, queueVars, mirrorVars, tickVars, strayed>>
    BY <1>1, <1>3 DEF EnginePolls
  <2>2. EngineEnds \/ EngineFails
    BY <1>3 DEF EnginePolls
  <2>. QED  BY <2>1, <2>2, EnginePollsSounds
<1>4. CASE UNCHANGED playerVars
  <2>1. /\ UNCHANGED <<visible, current, engine, req, ended, cmds, strayed>>
        /\ UNCHANGED <<events, batch, opened, applied>>
    BY <1>1, <1>4 DEF playerVars, queueVars, mirrorVars, tickVars
  <2>2. Reports' = Reports
    BY <2>1 DEF Reports
  <2>. QED  BY <2>1, <2>2, StopSounds DEF Sent
<1>. QED  BY <1>2, <1>3, <1>4, TickBeginsSounds, ApplyEventSounds, TakeOpenedSounds,
             DispatchSounds, TickEndsSounds, UserInputSounds DEF PlayerNext, Tick

LEMMA SoundStart ==
  ASSUME NEW ks \in Seq(TrackKeys), PlayerInit(ks)
  PROVE  SoundInv
<1>1. /\ cmds = <<>> /\ events = <<>> /\ batch = <<>> /\ opened = <<>> /\ applied = <<>>
      /\ engine.state = "none" /\ ended = FALSE
  BY DEF PlayerInit, Silence
<1>2. ToSet(cmds) = {} /\ Reports = {} /\ DOMAIN cmds = {}
  BY <1>1, NothingIn DEF Reports
<1>. QED  BY <1>1, <1>2 DEF SoundInv, Rising, OpensAhead, OpenedIsOpen, Faithful, PlaysFirst,
                            PlayIsShown, NoPlay, PlayingIsShown, EndIsShown

LEMMA SoundIsShown ==
  ASSUME SoundInv
  PROVE  ShownIsSounding
<1>. SUFFICES ASSUME cmds = <<>>, ~strayed, engine.state = "playing"
              PROVE  Shown
  BY DEF ShownIsSounding, NothingInFlight, Shown
<1>1. ~HasStop(cmds)
  BY NothingIn DEF HasStop
<1>. QED  BY <1>1 DEF SoundInv, Faithful, PlayingIsShown

\* When nothing is on its way between queue and engine, what sounds is the
\* track of the current row (playback_manager.rs, playlist_manager.rs), but
\* for the known exceptions that strayed marks.
THEOREM ShownAlwaysSounds == PlayerSpec => []ShownIsSounding
<1>. DEFINE Inv == TableInv /\ PassInv /\ QueueInv /\ SoundInv
<1>1. (\E ks \in Seq(TrackKeys) : PlayerInit(ks)) => Inv
  BY PlayerStart, SoundStart
<1>2. Inv /\ [PlayerNext]_playerVars => Inv'
  BY PlayerStep, SoundStep
<1>3. Inv => ShownIsSounding
  BY SoundIsShown
<1>. QED  BY <1>1, <1>2, <1>3, PTL DEF PlayerSpec

=============================================================================
