--------------------------- MODULE DocumentsProofs --------------------------
(***************************************************************************)
(* The values read from settings.toml and state.toml and edited agree with *)
(* each other, what one run saved the next one has, and damage to a file   *)
(* stays with the keys it is about, for any strings, columns, devices,     *)
(* damages of the files and any number of runs of the program.             *)
(*                                                                         *)
(* The tables of keys are functions of paths, so first come the paths: a   *)
(* table keeps the values under a prefix, and the keys that have to agree  *)
(* are under none that an edit of another key writes.  Then what walk      *)
(* reads, and what the hooks of parse_settings and parse_state make of it, *)
(* then the edits one after the other, and the steps of Documents: with    *)
(* them the values agree.  After that the tables again, key by key: what   *)
(* each may hold, what is written of it and read again, and that an edit   *)
(* leaves only what may be held: with that nothing is lost.  Last, a file  *)
(* that was changed by hand says what was saved under every other path,    *)
(* and each reader either takes what is said or remarks it.                *)
(***************************************************************************)
EXTENDS Documents, SequenceTheorems, FiniteSetTheorems, WellFoundedInduction, TLAPS

-----------------------------------------------------------------------------
(* Items of a list                                                          *)

\* A set of natural numbers has a least one.
LEMMA LeastNatural ==
  ASSUME NEW S \in SUBSET Nat, S # {}
  PROVE  \E m \in S : \A k \in S : m <= k
<1>. DEFINE Less == {ss \in Nat \X Nat : ss[1] < ss[2]}
<1>1. IsWellFoundedOn(Less, Nat)
  BY NatLessThanWellFounded, Zenon DEF OpToRel
<1>. HIDE DEF Less
<1>2. PICK m \in S : \A k \in S : <<k, m>> \notin Less
  BY <1>1, WFMin
<1>3. \A k \in S : ~(k < m)
  BY <1>2 DEF Less
<1>. QED  BY <1>3

\* What holds of 0 and goes from each number to the next holds of all.
LEMMA NatStep ==
  ASSUME NEW S \in SUBSET Nat, 0 \in S, \A n \in S : n + 1 \in S
  PROVE  S = Nat
<1>1. SUFFICES ASSUME Nat \ S # {} PROVE FALSE
  OBVIOUS
<1>2. PICK m \in Nat \ S : \A k \in Nat \ S : m <= k
  BY <1>1, LeastNatural
<1>3. m # 0 /\ m - 1 \in Nat /\ m - 1 \notin Nat \ S
  BY <1>2
<1>. QED  BY <1>2, <1>3

\* An item put at the end of a list.
LEMMA AppendedRange ==
  ASSUME NEW T, NEW list \in Seq(T), NEW item \in T
  PROVE  Range(Append(list, item)) = Range(list) \cup {item}
BY AppendProperties DEF Range

\* One item after the other is looked at.
LEMMA PickedSteps ==
  ASSUME NEW T, NEW list \in Seq(T), NEW places
  PROVE  \E f : /\ f[0] = <<>>
                /\ \A n \in Nat : n + 1 <= Len(list) =>
                     f[n + 1] = IF n + 1 \in places THEN Append(f[n], list[n + 1]) ELSE f[n]
                /\ Picked(list, places) = f[Len(list)]
<1> DEFINE L == Len(list)
           Step(g, n) == IF n = 0 THEN <<>>
                         ELSE IF n \in places THEN Append(g[n - 1], list[n]) ELSE g[n - 1]
           Made == {n \in Nat : \E g : g = [k \in 0 .. n |-> Step(g, k)]}
<1>1. L \in Nat
  OBVIOUS
<1>2. 0 \in Made
  <2> DEFINE g == [k \in 0 .. 0 |-> <<>>]
  <2>1. g = [k \in 0 .. 0 |-> Step(g, k)]
    OBVIOUS
  <2> QED BY <2>1
<1>3. \A n \in Made : n + 1 \in Made
  <2> SUFFICES ASSUME NEW n \in Nat, NEW g, g = [k \in 0 .. n |-> Step(g, k)]
               PROVE  n + 1 \in Made
    OBVIOUS
  <2> DEFINE h == [k \in 0 .. n + 1 |-> IF k <= n THEN g[k] ELSE Step(g, n + 1)]
  <2>1. \A k \in 0 .. n : h[k] = g[k]
    OBVIOUS
  <2>2. ASSUME NEW k \in 0 .. n + 1 PROVE h[k] = Step(h, k)
    <3>1. CASE k = 0
      BY <3>1
    <3>2. CASE k # 0
      <4>1. k - 1 \in 0 .. n
        BY <3>2
      <4>2. h[k - 1] = g[k - 1]
        BY <2>1, <4>1
      <4>3. Step(h, k) = Step(g, k)
        BY <4>2
      <4>4. CASE k <= n
        <5>1. k \in 0 .. n
          BY <4>4
        <5>2. g[k] = Step(g, k)
          BY <5>1, Zenon
        <5> QED BY <2>1, <4>3, <5>1, <5>2, Zenon
      <4>5. CASE ~(k <= n)
        <5>1. k = n + 1
          BY <4>5
        <5> QED BY <4>3, <5>1
      <4> QED BY <4>4, <4>5
    <3> QED BY <3>1, <3>2
  <2>3. h = [k \in 0 .. n + 1 |-> Step(h, k)]
    BY <2>2
  <2> HIDE DEF h, Step
  <2> QED BY <2>3
<1>4. Made = Nat
  <2>1. Made \in SUBSET Nat
    OBVIOUS
  <2> HIDE DEF Made
  <2> QED BY <1>2, <1>3, <2>1, NatStep
<1>5. \E g : g = [k \in 0 .. L |-> Step(g, k)]
  BY <1>1, <1>4
<1> HIDE DEF Made
<1> DEFINE taken[n \in 0 .. L] == IF n = 0 THEN <<>>
                                  ELSE IF n \in places THEN Append(taken[n - 1], list[n])
                                  ELSE taken[n - 1]
<1>6. taken = [n \in 0 .. L |-> Step(taken, n)]
  BY <1>5, Zenon
<1>7. Picked(list, places) = taken[L]
  BY DEF Picked
<1> HIDE DEF taken
<1>8. 0 \in 0 .. L
  BY <1>1
<1>9. ASSUME NEW n \in Nat, n + 1 <= L PROVE n + 1 \in 0 .. L /\ n + 1 # 0 /\ (n + 1) - 1 = n
  BY <1>1, <1>9
<1>10. taken[0] = <<>>
  BY <1>6, <1>8
<1>11. ASSUME NEW n \in Nat, n + 1 <= L
       PROVE  taken[n + 1] = IF n + 1 \in places THEN Append(taken[n], list[n + 1]) ELSE taken[n]
  BY <1>6, <1>9, <1>11
<1> QED BY <1>7, <1>10, <1>11

\* The items at the places, in a list.
LEMMA PickedIs ==
  ASSUME NEW T, NEW list \in Seq(T), NEW places
  PROVE  /\ Picked(list, places) \in Seq(T)
         /\ Range(Picked(list, places)) = {list[i] : i \in DOMAIN list \cap places}
<1>1. PICK f : /\ f[0] = <<>>
               /\ \A n \in Nat : n + 1 <= Len(list) =>
                    f[n + 1] = IF n + 1 \in places THEN Append(f[n], list[n + 1]) ELSE f[n]
               /\ Picked(list, places) = f[Len(list)]
  BY PickedSteps
<1> DEFINE Is(n) == /\ f[n] \in Seq(T)
                    /\ Range(f[n]) = {list[i] : i \in (1 .. n) \cap places}
           S == {n \in Nat : n <= Len(list) => Is(n)}
<1>2. Len(list) \in Nat /\ DOMAIN list = 1 .. Len(list)
  OBVIOUS
<1>3. 0 \in S
  <2>1. (1 .. 0) \cap places = {} /\ <<>> \in Seq(T) /\ Range(<<>>) = {}
    BY DEF Range
  <2> QED BY <1>1, <2>1
<1>4. ASSUME NEW n \in S PROVE n + 1 \in S
  <2> SUFFICES ASSUME n + 1 <= Len(list) PROVE Is(n + 1)
    OBVIOUS
  <2>1. Is(n) /\ n + 1 \in 1 .. Len(list) /\ list[n + 1] \in T
    BY <1>2
  <2>2. f[n + 1] = IF n + 1 \in places THEN Append(f[n], list[n + 1]) ELSE f[n]
    BY <1>1
  <2>3. CASE n + 1 \notin places
    <3>1. (1 .. n + 1) \cap places = (1 .. n) \cap places
      BY <2>3
    <3> QED BY <2>1, <2>2, <2>3, <3>1
  <2>4. CASE n + 1 \in places
    BY <2>1, <2>2, <2>4, AppendedRange
  <2> QED BY <2>3, <2>4
<1>5. S \in SUBSET Nat
  OBVIOUS
<1> HIDE DEF S
<1>6. S = Nat
  BY <1>3, <1>4, <1>5, NatStep
<1>7. Is(Len(list))
  <2>1. Len(list) \in S
    BY <1>2, <1>6
  <2> QED BY <1>2, <2>1 DEF S
<1> QED BY <1>1, <1>2, <1>7

\* Different items at different places: nothing is there twice.
LEMMA PickedOnce ==
  ASSUME NEW T, NEW list \in Seq(T), NEW places,
         \A i, j \in DOMAIN list \cap places : list[i] = list[j] => i = j
  PROVE  IsInjective(Picked(list, places))
<1>1. PICK f : /\ f[0] = <<>>
               /\ \A n \in Nat : n + 1 <= Len(list) =>
                    f[n + 1] = IF n + 1 \in places THEN Append(f[n], list[n + 1]) ELSE f[n]
               /\ Picked(list, places) = f[Len(list)]
  BY PickedSteps
<1> DEFINE Is(n) == /\ f[n] \in Seq(T) /\ IsInjective(f[n])
                    /\ \A k \in DOMAIN f[n] : \E i \in (1 .. n) \cap places : f[n][k] = list[i]
           S == {n \in Nat : n <= Len(list) => Is(n)}
<1>2. Len(list) \in Nat /\ DOMAIN list = 1 .. Len(list)
  OBVIOUS
<1>3. 0 \in S
  <2>1. <<>> \in Seq(T) /\ DOMAIN <<>> = {}
    OBVIOUS
  <2> QED BY <1>1, <2>1 DEF IsInjective
<1>4. ASSUME NEW n \in S PROVE n + 1 \in S
  <2> SUFFICES ASSUME n + 1 <= Len(list) PROVE Is(n + 1)
    OBVIOUS
  <2>1. Is(n) /\ n + 1 \in 1 .. Len(list) /\ list[n + 1] \in T
    BY <1>2
  <2>2. f[n + 1] = IF n + 1 \in places THEN Append(f[n], list[n + 1]) ELSE f[n]
    BY <1>1
  <2>3. CASE n + 1 \notin places
    <3>1. (1 .. n + 1) \cap places = (1 .. n) \cap places
      BY <2>3
    <3> QED BY <2>1, <2>2, <2>3, <3>1
  <2>4. CASE n + 1 \in places
    <3>1. f[n + 1] = Append(f[n], list[n + 1])
      BY <2>2, <2>4
    <3>2. /\ f[n + 1] \in Seq(T) /\ Len(f[n + 1]) = Len(f[n]) + 1 /\ Len(f[n]) \in Nat
          /\ f[n + 1][Len(f[n]) + 1] = list[n + 1]
          /\ \A k \in 1 .. Len(f[n]) : f[n + 1][k] = f[n][k]
          /\ DOMAIN f[n] = 1 .. Len(f[n]) /\ DOMAIN f[n + 1] = 1 .. Len(f[n]) + 1
      BY <2>1, <3>1, AppendProperties
    <3>3. ASSUME NEW k \in 1 .. Len(f[n]) + 1
          PROVE  k \in 1 .. Len(f[n]) \/ k = Len(f[n]) + 1
      BY <3>2
    <3>4. ASSUME NEW k \in 1 .. Len(f[n]) PROVE f[n + 1][k] # list[n + 1]
      <4>1. PICK i \in (1 .. n) \cap places : f[n][k] = list[i]
        BY <2>1, <3>2
      <4>2. i # n + 1 /\ i \in DOMAIN list \cap places /\ n + 1 \in DOMAIN list \cap places
        BY <1>2, <2>1, <2>4, <4>1
      <4> QED BY <3>2, <4>1, <4>2
    <3>5. IsInjective(f[n + 1])
      BY <2>1, <3>2, <3>3, <3>4 DEF IsInjective
    <3>6. ASSUME NEW k \in DOMAIN f[n + 1]
          PROVE  \E i \in (1 .. n + 1) \cap places : f[n + 1][k] = list[i]
      <4>1. CASE k = Len(f[n]) + 1
        <5>1. n + 1 \in (1 .. n + 1) \cap places
          BY <2>4
        <5> QED BY <3>2, <4>1, <5>1
      <4>2. CASE k # Len(f[n]) + 1
        <5>1. k \in DOMAIN f[n] /\ f[n + 1][k] = f[n][k]
          BY <3>2, <3>3, <4>2
        <5>2. PICK i \in (1 .. n) \cap places : f[n][k] = list[i]
          BY <2>1, <5>1
        <5>3. i \in (1 .. n + 1) \cap places
          OBVIOUS
        <5> QED BY <5>1, <5>2, <5>3
      <4> QED BY <4>1, <4>2
    <3> QED BY <3>2, <3>5, <3>6
  <2> QED BY <2>3, <2>4
<1>5. S \in SUBSET Nat
  OBVIOUS
<1> HIDE DEF S
<1>6. S = Nat
  BY <1>3, <1>4, <1>5, NatStep
<1>7. Is(Len(list))
  BY <1>2, <1>6 DEF S
<1> QED BY <1>1, <1>7

\* The places of a first part: the first part.
LEMMA PickedPrefix ==
  ASSUME NEW T, NEW list \in Seq(T), NEW places, NEW first \in Seq(T),
         Len(first) <= Len(list), \A i \in 1 .. Len(first) : list[i] = first[i],
         \A i \in 1 .. Len(list) : i \in places <=> i <= Len(first)
  PROVE  Picked(list, places) = first
<1>1. PICK f : /\ f[0] = <<>>
               /\ \A n \in Nat : n + 1 <= Len(list) =>
                    f[n + 1] = IF n + 1 \in places THEN Append(f[n], list[n + 1]) ELSE f[n]
               /\ Picked(list, places) = f[Len(list)]
  BY PickedSteps
<1> DEFINE least(n) == IF n <= Len(first) THEN n ELSE Len(first)
           Is(n) == /\ f[n] \in Seq(T) /\ Len(f[n]) = least(n)
                    /\ \A i \in 1 .. least(n) : f[n][i] = first[i]
           S == {n \in Nat : n <= Len(list) => Is(n)}
<1>2. Len(list) \in Nat /\ DOMAIN list = 1 .. Len(list) /\ Len(first) \in Nat
  OBVIOUS
<1>3. 0 \in S
  <2>1. <<>> \in Seq(T) /\ Len(<<>>) = 0 /\ least(0) = 0 /\ 1 .. 0 = {}
    BY <1>2
  <2> QED BY <1>1, <2>1
<1>4. ASSUME NEW n \in S PROVE n + 1 \in S
  <2> SUFFICES ASSUME n + 1 <= Len(list) PROVE Is(n + 1)
    OBVIOUS
  <2>1. Is(n) /\ n + 1 \in 1 .. Len(list) /\ list[n + 1] \in T
    BY <1>2
  <2>2. f[n + 1] = IF n + 1 \in places THEN Append(f[n], list[n + 1]) ELSE f[n]
    BY <1>1
  <2>3. CASE n + 1 > Len(first)
    <3>1. n + 1 \notin places /\ least(n + 1) = least(n)
      BY <1>2, <2>1, <2>3
    <3> QED BY <2>1, <2>2, <3>1
  <2>4. CASE n + 1 <= Len(first)
    BY <1>2, <2>1, <2>2, <2>4, AppendProperties
  <2> QED BY <1>2, <2>3, <2>4
<1>5. S \in SUBSET Nat
  OBVIOUS
<1> HIDE DEF S
<1>6. S = Nat
  BY <1>3, <1>4, <1>5, NatStep
<1>7. Is(Len(list)) /\ least(Len(list)) = Len(first)
  BY <1>2, <1>6 DEF S
<1> QED BY <1>1, <1>2, <1>7, SeqEqual

-----------------------------------------------------------------------------
(* What a key may hold, and how it is read and written                      *)

Holds(kind) ==
  CASE kind.type = "flag" -> BOOLEAN
    [] kind.type = "text" -> Strings
    [] kind.type = "name" -> Strings \ kind.refused
    [] kind.type \in {"number", "integer"} -> kind.range
    [] kind.type = "word" -> DOMAIN kind.written
    [] kind.type = "texts" -> Seq(Strings)
    [] kind.type = "order" -> {list \in Seq(Strings) : Range(list) \subseteq kind.all}

\* Every word that can be read can be written, and is read as itself.
WordOK(read, written) ==
  /\ DOMAIN read \subseteq Strings /\ DOMAIN written \subseteq Strings
  /\ \A w \in DOMAIN read : read[w] \in DOMAIN written
  /\ \A v \in DOMAIN written : written[v] \in DOMAIN read /\ read[written[v]] = v

KindOK(kind) ==
  \/ kind \in {flag, text, texts}
  \/ \E refused : kind = name(refused)
  \/ \E range \in SUBSET Int : kind \in {number(range), integer(range)}
  \/ \E read, written : kind = word(read, written) /\ WordOK(read, written)
  \/ \E all \in SUBSET Strings : kind = order(all)

\* A key without a value is one that has none by default.
Fits(key, v) == v \in Holds(key.kind) \/ (key.optional /\ v = None /\ key.default = None)

KeyOK(key) == KindOK(key.kind) /\ Fits(key, key.default)

\* The cases of a kind.
LEMMA KindCases ==
  ASSUME NEW kind, KindOK(kind), NEW P,
         kind = flag => P, kind = text => P, kind = texts => P,
         \A refused : kind = name(refused) => P,
         \A range \in SUBSET Int : kind = number(range) => P,
         \A range \in SUBSET Int : kind = integer(range) => P,
         \A read, written : kind = word(read, written) /\ WordOK(read, written) => P,
         \A all \in SUBSET Strings : kind = order(all) => P
  PROVE  P
BY DEF KindOK

\* What is in the list already is all there is of it.
LEMMA OnlyThese ==
  ASSUME NEW T, NEW list \in Seq(T), NEW all
  PROVE  /\ Only(list, all) \in Seq(T) /\ Range(Only(list, all)) \subseteq all
         /\ Range(list) \subseteq all => Only(list, all) = list
<1> DEFINE places == {i \in DOMAIN list : list[i] \in all}
<1>1. Only(list, all) = Picked(list, places)
  BY DEF Only
<1>2. /\ Picked(list, places) \in Seq(T)
      /\ Range(Picked(list, places)) = {list[i] : i \in DOMAIN list \cap places}
  BY PickedIs
<1>3. ASSUME Range(list) \subseteq all PROVE Picked(list, places) = list
  <2>1. \A i \in 1 .. Len(list) : i \in places <=> i <= Len(list)
    BY <1>3 DEF Range
  <2> HIDE DEF places
  <2> QED BY <2>1, PickedPrefix
<1> QED BY <1>1, <1>2, <1>3

LEMMA NothingHeld ==
  ASSUME NEW kind, KindOK(kind) PROVE None \notin Holds(kind)
BY KeysAssumption
   DEF KindOK, Holds, WordOK, flag, text, texts, name, number, integer, word, order

\* What is accepted is something the key may hold.
LEMMA ValueHeld ==
  ASSUME NEW kind, KindOK(kind), NEW raw \in Raws, Accepts(kind, raw)
  PROVE  Value(kind, raw) \in Holds(kind)
<1>1. CASE kind = flag
  BY <1>1 DEF flag, Accepts, Value, Holds, Raws
<1>2. CASE kind = text
  BY <1>2 DEF text, Accepts, Value, Holds, Raws
<1>3. CASE kind = texts
  <2>1. raw[1] = "array" /\ raw[2] \in Seq(Strings \cup {None}) /\ ~Contains(raw[2], None)
    BY <1>3 DEF texts, Accepts, Raws
  <2>2. raw[2] \in Seq(Strings)
    <3>1. \A i \in 1 .. Len(raw[2]) : raw[2][i] \in Strings
      BY <2>1 DEF Contains
    <3> QED BY <2>1, <3>1
  <2> QED BY <1>3, <2>1, <2>2 DEF texts, Value, Holds
<1>4. ASSUME NEW refused, kind = name(refused) PROVE Value(kind, raw) \in Holds(kind)
  BY <1>4 DEF name, Accepts, Value, Holds, Raws
<1>5. ASSUME NEW range \in SUBSET Int, kind = number(range) PROVE Value(kind, raw) \in Holds(kind)
  BY <1>5 DEF number, Accepts, Value, Holds, Raws
<1>6. ASSUME NEW range \in SUBSET Int, kind = integer(range) PROVE Value(kind, raw) \in Holds(kind)
  BY <1>6 DEF integer, Accepts, Value, Holds, Raws
<1>7. ASSUME NEW read, NEW written, kind = word(read, written), WordOK(read, written)
      PROVE  Value(kind, raw) \in Holds(kind)
  BY <1>7 DEF word, WordOK, Accepts, Value, Holds, Raws
<1>8. ASSUME NEW all \in SUBSET Strings, kind = order(all) PROVE Value(kind, raw) \in Holds(kind)
  BY <1>8, OnlyThese DEF order, Accepts, Raws, Range, Value, Holds
<1> QED BY <1>1, <1>2, <1>3, <1>4, <1>5, <1>6, <1>7, <1>8, KindCases

\* What a key holds is written so that it is read again.
LEMMA RawRead ==
  ASSUME NEW kind, KindOK(kind), NEW v \in Holds(kind)
  PROVE  Raw(kind, v) \in Raws /\ Accepts(kind, Raw(kind, v)) /\ Value(kind, Raw(kind, v)) = v
<1> DEFINE Goal == Raw(kind, v) \in Raws /\ Accepts(kind, Raw(kind, v)) /\ Value(kind, Raw(kind, v)) = v
<1>1. CASE kind = flag
  BY <1>1 DEF flag, Accepts, Value, Holds, Raws, Raw, Bool
<1>2. CASE kind = text
  BY <1>2 DEF text, Accepts, Value, Holds, Raws, Raw, Str
<1>3. CASE kind = texts
  BY <1>3, KeysAssumption DEF texts, Holds, Contains, Raw, Array, Accepts, Value, Raws
<1>4. ASSUME NEW refused, kind = name(refused) PROVE Goal
  BY <1>4 DEF name, Accepts, Value, Holds, Raws, Raw, Str
<1>5. ASSUME NEW range \in SUBSET Int, kind = number(range) PROVE Goal
  BY <1>5 DEF number, Accepts, Value, Holds, Raws, Raw, Real
<1>6. ASSUME NEW range \in SUBSET Int, kind = integer(range) PROVE Goal
  BY <1>6 DEF integer, Accepts, Value, Holds, Raws, Raw, Whole
<1>7. ASSUME NEW read, NEW written, kind = word(read, written), WordOK(read, written)
      PROVE  Goal
  BY <1>7 DEF word, Holds, Raw, Str, WordOK, Raws, Accepts, Value
<1>8. ASSUME NEW all \in SUBSET Strings, kind = order(all) PROVE Goal
  BY <1>8, OnlyThese DEF order, Holds, Raw, Array, Accepts, Value, Raws
<1> QED BY <1>1, <1>2, <1>3, <1>4, <1>5, <1>6, <1>7, <1>8, KindCases

-----------------------------------------------------------------------------
(* The walk over a table of keys                                            *)

SpecOK(spec) == \A path \in DOMAIN spec : KeyOK(spec[path])

DocOK(doc) == \A path \in DOMAIN doc : path \in Seq(Strings) /\ doc[path] \in Raws

Leaves(spec) == \A p, q \in DOMAIN spec : spec[p].optional => ~IsStrictPrefix(p, q)

AllFit(spec, value) == \A path \in DOMAIN spec : Fits(spec[path], value[path])

LEMMA LookedUp ==
  ASSUME NEW doc, DocOK(doc), NEW path
  PROVE  /\ lookup(doc, path) \in Raws \cup {Table, None}
         /\ lookup(doc, path) \notin {Table, None} => path \in DOMAIN doc
         /\ path \in DOMAIN doc => lookup(doc, path) = doc[path] /\ lookup(doc, path) \notin {Table, None}
<1>1. None \notin Raws /\ Table \notin Raws
  BY KeysAssumption DEF Raws, Table
<1> QED BY <1>1 DEF lookup, DocOK

\* Whatever the document says, every key gets a value it may hold.
LEMMA WalkFits ==
  ASSUME NEW doc, DocOK(doc), NEW spec, SpecOK(spec), NEW fresh,
         \A path \in DOMAIN spec : fresh[path] = spec[path].default
  PROVE  /\ walk(doc, spec, fresh).value = [path \in DOMAIN spec |-> walk(doc, spec, fresh).value[path]]
         /\ AllFit(spec, walk(doc, spec, fresh).value)
<1> DEFINE raw == [path \in DOMAIN spec |-> lookup(doc, path)]
           missing == {path \in DOMAIN spec : raw[path] = None}
           read == {path \in DOMAIN spec \ missing : Accepts(spec[path].kind, raw[path])}
           loud == {path \in missing : ~spec[path].optional}
           value == [path \in DOMAIN spec |->
                       IF path \in read THEN Value(spec[path].kind, raw[path])
                       ELSE IF path \in missing \ loud THEN fresh[path]
                       ELSE spec[path].default]
<1>1. walk(doc, spec, fresh).value = value
  BY DEF walk
<1>2. ASSUME NEW path \in DOMAIN spec PROVE Fits(spec[path], value[path])
  <2>1. KeyOK(spec[path])
    BY DEF SpecOK
  <2>2. CASE path \notin read
    <3>1. value[path] = spec[path].default
      BY <2>2
    <3> QED BY <2>1, <3>1 DEF KeyOK
  <2>3. CASE path \in read
    BY <2>1, <2>3, LookedUp, ValueHeld DEF Accepts, Table, KeyOK, Fits
  <2> QED BY <2>2, <2>3
<1> HIDE DEF read, missing, loud, raw
<1>3. value = [path \in DOMAIN spec |-> value[path]]
  OBVIOUS
<1> HIDE DEF value
<1> QED BY <1>1, <1>2, <1>3 DEF AllFit

\* A table of keys that is written is read back as it is.
LEMMA WalkBack ==
  ASSUME NEW spec, SpecOK(spec), DOMAIN spec \subseteq Seq(Strings), Leaves(spec),
         NEW value, AllFit(spec, value), NEW fresh,
         \A path \in DOMAIN spec : fresh[path] = spec[path].default
  PROVE  /\ walk(Written(spec, value), spec, fresh)
              = [value |-> [path \in DOMAIN spec |-> value[path]], notes |-> {}]
         /\ DocOK(Written(spec, value))
<1> DEFINE doc == Written(spec, value)
           raw == [path \in DOMAIN spec |-> lookup(doc, path)]
           missing == {path \in DOMAIN spec : raw[path] = None}
           read == {path \in DOMAIN spec \ missing : Accepts(spec[path].kind, raw[path])}
           loud == {path \in missing : ~spec[path].optional}
<1>1. /\ DOMAIN doc = {p \in DOMAIN spec : value[p] # None}
      /\ \A p \in DOMAIN doc : doc[p] = Raw(spec[p].kind, value[p])
  BY DEF Written
<1> HIDE DEF doc
<1>2. ASSUME NEW p \in DOMAIN doc
      PROVE  /\ doc[p] \in Raws /\ Accepts(spec[p].kind, doc[p])
             /\ Value(spec[p].kind, doc[p]) = value[p] /\ lookup(doc, p) = doc[p] /\ doc[p] # None
  BY <1>1, KeysAssumption, RawRead DEF SpecOK, KeyOK, AllFit, Fits, lookup
<1>3. ASSUME NEW p \in DOMAIN spec, p \notin DOMAIN doc
      PROVE  /\ lookup(doc, p) = None /\ value[p] = None
             /\ fresh[p] = None /\ spec[p].optional
  BY <1>1, <1>3, NothingHeld DEF SpecOK, KeyOK, AllFit, Fits, Leaves, lookup
<1>4. /\ missing = DOMAIN spec \ DOMAIN doc /\ loud = {}
      /\ read = DOMAIN doc
  BY <1>1, <1>2, <1>3
<1>5. walk(doc, spec, fresh) =
        [value |-> [path \in DOMAIN spec |->
                      IF path \in read THEN Value(spec[path].kind, raw[path])
                      ELSE IF path \in missing \ loud THEN fresh[path]
                      ELSE spec[path].default],
         notes |-> {Note(path, "missing") : path \in loud}
                   \cup {Note(path, "invalid") : path \in DOMAIN spec \ (missing \cup read)}
                   \cup {Note(path, "unknown") : path \in DOMAIN doc \ DOMAIN spec}]
  BY DEF walk
<1>6. \A path \in DOMAIN spec : raw[path] = lookup(doc, path)
  OBVIOUS
<1> HIDE DEF raw, missing, loud, read
<1>7. ASSUME NEW path \in DOMAIN spec
      PROVE  (IF path \in read THEN Value(spec[path].kind, raw[path])
              ELSE IF path \in missing \ loud THEN fresh[path]
              ELSE spec[path].default) = value[path]
  BY <1>2, <1>3, <1>4, <1>6
<1>8. /\ DOMAIN spec \ (missing \cup read) = {} /\ DOMAIN doc \ DOMAIN spec = {}
  BY <1>1, <1>4
<1>9. walk(doc, spec, fresh) = [value |-> [path \in DOMAIN spec |-> value[path]], notes |-> {}]
  <2>1. [path \in DOMAIN spec |->
           IF path \in read THEN Value(spec[path].kind, raw[path])
           ELSE IF path \in missing \ loud THEN fresh[path]
           ELSE spec[path].default] = [path \in DOMAIN spec |-> value[path]]
    BY <1>7
  <2>2. /\ {Note(path, "missing") : path \in loud} = {}
        /\ {Note(path, "invalid") : path \in DOMAIN spec \ (missing \cup read)} = {}
        /\ {Note(path, "unknown") : path \in DOMAIN doc \ DOMAIN spec} = {}
    BY <1>4, <1>8
  <2> QED BY <1>5, <2>1, <2>2, Zenon
<1>10. DocOK(doc)
  BY <1>1, <1>2 DEF DocOK
<1> QED BY <1>9, <1>10 DEF doc

-----------------------------------------------------------------------------
(* Paths                                                                    *)

LEMMA TupleIsSeq ==
  ASSUME NEW S, NEW a \in S, NEW b \in S, NEW c \in S, NEW d \in S
  PROVE  <<a>> \in Seq(S) /\ <<a, b>> \in Seq(S) /\ <<a, b, c>> \in Seq(S) /\ <<a, b, c, d>> \in Seq(S)
OBVIOUS

LEMMA TuplesArePaths ==
  ASSUME NEW a \in Strings, NEW b \in Strings, NEW c \in Strings, NEW d \in Strings
  PROVE  /\ <<>> \in Seq(Strings) /\ <<a>> \in Seq(Strings) /\ <<a, b>> \in Seq(Strings)
         /\ <<a, b, c>> \in Seq(Strings) /\ <<a, b, c, d>> \in Seq(Strings)
BY TupleIsSeq, EmptySeq

\* A name after others.
LEMMA Longer ==
  ASSUME NEW S, NEW p \in Seq(S), NEW k \in S
  PROVE  /\ Append(p, k) \in Seq(S) /\ Len(Append(p, k)) = Len(p) + 1
         /\ \A i \in 1 .. Len(p) : Append(p, k)[i] = p[i]
         /\ Append(p, k)[Len(p) + 1] = k /\ Last(Append(p, k)) = k
BY AppendProperties DEF Last

LEMMA LongerPath ==
  ASSUME NEW p \in Seq(Strings), NEW k \in Strings
  PROVE  /\ Append(p, k) \in Seq(Strings) /\ Len(Append(p, k)) = Len(p) + 1
         /\ \A i \in 1 .. Len(p) : Append(p, k)[i] = p[i]
         /\ Append(p, k)[Len(p) + 1] = k /\ Last(Append(p, k)) = k
BY Longer, Zenon

LEMMA AppendedSecond ==
  ASSUME NEW S, NEW a \in S, NEW b \in S
  PROVE  Append(<<a>>, b) = <<a, b>>
<1>1. <<a>> \in Seq(S) /\ <<a, b>> \in Seq(S)
  BY TupleIsSeq
<1>2. /\ Len(<<a>>) = 1 /\ Len(<<a, b>>) = 2
      /\ <<a>>[1] = a
      /\ <<a, b>>[1] = a /\ <<a, b>>[2] = b
  OBVIOUS
<1>3. PICK s : s = Append(<<a>>, b)
  OBVIOUS
<1>4. s \in Seq(S) /\ Len(s) = 2 /\ s[1] = a /\ s[2] = b
  BY <1>1, <1>2, <1>3, Longer
<1>5. \A i \in 1 .. 2 : i = 1 \/ i = 2
  OBVIOUS
<1>6. PICK t : t = <<a, b>>
  OBVIOUS
<1>7. t \in Seq(S) /\ Len(t) = 2 /\ t[1] = a /\ t[2] = b
  BY <1>1, <1>2, <1>6
<1>8. s = t
  BY <1>4, <1>5, <1>7, SeqEqual
<1> QED BY <1>3, <1>6, <1>8

LEMMA AppendedThird ==
  ASSUME NEW S, NEW a \in S, NEW b \in S, NEW c \in S
  PROVE  Append(<<a, b>>, c) = <<a, b, c>>
<1>1. <<a, b>> \in Seq(S) /\ <<a, b, c>> \in Seq(S)
  BY TupleIsSeq
<1>2. /\ Len(<<a, b>>) = 2 /\ Len(<<a, b, c>>) = 3
      /\ <<a, b>>[1] = a /\ <<a, b>>[2] = b
      /\ <<a, b, c>>[1] = a /\ <<a, b, c>>[2] = b /\ <<a, b, c>>[3] = c
  OBVIOUS
<1>3. PICK s : s = Append(<<a, b>>, c)
  OBVIOUS
<1>4. s \in Seq(S) /\ Len(s) = 3 /\ s[1] = a /\ s[2] = b /\ s[3] = c
  BY <1>1, <1>2, <1>3, Longer
<1>5. \A i \in 1 .. 3 : i = 1 \/ i = 2 \/ i = 3
  OBVIOUS
<1>6. PICK t : t = <<a, b, c>>
  OBVIOUS
<1>7. t \in Seq(S) /\ Len(t) = 3 /\ t[1] = a /\ t[2] = b /\ t[3] = c
  BY <1>1, <1>2, <1>6
<1>8. s = t
  BY <1>4, <1>5, <1>7, SeqEqual
<1> QED BY <1>3, <1>6, <1>8

LEMMA AppendedFourth ==
  ASSUME NEW S, NEW a \in S, NEW b \in S, NEW c \in S, NEW d \in S
  PROVE  Append(<<a, b, c>>, d) = <<a, b, c, d>>
<1>1. <<a, b, c>> \in Seq(S) /\ <<a, b, c, d>> \in Seq(S)
  BY TupleIsSeq
<1>2. /\ Len(<<a, b, c>>) = 3 /\ Len(<<a, b, c, d>>) = 4
      /\ <<a, b, c>>[1] = a /\ <<a, b, c>>[2] = b /\ <<a, b, c>>[3] = c
      /\ <<a, b, c, d>>[1] = a /\ <<a, b, c, d>>[2] = b /\ <<a, b, c, d>>[3] = c /\ <<a, b, c, d>>[4] = d
  OBVIOUS
<1>3. PICK s : s = Append(<<a, b, c>>, d)
  OBVIOUS
<1>4. s \in Seq(S) /\ Len(s) = 4 /\ s[1] = a /\ s[2] = b /\ s[3] = c /\ s[4] = d
  BY <1>1, <1>2, <1>3, Longer
<1>5. \A i \in 1 .. 4 : i = 1 \/ i = 2 \/ i = 3 \/ i = 4
  OBVIOUS
<1>6. PICK t : t = <<a, b, c, d>>
  OBVIOUS
<1>7. t \in Seq(S) /\ Len(t) = 4 /\ t[1] = a /\ t[2] = b /\ t[3] = c /\ t[4] = d
  BY <1>1, <1>2, <1>6
<1>8. s = t
  BY <1>4, <1>5, <1>7, SeqEqual
<1> QED BY <1>3, <1>6, <1>8

LEMMA AppendedTuple ==
  ASSUME NEW a, NEW b, NEW c, NEW d
  PROVE  /\ Append(<<>>, a) = <<a>> /\ Append(<<a>>, b) = <<a, b>>
         /\ Append(<<a, b>>, c) = <<a, b, c>> /\ Append(<<a, b, c>>, d) = <<a, b, c, d>>
<1>1. PICK S : S = {a, b, c, d}
  OBVIOUS
<1>2. a \in S /\ b \in S /\ c \in S /\ d \in S
  BY <1>1
<1>3. Append(<<>>, a) = <<a>>
  OBVIOUS
<1>4. Append(<<a>>, b) = <<a, b>>
  BY <1>2, AppendedSecond
<1>5. Append(<<a, b>>, c) = <<a, b, c>>
  BY <1>2, AppendedThird
<1>6. Append(<<a, b, c>>, d) = <<a, b, c, d>>
  BY <1>2, AppendedFourth
<1> QED BY <1>3, <1>4, <1>5, <1>6

\* A path is a beginning of another one name by name.
LEMMA PrefixIs ==
  ASSUME NEW p \in Seq(Strings), NEW q \in Seq(Strings)
  PROVE  /\ IsPrefix(p, q) <=> Len(p) <= Len(q) /\ \A i \in 1 .. Len(p) : p[i] = q[i]
         /\ IsStrictPrefix(p, q) <=> Len(p) < Len(q) /\ \A i \in 1 .. Len(p) : p[i] = q[i]
<1>1. Len(p) \in Nat /\ Len(q) \in Nat
  OBVIOUS
<1>2. ASSUME Len(p) <= Len(q)
      PROVE  SubSeq(p, 1, Len(p)) = SubSeq(q, 1, Len(p)) <=> \A i \in 1 .. Len(p) : p[i] = q[i]
  BY <1>1, <1>2, SubSeqFull, SubSeqProperties, SeqEqual
<1>3. IsPrefix(p, q) <=> Len(p) <= Len(q) /\ \A i \in 1 .. Len(p) : p[i] = q[i]
  BY <1>2 DEF IsPrefix
<1>4. ASSUME Len(p) <= Len(q), \A i \in 1 .. Len(p) : p[i] = q[i]
      PROVE  p # q <=> Len(p) < Len(q)
  BY <1>1, <1>4, SeqEqual
<1> QED BY <1>1, <1>3, <1>4 DEF IsStrictPrefix

-----------------------------------------------------------------------------
(* Tables of keys, put together                                             *)

LEMMA MergedIs ==
  ASSUME NEW f, NEW g
  PROVE  /\ DOMAIN (f ++ g) = DOMAIN f \cup DOMAIN g
         /\ \A x \in DOMAIN f : (f ++ g)[x] = f[x]
         /\ \A x \in DOMAIN g \ DOMAIN f : (f ++ g)[x] = g[x]
BY DEF ++

LEMMA SingleIs ==
  ASSUME NEW p, NEW x
  PROVE  DOMAIN Single(p, x) = {p} /\ Single(p, x)[p] = x
BY DEF Single

LEMMA MergedOK ==
  ASSUME NEW f, NEW g, SpecOK(f), SpecOK(g) PROVE SpecOK(f ++ g)
<1>1. PICK h : h = f ++ g
  OBVIOUS
<1>2. /\ DOMAIN h = DOMAIN f \cup DOMAIN g
      /\ \A x \in DOMAIN f : h[x] = f[x]
      /\ \A x \in DOMAIN g \ DOMAIN f : h[x] = g[x]
  BY <1>1 DEF ++
<1>3. ASSUME NEW p \in DOMAIN h PROVE KeyOK(h[p])
  <2>1. CASE p \in DOMAIN f
    <3>1. KeyOK(f[p]) /\ h[p] = f[p]
      BY <1>2, <2>1 DEF SpecOK
    <3> QED BY <3>1
  <2>2. CASE p \notin DOMAIN f
    <3>1. KeyOK(g[p]) /\ h[p] = g[p]
      BY <1>2, <2>2 DEF SpecOK
    <3> QED BY <3>1
  <2> QED BY <2>1, <2>2
<1>4. SpecOK(h)
  BY <1>3, Zenon DEF SpecOK
<1> QED BY <1>1, <1>4

\* A table of keys by its prefix: the paths are the prefix with a name.
LEMMA SectionIs ==
  ASSUME NEW prefix \in Seq(Strings), NEW keys, DOMAIN keys \subseteq Strings
  PROVE  /\ \A p \in DOMAIN Section(prefix, keys) : \E k \in DOMAIN keys : p = Append(prefix, k)
         /\ \A k \in DOMAIN keys : /\ Append(prefix, k) \in DOMAIN Section(prefix, keys)
                                   /\ Section(prefix, keys)[Append(prefix, k)] = keys[k]
BY LongerPath DEF Section

LEMMA SectionAt ==
  ASSUME NEW prefix \in Seq(Strings), NEW keys, DOMAIN keys \subseteq Strings,
         NEW p \in DOMAIN Section(prefix, keys)
  PROVE  /\ p \in Seq(Strings) /\ Len(p) = Len(prefix) + 1
         /\ \A i \in 1 .. Len(prefix) : p[i] = prefix[i]
         /\ p[Len(prefix) + 1] \in DOMAIN keys
         /\ Section(prefix, keys)[p] = keys[p[Len(prefix) + 1]]
<1>1. PICK k \in DOMAIN keys : p = Append(prefix, k)
  BY SectionIs
<1>2. k \in Strings /\ Section(prefix, keys)[p] = keys[k]
  BY <1>1, SectionIs
<1>3. /\ p \in Seq(Strings) /\ Len(p) = Len(prefix) + 1
      /\ \A i \in 1 .. Len(prefix) : p[i] = prefix[i]
      /\ p[Len(prefix) + 1] = k
  BY <1>1, <1>2, LongerPath
<1> QED BY <1>2, <1>3

LEMMA SectionOK ==
  ASSUME NEW prefix \in Seq(Strings), NEW keys, DOMAIN keys \subseteq Strings, SpecOK(keys)
  PROVE  SpecOK(Section(prefix, keys))
<1>1. ASSUME NEW p \in DOMAIN Section(prefix, keys) PROVE KeyOK(Section(prefix, keys)[p])
  <2>1. PICK k \in DOMAIN keys : p = Append(prefix, k)
    BY SectionIs
  <2>2. KeyOK(keys[k])
    BY DEF SpecOK
  <2>3. PICK x : x = Section(prefix, keys)[p]
    OBVIOUS
  <2>4. x = keys[k]
    BY <2>1, <2>3, SectionIs
  <2> QED BY <2>2, <2>3, <2>4
<1> QED BY <1>1, Zenon DEF SpecOK

-----------------------------------------------------------------------------
(* The tables of settings.toml and of state.toml                            *)

LEMMA FlagOK ==
  ASSUME NEW b \in BOOLEAN PROVE KeyOK(Key(flag, b)) /\ KeyOK(Optional(flag, b))
BY DEF KeyOK, KindOK, Fits, Holds, Key, Optional, flag

LEMMA TextOK ==
  /\ \A s \in Strings : KeyOK(Key(text, s))
  /\ KeyOK(Optional(text, None))
BY DEF KeyOK, KindOK, Fits, Holds, Key, Optional, text

LEMMA NameOK ==
  ASSUME NEW refused
  PROVE  /\ \A s \in Strings \ refused : KeyOK(Key(name(refused), s))
         /\ KeyOK(Optional(name(refused), None))
<1>1. KindOK(name(refused)) /\ Holds(name(refused)) = Strings \ refused
  BY DEF KindOK, Holds, name
<1> QED BY <1>1 DEF KeyOK, Fits, Key, Optional

LEMMA NumberOK ==
  ASSUME NEW range \in SUBSET Int
  PROVE  /\ \A n \in range : KeyOK(Key(number(range), n)) /\ KeyOK(Optional(number(range), n))
         /\ KeyOK(Optional(number(range), None))
<1>1. KindOK(number(range)) /\ Holds(number(range)) = range
  BY DEF KindOK, Holds, number
<1> QED BY <1>1 DEF KeyOK, Fits, Key, Optional

LEMMA IntegerOK ==
  ASSUME NEW range \in SUBSET Int
  PROVE  /\ \A n \in range : KeyOK(Key(integer(range), n)) /\ KeyOK(Optional(integer(range), n))
         /\ KeyOK(Optional(integer(range), None))
<1>1. KindOK(integer(range)) /\ Holds(integer(range)) = range
  BY DEF KindOK, Holds, integer
<1> QED BY <1>1 DEF KeyOK, Fits, Key, Optional

LEMMA WordIsOK ==
  ASSUME NEW read, NEW written, WordOK(read, written)
  PROVE  /\ \A v \in DOMAIN written : /\ KeyOK(Key(word(read, written), v))
                                      /\ KeyOK(Optional(word(read, written), v))
         /\ KeyOK(Optional(word(read, written), None))
<1>1. KindOK(word(read, written)) /\ Holds(word(read, written)) = DOMAIN written
  BY DEF KindOK, Holds, word
<1> QED BY <1>1 DEF KeyOK, Fits, Key, Optional

LEMMA DerivedOK ==
  ASSUME NEW words \in SUBSET Strings
  PROVE  /\ \A w \in words : KeyOK(Key(derived(words), w)) /\ KeyOK(Optional(derived(words), w))
         /\ KeyOK(Optional(derived(words), None))
         /\ DOMAIN derived(words).written = words
<1> DEFINE same == [w \in words |-> w]
<1>1. WordOK(same, same) /\ DOMAIN same = words
  BY DEF WordOK
<1>2. derived(words) = word(same, same) /\ derived(words).written = same
  BY DEF derived, word
<1> HIDE DEF same
<1> QED BY <1>1, <1>2, WordIsOK

LEMMA OrderOK ==
  ASSUME NEW list \in Seq(Strings)
  PROVE  KeyOK(Key(order(Range(list)), list))
<1>1. Range(list) \in SUBSET Strings
  BY DEF Range
<1>2. KindOK(order(Range(list))) /\ list \in Holds(order(Range(list)))
  BY <1>1 DEF KindOK, Holds, order
<1> QED BY <1>2 DEF KeyOK, Fits, Key

-----------------------------------------------------------------------------
(* The keys of the tables                                                   *)

LEMMA WithinIs ==
  \A a, b \in Int : /\ within(a, b) \in SUBSET Int
                    /\ \A n \in Int : n \in within(a, b) <=> a <= n /\ n <= b
BY DEF within

LEMMA NumberWithin ==
  \A a, b, n \in Int : a <= n /\ n <= b =>
    KeyOK(Key(number(within(a, b)), n)) /\ KeyOK(Optional(number(within(a, b)), n))
BY WithinIs, NumberOK

LEMMA IntegerWithin ==
  \A a, b, n \in Int : a <= n /\ n <= b =>
    KeyOK(Key(integer(within(a, b)), n)) /\ KeyOK(Optional(integer(within(a, b)), n))
BY WithinIs, IntegerOK

LEMMA NumberNat == ASSUME NEW n \in Nat PROVE KeyOK(Key(number(Nat), n))
<1>1. Nat \in SUBSET Int
  OBVIOUS
<1> QED BY <1>1, NumberOK, Zenon

LEMMA IntegerNat == ASSUME NEW n \in Nat PROVE KeyOK(Key(integer(Nat), n))
<1>1. Nat \in SUBSET Int
  OBVIOUS
<1> QED BY <1>1, IntegerOK, Zenon

LEMMA HwDeviceIdOK == KeyOK(Optional(HwDeviceId, None))
BY NameOK DEF HwDeviceId

LEMMA DsdFilterOK == KeyOK(Optional(DsdFilter, 30))
<1>1. {24, 30, 50} \in SUBSET Int /\ 30 \in {24, 30, 50}
  OBVIOUS
<1> QED BY <1>1, IntegerOK, Zenon DEF DsdFilter

LEMMA BufferMsOK == KeyOK(Optional(BufferMs, 1500))
BY IntegerWithin DEF BufferMs

LEMMA DeviceBufferOK == KeyOK(Optional(DeviceBuffer, 40))
<1>1. {20, 40, 100, 200, 400} \in SUBSET Int /\ 40 \in {20, 40, 100, 200, 400}
  OBVIOUS
<1> QED BY <1>1, IntegerOK DEF DeviceBuffer

LEMMA SrcFilterOK == KeyOK(Optional(SrcFilter, "Steep"))
<1> DEFINE read == [steep |-> "Steep", slow |-> "Slow", very_slow |-> "VerySlow"]
           written == [Steep |-> "steep", Slow |-> "slow", VerySlow |-> "very_slow"]
<1>1. SrcFilter = word(read, written) /\ SrcFilter.read = read /\ SrcFilter.written = written
  BY DEF SrcFilter, word
<1>2. DOMAIN read \subseteq Strings /\ DOMAIN written \subseteq Strings
  BY <1>1, ModeSettingsAssumption
<1>3. WordOK(read, written)
  BY <1>2 DEF WordOK
<1>4. "Steep" \in DOMAIN written
  OBVIOUS
<1> HIDE DEF read, written
<1> QED BY <1>1, <1>3, <1>4, WordIsOK

LEMMA DitherOK == KeyOK(Optional(Dither, "Tpdf"))
<1> DEFINE read == [tpdf |-> "Tpdf", off |-> "Off"]
           written == [Tpdf |-> "tpdf", Off |-> "off"]
<1>1. Dither = word(read, written) /\ Dither.read = read /\ Dither.written = written
  BY DEF Dither, word
<1>2. DOMAIN read \subseteq Strings /\ DOMAIN written \subseteq Strings
  BY <1>1, ModeSettingsAssumption
<1>3. WordOK(read, written)
  BY <1>2 DEF WordOK
<1>4. "Tpdf" \in DOMAIN written
  OBVIOUS
<1> HIDE DEF read, written
<1> QED BY <1>1, <1>3, <1>4, WordIsOK

LEMMA RateFallbackOK == KeyOK(Optional(RateFallback, "SameFamily"))
<1> DEFINE read == [same_family |-> "SameFamily", nearest |-> "Nearest", no_downsample |-> "NoDownsample"]
           written == [SameFamily |-> "same_family", Nearest |-> "nearest", NoDownsample |-> "no_downsample"]
<1>1. RateFallback = word(read, written) /\ RateFallback.read = read /\ RateFallback.written = written
  BY DEF RateFallback, word
<1>2. DOMAIN read \subseteq Strings /\ DOMAIN written \subseteq Strings
  BY <1>1, ModeSettingsAssumption
<1>3. WordOK(read, written)
  BY <1>2 DEF WordOK
<1>4. "SameFamily" \in DOMAIN written
  OBVIOUS
<1> HIDE DEF read, written
<1> QED BY <1>1, <1>3, <1>4, WordIsOK

LEMMA DsdAboveDacOK == KeyOK(Optional(DsdAboveDac, "ConvertToPcm"))
<1> DEFINE read == [convert_to_pcm |-> "ConvertToPcm"]
           written == [ConvertToPcm |-> "convert_to_pcm"]
<1>1. DsdAboveDac = word(read, written) /\ DsdAboveDac.read = read /\ DsdAboveDac.written = written
  BY DEF DsdAboveDac, word
<1>2. DOMAIN read \subseteq Strings /\ DOMAIN written \subseteq Strings
  BY <1>1, ModeSettingsAssumption
<1>3. WordOK(read, written)
  BY <1>2 DEF WordOK
<1>4. "ConvertToPcm" \in DOMAIN written
  OBVIOUS
<1> HIDE DEF read, written
<1> QED BY <1>1, <1>3, <1>4, WordIsOK

LEMMA ColumnKindOK == KeyOK(Optional(ColumnKind, "NowPlaying")) /\ KeyOK(Optional(ColumnKind, "Data"))
<1> DEFINE read == [data |-> "Data"] ++ Single("now-playing", "NowPlaying")
           written == [Data |-> "data", NowPlaying |-> "now-playing"]
<1>1. ColumnKind = word(read, written) /\ ColumnKind.read = read /\ ColumnKind.written = written
  BY DEF ColumnKind, word
<1>2. DOMAIN read \subseteq Strings /\ DOMAIN written \subseteq Strings
  BY <1>1, SettingsFileAssumption
<1>3. WordOK(read, written)
  BY <1>2 DEF WordOK, ++, Single
<1>4. "NowPlaying" \in DOMAIN written /\ "Data" \in DOMAIN written
  OBVIOUS
<1> HIDE DEF read, written
<1> QED BY <1>1, <1>3, <1>4, WordIsOK

LEMMA AudioModeOK == KeyOK(Key(AudioMode, "Compatible"))
<1> DEFINE read == [compatible |-> "Compatible", optimal |-> "Optimal", strict |-> "Strict"]
           written == [Compatible |-> "compatible", Optimal |-> "optimal", Strict |-> "strict"]
<1>1. AudioMode = word(read, written) /\ AudioMode.read = read /\ AudioMode.written = written
  BY DEF AudioMode, word
<1>2. DOMAIN read \subseteq Strings /\ DOMAIN written \subseteq Strings
  BY <1>1, StateFileAssumption
<1>3. WordOK(read, written)
  BY <1>2 DEF WordOK
<1>4. "Compatible" \in DOMAIN written
  OBVIOUS
<1> HIDE DEF read, written
<1> QED BY <1>1, <1>3, <1>4, WordIsOK

LEMMA DirectionOK == KeyOK(Optional(Direction, None))
<1> DEFINE read == [asc |-> "Asc", desc |-> "Desc"]
           written == [Asc |-> "asc", Desc |-> "desc"]
<1>1. Direction = word(read, written) /\ Direction.read = read /\ Direction.written = written
  BY DEF Direction, word
<1>2. DOMAIN read \subseteq Strings /\ DOMAIN written \subseteq Strings
  BY <1>1, StateFileAssumption
<1>3. WordOK(read, written)
  BY <1>2 DEF WordOK
<1> HIDE DEF read, written
<1> QED BY <1>1, <1>3, WordIsOK

LEMMA ChannelModeOK == KeyOK(Key(ChannelMode, "stereo"))
<1> DEFINE words == {"mono", "stereo"}
<1>1. ChannelMode = derived(words) /\ DOMAIN ChannelMode.read = words
  BY DEF ChannelMode, derived, word
<1>2. words \in SUBSET Strings /\ "stereo" \in words
  BY <1>1, SettingsFileAssumption
<1> HIDE DEF words
<1> QED BY <1>1, <1>2, DerivedOK

LEMMA FreqScaleOK == KeyOK(Key(FreqScale, "log"))
<1> DEFINE words == {"linear", "log", "mel"}
<1>1. FreqScale = derived(words) /\ DOMAIN FreqScale.read = words
  BY DEF FreqScale, derived, word
<1>2. words \in SUBSET Strings /\ "log" \in words
  BY <1>1, SettingsFileAssumption
<1> HIDE DEF words
<1> QED BY <1>1, <1>2, DerivedOK

LEMMA LevelScaleOK == KeyOK(Key(LevelScale, "log"))
<1> DEFINE words == {"linear", "log"}
<1>1. LevelScale = derived(words) /\ DOMAIN LevelScale.read = words
  BY DEF LevelScale, derived, word
<1>2. words \in SUBSET Strings /\ "log" \in words
  BY <1>1, SettingsFileAssumption
<1> HIDE DEF words
<1> QED BY <1>1, <1>2, DerivedOK

LEMMA WindowTypeOK == KeyOK(Key(WindowType, "hann"))
<1> DEFINE words == {"hann", "hamming", "blackman"}
<1>1. WindowType = derived(words) /\ DOMAIN WindowType.read = words
  BY DEF WindowType, derived, word
<1>2. words \in SUBSET Strings /\ "hann" \in words
  BY <1>1, SettingsFileAssumption
<1> HIDE DEF words
<1> QED BY <1>1, <1>2, DerivedOK

LEMMA PaletteOK == KeyOK(Key(Palette, "magma"))
<1> DEFINE words == {"solid", "magma", "viridis", "plasma", "inferno", "gray", "thermal", "rainbow"}
<1>1. Palette = derived(words) /\ DOMAIN Palette.read = words
  BY DEF Palette, derived, word
<1>2. words \in SUBSET Strings /\ "magma" \in words
  BY <1>1, SettingsFileAssumption
<1> HIDE DEF words
<1> QED BY <1>1, <1>2, DerivedOK

LEMMA VisualizationModeOK == KeyOK(Key(VisualizationMode, "off"))
<1> DEFINE words == {"off", "oscilloscope", "spectrogram", "spectrum"}
<1>1. VisualizationMode = derived(words) /\ DOMAIN VisualizationMode.read = words
  BY DEF VisualizationMode, derived, word
<1>2. words \in SUBSET Strings /\ "off" \in words
  BY <1>1, StateFileAssumption
<1> HIDE DEF words
<1> QED BY <1>1, <1>2, DerivedOK

LEMMA WindowUnitsOK == KeyOK(window_units_spec)
<1> DEFINE read == [physical |-> "Physical", logical |-> "Logical"]
           written == [Physical |-> "physical", Logical |-> "logical"]
<1>1. /\ window_units_spec = Key(word(read, written), "Physical")
      /\ window_units_spec.kind.read = read /\ window_units_spec.kind.written = written
  BY DEF window_units_spec, Key, word
<1>2. DOMAIN read \subseteq Strings /\ DOMAIN written \subseteq Strings
  BY <1>1, StateFileAssumption
<1>3. WordOK(read, written)
  BY <1>2 DEF WordOK
<1>4. "Physical" \in DOMAIN written
  OBVIOUS
<1> HIDE DEF read, written
<1> QED BY <1>1, <1>3, <1>4, WordIsOK

LEMMA RepeatOK == KeyOK(repeat_spec)
<1> DEFINE read == [off |-> "Off", all |-> "All", one |-> "One"]
           written == [Off |-> "off", All |-> "all", One |-> "one"]
<1>1. /\ repeat_spec = Key(word(read, written), "Off")
      /\ repeat_spec.kind.read = read /\ repeat_spec.kind.written = written
  BY DEF repeat_spec, Key, word
<1>2. DOMAIN read \subseteq Strings /\ DOMAIN written \subseteq Strings
  BY <1>1, StateFileAssumption
<1>3. WordOK(read, written)
  BY <1>2 DEF WordOK
<1>4. "Off" \in DOMAIN written
  OBVIOUS
<1> HIDE DEF read, written
<1> QED BY <1>1, <1>3, <1>4, WordIsOK

LEMMA CompatibleOK == SpecOK(compatibleKeys)
<1>1. KeyOK(Optional(text, None))
  BY TextOK
<1>2. KeyOK(Optional(integer(Nat \ {0}), None))
  <2>1. Nat \ {0} \in SUBSET Int
    OBVIOUS
  <2> QED BY <2>1, IntegerOK, Zenon
<1>3. KeyOK(Optional(SrcFilter, "Steep"))
  BY SrcFilterOK
<1>4. KeyOK(Optional(Dither, "Tpdf"))
  BY DitherOK
<1>5. KeyOK(Optional(DsdFilter, 30))
  BY DsdFilterOK
<1>6. KeyOK(Optional(flag, TRUE))
  BY FlagOK
<1>7. KeyOK(Optional(BufferMs, 1500))
  BY BufferMsOK
<1>8. DOMAIN compatibleKeys = {"device", "fixed_rate", "src_filter", "dither", "dsd_filter", "dsd_gain_comp", "buffer"}
  BY DEF compatibleKeys
<1>9. KeyOK(compatibleKeys["device"])
  <2>1. compatibleKeys["device"] = Optional(text, None)
    BY DEF compatibleKeys
  <2> QED BY <1>1, <2>1
<1>10. KeyOK(compatibleKeys["fixed_rate"])
  <2>1. compatibleKeys["fixed_rate"] = Optional(integer(Nat \ {0}), None)
    BY DEF compatibleKeys
  <2> QED BY <1>2, <2>1
<1>11. KeyOK(compatibleKeys["src_filter"])
  <2>1. compatibleKeys["src_filter"] = Optional(SrcFilter, "Steep")
    BY DEF compatibleKeys
  <2> QED BY <1>3, <2>1
<1>12. KeyOK(compatibleKeys["dither"])
  <2>1. compatibleKeys["dither"] = Optional(Dither, "Tpdf")
    BY DEF compatibleKeys
  <2> QED BY <1>4, <2>1
<1>13. KeyOK(compatibleKeys["dsd_filter"])
  <2>1. compatibleKeys["dsd_filter"] = Optional(DsdFilter, 30)
    BY DEF compatibleKeys
  <2> QED BY <1>5, <2>1
<1>14. KeyOK(compatibleKeys["dsd_gain_comp"])
  <2>1. compatibleKeys["dsd_gain_comp"] = Optional(flag, TRUE)
    BY DEF compatibleKeys
  <2> QED BY <1>6, <2>1
<1>15. KeyOK(compatibleKeys["buffer"])
  <2>1. compatibleKeys["buffer"] = Optional(BufferMs, 1500)
    BY DEF compatibleKeys
  <2> QED BY <1>7, <2>1
<1> QED BY <1>8, <1>9, <1>10, <1>11, <1>12, <1>13, <1>14, <1>15, Zenon DEF SpecOK

LEMMA OptimalOK == SpecOK(optimalKeys)
<1>1. KeyOK(Optional(HwDeviceId, None))
  BY HwDeviceIdOK
<1>2. KeyOK(Optional(RateFallback, "SameFamily"))
  BY RateFallbackOK
<1>3. KeyOK(Optional(SrcFilter, "Steep"))
  BY SrcFilterOK
<1>4. KeyOK(Optional(Dither, "Tpdf"))
  BY DitherOK
<1>5. KeyOK(Optional(flag, FALSE))
  BY FlagOK
<1>6. KeyOK(Optional(DsdAboveDac, "ConvertToPcm"))
  BY DsdAboveDacOK
<1>7. KeyOK(Optional(DsdFilter, 30))
  BY DsdFilterOK
<1>8. KeyOK(Optional(flag, TRUE))
  BY FlagOK
<1>9. KeyOK(Optional(BufferMs, 1500))
  BY BufferMsOK
<1>10. KeyOK(Optional(DeviceBuffer, 40))
  BY DeviceBufferOK
<1>11. DOMAIN optimalKeys = {"device", "rate_fallback", "src_filter", "dither", "volume_lock", "dsd_above_dac", "dsd_filter", "dsd_gain_comp", "buffer", "device_buffer_ms"}
  BY DEF optimalKeys
<1>12. KeyOK(optimalKeys["device"])
  <2>1. optimalKeys["device"] = Optional(HwDeviceId, None)
    BY DEF optimalKeys
  <2> QED BY <1>1, <2>1
<1>13. KeyOK(optimalKeys["rate_fallback"])
  <2>1. optimalKeys["rate_fallback"] = Optional(RateFallback, "SameFamily")
    BY DEF optimalKeys
  <2> QED BY <1>2, <2>1
<1>14. KeyOK(optimalKeys["src_filter"])
  <2>1. optimalKeys["src_filter"] = Optional(SrcFilter, "Steep")
    BY DEF optimalKeys
  <2> QED BY <1>3, <2>1
<1>15. KeyOK(optimalKeys["dither"])
  <2>1. optimalKeys["dither"] = Optional(Dither, "Tpdf")
    BY DEF optimalKeys
  <2> QED BY <1>4, <2>1
<1>16. KeyOK(optimalKeys["volume_lock"])
  <2>1. optimalKeys["volume_lock"] = Optional(flag, FALSE)
    BY DEF optimalKeys
  <2> QED BY <1>5, <2>1
<1>17. KeyOK(optimalKeys["dsd_above_dac"])
  <2>1. optimalKeys["dsd_above_dac"] = Optional(DsdAboveDac, "ConvertToPcm")
    BY DEF optimalKeys
  <2> QED BY <1>6, <2>1
<1>18. KeyOK(optimalKeys["dsd_filter"])
  <2>1. optimalKeys["dsd_filter"] = Optional(DsdFilter, 30)
    BY DEF optimalKeys
  <2> QED BY <1>7, <2>1
<1>19. KeyOK(optimalKeys["dsd_gain_comp"])
  <2>1. optimalKeys["dsd_gain_comp"] = Optional(flag, TRUE)
    BY DEF optimalKeys
  <2> QED BY <1>8, <2>1
<1>20. KeyOK(optimalKeys["buffer"])
  <2>1. optimalKeys["buffer"] = Optional(BufferMs, 1500)
    BY DEF optimalKeys
  <2> QED BY <1>9, <2>1
<1>21. KeyOK(optimalKeys["device_buffer_ms"])
  <2>1. optimalKeys["device_buffer_ms"] = Optional(DeviceBuffer, 40)
    BY DEF optimalKeys
  <2> QED BY <1>10, <2>1
<1> QED BY <1>11, <1>12, <1>13, <1>14, <1>15, <1>16, <1>17, <1>18, <1>19, <1>20, <1>21, Zenon DEF SpecOK

LEMMA StrictOK == SpecOK(strictKeys)
<1>1. KeyOK(Optional(HwDeviceId, None))
  BY HwDeviceIdOK
<1>2. KeyOK(Optional(BufferMs, 1500))
  BY BufferMsOK
<1>3. KeyOK(Optional(DeviceBuffer, 40))
  BY DeviceBufferOK
<1>4. DOMAIN strictKeys = {"device", "buffer", "device_buffer_ms"}
  BY DEF strictKeys
<1>5. KeyOK(strictKeys["device"])
  <2>1. strictKeys["device"] = Optional(HwDeviceId, None)
    BY DEF strictKeys
  <2> QED BY <1>1, <2>1
<1>6. KeyOK(strictKeys["buffer"])
  <2>1. strictKeys["buffer"] = Optional(BufferMs, 1500)
    BY DEF strictKeys
  <2> QED BY <1>2, <2>1
<1>7. KeyOK(strictKeys["device_buffer_ms"])
  <2>1. strictKeys["device_buffer_ms"] = Optional(DeviceBuffer, 40)
    BY DEF strictKeys
  <2> QED BY <1>3, <2>1
<1> QED BY <1>4, <1>5, <1>6, <1>7, Zenon DEF SpecOK

LEMMA PanelOK == SpecOK(panelKeys)
<1>1. KeyOK(Key(name(Separated \cup {""}), "light"))
  <2>1. "light" \in Strings \ (Separated \cup {""})
    BY SettingsFileAssumption
  <2> QED BY <2>1, NameOK, Zenon
<1>2. KeyOK(Key(integer(SAVE_INTERVALS), 30))
  <2>1. SAVE_INTERVALS \in SUBSET Int /\ 30 \in SAVE_INTERVALS
    BY DEF SAVE_INTERVALS
  <2> QED BY <2>1, IntegerOK, Zenon
<1>3. KeyOK(Key(flag, FALSE))
  BY FlagOK
<1>4. KeyOK(Key(flag, TRUE))
  BY FlagOK
<1>5. KeyOK(Key(number(within(10000, 40000)), 20000))
  BY NumberWithin
<1>6. KeyOK(Key(number(within(20000, 40000)), 24000))
  BY NumberWithin
<1>7. KeyOK(Key(number(within(0, 2000)), 1200))
  BY NumberWithin
<1>8. KeyOK(Key(order(ALL_COLUMNS), Columns))
  BY OrderOK, KeysAssumption DEF ALL_COLUMNS
<1>9. KeyOK(Key(order(Range(CoverSources)), CoverSources))
  <2>1. "folder" \in Strings /\ "embedded" \in Strings /\ "internet" \in Strings
    BY SettingsFileAssumption DEF CoverSources, Range
  <2>2. CoverSources \in Seq(Strings)
    BY <2>1, TuplesArePaths DEF CoverSources
  <2> QED BY <2>2, OrderOK
<1>10. KeyOK(Key(texts, <<"cover.jpg", "folder.jpg">>))
  BY TuplesArePaths, SettingsFileAssumption DEF KeyOK, KindOK, Fits, Holds, Key, texts
<1>11. DOMAIN panelKeys = {"theme", "save_interval", "minimize_to_tray", "scroll_to_playing", "cover_size", "col_info_w", "col_gap", "column_order", "cover_priority", "cover_folder_names", "cover_online"}
  BY DEF panelKeys
<1>12. KeyOK(panelKeys["theme"])
  <2>1. panelKeys["theme"] = Key(name(Separated \cup {""}), "light")
    BY DEF panelKeys
  <2> QED BY <1>1, <2>1
<1>13. KeyOK(panelKeys["save_interval"])
  <2>1. panelKeys["save_interval"] = Key(integer(SAVE_INTERVALS), 30)
    BY DEF panelKeys
  <2> QED BY <1>2, <2>1
<1>14. KeyOK(panelKeys["minimize_to_tray"])
  <2>1. panelKeys["minimize_to_tray"] = Key(flag, FALSE)
    BY DEF panelKeys
  <2> QED BY <1>3, <2>1
<1>15. KeyOK(panelKeys["scroll_to_playing"])
  <2>1. panelKeys["scroll_to_playing"] = Key(flag, TRUE)
    BY DEF panelKeys
  <2> QED BY <1>4, <2>1
<1>16. KeyOK(panelKeys["cover_size"])
  <2>1. panelKeys["cover_size"] = Key(number(within(10000, 40000)), 20000)
    BY DEF panelKeys
  <2> QED BY <1>5, <2>1
<1>17. KeyOK(panelKeys["col_info_w"])
  <2>1. panelKeys["col_info_w"] = Key(number(within(20000, 40000)), 24000)
    BY DEF panelKeys
  <2> QED BY <1>6, <2>1
<1>18. KeyOK(panelKeys["col_gap"])
  <2>1. panelKeys["col_gap"] = Key(number(within(0, 2000)), 1200)
    BY DEF panelKeys
  <2> QED BY <1>7, <2>1
<1>19. KeyOK(panelKeys["column_order"])
  <2>1. panelKeys["column_order"] = Key(order(ALL_COLUMNS), Columns)
    BY DEF panelKeys
  <2> QED BY <1>8, <2>1
<1>20. KeyOK(panelKeys["cover_priority"])
  <2>1. panelKeys["cover_priority"] = Key(order(Range(CoverSources)), CoverSources)
    BY DEF panelKeys
  <2> QED BY <1>9, <2>1
<1>21. KeyOK(panelKeys["cover_folder_names"])
  <2>1. panelKeys["cover_folder_names"] = Key(texts, <<"cover.jpg", "folder.jpg">>)
    BY DEF panelKeys
  <2> QED BY <1>10, <2>1
<1>22. KeyOK(panelKeys["cover_online"])
  <2>1. panelKeys["cover_online"] = Key(flag, TRUE)
    BY DEF panelKeys
  <2> QED BY <1>4, <2>1
<1> QED BY <1>11, <1>12, <1>13, <1>14, <1>15, <1>16, <1>17, <1>18, <1>19, <1>20, <1>21, <1>22, Zenon DEF SpecOK

LEMMA CommonOK == SpecOK(common)
<1>1. KeyOK(Key(ChannelMode, "stereo"))
  BY ChannelModeOK
<1>2. KeyOK(Key(text, "#11111b"))
  BY TextOK, SettingsFileAssumption
<1>3. KeyOK(Key(text, "#cba6f7"))
  BY TextOK, SettingsFileAssumption
<1>4. KeyOK(Key(number(Int), 100))
  <2>1. Int \in SUBSET Int /\ 100 \in Int
    OBVIOUS
  <2> QED BY <2>1, NumberOK, Zenon
<1>5. DOMAIN common = {"channels", "bg_color", "fg_color", "sensitivity"}
  BY DEF common
<1>6. KeyOK(common["channels"])
  <2>1. common["channels"] = Key(ChannelMode, "stereo")
    BY DEF common
  <2> QED BY <1>1, <2>1
<1>7. KeyOK(common["bg_color"])
  <2>1. common["bg_color"] = Key(text, "#11111b")
    BY DEF common
  <2> QED BY <1>2, <2>1
<1>8. KeyOK(common["fg_color"])
  <2>1. common["fg_color"] = Key(text, "#cba6f7")
    BY DEF common
  <2> QED BY <1>3, <2>1
<1>9. KeyOK(common["sensitivity"])
  <2>1. common["sensitivity"] = Key(number(Int), 100)
    BY DEF common
  <2> QED BY <1>4, <2>1
<1> QED BY <1>5, <1>6, <1>7, <1>8, <1>9, Zenon DEF SpecOK

LEMMA CachedOK == SpecOK(cached)
<1>1. KeyOK(Key(flag, TRUE))
  BY FlagOK
<1>2. DOMAIN cached = {"cache_in_memory", "cache_on_disk"}
  BY DEF cached
<1>3. KeyOK(cached["cache_in_memory"])
  <2>1. cached["cache_in_memory"] = Key(flag, TRUE)
    BY DEF cached
  <2> QED BY <1>1, <2>1
<1>4. KeyOK(cached["cache_on_disk"])
  <2>1. cached["cache_on_disk"] = Key(flag, TRUE)
    BY DEF cached
  <2> QED BY <1>1, <2>1
<1> QED BY <1>2, <1>3, <1>4, Zenon DEF SpecOK

LEMMA OscilloscopeOK == SpecOK(oscilloscopeKeys)
<1>1. KeyOK(Key(number(within(50, 400)), 120))
  BY NumberWithin
<1>2. KeyOK(Key(flag, FALSE))
  BY FlagOK
<1>3. KeyOK(Key(integer(within(512, 8192)), 2000))
  BY IntegerWithin
<1>4. DOMAIN oscilloscopeKeys = {"line_width", "draw_center_line", "max_columns"}
  BY DEF oscilloscopeKeys
<1>5. KeyOK(oscilloscopeKeys["line_width"])
  <2>1. oscilloscopeKeys["line_width"] = Key(number(within(50, 400)), 120)
    BY DEF oscilloscopeKeys
  <2> QED BY <1>1, <2>1
<1>6. KeyOK(oscilloscopeKeys["draw_center_line"])
  <2>1. oscilloscopeKeys["draw_center_line"] = Key(flag, FALSE)
    BY DEF oscilloscopeKeys
  <2> QED BY <1>2, <2>1
<1>7. KeyOK(oscilloscopeKeys["max_columns"])
  <2>1. oscilloscopeKeys["max_columns"] = Key(integer(within(512, 8192)), 2000)
    BY DEF oscilloscopeKeys
  <2> QED BY <1>3, <2>1
<1> QED BY <1>4, <1>5, <1>6, <1>7, Zenon DEF SpecOK

LEMMA SpectrogramOK == SpecOK(spectrogramKeys)
<1>1. KeyOK(Key(integer({512, 1024, 2048, 4096, 8192}), 2048))
  <2>1. 2048 \in {512, 1024, 2048, 4096, 8192} /\ {512, 1024, 2048, 4096, 8192} \in SUBSET Int
    OBVIOUS
  <2> QED BY <2>1, IntegerOK
<1>2. KeyOK(Key(WindowType, "hann"))
  BY WindowTypeOK
<1>3. KeyOK(Key(FreqScale, "log"))
  BY FreqScaleOK
<1>4. KeyOK(Key(integer(Nat), 20))
  BY IntegerNat
<1>5. KeyOK(Key(integer(Nat), 22000))
  BY IntegerNat
<1>6. KeyOK(Key(number(within(-4000, 10000)), 2000))
  BY NumberWithin
<1>7. KeyOK(Key(number(within(100, 20000)), 8000))
  BY NumberWithin
<1>8. KeyOK(Key(number(within(0, 6000)), 600))
  BY NumberWithin
<1>9. KeyOK(Key(Palette, "magma"))
  BY PaletteOK
<1>10. KeyOK(Key(integer(within(512, 8192)), 4000))
  BY IntegerWithin
<1>11. KeyOK(Key(flag, TRUE))
  BY FlagOK
<1>12. DOMAIN spectrogramKeys = {"fft_size", "window_type", "freq_scale", "freq_min", "freq_max", "gain_db", "range_db", "high_boost_db", "palette", "max_frames", "dsd_cic_compensation"}
  BY DEF spectrogramKeys
<1>13. KeyOK(spectrogramKeys["fft_size"])
  <2>1. spectrogramKeys["fft_size"] = Key(integer({512, 1024, 2048, 4096, 8192}), 2048)
    BY DEF spectrogramKeys
  <2> QED BY <1>1, <2>1
<1>14. KeyOK(spectrogramKeys["window_type"])
  <2>1. spectrogramKeys["window_type"] = Key(WindowType, "hann")
    BY DEF spectrogramKeys
  <2> QED BY <1>2, <2>1
<1>15. KeyOK(spectrogramKeys["freq_scale"])
  <2>1. spectrogramKeys["freq_scale"] = Key(FreqScale, "log")
    BY DEF spectrogramKeys
  <2> QED BY <1>3, <2>1
<1>16. KeyOK(spectrogramKeys["freq_min"])
  <2>1. spectrogramKeys["freq_min"] = Key(integer(Nat), 20)
    BY DEF spectrogramKeys
  <2> QED BY <1>4, <2>1
<1>17. KeyOK(spectrogramKeys["freq_max"])
  <2>1. spectrogramKeys["freq_max"] = Key(integer(Nat), 22000)
    BY DEF spectrogramKeys
  <2> QED BY <1>5, <2>1
<1>18. KeyOK(spectrogramKeys["gain_db"])
  <2>1. spectrogramKeys["gain_db"] = Key(number(within(-4000, 10000)), 2000)
    BY DEF spectrogramKeys
  <2> QED BY <1>6, <2>1
<1>19. KeyOK(spectrogramKeys["range_db"])
  <2>1. spectrogramKeys["range_db"] = Key(number(within(100, 20000)), 8000)
    BY DEF spectrogramKeys
  <2> QED BY <1>7, <2>1
<1>20. KeyOK(spectrogramKeys["high_boost_db"])
  <2>1. spectrogramKeys["high_boost_db"] = Key(number(within(0, 6000)), 600)
    BY DEF spectrogramKeys
  <2> QED BY <1>8, <2>1
<1>21. KeyOK(spectrogramKeys["palette"])
  <2>1. spectrogramKeys["palette"] = Key(Palette, "magma")
    BY DEF spectrogramKeys
  <2> QED BY <1>9, <2>1
<1>22. KeyOK(spectrogramKeys["max_frames"])
  <2>1. spectrogramKeys["max_frames"] = Key(integer(within(512, 8192)), 4000)
    BY DEF spectrogramKeys
  <2> QED BY <1>10, <2>1
<1>23. KeyOK(spectrogramKeys["dsd_cic_compensation"])
  <2>1. spectrogramKeys["dsd_cic_compensation"] = Key(flag, TRUE)
    BY DEF spectrogramKeys
  <2> QED BY <1>11, <2>1
<1> QED BY <1>12, <1>13, <1>14, <1>15, <1>16, <1>17, <1>18, <1>19, <1>20, <1>21, <1>22, <1>23, Zenon DEF SpecOK

LEMMA SpectrumOK == SpecOK(spectrumKeys)
<1>1. KeyOK(Key(integer(within(4, 128)), 32))
  BY IntegerWithin
<1>2. KeyOK(Key(FreqScale, "log"))
  BY FreqScaleOK
<1>3. KeyOK(Key(LevelScale, "log"))
  BY LevelScaleOK
<1>4. KeyOK(Key(number(within(0, 99)), 70))
  BY NumberWithin
<1>5. KeyOK(Key(flag, FALSE))
  BY FlagOK
<1>6. KeyOK(Key(integer(Nat), 400))
  BY IntegerNat
<1>7. KeyOK(Key(integer(within(0, 10)), 2))
  BY IntegerWithin
<1>8. KeyOK(Key(integer(within(0, 12)), 2))
  BY IntegerWithin
<1>9. KeyOK(Key(flag, TRUE))
  BY FlagOK
<1>10. DOMAIN spectrumKeys = {"bands", "freq_scale", "level_scale", "smoothing", "peak_hold", "peak_decay_ms", "bar_gap", "bar_radius", "gradient", "dsd_cic_compensation"}
  BY DEF spectrumKeys
<1>11. KeyOK(spectrumKeys["bands"])
  <2>1. spectrumKeys["bands"] = Key(integer(within(4, 128)), 32)
    BY DEF spectrumKeys
  <2> QED BY <1>1, <2>1
<1>12. KeyOK(spectrumKeys["freq_scale"])
  <2>1. spectrumKeys["freq_scale"] = Key(FreqScale, "log")
    BY DEF spectrumKeys
  <2> QED BY <1>2, <2>1
<1>13. KeyOK(spectrumKeys["level_scale"])
  <2>1. spectrumKeys["level_scale"] = Key(LevelScale, "log")
    BY DEF spectrumKeys
  <2> QED BY <1>3, <2>1
<1>14. KeyOK(spectrumKeys["smoothing"])
  <2>1. spectrumKeys["smoothing"] = Key(number(within(0, 99)), 70)
    BY DEF spectrumKeys
  <2> QED BY <1>4, <2>1
<1>15. KeyOK(spectrumKeys["peak_hold"])
  <2>1. spectrumKeys["peak_hold"] = Key(flag, FALSE)
    BY DEF spectrumKeys
  <2> QED BY <1>5, <2>1
<1>16. KeyOK(spectrumKeys["peak_decay_ms"])
  <2>1. spectrumKeys["peak_decay_ms"] = Key(integer(Nat), 400)
    BY DEF spectrumKeys
  <2> QED BY <1>6, <2>1
<1>17. KeyOK(spectrumKeys["bar_gap"])
  <2>1. spectrumKeys["bar_gap"] = Key(integer(within(0, 10)), 2)
    BY DEF spectrumKeys
  <2> QED BY <1>7, <2>1
<1>18. KeyOK(spectrumKeys["bar_radius"])
  <2>1. spectrumKeys["bar_radius"] = Key(integer(within(0, 12)), 2)
    BY DEF spectrumKeys
  <2> QED BY <1>8, <2>1
<1>19. KeyOK(spectrumKeys["gradient"])
  <2>1. spectrumKeys["gradient"] = Key(flag, TRUE)
    BY DEF spectrumKeys
  <2> QED BY <1>9, <2>1
<1>20. KeyOK(spectrumKeys["dsd_cic_compensation"])
  <2>1. spectrumKeys["dsd_cic_compensation"] = Key(flag, TRUE)
    BY DEF spectrumKeys
  <2> QED BY <1>9, <2>1
<1> QED BY <1>10, <1>11, <1>12, <1>13, <1>14, <1>15, <1>16, <1>17, <1>18, <1>19, <1>20, Zenon DEF SpecOK

LEMMA CacheOK == SpecOK(cacheKeys)
<1>1. KeyOK(Key(flag, TRUE))
  BY FlagOK
<1>2. KeyOK(Key(integer(Nat), 64))
  BY IntegerNat
<1>3. KeyOK(Key(integer(Nat), 512))
  BY IntegerNat
<1>4. DOMAIN cacheKeys = {"skip_fulltrack_for_dsd", "viz_max_ram_mb", "disk_max_size_mb"}
  BY DEF cacheKeys
<1>5. KeyOK(cacheKeys["skip_fulltrack_for_dsd"])
  <2>1. cacheKeys["skip_fulltrack_for_dsd"] = Key(flag, TRUE)
    BY DEF cacheKeys
  <2> QED BY <1>1, <2>1
<1>6. KeyOK(cacheKeys["viz_max_ram_mb"])
  <2>1. cacheKeys["viz_max_ram_mb"] = Key(integer(Nat), 64)
    BY DEF cacheKeys
  <2> QED BY <1>2, <2>1
<1>7. KeyOK(cacheKeys["disk_max_size_mb"])
  <2>1. cacheKeys["disk_max_size_mb"] = Key(integer(Nat), 512)
    BY DEF cacheKeys
  <2> QED BY <1>3, <2>1
<1> QED BY <1>4, <1>5, <1>6, <1>7, Zenon DEF SpecOK

LEMMA WindowOK == SpecOK(windowKeys)
<1>1. KeyOK(Optional(integer(I32), None))
  <2>1. I32 \in SUBSET Int
    BY StateFileAssumption DEF I32
  <2> QED BY <2>1, IntegerOK, Zenon
<1>2. KeyOK(Optional(integer(Nat \ {0}), None))
  <2>1. Nat \ {0} \in SUBSET Int
    OBVIOUS
  <2> QED BY <2>1, IntegerOK, Zenon
<1>3. KeyOK(Key(flag, FALSE))
  BY FlagOK
<1>4. KeyOK(window_units_spec)
  BY WindowUnitsOK
<1>5. DOMAIN windowKeys = {"x", "y", "width", "height", "maximized", "fullscreen", "units"}
  BY DEF windowKeys
<1>6. KeyOK(windowKeys["x"])
  <2>1. windowKeys["x"] = Optional(integer(I32), None)
    BY DEF windowKeys
  <2> QED BY <1>1, <2>1
<1>7. KeyOK(windowKeys["y"])
  <2>1. windowKeys["y"] = Optional(integer(I32), None)
    BY DEF windowKeys
  <2> QED BY <1>1, <2>1
<1>8. KeyOK(windowKeys["width"])
  <2>1. windowKeys["width"] = Optional(integer(Nat \ {0}), None)
    BY DEF windowKeys
  <2> QED BY <1>2, <2>1
<1>9. KeyOK(windowKeys["height"])
  <2>1. windowKeys["height"] = Optional(integer(Nat \ {0}), None)
    BY DEF windowKeys
  <2> QED BY <1>2, <2>1
<1>10. KeyOK(windowKeys["maximized"])
  <2>1. windowKeys["maximized"] = Key(flag, FALSE)
    BY DEF windowKeys
  <2> QED BY <1>3, <2>1
<1>11. KeyOK(windowKeys["fullscreen"])
  <2>1. windowKeys["fullscreen"] = Key(flag, FALSE)
    BY DEF windowKeys
  <2> QED BY <1>3, <2>1
<1>12. KeyOK(windowKeys["units"])
  <2>1. windowKeys["units"] = window_units_spec
    BY DEF windowKeys
  <2> QED BY <1>4, <2>1
<1> QED BY <1>5, <1>6, <1>7, <1>8, <1>9, <1>10, <1>11, <1>12, Zenon DEF SpecOK

-----------------------------------------------------------------------------
(* Orders                                                                   *)

\* A list with every item of all once, and no other.
Orders(list, all) == list \in Seq(Strings) /\ IsInjective(list) /\ Range(list) = Range(all)

\* Two lists one after the other have the items of both.
LEMMA JoinedRange ==
  ASSUME NEW T, NEW s \in Seq(T), NEW t \in Seq(T)
  PROVE  s \o t \in Seq(T) /\ Range(s \o t) = Range(s) \cup Range(t)
<1>1. PICK u : u = s \o t
  OBVIOUS
<1>2. /\ u \in Seq(T) /\ Len(u) = Len(s) + Len(t)
      /\ \A i \in 1 .. Len(s) + Len(t) : u[i] = IF i <= Len(s) THEN s[i] ELSE t[i - Len(s)]
  BY <1>1, ConcatProperties
<1>3. DOMAIN u = 1 .. Len(s) + Len(t) /\ DOMAIN s = 1 .. Len(s) /\ DOMAIN t = 1 .. Len(t)
      /\ Len(s) \in Nat /\ Len(t) \in Nat
  BY <1>2
<1>4. ASSUME NEW x \in Range(s) PROVE x \in Range(u)
  <2>1. PICK i \in 1 .. Len(s) : s[i] = x
    BY <1>3 DEF Range
  <2>2. i \in 1 .. Len(s) + Len(t) /\ u[i] = x
    BY <1>2, <1>3, <2>1
  <2> QED BY <1>3, <2>2 DEF Range
<1>5. ASSUME NEW x \in Range(t) PROVE x \in Range(u)
  <2>1. PICK i \in 1 .. Len(t) : t[i] = x
    BY <1>3 DEF Range
  <2>2. PICK j : j = i + Len(s)
    OBVIOUS
  <2>3. j \in 1 .. Len(s) + Len(t) /\ ~(j <= Len(s)) /\ j - Len(s) = i
    BY <1>3, <2>2
  <2>4. u[j] = x
    BY <1>2, <2>1, <2>3
  <2> QED BY <1>3, <2>3, <2>4 DEF Range
<1>6. ASSUME NEW x \in Range(u) PROVE x \in Range(s) \cup Range(t)
  <2>1. PICK i \in 1 .. Len(s) + Len(t) : u[i] = x
    BY <1>3 DEF Range
  <2>2. CASE i <= Len(s)
    <3>1. i \in DOMAIN s /\ s[i] = x
      BY <1>2, <1>3, <2>1, <2>2
    <3> QED BY <3>1 DEF Range
  <2>3. CASE ~(i <= Len(s))
    <3>1. i - Len(s) \in DOMAIN t /\ t[i - Len(s)] = x
      BY <1>2, <1>3, <2>1, <2>3
    <3> QED BY <3>1 DEF Range
  <2> QED BY <2>2, <2>3
<1>7. Range(u) = Range(s) \cup Range(t)
  BY <1>4, <1>5, <1>6
<1> QED BY <1>1, <1>2, <1>7

\* An order that is completed names everything once.
LEMMA CompletedOrders ==
  ASSUME NEW all \in Seq(Strings), NEW listed \in Seq(Strings), Range(listed) \subseteq Range(all)
  PROVE  Orders(completed(listed, all), all)
<1>1. PICK items : items = listed \o all
  OBVIOUS
<1>2. items \in Seq(Strings) /\ Range(items) = Range(all)
  <2>1. listed \o all \in Seq(Strings) /\ Range(listed \o all) = Range(listed) \cup Range(all)
    BY JoinedRange, ZenonT(40)
  <2> QED BY <1>1, <2>1
<1> DEFINE places == {i \in DOMAIN items : \A j \in 1 .. (i - 1) : items[j] # items[i]}
<1>3. completed(listed, all) = Picked(items, places)
  BY <1>1 DEF completed
<1>4. DOMAIN items = 1 .. Len(items) /\ Len(items) \in Nat
  BY <1>2
<1>5. ASSUME NEW i \in places, NEW j \in places, items[i] = items[j] PROVE i = j
  <2>1. i \in Nat /\ j \in Nat /\ i >= 1 /\ j >= 1
    BY <1>4
  <2>2. ~(i < j) /\ ~(j < i)
    BY <1>5, <2>1
  <2> QED BY <2>1, <2>2
<1>6. ASSUME NEW x \in Range(items) PROVE \E i \in places : items[i] = x
  <2> DEFINE S == {i \in DOMAIN items : items[i] = x}
  <2>1. S # {} /\ S \in SUBSET Nat
    BY <1>4 DEF Range
  <2>2. PICK m \in S : \A k \in S : m <= k
    <3> HIDE DEF S
    <3> QED BY <2>1, LeastNatural
  <2>3. \A j \in 1 .. (m - 1) : j \in DOMAIN items /\ ~(m <= j) /\ j \notin S
    BY <1>4, <2>2
  <2>4. m \in places /\ items[m] = x
    BY <2>3
  <2> QED BY <2>4
<1>7. DOMAIN items \cap places = places /\ places \subseteq DOMAIN items
  OBVIOUS
<1> HIDE DEF places
<1>8. PICK list : list = Picked(items, places)
  OBVIOUS
<1>9. list \in Seq(Strings) /\ Range(list) = {items[i] : i \in places}
  BY <1>2, <1>7, <1>8, PickedIs
<1>10. IsInjective(list)
  BY <1>2, <1>5, <1>7, <1>8, PickedOnce
<1>11. Range(list) = Range(items)
  <2>1. \A i \in places : items[i] \in Range(items)
    BY <1>7 DEF Range
  <2> QED BY <1>6, <1>9, <2>1
<1> QED BY <1>2, <1>3, <1>8, <1>9, <1>10, <1>11 DEF Orders

\* A part of a list, and two lists one after the other, item by item.
LEMMA PartIs ==
  ASSUME NEW T, NEW list \in Seq(T), NEW a \in Nat \ {0}, NEW b \in Nat, a <= b + 1, b <= Len(list)
  PROVE  /\ SubSeq(list, a, b) \in Seq(T) /\ Len(SubSeq(list, a, b)) = b - a + 1
         /\ \A i \in 1 .. b - a + 1 : SubSeq(list, a, b)[i] = list[a + i - 1]
BY SubSeqProperties

LEMMA JoinedIs ==
  ASSUME NEW T, NEW s \in Seq(T), NEW t \in Seq(T)
  PROVE  /\ s \o t \in Seq(T) /\ Len(s \o t) = Len(s) + Len(t)
         /\ \A i \in 1 .. Len(s) : (s \o t)[i] = s[i]
         /\ \A i \in Len(s) + 1 .. Len(s) + Len(t) : (s \o t)[i] = t[i - Len(s)]
BY ConcatProperties

\* An item taken out and put back next to where it was.
LEMMA MovedIs ==
  ASSUME NEW T, NEW list \in Seq(T), NEW from \in 1 .. Len(list), NEW to \in 1 .. Len(list),
         to = from - 1 \/ to = from + 1
  PROVE  /\ move_item(list, from, to) \in Seq(T)
         /\ Len(move_item(list, from, to)) = Len(list)
         /\ \A i \in 1 .. Len(list) :
              move_item(list, from, to)[i] = IF i = to THEN list[from]
                                             ELSE IF i = from THEN list[to] ELSE list[i]
<1> DEFINE n == Len(list)
<1>1. n \in Nat /\ DOMAIN list = 1 .. n /\ from \in 1 .. n /\ to \in 1 .. n
      /\ \A i \in 1 .. n : list[i] \in T
  OBVIOUS
<1>2. PICK a : a = SubSeq(list, 1, from - 1)
  OBVIOUS
<1>3. PICK b : b = SubSeq(list, from + 1, n)
  OBVIOUS
<1>4. /\ a \in Seq(T) /\ Len(a) = from - 1 /\ \A i \in 1 .. from - 1 : a[i] = list[i]
  BY <1>1, <1>2, PartIs
<1>5. /\ b \in Seq(T) /\ Len(b) = n - from /\ \A i \in 1 .. n - from : b[i] = list[from + i]
  <2>1. PICK k : k = from + 1
    OBVIOUS
  <2>2. k \in Nat \ {0} /\ n \in Nat /\ k <= n + 1 /\ n <= Len(list)
    BY <1>1, <2>1
  <2>3. b = SubSeq(list, k, n)
    BY <1>3, <2>1
  <2>4. b \in Seq(T) /\ Len(b) = n - k + 1 /\ \A i \in 1 .. n - k + 1 : b[i] = list[k + i - 1]
    BY <2>2, <2>3, PartIs
  <2>5. n - k + 1 = n - from /\ \A i \in 1 .. n - from : k + i - 1 = from + i
    BY <1>1, <2>1, <2>2
  <2> QED BY <2>4, <2>5
<1>6. PICK r : r = a \o b
  OBVIOUS
<1>7. /\ r \in Seq(T) /\ Len(r) = n - 1
      /\ \A i \in 1 .. n - 1 : r[i] = IF i <= from - 1 THEN list[i] ELSE list[i + 1]
  <2>1. /\ r \in Seq(T) /\ Len(r) = Len(a) + Len(b)
        /\ \A i \in 1 .. Len(a) : r[i] = a[i]
        /\ \A i \in Len(a) + 1 .. Len(a) + Len(b) : r[i] = b[i - Len(a)]
    <3>1. a \in Seq(T) /\ b \in Seq(T)
      BY <1>4, <1>5
    <3> QED BY <1>6, <3>1, JoinedIs
  <2>2. /\ r \in Seq(T) /\ Len(r) = (from - 1) + (n - from)
        /\ \A i \in 1 .. from - 1 : r[i] = a[i]
        /\ \A i \in (from - 1) + 1 .. (from - 1) + (n - from) : r[i] = b[i - (from - 1)]
    BY <1>4, <1>5, <2>1
  <2>3. ASSUME NEW i \in 1 .. n - 1, i <= from - 1 PROVE r[i] = list[i]
    <3>1. i \in 1 .. from - 1
      BY <1>1, <2>3
    <3> QED BY <1>4, <2>2, <3>1
  <2>4. ASSUME NEW i \in 1 .. n - 1, ~(i <= from - 1) PROVE r[i] = list[i + 1]
    <3>1. i \in (from - 1) + 1 .. (from - 1) + (n - from) /\ i - (from - 1) \in 1 .. n - from
          /\ from + (i - (from - 1)) = i + 1
      BY <1>1, <2>4
    <3> QED BY <1>5, <2>2, <3>1
  <2> QED BY <1>1, <2>2, <2>3, <2>4
<1>8. r = RemoveAt(list, from)
  BY <1>2, <1>3, <1>6 DEF RemoveAt
<1>9. PICK c : c = SubSeq(r, 1, to - 1)
  OBVIOUS
<1>10. PICK d : d = SubSeq(r, to, n - 1)
  OBVIOUS
<1>11. /\ c \in Seq(T) /\ Len(c) = to - 1 /\ \A i \in 1 .. to - 1 : c[i] = r[i]
  BY <1>1, <1>7, <1>9, PartIs
<1>12. /\ d \in Seq(T) /\ Len(d) = n - to /\ \A i \in 1 .. n - to : d[i] = r[to - 1 + i]
  <2>1. PICK m : m = n - 1
    OBVIOUS
  <2>2. to \in Nat \ {0} /\ m \in Nat /\ to <= m + 1 /\ m <= Len(r)
    BY <1>1, <1>7, <2>1
  <2>3. r \in Seq(T) /\ d = SubSeq(r, to, m)
    BY <1>7, <1>10, <2>1
  <2>4. d \in Seq(T) /\ Len(d) = m - to + 1 /\ \A i \in 1 .. m - to + 1 : d[i] = r[to + i - 1]
    BY <2>2, <2>3, PartIs
  <2>5. m - to + 1 = n - to /\ \A i \in 1 .. n - to : to + i - 1 = to - 1 + i
    BY <1>1, <2>1
  <2> QED BY <2>4, <2>5
<1>13. PICK e : e = c \o <<list[from]>>
  OBVIOUS
<1>14. /\ e \in Seq(T) /\ Len(e) = to /\ e[to] = list[from]
       /\ \A i \in 1 .. to - 1 : e[i] = r[i]
  BY <1>1, <1>11, <1>13, JoinedIs
<1>15. PICK m : m = e \o d
  OBVIOUS
<1>16. /\ m \in Seq(T) /\ Len(m) = n
       /\ \A i \in 1 .. to : m[i] = e[i]
       /\ \A i \in to + 1 .. n : m[i] = r[i - 1]
  <2>1. to \in Nat /\ n - to \in Nat /\ to + (n - to) = n
    BY <1>1
  <2>2. /\ m \in Seq(T) /\ Len(m) = Len(e) + Len(d)
        /\ \A i \in 1 .. Len(e) : m[i] = e[i]
        /\ \A i \in Len(e) + 1 .. Len(e) + Len(d) : m[i] = d[i - Len(e)]
    <3>1. e \in Seq(T) /\ d \in Seq(T)
      BY <1>12, <1>14
    <3> QED BY <1>15, <3>1, JoinedIs
  <2>3. \A i \in to + 1 .. n : i - to \in 1 .. n - to /\ to - 1 + (i - to) = i - 1
    BY <1>1
  <2>4. Len(e) = to /\ Len(d) = n - to
    BY <1>12, <1>14
  <2>5. /\ m \in Seq(T) /\ Len(m) = n /\ \A i \in 1 .. to : m[i] = e[i]
        /\ \A i \in to + 1 .. n : m[i] = d[i - to]
    BY <2>1, <2>2, <2>4
  <2> QED BY <1>12, <2>3, <2>5
<1>17. m = move_item(list, from, to)
  BY <1>7, <1>8, <1>9, <1>10, <1>13, <1>15 DEF move_item, InsertAt
<1>18. ASSUME NEW i \in 1 .. n
       PROVE  m[i] = IF i = to THEN list[from] ELSE IF i = from THEN list[to] ELSE list[i]
  <2>1. CASE i < to
    <3>1. i \in 1 .. to /\ i \in 1 .. to - 1 /\ i \in 1 .. n - 1
      BY <1>1, <2>1
    <3>2. m[i] = r[i]
      BY <1>14, <1>16, <3>1
    <3> QED BY <1>1, <1>7, <2>1, <3>1, <3>2
  <2>2. CASE i = to
    BY <1>1, <1>14, <1>16, <2>2
  <2>3. CASE i > to
    <3>1. i \in to + 1 .. n /\ i - 1 \in 1 .. n - 1 /\ (i - 1) + 1 = i
      BY <1>1, <2>3
    <3>2. m[i] = r[i - 1]
      BY <1>16, <3>1
    <3>3. r[i - 1] = IF i - 1 <= from - 1 THEN list[i - 1] ELSE list[i]
      BY <1>7, <3>1
    <3>4. (i - 1 <= from - 1) <=> i <= from
      BY <1>1
    <3>5. i <= from => i = from /\ i - 1 = to
      BY <1>1, <2>3
    <3> QED BY <1>1, <2>3, <3>2, <3>3, <3>4, <3>5
  <2> QED BY <1>1, <2>1, <2>2, <2>3
<1> QED BY <1>16, <1>17, <1>18

\* An order stays one when an item is moved.
LEMMA MovedOrders ==
  ASSUME NEW all, NEW list, Orders(list, all), NEW from \in 1 .. Len(list), NEW to \in 1 .. Len(list),
         to = from - 1 \/ to = from + 1
  PROVE  Orders(move_item(list, from, to), all)
<1>1. PICK m : m = move_item(list, from, to)
  OBVIOUS
<1>2. list \in Seq(Strings) /\ IsInjective(list) /\ Range(list) = Range(all)
  BY DEF Orders
<1>3. /\ m \in Seq(Strings) /\ Len(m) = Len(list)
      /\ \A i \in 1 .. Len(list) :
           m[i] = IF i = to THEN list[from] ELSE IF i = from THEN list[to] ELSE list[i]
  BY <1>1, <1>2, MovedIs
<1>4. DOMAIN m = 1 .. Len(list) /\ DOMAIN list = 1 .. Len(list) /\ from # to
  BY <1>2, <1>3
<1>5. IsInjective(m)
  BY <1>2, <1>3, <1>4 DEF IsInjective
<1>6. ASSUME NEW i \in DOMAIN list PROVE \E j \in DOMAIN m : m[j] = list[i]
  <2>1. i = from \/ i = to \/ (i # from /\ i # to)
    OBVIOUS
  <2> QED BY <1>3, <1>4, <2>1
<1>7. ASSUME NEW j \in DOMAIN m PROVE \E i \in DOMAIN list : m[j] = list[i]
  BY <1>3, <1>4
<1>8. Range(m) = Range(list)
  BY <1>6, <1>7 DEF Range
<1> QED BY <1>1, <1>2, <1>3, <1>5, <1>8 DEF Orders

-----------------------------------------------------------------------------
(* The tables of keys                                                       *)

ColumnOrder == <<"column_order">>

CoverPriority == <<"cover_priority">>

OrderOf(all) == Key(order(Range(all)), all)

\* The panel comes first in the table, and the options of the modes are not in it.
LEMMA PanelPaths ==
  /\ ColumnOrder \in DOMAIN panel_specs /\ panel_specs[ColumnOrder] = OrderOf(Columns)
  /\ CoverPriority \in DOMAIN panel_specs /\ panel_specs[CoverPriority] = OrderOf(CoverSources)
  /\ \A p \in DOMAIN panel_specs : p[1] # "playback"
<1>1. DOMAIN panelKeys \subseteq Strings
  BY SettingsFileAssumption
<1>2. /\ "column_order" \in DOMAIN panelKeys /\ panelKeys["column_order"] = OrderOf(Columns)
      /\ "cover_priority" \in DOMAIN panelKeys /\ panelKeys["cover_priority"] = OrderOf(CoverSources)
      /\ "playback" \notin DOMAIN panelKeys
  BY DEF panelKeys, OrderOf, ALL_COLUMNS
<1>3. <<>> \in Seq(Strings) /\ Len(<<>>) = 0
  BY EmptySeq
<1>4. ColumnOrder = Append(<<>>, "column_order") /\ CoverPriority = Append(<<>>, "cover_priority")
  BY DEF ColumnOrder, CoverPriority
<1>5. \A k \in DOMAIN panelKeys :
         Append(<<>>, k) \in DOMAIN panel_specs /\ panel_specs[Append(<<>>, k)] = panelKeys[k]
  BY <1>1, <1>3, SectionIs DEF panel_specs
<1>6. ASSUME NEW p \in DOMAIN panel_specs PROVE p[1] # "playback"
  <2>1. PICK k \in DOMAIN panelKeys : p = Append(<<>>, k)
    BY <1>1, <1>3, <1>6, SectionIs DEF panel_specs
  <2>2. p = <<k>> /\ k # "playback"
    BY <1>2, <2>1, AppendedTuple
  <2> QED BY <2>2
<1> QED BY <1>2, <1>4, <1>5, <1>6

LEMMA OtherPaths ==
  /\ \A p \in DOMAIN column_specs : p[1] # "playback"
  /\ \A p \in DOMAIN info_label_specs : p[1] # "playback"
<1>1. \A p \in DOMAIN column_specs : p[1] = "columns"
  BY DEF column_specs, Column
<1>2. PICK labels : labels = [k \in Labels |-> Key(text, k)]
  OBVIOUS
<1>3. DOMAIN labels \subseteq Strings
  BY <1>2, SettingsFileAssumption
<1>4. PICK prefix : prefix = <<"info_labels">>
  OBVIOUS
<1>5. prefix \in Seq(Strings) /\ Len(prefix) = 1 /\ prefix[1] = "info_labels"
  BY <1>4, SettingsFileAssumption, TuplesArePaths
<1>6. info_label_specs = Section(prefix, labels)
  BY <1>2, <1>4 DEF info_label_specs
<1>7. \A p \in DOMAIN info_label_specs : p[1] = "info_labels"
  BY <1>3, <1>5, <1>6, SectionAt
<1> QED BY <1>1, <1>7

\* The paths of a table begin as its prefix.
LEMMA SectionBegins ==
  ASSUME NEW prefix \in Seq(Strings), NEW keys, DOMAIN keys \subseteq Strings, Len(prefix) > 0
  PROVE  \A p \in DOMAIN Section(prefix, keys) : p[1] = prefix[1]
<1>1. 1 \in 1 .. Len(prefix)
  OBVIOUS
<1> QED BY <1>1, SectionAt

LEMMA VisualizationPaths ==
  \A p \in DOMAIN visualization_specs : p[1] = "visualization"
<1>1. /\ {"visualization", "oscilloscope", "spectrogram", "spectrum"} \subseteq Strings
      /\ DOMAIN common \subseteq Strings /\ DOMAIN cached \subseteq Strings
      /\ DOMAIN oscilloscopeKeys \subseteq Strings /\ DOMAIN spectrogramKeys \subseteq Strings
      /\ DOMAIN spectrumKeys \subseteq Strings /\ DOMAIN cacheKeys \subseteq Strings
  BY SettingsFileAssumption
<1>2. ASSUME NEW k \in Strings
      PROVE  <<"visualization", k>> \in Seq(Strings) /\ Len(<<"visualization", k>>) > 0
             /\ <<"visualization", k>>[1] = "visualization"
  BY <1>1, TuplesArePaths
<1>3. <<"visualization">> \in Seq(Strings) /\ Len(<<"visualization">>) > 0
      /\ <<"visualization">>[1] = "visualization"
  BY <1>1, TuplesArePaths
<1>4. /\ DOMAIN (common ++ cached ++ oscilloscopeKeys) \subseteq Strings
      /\ DOMAIN (common ++ cached ++ spectrogramKeys) \subseteq Strings
      /\ DOMAIN (common ++ spectrumKeys) \subseteq Strings
  BY <1>1 DEF ++
<1>5. \A p \in DOMAIN oscilloscope_specs : p[1] = "visualization"
  BY <1>1, <1>2, <1>4, SectionBegins DEF oscilloscope_specs
<1>6. \A p \in DOMAIN spectrogram_specs : p[1] = "visualization"
  BY <1>1, <1>2, <1>4, SectionBegins DEF spectrogram_specs
<1>7. \A p \in DOMAIN spectrum_specs : p[1] = "visualization"
  BY <1>1, <1>2, <1>4, SectionBegins DEF spectrum_specs
<1>8. \A p \in DOMAIN Section(<<"visualization">>, cacheKeys) : p[1] = "visualization"
  BY <1>1, <1>3, SectionBegins
<1> QED BY <1>5, <1>6, <1>7, <1>8 DEF visualization_specs, ++

LEMMA SettingsPaths ==
  /\ ColumnOrder \in DOMAIN settings_spec /\ settings_spec[ColumnOrder] = OrderOf(Columns)
  /\ CoverPriority \in DOMAIN settings_spec /\ settings_spec[CoverPriority] = OrderOf(CoverSources)
  /\ \A p \in DOMAIN settings_spec : p[1] # "playback"
BY VisualizationPaths, PanelPaths, OtherPaths DEF settings_spec, ++

-----------------------------------------------------------------------------
(* The options of the modes                                                 *)

LEMMA ModeNames ==
  /\ {"playback", "compatible", "optimal", "strict", "devices", "schema", "dop", ""} \subseteq Strings
  /\ DOMAIN compatibleKeys \subseteq Strings /\ DOMAIN optimalKeys \subseteq Strings
  /\ DOMAIN strictKeys \subseteq Strings
BY ModeSettingsAssumption

LEMMA ModeSection ==
  ASSUME NEW m \in {"compatible", "optimal", "strict"}, NEW keys, DOMAIN keys \subseteq Strings
  PROVE  /\ \A p \in DOMAIN Section(<<"playback", m>>, keys) :
              p[2] = m /\ p[3] \in DOMAIN keys /\ p = Option(m, p[3])
         /\ \A k \in DOMAIN keys :
              /\ Option(m, k) \in DOMAIN Section(<<"playback", m>>, keys)
              /\ Section(<<"playback", m>>, keys)[Option(m, k)] = keys[k]
<1>1. PICK prefix : prefix = <<"playback", m>>
  OBVIOUS
<1>2. prefix \in Seq(Strings)
  BY <1>1, ModeNames, TuplesArePaths
<1>3. \A k : Append(prefix, k) = Option(m, k)
  BY <1>1, AppendedTuple DEF Option
<1>4. PICK t : t = Section(prefix, keys)
  OBVIOUS
<1>5. /\ \A p \in DOMAIN t : \E k \in DOMAIN keys : p = Append(prefix, k)
      /\ \A k \in DOMAIN keys : Append(prefix, k) \in DOMAIN t /\ t[Append(prefix, k)] = keys[k]
  BY <1>2, <1>4, SectionIs, Zenon
<1>6. /\ \A p \in DOMAIN t : \E k \in DOMAIN keys : p = Option(m, k)
      /\ \A k \in DOMAIN keys : Option(m, k) \in DOMAIN t /\ t[Option(m, k)] = keys[k]
  BY <1>3, <1>5
<1>7. \A p \in DOMAIN t : p[2] = m /\ p[3] \in DOMAIN keys /\ p = Option(m, p[3])
  BY <1>6 DEF Option
<1> QED BY <1>1, <1>4, <1>6, <1>7, Zenon

\* The options of a mode, by their names.
LEMMA ModePaths ==
  /\ \A p \in DOMAIN modeSpec :
       \/ p[2] = "compatible" /\ p[3] \in DOMAIN compatibleKeys /\ p = Option("compatible", p[3])
       \/ p[2] = "optimal" /\ p[3] \in DOMAIN optimalKeys /\ p = Option("optimal", p[3])
       \/ p[2] = "strict" /\ p[3] \in DOMAIN strictKeys /\ p = Option("strict", p[3])
  /\ \A k \in DOMAIN compatibleKeys : /\ Option("compatible", k) \in DOMAIN modeSpec
                                      /\ modeSpec[Option("compatible", k)] = compatibleKeys[k]
  /\ \A k \in DOMAIN optimalKeys : /\ Option("optimal", k) \in DOMAIN modeSpec
                                   /\ modeSpec[Option("optimal", k)] = optimalKeys[k]
  /\ \A k \in DOMAIN strictKeys : /\ Option("strict", k) \in DOMAIN modeSpec
                                  /\ modeSpec[Option("strict", k)] = strictKeys[k]
<1>1. PICK c : c = Section(<<"playback", "compatible">>, compatibleKeys)
  OBVIOUS
<1>2. PICK o : o = Section(<<"playback", "optimal">>, optimalKeys)
  OBVIOUS
<1>3. PICK s : s = Section(<<"playback", "strict">>, strictKeys)
  OBVIOUS
<1>4. /\ DOMAIN modeSpec = DOMAIN c \cup DOMAIN o \cup DOMAIN s
      /\ \A p \in DOMAIN c : modeSpec[p] = c[p]
      /\ \A p \in DOMAIN o \ DOMAIN c : modeSpec[p] = o[p]
      /\ \A p \in DOMAIN s \ (DOMAIN c \cup DOMAIN o) : modeSpec[p] = s[p]
  BY <1>1, <1>2, <1>3 DEF modeSpec, ++
<1>5. /\ \A p \in DOMAIN c : p[2] = "compatible" /\ p[3] \in DOMAIN compatibleKeys /\ p = Option("compatible", p[3])
      /\ \A k \in DOMAIN compatibleKeys : Option("compatible", k) \in DOMAIN c
                                         /\ c[Option("compatible", k)] = compatibleKeys[k]
  <2>1. "compatible" \in {"compatible", "optimal", "strict"} /\ DOMAIN compatibleKeys \subseteq Strings
    BY ModeNames
  <2> QED BY <1>1, <2>1, ModeSection
<1>6. /\ \A p \in DOMAIN o : p[2] = "optimal" /\ p[3] \in DOMAIN optimalKeys /\ p = Option("optimal", p[3])
      /\ \A k \in DOMAIN optimalKeys : Option("optimal", k) \in DOMAIN o
                                      /\ o[Option("optimal", k)] = optimalKeys[k]
  <2>1. "optimal" \in {"compatible", "optimal", "strict"} /\ DOMAIN optimalKeys \subseteq Strings
    BY ModeNames
  <2> QED BY <1>2, <2>1, ModeSection
<1>7. /\ \A p \in DOMAIN s : p[2] = "strict" /\ p[3] \in DOMAIN strictKeys /\ p = Option("strict", p[3])
      /\ \A k \in DOMAIN strictKeys : Option("strict", k) \in DOMAIN s
                                     /\ s[Option("strict", k)] = strictKeys[k]
  <2>1. "strict" \in {"compatible", "optimal", "strict"} /\ DOMAIN strictKeys \subseteq Strings
    BY ModeNames
  <2> QED BY <1>3, <2>1, ModeSection
<1>8. ASSUME NEW k
      PROVE  Option("optimal", k) \notin DOMAIN c /\ Option("strict", k) \notin DOMAIN c \cup DOMAIN o
  BY <1>5, <1>6 DEF Option
<1> QED BY <1>4, <1>5, <1>6, <1>7, <1>8, Zenon

-----------------------------------------------------------------------------
(* What is read                                                             *)

\* A key gets what the document says, if its reader takes it, or its default.
LEMMA WalkAt ==
  ASSUME NEW doc, NEW spec, NEW fresh, NEW path \in DOMAIN spec,
         fresh[path] = spec[path].default
  PROVE  \/ walk(doc, spec, fresh).value[path] = spec[path].default
         \/ /\ lookup(doc, path) # None /\ Accepts(spec[path].kind, lookup(doc, path))
            /\ walk(doc, spec, fresh).value[path] = Value(spec[path].kind, lookup(doc, path))
<1> DEFINE raw == [p \in DOMAIN spec |-> lookup(doc, p)]
           missing == {p \in DOMAIN spec : raw[p] = None}
           read == {p \in DOMAIN spec \ missing : Accepts(spec[p].kind, raw[p])}
           loud == {p \in missing : ~spec[p].optional}
           value == [p \in DOMAIN spec |->
                       IF p \in read THEN Value(spec[p].kind, raw[p])
                       ELSE IF p \in missing \ loud THEN fresh[p]
                       ELSE spec[p].default]
<1>1. walk(doc, spec, fresh).value = value
  BY DEF walk
<1>2. raw[path] = lookup(doc, path)
  OBVIOUS
<1>3. path \in read => lookup(doc, path) # None /\ Accepts(spec[path].kind, lookup(doc, path))
  BY <1>2
<1>4. value[path] = IF path \in read THEN Value(spec[path].kind, raw[path])
                    ELSE IF path \in missing \ loud THEN fresh[path]
                    ELSE spec[path].default
  OBVIOUS
<1> HIDE DEF read, missing, loud, raw, value
<1> QED BY <1>1, <1>2, <1>3, <1>4

LEMMA WalkDomain ==
  ASSUME NEW doc, NEW spec, NEW fresh
  PROVE  DOMAIN walk(doc, spec, fresh).value = DOMAIN spec
BY DEF walk

\* An integer that is read is in its range.
LEMMA IntegerRead ==
  ASSUME NEW kind, NEW raw, kind.type = "integer", Accepts(kind, raw)
  PROVE  Value(kind, raw) \in kind.range
BY DEF Accepts, Value

\* An order that is read has no unknown items.
LEMMA OrderRead ==
  ASSUME NEW all, NEW raw, Accepts(order(all), raw), raw[1] = "array" => raw[2] \in Seq(Strings \cup {None}),
         all \subseteq Strings
  PROVE  Value(order(all), raw) \in Seq(Strings) /\ Range(Value(order(all), raw)) \subseteq all
BY OnlyThese DEF Accepts, order, Value, Range

\* The keys of the two modes with a device of their own.
Own == {"optimal", "strict"}

Buffer(mode) == Option(mode, "buffer")

OfDevice(mode) == Option(mode, "device_buffer_ms")

LEMMA BufferRanges ==
  /\ \A n \in BufferMs.range : n \in Nat /\ n >= 40
  /\ \A n \in DeviceBuffer.range : n \in Nat
  /\ 20 \in DeviceBuffer.range /\ 40 \in DeviceBuffer.range
  /\ \A n \in DeviceBuffer.range : 20 <= n
<1>1. BufferMs.range = 100 .. 10000
  BY DEF BufferMs, integer, within
<1>2. DeviceBuffer.range = {20, 40, 100, 200, 400}
  BY DEF DeviceBuffer, integer
<1>3. \A n \in 100 .. 10000 : n \in Nat /\ n >= 40
  OBVIOUS
<1>4. \A n \in {20, 40, 100, 200, 400} : n \in Nat /\ 20 <= n
  OBVIOUS
<1>. QED  BY <1>1, <1>2, <1>3, <1>4

LEMMA BufferKeys ==
  \A mode \in Own :
    /\ Buffer(mode) \in DOMAIN modeSpec /\ modeSpec[Buffer(mode)] = Optional(BufferMs, 1500)
    /\ OfDevice(mode) \in DOMAIN modeSpec /\ modeSpec[OfDevice(mode)] = Optional(DeviceBuffer, 40)
BY ModePaths DEF optimalKeys, strictKeys, Own, Buffer, OfDevice

LEMMA DeviceKey ==
  /\ Compatible("device") \in DOMAIN modeSpec
  /\ modeSpec[Compatible("device")] = Optional(text, None)
BY ModePaths DEF compatibleKeys, Compatible, Option

LEMMA DefaultsOfModes ==
  /\ DOMAIN modeDefaults = DOMAIN modeSpec \cup {Devices}
  /\ \A p \in DOMAIN modeSpec : modeDefaults[p] = modeSpec[p].default
BY DEF modeDefaults, ++, Single

LEMMA OptionRead ==
  ASSUME NEW part, NEW p \in DOMAIN modeSpec, NEW kind, NEW default \in kind.range,
         modeSpec[p] = Optional(kind, default), kind.type = "integer"
  PROVE  walk(part, modeSpec, modeDefaults).value[p] \in kind.range
BY DefaultsOfModes, WalkAt, IntegerRead DEF Optional

\* The options that have to agree, of a value that may hold more.
ModesOK(v) ==
  /\ Compatible("device") \in DOMAIN v /\ v[Compatible("device")] \in Routed \cup {None}
  /\ \A mode \in Own :
       /\ Buffer(mode) \in DOMAIN v /\ OfDevice(mode) \in DOMAIN v
       /\ v[Buffer(mode)] \in Nat /\ v[OfDevice(mode)] \in DeviceBuffer.range
       /\ buffers_allowed(v[Buffer(mode)], v[OfDevice(mode)])

LEMMA DefaultModesOK == ModesOK(modeDefaults)
BY DeviceKey, DefaultsOfModes, BufferKeys, BufferRanges DEF Optional, ModesOK, buffers_allowed

\* The two keys of a mode differ, and from those of the other one.
LEMMA KeysDiffer ==
  /\ \A m \in Own, n \in Own :
       /\ Buffer(m) # OfDevice(n) /\ Buffer(m) # Compatible("device") /\ OfDevice(m) # Compatible("device")
       /\ m # n => Buffer(m) # Buffer(n) /\ OfDevice(m) # OfDevice(n)
  /\ Devices # Compatible("device")
  /\ \A m \in Own : Devices # Buffer(m) /\ Devices # OfDevice(m)
BY DEF Own, Buffer, OfDevice, Option, Compatible, Devices, Playback

\* Half of what is asked of the options, before they are reconciled.
Readable(v, m) ==
  /\ Buffer(m) \in DOMAIN v /\ OfDevice(m) \in DOMAIN v
  /\ v[Buffer(m)] \in BufferMs.range /\ v[OfDevice(m)] \in DeviceBuffer.range

\* After it is reconciled a buffer of the device is one half of the other at most.
LEMMA ReconcileIs ==
  ASSUME NEW loaded, NEW mode, Readable(loaded.value, mode)
  PROVE  LET made == reconcile_device_buffer(loaded, mode).value
         IN /\ DOMAIN made = DOMAIN loaded.value
            /\ \A p \in DOMAIN made : p # OfDevice(mode) => made[p] = loaded.value[p]
            /\ made[OfDevice(mode)] \in DeviceBuffer.range
            /\ buffers_allowed(loaded.value[Buffer(mode)], made[OfDevice(mode)])
<1> DEFINE buffer == loaded.value[Buffer(mode)]
           allowed == {d \in DeviceBuffer.range : buffers_allowed(buffer, d)}
           least == CHOOSE d \in allowed : \A e \in allowed : d <= e
           chosen == IF 40 \in allowed THEN 40 ELSE least
<1>1. buffer \in Nat /\ buffer >= 40
  BY BufferRanges DEF Readable
<1>2. 20 \in allowed /\ \A e \in allowed : 20 <= e
  BY <1>1, BufferRanges DEF buffers_allowed
<1>3. chosen \in allowed
  <2> HIDE DEF allowed
  <2> QED BY <1>2
<1>4. reconcile_device_buffer(loaded, mode).value =
        IF loaded.value[OfDevice(mode)] \notin allowed
        THEN [loaded.value EXCEPT ![OfDevice(mode)] = chosen] ELSE loaded.value
  BY DEF reconcile_device_buffer, Corrected, Buffer, OfDevice
<1>5. PICK made : made = reconcile_device_buffer(loaded, mode).value
  OBVIOUS
<1>6. OfDevice(mode) \in DOMAIN loaded.value
  BY DEF Readable
<1> HIDE DEF chosen
<1>7. /\ DOMAIN made = DOMAIN loaded.value
      /\ \A p \in DOMAIN made : p # OfDevice(mode) => made[p] = loaded.value[p]
      /\ made[OfDevice(mode)] \in allowed
  BY <1>3, <1>4, <1>5, <1>6
<1> QED BY <1>5, <1>7

\* Whatever [playback] says, the options agree.
LEMMA LoadedModesOK ==
  ASSUME NEW doc
  PROVE  /\ ModesOK(load_mode_settings(doc).value)
         /\ DOMAIN load_mode_settings(doc).value = DOMAIN modeSpec \cup {Devices}
<1> DEFINE part == Restrict(doc, DOMAIN doc \cap DOMAIN modeSpec)
           modes == walk(part, modeSpec, modeDefaults)
           inTable(path) == lookup(doc, path) = Table /\ path \in DOMAIN modeSpec
           tables == {path \in DOMAIN modeSpec : inTable(path)}
           devices == parse_devices(doc)
           read == [value |-> modes.value ++ Single(Devices, devices.value),
                    notes |-> modes.notes \cup devices.notes
                              \cup {Note(path, "invalid") : path \in tables}
                              \cup {Note(path, "unknown") : path \in Unknown(doc)}]
           migrated == migrate_legacy_compatible_device(read)
           one == reconcile_device_buffer(migrated, "optimal")
           both == reconcile_device_buffer(one, "strict")
<1>1. load_mode_settings(doc).value \in {modeDefaults, both.value}
  BY DEF load_mode_settings, Unrecognised
<1>2. DOMAIN modes.value = DOMAIN modeSpec
  BY WalkDomain
<1>3. ASSUME NEW mode \in Own PROVE Readable(modes.value, mode)
  <2>1. /\ Buffer(mode) \in DOMAIN modeSpec /\ modeSpec[Buffer(mode)] = Optional(BufferMs, 1500)
        /\ modeDefaults[Buffer(mode)] = modeSpec[Buffer(mode)].default
        /\ OfDevice(mode) \in DOMAIN modeSpec /\ modeSpec[OfDevice(mode)] = Optional(DeviceBuffer, 40)
        /\ modeDefaults[OfDevice(mode)] = modeSpec[OfDevice(mode)].default
    BY BufferKeys, DefaultsOfModes
  <2>2. modes.value[Buffer(mode)] \in BufferMs.range
    <3>1. 1500 \in BufferMs.range /\ BufferMs.type = "integer"
      BY DEF BufferMs, integer, within
    <3> QED BY <2>1, <3>1, OptionRead
  <2>3. modes.value[OfDevice(mode)] \in DeviceBuffer.range
    <3>1. DeviceBuffer.type = "integer"
      BY DEF DeviceBuffer, integer
    <3> QED BY <2>1, <3>1, BufferRanges, OptionRead
  <2> QED BY <1>2, <2>1, <2>2, <2>3 DEF Readable
<1> HIDE DEF modes, devices
<1>4. /\ DOMAIN read.value = DOMAIN modeSpec \cup {Devices}
      /\ \A p \in DOMAIN modeSpec : read.value[p] = modes.value[p]
  BY <1>2 DEF ++, Single
<1>5. migrated.value =
        IF read.value[Compatible("device")] \notin Routed \cup {None}
        THEN [read.value EXCEPT ![Compatible("device")] = None] ELSE read.value
  BY DEF migrate_legacy_compatible_device, Corrected
<1> HIDE DEF read
<1>6. Compatible("device") \in DOMAIN read.value
  BY <1>4, DeviceKey
<1>7. /\ DOMAIN migrated.value = DOMAIN read.value
      /\ migrated.value[Compatible("device")] \in Routed \cup {None}
      /\ \A p \in DOMAIN read.value : p # Compatible("device") => migrated.value[p] = read.value[p]
  BY <1>5, <1>6
<1> HIDE DEF migrated
<1>8. ASSUME NEW mode \in Own PROVE Readable(migrated.value, mode)
  <2>1. Readable(modes.value, mode) /\ Buffer(mode) \in DOMAIN modeSpec /\ OfDevice(mode) \in DOMAIN modeSpec
    BY <1>3, BufferKeys
  <2> QED BY <1>4, <1>7, <2>1, KeysDiffer DEF Readable
<1>9. /\ DOMAIN one.value = DOMAIN migrated.value
      /\ \A p \in DOMAIN one.value : p # OfDevice("optimal") => one.value[p] = migrated.value[p]
      /\ one.value[OfDevice("optimal")] \in DeviceBuffer.range
      /\ buffers_allowed(migrated.value[Buffer("optimal")], one.value[OfDevice("optimal")])
  <2>1. Readable(migrated.value, "optimal")
    BY <1>8 DEF Own
  <2> QED BY <2>1, ReconcileIs
<1> HIDE DEF one
<1>10. "optimal" \in Own /\ "strict" \in Own /\ "optimal" # "strict"
  BY DEF Own
<1>11. /\ Readable(one.value, "strict")
       /\ one.value[Buffer("optimal")] = migrated.value[Buffer("optimal")]
       /\ one.value[Buffer("strict")] = migrated.value[Buffer("strict")]
       /\ one.value[Compatible("device")] = migrated.value[Compatible("device")]
  <2>1. Readable(migrated.value, "strict") /\ Readable(migrated.value, "optimal")
    BY <1>8, <1>10
  <2>2. /\ Buffer("strict") # OfDevice("optimal") /\ OfDevice("strict") # OfDevice("optimal")
        /\ Buffer("optimal") # OfDevice("optimal") /\ Compatible("device") # OfDevice("optimal")
    BY <1>10, KeysDiffer
  <2>3. Compatible("device") \in DOMAIN migrated.value
    BY <1>6, <1>7
  <2> QED BY <1>9, <2>1, <2>2, <2>3 DEF Readable
<1>12. /\ DOMAIN both.value = DOMAIN one.value
       /\ \A p \in DOMAIN both.value : p # OfDevice("strict") => both.value[p] = one.value[p]
       /\ both.value[OfDevice("strict")] \in DeviceBuffer.range
       /\ buffers_allowed(one.value[Buffer("strict")], both.value[OfDevice("strict")])
  BY <1>11, ReconcileIs
<1> HIDE DEF both
<1>13. DOMAIN both.value = DOMAIN modeSpec \cup {Devices}
  BY <1>4, <1>7, <1>9, <1>12
<1>14. ModesOK(both.value)
  <2>1. /\ Buffer("optimal") \in DOMAIN modeSpec /\ OfDevice("optimal") \in DOMAIN modeSpec
        /\ Buffer("strict") \in DOMAIN modeSpec /\ OfDevice("strict") \in DOMAIN modeSpec
        /\ Compatible("device") \in DOMAIN modeSpec
    BY <1>10, BufferKeys, DeviceKey
  <2>2. /\ Buffer("strict") # OfDevice("strict") /\ OfDevice("optimal") # OfDevice("strict")
        /\ Buffer("optimal") # OfDevice("strict") /\ Compatible("device") # OfDevice("strict")
    BY <1>10, KeysDiffer
  <2>3. /\ both.value[Buffer("optimal")] = migrated.value[Buffer("optimal")]
        /\ both.value[OfDevice("optimal")] = one.value[OfDevice("optimal")]
        /\ both.value[Buffer("strict")] = migrated.value[Buffer("strict")]
        /\ both.value[Compatible("device")] = migrated.value[Compatible("device")]
    BY <1>11, <1>12, <1>13, <2>1, <2>2
  <2>4. /\ migrated.value[Buffer("optimal")] \in Nat /\ migrated.value[Buffer("strict")] \in Nat
    BY <1>8, <1>10, BufferRanges DEF Readable
  <2>5. \A mode \in Own : mode = "optimal" \/ mode = "strict"
    BY DEF Own
  <2>6. /\ buffers_allowed(both.value[Buffer("optimal")], both.value[OfDevice("optimal")])
        /\ buffers_allowed(both.value[Buffer("strict")], both.value[OfDevice("strict")])
        /\ both.value[OfDevice("optimal")] \in DeviceBuffer.range
        /\ both.value[OfDevice("strict")] \in DeviceBuffer.range
    BY <1>9, <1>11, <1>12, <2>3
  <2> QED BY <1>7, <1>13, <2>1, <2>3, <2>4, <2>5, <2>6 DEF ModesOK
<1> QED BY <1>1, <1>13, <1>14, DefaultModesOK, DefaultsOfModes, Zenon

-----------------------------------------------------------------------------
(* Reading the two files                                                    *)

\* What agrees in the settings.
SettingsOK(v) ==
  /\ ModesOK(v)
  /\ ColumnOrder \in DOMAIN v /\ Orders(v[ColumnOrder], Columns)
  /\ CoverPriority \in DOMAIN v /\ Orders(v[CoverPriority], CoverSources)

\* A list of an order has strings in it, and items that are none.
ListsOK(doc) ==
  \A p \in {ColumnOrder, CoverPriority} :
    p \in DOMAIN doc /\ doc[p][1] = "array" => doc[p][2] \in Seq(Strings \cup {None})

LEMMA SourcesAre ==
  /\ Columns \in Seq(Strings) /\ Range(Columns) \subseteq Strings
  /\ CoverSources \in Seq(Strings) /\ Range(CoverSources) \subseteq Strings
  /\ Orders(Columns, Columns) /\ Orders(CoverSources, CoverSources)
<1>1. Columns \in Seq(Strings) /\ IsInjective(Columns)
  BY KeysAssumption
<1>2. Range(Columns) \subseteq Strings
  BY <1>1 DEF Range
<1>3. Range(CoverSources) \subseteq Strings
  BY SettingsFileAssumption
<1>4. /\ "folder" \in Strings /\ "embedded" \in Strings /\ "internet" \in Strings
  BY <1>3 DEF Range, CoverSources
<1>5. CoverSources \in Seq(Strings)
  BY <1>4, TuplesArePaths DEF CoverSources
<1>6. IsInjective(CoverSources)
  BY DEF CoverSources, IsInjective
<1> QED BY <1>1, <1>2, <1>3, <1>5, <1>6 DEF Orders

\* No key of the panel is one of the modes.
LEMMA OptionsApart ==
  /\ \A m \in Own : Buffer(m)[1] = "playback" /\ OfDevice(m)[1] = "playback"
  /\ Compatible("device")[1] = "playback"
  /\ ColumnOrder[1] # "playback" /\ CoverPriority[1] # "playback" /\ ColumnOrder # CoverPriority
  /\ Devices[1] = "playback"
BY DEF Own, Buffer, OfDevice, Option, Compatible, ColumnOrder, CoverPriority, Devices, Playback

\* The options agree in a larger value as they do alone.
LEMMA ModesWithin ==
  ASSUME NEW v, NEW w, ModesOK(w), DOMAIN w \subseteq DOMAIN v,
         \A p \in DOMAIN w : p[1] = "playback" => v[p] = w[p]
  PROVE  ModesOK(v)
BY OptionsApart DEF ModesOK

LEMMA DefaultSettingsOK ==
  /\ SettingsOK(default_settings)
  /\ \A p \in DOMAIN settings_spec : default_settings[p] = settings_spec[p].default
<1>1. PICK keys : keys = [path \in DOMAIN settings_spec |-> settings_spec[path].default]
  OBVIOUS
<1>2. /\ DOMAIN default_settings = DOMAIN settings_spec \cup DOMAIN modeDefaults
      /\ \A p \in DOMAIN settings_spec : default_settings[p] = settings_spec[p].default
      /\ \A p \in DOMAIN modeDefaults \ DOMAIN settings_spec : default_settings[p] = modeDefaults[p]
  BY <1>1 DEF default_settings, ++
<1>3. \A p \in DOMAIN modeDefaults : p[1] = "playback" => default_settings[p] = modeDefaults[p]
  BY <1>2, SettingsPaths
<1>4. ModesOK(default_settings)
  BY <1>2, <1>3, ModesWithin, DefaultModesOK
<1>5. default_settings[ColumnOrder] = Columns /\ default_settings[CoverPriority] = CoverSources
  BY <1>2, SettingsPaths DEF OrderOf, Key
<1> QED BY <1>2, <1>4, <1>5, SettingsPaths, SourcesAre DEF SettingsOK

\* An order that was read is completed.
LEMMA AdjustedOrder ==
  ASSUME NEW loaded, NEW key \in DOMAIN loaded.value, NEW all \in Seq(Strings),
         loaded.value[key] \in Seq(Strings), Range(loaded.value[key]) \subseteq Range(all)
  PROVE  LET made == adjust_order(loaded, key, all).value
         IN /\ DOMAIN made = DOMAIN loaded.value
            /\ \A p \in DOMAIN made : p # key => made[p] = loaded.value[p]
            /\ Orders(made[key], all)
BY CompletedOrders DEF adjust_order, Corrected

\* What an order is read as.
LEMMA OrderWalked ==
  ASSUME NEW doc, NEW key, NEW all \in Seq(Strings), Range(all) \subseteq Strings,
         key \in DOMAIN settings_spec, settings_spec[key] = OrderOf(all),
         key \in DOMAIN doc /\ doc[key][1] = "array" => doc[key][2] \in Seq(Strings \cup {None})
  PROVE  LET list == walk(doc, settings_spec, default_settings).value[key]
         IN list \in Seq(Strings) /\ Range(list) \subseteq Range(all)
<1>1. PICK v : v = walk(doc, settings_spec, default_settings).value[key]
  OBVIOUS
<1>2. PICK raw : raw = lookup(doc, key)
  OBVIOUS
<1>3. \/ v = settings_spec[key].default
      \/ raw # None /\ Accepts(settings_spec[key].kind, raw) /\ v = Value(settings_spec[key].kind, raw)
  BY <1>1, <1>2, DefaultSettingsOK, WalkAt
<1>4. settings_spec[key].default = all /\ settings_spec[key].kind = order(Range(all))
  BY DEF OrderOf, Key
<1>5. ASSUME raw # None, raw[1] = "array" PROVE raw[2] \in Seq(Strings \cup {None})
  <2>1. raw # Table
    BY <1>5 DEF Table
  <2>2. key \in DOMAIN doc /\ raw = doc[key]
    BY <1>2, <1>5, <2>1 DEF lookup
  <2> QED BY <1>5, <2>2
<1>6. \/ v = all
      \/ raw # None /\ Accepts(order(Range(all)), raw) /\ v = Value(order(Range(all)), raw)
  BY <1>3, <1>4, Zenon
<1>7. v \in Seq(Strings) /\ Range(v) \subseteq Range(all)
  <2>1. CASE v = all
    BY <2>1
  <2>2. CASE raw # None /\ Accepts(order(Range(all)), raw) /\ v = Value(order(Range(all)), raw)
    BY <1>5, <2>2, OrderRead
  <2> QED BY <1>6, <2>1, <2>2
<1> QED BY <1>1, <1>7

\* Whatever settings.toml says, what was read of it agrees.
LEMMA ParsedSettingsOK ==
  ASSUME NEW seen, seen.read = "Parsed" => ListsOK(seen.doc)
  PROVE  SettingsOK(parse_settings(seen).value)
<1>1. CASE seen.read # "Parsed"
  <2>1. parse_settings(seen).value = default_settings
    BY <1>1 DEF parse_settings
  <2> QED BY <2>1, DefaultSettingsOK
<1>2. CASE seen.read = "Parsed"
  <2> DEFINE others == {path \in DOMAIN seen.doc : Head(path) # "playback"}
             modes == load_mode_settings(seen.doc)
             walked == walk(Restrict(seen.doc, others), settings_spec, default_settings)
             joined == [value |-> walked.value ++ modes.value, notes |-> walked.notes \cup modes.notes]
             columns == adjust_column_order(joined)
             both == adjust_cover_priority(columns)
  <2>1. parse_settings(seen).value = both.value
    BY <1>2 DEF parse_settings
  <2>2. /\ walked.value[ColumnOrder] \in Seq(Strings)
        /\ Range(walked.value[ColumnOrder]) \subseteq Range(Columns)
        /\ walked.value[CoverPriority] \in Seq(Strings)
        /\ Range(walked.value[CoverPriority]) \subseteq Range(CoverSources)
    BY <1>2, SettingsPaths, SourcesAre, OrderWalked DEF Restrict, ListsOK
  <2>3. DOMAIN walked.value = DOMAIN settings_spec
    BY WalkDomain
  <2>4. ModesOK(modes.value)
    BY LoadedModesOK
  <2> HIDE DEF walked, modes
  <2>5. /\ DOMAIN joined.value = DOMAIN settings_spec \cup DOMAIN modes.value
        /\ \A p \in DOMAIN settings_spec : joined.value[p] = walked.value[p]
        /\ \A p \in DOMAIN modes.value \ DOMAIN settings_spec : joined.value[p] = modes.value[p]
    BY <2>3 DEF ++
  <2> HIDE DEF joined
  <2>6. ModesOK(joined.value)
    <3>1. \A p \in DOMAIN modes.value : p[1] = "playback" => joined.value[p] = modes.value[p]
      BY <2>5, SettingsPaths
    <3> QED BY <2>4, <2>5, <3>1, ModesWithin
  <2>7. /\ DOMAIN columns.value = DOMAIN joined.value
        /\ \A p \in DOMAIN columns.value : p # ColumnOrder => columns.value[p] = joined.value[p]
        /\ Orders(columns.value[ColumnOrder], Columns)
    BY <2>2, <2>5, SettingsPaths, SourcesAre, AdjustedOrder DEF adjust_column_order, ColumnOrder
  <2> HIDE DEF columns
  <2>8. /\ DOMAIN both.value = DOMAIN columns.value
        /\ \A p \in DOMAIN both.value : p # CoverPriority => both.value[p] = columns.value[p]
        /\ Orders(both.value[CoverPriority], CoverSources)
    <3>1. /\ CoverPriority \in DOMAIN columns.value /\ columns.value[CoverPriority] \in Seq(Strings)
          /\ Range(columns.value[CoverPriority]) \subseteq Range(CoverSources)
      BY <2>2, <2>5, <2>7, SettingsPaths, OptionsApart
    <3>2. both = adjust_order(columns, CoverPriority, CoverSources)
      BY DEF adjust_cover_priority, CoverPriority
    <3> QED BY <3>1, <3>2, SourcesAre, AdjustedOrder
  <2> HIDE DEF both
  <2>9. ModesOK(both.value)
    <3>1. \A p \in DOMAIN joined.value : p[1] = "playback" => both.value[p] = joined.value[p]
      BY <2>7, <2>8, OptionsApart
    <3> QED BY <2>6, <2>7, <2>8, <3>1, ModesWithin
  <2>10. SettingsOK(both.value)
    BY <2>5, <2>7, <2>8, <2>9, SettingsPaths, OptionsApart DEF SettingsOK
  <2> QED BY <2>1, <2>10
<1> QED BY <1>1, <1>2

-----------------------------------------------------------------------------
(* Edits of the settings                                                    *)

\* The keys that have to agree.
Bound == {ColumnOrder, CoverPriority, Compatible("device"),
          Buffer("optimal"), Buffer("strict"), OfDevice("optimal"), OfDevice("strict")}

LEMMA BoundKeys ==
  /\ ColumnOrder \in Bound /\ CoverPriority \in Bound /\ Compatible("device") \in Bound
  /\ \A m \in Own : Buffer(m) \in Bound /\ OfDevice(m) \in Bound
BY DEF Bound, Own

\* The rest of the settings may be anything.
LEMMA OthersFree ==
  ASSUME NEW v, SettingsOK(v), NEW w, DOMAIN w = DOMAIN v,
         \A p \in DOMAIN v : p \in Bound => w[p] = v[p]
  PROVE  SettingsOK(w)
<1>1. ModesOK(w)
  BY BoundKeys DEF SettingsOK, ModesOK
<1> QED BY <1>1, BoundKeys DEF SettingsOK

LEMMA SetFree ==
  ASSUME NEW v, SettingsOK(v), NEW p, p \notin Bound, NEW x
  PROVE  SettingsOK(Set(v, p, x))
BY OthersFree DEF Set

\* Moving an item of an order keeps it one.
LEMMA SetOrder ==
  ASSUME NEW v, SettingsOK(v), NEW key, NEW all,
         (key = ColumnOrder /\ all = Columns) \/ (key = CoverPriority /\ all = CoverSources),
         NEW list, Orders(list, all)
  PROVE  SettingsOK(Set(v, key, list))
<1>1. PICK w : w = Set(v, key, list)
  OBVIOUS
<1>2. key \in DOMAIN v
  BY DEF SettingsOK
<1>3. DOMAIN w = DOMAIN v /\ w[key] = list /\ \A q \in DOMAIN v : q # key => w[q] = v[q]
  BY <1>1, <1>2 DEF Set
<1>4. ModesOK(v)
  BY DEF SettingsOK
<1>5. key[1] # "playback"
  BY OptionsApart
<1>6. ModesOK(w)
  <2>1. \A p \in DOMAIN v : p[1] = "playback" => w[p] = v[p]
    BY <1>3, <1>5
  <2> QED BY <1>3, <1>4, <2>1, ModesWithin
<1>7. SettingsOK(w)
  BY <1>3, <1>6, OptionsApart DEF SettingsOK
<1> QED BY <1>1, <1>7

LEMMA MoveKeeps ==
  ASSUME NEW v, SettingsOK(v), NEW key \in {ColumnOrder, CoverPriority}, NEW i \in 1 .. Len(v[key])
  PROVE  SettingsOK(move_up(v, key, i)) /\ SettingsOK(move_down(v, key, i))
<1>1. PICK all : (key = ColumnOrder /\ all = Columns) \/ (key = CoverPriority /\ all = CoverSources)
  OBVIOUS
<1>2. PICK list : list = v[key]
  OBVIOUS
<1>3. Orders(list, all)
  BY <1>1, <1>2 DEF SettingsOK
<1>4. Len(list) \in Nat
  BY <1>3 DEF Orders
<1>5. SettingsOK(move_up(v, key, i))
  <2>1. CASE i \in 2 .. Len(list)
    <3>1. i - 1 \in 1 .. Len(list) /\ i \in 1 .. Len(list)
      BY <1>4, <2>1
    <3>2. PICK to : to = i - 1
      OBVIOUS
    <3>3. Orders(move_item(list, i, to), all)
      BY <1>3, <3>1, <3>2, MovedOrders
    <3>4. PICK moved : moved = move_item(list, i, to)
      OBVIOUS
    <3>5. move_up(v, key, i) = Set(v, key, moved)
      BY <1>2, <2>1, <3>2, <3>4 DEF move_up
    <3>6. SettingsOK(Set(v, key, moved))
      BY <1>1, <3>3, <3>4, SetOrder
    <3> QED BY <3>5, <3>6
  <2>2. CASE i \notin 2 .. Len(list)
    BY <1>2, <2>2 DEF move_up
  <2> QED BY <2>1, <2>2
<1>6. SettingsOK(move_down(v, key, i))
  <2>1. CASE i \in 1 .. (Len(list) - 1)
    <3>1. i + 1 \in 1 .. Len(list) /\ i \in 1 .. Len(list)
      BY <1>4, <2>1
    <3>2. PICK to : to = i + 1
      OBVIOUS
    <3>3. Orders(move_item(list, i, to), all)
      BY <1>3, <3>1, <3>2, MovedOrders
    <3>4. PICK moved : moved = move_item(list, i, to)
      OBVIOUS
    <3>5. move_down(v, key, i) = Set(v, key, moved)
      BY <1>2, <2>1, <3>2, <3>4 DEF move_down
    <3>6. SettingsOK(Set(v, key, moved))
      BY <1>1, <3>3, <3>4, SetOrder
    <3> QED BY <3>5, <3>6
  <2>2. CASE i \notin 1 .. (Len(list) - 1)
    BY <1>2, <2>2 DEF move_down
  <2> QED BY <2>1, <2>2
<1> QED BY <1>5, <1>6

\* An edit of one mode, of the keys that have to agree with each other.
LEMMA SetBuffers ==
  ASSUME NEW v, SettingsOK(v), NEW mode \in Own, NEW w, DOMAIN w = DOMAIN v,
         \A p \in DOMAIN v : p \notin {Buffer(mode), OfDevice(mode)} => w[p] = v[p],
         w[Buffer(mode)] \in Nat, w[OfDevice(mode)] \in DeviceBuffer.range,
         buffers_allowed(w[Buffer(mode)], w[OfDevice(mode)])
  PROVE  SettingsOK(w)
<1>1. ModesOK(w)
  <2>1. ModesOK(v)
    BY DEF SettingsOK
  <2>2. ASSUME NEW m \in Own
        PROVE  /\ Buffer(m) \in DOMAIN w /\ OfDevice(m) \in DOMAIN w
               /\ w[Buffer(m)] \in Nat /\ w[OfDevice(m)] \in DeviceBuffer.range
               /\ buffers_allowed(w[Buffer(m)], w[OfDevice(m)])
    <3>1. CASE m = mode
      BY <2>1, <3>1 DEF ModesOK
    <3>2. CASE m # mode
      <4>1. w[Buffer(m)] = v[Buffer(m)] /\ w[OfDevice(m)] = v[OfDevice(m)]
        BY <2>1, <3>2, KeysDiffer DEF ModesOK
      <4> QED BY <2>1, <4>1 DEF ModesOK
    <3> QED BY <3>1, <3>2
  <2>3. Compatible("device") \in DOMAIN w /\ w[Compatible("device")] = v[Compatible("device")]
    BY <2>1, KeysDiffer DEF ModesOK
  <2> QED BY <2>1, <2>2, <2>3 DEF ModesOK
<1>2. /\ ColumnOrder \notin {Buffer(mode), OfDevice(mode)}
      /\ CoverPriority \notin {Buffer(mode), OfDevice(mode)}
  BY OptionsApart
<1> QED BY <1>1, <1>2 DEF SettingsOK

LEMMA RaisedIs ==
  ASSUME NEW buffer \in Nat, NEW device \in Nat
  PROVE  /\ raise_buffer_for_device(buffer, device) \in Nat
         /\ buffers_allowed(raise_buffer_for_device(buffer, device), device)
BY DEF raise_buffer_for_device, buffer_floor_ms, buffers_allowed

\* An edit of the buffer of the device raises the other one, and that one stays raised.
LEMMA BufferEdits ==
  ASSUME NEW v, SettingsOK(v), NEW mode \in Own
  PROVE  /\ \A ms \in DeviceBuffer.range : SettingsOK(apply_device_buffer(v, mode, ms))
         /\ \A ms \in Nat : SettingsOK(apply_buffer(v, mode, ms))
<1>1. /\ Buffer(mode) \in DOMAIN v /\ OfDevice(mode) \in DOMAIN v
      /\ v[Buffer(mode)] \in Nat /\ v[OfDevice(mode)] \in DeviceBuffer.range
      /\ v[OfDevice(mode)] \in Nat /\ Buffer(mode) # OfDevice(mode)
  BY BufferRanges, KeysDiffer DEF SettingsOK, ModesOK
<1>2. ASSUME NEW ms \in DeviceBuffer.range PROVE SettingsOK(apply_device_buffer(v, mode, ms))
  BY <1>1, BufferRanges, RaisedIs, SetBuffers DEF apply_device_buffer, Buffer, OfDevice
<1>3. ASSUME NEW ms \in Nat PROVE SettingsOK(apply_buffer(v, mode, ms))
  BY <1>1, RaisedIs, SetBuffers DEF Own, apply_buffer, Buffer, OfDevice
<1> QED BY <1>2, <1>3

LEMMA OptionIsFree ==
  ASSUME NEW m, NEW k, k \notin {"device", "buffer", "device_buffer_ms"}
  PROVE  Option(m, k) \notin Bound
BY DEF Bound, Buffer, OfDevice, Option, Compatible, ColumnOrder, CoverPriority

LEMMA FreePaths ==
  /\ Devices \notin Bound
  /\ \A p : p[1] \notin {"playback", "column_order", "cover_priority"} => p \notin Bound
  /\ \A k : k \notin {"column_order", "cover_priority"} => <<k>> \notin Bound
BY DEF Bound, Buffer, OfDevice, Option, Compatible, ColumnOrder, CoverPriority, Devices, Playback

\* What the dialog gives an option is of its kind.
LEMMA EditOptionKeeps ==
  ASSUME NEW v, SettingsOK(v), NEW path \in DOMAIN modeSpec, path[3] \notin {"device", "fixed_rate"},
         NEW choice \in IF path[3] = "buffer" THEN Buffers ELSE Offered(path[2], path[3])
  PROVE  SettingsOK(apply_edit(v, path[2], path[3], choice))
<1>1. PICK m : m = path[2]
  OBVIOUS
<1>2. PICK k : k = path[3]
  OBVIOUS
<1>3. m \in {"compatible", "optimal", "strict"} /\ path = Option(m, k)
  BY <1>1, <1>2, ModePaths
<1>4. CASE k = "device_buffer_ms"
  <2>1. "device_buffer_ms" \notin DOMAIN compatibleKeys
    BY DEF compatibleKeys
  <2>2. m \in Own
    BY <1>1, <1>2, <1>3, <1>4, <2>1, ModePaths DEF Own
  <2>3. modeSpec[Option(m, k)].kind = DeviceBuffer
    BY <1>4, <2>2, BufferKeys DEF OfDevice, Optional
  <2>4. Offered(m, k) = DeviceBuffer.range
    BY <2>3 DEF Offered, DeviceBuffer, integer
  <2>5. choice \in DeviceBuffer.range
    BY <1>1, <1>2, <1>4, <2>4
  <2>6. apply_edit(v, m, k, choice) = apply_device_buffer(v, m, choice)
    BY <1>4 DEF apply_edit
  <2> QED BY <1>1, <1>2, <2>2, <2>5, <2>6, BufferEdits
<1>5. CASE k = "buffer"
  <2>1. choice \in Nat
    BY <1>2, <1>5, DocumentsAssumption, BufferRanges
  <2>2. apply_edit(v, m, k, choice) = apply_buffer(v, m, choice)
    BY <1>5 DEF apply_edit
  <2>3. CASE m \in Own
    BY <1>1, <1>2, <2>1, <2>2, <2>3, BufferEdits
  <2>4. CASE m = "compatible"
    <3>1. apply_buffer(v, m, choice) = Set(v, Option(m, "buffer"), choice)
      BY <2>4 DEF apply_buffer, Set
    <3>2. Option(m, "buffer") \notin Bound
      BY <2>4 DEF Bound, Buffer, OfDevice, Option, Compatible, ColumnOrder, CoverPriority
    <3>3. SettingsOK(apply_buffer(v, m, choice))
      BY <3>1, <3>2, SetFree
    <3> QED BY <1>1, <1>2, <2>2, <3>3
  <2> QED BY <1>3, <2>3, <2>4 DEF Own
<1>6. CASE k \notin {"buffer", "device_buffer_ms"}
  BY <1>1, <1>2, <1>6, OptionIsFree, SetFree DEF apply_edit, Set
<1> QED BY <1>4, <1>5, <1>6

\* The list of the Compatible mode has devices of the audio server alone.
LEMMA SelectDeviceKeeps ==
  ASSUME NEW v, SettingsOK(v), NEW mode \in DOMAIN Chosen, NEW id \in Chosen[mode]
  PROVE  SettingsOK(set_device(v, mode, id))
<1>1. mode \in {"compatible", "optimal", "strict"}
  BY DocumentsAssumption
<1>2. PICK x : x = IF id = "" \/ (mode # "compatible" /\ id \in Blank) THEN None ELSE id
  OBVIOUS
<1>3. PICK p : p = Option(mode, "device")
  OBVIOUS
<1>4. set_device(v, mode, id) = Set(v, p, x)
  BY <1>2, <1>3 DEF set_device, Set
<1>5. CASE mode = "compatible"
  <2>1. x \in Routed \cup {None}
    BY <1>2, <1>5, DocumentsAssumption
  <2>2. p = Compatible("device") /\ p \in DOMAIN v
    BY <1>3, <1>5 DEF Option, Compatible, SettingsOK, ModesOK
  <2>3. PICK w : w = Set(v, p, x)
    OBVIOUS
  <2>4. DOMAIN w = DOMAIN v /\ w[p] = x /\ \A q \in DOMAIN v : q # p => w[q] = v[q]
    BY <2>2, <2>3 DEF Set
  <2>5. ModesOK(w)
    BY <2>1, <2>2, <2>4, KeysDiffer DEF SettingsOK, ModesOK
  <2>6. SettingsOK(w)
    BY <2>2, <2>4, <2>5, OptionsApart DEF SettingsOK
  <2> QED BY <1>4, <2>3, <2>6
<1>6. CASE mode # "compatible"
  <2>1. p \notin Bound
    BY <1>3, <1>6 DEF Bound, Buffer, OfDevice, Option, Compatible, ColumnOrder, CoverPriority
  <2> QED BY <1>4, <2>1, SetFree
<1> QED BY <1>5, <1>6

LEMMA EditDopKeeps ==
  ASSUME NEW v, SettingsOK(v), NEW mode, NEW on PROVE SettingsOK(apply_device_dop(v, mode, on))
BY FreePaths, SetFree DEF apply_device_dop, Set

LEMMA BoundArePaths == \A p \in Bound : p \in Seq(Strings) /\ p[1] # "visualization"
<1>1. "column_order" \in Strings /\ "cover_priority" \in Strings
  <2>1. "column_order" \in DOMAIN panelKeys /\ "cover_priority" \in DOMAIN panelKeys
    BY DEF panelKeys
  <2> QED BY <2>1, SettingsFileAssumption
<1>2. /\ "buffer" \in Strings /\ "device_buffer_ms" \in Strings /\ "device" \in Strings
  <2>1. "buffer" \in DOMAIN strictKeys /\ "device_buffer_ms" \in DOMAIN strictKeys /\ "device" \in DOMAIN strictKeys
    BY DEF strictKeys
  <2> QED BY <2>1, ModeNames
<1>3. "playback" \in Strings /\ "compatible" \in Strings /\ "optimal" \in Strings /\ "strict" \in Strings
  BY ModeNames
<1>4. ColumnOrder \in Seq(Strings) /\ CoverPriority \in Seq(Strings)
  BY <1>1, TuplesArePaths DEF ColumnOrder, CoverPriority
<1>5. Compatible("device") \in Seq(Strings)
  BY <1>2, <1>3, TuplesArePaths DEF Compatible
<1>6. Buffer("optimal") \in Seq(Strings) /\ Buffer("strict") \in Seq(Strings)
  BY <1>2, <1>3, TuplesArePaths DEF Buffer, Option
<1>7. OfDevice("optimal") \in Seq(Strings) /\ OfDevice("strict") \in Seq(Strings)
  BY <1>2, <1>3, TuplesArePaths DEF OfDevice, Option
<1>8. \A p \in Bound : p[1] # "visualization"
  BY DEF Bound, Buffer, OfDevice, Option, Compatible, ColumnOrder, CoverPriority
<1> QED BY <1>4, <1>5, <1>6, <1>7, <1>8 DEF Bound

LEMMA ResetKeeps ==
  ASSUME NEW v, SettingsOK(v), NEW type \in Strings PROVE SettingsOK(reset_viz_type(v, type))
<1>1. PICK prefix : prefix = <<"visualization", type>>
  OBVIOUS
<1>2. \A p \in Bound : ~IsPrefix(prefix, p)
  <2>1. \A p \in Bound : p \in Seq(Strings) /\ p[1] # "visualization"
    BY BoundArePaths
  <2>2. prefix \in Seq(Strings) /\ Len(prefix) = 2 /\ prefix[1] = "visualization"
    BY <1>1, SettingsFileAssumption, TuplesArePaths
  <2>3. 1 \in 1 .. Len(prefix)
    BY <2>2
  <2> QED BY <2>1, <2>2, <2>3, PrefixIs
<1>3. PICK w : w = reset_viz_type(v, type)
  OBVIOUS
<1>4. DOMAIN w = DOMAIN v /\ \A p \in DOMAIN v : ~IsPrefix(prefix, p) => w[p] = v[p]
  BY <1>1, <1>3 DEF reset_viz_type
<1>5. SettingsOK(w)
  BY <1>2, <1>4, OthersFree
<1> QED BY <1>3, <1>5

LEMMA TextsKeep ==
  ASSUME NEW v, SettingsOK(v), NEW fmin, NEW fmax, NEW bands
  PROVE  SettingsOK(viz_apply_validated_texts(v, fmin, fmax, bands))
<1> DEFINE valid(f) == f # None /\ f \in within(1, 22050)
           cross_ok == valid(fmin) /\ valid(fmax) => fmin < fmax
           low == IF valid(fmin) /\ cross_ok THEN Set(v, Spectrogram("freq_min"), fmin) ELSE v
           high == IF valid(fmax) /\ cross_ok THEN Set(low, Spectrogram("freq_max"), fmax) ELSE low
           all == IF bands # None /\ bands \in within(4, 128) THEN Set(high, Spectrum("bands"), bands) ELSE high
<1>1. viz_apply_validated_texts(v, fmin, fmax, bands) = all
  BY DEF viz_apply_validated_texts
<1>2. Spectrogram("freq_min") \notin Bound /\ Spectrogram("freq_max") \notin Bound
      /\ Spectrum("bands") \notin Bound
  BY DEF Spectrogram, Spectrum, Bound, Buffer, OfDevice, Option, Compatible, ColumnOrder, CoverPriority
<1> HIDE DEF valid, cross_ok, low, high, all
<1>3. PICK l : l = low
  OBVIOUS
<1>4. PICK h : h = high
  OBVIOUS
<1>5. PICK w : w = all
  OBVIOUS
<1>6. l = v \/ l = Set(v, Spectrogram("freq_min"), fmin)
  BY <1>3 DEF low
<1>7. h = l \/ h = Set(l, Spectrogram("freq_max"), fmax)
  BY <1>3, <1>4 DEF high
<1>8. w = h \/ w = Set(h, Spectrum("bands"), bands)
  BY <1>4, <1>5 DEF all
<1>9. SettingsOK(Set(v, Spectrogram("freq_min"), fmin))
  BY <1>2, SetFree
<1>10. SettingsOK(l)
  BY <1>6, <1>9
<1>11. SettingsOK(Set(l, Spectrogram("freq_max"), fmax))
  BY <1>2, <1>10, SetFree
<1>12. SettingsOK(h)
  BY <1>7, <1>10, <1>11
<1>13. SettingsOK(Set(h, Spectrum("bands"), bands))
  BY <1>2, <1>12, SetFree
<1>14. SettingsOK(w)
  BY <1>8, <1>12, <1>13
<1> QED BY <1>1, <1>5, <1>14

-----------------------------------------------------------------------------
(* The session state                                                        *)

\* The keys of the state that go in pairs.
Paired == {SortColumn, SortDirection, Window("x"), Window("y"), Window("width"), Window("height")}

Pair(s, one, other) == (s[one] = None) <=> (s[other] = None)

StateOK(s) ==
  /\ Paired \subseteq DOMAIN s
  /\ Pair(s, SortColumn, SortDirection)
  /\ Pair(s, Window("x"), Window("y")) /\ Pair(s, Window("width"), Window("height"))

LEMMA WindowPaths ==
  \A k \in DOMAIN windowKeys : Window(k) \in DOMAIN window_specs /\ window_specs[Window(k)] = windowKeys[k]
<1>1. PICK prefix : prefix = <<"window">>
  OBVIOUS
<1>2. prefix \in Seq(Strings) /\ DOMAIN windowKeys \subseteq Strings
  BY <1>1, StateFileAssumption, TuplesArePaths
<1>3. \A k : Append(prefix, k) = Window(k)
  BY <1>1, AppendedTuple DEF Window
<1>4. PICK t : t = Section(prefix, windowKeys)
  OBVIOUS
<1>5. \A k \in DOMAIN windowKeys : Append(prefix, k) \in DOMAIN t /\ t[Append(prefix, k)] = windowKeys[k]
  BY <1>2, <1>4, SectionIs, Zenon
<1>6. \A k \in DOMAIN windowKeys : Window(k) \in DOMAIN t /\ t[Window(k)] = windowKeys[k]
  BY <1>3, <1>5
<1> QED BY <1>1, <1>4, <1>6 DEF window_specs

LEMMA StatePaths ==
  Paired \subseteq DOMAIN state_spec /\ \A p \in Paired : state_spec[p].default = None
<1>1. /\ SortColumn \in DOMAIN sort_specs /\ sort_specs[SortColumn].default = None
      /\ SortDirection \in DOMAIN sort_specs /\ sort_specs[SortDirection].default = None
      /\ DOMAIN sort_specs = {SortColumn, SortDirection}
  BY DEF sort_specs, ++, Single, Optional, SortColumn, SortDirection
<1>2. \A k \in {"x", "y", "width", "height"} :
         Window(k) \in DOMAIN window_specs /\ window_specs[Window(k)].default = None
  <2>1. \A k \in {"x", "y", "width", "height"} : k \in DOMAIN windowKeys /\ windowKeys[k].default = None
    BY DEF windowKeys, Optional
  <2> QED BY <2>1, WindowPaths
<1>3. \A p \in DOMAIN playback_specs : p[1] = "playback"
  <2>1. PICK a : a = Single(Active, Key(AudioMode, "Compatible"))
    OBVIOUS
  <2>2. PICK b : b = [path \in {Volume("compatible"), Volume("optimal")} |-> volume_spec]
    OBVIOUS
  <2>3. PICK c : c = [path \in {Muted(m) : m \in {"compatible", "optimal", "strict"}} |-> Key(flag, FALSE)]
    OBVIOUS
  <2>4. playback_specs = a ++ b ++ c
    BY <2>1, <2>2, <2>3 DEF playback_specs
  <2>5. DOMAIN playback_specs = DOMAIN a \cup DOMAIN b \cup DOMAIN c
    BY <2>4 DEF ++
  <2>6. DOMAIN a = {Active}
    BY <2>1, SingleIs
  <2>7. DOMAIN b = {Volume("compatible"), Volume("optimal")}
        /\ DOMAIN c = {Muted(m) : m \in {"compatible", "optimal", "strict"}}
    BY <2>2, <2>3
  <2> QED BY <2>5, <2>6, <2>7 DEF Active, Volume, Muted
<1>4. \A p \in DOMAIN column_width_specs : p[1] = "columns"
  BY DEF column_width_specs, Width
<1>5. /\ DOMAIN playback_specs \cup DOMAIN column_width_specs \cup DOMAIN sort_specs
           \cup DOMAIN window_specs \subseteq DOMAIN state_spec
      /\ \A p \in DOMAIN sort_specs :
           p \notin DOMAIN playback_specs \cup DOMAIN column_width_specs => state_spec[p] = sort_specs[p]
      /\ \A p \in DOMAIN window_specs :
           p \notin DOMAIN playback_specs \cup DOMAIN column_width_specs \cup DOMAIN sort_specs =>
             state_spec[p] = window_specs[p]
  <2>1. PICK a : a = playback_specs ++ column_width_specs
    OBVIOUS
  <2>2. PICK b : b = a ++ sort_specs
    OBVIOUS
  <2>3. PICK c : c = b ++ window_specs
    OBVIOUS
  <2>4. \E d, e, f, g : state_spec = c ++ d ++ e ++ f ++ g
    BY <2>1, <2>2, <2>3 DEF state_spec
  <2>5. /\ DOMAIN a = DOMAIN playback_specs \cup DOMAIN column_width_specs
        /\ DOMAIN b = DOMAIN a \cup DOMAIN sort_specs
        /\ DOMAIN c = DOMAIN b \cup DOMAIN window_specs
    BY <2>1, <2>2, <2>3, MergedIs
  <2>6. \A p \in DOMAIN sort_specs \ DOMAIN a : b[p] = sort_specs[p]
    BY <2>2 DEF ++
  <2>7. /\ \A p \in DOMAIN b : c[p] = b[p]
        /\ \A p \in DOMAIN window_specs \ DOMAIN b : c[p] = window_specs[p]
    BY <2>3 DEF ++
  <2>8. DOMAIN c \subseteq DOMAIN state_spec /\ \A p \in DOMAIN c : state_spec[p] = c[p]
    BY <2>4 DEF ++
  <2> QED BY <2>5, <2>6, <2>7, <2>8
<1>6. /\ SortColumn \in DOMAIN state_spec /\ state_spec[SortColumn].default = None
      /\ SortDirection \in DOMAIN state_spec /\ state_spec[SortDirection].default = None
  <2>1. SortColumn[1] = "sort" /\ SortDirection[1] = "sort"
    BY DEF SortColumn, SortDirection
  <2> QED BY <1>1, <1>3, <1>4, <1>5, <2>1
<1>7. ASSUME NEW k \in {"x", "y", "width", "height"}
      PROVE  Window(k) \in DOMAIN state_spec /\ state_spec[Window(k)].default = None
  BY <1>1, <1>2, <1>3, <1>4, <1>5 DEF Window, SortColumn, SortDirection
<1> QED BY <1>6, <1>7 DEF Paired

LEMMA DefaultStateOK == StateOK(default_state)
<1>1. Paired \subseteq DOMAIN default_state /\ \A p \in Paired : default_state[p] = None
  BY StatePaths DEF default_state
<1> QED BY <1>1 DEF StateOK, Pair, Paired

\* A value that is alone is dropped; the other keys stay.
LEMMA DroppedPairs ==
  ASSUME NEW s, NEW one \in DOMAIN s, NEW other \in DOMAIN s
  PROVE  LET t == Dropped(s, Alone(s, one, other))
         IN /\ DOMAIN t = DOMAIN s /\ Pair(t, one, other)
            /\ \A p \in DOMAIN s \ {one, other} : t[p] = s[p]
BY DEF Dropped, Alone, Pair

LEMMA PairsDiffer ==
  /\ {SortColumn, SortDirection} \cap {Window("x"), Window("y"), Window("width"), Window("height")} = {}
  /\ {Window("x"), Window("y")} \cap {Window("width"), Window("height")} = {}
BY DEF SortColumn, SortDirection, Window

\* Whatever state.toml says, what was read of it goes in pairs.
LEMMA ParsedStateOK ==
  ASSUME NEW seen PROVE StateOK(parse_state(seen).value)
<1>1. CASE seen.read # "Parsed"
  BY <1>1, DefaultStateOK DEF parse_state
<1>2. CASE seen.read = "Parsed"
  <2>1. PICK read : read = walk(seen.doc, state_spec, default_state).value
    OBVIOUS
  <2>2. PICK sorted : sorted = Dropped(read, Alone(read, SortColumn, SortDirection))
    OBVIOUS
  <2>3. PICK half : half = Alone(sorted, Window("x"), Window("y"))
                           \cup Alone(sorted, Window("width"), Window("height"))
    OBVIOUS
  <2>4. PICK made : made = Dropped(sorted, half)
    OBVIOUS
  <2>5. parse_state(seen).value = made
    BY <1>2, <2>1, <2>2, <2>3, <2>4 DEF parse_state, adjust_window_geometry, adjust_sort_pair
  <2>6. Paired \subseteq DOMAIN read
    BY <2>1, WalkDomain, StatePaths
  <2>7. /\ DOMAIN sorted = DOMAIN read /\ Pair(sorted, SortColumn, SortDirection)
    BY <2>2, <2>6, DroppedPairs DEF Paired
  <2>8. /\ DOMAIN made = DOMAIN sorted
        /\ \A p \in DOMAIN sorted : made[p] = IF p \in half THEN None ELSE sorted[p]
    BY <2>4 DEF Dropped
  <2>9. Pair(made, SortColumn, SortDirection)
    <3>1. SortColumn \notin half /\ SortDirection \notin half
      BY <2>3, PairsDiffer DEF Alone
    <3> QED BY <2>6, <2>7, <2>8, <3>1 DEF Pair, Paired
  <2>10. Pair(made, Window("x"), Window("y"))
    BY <2>3, <2>6, <2>7, <2>8, PairsDiffer DEF Pair, Paired, Alone
  <2>11. Pair(made, Window("width"), Window("height"))
    BY <2>3, <2>6, <2>7, <2>8, PairsDiffer DEF Pair, Paired, Alone
  <2> QED BY <2>5, <2>6, <2>7, <2>8, <2>9, <2>10, <2>11 DEF StateOK
<1> QED BY <1>1, <1>2

\* The rest of the state may be anything.
LEMMA ChangeFree ==
  ASSUME NEW s, StateOK(s), NEW p, p[1] \notin {"sort", "window"}, NEW x
  PROVE  StateOK(Change(s, p, x))
BY DEF Change, Paired, SortColumn, SortDirection, Window, StateOK, Pair

\* A sort key is set as a pair.
LEMMA SortedPair ==
  ASSUME NEW s, StateOK(s), NEW t, DOMAIN t = DOMAIN s, Pair(t, SortColumn, SortDirection),
         \A p \in DOMAIN s \ {SortColumn, SortDirection} : t[p] = s[p]
  PROVE  StateOK(t)
BY PairsDiffer DEF StateOK, Pair, Paired

LEMMA SortKeeps ==
  ASSUME NEW s, StateOK(s), NEW c \in Range(Columns), NEW d \in {"Asc", "Desc"}
  PROVE  StateOK(ChangeSort(s, <<c, d>>))
<1>1. c \in Strings /\ d \in Strings
  <2>1. d \in DOMAIN Direction.written
    BY DEF Direction, word
  <2> QED BY <2>1, SourcesAre, StateFileAssumption
<1>2. <<c, d>> # None /\ c # None /\ d # None
  <2>1. <<c, d>> \in Seq(Strings)
    BY <1>1, TuplesArePaths
  <2> QED BY <1>1, <2>1, KeysAssumption
<1>3. SortColumn \in DOMAIN s /\ SortDirection \in DOMAIN s /\ SortColumn # SortDirection
  BY DEF StateOK, Paired, SortColumn, SortDirection
<1>4. PICK t : t = ChangeSort(s, <<c, d>>)
  OBVIOUS
<1>5. /\ DOMAIN t = DOMAIN s /\ t[SortColumn] = c /\ t[SortDirection] = d
      /\ \A p \in DOMAIN s \ {SortColumn, SortDirection} : t[p] = s[p]
  BY <1>2, <1>3, <1>4 DEF ChangeSort
<1>6. StateOK(t)
  BY <1>2, <1>5, SortedPair DEF Pair
<1> QED BY <1>4, <1>6

LEMMA SortDropKeeps == ASSUME NEW s, StateOK(s) PROVE StateOK(ChangeSort(s, None))
BY SortedPair DEF StateOK, Paired, SortColumn, SortDirection, ChangeSort, Pair

\* A geometry of the window has a place and a size or none.
LEMMA WindowKeeps ==
  ASSUME NEW s, StateOK(s), NEW g \in Geometries PROVE StateOK(ChangeWindow(s, g))
<1>1. (g.x = None <=> g.y = None) /\ (g.width = None <=> g.height = None)
  BY DocumentsAssumption
<1>2. PICK t : t = ChangeWindow(s, g)
  OBVIOUS
<1>3. DOMAIN t = DOMAIN s /\ \A p \in DOMAIN s : t[p] = IF p[1] = "window" THEN g[p[2]] ELSE s[p]
  BY <1>2 DEF ChangeWindow
<1>4. /\ t[SortColumn] = s[SortColumn] /\ t[SortDirection] = s[SortDirection]
      /\ t[Window("x")] = g.x /\ t[Window("y")] = g.y
      /\ t[Window("width")] = g.width /\ t[Window("height")] = g.height
  BY <1>3 DEF SortColumn, SortDirection, Window, StateOK, Paired
<1>5. StateOK(t)
  BY <1>1, <1>3, <1>4 DEF StateOK, Pair
<1> QED BY <1>2, <1>5

LEMMA WidthsKeep ==
  ASSUME NEW s, StateOK(s), NEW widths PROVE StateOK(ChangeColumnWidths(s, widths))
<1>1. PICK prefix : prefix = <<"columns", "widths">>
  OBVIOUS
<1>2. PICK t : t = ChangeColumnWidths(s, widths)
  OBVIOUS
<1>3. DOMAIN t = DOMAIN s /\ \A p \in DOMAIN s : ~IsPrefix(prefix, p) => t[p] = s[p]
  BY <1>1, <1>2 DEF ChangeColumnWidths
<1>4. \A p \in Paired : ~IsPrefix(prefix, p)
  <2>1. \A p \in Paired : p \in Seq(Strings) /\ p[1] # "columns"
    <3>1. {"sort", "column", "direction", "window"} \subseteq Strings
      BY StateFileAssumption
    <3>2. {"x", "y", "width", "height"} \subseteq Strings
      <4>1. {"x", "y", "width", "height"} \subseteq DOMAIN windowKeys
        BY DEF windowKeys
      <4> QED BY <4>1, StateFileAssumption
    <3> QED BY <3>1, <3>2, TuplesArePaths DEF Paired, SortColumn, SortDirection, Window
  <2>2. prefix \in Seq(Strings) /\ Len(prefix) = 2 /\ prefix[1] = "columns"
    BY <1>1, StateFileAssumption, TuplesArePaths
  <2>3. 1 \in 1 .. Len(prefix)
    BY <2>2
  <2> QED BY <2>1, <2>2, <2>3, PrefixIs
<1>5. StateOK(t)
  BY <1>3, <1>4 DEF StateOK, Pair, Paired
<1> QED BY <1>2, <1>5

-----------------------------------------------------------------------------
(* The steps                                                                *)

\* What was read of either file agrees, and what is written can be read.
DocumentsInvariant ==
  /\ scope \in Scopes
  /\ State => StateOK(memory)
  /\ ~State => SettingsOK(memory)
  /\ ~State /\ file.read = "Parsed" => ListsOK(file.doc)

\* A written order is a list of strings.
LEMMA WrittenLists ==
  ASSUME NEW v, SettingsOK(v) PROVE ListsOK(serialize_settings(v).doc)
<1>1. PICK doc : doc = serialize_settings(v).doc
  OBVIOUS
<1>2. PICK modes : modes = playback_dto(v)
  OBVIOUS
<1>3. doc = Written(settings_spec, v) ++ modes
  BY <1>1, <1>2 DEF serialize_settings, Text
<1>4. ASSUME NEW p \in {ColumnOrder, CoverPriority}
      PROVE  doc[p][2] \in Seq(Strings \cup {None})
  <2>1. PICK list : list = v[p]
    OBVIOUS
  <2>2. list \in Seq(Strings)
    BY <2>1 DEF SettingsOK, Orders
  <2>3. list # None
    BY <2>2, KeysAssumption
  <2>4. p \in DOMAIN settings_spec /\ \E all : settings_spec[p].kind = order(all)
    BY SettingsPaths DEF OrderOf, Key
  <2>5. PICK w : w = Written(settings_spec, v)
    OBVIOUS
  <2>6. p \in DOMAIN w /\ w[p] = Raw(settings_spec[p].kind, list)
    BY <2>1, <2>3, <2>4, <2>5 DEF Written
  <2>7. w[p] = Array(list)
    BY <2>4, <2>6 DEF Raw, order
  <2>8. doc[p] = Array(list)
    BY <1>3, <2>5, <2>6, <2>7, MergedIs
  <2>9. list \in Seq(Strings \cup {None})
    BY <2>2
  <2> QED BY <2>8, <2>9 DEF Array
<1>5. ListsOK(doc)
  BY <1>4 DEF ListsOK
<1> QED BY <1>1, <1>5

\* Whatever a person puts into the file is something TOML has.
LEMMA PutLists ==
  ASSUME NEW doc, ListsOK(doc), NEW path, NEW raw \in Raws \cup {None}
  PROVE  ListsOK(Put(doc, path, raw))
BY DEF Put, Restrict, ++, Single, Raws, ListsOK

LEMMA DocumentsInit == Init => DocumentsInvariant
<1> SUFFICES ASSUME Init PROVE DocumentsInvariant
  OBVIOUS
<1>1. scope \in Scopes /\ file = NoFile /\ memory = Defaults
  BY DEF Init
<1>2. file.read # "Parsed"
  BY <1>1 DEF NoFile
<1> QED BY <1>1, <1>2, DefaultStateOK, DefaultSettingsOK DEF Defaults, DocumentsInvariant

\* An edit keeps what agrees.
LEMMA BecomesKeeps ==
  ASSUME DocumentsInvariant, NEW value, Becomes(value),
         State => StateOK(value), ~State => SettingsOK(value)
  PROVE  DocumentsInvariant'
BY DEF Becomes, DocumentsInvariant, State

LEMMA StartKeeps == ASSUME DocumentsInvariant, Start PROVE DocumentsInvariant'
<1>1. PICK seen \in {file} \cup (IF file = NoFile THEN {} ELSE {Unreadable}) :
        memory' = Parse(seen).value
  BY DEF Start
<1>2. UNCHANGED <<scope, file>>
  BY DEF Start
<1>3. CASE State
  BY <1>1, <1>2, <1>3, ParsedStateOK DEF DocumentsInvariant, Parse, State
<1>4. CASE ~State
  BY <1>1, <1>2, <1>4, ParsedSettingsOK DEF DocumentsInvariant, Unreadable, Parse, State
<1> QED BY <1>3, <1>4

LEMMA StopKeeps == ASSUME DocumentsInvariant, Stop PROVE DocumentsInvariant'
BY WrittenLists DEF Stop, Serialize, DocumentsInvariant, State

LEMMA DamageKeeps == ASSUME DocumentsInvariant, Damage PROVE DocumentsInvariant'
<1>1. PICK change \in Damages[scope] : file' = Text(Put(file.doc, change[1], change[2]))
  BY DEF Damage
<1>2. UNCHANGED <<scope, memory>> /\ file.read = "Parsed"
  BY DEF Damage
<1>3. change[2] \in Raws \cup {None}
  <2>1. PICK raws : raws = Raws \cup {None}
    OBVIOUS
  <2>2. Damages \in [Scopes -> SUBSET (Seq(Strings) \X raws)] /\ scope \in Scopes
    BY <2>1, DocumentsAssumption DEF DocumentsInvariant
  <2>3. change[2] \in raws
    BY <2>2
  <2> QED BY <2>1, <2>3
<1>4. ASSUME ~State PROVE ListsOK(file'.doc)
  BY <1>1, <1>2, <1>3, <1>4, PutLists DEF DocumentsInvariant, Text
<1> QED BY <1>2, <1>4 DEF DocumentsInvariant, State

LEMMA BreakKeeps == ASSUME DocumentsInvariant, Break PROVE DocumentsInvariant'
<1>1. UNCHANGED <<scope, memory>> /\ file' = NotToml /\ NotToml.read # "Parsed"
  BY DEF Break, NotToml
<1> QED BY <1>1 DEF DocumentsInvariant, State

\* An edit of the settings, of any part of them.
LEMMA SettingsEdited ==
  ASSUME DocumentsInvariant, NEW value, Becomes(value), ~State,
         SettingsOK(memory) => SettingsOK(value)
  PROVE  DocumentsInvariant'
BY BecomesKeeps DEF DocumentsInvariant

LEMMA PanelKeeps ==
  ASSUME DocumentsInvariant,
         SelectTheme \/ SetSaveInterval \/ SetPanelNumber \/ Move \/ EditFolderNames
  PROVE  DocumentsInvariant'
<1>1. scope = "panel" /\ ~State
  BY DEF SelectTheme, SetSaveInterval, SetPanelNumber, Move, EditFolderNames, State
<1>2. SettingsOK(memory)
  BY <1>1 DEF DocumentsInvariant
<1>3. CASE SelectTheme
  <2>1. PICK theme \in Themes : Becomes(select_theme(memory, theme))
    BY <1>3 DEF SelectTheme
  <2>2. SettingsOK(select_theme(memory, theme))
    BY <1>2, FreePaths, SetFree DEF select_theme
  <2> QED BY <1>1, <2>1, <2>2, SettingsEdited
<1>4. CASE SetSaveInterval
  <2>1. PICK n : Becomes(Set(memory, <<"save_interval">>, n))
    BY <1>4 DEF SetSaveInterval
  <2>2. SettingsOK(Set(memory, <<"save_interval">>, n))
    BY <1>2, FreePaths, SetFree
  <2> QED BY <1>1, <2>1, <2>2, SettingsEdited
<1>5. CASE SetPanelNumber
  <2>1. PICK path \in DOMAIN panelNumbers : \E x : Becomes(Set(memory, path, x))
    BY <1>5 DEF SetPanelNumber
  <2>2. PICK x : Becomes(Set(memory, path, x))
    BY <2>1
  <2>3. path \in {<<"cover_size">>, <<"col_info_w">>, <<"col_gap">>}
    BY DEF panelNumbers, ++, Single
  <2>4. SettingsOK(Set(memory, path, x))
    BY <1>2, <2>3, FreePaths, SetFree
  <2> QED BY <1>1, <2>2, <2>4, SettingsEdited
<1>6. CASE Move
  BY <1>1, <1>2, <1>6, MoveKeeps, SettingsEdited DEF Move, ColumnOrder, CoverPriority
<1>7. CASE EditFolderNames
  <2>1. PICK items \in NameLists : Becomes(edit_folder_names(memory, items))
    BY <1>7 DEF EditFolderNames
  <2>2. SettingsOK(edit_folder_names(memory, items))
    BY <1>2, FreePaths, SetFree DEF edit_folder_names
  <2> QED BY <1>1, <2>1, <2>2, SettingsEdited
<1> QED BY <1>3, <1>4, <1>5, <1>6, <1>7

LEMMA ToggleKeeps == ASSUME DocumentsInvariant, Toggle PROVE DocumentsInvariant'
<1>1. PICK path \in IF scope = "panel" THEN Flags(panel_specs ++ column_specs)
                    ELSE IF scope = "visualization" THEN Flags(visualization_specs) ELSE {} :
        Becomes(toggle(memory, path))
  BY DEF Toggle
<1>2. ~State /\ SettingsOK(memory)
  BY <1>1 DEF State, DocumentsInvariant
<1>3. path \notin Bound
  <2>1. CASE path \in Flags(panel_specs ++ column_specs)
    <3>1. PICK t : t = panel_specs ++ column_specs
      OBVIOUS
    <3>2. path \in DOMAIN t /\ t[path].kind = flag
      BY <2>1, <3>1 DEF Flags
    <3>3. /\ DOMAIN t = DOMAIN panel_specs \cup DOMAIN column_specs
          /\ \A p \in DOMAIN panel_specs : t[p] = panel_specs[p]
      BY <3>1, MergedIs
    <3>4. path[1] # "playback"
      BY <3>2, <3>3, PanelPaths, OtherPaths
    <3>5. path \notin {ColumnOrder, CoverPriority}
      <4>1. \A all : OrderOf(all).kind # flag
        BY DEF OrderOf, Key, order, flag
      <4> QED BY <3>2, <3>3, <4>1, PanelPaths
    <3> QED BY <3>4, <3>5, OptionsApart DEF Bound, Own
  <2>2. CASE path \in Flags(visualization_specs)
    <3>1. path[1] = "visualization"
      BY <2>2, VisualizationPaths DEF Flags
    <3> QED BY <3>1, FreePaths
  <2> QED BY <1>1, <2>1, <2>2
<1>4. SettingsOK(toggle(memory, path))
  BY <1>2, <1>3, SetFree DEF toggle
<1> QED BY <1>1, <1>2, <1>4, SettingsEdited

LEMMA SlidersOfTheVisualization ==
  \A path \in DOMAIN vizNumbers \cup DOMAIN vizCounts : path[1] = "visualization"
<1> DEFINE Within(f) == \A p \in DOMAIN f : p[1] = "visualization"
<1>1. \A f, g : Within(f) /\ Within(g) => Within(f ++ g)
  BY DEF ++
<1>2. \A k, x : /\ Within(Single(Oscilloscope(k), x)) /\ Within(Single(Spectrogram(k), x))
                /\ Within(Single(Spectrum(k), x))
  BY DEF Single, Oscilloscope, Spectrogram, Spectrum
<1> HIDE DEF Within
<1>3. Within(vizNumbers)
  BY <1>1, <1>2 DEF vizNumbers
<1>4. Within(vizCounts)
  BY <1>1, <1>2 DEF vizCounts
<1> QED BY <1>3, <1>4 DEF Within

LEMMA VisualizationKeeps ==
  ASSUME DocumentsInvariant, SetVizNumber \/ SetVizWord \/ SetFft \/ ResetVizType \/ CheckTexts
  PROVE  DocumentsInvariant'
<1>1. scope = "visualization" /\ ~State
  BY DEF SetVizNumber, SetVizWord, SetFft, ResetVizType, CheckTexts, State
<1>2. SettingsOK(memory)
  BY <1>1 DEF DocumentsInvariant
<1>3. /\ \A k : Oscilloscope(k)[1] = "visualization" /\ Spectrogram(k)[1] = "visualization"
      /\ \A k : Spectrum(k)[1] = "visualization"
      /\ \A p : p[1] = "visualization" => p \notin Bound
  BY FreePaths DEF Oscilloscope, Spectrogram, Spectrum
<1>4. CASE SetVizNumber
  <2>1. PICK path \in DOMAIN vizNumbers \cup DOMAIN vizCounts : \E x : Becomes(Set(memory, path, x))
    BY <1>4 DEF SetVizNumber, edit_viz_number, edit_viz_count
  <2>2. PICK x : Becomes(Set(memory, path, x))
    BY <2>1
  <2>3. path[1] = "visualization"
    BY SlidersOfTheVisualization
  <2>4. SettingsOK(Set(memory, path, x))
    BY <1>2, <1>3, <2>3, SetFree
  <2> QED BY <1>1, <2>2, <2>4, SettingsEdited
<1>5. CASE SetVizWord
  <2>1. PICK path \in DOMAIN visualization_specs : \E w : Becomes(Set(memory, path, w))
    BY <1>5 DEF SetVizWord
  <2>2. PICK w : Becomes(Set(memory, path, w))
    BY <2>1
  <2>3. SettingsOK(Set(memory, path, w))
    BY <1>2, <1>3, VisualizationPaths, SetFree
  <2> QED BY <1>1, <2>2, <2>3, SettingsEdited
<1>6. CASE SetFft
  <2>1. PICK n : Becomes(Set(memory, Spectrogram("fft_size"), n))
    BY <1>6 DEF SetFft
  <2>2. SettingsOK(Set(memory, Spectrogram("fft_size"), n))
    BY <1>2, <1>3, SetFree
  <2> QED BY <1>1, <2>1, <2>2, SettingsEdited
<1>7. CASE ResetVizType
  <2>1. PICK type \in {"oscilloscope", "spectrogram", "spectrum"} : Becomes(reset_viz_type(memory, type))
    BY <1>7 DEF ResetVizType
  <2>2. type \in Strings
    BY SettingsFileAssumption
  <2>3. SettingsOK(reset_viz_type(memory, type))
    BY <1>2, <2>2, ResetKeeps
  <2> QED BY <1>1, <2>1, <2>3, SettingsEdited
<1>8. CASE CheckTexts
  BY <1>1, <1>2, <1>8, TextsKeep, SettingsEdited DEF CheckTexts
<1> QED BY <1>4, <1>5, <1>6, <1>7, <1>8

LEMMA ModesKeep ==
  ASSUME DocumentsInvariant, SelectDevice \/ EditOption \/ EditDop
  PROVE  DocumentsInvariant'
<1>1. scope = "playback" /\ ~State
  BY DEF SelectDevice, EditOption, EditDop, State
<1>2. SettingsOK(memory)
  BY <1>1 DEF DocumentsInvariant
<1>3. CASE SelectDevice
  BY <1>1, <1>2, <1>3, SelectDeviceKeeps, SettingsEdited DEF SelectDevice
<1>4. CASE EditOption
  BY <1>1, <1>2, <1>4, EditOptionKeeps, SettingsEdited DEF EditOption
<1>5. CASE EditDop
  BY <1>1, <1>2, <1>5, EditDopKeeps, SettingsEdited DEF EditDop
<1> QED BY <1>3, <1>4, <1>5

LEMMA StateKeeps == ASSUME DocumentsInvariant, ChangeOfState PROVE DocumentsInvariant'
<1>1. State /\ StateOK(memory)
  BY DEF ChangeOfState, SetVolume, SetMuted, SetActiveMode, SetColumnWidths, SetSort, SetVizMode,
         SetRepeat, SetShuffle, SetWindow, SetLastDir, DocumentsInvariant
<1>2. ASSUME NEW value, Becomes(value), StateOK(value) PROVE DocumentsInvariant'
  BY <1>1, <1>2, BecomesKeeps
<1>3. /\ \A m : Volume(m)[1] = "playback" /\ Muted(m)[1] = "playback"
      /\ Active[1] = "playback" /\ LastDir[1] = "last_dir"
      /\ VisMode[1] = "visualization" /\ Repeat[1] = "repeat" /\ Shuffle[1] = "shuffle"
  BY DEF Volume, Muted, Active, LastDir, VisMode, Repeat, Shuffle
<1>4. \A p, x : p[1] \notin {"sort", "window"} => StateOK(Change(memory, p, x))
  BY <1>1, ChangeFree
<1>5. ASSUME NEW v, Becomes(ChangeVolume(memory, v)) PROVE DocumentsInvariant'
  <2>1. StateOK(ChangeVolume(memory, v))
    BY <1>1, <1>3, <1>4 DEF ChangeVolume
  <2> QED BY <1>2, <1>5, <2>1
<1>6. ASSUME NEW m, Becomes(ChangeMuted(memory, m)) PROVE DocumentsInvariant'
  <2>1. StateOK(ChangeMuted(memory, m))
    BY <1>3, <1>4 DEF ChangeMuted
  <2> QED BY <1>2, <1>6, <2>1
<1>7. ASSUME NEW p \in {Active, VisMode, Repeat, Shuffle, LastDir}, NEW x,
             Becomes(Change(memory, p, x))
      PROVE  DocumentsInvariant'
  <2>1. StateOK(Change(memory, p, x))
    BY <1>3, <1>4
  <2> QED BY <1>2, <1>7, <2>1
<1>8. ASSUME NEW widths, Becomes(ChangeColumnWidths(memory, widths)) PROVE DocumentsInvariant'
  BY <1>1, <1>2, <1>8, WidthsKeep
<1>9. ASSUME NEW c \in Range(Columns) \ {"now_playing"}, NEW d \in {"Asc", "Desc"},
             Becomes(ChangeSort(memory, <<c, d>>))
      PROVE  DocumentsInvariant'
  BY <1>1, <1>2, <1>9, SortKeeps
<1>10. ASSUME Becomes(ChangeSort(memory, None)) PROVE DocumentsInvariant'
  BY <1>1, <1>2, <1>10, SortDropKeeps
<1>11. ASSUME NEW g \in Geometries, Becomes(ChangeWindow(memory, g)) PROVE DocumentsInvariant'
  BY <1>1, <1>2, <1>11, WindowKeeps
<1>12. SetVolume \/ SetMuted => DocumentsInvariant'
  BY <1>5, <1>6 DEF SetVolume, SetMuted
<1>13. SetActiveMode \/ SetVizMode \/ SetRepeat \/ SetShuffle \/ SetLastDir => DocumentsInvariant'
  BY <1>7 DEF SetActiveMode, SetVizMode, SetRepeat, SetShuffle, SetLastDir
<1>14. SetColumnWidths => DocumentsInvariant'
  BY <1>8 DEF SetColumnWidths
<1>15. SetSort => DocumentsInvariant'
  BY <1>9, <1>10 DEF SetSort
<1>16. SetWindow => DocumentsInvariant'
  BY <1>11 DEF SetWindow
<1> QED BY <1>12, <1>13, <1>14, <1>15, <1>16 DEF ChangeOfState

LEMMA DocumentsStep == DocumentsInvariant /\ [Next]_vars => DocumentsInvariant'
<1> SUFFICES ASSUME DocumentsInvariant, [Next]_vars PROVE DocumentsInvariant'
  OBVIOUS
<1>1. CASE Start
  BY <1>1, StartKeeps
<1>2. CASE Stop
  BY <1>2, StopKeeps
<1>3. CASE Damage
  BY <1>3, DamageKeeps
<1>4. CASE Break
  BY <1>4, BreakKeeps
<1>5. CASE SelectTheme \/ SetSaveInterval \/ SetPanelNumber \/ Move \/ EditFolderNames
  BY <1>5, PanelKeeps
<1>6. CASE Toggle
  BY <1>6, ToggleKeeps
<1>7. CASE SetVizNumber \/ SetVizWord \/ SetFft \/ ResetVizType \/ CheckTexts
  BY <1>7, VisualizationKeeps
<1>8. CASE SelectDevice \/ EditOption \/ EditDop
  BY <1>8, ModesKeep
<1>9. CASE ChangeOfState
  BY <1>9, StateKeeps
<1>10. CASE UNCHANGED vars
  BY <1>10 DEF vars, DocumentsInvariant, State
<1> QED BY <1>1, <1>2, <1>3, <1>4, <1>5, <1>6, <1>7, <1>8, <1>9, <1>10 DEF Next, Edit

\* What a run holds agrees with itself, whatever stood in the file and whatever
\* was edited (the hooks of parse_settings and parse_state, the dialog's edits
\* and SessionState::apply).
THEOREM DocumentsAreFit == Spec => []DocumentsInvariant
BY DocumentsInit, DocumentsStep, PTL DEF Spec

LEMMA InvariantAgrees == DocumentsInvariant => Agreements
<1> SUFFICES ASSUME DocumentsInvariant PROVE Agreements
  OBVIOUS
<1>1. CASE State
  BY <1>1 DEF DocumentsInvariant, StateOK, Pair, Agreements
<1>2. CASE ~State
  <2>1. SettingsOK(memory)
    BY <1>2 DEF DocumentsInvariant
  <2>2. ASSUME NEW mode \in {"optimal", "strict"}
        PROVE  buffers_allowed(memory[Option(mode, "buffer")], memory[Option(mode, "device_buffer_ms")])
    BY <2>1 DEF SettingsOK, ModesOK, Own, Buffer, OfDevice
  <2>3. memory[Compatible("device")] \in Routed \cup {None}
    BY <2>1 DEF SettingsOK, ModesOK
  <2>4. /\ IsInjective(memory[<<"column_order">>]) /\ Range(memory[<<"column_order">>]) = Range(Columns)
        /\ IsInjective(memory[<<"cover_priority">>])
        /\ Range(memory[<<"cover_priority">>]) = Range(CoverSources)
    BY <2>1 DEF SettingsOK, Orders, ColumnOrder, CoverPriority
  <2> QED BY <1>2, <2>2, <2>3, <2>4 DEF Agreements
<1> QED BY <1>1, <1>2

\* The orders name everything once, a mode's buffer covers its device's, a sort
\* key, a place and a size are whole, and the Compatible mode has no device past
\* the audio server (adjust_column_order, adjust_cover_priority,
\* reconcile_device_buffer, adjust_sort_pair, adjust_window_geometry,
\* migrate_legacy_compatible_device, and the edits).
THEOREM ValuesAgree == Spec => []Agreements
BY DocumentsAreFit, InvariantAgrees, PTL

-----------------------------------------------------------------------------
(* The table of state.toml, key by key                                      *)

LEMMA PlaybackKeys ==
  /\ DOMAIN playback_specs = {Active, Volume("compatible"), Volume("optimal"), Muted("compatible"),
                              Muted("optimal"), Muted("strict")}
  /\ playback_specs[Active] = Key(AudioMode, "Compatible")
  /\ \A m \in {"compatible", "optimal"} : playback_specs[Volume(m)] = volume_spec
  /\ \A m \in {"compatible", "optimal", "strict"} : playback_specs[Muted(m)] = Key(flag, FALSE)
<1>1. PICK a : a = Single(Active, Key(AudioMode, "Compatible"))
  OBVIOUS
<1>2. PICK b : b = [path \in {Volume("compatible"), Volume("optimal")} |-> volume_spec]
  OBVIOUS
<1>3. PICK c : c = [path \in {Muted(m) : m \in {"compatible", "optimal", "strict"}} |-> Key(flag, FALSE)]
  OBVIOUS
<1>4. PICK d : d = a ++ b
  OBVIOUS
<1>5. playback_specs = d ++ c
  BY <1>1, <1>2, <1>3, <1>4 DEF playback_specs
<1>6. DOMAIN a = {Active} /\ a[Active] = Key(AudioMode, "Compatible")
  BY <1>1, SingleIs
<1>7. /\ DOMAIN b = {Volume("compatible"), Volume("optimal")}
      /\ \A p \in DOMAIN b : b[p] = volume_spec
  BY <1>2
<1>8. /\ DOMAIN c = {Muted("compatible"), Muted("optimal"), Muted("strict")}
      /\ \A p \in DOMAIN c : c[p] = Key(flag, FALSE)
  BY <1>3
<1>9. \A p \in DOMAIN a : p \notin DOMAIN b /\ p \notin DOMAIN c
  BY <1>6, <1>7, <1>8 DEF Active, Volume, Muted
<1>10. \A p \in DOMAIN b : p \notin DOMAIN c
  BY <1>7, <1>8 DEF Volume, Muted
<1>11. /\ DOMAIN d = DOMAIN a \cup DOMAIN b
       /\ \A p \in DOMAIN a : d[p] = a[p]
       /\ \A p \in DOMAIN b : d[p] = b[p]
  <2>1. \A p \in DOMAIN a : p \notin DOMAIN b
    BY <1>9
  <2> QED BY <1>4, <2>1 DEF ++
<1>12. /\ DOMAIN playback_specs = DOMAIN d \cup DOMAIN c
       /\ \A p \in DOMAIN d : playback_specs[p] = d[p]
       /\ \A p \in DOMAIN c : playback_specs[p] = c[p]
  <2>1. \A p \in DOMAIN d : p \notin DOMAIN c
    BY <1>9, <1>10, <1>11
  <2> QED BY <1>5, <2>1 DEF ++
<1> QED BY <1>6, <1>7, <1>8, <1>11, <1>12

LEMMA SortKeys ==
  /\ DOMAIN sort_specs = {SortColumn, SortDirection}
  /\ sort_specs[SortColumn] = Optional(derived(Range(Columns) \ {"now_playing"}), None)
  /\ sort_specs[SortDirection] = Optional(Direction, None)
<1>1. SortColumn # SortDirection
  BY DEF SortColumn, SortDirection
<1> QED BY <1>1 DEF sort_specs, ++, Single

LEMMA WindowTable ==
  /\ \A p \in DOMAIN window_specs : \E k \in DOMAIN windowKeys : p = Window(k)
  /\ \A k \in DOMAIN windowKeys : Window(k) \in DOMAIN window_specs /\ window_specs[Window(k)] = windowKeys[k]
<1>1. PICK prefix : prefix = <<"window">>
  OBVIOUS
<1>2. prefix \in Seq(Strings) /\ DOMAIN windowKeys \subseteq Strings
  BY <1>1, StateFileAssumption, TuplesArePaths
<1>3. \A k : Append(prefix, k) = Window(k)
  BY <1>1, AppendedTuple DEF Window
<1>4. \A p \in DOMAIN Section(prefix, windowKeys) : \E k \in DOMAIN windowKeys : p = Append(prefix, k)
  BY <1>2, SectionIs
<1>5. \A p \in DOMAIN window_specs : \E k \in DOMAIN windowKeys : p = Window(k)
  BY <1>1, <1>3, <1>4 DEF window_specs
<1> QED BY <1>5, WindowPaths

\* Every part of the table is in it as it is.
LEMMA StateTable ==
  /\ DOMAIN state_spec = DOMAIN playback_specs \cup DOMAIN column_width_specs \cup DOMAIN sort_specs
                           \cup DOMAIN window_specs \cup {VisMode, Repeat, Shuffle, LastDir}
  /\ \A p \in DOMAIN playback_specs : p[1] = "playback" /\ state_spec[p] = playback_specs[p]
  /\ \A p \in DOMAIN column_width_specs : p[1] = "columns" /\ state_spec[p] = column_width_specs[p]
  /\ \A p \in DOMAIN sort_specs : p[1] = "sort" /\ state_spec[p] = sort_specs[p]
  /\ \A p \in DOMAIN window_specs : p[1] = "window" /\ state_spec[p] = window_specs[p]
  /\ state_spec[VisMode] = Key(VisualizationMode, "off") /\ state_spec[Repeat] = repeat_spec
  /\ state_spec[Shuffle] = Key(flag, FALSE) /\ state_spec[LastDir] = last_dir_spec
<1>1. PICK m1 : m1 = playback_specs ++ column_width_specs
  OBVIOUS
<1>2. PICK m2 : m2 = m1 ++ sort_specs
  OBVIOUS
<1>3. PICK m3 : m3 = m2 ++ window_specs
  OBVIOUS
<1>4. PICK v : v = Single(VisMode, Key(VisualizationMode, "off"))
  OBVIOUS
<1>5. PICK r : r = Single(Repeat, repeat_spec)
  OBVIOUS
<1>6. PICK s : s = Single(Shuffle, Key(flag, FALSE))
  OBVIOUS
<1>7. PICK l : l = Single(LastDir, last_dir_spec)
  OBVIOUS
<1>8. PICK m4 : m4 = m3 ++ v
  OBVIOUS
<1>9. PICK m5 : m5 = m4 ++ r
  OBVIOUS
<1>10. PICK m6 : m6 = m5 ++ s
  OBVIOUS
<1>11. state_spec = m6 ++ l
  BY <1>1, <1>2, <1>3, <1>4, <1>5, <1>6, <1>7, <1>8, <1>9, <1>10 DEF state_spec, VisMode, Repeat, Shuffle
<1>12. /\ DOMAIN v = {VisMode} /\ v[VisMode] = Key(VisualizationMode, "off")
       /\ DOMAIN r = {Repeat} /\ r[Repeat] = repeat_spec
       /\ DOMAIN s = {Shuffle} /\ s[Shuffle] = Key(flag, FALSE)
       /\ DOMAIN l = {LastDir} /\ l[LastDir] = last_dir_spec
  BY <1>4, <1>5, <1>6, <1>7, SingleIs
<1>13. /\ VisMode[1] = "visualization" /\ Repeat[1] = "repeat" /\ Shuffle[1] = "shuffle" /\ LastDir[1] = "last_dir"
  BY DEF VisMode, Repeat, Shuffle, LastDir
<1>14. \A p \in DOMAIN playback_specs : p[1] = "playback"
  BY PlaybackKeys DEF Active, Volume, Muted
<1>15. \A p \in DOMAIN column_width_specs : p[1] = "columns"
  BY DEF column_width_specs, Width
<1>16. \A p \in DOMAIN sort_specs : p[1] = "sort"
  BY SortKeys DEF SortColumn, SortDirection
<1>17. \A p \in DOMAIN window_specs : p[1] = "window"
  BY WindowTable DEF Window
<1>18. /\ DOMAIN m1 = DOMAIN playback_specs \cup DOMAIN column_width_specs
       /\ \A p \in DOMAIN playback_specs : m1[p] = playback_specs[p]
       /\ \A p \in DOMAIN column_width_specs : m1[p] = column_width_specs[p]
  <2>1. \A p \in DOMAIN playback_specs : p \notin DOMAIN column_width_specs
    BY <1>14, <1>15
  <2> QED BY <1>1, <2>1 DEF ++
<1>19. /\ DOMAIN m2 = DOMAIN m1 \cup DOMAIN sort_specs
       /\ \A p \in DOMAIN m1 : m2[p] = m1[p]
       /\ \A p \in DOMAIN sort_specs : m2[p] = sort_specs[p]
  <2>1. \A p \in DOMAIN m1 : p \notin DOMAIN sort_specs
    BY <1>14, <1>15, <1>16, <1>18
  <2> QED BY <1>2, <2>1 DEF ++
<1>20. /\ DOMAIN m3 = DOMAIN m2 \cup DOMAIN window_specs
       /\ \A p \in DOMAIN m2 : m3[p] = m2[p]
       /\ \A p \in DOMAIN window_specs : m3[p] = window_specs[p]
  <2>1. \A p \in DOMAIN m2 : p \notin DOMAIN window_specs
    BY <1>14, <1>15, <1>16, <1>17, <1>18, <1>19
  <2> QED BY <1>3, <2>1 DEF ++
<1>21. \A p \in DOMAIN m3 : p[1] \in {"playback", "columns", "sort", "window"}
  BY <1>14, <1>15, <1>16, <1>17, <1>18, <1>19, <1>20
<1>22. /\ DOMAIN m4 = DOMAIN m3 \cup DOMAIN v
       /\ \A p \in DOMAIN m3 : m4[p] = m3[p]
       /\ \A p \in DOMAIN v : m4[p] = v[p]
  <2>1. \A p \in DOMAIN m3 : p \notin DOMAIN v
    BY <1>12, <1>13, <1>21
  <2> QED BY <1>8, <2>1 DEF ++
<1>23. /\ DOMAIN m5 = DOMAIN m4 \cup DOMAIN r
       /\ \A p \in DOMAIN m4 : m5[p] = m4[p]
       /\ \A p \in DOMAIN r : m5[p] = r[p]
  <2>1. \A p \in DOMAIN m4 : p \notin DOMAIN r
    BY <1>12, <1>13, <1>21, <1>22
  <2> QED BY <1>9, <2>1 DEF ++
<1>24. /\ DOMAIN m6 = DOMAIN m5 \cup DOMAIN s
       /\ \A p \in DOMAIN m5 : m6[p] = m5[p]
       /\ \A p \in DOMAIN s : m6[p] = s[p]
  <2>1. \A p \in DOMAIN m5 : p \notin DOMAIN s
    BY <1>12, <1>13, <1>21, <1>22, <1>23
  <2> QED BY <1>10, <2>1 DEF ++
<1>25. /\ DOMAIN state_spec = DOMAIN m6 \cup DOMAIN l
       /\ \A p \in DOMAIN m6 : state_spec[p] = m6[p]
       /\ \A p \in DOMAIN l : state_spec[p] = l[p]
  <2>1. \A p \in DOMAIN m6 : p \notin DOMAIN l
    BY <1>12, <1>13, <1>21, <1>22, <1>23, <1>24
  <2> QED BY <1>11, <2>1 DEF ++
<1>26. \A p \in DOMAIN m3 : p \in DOMAIN state_spec /\ state_spec[p] = m3[p]
  BY <1>22, <1>23, <1>24, <1>25
<1>27. /\ state_spec[VisMode] = Key(VisualizationMode, "off") /\ state_spec[Repeat] = repeat_spec
       /\ state_spec[Shuffle] = Key(flag, FALSE) /\ state_spec[LastDir] = last_dir_spec
  BY <1>12, <1>22, <1>23, <1>24, <1>25
<1>28. DOMAIN state_spec = DOMAIN m3 \cup {VisMode, Repeat, Shuffle, LastDir}
  BY <1>12, <1>22, <1>23, <1>24, <1>25
<1>29. /\ \A p \in DOMAIN playback_specs : state_spec[p] = playback_specs[p]
       /\ \A p \in DOMAIN column_width_specs : state_spec[p] = column_width_specs[p]
       /\ \A p \in DOMAIN sort_specs : state_spec[p] = sort_specs[p]
       /\ \A p \in DOMAIN window_specs : state_spec[p] = window_specs[p]
  BY <1>18, <1>19, <1>20, <1>26
<1> QED BY <1>14, <1>15, <1>16, <1>17, <1>18, <1>19, <1>20, <1>27, <1>28, <1>29

-----------------------------------------------------------------------------
(* What state.toml says of a session is read back                           *)

LEMMA StateSpecOK == SpecOK(state_spec)
<1>1. \A p \in DOMAIN playback_specs : KeyOK(playback_specs[p])
  <2>1. KeyOK(volume_spec)
    BY IntegerWithin DEF volume_spec
  <2>2. KeyOK(Key(flag, FALSE))
    BY FlagOK
  <2> QED BY <2>1, <2>2, AudioModeOK, PlaybackKeys
<1>2. \A p \in DOMAIN column_width_specs : KeyOK(column_width_specs[p])
  <2>1. KeyOK(Optional(number(within(1, 10000)), None))
    <3>1. within(1, 10000) \in SUBSET Int
      BY WithinIs
    <3> QED BY <3>1, NumberOK
  <2> QED BY <2>1 DEF column_width_specs
<1>3. \A p \in DOMAIN sort_specs : KeyOK(sort_specs[p])
  BY SourcesAre, DerivedOK, DirectionOK, SortKeys
<1>4. \A p \in DOMAIN window_specs : KeyOK(window_specs[p])
  BY WindowTable, WindowOK DEF SpecOK
<1>5. KeyOK(Key(VisualizationMode, "off")) /\ KeyOK(repeat_spec) /\ KeyOK(Key(flag, FALSE))
  BY VisualizationModeOK, RepeatOK, FlagOK
<1>6. KeyOK(last_dir_spec)
  BY NameOK DEF last_dir_spec
<1>7. ASSUME NEW p \in DOMAIN state_spec PROVE KeyOK(state_spec[p])
  BY <1>1, <1>2, <1>3, <1>4, <1>5, <1>6, StateTable
<1> QED BY <1>7, Zenon DEF SpecOK

LEMMA StateNames ==
  /\ \A p \in DOMAIN state_spec : p \in Seq(Strings) /\ Len(p) \in 1 .. 3
  /\ \A p \in DOMAIN column_width_specs : Len(p) = 3
  /\ \A p \in DOMAIN sort_specs \cup DOMAIN window_specs : Len(p) = 2
  /\ \A p \in DOMAIN playback_specs : ~playback_specs[p].optional
<1>1. /\ "playback" \in Strings /\ "active" \in Strings /\ "volume" \in Strings /\ "muted" \in Strings
      /\ "compatible" \in Strings /\ "optimal" \in Strings /\ "strict" \in Strings
      /\ "columns" \in Strings /\ "widths" \in Strings /\ "sort" \in Strings /\ "column" \in Strings
      /\ "direction" \in Strings /\ "window" \in Strings /\ "visualization" \in Strings
      /\ "mode" \in Strings /\ "repeat" \in Strings /\ "shuffle" \in Strings /\ "last_dir" \in Strings
      /\ DOMAIN windowKeys \subseteq Strings
  BY StateFileAssumption
<1>2. \A p \in DOMAIN playback_specs : p \in Seq(Strings) /\ Len(p) \in 1 .. 3
  <2>1. Active \in Seq(Strings) /\ Len(Active) = 2
    BY <1>1 DEF Active
  <2>2. \A m \in Strings :
          /\ Volume(m) \in Seq(Strings) /\ Len(Volume(m)) = 3
          /\ Muted(m) \in Seq(Strings) /\ Len(Muted(m)) = 3
    BY <1>1 DEF Volume, Muted
  <2> QED BY <1>1, <2>1, <2>2, PlaybackKeys
<1>3. \A p \in DOMAIN column_width_specs : p \in Seq(Strings) /\ Len(p) = 3
  <2>1. \A c \in Range(Columns) : Width(c) \in Seq(Strings) /\ Len(Width(c)) = 3
    BY <1>1, SourcesAre DEF Width
  <2> QED BY <2>1 DEF column_width_specs
<1>4. \A p \in DOMAIN sort_specs : p \in Seq(Strings) /\ Len(p) = 2
  <2>1. /\ SortColumn \in Seq(Strings) /\ Len(SortColumn) = 2
        /\ SortDirection \in Seq(Strings) /\ Len(SortDirection) = 2
    BY <1>1 DEF SortColumn, SortDirection
  <2> QED BY <2>1, SortKeys
<1>5. \A p \in DOMAIN window_specs : p \in Seq(Strings) /\ Len(p) = 2
  <2>1. \A k \in DOMAIN windowKeys : Window(k) \in Seq(Strings) /\ Len(Window(k)) = 2
    BY <1>1 DEF Window
  <2> QED BY <2>1, WindowTable
<1>6. \A p \in {VisMode, Repeat, Shuffle, LastDir} : p \in Seq(Strings) /\ Len(p) \in 1 .. 3
  <2>1. /\ VisMode \in Seq(Strings) /\ Len(VisMode) = 2 /\ Repeat \in Seq(Strings) /\ Len(Repeat) = 1
        /\ Shuffle \in Seq(Strings) /\ Len(Shuffle) = 1 /\ LastDir \in Seq(Strings) /\ Len(LastDir) = 1
    BY <1>1 DEF VisMode, Repeat, Shuffle, LastDir
  <2> QED BY <2>1
<1>7. \A p \in DOMAIN playback_specs : ~playback_specs[p].optional
  BY PlaybackKeys DEF Key, volume_spec
<1> QED BY <1>2, <1>3, <1>4, <1>5, <1>6, <1>7, StateTable

LEMMA StateLeaves == Leaves(state_spec)
<1> SUFFICES ASSUME NEW p \in DOMAIN state_spec, NEW q \in DOMAIN state_spec,
                    state_spec[p].optional, IsStrictPrefix(p, q)
             PROVE  FALSE
  BY DEF Leaves
<1>1. p \in Seq(Strings) /\ q \in Seq(Strings) /\ Len(p) \in 1 .. 3
  BY StateNames
<1>2. Len(p) < Len(q) /\ p[1] = q[1]
  BY <1>1, PrefixIs
<1>3. p[1] # "playback"
  <2>1. /\ VisMode[1] = "visualization" /\ Repeat[1] = "repeat" /\ Shuffle[1] = "shuffle" /\ LastDir[1] = "last_dir"
    BY DEF VisMode, Repeat, Shuffle, LastDir
  <2> QED BY <2>1, StateTable, StateNames
<1>4. /\ VisMode[1] = "visualization" /\ Repeat[1] = "repeat" /\ Shuffle[1] = "shuffle" /\ LastDir[1] = "last_dir"
  BY DEF VisMode, Repeat, Shuffle, LastDir
<1>5. p \in {VisMode, Repeat, Shuffle, LastDir} => q = p
  BY <1>2, <1>4, StateTable
<1>6. p \in DOMAIN column_width_specs => q \in DOMAIN column_width_specs
  BY <1>2, <1>4, StateTable
<1>7. p \in DOMAIN sort_specs \cup DOMAIN window_specs => q \in DOMAIN sort_specs \cup DOMAIN window_specs
  BY <1>2, <1>4, StateTable
<1> QED BY <1>1, <1>2, <1>3, <1>5, <1>6, <1>7, StateTable, StateNames

StateFits(s) == DOMAIN s = DOMAIN state_spec /\ AllFit(state_spec, s)

\* The keys that may have no value and have none by default.
LEMMA MayLack ==
  \A p \in Paired \cup {LastDir} : p \in DOMAIN state_spec /\ Fits(state_spec[p], None)
<1>1. \A k \in {"x", "y", "width", "height"} :
        k \in DOMAIN windowKeys /\ windowKeys[k].optional /\ windowKeys[k].default = None
  BY DEF windowKeys, Optional
<1>2. \A k \in {"x", "y", "width", "height"} :
        /\ Window(k) \in DOMAIN state_spec
        /\ state_spec[Window(k)].optional /\ state_spec[Window(k)].default = None
  BY <1>1, WindowTable, StateTable
<1>3. \A p \in {SortColumn, SortDirection} :
        p \in DOMAIN state_spec /\ state_spec[p].optional /\ state_spec[p].default = None
  <2>1. \A p \in {SortColumn, SortDirection} : sort_specs[p].optional /\ sort_specs[p].default = None
    BY SortKeys DEF Optional
  <2> QED BY <2>1, SortKeys, StateTable
<1>4. LastDir \in DOMAIN state_spec /\ state_spec[LastDir].optional /\ state_spec[LastDir].default = None
  BY StateTable DEF last_dir_spec, Optional
<1> QED BY <1>2, <1>3, <1>4 DEF Paired, Fits

LEMMA DefaultStateFits ==
  /\ StateFits(default_state)
  /\ \A p \in DOMAIN state_spec : default_state[p] = state_spec[p].default
<1>1. DOMAIN default_state = DOMAIN state_spec /\ \A p \in DOMAIN state_spec : default_state[p] = state_spec[p].default
  BY DEF default_state
<1> QED BY <1>1, StateSpecOK DEF StateFits, AllFit, SpecOK, KeyOK

\* Values that are dropped leave what fits.
LEMMA DroppedFits ==
  ASSUME NEW s, StateFits(s), NEW paths, paths \subseteq Paired \cup {LastDir}
  PROVE  StateFits(Dropped(s, paths))
BY MayLack DEF Dropped, StateFits, AllFit

LEMMA ParsedStateFits ==
  ASSUME NEW seen, seen.read = "Parsed" => DocOK(seen.doc)
  PROVE  StateFits(parse_state(seen).value)
<1>1. CASE seen.read # "Parsed"
  BY <1>1, DefaultStateFits DEF parse_state
<1>2. CASE seen.read = "Parsed"
  <2>1. PICK read : read = walk(seen.doc, state_spec, default_state).value
    OBVIOUS
  <2>2. PICK sorted : sorted = Dropped(read, Alone(read, SortColumn, SortDirection))
    OBVIOUS
  <2>3. PICK half : half = Alone(sorted, Window("x"), Window("y"))
                           \cup Alone(sorted, Window("width"), Window("height"))
    OBVIOUS
  <2>4. parse_state(seen).value = Dropped(sorted, half)
    BY <1>2, <2>1, <2>2, <2>3 DEF parse_state, adjust_window_geometry, adjust_sort_pair
  <2>5. StateFits(read)
    <3>1. AllFit(state_spec, read)
      BY <1>2, <2>1, WalkFits, StateSpecOK, DefaultStateFits
    <3>2. DOMAIN read = DOMAIN state_spec
      BY <2>1, WalkDomain
    <3> QED BY <3>1, <3>2 DEF StateFits
  <2>6. StateFits(sorted)
    <3>1. Alone(read, SortColumn, SortDirection) \subseteq Paired
      BY DEF Alone, Paired
    <3> QED BY <2>2, <2>5, <3>1, DroppedFits
  <2>7. half \subseteq Paired
    BY <2>3 DEF Alone, Paired
  <2> QED BY <2>4, <2>6, <2>7, DroppedFits
<1> QED BY <1>1, <1>2

\* What is written of a session is what is read again, but for a directory
\* whose name is no text.
LEMMA StateRoundTrip ==
  ASSUME NEW s, StateFits(s), StateOK(s)
  PROVE  /\ serialize_state(s).read = "Parsed" /\ DocOK(serialize_state(s).doc)
         /\ parse_state(serialize_state(s)).notes = {}
         /\ \A p \in DOMAIN s : \/ parse_state(serialize_state(s)).value[p] = s[p]
                                \/ p = LastDir /\ s[LastDir] \in {q \in DOMAIN Paths : Paths[q] = "bytes"}
<1>1. PICK unsaid : unsaid = {LastDir : p \in {q \in DOMAIN Paths : Paths[q] = "bytes" /\ s[LastDir] = q}}
  OBVIOUS
<1>2. PICK t : t = Dropped(s, unsaid)
  OBVIOUS
<1>3. PICK doc : doc = Written(state_spec, t)
  OBVIOUS
<1>4. PICK f : f = serialize_state(s)
  OBVIOUS
<1>5. f.read = "Parsed" /\ f.doc = doc
  BY <1>1, <1>2, <1>3, <1>4 DEF serialize_state
<1>6. StateFits(t)
  <2>1. unsaid \subseteq {LastDir}
    BY <1>1
  <2> QED BY <1>2, <2>1, DroppedFits
<1>7. DOMAIN t = DOMAIN s /\ \A p \in DOMAIN s : t[p] = IF p \in unsaid THEN None ELSE s[p]
  BY <1>2 DEF Dropped
<1>8. PICK read : read = walk(doc, state_spec, default_state)
  OBVIOUS
<1>9. /\ DocOK(doc) /\ read.notes = {} /\ DOMAIN read.value = DOMAIN state_spec
      /\ \A p \in DOMAIN state_spec : read.value[p] = t[p]
  <2>1. DOMAIN state_spec \subseteq Seq(Strings)
    BY StateNames
  <2>2. /\ walk(Written(state_spec, t), state_spec, default_state)
             = [value |-> [path \in DOMAIN state_spec |-> t[path]], notes |-> {}]
        /\ DocOK(Written(state_spec, t))
    BY <1>6, <2>1, StateSpecOK, StateLeaves, DefaultStateFits, WalkBack DEF StateFits
  <2> QED BY <1>3, <1>8, <2>2
<1>10. PICK v : v = read.value
  OBVIOUS
<1>11. \A p \in Paired : p \in DOMAIN v /\ v[p] = s[p]
  <2>1. LastDir \notin Paired
    BY DEF LastDir, Paired, SortColumn, SortDirection, Window
  <2> QED BY <1>1, <1>7, <1>9, <1>10, <2>1 DEF StateOK, StateFits
<1>12. /\ Alone(v, SortColumn, SortDirection) = {} /\ Alone(v, Window("x"), Window("y")) = {}
       /\ Alone(v, Window("width"), Window("height")) = {}
  BY <1>11 DEF Alone, StateOK, Pair, Paired
<1>13. PICK w : w = Dropped(v, {})
  OBVIOUS
<1>14. DOMAIN w = DOMAIN v /\ \A p \in DOMAIN v : w[p] = v[p]
  BY <1>13 DEF Dropped
<1>15. w = v
  <2>1. v = [p \in DOMAIN state_spec |-> t[p]]
    <3>1. DOMAIN state_spec \subseteq Seq(Strings)
      BY StateNames
    <3>2. walk(Written(state_spec, t), state_spec, default_state).value
             = [path \in DOMAIN state_spec |-> t[path]]
      BY <1>6, <3>1, StateSpecOK, StateLeaves, DefaultStateFits, WalkBack DEF StateFits
    <3> QED BY <1>3, <1>8, <1>10, <3>2
  <2> QED BY <1>13, <2>1 DEF Dropped
<1>16. parse_state(f).notes = {} /\ parse_state(f).value = v
  <2>1. PICK sorted : sorted = adjust_sort_pair(read)
    OBVIOUS
  <2>2. sorted = [value |-> w, notes |-> {}]
    BY <1>9, <1>10, <1>12, <1>13, <2>1 DEF adjust_sort_pair
  <2>3. parse_state(f) = adjust_window_geometry(sorted)
    BY <1>5, <1>8, <2>1 DEF parse_state
  <2>4. adjust_window_geometry(sorted) = [value |-> Dropped(v, {} \cup {}), notes |-> {}]
    BY <1>12, <1>15, <2>2 DEF adjust_window_geometry
  <2> QED BY <1>13, <1>15, <2>3, <2>4
<1>17. ASSUME NEW p \in DOMAIN s
       PROVE  \/ v[p] = s[p]
              \/ p = LastDir /\ s[LastDir] \in {q \in DOMAIN Paths : Paths[q] = "bytes"}
  BY <1>1, <1>7, <1>9, <1>10 DEF StateFits
<1> QED BY <1>4, <1>5, <1>9, <1>16, <1>17

-----------------------------------------------------------------------------
(* The changes of the state leave what fits                                 *)

LEMMA HoldsOf ==
  /\ Holds(flag) = BOOLEAN /\ Holds(text) = Strings /\ Holds(texts) = Seq(Strings)
  /\ \A r : Holds(name(r)) = Strings \ r
  /\ \A r : Holds(number(r)) = r /\ Holds(integer(r)) = r
  /\ \A read, written : Holds(word(read, written)) = DOMAIN written
  /\ \A words : Holds(derived(words)) = words
  /\ \A all : Holds(order(all)) = {list \in Seq(Strings) : Range(list) \subseteq all}
BY DEF Holds, flag, text, texts, name, number, integer, word, derived, order

\* What a key holds, and nothing where it may lack.
LEMMA FitsIs ==
  \A kind, default : /\ Key(kind, default).kind = kind
                     /\ Optional(kind, default).kind = kind
                     /\ \A v \in Holds(kind) : Fits(Key(kind, default), v) /\ Fits(Optional(kind, default), v)
                     /\ Fits(Optional(kind, None), None)
                     /\ \A v : Fits(Key(kind, default), v) => v \in Holds(kind)
                     /\ \A v : Fits(Optional(kind, default), v) => v \in Holds(kind) \cup {None}
BY DEF Fits, Key, Optional

LEMMA ChangeFits ==
  ASSUME NEW s, StateFits(s), NEW p, NEW x, p \in DOMAIN state_spec => Fits(state_spec[p], x)
  PROVE  StateFits(Change(s, p, x))
BY DEF Change, StateFits, AllFit

\* The mode is one of the three.
LEMMA ActiveMode ==
  ASSUME NEW s, StateFits(s)
  PROVE  /\ s[Active] \in {"Compatible", "Optimal", "Strict"}
         /\ modeName["Compatible"] = "compatible" /\ modeName["Optimal"] = "optimal"
         /\ modeName["Strict"] = "strict"
BY PlaybackKeys, StateTable, FitsIs, HoldsOf DEF StateFits, AllFit, AudioMode, modeName, word

LEMMA VolumeFits ==
  ASSUME NEW s, StateFits(s), NEW v \in {0, 100, 255} PROVE StateFits(ChangeVolume(s, v))
<1>1. CASE s[Active] = "Strict"
  BY <1>1 DEF ChangeVolume
<1>2. CASE s[Active] # "Strict"
  <2>1. PICK x : x = IF v > 100 THEN 100 ELSE v
    OBVIOUS
  <2>2. x \in {0, 100}
    BY <2>1
  <2>3. Fits(volume_spec, x)
    <3>1. x \in within(0, 100)
      BY <2>2, WithinIs
    <3> QED BY <3>1, HoldsOf, FitsIs DEF volume_spec
  <2>4. PICK p : p = Volume(modeName[s[Active]])
    OBVIOUS
  <2>5. p \in DOMAIN state_spec /\ state_spec[p] = volume_spec
    BY <1>2, <2>4, ActiveMode, PlaybackKeys, StateTable
  <2>6. StateFits(Change(s, p, x))
    BY <2>3, <2>5, ChangeFits
  <2> QED BY <1>2, <2>1, <2>4, <2>6 DEF ChangeVolume
<1> QED BY <1>1, <1>2

LEMMA MutedFits ==
  ASSUME NEW s, StateFits(s), NEW m \in BOOLEAN PROVE StateFits(ChangeMuted(s, m))
<1>1. PICK p : p = Muted(modeName[s[Active]])
  OBVIOUS
<1>2. p \in DOMAIN state_spec /\ state_spec[p] = Key(flag, FALSE)
  <2>1. PICK mode \in {"compatible", "optimal", "strict"} : p = Muted(mode)
    BY <1>1, ActiveMode
  <2>2. p \in DOMAIN playback_specs /\ playback_specs[p] = Key(flag, FALSE)
    BY <2>1, PlaybackKeys
  <2> QED BY <2>2, StateTable
<1>3. Fits(Key(flag, FALSE), m)
  BY HoldsOf, FitsIs
<1>4. StateFits(Change(s, p, m))
  BY <1>2, <1>3, ChangeFits
<1> QED BY <1>1, <1>4 DEF ChangeMuted

\* Keys of their own.
LEMMA SingleFits ==
  ASSUME NEW s, StateFits(s)
  PROVE  /\ \A m \in DOMAIN modeName : StateFits(Change(s, Active, m))
         /\ \A m \in DOMAIN VisualizationMode.written : StateFits(Change(s, VisMode, m))
         /\ \A r \in DOMAIN repeat_spec.kind.written : StateFits(Change(s, Repeat, r))
         /\ \A b \in BOOLEAN : StateFits(Change(s, Shuffle, b))
         /\ \A d \in Dirs : StateFits(Change(s, LastDir, d))
<1>1. ASSUME NEW m \in DOMAIN modeName PROVE StateFits(Change(s, Active, m))
  <2>1. DOMAIN modeName = Holds(AudioMode)
    BY DEF modeName, Holds, AudioMode, word
  <2>2. Fits(state_spec[Active], m)
    BY <2>1, FitsIs, PlaybackKeys, StateTable
  <2> QED BY <2>2, ChangeFits
<1>2. ASSUME NEW m \in DOMAIN VisualizationMode.written PROVE StateFits(Change(s, VisMode, m))
  <2>1. DOMAIN VisualizationMode.written = Holds(VisualizationMode)
    BY DEF Holds, VisualizationMode, derived, word
  <2>2. Fits(state_spec[VisMode], m)
    BY <2>1, FitsIs, StateTable
  <2> QED BY <2>2, ChangeFits
<1>3. ASSUME NEW r \in DOMAIN repeat_spec.kind.written PROVE StateFits(Change(s, Repeat, r))
  <2>1. r \in Holds(repeat_spec.kind)
    BY DEF Holds, repeat_spec, Key, word
  <2>2. Fits(state_spec[Repeat], r)
    BY <2>1, StateTable DEF Fits
  <2> QED BY <2>2, ChangeFits
<1>4. ASSUME NEW b \in BOOLEAN PROVE StateFits(Change(s, Shuffle, b))
  <2>1. Fits(Key(flag, FALSE), b)
    BY HoldsOf, FitsIs
  <2>2. Fits(state_spec[Shuffle], b)
    BY <2>1, StateTable
  <2> QED BY <2>2, ChangeFits
<1>5. ASSUME NEW d \in Dirs PROVE StateFits(Change(s, LastDir, d))
  <2>1. d \in Strings \ {p \in DOMAIN Paths : Paths[p] = "relative"}
    BY DocumentsAssumption
  <2>2. Fits(state_spec[LastDir], d)
    BY <2>1, HoldsOf, FitsIs, StateTable DEF last_dir_spec
  <2> QED BY <2>2, ChangeFits
<1> QED BY <1>1, <1>2, <1>3, <1>4, <1>5

LEMMA SortFits ==
  ASSUME NEW s, StateFits(s)
  PROVE  /\ StateFits(ChangeSort(s, None))
         /\ \A c \in Range(Columns) \ {"now_playing"}, d \in {"Asc", "Desc"} :
              StateFits(ChangeSort(s, <<c, d>>))
<1>1. ASSUME NEW key, NEW c, NEW d, Fits(state_spec[SortColumn], c), Fits(state_spec[SortDirection], d),
             c = IF key = None THEN None ELSE key[1], d = IF key = None THEN None ELSE key[2]
      PROVE  StateFits(ChangeSort(s, key))
  BY <1>1 DEF ChangeSort, StateFits, AllFit
<1>2. StateFits(ChangeSort(s, None))
  BY <1>1, MayLack DEF Paired
<1>3. ASSUME NEW c \in Range(Columns) \ {"now_playing"}, NEW d \in {"Asc", "Desc"}
      PROVE  StateFits(ChangeSort(s, <<c, d>>))
  <2>1. d \in DOMAIN Direction.written /\ Holds(Direction) = DOMAIN Direction.written
    BY DEF Direction, word, Holds
  <2>2. c \in Strings /\ d \in Strings
    BY <2>1, SourcesAre, StateFileAssumption
  <2>3. <<c, d>> # None
    BY <2>2, TuplesArePaths, KeysAssumption
  <2>4. Fits(state_spec[SortColumn], c)
    BY HoldsOf, FitsIs, SortKeys, StateTable
  <2>5. Fits(state_spec[SortDirection], d)
    BY <2>1, FitsIs, SortKeys, StateTable
  <2>6. PICK key : key = <<c, d>>
    OBVIOUS
  <2>7. key # None /\ key[1] = c /\ key[2] = d
    BY <2>3, <2>6
  <2>8. StateFits(ChangeSort(s, key))
    BY <1>1, <2>4, <2>5, <2>7
  <2> QED BY <2>6, <2>8
<1> QED BY <1>2, <1>3

LEMMA GeometryFits ==
  ASSUME NEW s, StateFits(s), NEW g \in Geometries PROVE StateFits(ChangeWindow(s, g))
<1>1. /\ g.x \in I32 \cup {None} /\ g.y \in I32 \cup {None}
      /\ g.width \in (Nat \ {0}) \cup {None} /\ g.height \in (Nat \ {0}) \cup {None}
      /\ g.maximized \in BOOLEAN /\ g.fullscreen \in BOOLEAN /\ g.units \in {"Physical", "Logical"}
  BY DocumentsAssumption
<1>2. PICK t : t = ChangeWindow(s, g)
  OBVIOUS
<1>3. DOMAIN t = DOMAIN s /\ \A p \in DOMAIN s : t[p] = IF p[1] = "window" THEN g[p[2]] ELSE s[p]
  BY <1>2 DEF ChangeWindow
<1>4. Fits(windowKeys["x"], g["x"]) /\ Fits(windowKeys["y"], g["y"])
  BY <1>1, HoldsOf, FitsIs DEF windowKeys
<1>5. Fits(windowKeys["width"], g["width"]) /\ Fits(windowKeys["height"], g["height"])
  BY <1>1, HoldsOf, FitsIs DEF windowKeys
<1>6. Fits(windowKeys["maximized"], g["maximized"]) /\ Fits(windowKeys["fullscreen"], g["fullscreen"])
  BY <1>1, HoldsOf, FitsIs DEF windowKeys
<1>7. Fits(windowKeys["units"], g["units"])
  <2>1. windowKeys["units"] = window_units_spec
    BY DEF windowKeys
  <2>2. g.units \in Holds(window_units_spec.kind)
    BY <1>1 DEF Holds, window_units_spec, Key, word
  <2> QED BY <2>1, <2>2 DEF Fits
<1>8. DOMAIN windowKeys = {"x", "y", "width", "height", "maximized", "fullscreen", "units"}
  BY DEF windowKeys
<1>9. \A k \in DOMAIN windowKeys : Fits(windowKeys[k], g[k])
  BY <1>4, <1>5, <1>6, <1>7, <1>8
<1>10. \A k : Window(k)[1] = "window" /\ Window(k)[2] = k
  BY DEF Window
<1>11. ASSUME NEW p \in DOMAIN state_spec PROVE Fits(state_spec[p], t[p])
  <2>1. CASE p[1] = "window"
    <3>1. p \in DOMAIN window_specs
      BY <2>1, StateTable DEF VisMode, Repeat, Shuffle, LastDir
    <3>2. PICK k \in DOMAIN windowKeys : p = Window(k)
      BY <3>1, WindowTable
    <3>3. t[p] = g[k]
      BY <1>3, <1>10, <3>2 DEF StateFits
    <3>4. state_spec[p] = windowKeys[k]
      BY <3>1, <3>2, WindowTable, StateTable
    <3> QED BY <1>9, <3>3, <3>4
  <2>2. CASE p[1] # "window"
    BY <1>3, <2>2 DEF StateFits, AllFit
  <2> QED BY <2>1, <2>2
<1>12. StateFits(t)
  BY <1>3, <1>11 DEF StateFits, AllFit
<1> QED BY <1>2, <1>12

\* There are few columns, and their widths are a part of the whole.
LEMMA OneMore ==
  ASSUME NEW S, NEW x, NEW n \in Nat, IsFiniteSet(S), Cardinality(S) <= n
  PROVE  IsFiniteSet(S \cup {x}) /\ Cardinality(S \cup {x}) <= n + 1
<1>1. IsFiniteSet(S \cup {x}) /\ Cardinality(S \cup {x}) \in {Cardinality(S), Cardinality(S) + 1}
  BY FS_AddElement
<1>2. Cardinality(S) \in Nat
  BY FS_CardinalityType
<1> QED BY <1>1, <1>2

LEMMA TwoMore ==
  ASSUME NEW S, NEW x, NEW y, NEW n \in Nat, IsFiniteSet(S), Cardinality(S) <= n
  PROVE  IsFiniteSet(S \cup {x, y}) /\ Cardinality(S \cup {x, y}) <= n + 2
<1>1. PICK b : b = S \cup {x}
  OBVIOUS
<1>2. IsFiniteSet(b) /\ Cardinality(b) <= n + 1
  BY <1>1, OneMore
<1>3. PICK m : m = n + 1
  OBVIOUS
<1>4. m \in Nat /\ Cardinality(b) <= m /\ IsFiniteSet(b)
  BY <1>2, <1>3
<1>5. IsFiniteSet(b \cup {y}) /\ Cardinality(b \cup {y}) <= m + 1
  BY <1>4, OneMore
<1>6. b \cup {y} = S \cup {x, y}
  BY <1>1
<1>7. m + 1 = n + 2
  BY <1>3
<1> QED BY <1>5, <1>6, <1>7

LEMMA FewColumns ==
  ASSUME NEW shown \in SUBSET Range(Columns)
  PROVE  IsFiniteSet(shown) /\ Cardinality(shown) \in Nat /\ Cardinality(shown) <= 14
<1>1. IsFiniteSet({}) /\ Cardinality({}) <= 0
  BY FS_EmptySet
<1>2. PICK a : a = {} \cup {"now_playing", "track"}
  OBVIOUS
<1>3. IsFiniteSet(a) /\ Cardinality(a) <= 0 + 2
  BY <1>1, <1>2, TwoMore
<1>4. 0 + 2 = 2 /\ 2 + 2 = 4 /\ 4 + 2 = 6 /\ 6 + 2 = 8 /\ 8 + 2 = 10 /\ 10 + 2 = 12 /\ 12 + 2 = 14
  OBVIOUS
<1>5. PICK c : c = a \cup {"title", "artist"}
  OBVIOUS
<1>6. PICK d : d = c \cup {"album", "genre"}
  OBVIOUS
<1>7. PICK e : e = d \cup {"year", "format"}
  OBVIOUS
<1>8. PICK f : f = e \cup {"bitrate", "bit_depth"}
  OBVIOUS
<1>9. PICK g : g = f \cup {"sample_rate", "duration"}
  OBVIOUS
<1>10. PICK h : h = g \cup {"file_name", "file_path"}
  OBVIOUS
<1>11. IsFiniteSet(c) /\ Cardinality(c) <= 4
  <2>1. IsFiniteSet(a) /\ Cardinality(a) <= 2
    BY <1>3, <1>4
  <2>2. IsFiniteSet(a \cup {"title", "artist"}) /\ Cardinality(a \cup {"title", "artist"}) <= 2 + 2
    BY <2>1, TwoMore
  <2> QED BY <1>4, <1>5, <2>2
<1>12. IsFiniteSet(d) /\ Cardinality(d) <= 6
  <2>1. IsFiniteSet(c) /\ Cardinality(c) <= 4
    BY <1>11, <1>4
  <2>2. IsFiniteSet(c \cup {"album", "genre"}) /\ Cardinality(c \cup {"album", "genre"}) <= 4 + 2
    BY <2>1, TwoMore
  <2> QED BY <1>4, <1>6, <2>2
<1>13. IsFiniteSet(e) /\ Cardinality(e) <= 8
  <2>1. IsFiniteSet(d) /\ Cardinality(d) <= 6
    BY <1>12, <1>4
  <2>2. IsFiniteSet(d \cup {"year", "format"}) /\ Cardinality(d \cup {"year", "format"}) <= 6 + 2
    BY <2>1, TwoMore
  <2> QED BY <1>4, <1>7, <2>2
<1>14. IsFiniteSet(f) /\ Cardinality(f) <= 10
  <2>1. IsFiniteSet(e) /\ Cardinality(e) <= 8
    BY <1>13, <1>4
  <2>2. IsFiniteSet(e \cup {"bitrate", "bit_depth"}) /\ Cardinality(e \cup {"bitrate", "bit_depth"}) <= 8 + 2
    BY <2>1, TwoMore
  <2> QED BY <1>4, <1>8, <2>2
<1>15. IsFiniteSet(g) /\ Cardinality(g) <= 12
  <2>1. IsFiniteSet(f) /\ Cardinality(f) <= 10
    BY <1>14, <1>4
  <2>2. IsFiniteSet(f \cup {"sample_rate", "duration"}) /\ Cardinality(f \cup {"sample_rate", "duration"}) <= 10 + 2
    BY <2>1, TwoMore
  <2> QED BY <1>4, <1>9, <2>2
<1>16. IsFiniteSet(h) /\ Cardinality(h) <= 14
  <2>1. IsFiniteSet(g) /\ Cardinality(g) <= 12
    BY <1>15, <1>4
  <2>2. IsFiniteSet(g \cup {"file_name", "file_path"}) /\ Cardinality(g \cup {"file_name", "file_path"}) <= 12 + 2
    BY <2>1, TwoMore
  <2> QED BY <1>4, <1>10, <2>2
<1>17. DOMAIN default_columns = h
  BY <1>2, <1>5, <1>6, <1>7, <1>8, <1>9, <1>10 DEF default_columns
<1>18. shown \in SUBSET h
  BY <1>17, SettingsFileAssumption DEF ALL_COLUMNS
<1>19. IsFiniteSet(shown) /\ Cardinality(shown) <= Cardinality(h)
  BY <1>16, <1>18, FS_Subset
<1> QED BY <1>16, <1>19, FS_CardinalityType

LEMMA WidthsFit ==
  ASSUME NEW s, StateFits(s), NEW shown \in SUBSET Range(Columns)
  PROVE  StateFits(ChangeColumnWidths(s, [c \in shown |-> 10000 \div Cardinality(shown)]))
<1>1. PICK widths : widths = [c \in shown |-> 10000 \div Cardinality(shown)]
  OBVIOUS
<1>2. \A c \in shown : widths[c] \in within(1, 10000)
  <2>1. ASSUME NEW c \in shown PROVE Cardinality(shown) \in 1 .. 14
    BY FewColumns, FS_EmptySet
  <2>2. \A n \in 1 .. 14 : 10000 \div n \in Int /\ 1 <= 10000 \div n /\ 10000 \div n <= 10000
    OBVIOUS
  <2>3. ASSUME NEW c \in shown PROVE widths[c] \in within(1, 10000)
    BY <1>1, <2>1, <2>2, WithinIs
  <2> QED BY <2>3
<1>3. PICK t : t = ChangeColumnWidths(s, widths)
  OBVIOUS
<1>4. PICK prefix : prefix = <<"columns", "widths">>
  OBVIOUS
<1>5. /\ DOMAIN t = DOMAIN s
      /\ \A p \in DOMAIN s : t[p] = IF ~IsPrefix(prefix, p) THEN s[p]
                                    ELSE IF p[3] \in DOMAIN widths THEN widths[p[3]] ELSE None
  BY <1>3, <1>4 DEF ChangeColumnWidths
<1>6. ASSUME NEW p \in DOMAIN state_spec PROVE Fits(state_spec[p], t[p])
  <2>1. CASE ~IsPrefix(prefix, p)
    BY <1>5, <2>1 DEF StateFits, AllFit
  <2>2. CASE IsPrefix(prefix, p)
    <3>1. p[1] = "columns"
      <4>1. prefix \in Seq(Strings) /\ Len(prefix) = 2 /\ prefix[1] = "columns" /\ p \in Seq(Strings)
        BY <1>4, StateFileAssumption, TuplesArePaths, StateNames
      <4>2. 1 \in 1 .. Len(prefix)
        BY <4>1
      <4> QED BY <2>2, <4>1, <4>2, PrefixIs
    <3>2. p \in DOMAIN column_width_specs
      BY <3>1, StateTable DEF VisMode, Repeat, Shuffle, LastDir
    <3>3. state_spec[p] = Optional(number(within(1, 10000)), None)
      <4>1. column_width_specs[p] = Optional(number(within(1, 10000)), None)
        BY <3>2 DEF column_width_specs
      <4> QED BY <3>2, <4>1, StateTable
    <3>4. t[p] \in within(1, 10000) \cup {None}
      BY <1>1, <1>2, <1>5, <2>2 DEF StateFits
    <3> QED BY <3>3, <3>4, HoldsOf, FitsIs
  <2> QED BY <2>1, <2>2
<1>7. StateFits(t)
  BY <1>5, <1>6 DEF StateFits, AllFit
<1> QED BY <1>1, <1>3, <1>7

-----------------------------------------------------------------------------
(* The table of settings.toml, key by key                                   *)

\* A table whose keys are not optional, of kinds there are, with names.
Sound(keys) == /\ SpecOK(keys) /\ DOMAIN keys \subseteq Strings
               /\ \A k \in DOMAIN keys : ~keys[k].optional

LEMMA MergedSound ==
  ASSUME NEW f, NEW g, Sound(f), Sound(g) PROVE Sound(f ++ g)
BY MergedOK DEF ++, Sound

\* The paths of a table are its prefix with a name; none of its keys is optional.
Under(prefix, keys, t) ==
  /\ SpecOK(t)
  /\ \A p \in DOMAIN t :
       /\ p \in Seq(Strings) /\ Len(p) = Len(prefix) + 1
       /\ \A i \in 1 .. Len(prefix) : p[i] = prefix[i]
       /\ p[Len(prefix) + 1] \in DOMAIN keys
       /\ ~t[p].optional
  /\ \A k \in DOMAIN keys : Append(prefix, k) \in DOMAIN t /\ t[Append(prefix, k)] = keys[k]

LEMMA SectionSound ==
  ASSUME NEW prefix \in Seq(Strings), NEW keys, Sound(keys)
  PROVE  Under(prefix, keys, Section(prefix, keys))
<1>1. DOMAIN keys \subseteq Strings /\ SpecOK(keys) /\ \A k \in DOMAIN keys : ~keys[k].optional
  BY DEF Sound
<1>2. PICK t : t = Section(prefix, keys)
  OBVIOUS
<1>3. SpecOK(t)
  BY <1>1, <1>2, SectionOK
<1>4. \A k \in DOMAIN keys : Append(prefix, k) \in DOMAIN t /\ t[Append(prefix, k)] = keys[k]
  BY <1>1, <1>2, SectionIs
<1>5. \A p \in DOMAIN t : \E k \in DOMAIN keys : p = Append(prefix, k)
  BY <1>1, <1>2, SectionIs
<1>6. ASSUME NEW p \in DOMAIN t
      PROVE  /\ p \in Seq(Strings) /\ Len(p) = Len(prefix) + 1
             /\ \A i \in 1 .. Len(prefix) : p[i] = prefix[i]
             /\ p[Len(prefix) + 1] \in DOMAIN keys
             /\ ~t[p].optional
  <2>1. PICK k \in DOMAIN keys : p = Append(prefix, k)
    BY <1>5
  <2>2. k \in Strings
    BY <1>1
  <2>3. /\ p \in Seq(Strings) /\ Len(p) = Len(prefix) + 1
        /\ \A i \in 1 .. Len(prefix) : p[i] = prefix[i]
        /\ p[Len(prefix) + 1] = k
    BY <2>1, <2>2, LongerPath
  <2>4. t[p] = keys[k] /\ ~keys[k].optional
    BY <1>1, <1>4, <2>1
  <2> QED BY <2>1, <2>3, <2>4
<1>7. Under(prefix, keys, t)
  BY <1>3, <1>4, <1>6 DEF Under
<1> QED BY <1>2, <1>7

LEMMA TablesSound ==
  /\ Sound(panelKeys) /\ Sound(common) /\ Sound(cached) /\ Sound(oscilloscopeKeys)
  /\ Sound(spectrogramKeys) /\ Sound(spectrumKeys) /\ Sound(cacheKeys)
  /\ Sound([k \in Labels |-> Key(text, k)])
<1>1. \A kind, default : ~Key(kind, default).optional
  BY DEF Key
<1>2. /\ \A k \in DOMAIN panelKeys : ~panelKeys[k].optional
      /\ \A k \in DOMAIN common : ~common[k].optional
      /\ \A k \in DOMAIN cached : ~cached[k].optional
      /\ \A k \in DOMAIN oscilloscopeKeys : ~oscilloscopeKeys[k].optional
      /\ \A k \in DOMAIN cacheKeys : ~cacheKeys[k].optional
  <2>1. \A k \in DOMAIN panelKeys : ~panelKeys[k].optional
    <3>1. DOMAIN panelKeys = {"theme", "save_interval", "minimize_to_tray", "scroll_to_playing", "cover_size", "col_info_w", "col_gap", "column_order", "cover_priority", "cover_folder_names", "cover_online"}
      BY DEF panelKeys
    <3>2. ~panelKeys["theme"].optional
      <4>1. panelKeys["theme"] = Key(name(Separated \cup {""}), "light")
        BY DEF panelKeys
      <4> QED BY <1>1, <4>1
    <3>3. ~panelKeys["save_interval"].optional
      <4>1. panelKeys["save_interval"] = Key(integer(SAVE_INTERVALS), 30)
        BY DEF panelKeys
      <4> QED BY <1>1, <4>1
    <3>4. ~panelKeys["minimize_to_tray"].optional
      <4>1. panelKeys["minimize_to_tray"] = Key(flag, FALSE)
        BY DEF panelKeys
      <4> QED BY <1>1, <4>1
    <3>5. ~panelKeys["scroll_to_playing"].optional
      <4>1. panelKeys["scroll_to_playing"] = Key(flag, TRUE)
        BY DEF panelKeys
      <4> QED BY <1>1, <4>1
    <3>6. ~panelKeys["cover_size"].optional
      <4>1. panelKeys["cover_size"] = Key(number(within(10000, 40000)), 20000)
        BY DEF panelKeys
      <4> QED BY <1>1, <4>1
    <3>7. ~panelKeys["col_info_w"].optional
      <4>1. panelKeys["col_info_w"] = Key(number(within(20000, 40000)), 24000)
        BY DEF panelKeys
      <4> QED BY <1>1, <4>1
    <3>8. ~panelKeys["col_gap"].optional
      <4>1. panelKeys["col_gap"] = Key(number(within(0, 2000)), 1200)
        BY DEF panelKeys
      <4> QED BY <1>1, <4>1
    <3>9. ~panelKeys["column_order"].optional
      <4>1. panelKeys["column_order"] = Key(order(ALL_COLUMNS), Columns)
        BY DEF panelKeys
      <4> QED BY <1>1, <4>1
    <3>10. ~panelKeys["cover_priority"].optional
      <4>1. panelKeys["cover_priority"] = Key(order(Range(CoverSources)), CoverSources)
        BY DEF panelKeys
      <4> QED BY <1>1, <4>1
    <3>11. ~panelKeys["cover_folder_names"].optional
      <4>1. panelKeys["cover_folder_names"] = Key(texts, <<"cover.jpg", "folder.jpg">>)
        BY DEF panelKeys
      <4> QED BY <1>1, <4>1
    <3>12. ~panelKeys["cover_online"].optional
      <4>1. panelKeys["cover_online"] = Key(flag, TRUE)
        BY DEF panelKeys
      <4> QED BY <1>1, <4>1
    <3> QED BY <3>1, <3>2, <3>3, <3>4, <3>5, <3>6, <3>7, <3>8, <3>9, <3>10, <3>11, <3>12
  <2>2. \A k \in DOMAIN common : ~common[k].optional
    BY DEF common, Key
  <2>3. \A k \in DOMAIN cached : ~cached[k].optional
    BY DEF cached, Key
  <2>4. \A k \in DOMAIN oscilloscopeKeys : ~oscilloscopeKeys[k].optional
    BY DEF oscilloscopeKeys, Key
  <2>5. \A k \in DOMAIN cacheKeys : ~cacheKeys[k].optional
    BY DEF cacheKeys, Key
  <2> QED BY <2>1, <2>2, <2>3, <2>4, <2>5
<1>3. \A k \in DOMAIN spectrogramKeys : ~spectrogramKeys[k].optional
  BY DEF spectrogramKeys, Key
<1>4. \A k \in DOMAIN spectrumKeys : ~spectrumKeys[k].optional
  BY DEF spectrumKeys, Key
<1>5. Sound([k \in Labels |-> Key(text, k)])
  BY <1>1, SettingsFileAssumption, TextOK DEF Sound, SpecOK
<1> QED BY <1>2, <1>3, <1>4, <1>5, SettingsFileAssumption, PanelOK, CommonOK, CachedOK,
           OscilloscopeOK, SpectrogramOK, SpectrumOK, CacheOK DEF Sound

\* A table of keys under a prefix, with the paths themselves.
PartOK(spec, first) ==
  /\ SpecOK(spec)
  /\ \A p \in DOMAIN spec : p \in Seq(Strings) /\ Len(p) \in 1 .. 3 /\ p[1] \in first
  /\ \A p \in DOMAIN spec : spec[p].optional => Len(p) = 3

LEMMA PanelTable ==
  /\ PartOK(panel_specs, DOMAIN panelKeys)
  /\ \A k \in DOMAIN panelKeys : <<k>> \in DOMAIN panel_specs /\ panel_specs[<<k>>] = panelKeys[k]
<1>1. PICK prefix : prefix = <<>>
  OBVIOUS
<1>2. prefix \in Seq(Strings) /\ Len(prefix) = 0
  BY <1>1, EmptySeq
<1>3. \A k : Append(prefix, k) = <<k>>
  BY <1>1, AppendedTuple
<1>4. PICK t : t = panel_specs
  OBVIOUS
<1>5. Under(prefix, panelKeys, t)
  BY <1>1, <1>2, <1>4, TablesSound, SectionSound, Zenon DEF panel_specs
<1>6. PartOK(t, DOMAIN panelKeys)
  <2>1. Len(prefix) + 1 = 1
    BY <1>2
  <2>2. ASSUME NEW p \in DOMAIN t
        PROVE  p \in Seq(Strings) /\ Len(p) = 1 /\ p[1] \in DOMAIN panelKeys /\ ~t[p].optional
    BY <1>5, <2>1 DEF Under
  <2> QED BY <1>5, <2>2 DEF PartOK, Under
<1>7. \A k \in DOMAIN panelKeys : <<k>> \in DOMAIN t /\ t[<<k>>] = panelKeys[k]
  BY <1>3, <1>5 DEF Under
<1> QED BY <1>4, <1>6, <1>7

LEMMA LabelTable == PartOK(info_label_specs, {"info_labels"})
<1>1. PICK prefix : prefix = <<"info_labels">>
  OBVIOUS
<1>2. prefix \in Seq(Strings) /\ Len(prefix) = 1 /\ prefix[1] = "info_labels"
  BY <1>1, SettingsFileAssumption, TuplesArePaths
<1>3. PICK labels : labels = [k \in Labels |-> Key(text, k)]
  OBVIOUS
<1>4. Sound(labels) /\ info_label_specs = Section(prefix, labels)
  BY <1>1, <1>3, TablesSound DEF info_label_specs
<1>5. PICK t : t = info_label_specs
  OBVIOUS
<1>6. Under(prefix, labels, t)
  BY <1>2, <1>4, <1>5, SectionSound, Zenon
<1>7. PartOK(t, {"info_labels"})
  BY <1>2, <1>6 DEF PartOK, Under
<1> QED BY <1>5, <1>7

\* The three types of the visualization, each with its table.
VizTable(spec, type, keys) ==
  /\ SpecOK(spec)
  /\ \A p \in DOMAIN spec :
       /\ p \in Seq(Strings) /\ Len(p) = 3 /\ p[1] = "visualization" /\ p[2] = type
       /\ ~spec[p].optional
  /\ \A k \in DOMAIN keys : /\ <<"visualization", type, k>> \in DOMAIN spec
                            /\ spec[<<"visualization", type, k>>] = keys[k]

LEMMA VizSection ==
  ASSUME NEW type \in {"oscilloscope", "spectrogram", "spectrum"}, NEW keys, Sound(keys)
  PROVE  VizTable(Section(<<"visualization", type>>, keys), type, keys)
<1>1. PICK prefix : prefix = <<"visualization", type>>
  OBVIOUS
<1>2. prefix \in Seq(Strings) /\ Len(prefix) = 2 /\ prefix[1] = "visualization" /\ prefix[2] = type
  BY <1>1, SettingsFileAssumption, TuplesArePaths
<1>3. \A k : Append(prefix, k) = <<"visualization", type, k>>
  BY <1>1, AppendedTuple
<1>4. PICK t : t = Section(prefix, keys)
  OBVIOUS
<1>5. Under(prefix, keys, t)
  BY <1>2, <1>4, SectionSound, Zenon
<1>6. VizTable(t, type, keys)
  BY <1>2, <1>3, <1>5 DEF Under, VizTable
<1> QED BY <1>1, <1>4, <1>6

LEMMA VizCacheTable ==
  LET spec == Section(<<"visualization">>, cacheKeys)
  IN /\ SpecOK(spec)
     /\ \A p \in DOMAIN spec : /\ p \in Seq(Strings) /\ Len(p) = 2 /\ p[1] = "visualization"
                               /\ ~spec[p].optional
<1>1. PICK prefix : prefix = <<"visualization">>
  OBVIOUS
<1>2. prefix \in Seq(Strings) /\ Len(prefix) = 1 /\ prefix[1] = "visualization"
  BY <1>1, SettingsFileAssumption, TuplesArePaths
<1>3. PICK t : t = Section(prefix, cacheKeys)
  OBVIOUS
<1>4. Under(prefix, cacheKeys, t)
  BY <1>2, <1>3, TablesSound, SectionSound, Zenon
<1>5. /\ SpecOK(t)
      /\ \A p \in DOMAIN t : p \in Seq(Strings) /\ Len(p) = 2 /\ p[1] = "visualization" /\ ~t[p].optional
  BY <1>2, <1>4 DEF Under
<1> QED BY <1>1, <1>3, <1>5

OscilloscopeAll == common ++ cached ++ oscilloscopeKeys

SpectrogramAll == common ++ cached ++ spectrogramKeys

SpectrumAll == common ++ spectrumKeys

LEMMA VisualizationTable ==
  /\ PartOK(visualization_specs, {"visualization"})
  /\ \A p \in DOMAIN visualization_specs : ~visualization_specs[p].optional
  /\ \A k \in DOMAIN OscilloscopeAll : /\ Oscilloscope(k) \in DOMAIN visualization_specs
                                       /\ visualization_specs[Oscilloscope(k)] = OscilloscopeAll[k]
  /\ \A k \in DOMAIN SpectrogramAll : /\ Spectrogram(k) \in DOMAIN visualization_specs
                                      /\ visualization_specs[Spectrogram(k)] = SpectrogramAll[k]
  /\ \A k \in DOMAIN SpectrumAll : /\ Spectrum(k) \in DOMAIN visualization_specs
                                   /\ visualization_specs[Spectrum(k)] = SpectrumAll[k]
<1>1. Sound(OscilloscopeAll) /\ Sound(SpectrogramAll) /\ Sound(SpectrumAll)
  <2>1. Sound(common ++ cached)
    BY TablesSound, MergedSound
  <2> QED BY <2>1, TablesSound, MergedSound DEF OscilloscopeAll, SpectrogramAll, SpectrumAll
<1>2. PICK a : a = oscilloscope_specs
  OBVIOUS
<1>3. PICK b : b = spectrogram_specs
  OBVIOUS
<1>4. PICK c : c = spectrum_specs
  OBVIOUS
<1>5. PICK d : d = Section(<<"visualization">>, cacheKeys)
  OBVIOUS
<1>6. /\ VizTable(a, "oscilloscope", OscilloscopeAll) /\ VizTable(b, "spectrogram", SpectrogramAll)
      /\ VizTable(c, "spectrum", SpectrumAll)
  <2>1. /\ a = Section(<<"visualization", "oscilloscope">>, OscilloscopeAll)
        /\ b = Section(<<"visualization", "spectrogram">>, SpectrogramAll)
        /\ c = Section(<<"visualization", "spectrum">>, SpectrumAll)
    BY <1>2, <1>3, <1>4
       DEF oscilloscope_specs, spectrogram_specs, spectrum_specs, OscilloscopeAll, SpectrogramAll, SpectrumAll
  <2> QED BY <1>1, <2>1, VizSection
<1>7. /\ SpecOK(d)
      /\ \A p \in DOMAIN d : p \in Seq(Strings) /\ Len(p) = 2 /\ p[1] = "visualization" /\ ~d[p].optional
  BY <1>5, VizCacheTable
<1>8. PICK m1 : m1 = a ++ b
  OBVIOUS
<1>9. PICK m2 : m2 = m1 ++ c
  OBVIOUS
<1>10. PICK m : m = m2 ++ d
  OBVIOUS
<1>11. visualization_specs = m
  BY <1>2, <1>3, <1>4, <1>5, <1>8, <1>9, <1>10 DEF visualization_specs
<1>12. /\ DOMAIN m1 = DOMAIN a \cup DOMAIN b
       /\ \A p \in DOMAIN a : m1[p] = a[p]
       /\ \A p \in DOMAIN b : m1[p] = b[p]
  <2>1. \A p \in DOMAIN a : p \notin DOMAIN b
    BY <1>6 DEF VizTable
  <2> QED BY <1>8, <2>1 DEF ++
<1>13. /\ DOMAIN m2 = DOMAIN m1 \cup DOMAIN c
       /\ \A p \in DOMAIN m1 : m2[p] = m1[p]
       /\ \A p \in DOMAIN c : m2[p] = c[p]
  <2>1. \A p \in DOMAIN m1 : p \notin DOMAIN c
    BY <1>6, <1>12 DEF VizTable
  <2> QED BY <1>9, <2>1 DEF ++
<1>14. /\ DOMAIN m = DOMAIN m2 \cup DOMAIN d
       /\ \A p \in DOMAIN m2 : m[p] = m2[p]
       /\ \A p \in DOMAIN d : m[p] = d[p]
  <2>1. \A p \in DOMAIN m2 : Len(p) = 3
    BY <1>6, <1>12, <1>13 DEF VizTable
  <2>2. \A p \in DOMAIN m2 : p \notin DOMAIN d
    BY <1>7, <2>1
  <2> QED BY <1>10, <2>2 DEF ++
<1>15. PartOK(m, {"visualization"}) /\ \A p \in DOMAIN m : ~m[p].optional
  BY <1>6, <1>7, <1>12, <1>13, <1>14 DEF VizTable, SpecOK, PartOK
<1>16. \A k \in DOMAIN OscilloscopeAll : Oscilloscope(k) \in DOMAIN m /\ m[Oscilloscope(k)] = OscilloscopeAll[k]
  <2>1. \A k \in DOMAIN OscilloscopeAll : Oscilloscope(k) \in DOMAIN a /\ a[Oscilloscope(k)] = OscilloscopeAll[k]
    BY <1>6 DEF VizTable, Oscilloscope
  <2> QED BY <1>12, <1>13, <1>14, <2>1
<1>17. \A k \in DOMAIN SpectrogramAll : Spectrogram(k) \in DOMAIN m /\ m[Spectrogram(k)] = SpectrogramAll[k]
  <2>1. \A k \in DOMAIN SpectrogramAll : Spectrogram(k) \in DOMAIN b /\ b[Spectrogram(k)] = SpectrogramAll[k]
    BY <1>6 DEF VizTable, Spectrogram
  <2> QED BY <1>12, <1>13, <1>14, <2>1
<1>18. \A k \in DOMAIN SpectrumAll : Spectrum(k) \in DOMAIN m /\ m[Spectrum(k)] = SpectrumAll[k]
  <2>1. \A k \in DOMAIN SpectrumAll : Spectrum(k) \in DOMAIN c /\ c[Spectrum(k)] = SpectrumAll[k]
    BY <1>6 DEF VizTable, Spectrum
  <2> QED BY <1>12, <1>13, <1>14, <2>1
<1> QED BY <1>11, <1>15, <1>16, <1>17, <1>18

-----------------------------------------------------------------------------
(* The columns, and all of settings.toml                                    *)

\* A row of the table of the columns.
RowOK(row) ==
  /\ row.priority \in Nat /\ row.min_width \in Nat /\ row.max_width \in Nat \cup {None}
  /\ row.max_width_percent \in within(1, 100) \cup {None} /\ row.visible \in BOOLEAN

LEMMA RowsOK == \A c \in DOMAIN default_columns : RowOK(default_columns[c])
<1>1. DOMAIN default_columns = {"now_playing", "track", "title", "artist", "album", "genre", "year", "format", "bitrate", "bit_depth", "sample_rate", "duration", "file_name", "file_path"}
  BY DEF default_columns
<1>2. RowOK(default_columns["now_playing"])
  <2>1. default_columns["now_playing"] = ColumnCfg(1, 2400, 3600, None, TRUE)
    BY DEF default_columns
  <2> QED BY <2>1, WithinIs DEF RowOK, ColumnCfg
<1>3. RowOK(default_columns["track"])
  <2>1. default_columns["track"] = ColumnCfg(3, 4400, 8400, None, TRUE)
    BY DEF default_columns
  <2> QED BY <2>1, WithinIs DEF RowOK, ColumnCfg
<1>4. RowOK(default_columns["title"])
  <2>1. default_columns["title"] = ColumnCfg(22, 12000, None, 60, TRUE)
    BY DEF default_columns
  <2> QED BY <2>1, WithinIs DEF RowOK, ColumnCfg
<1>5. RowOK(default_columns["artist"])
  <2>1. default_columns["artist"] = ColumnCfg(15, 9000, None, 45, TRUE)
    BY DEF default_columns
  <2> QED BY <2>1, WithinIs DEF RowOK, ColumnCfg
<1>6. RowOK(default_columns["album"])
  <2>1. default_columns["album"] = ColumnCfg(15, 9000, None, 45, TRUE)
    BY DEF default_columns
  <2> QED BY <2>1, WithinIs DEF RowOK, ColumnCfg
<1>7. RowOK(default_columns["genre"])
  <2>1. default_columns["genre"] = ColumnCfg(5, 8000, None, 30, FALSE)
    BY DEF default_columns
  <2> QED BY <2>1, WithinIs DEF RowOK, ColumnCfg
<1>8. RowOK(default_columns["year"])
  <2>1. default_columns["year"] = ColumnCfg(4, 4400, 7200, None, FALSE)
    BY DEF default_columns
  <2> QED BY <2>1, WithinIs DEF RowOK, ColumnCfg
<1>9. RowOK(default_columns["format"])
  <2>1. default_columns["format"] = ColumnCfg(4, 5200, 9600, None, FALSE)
    BY DEF default_columns
  <2> QED BY <2>1, WithinIs DEF RowOK, ColumnCfg
<1>10. RowOK(default_columns["bitrate"])
  <2>1. default_columns["bitrate"] = ColumnCfg(4, 7000, 13000, None, FALSE)
    BY DEF default_columns
  <2> QED BY <2>1, WithinIs DEF RowOK, ColumnCfg
<1>11. RowOK(default_columns["bit_depth"])
  <2>1. default_columns["bit_depth"] = ColumnCfg(4, 6400, 11000, None, FALSE)
    BY DEF default_columns
  <2> QED BY <2>1, WithinIs DEF RowOK, ColumnCfg
<1>12. RowOK(default_columns["sample_rate"])
  <2>1. default_columns["sample_rate"] = ColumnCfg(5, 9000, 14000, None, FALSE)
    BY DEF default_columns
  <2> QED BY <2>1, WithinIs DEF RowOK, ColumnCfg
<1>13. RowOK(default_columns["duration"])
  <2>1. default_columns["duration"] = ColumnCfg(5, 5600, 10000, None, TRUE)
    BY DEF default_columns
  <2> QED BY <2>1, WithinIs DEF RowOK, ColumnCfg
<1>14. RowOK(default_columns["file_name"])
  <2>1. default_columns["file_name"] = ColumnCfg(8, 11000, None, 60, FALSE)
    BY DEF default_columns
  <2> QED BY <2>1, WithinIs DEF RowOK, ColumnCfg
<1>15. RowOK(default_columns["file_path"])
  <2>1. default_columns["file_path"] = ColumnCfg(4, 13000, None, 70, FALSE)
    BY DEF default_columns
  <2> QED BY <2>1, WithinIs DEF RowOK, ColumnCfg
<1> QED BY <1>1, <1>2, <1>3, <1>4, <1>5, <1>6, <1>7, <1>8, <1>9, <1>10, <1>11, <1>12, <1>13, <1>14, <1>15, Zenon

LEMMA ColumnsOK ==
  \A c \in ALL_COLUMNS :
    /\ SpecOK(columnKeys(c))
    /\ \A k \in DOMAIN columnKeys(c) : columnKeys(c)[k].kind = flag => ~columnKeys(c)[k].optional
<1> SUFFICES ASSUME NEW c \in ALL_COLUMNS
             PROVE  /\ SpecOK(columnKeys(c))
                    /\ \A k \in DOMAIN columnKeys(c) :
                         columnKeys(c)[k].kind = flag => ~columnKeys(c)[k].optional
  OBVIOUS
<1>1. PICK row : row = default_columns[c]
  OBVIOUS
<1>2. RowOK(row) /\ c \in Strings
  BY <1>1, RowsOK, SettingsFileAssumption, SourcesAre DEF ALL_COLUMNS
<1>3. PICK keys : keys = columnKeys(c)
  OBVIOUS
<1>4. PICK kind : kind = IF c = "now_playing" THEN "NowPlaying" ELSE "Data"
  OBVIOUS
<1>5. /\ DOMAIN keys = {"title", "priority", "min_width", "max_width", "max_width_percent", "visible",
                        "column_type"}
      /\ keys["title"] = Key(text, c) /\ keys["priority"] = Key(number(Nat), row.priority)
      /\ keys["min_width"] = Key(number(Nat), row.min_width) /\ keys["max_width"] = Optional(number(Nat), row.max_width)
      /\ keys["max_width_percent"] = Optional(number(within(1, 100)), row.max_width_percent)
      /\ keys["visible"] = Key(flag, row.visible)
      /\ keys["column_type"] = Optional(ColumnKind, kind)
  BY <1>1, <1>3, <1>4 DEF columnKeys
<1>6. KeyOK(keys["title"]) /\ KeyOK(keys["visible"])
  BY <1>2, <1>5, TextOK, FlagOK DEF RowOK
<1>7. KeyOK(keys["priority"]) /\ KeyOK(keys["min_width"])
  BY <1>2, <1>5, NumberNat DEF RowOK
<1>8. KeyOK(keys["max_width"])
  BY <1>2, <1>5, NumberOK DEF RowOK
<1>9. KeyOK(keys["max_width_percent"])
  BY <1>2, <1>5, WithinIs, NumberOK DEF RowOK
<1>10. KeyOK(keys["column_type"])
  BY <1>4, <1>5, ColumnKindOK
<1>11. SpecOK(keys)
  BY <1>5, <1>6, <1>7, <1>8, <1>9, <1>10, Zenon DEF SpecOK
<1>12. \A k \in DOMAIN keys : keys[k].kind = flag => ~keys[k].optional
  BY <1>5 DEF Key, Optional, text, number, flag, ColumnKind, word
<1> QED BY <1>3, <1>11, <1>12

LEMMA ColumnTable ==
  /\ PartOK(column_specs, {"columns"})
  /\ \A p \in DOMAIN column_specs : Len(p) = 3
  /\ \A p \in DOMAIN column_specs : column_specs[p].kind = flag => ~column_specs[p].optional
<1>1. PICK t : t = column_specs
  OBVIOUS
<1>2. \A p \in DOMAIN t : \E c \in ALL_COLUMNS : \E k \in DOMAIN columnKeys(c) : p = Column(c, k)
  BY <1>1 DEF column_specs
<1>3. \A p \in DOMAIN t : t[p] = columnKeys(p[2])[p[3]]
  BY <1>1 DEF column_specs
<1>4. ASSUME NEW p \in DOMAIN t
      PROVE  /\ p \in Seq(Strings) /\ Len(p) = 3 /\ p[1] = "columns"
             /\ KeyOK(t[p]) /\ (t[p].kind = flag => ~t[p].optional)
  <2>1. PICK c \in ALL_COLUMNS : \E k \in DOMAIN columnKeys(c) : p = Column(c, k)
    BY <1>2
  <2>2. PICK k \in DOMAIN columnKeys(c) : p = Column(c, k)
    BY <2>1
  <2>3. p[1] = "columns" /\ p[2] = c /\ p[3] = k /\ Len(p) = 3
    BY <2>2 DEF Column
  <2>4. p \in Seq(Strings)
    <3>1. c \in Strings /\ k \in Strings /\ "columns" \in Strings
      BY SettingsFileAssumption, SourcesAre DEF ALL_COLUMNS
    <3> QED BY <2>2, <3>1, TuplesArePaths DEF Column
  <2>5. KeyOK(columnKeys(c)[k]) /\ (columnKeys(c)[k].kind = flag => ~columnKeys(c)[k].optional)
    BY ColumnsOK DEF SpecOK
  <2> QED BY <1>3, <2>3, <2>4, <2>5
<1>5. PartOK(t, {"columns"})
  BY <1>4 DEF PartOK, SpecOK
<1> QED BY <1>1, <1>4, <1>5

LEMMA SettingsTable ==
  /\ DOMAIN settings_spec = DOMAIN panel_specs \cup DOMAIN column_specs
                              \cup DOMAIN info_label_specs \cup DOMAIN visualization_specs
  /\ \A p \in DOMAIN panel_specs : settings_spec[p] = panel_specs[p]
  /\ \A p \in DOMAIN column_specs : settings_spec[p] = column_specs[p]
  /\ \A p \in DOMAIN info_label_specs : settings_spec[p] = info_label_specs[p]
  /\ \A p \in DOMAIN visualization_specs : settings_spec[p] = visualization_specs[p]
<1>1. PICK a : a = panel_specs
  OBVIOUS
<1>2. PICK b : b = column_specs
  OBVIOUS
<1>3. PICK c : c = info_label_specs
  OBVIOUS
<1>4. PICK d : d = visualization_specs
  OBVIOUS
<1>5. PICK m1 : m1 = a ++ b
  OBVIOUS
<1>6. PICK m2 : m2 = m1 ++ c
  OBVIOUS
<1>7. PICK m : m = m2 ++ d
  OBVIOUS
<1>8. settings_spec = m
  BY <1>1, <1>2, <1>3, <1>4, <1>5, <1>6, <1>7 DEF settings_spec
<1>9. "columns" \notin DOMAIN panelKeys /\ "info_labels" \notin DOMAIN panelKeys
      /\ "visualization" \notin DOMAIN panelKeys
  BY DEF panelKeys
<1>10. /\ \A p \in DOMAIN a : p[1] \in DOMAIN panelKeys
       /\ \A p \in DOMAIN b : p[1] = "columns"
       /\ \A p \in DOMAIN c : p[1] = "info_labels"
       /\ \A p \in DOMAIN d : p[1] = "visualization"
  BY <1>1, <1>2, <1>3, <1>4, PanelTable, ColumnTable, LabelTable, VisualizationTable DEF PartOK
<1>11. /\ DOMAIN m1 = DOMAIN a \cup DOMAIN b
       /\ \A p \in DOMAIN a : m1[p] = a[p]
       /\ \A p \in DOMAIN b : m1[p] = b[p]
  <2>1. \A p \in DOMAIN a : p \notin DOMAIN b
    BY <1>9, <1>10
  <2> QED BY <1>5, <2>1 DEF ++
<1>12. /\ DOMAIN m2 = DOMAIN m1 \cup DOMAIN c
       /\ \A p \in DOMAIN m1 : m2[p] = m1[p]
       /\ \A p \in DOMAIN c : m2[p] = c[p]
  <2>1. \A p \in DOMAIN m1 : p \notin DOMAIN c
    BY <1>9, <1>10, <1>11
  <2> QED BY <1>6, <2>1 DEF ++
<1>13. /\ DOMAIN m = DOMAIN m2 \cup DOMAIN d
       /\ \A p \in DOMAIN m2 : m[p] = m2[p]
       /\ \A p \in DOMAIN d : m[p] = d[p]
  <2>1. \A p \in DOMAIN m2 : p \notin DOMAIN d
    BY <1>9, <1>10, <1>11, <1>12
  <2> QED BY <1>7, <2>1 DEF ++
<1>14. DOMAIN m = DOMAIN a \cup DOMAIN b \cup DOMAIN c \cup DOMAIN d
  BY <1>11, <1>12, <1>13
<1>15. /\ \A p \in DOMAIN a : m[p] = a[p]
       /\ \A p \in DOMAIN b : m[p] = b[p]
       /\ \A p \in DOMAIN c : m[p] = c[p]
       /\ \A p \in DOMAIN d : m[p] = d[p]
  BY <1>11, <1>12, <1>13
<1> QED BY <1>1, <1>2, <1>3, <1>4, <1>8, <1>14, <1>15

LEMMA SettingsSpecOK ==
  /\ SpecOK(settings_spec) /\ DOMAIN settings_spec \subseteq Seq(Strings) /\ Leaves(settings_spec)
  /\ \A p \in DOMAIN settings_spec : Len(p) \in 1 .. 3 /\ p[1] # "playback"
<1>1. ASSUME NEW p \in DOMAIN settings_spec
      PROVE  /\ KeyOK(settings_spec[p]) /\ p \in Seq(Strings) /\ Len(p) \in 1 .. 3
             /\ settings_spec[p].optional => Len(p) = 3
  BY PanelTable, ColumnTable, LabelTable, VisualizationTable, SettingsTable DEF PartOK, SpecOK
<1>2. Leaves(settings_spec)
  <2> SUFFICES ASSUME NEW p \in DOMAIN settings_spec, NEW q \in DOMAIN settings_spec,
                      settings_spec[p].optional, IsStrictPrefix(p, q)
               PROVE  FALSE
    BY DEF Leaves
  <2>1. /\ p \in Seq(Strings) /\ q \in Seq(Strings) /\ Len(p) = 3 /\ Len(q) \in 1 .. 3
    BY <1>1
  <2> QED BY <2>1, PrefixIs
<1> QED BY <1>1, <1>2, SettingsPaths DEF SpecOK

LEMMA ModeSpecOK ==
  /\ SpecOK(modeSpec) /\ DOMAIN modeSpec \subseteq Seq(Strings) /\ Leaves(modeSpec)
  /\ \A p \in DOMAIN modeSpec :
       p[1] = "playback" /\ p[2] \in {"compatible", "optimal", "strict"} /\ Len(p) = 3
<1>1. ASSUME NEW p \in DOMAIN modeSpec
      PROVE  /\ KeyOK(modeSpec[p])
             /\ \E m \in {"compatible", "optimal", "strict"}, k \in Strings : p = Option(m, k)
  <2>1. CASE p[2] = "compatible" /\ p[3] \in DOMAIN compatibleKeys /\ p = Option("compatible", p[3])
    BY <2>1, ModePaths, ModeNames, CompatibleOK DEF SpecOK
  <2>2. CASE p[2] = "optimal" /\ p[3] \in DOMAIN optimalKeys /\ p = Option("optimal", p[3])
    BY <2>2, ModePaths, ModeNames, OptimalOK DEF SpecOK
  <2>3. CASE p[2] = "strict" /\ p[3] \in DOMAIN strictKeys /\ p = Option("strict", p[3])
    BY <2>3, ModePaths, ModeNames, StrictOK DEF SpecOK
  <2> QED BY <2>1, <2>2, <2>3, ModePaths
<1>2. \A m \in {"compatible", "optimal", "strict"}, k \in Strings :
        /\ Option(m, k) \in Seq(Strings) /\ Len(Option(m, k)) = 3
        /\ Option(m, k)[1] = "playback" /\ Option(m, k)[2] = m
  BY ModeNames, TuplesArePaths DEF Option
<1>3. \A p \in DOMAIN modeSpec :
        /\ p \in Seq(Strings) /\ Len(p) = 3 /\ p[1] = "playback"
        /\ p[2] \in {"compatible", "optimal", "strict"}
  BY <1>1, <1>2
<1>4. Leaves(modeSpec)
  <2> SUFFICES ASSUME NEW p \in DOMAIN modeSpec, NEW q \in DOMAIN modeSpec, IsStrictPrefix(p, q)
               PROVE  FALSE
    BY DEF Leaves
  <2>1. p \in Seq(Strings) /\ q \in Seq(Strings) /\ Len(p) = 3 /\ Len(q) = 3
    BY <1>3
  <2> QED BY <2>1, PrefixIs
<1> QED BY <1>1, <1>3, <1>4 DEF SpecOK

-----------------------------------------------------------------------------
(* What the settings hold, and what is read of them                         *)

\* The entries of devices, the options of the modes, and all settings.
DevicesFit(f) == DOMAIN f \subseteq Strings \ Blank /\ \A id \in DOMAIN f : f[id] \in BOOLEAN

ModesFit(w) ==
  DOMAIN w = DOMAIN modeSpec \cup {Devices} /\ AllFit(modeSpec, w) /\ DevicesFit(w[Devices])

SettingsFit(v) ==
  /\ DOMAIN v = DOMAIN settings_spec \cup DOMAIN modeSpec \cup {Devices}
  /\ AllFit(settings_spec, v) /\ AllFit(modeSpec, v) /\ DevicesFit(v[Devices])

LEMMA PathsApart ==
  /\ Devices \in Seq(Strings) /\ Len(Devices) = 2 /\ Devices[1] = "playback" /\ Devices[2] = "devices"
  /\ Devices \notin DOMAIN modeSpec /\ Devices \notin DOMAIN settings_spec
  /\ \A p \in DOMAIN modeSpec : p \notin DOMAIN settings_spec
BY ModeNames, TuplesArePaths, ModeSpecOK, SettingsSpecOK DEF Devices, Playback

LEMMA DefaultModesFit == ModesFit(modeDefaults)
<1>1. modeDefaults[Devices] = <<>>
  BY PathsApart DEF modeDefaults, ++, Single
<1>2. DevicesFit(modeDefaults[Devices])
  <2>1. DOMAIN <<>> = {}
    OBVIOUS
  <2> QED BY <1>1, <2>1 DEF DevicesFit
<1>3. AllFit(modeSpec, modeDefaults)
  BY DefaultsOfModes, ModeSpecOK DEF AllFit, SpecOK, KeyOK
<1> QED BY <1>2, <1>3, DefaultsOfModes DEF ModesFit

\* What the other keys and the options of the modes make together.
LEMMA JoinedFits ==
  ASSUME NEW f, DOMAIN f = DOMAIN settings_spec, AllFit(settings_spec, f), NEW w, ModesFit(w)
  PROVE  /\ SettingsFit(f ++ w)
         /\ \A p \in DOMAIN settings_spec : (f ++ w)[p] = f[p]
         /\ \A p \in DOMAIN modeSpec \cup {Devices} : (f ++ w)[p] = w[p]
BY PathsApart DEF ModesFit, ++, AllFit, SettingsFit

LEMMA DefaultSettingsFit == SettingsFit(default_settings)
BY SettingsSpecOK, DefaultModesFit, JoinedFits DEF AllFit, SpecOK, KeyOK, default_settings

\* A table of keys that hold something, one of them changed.
LEMMA ChangedFits ==
  ASSUME NEW spec, NEW v, AllFit(spec, v), NEW key \in DOMAIN spec, NEW w,
         Fits(spec[key], w[key]), \A p \in DOMAIN spec : p # key => w[p] = v[p]
  PROVE  AllFit(spec, w)
BY DEF AllFit

LEMMA RestrictIs ==
  ASSUME NEW doc, NEW paths, paths \subseteq DOMAIN doc
  PROVE  /\ DOMAIN Restrict(doc, paths) = paths
         /\ \A p \in paths : Restrict(doc, paths)[p] = doc[p]
         /\ DocOK(doc) => DocOK(Restrict(doc, paths))
BY DEF Restrict, DocOK

\* The names under a table are strings.
LEMMA ChildrenAre ==
  ASSUME NEW doc, DocOK(doc), NEW path \in Seq(Strings), NEW e \in Children(doc, path)
  PROVE  \E p \in DOMAIN doc :
           /\ p \in Seq(Strings) /\ Len(path) < Len(p) /\ \A i \in 1 .. Len(path) : p[i] = path[i]
           /\ e = SubSeq(p, 1, Len(path) + 1)
           /\ e \in Seq(Strings) /\ Len(e) = Len(path) + 1
           /\ \A i \in 1 .. Len(path) + 1 : e[i] = p[i]
           /\ Last(e) = p[Len(path) + 1] /\ Last(e) \in Strings
<1>1. PICK p \in DOMAIN doc : IsStrictPrefix(path, p) /\ e = SubSeq(p, 1, Len(path) + 1)
  BY DEF Children
<1>2. p \in Seq(Strings) /\ Len(path) < Len(p) /\ \A i \in 1 .. Len(path) : p[i] = path[i]
  <2>1. p \in Seq(Strings)
    BY DEF DocOK
  <2> QED BY <1>1, <2>1, PrefixIs
<1>3. PICK n \in Nat : n = Len(path) + 1
  OBVIOUS
<1>4. 1 <= n + 1 /\ n <= Len(p) /\ n - 1 + 1 = n
  BY <1>2, <1>3
<1>5. /\ e \in Seq(Strings) /\ Len(e) = n
      /\ \A i \in 1 .. n : e[i] = p[i]
  BY <1>1, <1>2, <1>3, <1>4, PartIs
<1>6. Last(e) = p[n] /\ p[n] \in Strings
  <2>1. n \in 1 .. n /\ n \in 1 .. Len(p)
    BY <1>3, <1>4
  <2>2. p[n] \in Strings
    BY <1>2, <2>1
  <2>3. Last(e) = e[n]
    BY <1>5 DEF Last
  <2> QED BY <1>5, <2>1, <2>2, <2>3
<1> QED BY <1>1, <1>2, <1>3, <1>5, <1>6

LEMMA ParsedDevicesFit ==
  ASSUME NEW doc, DocOK(doc) PROVE DevicesFit(parse_devices(doc).value)
<1>1. PICK ids : ids = {Last(e) : e \in Children(doc, Devices)}
  OBVIOUS
<1>2. ids \subseteq Strings
  <2>1. \A e \in Children(doc, Devices) : Last(e) \in Strings
    BY PathsApart, ChildrenAre
  <2> QED BY <1>1, <2>1
<1>3. PICK f : f = parse_devices(doc).value
  OBVIOUS
<1>4. f = [id \in ids \ Blank |-> lookup(doc, Dop(id)) # Bool(FALSE)]
  BY <1>1, <1>3 DEF parse_devices
<1>5. DevicesFit(f)
  BY <1>2, <1>4 DEF DevicesFit
<1> QED BY <1>3, <1>5

-----------------------------------------------------------------------------
(* What is read of settings.toml fits                                       *)

\* A key with a default that is a value holds one.
LEMMA HoldsOne ==
  ASSUME NEW key, NEW v, Fits(key, v), key.default # None PROVE v \in Holds(key.kind)
BY DEF Fits

LEMMA FitReadable ==
  ASSUME NEW w, AllFit(modeSpec, w), DOMAIN modeSpec \subseteq DOMAIN w, NEW m \in Own
  PROVE  Readable(w, m)
<1>1. /\ Fits(Optional(BufferMs, 1500), w[Buffer(m)]) /\ Fits(Optional(DeviceBuffer, 40), w[OfDevice(m)])
      /\ Buffer(m) \in DOMAIN w /\ OfDevice(m) \in DOMAIN w
  BY BufferKeys DEF AllFit
<1>2. 1500 # None /\ 40 # None
  BY KeysAssumption
<1>3. /\ Optional(BufferMs, 1500).default = 1500 /\ Optional(BufferMs, 1500).kind = BufferMs
      /\ Optional(DeviceBuffer, 40).default = 40 /\ Optional(DeviceBuffer, 40).kind = DeviceBuffer
  BY DEF Optional
<1>4. w[Buffer(m)] \in Holds(BufferMs) /\ w[OfDevice(m)] \in Holds(DeviceBuffer)
  BY <1>1, <1>2, <1>3, HoldsOne
<1>5. Holds(BufferMs) = BufferMs.range /\ Holds(DeviceBuffer) = DeviceBuffer.range
  BY DEF Holds, BufferMs, DeviceBuffer, integer
<1> QED BY <1>1, <1>4, <1>5 DEF Readable

\* One option changed to what it may hold.
LEMMA OptionFits ==
  ASSUME NEW v, ModesFit(v), NEW key \in DOMAIN modeSpec, NEW w, DOMAIN w = DOMAIN v,
         Fits(modeSpec[key], w[key]), \A p \in DOMAIN v : p # key => w[p] = v[p]
  PROVE  ModesFit(w)
BY ChangedFits, PathsApart DEF ModesFit

LEMMA MigratedFits ==
  ASSUME NEW loaded, ModesFit(loaded.value)
  PROVE  ModesFit(migrate_legacy_compatible_device(loaded).value)
<1>1. PICK v : v = loaded.value
  OBVIOUS
<1>2. PICK w : w = migrate_legacy_compatible_device(loaded).value
  OBVIOUS
<1>3. w = v \/ w = [v EXCEPT ![Compatible("device")] = None]
  BY <1>1, <1>2 DEF migrate_legacy_compatible_device, Corrected
<1>4. ASSUME w = [v EXCEPT ![Compatible("device")] = None] PROVE ModesFit(w)
  <2>1. DOMAIN w = DOMAIN v /\ \A p \in DOMAIN v : p # Compatible("device") => w[p] = v[p]
    BY <1>4
  <2>2. Compatible("device") \in DOMAIN v
    BY <1>1, DeviceKey DEF ModesFit
  <2>3. w[Compatible("device")] = None
    BY <1>4, <2>2
  <2>4. Fits(modeSpec[Compatible("device")], w[Compatible("device")])
    BY <2>3, DeviceKey, FitsIs
  <2> QED BY <1>1, <2>1, <2>4, DeviceKey, OptionFits
<1> QED BY <1>1, <1>2, <1>3, <1>4

LEMMA ReconciledFits ==
  ASSUME NEW loaded, ModesFit(loaded.value), NEW mode \in Own
  PROVE  ModesFit(reconcile_device_buffer(loaded, mode).value)
<1>1. PICK v : v = loaded.value
  OBVIOUS
<1>2. PICK w : w = reconcile_device_buffer(loaded, mode).value
  OBVIOUS
<1>3. Readable(v, mode)
  BY <1>1, FitReadable DEF ModesFit
<1>4. /\ DOMAIN w = DOMAIN v
      /\ \A p \in DOMAIN w : p # OfDevice(mode) => w[p] = v[p]
      /\ w[OfDevice(mode)] \in DeviceBuffer.range
  BY <1>1, <1>2, <1>3, ReconcileIs
<1>5. Fits(modeSpec[OfDevice(mode)], w[OfDevice(mode)])
  <2>1. Holds(DeviceBuffer) = DeviceBuffer.range
    BY DEF Holds, DeviceBuffer, integer
  <2> QED BY <1>4, <2>1, BufferKeys, FitsIs
<1>6. OfDevice(mode) \in DOMAIN modeSpec
  BY BufferKeys
<1>7. ModesFit(w)
  BY <1>1, <1>4, <1>5, <1>6, OptionFits
<1> QED BY <1>2, <1>7

LEMMA LoadedModesFit ==
  ASSUME NEW doc, DocOK(doc) PROVE ModesFit(load_mode_settings(doc).value)
<1>1. PICK part : part = Restrict(doc, DOMAIN doc \cap DOMAIN modeSpec)
  OBVIOUS
<1>2. DocOK(part)
  BY <1>1, RestrictIs
<1>3. PICK modes : modes = walk(part, modeSpec, modeDefaults)
  OBVIOUS
<1>4. DOMAIN modes.value = DOMAIN modeSpec /\ AllFit(modeSpec, modes.value)
  <2>1. DOMAIN modes.value = DOMAIN modeSpec
    BY <1>3, WalkDomain
  <2>2. AllFit(modeSpec, modes.value)
    BY <1>2, <1>3, WalkFits, ModeSpecOK, DefaultsOfModes
  <2> QED BY <2>1, <2>2
<1>5. PICK devices : devices = parse_devices(doc)
  OBVIOUS
<1>6. DevicesFit(devices.value)
  BY <1>5, ParsedDevicesFit
<1>7. PICK tables : tables = {path \in DOMAIN modeSpec : lookup(doc, path) = Table /\ path \in DOMAIN modeSpec}
  OBVIOUS
<1>8. PICK read : read = [value |-> modes.value ++ Single(Devices, devices.value),
                          notes |-> modes.notes \cup devices.notes
                                    \cup {Note(path, "invalid") : path \in tables}
                                    \cup {Note(path, "unknown") : path \in Unknown(doc)}]
  OBVIOUS
<1>9. PICK migrated : migrated = migrate_legacy_compatible_device(read)
  OBVIOUS
<1>10. PICK one : one = reconcile_device_buffer(migrated, "optimal")
  OBVIOUS
<1>11. PICK both : both = reconcile_device_buffer(one, "strict")
  OBVIOUS
<1>12. load_mode_settings(doc).value \in {modeDefaults, both.value}
  BY <1>1, <1>3, <1>5, <1>7, <1>8, <1>9, <1>10, <1>11 DEF load_mode_settings, Unrecognised
<1>13. ModesFit(read.value)
  BY <1>4, <1>6, <1>8, PathsApart DEF ++, Single, AllFit, ModesFit
<1>14. "optimal" \in Own /\ "strict" \in Own
  BY DEF Own
<1>15. ModesFit(both.value)
  BY <1>9, <1>10, <1>11, <1>13, <1>14, MigratedFits, ReconciledFits
<1> QED BY <1>12, <1>15, DefaultModesFit

\* An order put in place.
LEMMA OrderFits ==
  ASSUME NEW v, SettingsFit(v), NEW key, NEW all,
         (key = ColumnOrder /\ all = Columns) \/ (key = CoverPriority /\ all = CoverSources),
         NEW w, DOMAIN w = DOMAIN v, \A p \in DOMAIN v : p # key => w[p] = v[p], Orders(w[key], all)
  PROVE  SettingsFit(w)
<1>1. /\ DOMAIN v = DOMAIN settings_spec \cup DOMAIN modeSpec \cup {Devices}
      /\ AllFit(settings_spec, v) /\ AllFit(modeSpec, v) /\ DevicesFit(v[Devices])
  BY DEF SettingsFit
<1>2. key \in DOMAIN settings_spec /\ settings_spec[key] = OrderOf(all) /\ key[1] # "playback"
  BY SettingsPaths
<1>3. w[key] \in Holds(order(Range(all)))
  BY HoldsOf DEF Orders
<1>4. Fits(settings_spec[key], w[key])
  BY <1>2, <1>3, FitsIs DEF OrderOf
<1>5. AllFit(settings_spec, w)
  BY <1>1, <1>2, <1>4, ChangedFits
<1>6. AllFit(modeSpec, w) /\ w[Devices] = v[Devices]
  BY <1>1, <1>2, ModeSpecOK, PathsApart DEF AllFit
<1> QED BY <1>1, <1>5, <1>6 DEF SettingsFit

LEMMA AdjustedFits ==
  ASSUME NEW loaded, SettingsFit(loaded.value), NEW key, NEW all,
         (key = ColumnOrder /\ all = Columns) \/ (key = CoverPriority /\ all = CoverSources)
  PROVE  SettingsFit(adjust_order(loaded, key, all).value)
<1>1. PICK v : v = loaded.value
  OBVIOUS
<1>2. PICK w : w = adjust_order(loaded, key, all).value
  OBVIOUS
<1>3. /\ DOMAIN v = DOMAIN settings_spec \cup DOMAIN modeSpec \cup {Devices}
      /\ AllFit(settings_spec, v)
  BY <1>1 DEF SettingsFit
<1>4. key \in DOMAIN settings_spec /\ settings_spec[key] = OrderOf(all) /\ all \in Seq(Strings)
  BY SettingsPaths, SourcesAre
<1>5. v[key] \in Holds(order(Range(all)))
  <2>1. Fits(Key(order(Range(all)), all), v[key])
    BY <1>3, <1>4 DEF AllFit, OrderOf
  <2> QED BY <2>1, FitsIs
<1>6. v[key] \in Seq(Strings) /\ Range(v[key]) \subseteq Range(all)
  BY <1>5, HoldsOf
<1>7. /\ DOMAIN w = DOMAIN v
      /\ \A p \in DOMAIN w : p # key => w[p] = v[p]
      /\ Orders(w[key], all)
  BY <1>1, <1>2, <1>3, <1>4, <1>6, AdjustedOrder
<1>8. SettingsFit(w)
  BY <1>1, <1>7, OrderFits
<1> QED BY <1>2, <1>8

LEMMA ParsedSettingsFit ==
  ASSUME NEW seen, seen.read = "Parsed" => DocOK(seen.doc)
  PROVE  SettingsFit(parse_settings(seen).value)
<1>1. CASE seen.read # "Parsed"
  <2>1. parse_settings(seen).value = default_settings
    BY <1>1 DEF parse_settings
  <2> QED BY <2>1, DefaultSettingsFit
<1>2. CASE seen.read = "Parsed"
  <2>1. PICK others : others = {path \in DOMAIN seen.doc : Head(path) # "playback"}
    OBVIOUS
  <2>2. PICK modes : modes = load_mode_settings(seen.doc)
    OBVIOUS
  <2>3. PICK walked : walked = walk(Restrict(seen.doc, others), settings_spec, default_settings)
    OBVIOUS
  <2>4. PICK joined : joined = [value |-> walked.value ++ modes.value, notes |-> walked.notes \cup modes.notes]
    OBVIOUS
  <2>5. parse_settings(seen).value = adjust_cover_priority(adjust_column_order(joined)).value
    BY <1>2, <2>1, <2>2, <2>3, <2>4 DEF parse_settings
  <2>6. ModesFit(modes.value)
    BY <1>2, <2>2, LoadedModesFit
  <2>7. DOMAIN walked.value = DOMAIN settings_spec /\ AllFit(settings_spec, walked.value)
    <3>1. DocOK(Restrict(seen.doc, others))
      BY <1>2, <2>1, RestrictIs
    <3>2. DOMAIN walked.value = DOMAIN settings_spec
      BY <2>3, WalkDomain
    <3>3. AllFit(settings_spec, walked.value)
      BY <2>3, <3>1, WalkFits, SettingsSpecOK, DefaultSettingsOK
    <3> QED BY <3>2, <3>3
  <2>8. SettingsFit(joined.value)
    <3>1. joined.value = walked.value ++ modes.value
      BY <2>4
    <3> QED BY <2>6, <2>7, <3>1, JoinedFits
  <2>9. PICK columns : columns = adjust_column_order(joined)
    OBVIOUS
  <2>10. SettingsFit(columns.value)
    <3>1. columns = adjust_order(joined, ColumnOrder, Columns)
      BY <2>9 DEF adjust_column_order, ColumnOrder
    <3> QED BY <2>8, <3>1, AdjustedFits
  <2>11. adjust_cover_priority(columns) = adjust_order(columns, CoverPriority, CoverSources)
    BY DEF adjust_cover_priority, CoverPriority
  <2> QED BY <2>5, <2>9, <2>10, <2>11, AdjustedFits
<1> QED BY <1>1, <1>2

-----------------------------------------------------------------------------
(* What is written of the settings                                          *)

Schema == Playback("schema")

Loud(v) == {id \in DOMAIN v[Devices] : ~v[Devices][id]}

\* A document of the settings v: the other keys, the options, the version and
\* the devices that do not take DoP.
Saves(doc, v) ==
  /\ DOMAIN doc = DOMAIN Written(settings_spec, v) \cup DOMAIN Written(modeSpec, v)
                    \cup {Schema} \cup {Dop(id) : id \in Loud(v)}
  /\ \A p \in DOMAIN Written(settings_spec, v) : doc[p] = Written(settings_spec, v)[p]
  /\ \A p \in DOMAIN Written(modeSpec, v) : doc[p] = Written(modeSpec, v)[p]
  /\ doc[Schema] = Whole(2)
  /\ \A id \in Loud(v) : doc[Dop(id)] = Bool(FALSE)

LEMMA WrittenIs ==
  ASSUME NEW spec, NEW v
  PROVE  /\ DOMAIN Written(spec, v) = {p \in DOMAIN spec : v[p] # None}
         /\ \A p \in DOMAIN Written(spec, v) : Written(spec, v)[p] = Raw(spec[p].kind, v[p])
BY DEF Written

\* The parts of the document by their paths.
LEMMA PartsApart ==
  /\ Schema \in Seq(Strings) /\ Len(Schema) = 2 /\ Schema[1] = "playback" /\ Schema[2] = "schema"
  /\ \A id \in Strings : /\ Dop(id) \in Seq(Strings) /\ Len(Dop(id)) = 4
                         /\ Dop(id)[1] = "playback" /\ Dop(id)[2] = "devices"
                         /\ Dop(id)[3] = id /\ Dop(id)[4] = "dop"
BY ModeNames, TuplesArePaths DEF Schema, Dop, Playback

LEMMA WrittenDocument ==
  ASSUME NEW v, SettingsFit(v)
  PROVE  /\ serialize_settings(v).read = "Parsed" /\ Saves(serialize_settings(v).doc, v)
         /\ DocOK(serialize_settings(v).doc)
<1>1. PICK S : S = Written(settings_spec, v)
  OBVIOUS
<1>2. PICK M : M = Written(modeSpec, v)
  OBVIOUS
<1>3. PICK loud : loud = Loud(v)
  OBVIOUS
<1>4. PICK D : D = [path \in {Dop(id) : id \in loud} |-> Bool(FALSE)]
  OBVIOUS
<1>5. PICK m1 : m1 = M ++ Single(Schema, Whole(2))
  OBVIOUS
<1>6. PICK m2 : m2 = m1 ++ D
  OBVIOUS
<1>7. PICK doc : doc = S ++ m2
  OBVIOUS
<1>8. serialize_settings(v).read = "Parsed" /\ serialize_settings(v).doc = doc
  BY <1>1, <1>2, <1>3, <1>4, <1>5, <1>6, <1>7
     DEF serialize_settings, playback_dto, Text, Loud, Schema
<1>9. loud \subseteq Strings
  BY <1>3 DEF SettingsFit, DevicesFit, Loud
<1>10. /\ DOMAIN S \subseteq DOMAIN settings_spec /\ DOMAIN M \subseteq DOMAIN modeSpec
  BY <1>1, <1>2, WrittenIs
<1>11. /\ DOMAIN D = {Dop(id) : id \in loud} /\ \A p \in DOMAIN D : D[p] = Bool(FALSE)
  BY <1>4
<1>12. \A p \in DOMAIN D : Len(p) = 4 /\ p \in Seq(Strings) /\ p[1] = "playback"
  BY <1>9, <1>11, PartsApart
<1>13. /\ DOMAIN m1 = DOMAIN M \cup {Schema}
       /\ \A p \in DOMAIN M : m1[p] = M[p]
       /\ m1[Schema] = Whole(2)
  <2>1. Schema \notin DOMAIN M
    BY <1>10, ModeSpecOK, PartsApart
  <2> QED BY <1>5, <2>1 DEF ++, Single
<1>14. /\ DOMAIN m2 = DOMAIN m1 \cup DOMAIN D
       /\ \A p \in DOMAIN m1 : m2[p] = m1[p]
       /\ \A p \in DOMAIN D : m2[p] = D[p]
  <2>1. \A p \in DOMAIN m1 : Len(p) # 4
    <3>1. \A p \in DOMAIN M : Len(p) = 3
      BY <1>10, ModeSpecOK
    <3>2. Len(Schema) = 2
      BY PartsApart
    <3> QED BY <1>13, <3>1, <3>2
  <2>2. \A p \in DOMAIN m1 : p \notin DOMAIN D
    BY <1>12, <2>1
  <2> QED BY <1>6, <2>2 DEF ++
<1>15. /\ DOMAIN doc = DOMAIN S \cup DOMAIN m2
       /\ \A p \in DOMAIN S : doc[p] = S[p]
       /\ \A p \in DOMAIN m2 : doc[p] = m2[p]
  <2>1. \A p \in DOMAIN m2 : p[1] = "playback"
    BY <1>10, <1>12, <1>13, <1>14, ModeSpecOK, PartsApart
  <2>2. \A p \in DOMAIN m2 : p \notin DOMAIN S
    BY <1>10, <2>1, SettingsSpecOK
  <2> QED BY <1>7, <2>2 DEF ++
<1>16. Saves(doc, v)
  <2>1. DOMAIN doc = DOMAIN S \cup DOMAIN M \cup {Schema} \cup {Dop(id) : id \in loud}
    BY <1>11, <1>13, <1>14, <1>15
  <2>2. \A id \in loud : doc[Dop(id)] = Bool(FALSE)
    BY <1>11, <1>14, <1>15
  <2>3. /\ \A p \in DOMAIN S : doc[p] = S[p]
        /\ \A p \in DOMAIN M : doc[p] = M[p]
        /\ doc[Schema] = Whole(2)
    BY <1>13, <1>14, <1>15
  <2> QED BY <1>1, <1>2, <1>3, <2>1, <2>2, <2>3 DEF Saves
<1>17. DocOK(doc)
  <2>1. DocOK(S) /\ DocOK(M)
    <3>1. DocOK(S)
      BY <1>1, SettingsSpecOK, DefaultSettingsOK, WalkBack DEF SettingsFit
    <3>2. DocOK(M)
      BY <1>2, ModeSpecOK, DefaultsOfModes, WalkBack DEF SettingsFit
    <3> QED BY <3>1, <3>2
  <2>2. Whole(2) \in Raws /\ Bool(FALSE) \in Raws
    <3>1. Whole(2) \in {"integer", "float"} \X Int
      BY DEF Whole
    <3>2. Bool(FALSE) \in {"boolean"} \X BOOLEAN
      BY DEF Bool
    <3> QED BY <3>1, <3>2, Zenon DEF Raws
  <2>3. ASSUME NEW p \in DOMAIN doc PROVE p \in Seq(Strings) /\ doc[p] \in Raws
    <3>1. CASE p \in DOMAIN S
      BY <1>15, <2>1, <3>1 DEF DocOK
    <3>2. CASE p \in DOMAIN M
      BY <1>13, <1>14, <1>15, <2>1, <3>2 DEF DocOK
    <3>3. CASE p = Schema
      BY <1>13, <1>14, <1>15, <2>2, <3>3, PartsApart
    <3>4. CASE p \in DOMAIN D
      BY <1>11, <1>12, <1>14, <1>15, <2>2, <3>4
    <3> QED BY <1>13, <1>14, <1>15, <3>1, <3>2, <3>3, <3>4
  <2> QED BY <2>3 DEF DocOK
<1> QED BY <1>8, <1>16, <1>17

\* The paths of [playback] in it.
LEMMA SavedPaths ==
  ASSUME NEW v, SettingsFit(v), NEW doc, Saves(doc, v), NEW p \in DOMAIN doc
  PROVE  /\ p \in DOMAIN Written(settings_spec, v) \/ p[1] = "playback"
         /\ p \in DOMAIN Written(settings_spec, v) => p[1] # "playback" /\ p \notin DOMAIN modeSpec
         /\ p[1] = "playback" =>
              \/ p \in DOMAIN Written(modeSpec, v) /\ p \in DOMAIN modeSpec
              \/ p = Schema /\ p \notin DOMAIN modeSpec
              \/ p \notin DOMAIN modeSpec /\ \E id \in Loud(v) : p = Dop(id)
         /\ p \in Seq(Strings)
<1>1. Loud(v) \subseteq Strings
  BY DEF SettingsFit, DevicesFit, Loud
<1>2. /\ DOMAIN Written(settings_spec, v) \subseteq DOMAIN settings_spec
      /\ DOMAIN Written(modeSpec, v) \subseteq DOMAIN modeSpec
  BY WrittenIs
<1>3. CASE p \in DOMAIN Written(settings_spec, v)
  BY <1>2, <1>3, SettingsSpecOK, ModeSpecOK
<1>4. CASE p \in DOMAIN Written(modeSpec, v)
  BY <1>2, <1>4, SettingsSpecOK, ModeSpecOK
<1>5. CASE p = Schema
  BY <1>2, <1>5, SettingsSpecOK, ModeSpecOK, PartsApart
<1>6. CASE p \in {Dop(id) : id \in Loud(v)}
  <2>1. PICK id \in Loud(v) : p = Dop(id)
    BY <1>6
  <2>2. p \in Seq(Strings) /\ Len(p) = 4 /\ p[1] = "playback"
    BY <1>1, <2>1, PartsApart
  <2>3. p \notin DOMAIN settings_spec
    BY <2>2, SettingsSpecOK
  <2>4. p \notin DOMAIN modeSpec
    <3>1. \A q \in DOMAIN modeSpec : Len(q) = 3
      BY ModeSpecOK, Zenon
    <3>2. 3 # 4
      OBVIOUS
    <3> QED BY <2>2, <3>1, <3>2, Zenon
  <2> QED BY <1>2, <2>1, <2>2, <2>3, <2>4
<1> QED BY <1>3, <1>4, <1>5, <1>6 DEF Saves

-----------------------------------------------------------------------------
(* What is written of the modes is read back                                *)

Entry(id) == <<"playback", "devices", id>>

\* A short path is its names.
LEMMA ShortPaths ==
  /\ \A p \in Seq(Strings) : Len(p) = 2 => p = <<p[1], p[2]>>
  /\ \A p, q \in Seq(Strings) : Len(p) = Len(q) /\ (\A i \in 1 .. Len(p) : p[i] = q[i]) => p = q
<1>1. \A p, q \in Seq(Strings) : Len(p) = Len(q) /\ (\A i \in 1 .. Len(p) : p[i] = q[i]) => p = q
  BY SeqEqual
<1>2. ASSUME NEW p \in Seq(Strings), Len(p) = 2 PROVE p = <<p[1], p[2]>>
  <2>1. p[1] \in Strings /\ p[2] \in Strings
    <3>1. 1 \in DOMAIN p /\ 2 \in DOMAIN p
      BY <1>2
    <3>2. \A i \in DOMAIN p : p[i] \in Strings
      OBVIOUS
    <3> QED BY <3>1, <3>2
  <2>2. PICK q : q = <<p[1], p[2]>>
    OBVIOUS
  <2>3. q \in Seq(Strings)
    BY <2>1, <2>2, TuplesArePaths
  <2>4. Len(q) = 2 /\ q[1] = p[1] /\ q[2] = p[2]
    BY <2>2
  <2>5. \A i \in 1 .. 2 : i = 1 \/ i = 2
    OBVIOUS
  <2>6. \A i \in 1 .. Len(p) : p[i] = q[i]
    BY <1>2, <2>4, <2>5
  <2> QED BY <1>1, <1>2, <2>2, <2>3, <2>4, <2>6
<1> QED BY <1>1, <1>2

LEMMA EntryIs ==
  \A id \in Strings : /\ Entry(id) \in Seq(Strings) /\ Len(Entry(id)) = 3 /\ Last(Entry(id)) = id
                      /\ Entry(id)[1] = "playback" /\ Entry(id)[2] = "devices" /\ Entry(id)[3] = id
                      /\ Append(Devices, id) = Entry(id) /\ Append(Entry(id), "dop") = Dop(id)
<1> SUFFICES ASSUME NEW id \in Strings
             PROVE  /\ Entry(id) \in Seq(Strings) /\ Len(Entry(id)) = 3 /\ Last(Entry(id)) = id
                    /\ Entry(id)[1] = "playback" /\ Entry(id)[2] = "devices" /\ Entry(id)[3] = id
                    /\ Append(Devices, id) = Entry(id) /\ Append(Entry(id), "dop") = Dop(id)
  OBVIOUS
<1>1. PICK e : e = Entry(id)
  OBVIOUS
<1>2. e \in Seq(Strings)
  BY <1>1, ModeNames, TuplesArePaths DEF Entry
<1>3. Len(e) = 3 /\ e[1] = "playback" /\ e[2] = "devices" /\ e[3] = id
  BY <1>1 DEF Entry
<1>4. Last(e) = id
  BY <1>3 DEF Last
<1>5. Append(Devices, id) = e
  BY <1>1, AppendedTuple DEF Devices, Playback, Entry
<1>6. Append(e, "dop") = Dop(id)
  <2>1. Append(<<"playback", "devices", id>>, "dop") = <<"playback", "devices", id, "dop">>
    <3>1. "playback" \in Strings /\ "devices" \in Strings /\ "dop" \in Strings
      BY ModeNames
    <3> QED BY <3>1, AppendedFourth, Zenon
  <2> QED BY <1>1, <2>1 DEF Entry, Dop
<1> QED BY <1>1, <1>2, <1>3, <1>4, <1>5, <1>6

\* The tables of [playback].
LEMMA TablePaths ==
  \A t \in Tables : /\ t \in Seq(Strings) /\ Len(t) = 2 /\ t[1] = "playback"
                    /\ t[2] \in {"compatible", "optimal", "strict", "devices"}
                    /\ t = <<"playback", t[2]>>
                    /\ t # Devices => t[2] \in {"compatible", "optimal", "strict"}
<1>1. \A m \in {"compatible", "optimal", "strict", "devices"} :
        /\ Playback(m) \in Seq(Strings) /\ Len(Playback(m)) = 2 /\ Playback(m)[1] = "playback"
        /\ Playback(m)[2] = m /\ Playback(m) = <<"playback", m>>
  BY ModeNames, TuplesArePaths DEF Playback
<1>2. Tables = {Playback(m) : m \in {"compatible", "optimal", "strict", "devices"}}
  BY DEF Tables, Devices
<1> QED BY <1>1, <1>2 DEF Devices

\* What a document that was saved has under [playback].
LEMMA PlaybackPaths ==
  ASSUME NEW v, SettingsFit(v), NEW doc, Saves(doc, v), NEW p \in DOMAIN doc, p[1] = "playback"
  PROVE  \/ p \in DOMAIN modeSpec /\ Len(p) = 3 /\ p[2] \in {"compatible", "optimal", "strict"}
         \/ p = Schema /\ Len(p) = 2 /\ p[2] = "schema"
         \/ Len(p) = 4 /\ p[2] = "devices" /\ \E id \in Loud(v) : p = Dop(id)
<1>1. Loud(v) \subseteq Strings
  BY DEF SettingsFit, DevicesFit, Loud
<1>2. CASE p \in DOMAIN modeSpec
  BY <1>2, ModeSpecOK
<1>3. CASE p = Schema
  BY <1>3, PartsApart
<1>4. ASSUME NEW id \in Loud(v), p = Dop(id) PROVE Len(p) = 4 /\ p[2] = "devices"
  BY <1>1, <1>4, PartsApart
<1> QED BY <1>2, <1>3, <1>4, SavedPaths

\* What is found there.
LEMMA SavedLookups ==
  ASSUME NEW v, SettingsFit(v), NEW doc, DocOK(doc), Saves(doc, v)
  PROVE  /\ lookup(doc, <<"playback">>) = Table /\ lookup(doc, Schema) = Whole(2)
         /\ \A t \in Tables : lookup(doc, t) \in {None, Table}
         /\ \A p \in DOMAIN modeSpec : lookup(doc, p) # Table
         /\ \A id \in Loud(v) : lookup(doc, Dop(id)) = Bool(FALSE) /\ lookup(doc, Entry(id)) = Table
<1>1. Loud(v) \subseteq Strings
  BY DEF SettingsFit, DevicesFit, Loud
<1>2. Schema \in DOMAIN doc /\ doc[Schema] = Whole(2)
  BY DEF Saves
<1>3. \A id \in Loud(v) : Dop(id) \in DOMAIN doc /\ doc[Dop(id)] = Bool(FALSE)
  BY DEF Saves
<1>4. ASSUME NEW p \in DOMAIN doc, p[1] = "playback"
      PROVE  \/ p \in DOMAIN modeSpec /\ Len(p) = 3 /\ p[2] \in {"compatible", "optimal", "strict"}
             \/ p = Schema /\ Len(p) = 2 /\ p[2] = "schema"
             \/ Len(p) = 4 /\ p[2] = "devices" /\ \E id \in Loud(v) : p = Dop(id)
  BY <1>4, PlaybackPaths
<1>5. lookup(doc, Schema) = Whole(2) /\ \A id \in Loud(v) : lookup(doc, Dop(id)) = Bool(FALSE)
  BY <1>2, <1>3 DEF lookup
<1>6. lookup(doc, <<"playback">>) = Table
  <2>1. PICK r : r = <<"playback">>
    OBVIOUS
  <2>2. r \in Seq(Strings)
    BY <2>1, ModeNames, TuplesArePaths
  <2>3. Len(r) = 1 /\ r[1] = "playback"
    BY <2>1
  <2>4. r \notin DOMAIN doc
    BY <1>4, <2>3
  <2>5. IsStrictPrefix(r, Schema)
    <3>1. Len(r) < Len(Schema) /\ \A i \in 1 .. Len(r) : r[i] = Schema[i]
      BY <2>3, PartsApart
    <3> QED BY <2>2, <3>1, PrefixIs, PartsApart
  <2> QED BY <1>2, <2>1, <2>4, <2>5 DEF lookup
<1>7. \A t \in Tables : lookup(doc, t) \in {None, Table}
  <2> SUFFICES ASSUME NEW t \in Tables PROVE t \notin DOMAIN doc
    BY DEF lookup
  <2>1. Len(t) = 2 /\ t[1] = "playback" /\ t[2] \in {"compatible", "optimal", "strict", "devices"}
    BY TablePaths
  <2> QED BY <1>4, <2>1
<1>8. ASSUME NEW p \in DOMAIN modeSpec PROVE lookup(doc, p) # Table
  <2>1. /\ p \in Seq(Strings) /\ Len(p) = 3 /\ p[1] = "playback"
        /\ p[2] \in {"compatible", "optimal", "strict"}
    BY ModeSpecOK
  <2>2. CASE p \in DOMAIN doc
    BY <2>2, LookedUp
  <2>3. CASE p \notin DOMAIN doc
    <3>1. ASSUME NEW q \in DOMAIN doc, IsStrictPrefix(p, q) PROVE FALSE
      <4>1. q \in Seq(Strings)
        BY DEF DocOK
      <4>2. Len(q) > 3 /\ q[1] = p[1] /\ q[2] = p[2]
        <5>1. Len(p) < Len(q) /\ \A i \in 1 .. Len(p) : p[i] = q[i]
          BY <2>1, <3>1, <4>1, PrefixIs
        <5>2. 1 \in 1 .. Len(p) /\ 2 \in 1 .. Len(p)
          BY <2>1
        <5> QED BY <2>1, <4>1, <5>1, <5>2
      <4>3. q[1] = "playback" /\ q[2] # "devices" /\ Len(q) # 3 /\ Len(q) # 2
        <5>1. Len(q) \in Nat
          BY <4>1
        <5>2. Len(q) # 3 /\ Len(q) # 2
          <6>1. \A n \in Nat : n > 3 => n # 3 /\ n # 2
            OBVIOUS
          <6> QED BY <4>2, <5>1, <6>1, Zenon
        <5>3. \A m \in {"compatible", "optimal", "strict"} : m # "devices"
          OBVIOUS
        <5>4. q[1] = "playback" /\ q[2] # "devices"
          BY <2>1, <4>2, <5>3, Zenon
        <5> QED BY <5>2, <5>4
      <4> QED BY <1>4, <4>3
    <3>2. lookup(doc, p) = None
      BY <2>3, <3>1 DEF lookup
    <3>3. None # Table
      BY KeysAssumption
    <3> QED BY <3>2, <3>3
  <2> QED BY <2>2, <2>3
<1>9. ASSUME NEW id \in Loud(v) PROVE lookup(doc, Entry(id)) = Table
  <2>1. /\ Entry(id) \in Seq(Strings) /\ Len(Entry(id)) = 3
        /\ Entry(id)[1] = "playback" /\ Entry(id)[2] = "devices" /\ Entry(id)[3] = id
    BY <1>1, EntryIs
  <2>2. Entry(id) \notin DOMAIN doc
    BY <1>4, <2>1
  <2>3. IsStrictPrefix(Entry(id), Dop(id))
    <3>1. /\ Dop(id) \in Seq(Strings) /\ Len(Dop(id)) = 4 /\ Dop(id)[1] = "playback"
          /\ Dop(id)[2] = "devices" /\ Dop(id)[3] = id
      BY <1>1, PartsApart
    <3>2. \A i \in 1 .. 3 : i = 1 \/ i = 2 \/ i = 3
      OBVIOUS
    <3>3. Len(Entry(id)) < Len(Dop(id)) /\ \A i \in 1 .. Len(Entry(id)) : Entry(id)[i] = Dop(id)[i]
      BY <2>1, <3>1, <3>2
    <3> QED BY <2>1, <3>1, <3>3, PrefixIs
  <2> QED BY <1>3, <2>2, <2>3 DEF lookup
<1> QED BY <1>5, <1>6, <1>7, <1>8, <1>9

LEMMA TopChildren ==
  ASSUME NEW v, SettingsFit(v), NEW doc, DocOK(doc), Saves(doc, v), NEW e \in Children(doc, <<"playback">>)
  PROVE  e \in Tables \cup {Schema}
<1>1. PICK r : r = <<"playback">>
  OBVIOUS
<1>2. r \in Seq(Strings)
  BY <1>1, ModeNames, TuplesArePaths
<1>3. Len(r) = 1 /\ r[1] = "playback"
  BY <1>1
<1>4. e \in Children(doc, r)
  BY <1>1
<1>5. PICK p \in DOMAIN doc :
        /\ p \in Seq(Strings) /\ \A i \in 1 .. Len(r) : p[i] = r[i]
        /\ e \in Seq(Strings) /\ Len(e) = Len(r) + 1
        /\ \A i \in 1 .. Len(r) + 1 : e[i] = p[i]
  BY <1>2, <1>4, ChildrenAre
<1>6. 1 + 1 = 2 /\ 1 \in 1 .. 1 /\ 1 \in 1 .. 2 /\ 2 \in 1 .. 2
  OBVIOUS
<1>7. p[1] = "playback" /\ Len(e) = 2 /\ e[1] = "playback" /\ e[2] = p[2]
  BY <1>3, <1>5, <1>6, Zenon
<1>8. p[2] \in {"compatible", "optimal", "strict", "schema", "devices"}
  BY <1>7, PlaybackPaths, Zenon
<1>9. e = <<e[1], e[2]>>
  BY <1>5, <1>7, ShortPaths
<1>10. e = Playback(p[2])
  BY <1>7, <1>9, Zenon DEF Playback
<1> QED BY <1>8, <1>10, Zenon DEF Tables, Schema, Devices

LEMMA TableChildren ==
  ASSUME NEW v, SettingsFit(v), NEW doc, DocOK(doc), Saves(doc, v),
         NEW t \in Tables, t # Devices, NEW e \in Children(doc, t)
  PROVE  e \in DOMAIN modeSpec
<1>1. /\ t \in Seq(Strings) /\ Len(t) = 2 /\ t[1] = "playback"
      /\ t[2] \in {"compatible", "optimal", "strict"}
  BY TablePaths
<1>2. PICK p \in DOMAIN doc :
        /\ p \in Seq(Strings) /\ Len(t) < Len(p) /\ \A i \in 1 .. Len(t) : p[i] = t[i]
        /\ e \in Seq(Strings) /\ Len(e) = Len(t) + 1
        /\ \A i \in 1 .. Len(t) + 1 : e[i] = p[i]
  BY <1>1, ChildrenAre
<1>3. 2 + 1 = 3 /\ 1 \in 1 .. 2 /\ 2 \in 1 .. 2
  OBVIOUS
<1>4. p[1] = "playback" /\ p[2] = t[2] /\ Len(e) = 3 /\ \A i \in 1 .. 3 : e[i] = p[i]
  BY <1>1, <1>2, <1>3, Zenon
<1>5. Len(p) # 2 /\ p[2] # "schema" /\ p[2] # "devices"
  BY <1>1, <1>2, <1>4
<1>6. p \in DOMAIN modeSpec /\ Len(p) = 3
  BY <1>4, <1>5, PlaybackPaths, Zenon
<1>7. e = p
  BY <1>2, <1>4, <1>6, ShortPaths, Zenon
<1> QED BY <1>6, <1>7

LEMMA DeviceChildren ==
  ASSUME NEW v, SettingsFit(v), NEW doc, DocOK(doc), Saves(doc, v)
  PROVE  Children(doc, Devices) = {Entry(id) : id \in Loud(v)}
<1>1. Loud(v) \subseteq Strings
  BY DEF SettingsFit, DevicesFit, Loud
<1>2. Devices \in Seq(Strings) /\ Len(Devices) = 2 /\ Devices[1] = "playback" /\ Devices[2] = "devices"
  BY PathsApart
<1>3. 2 + 1 = 3 /\ 1 \in 1 .. 2 /\ 2 \in 1 .. 2 /\ \A i \in 1 .. 3 : i = 1 \/ i = 2 \/ i = 3
  OBVIOUS
<1>4. ASSUME NEW e \in Children(doc, Devices) PROVE \E id \in Loud(v) : e = Entry(id)
  <2>1. PICK p \in DOMAIN doc :
          /\ p \in Seq(Strings) /\ \A i \in 1 .. Len(Devices) : p[i] = Devices[i]
          /\ e \in Seq(Strings) /\ Len(e) = Len(Devices) + 1
          /\ \A i \in 1 .. Len(Devices) + 1 : e[i] = p[i]
    BY <1>2, ChildrenAre
  <2>2. p[1] = "playback" /\ p[2] = "devices" /\ Len(e) = 3 /\ \A i \in 1 .. 3 : e[i] = p[i]
    BY <1>2, <1>3, <2>1, Zenon
  <2>3. \A m \in {"compatible", "optimal", "strict", "schema"} : m # "devices"
    OBVIOUS
  <2>4. PICK id \in Loud(v) : p = Dop(id)
    BY <2>2, <2>3, PlaybackPaths, Zenon
  <2>5. id \in Strings
    BY <1>1
  <2>6. p[3] = id
    BY <2>4, <2>5, PartsApart, Zenon
  <2>7. /\ Entry(id) \in Seq(Strings) /\ Len(Entry(id)) = 3
        /\ Entry(id)[1] = "playback" /\ Entry(id)[2] = "devices" /\ Entry(id)[3] = id
    BY <2>5, EntryIs, Zenon
  <2>8. \A i \in 1 .. 3 : e[i] = Entry(id)[i]
    BY <1>3, <2>2, <2>6, <2>7, Zenon
  <2>9. e = Entry(id)
    BY <2>1, <2>2, <2>7, <2>8, ShortPaths, Zenon
  <2> QED BY <2>9
<1>5. ASSUME NEW id \in Loud(v) PROVE Entry(id) \in Children(doc, Devices)
  <2>1. id \in Strings
    BY <1>1
  <2>2. PICK p : p = Dop(id)
    OBVIOUS
  <2>3. /\ p \in Seq(Strings) /\ Len(p) = 4 /\ p[1] = "playback"
        /\ p[2] = "devices" /\ p[3] = id
    BY <2>1, <2>2, PartsApart, Zenon
  <2>4. p \in DOMAIN doc
    BY <2>2 DEF Saves
  <2>5. \A i \in 1 .. 2 : i = 1 \/ i = 2
    OBVIOUS
  <2>6. \A i \in 1 .. 2 : Devices[i] = p[i]
    BY <1>2, <2>3, <2>5, Zenon
  <2>7. IsStrictPrefix(Devices, p)
    <3>1. Len(Devices) < Len(p)
      BY <1>2, <2>3
    <3> QED BY <1>2, <2>3, <2>6, <3>1, PrefixIs, Zenon
  <2>8. PICK s : s = SubSeq(p, 1, Len(Devices) + 1)
    OBVIOUS
  <2>9. s = SubSeq(p, 1, 3)
    BY <1>2, <1>3, <2>8, Zenon
  <2>10. s \in Seq(Strings) /\ Len(s) = 3 /\ \A i \in 1 .. 3 : s[i] = p[i]
    <3>1. /\ SubSeq(p, 1, 3) \in Seq(Strings) /\ Len(SubSeq(p, 1, 3)) = 3 - 1 + 1
          /\ \A i \in 1 .. 3 - 1 + 1 : SubSeq(p, 1, 3)[i] = p[1 + i - 1]
      BY <2>3, PartIs, SMTT(20)
    <3>2. 3 - 1 + 1 = 3 /\ \A i \in 1 .. 3 : 1 + i - 1 = i
      OBVIOUS
    <3> QED BY <2>9, <3>1, <3>2
  <2>11. /\ Entry(id) \in Seq(Strings) /\ Len(Entry(id)) = 3
         /\ Entry(id)[1] = "playback" /\ Entry(id)[2] = "devices" /\ Entry(id)[3] = id
    BY <2>1, EntryIs, Zenon
  <2>12. \A i \in 1 .. 3 : s[i] = Entry(id)[i]
    BY <1>3, <2>3, <2>10, <2>11, Zenon
  <2>13. s = Entry(id)
    BY <2>10, <2>11, <2>12, ShortPaths, Zenon
  <2> QED BY <2>4, <2>7, <2>8, <2>13, Zenon DEF Children
<1> QED BY <1>4, <1>5

LEMMA EntryChildren ==
  ASSUME NEW v, SettingsFit(v), NEW doc, DocOK(doc), Saves(doc, v),
         NEW id \in Loud(v), NEW e \in Children(doc, Entry(id))
  PROVE  e = Dop(id)
<1>1. Loud(v) \subseteq Strings
  BY DEF SettingsFit, DevicesFit, Loud
<1>2. PICK t : t = Entry(id)
  OBVIOUS
<1>3. t \in Seq(Strings) /\ Len(t) = 3 /\ t[1] = "playback" /\ t[2] = "devices" /\ t[3] = id
  BY <1>1, <1>2, EntryIs
<1>4. PICK p \in DOMAIN doc :
        /\ p \in Seq(Strings) /\ Len(t) < Len(p) /\ \A i \in 1 .. Len(t) : p[i] = t[i]
        /\ e = SubSeq(p, 1, Len(t) + 1)
        /\ e \in Seq(Strings) /\ Len(e) = Len(t) + 1
        /\ \A i \in 1 .. Len(t) + 1 : e[i] = p[i]
        /\ Last(e) = p[Len(t) + 1] /\ Last(e) \in Strings
  <2>1. e \in Children(doc, t) /\ t \in Seq(Strings)
    BY <1>2, <1>3
  <2> QED BY <2>1, ChildrenAre
<1>5. 3 + 1 = 4 /\ 1 \in 1 .. 3 /\ 2 \in 1 .. 3 /\ 3 \in 1 .. 3
  OBVIOUS
<1>6. /\ p[1] = "playback" /\ p[2] = "devices" /\ p[3] = id
      /\ Len(e) = 4 /\ \A i \in 1 .. 4 : e[i] = p[i]
  BY <1>3, <1>4, <1>5, Zenon
<1>7. p[2] \notin {"compatible", "optimal", "strict"} /\ p[2] # "schema"
  <2>1. \A m : m = "devices" => m \notin {"compatible", "optimal", "strict"} /\ m # "schema"
    OBVIOUS
  <2> QED BY <1>6, <2>1, Zenon
<1>8. PICK other \in Loud(v) : p = Dop(other)
  BY <1>4, <1>6, <1>7, PlaybackPaths
<1>9. other = id /\ Len(p) = 4
  <2>1. other \in Strings
    BY <1>1
  <2> QED BY <1>6, <1>8, <2>1, PartsApart, Zenon
<1>10. e = p
  BY <1>4, <1>6, <1>9, ShortPaths, Zenon
<1> QED BY <1>8, <1>9, <1>10

\* Where an unknown key is.
LEMMA UnknownIs ==
  ASSUME NEW doc, NEW path \in Unknown(doc)
  PROVE  /\ path \notin Tables \cup {Playback("schema")} \cup DOMAIN modeSpec
         /\ \A e \in Children(doc, Devices) : path # Append(e, "dop")
         /\ \/ path \in Children(doc, <<"playback">>)
            \/ \E t \in Tables \ {Devices} : path \in Children(doc, t)
            \/ \E e \in Children(doc, Devices) : path \in Children(doc, e)
BY DEF Unknown

\* What was saved is well formed, and has no key that is not known.
LEMMA SavedFrame ==
  ASSUME NEW v, SettingsFit(v), NEW doc, DocOK(doc), Saves(doc, v)
  PROVE  WellFormed(doc) /\ Unknown(doc) = {}
<1>1. Loud(v) \subseteq Strings /\ Loud(v) \cap Blank = {}
  BY DEF SettingsFit, DevicesFit, Loud
<1>2. Children(doc, Devices) = {Entry(id) : id \in Loud(v)}
  BY DeviceChildren
<1>3. WellFormed(doc)
  <2>1. lookup(doc, <<"playback">>) = Table /\ \A t \in Tables : lookup(doc, t) \in {None, Table}
    BY SavedLookups
  <2>2. \A entry \in Children(doc, Devices) : lookup(doc, entry) = Table
    <3>1. \A id \in Loud(v) : lookup(doc, Entry(id)) = Table
      BY SavedLookups
    <3> QED BY <1>2, <3>1
  <2>3. lookup(doc, Playback("schema"))[1] = "integer"
    <3>1. lookup(doc, Schema) = Whole(2)
      BY SavedLookups
    <3>2. Whole(2)[1] = "integer"
      BY DEF Whole
    <3> QED BY <3>1, <3>2 DEF Schema
  <2> QED BY <2>1, <2>2, <2>3 DEF WellFormed
<1>4. Unknown(doc) = {}
  <2> SUFFICES ASSUME NEW path \in Unknown(doc) PROVE FALSE
    OBVIOUS
  <2>1. CASE path \in Children(doc, <<"playback">>)
    BY <2>1, TopChildren, UnknownIs DEF Schema
  <2>2. ASSUME NEW t \in Tables \ {Devices}, path \in Children(doc, t) PROVE FALSE
    BY <2>2, TableChildren, UnknownIs
  <2>3. ASSUME NEW e \in Children(doc, Devices), path \in Children(doc, e) PROVE FALSE
    <3>1. PICK id \in Loud(v) : e = Entry(id)
      BY <1>2
    <3>2. path = Dop(id)
      BY <2>3, <3>1, EntryChildren
    <3>3. Append(Entry(id), "dop") = Dop(id)
      <4>1. id \in Strings
        BY <1>1
      <4> QED BY <4>1, EntryIs, Zenon
    <3>4. path # Append(e, "dop")
      BY UnknownIs, Zenon
    <3> QED BY <3>1, <3>2, <3>3, <3>4, Zenon
  <2> QED BY <2>1, <2>2, <2>3, UnknownIs, Zenon
<1> QED BY <1>3, <1>4

\* The entries of devices that were saved are those that take no DoP.
LEMMA SavedDevices ==
  ASSUME NEW v, SettingsFit(v), NEW doc, DocOK(doc), Saves(doc, v)
  PROVE  parse_devices(doc).value = [id \in Loud(v) |-> FALSE] /\ parse_devices(doc).notes = {}
<1>1. Loud(v) \subseteq Strings /\ Loud(v) \cap Blank = {}
  BY DEF SettingsFit, DevicesFit, Loud
<1>2. PICK ids : ids = {Last(e) : e \in Children(doc, Devices)}
  OBVIOUS
<1>3. ids = Loud(v)
  <2>1. Children(doc, Devices) = {Entry(id) : id \in Loud(v)}
    BY DeviceChildren
  <2>2. \A id \in Loud(v) : Last(Entry(id)) = id
    <3>1. \A id \in Strings : Last(Entry(id)) = id
      BY EntryIs, Zenon
    <3> QED BY <1>1, <3>1
  <2> QED BY <1>2, <2>1, <2>2
<1>4. ids \ Blank = Loud(v) /\ ids \cap Blank = {}
  BY <1>1, <1>3
<1>5. \A id \in Loud(v) : lookup(doc, Dop(id)) = Bool(FALSE)
  BY SavedLookups
<1>6. Bool(FALSE)[1] = "boolean"
  BY DEF Bool
<1>7. PICK bad : bad = {i \in ids \ Blank : lookup(doc, Dop(i)) # None /\ lookup(doc, Dop(i))[1] # "boolean"}
  OBVIOUS
<1>8. bad = {}
  BY <1>4, <1>5, <1>6, <1>7
<1>9. parse_devices(doc) =
        [value |-> [id \in ids \ Blank |-> lookup(doc, Dop(id)) # Bool(FALSE)],
         notes |-> {Note(Append(Devices, id), "invalid") : id \in ids \cap Blank}
                   \cup {Note(Dop(id), "invalid") : id \in bad}]
  BY <1>2, <1>7, Zenon DEF parse_devices
<1>10. [id \in ids \ Blank |-> lookup(doc, Dop(id)) # Bool(FALSE)] = [id \in Loud(v) |-> FALSE]
  BY <1>4, <1>5, Zenon
<1>11. {Note(Append(Devices, id), "invalid") : id \in ids \cap Blank}
         \cup {Note(Dop(id), "invalid") : id \in bad} = {}
  BY <1>4, <1>8
<1>12. parse_devices(doc) = [value |-> [id \in Loud(v) |-> FALSE], notes |-> {}]
  BY <1>9, <1>10, <1>11, Zenon
<1> QED BY <1>12

\* The options that were saved are those of the value.
LEMMA SavedModes ==
  ASSUME NEW v, SettingsFit(v), NEW doc, DocOK(doc), Saves(doc, v)
  PROVE  walk(Restrict(doc, DOMAIN doc \cap DOMAIN modeSpec), modeSpec, modeDefaults)
           = [value |-> [path \in DOMAIN modeSpec |-> v[path]], notes |-> {}]
<1>1. PICK w : w = Written(modeSpec, v)
  OBVIOUS
<1>2. DOMAIN w \subseteq DOMAIN modeSpec /\ w = [p \in DOMAIN w |-> w[p]]
  BY <1>1 DEF Written
<1>3. DOMAIN w \subseteq DOMAIN doc /\ \A p \in DOMAIN w : doc[p] = w[p]
  BY <1>1 DEF Saves
<1>4. DOMAIN doc \cap DOMAIN modeSpec = DOMAIN w
  <2>1. ASSUME NEW p \in DOMAIN doc, p \in DOMAIN modeSpec PROVE p \in DOMAIN w
    <3>1. p[1] = "playback"
      BY <2>1, ModeSpecOK
    <3> QED BY <1>1, <2>1, <3>1, SavedPaths
  <2> QED BY <1>2, <1>3, <2>1
<1>5. Restrict(doc, DOMAIN w) = w
  BY <1>2, <1>3 DEF Restrict
<1>6. AllFit(modeSpec, v)
  BY DEF SettingsFit
<1>7. \A p \in DOMAIN modeSpec : modeDefaults[p] = modeSpec[p].default
  BY DefaultsOfModes
<1>8. walk(w, modeSpec, modeDefaults) = [value |-> [path \in DOMAIN modeSpec |-> v[path]], notes |-> {}]
  BY <1>1, <1>6, <1>7, ModeSpecOK, WalkBack
<1> QED BY <1>4, <1>5, <1>8

LEMMA Correct ==
  ASSUME NEW loaded, NEW path, NEW value PROVE Corrected(loaded, path, FALSE, value) = loaded
BY DEF Corrected

\* Reading back the modes: their options are those saved, and nothing is remarked.
LEMMA ModesRoundTrip ==
  ASSUME NEW v, SettingsFit(v), ModesOK(v), NEW doc, DocOK(doc), Saves(doc, v)
  PROVE  /\ load_mode_settings(doc).notes = {}
         /\ DOMAIN load_mode_settings(doc).value = DOMAIN modeSpec \cup {Devices}
         /\ \A p \in DOMAIN modeSpec : load_mode_settings(doc).value[p] = v[p]
         /\ load_mode_settings(doc).value[Devices] = [id \in Loud(v) |-> FALSE]
<1>1. PICK modes : modes = walk(Restrict(doc, DOMAIN doc \cap DOMAIN modeSpec), modeSpec, modeDefaults)
  OBVIOUS
<1>2. modes.notes = {} /\ modes.value = [path \in DOMAIN modeSpec |-> v[path]]
  <2>1. modes = [value |-> [path \in DOMAIN modeSpec |-> v[path]], notes |-> {}]
    BY <1>1, SavedModes
  <2> QED BY <2>1
<1>3. PICK devices : devices = parse_devices(doc)
  OBVIOUS
<1>4. devices.notes = {} /\ devices.value = [id \in Loud(v) |-> FALSE]
  BY <1>3, SavedDevices
<1>5. PICK tables : tables = {path \in DOMAIN modeSpec : lookup(doc, path) = Table /\ path \in DOMAIN modeSpec}
  OBVIOUS
<1>6. tables = {}
  BY <1>5, SavedLookups
<1>7. PICK read : read = [value |-> modes.value ++ Single(Devices, devices.value),
                          notes |-> modes.notes \cup devices.notes
                                    \cup {Note(path, "invalid") : path \in tables}
                                    \cup {Note(path, "unknown") : path \in Unknown(doc)}]
  OBVIOUS
<1>8. read.notes = {}
  BY <1>2, <1>4, <1>6, <1>7, SavedFrame
<1>9. /\ DOMAIN read.value = DOMAIN modeSpec \cup {Devices}
      /\ \A p \in DOMAIN modeSpec : read.value[p] = v[p]
      /\ read.value[Devices] = [id \in Loud(v) |-> FALSE]
  BY <1>2, <1>4, <1>7, PathsApart DEF ++, Single
<1>10. migrate_legacy_compatible_device(read) = read
  BY <1>9, DeviceKey, Correct DEF ModesOK, migrate_legacy_compatible_device
<1>11. ASSUME NEW mode \in Own PROVE reconcile_device_buffer(read, mode) = read
  <2>1. /\ read.value[OfDevice(mode)] = v[OfDevice(mode)]
        /\ read.value[Buffer(mode)] = v[Buffer(mode)]
    BY <1>9, BufferKeys
  <2>2. v[OfDevice(mode)] \in DeviceBuffer.range /\ buffers_allowed(v[Buffer(mode)], v[OfDevice(mode)])
    BY DEF ModesOK
  <2>3. PICK buffer : buffer = read.value[Option(mode, "buffer")]
    OBVIOUS
  <2>4. PICK allowed : allowed = {d \in DeviceBuffer.range : buffers_allowed(buffer, d)}
    OBVIOUS
  <2>5. PICK least : least = CHOOSE d \in allowed : \A e \in allowed : d <= e
    OBVIOUS
  <2>6. (read.value[Option(mode, "device_buffer_ms")] \notin allowed) = FALSE
    BY <2>1, <2>2, <2>3, <2>4 DEF Buffer, OfDevice
  <2>7. reconcile_device_buffer(read, mode)
          = Corrected(read, Option(mode, "device_buffer_ms"),
                      read.value[Option(mode, "device_buffer_ms")] \notin allowed,
                      IF 40 \in allowed THEN 40 ELSE least)
    BY <2>3, <2>4, <2>5 DEF reconcile_device_buffer
  <2> QED BY <2>6, <2>7, Correct, Zenon
<1>12. load_mode_settings(doc) = read
  <2>1. lookup(doc, <<"playback">>) # None
    <3>1. lookup(doc, <<"playback">>) = Table
      BY SavedLookups
    <3>2. Table # None
      BY KeysAssumption
    <3> QED BY <3>1, <3>2
  <2>2. WellFormed(doc)
    BY SavedFrame
  <2>3. lookup(doc, Playback("schema")) = Whole(2)
    BY SavedLookups DEF Schema
  <2>4. PICK migrated : migrated = migrate_legacy_compatible_device(read)
    OBVIOUS
  <2>5. load_mode_settings(doc) = reconcile_device_buffer(reconcile_device_buffer(migrated, "optimal"), "strict")
    BY <1>1, <1>3, <1>5, <1>7, <2>1, <2>2, <2>3, <2>4 DEF load_mode_settings
  <2>6. "optimal" \in Own /\ "strict" \in Own
    BY DEF Own
  <2> QED BY <1>10, <1>11, <2>4, <2>5, <2>6, Zenon
<1> QED BY <1>8, <1>9, <1>12

-----------------------------------------------------------------------------
(* What is written of settings.toml is read back                            *)

\* An order that names everything once has nothing to complete.
LEMMA CompletedSame ==
  ASSUME NEW all \in Seq(Strings), NEW listed, Orders(listed, all)
  PROVE  completed(listed, all) = listed
<1>1. listed \in Seq(Strings) /\ IsInjective(listed) /\ Range(listed) = Range(all)
  BY DEF Orders
<1>2. PICK items : items = listed \o all
  OBVIOUS
<1>3. /\ items \in Seq(Strings) /\ Len(items) = Len(listed) + Len(all)
      /\ \A i \in 1 .. Len(listed) : items[i] = listed[i]
      /\ \A i \in Len(listed) + 1 .. Len(listed) + Len(all) : items[i] = all[i - Len(listed)]
  BY <1>1, <1>2, JoinedIs
<1>4. PICK places : places = {i \in DOMAIN items : \A j \in 1 .. (i - 1) : items[j] # items[i]}
  OBVIOUS
<1>5. completed(listed, all) = Picked(items, places)
  BY <1>2, <1>4, Zenon DEF completed
<1>6. Len(listed) \in Nat /\ Len(all) \in Nat
  BY <1>1
<1>7. ASSUME NEW i \in 1 .. Len(items) PROVE i \in places <=> i <= Len(listed)
  <2>1. i \in DOMAIN items /\ i \in Nat
    BY <1>3
  <2>2. CASE i <= Len(listed)
    <3>1. ASSUME NEW j \in 1 .. (i - 1) PROVE items[j] # items[i]
      <4>1. j \in 1 .. Len(listed) /\ i \in 1 .. Len(listed) /\ j # i
        BY <1>6, <2>1, <2>2
      <4>2. j \in DOMAIN listed /\ i \in DOMAIN listed
        BY <1>1, <4>1
      <4> QED BY <1>1, <1>3, <4>1, <4>2 DEF IsInjective
    <3> QED BY <1>4, <2>1, <2>2, <3>1
  <2>3. CASE ~(i <= Len(listed))
    <3>1. i - Len(listed) \in 1 .. Len(all) /\ i \in Len(listed) + 1 .. Len(listed) + Len(all)
      BY <1>3, <1>6, <2>1, <2>3
    <3>2. items[i] \in Range(all)
      BY <1>3, <3>1 DEF Range
    <3>3. PICK j \in DOMAIN listed : listed[j] = items[i]
      BY <1>1, <3>2 DEF Range
    <3>4. j \in 1 .. Len(listed) /\ j \in 1 .. (i - 1)
      BY <1>1, <1>6, <2>1, <2>3, <3>3
    <3>5. items[j] = items[i]
      BY <1>3, <3>3, <3>4
    <3> QED BY <1>4, <2>3, <3>4, <3>5
  <2> QED BY <2>2, <2>3
<1>8. Len(listed) <= Len(items)
  BY <1>3, <1>6
<1> QED BY <1>1, <1>3, <1>5, <1>7, <1>8, PickedPrefix

LEMMA AdjustedSame ==
  ASSUME NEW loaded, NEW key, NEW all \in Seq(Strings), Orders(loaded.value[key], all)
  PROVE  adjust_order(loaded, key, all) = loaded
BY CompletedSame, Correct DEF adjust_order

\* The other keys that were saved are those of the value.
LEMMA SavedOthers ==
  ASSUME NEW v, SettingsFit(v), NEW doc, DocOK(doc), Saves(doc, v),
         NEW others, others = {path \in DOMAIN doc : Head(path) # "playback"}
  PROVE  walk(Restrict(doc, others), settings_spec, default_settings)
           = [value |-> [path \in DOMAIN settings_spec |-> v[path]], notes |-> {}]
<1>1. PICK w : w = Written(settings_spec, v)
  OBVIOUS
<1>2. DOMAIN w \subseteq DOMAIN settings_spec /\ w = [p \in DOMAIN w |-> w[p]]
  BY <1>1 DEF Written
<1>3. DOMAIN w \subseteq DOMAIN doc /\ \A p \in DOMAIN w : doc[p] = w[p]
  BY <1>1 DEF Saves
<1>4. \A p \in DOMAIN doc : p[1] = "playback" <=> p \notin DOMAIN w
  BY <1>1, SavedPaths
<1>5. \A p \in DOMAIN doc : Head(p) = p[1]
  BY DEF DocOK
<1>6. others = DOMAIN w
  BY <1>3, <1>4, <1>5
<1>7. Restrict(doc, DOMAIN w) = w
  BY <1>2, <1>3 DEF Restrict
<1>8. AllFit(settings_spec, v)
  BY DEF SettingsFit
<1>9. \A p \in DOMAIN settings_spec : default_settings[p] = settings_spec[p].default
  BY DefaultSettingsOK
<1>10. walk(w, settings_spec, default_settings)
         = [value |-> [path \in DOMAIN settings_spec |-> v[path]], notes |-> {}]
  BY <1>1, <1>8, <1>9, SettingsSpecOK, WalkBack
<1> QED BY <1>6, <1>7, <1>10

LEMMA SettingsRoundTrip ==
  ASSUME NEW v, SettingsFit(v), SettingsOK(v)
  PROVE  /\ parse_settings(serialize_settings(v)).notes = {}
         /\ \A p \in DOMAIN v : Same(p, parse_settings(serialize_settings(v)).value[p], v[p])
<1>1. PICK seen : seen = serialize_settings(v)
  OBVIOUS
<1>2. seen.read = "Parsed" /\ Saves(seen.doc, v) /\ DocOK(seen.doc)
  BY <1>1, WrittenDocument
<1>3. PICK others : others = {path \in DOMAIN seen.doc : Head(path) # "playback"}
  OBVIOUS
<1>4. PICK modes : modes = load_mode_settings(seen.doc)
  OBVIOUS
<1>5. PICK walked : walked = walk(Restrict(seen.doc, others), settings_spec, default_settings)
  OBVIOUS
<1>6. PICK joined : joined = [value |-> walked.value ++ modes.value, notes |-> walked.notes \cup modes.notes]
  OBVIOUS
<1>7. parse_settings(seen) = adjust_cover_priority(adjust_column_order(joined))
  BY <1>2, <1>3, <1>4, <1>5, <1>6 DEF parse_settings
<1>8. ModesOK(v) /\ Orders(v[ColumnOrder], Columns) /\ Orders(v[CoverPriority], CoverSources)
  BY DEF SettingsOK
<1>9. /\ modes.notes = {} /\ DOMAIN modes.value = DOMAIN modeSpec \cup {Devices}
      /\ \A p \in DOMAIN modeSpec : modes.value[p] = v[p]
      /\ modes.value[Devices] = [id \in Loud(v) |-> FALSE]
  BY <1>2, <1>4, <1>8, ModesRoundTrip
<1>10. walked.value = [path \in DOMAIN settings_spec |-> v[path]] /\ walked.notes = {}
  <2>1. walked = [value |-> [path \in DOMAIN settings_spec |-> v[path]], notes |-> {}]
    BY <1>2, <1>3, <1>5, SavedOthers
  <2> QED BY <2>1
<1>11. joined.notes = {}
  BY <1>6, <1>9, <1>10
<1>12. /\ \A p \in DOMAIN settings_spec : joined.value[p] = v[p]
       /\ \A p \in DOMAIN modeSpec : joined.value[p] = v[p]
       /\ joined.value[Devices] = [id \in Loud(v) |-> FALSE]
  <2>1. PICK w : w = joined.value
    OBVIOUS
  <2>2. w = walked.value ++ modes.value
    BY <1>6, <2>1
  <2>3. DOMAIN walked.value = DOMAIN settings_spec /\ \A p \in DOMAIN settings_spec : walked.value[p] = v[p]
    BY <1>10
  <2>4. /\ \A p \in DOMAIN settings_spec : w[p] = walked.value[p]
        /\ \A p \in DOMAIN modeSpec \cup {Devices} : w[p] = modes.value[p]
    <3>1. \A p \in DOMAIN modeSpec \cup {Devices} : p \notin DOMAIN settings_spec
      BY PathsApart
    <3>2. /\ \A p \in DOMAIN walked.value : w[p] = walked.value[p]
          /\ \A p \in DOMAIN modes.value \ DOMAIN walked.value : w[p] = modes.value[p]
      <4>1. PICK f : f = walked.value
        OBVIOUS
      <4>2. PICK g : g = modes.value
        OBVIOUS
      <4>3. w = f ++ g
        BY <2>2, <4>1, <4>2
      <4>4. (\A p \in DOMAIN f : w[p] = f[p]) /\ \A p \in DOMAIN g \ DOMAIN f : w[p] = g[p]
        <5>1. \A p \in DOMAIN f : (f ++ g)[p] = f[p]
          BY MergedIs, Zenon
        <5>2. \A p \in DOMAIN g \ DOMAIN f : (f ++ g)[p] = g[p]
          BY MergedIs, Zenon
        <5> QED BY <4>3, <5>1, <5>2
      <4> QED BY <4>1, <4>2, <4>4
    <3> QED BY <1>9, <2>3, <3>1, <3>2
  <2> QED BY <1>9, <2>1, <2>3, <2>4
<1>13. adjust_column_order(joined) = joined
  BY <1>8, <1>12, SettingsPaths, AdjustedSame, SourcesAre DEF adjust_column_order, ColumnOrder
<1>14. adjust_cover_priority(joined) = joined
  BY <1>8, <1>12, SettingsPaths, AdjustedSame, SourcesAre DEF adjust_cover_priority, CoverPriority
<1>15. parse_settings(seen) = joined
  BY <1>7, <1>13, <1>14
<1>16. ASSUME NEW p \in DOMAIN v PROVE Same(p, joined.value[p], v[p])
  <2>1. p \in DOMAIN settings_spec \cup DOMAIN modeSpec \cup {Devices}
    BY DEF SettingsFit
  <2>2. CASE p # Devices
    BY <1>12, <2>1, <2>2 DEF Same
  <2>3. CASE p = Devices
    BY <1>12, <2>3 DEF SettingsFit, DevicesFit, Loud, Same
  <2> QED BY <2>2, <2>3
<1> QED BY <1>1, <1>11, <1>15, <1>16

-----------------------------------------------------------------------------
(* Edits of the panel leave what the reader takes                           *)

LEMMA SetIs ==
  ASSUME NEW v, NEW p, NEW x
  PROVE  /\ DOMAIN Set(v, p, x) = DOMAIN v
         /\ p \in DOMAIN v => Set(v, p, x)[p] = x
         /\ \A q \in DOMAIN v : q # p => Set(v, p, x)[q] = v[q]
BY DEF Set

LEMMA SetKey ==
  ASSUME NEW v, SettingsFit(v), NEW p \in DOMAIN settings_spec, NEW x, Fits(settings_spec[p], x)
  PROVE  SettingsFit(Set(v, p, x))
BY SetIs, ChangedFits, PathsApart DEF SettingsFit, AllFit

LEMMA SetOption ==
  ASSUME NEW v, SettingsFit(v), NEW p \in DOMAIN modeSpec, NEW w, DOMAIN w = DOMAIN v,
         Fits(modeSpec[p], w[p]), \A q \in DOMAIN v : q # p => w[q] = v[q]
  PROVE  SettingsFit(w)
BY ChangedFits, PathsApart DEF SettingsFit, AllFit

LEMMA SetPanel ==
  ASSUME NEW v, SettingsFit(v), NEW k \in DOMAIN panelKeys, NEW x, Fits(panelKeys[k], x)
  PROVE  SettingsFit(Set(v, <<k>>, x))
BY PanelTable, SettingsTable, SetKey

LEMMA ThemeFits ==
  ASSUME NEW v, SettingsFit(v), NEW theme \in Themes PROVE SettingsFit(select_theme(v, theme))
<1>1. CASE theme \in Separated \cup {""}
  BY <1>1 DEF select_theme
<1>2. CASE theme \notin Separated \cup {""}
  <2>1. theme \in Strings \ (Separated \cup {""})
    BY <1>2, DocumentsAssumption
  <2>2. "theme" \in DOMAIN panelKeys /\ panelKeys["theme"] = Key(name(Separated \cup {""}), "light")
    BY DEF panelKeys
  <2>3. theme \in Holds(name(Separated \cup {""}))
    BY <2>1, HoldsOf
  <2>4. Fits(panelKeys["theme"], theme)
    BY <2>2, <2>3, FitsIs
  <2>5. SettingsFit(Set(v, <<"theme">>, theme))
    BY <2>2, <2>4, SetPanel
  <2>6. select_theme(v, theme) = Set(v, <<"theme">>, theme)
    BY <1>2 DEF select_theme
  <2> QED BY <2>5, <2>6
<1> QED BY <1>1, <1>2

LEMMA SaveIntervalFits ==
  ASSUME NEW v, SettingsFit(v), NEW n \in SAVE_INTERVALS
  PROVE  SettingsFit(Set(v, <<"save_interval">>, n))
<1>1. "save_interval" \in DOMAIN panelKeys /\ panelKeys["save_interval"] = Key(integer(SAVE_INTERVALS), 30)
  BY DEF panelKeys
<1>2. n \in Holds(integer(SAVE_INTERVALS))
  BY HoldsOf
<1>3. Fits(panelKeys["save_interval"], n)
  BY <1>1, <1>2, FitsIs
<1> QED BY <1>1, <1>3, SetPanel

LEMMA PanelNumberFits ==
  ASSUME NEW v, SettingsFit(v), NEW path \in DOMAIN panelNumbers, NEW x \in panelNumbers[path]
  PROVE  SettingsFit(Set(v, path, x))
<1>1. \/ path = <<"cover_size">> /\ x \in {10000, 40000}
      \/ path = <<"col_info_w">> /\ x \in {20000, 40000}
      \/ path = <<"col_gap">> /\ x \in {0, 2000}
  <2>1. /\ <<"cover_size">> # <<"col_info_w">> /\ <<"cover_size">> # <<"col_gap">>
        /\ <<"col_info_w">> # <<"col_gap">>
    OBVIOUS
  <2> QED BY <2>1 DEF panelNumbers, ++, Single
<1>2. CASE path = <<"cover_size">> /\ x \in {10000, 40000}
  <2>1. "cover_size" \in DOMAIN panelKeys /\ panelKeys["cover_size"] = Key(number(within(10000, 40000)), 20000)
    BY DEF panelKeys
  <2>2. x \in Holds(number(within(10000, 40000)))
    BY <1>2, HoldsOf, WithinIs
  <2>3. Fits(panelKeys["cover_size"], x)
    BY <2>1, <2>2, FitsIs
  <2> QED BY <1>2, <2>1, <2>3, SetPanel
<1>3. CASE path = <<"col_info_w">> /\ x \in {20000, 40000}
  <2>1. "col_info_w" \in DOMAIN panelKeys /\ panelKeys["col_info_w"] = Key(number(within(20000, 40000)), 24000)
    BY DEF panelKeys
  <2>2. x \in Holds(number(within(20000, 40000)))
    BY <1>3, HoldsOf, WithinIs
  <2>3. Fits(panelKeys["col_info_w"], x)
    BY <2>1, <2>2, FitsIs
  <2> QED BY <1>3, <2>1, <2>3, SetPanel
<1>4. CASE path = <<"col_gap">> /\ x \in {0, 2000}
  <2>1. "col_gap" \in DOMAIN panelKeys /\ panelKeys["col_gap"] = Key(number(within(0, 2000)), 1200)
    BY DEF panelKeys
  <2>2. x \in Holds(number(within(0, 2000)))
    BY <1>4, HoldsOf, WithinIs
  <2>3. Fits(panelKeys["col_gap"], x)
    BY <2>1, <2>2, FitsIs
  <2> QED BY <1>4, <2>1, <2>3, SetPanel
<1> QED BY <1>1, <1>2, <1>3, <1>4

LEMMA FolderNamesFit ==
  ASSUME NEW v, SettingsFit(v), NEW items \in NameLists
  PROVE  SettingsFit(edit_folder_names(v, items))
<1>1. items \in Seq(Strings)
  BY DocumentsAssumption
<1>2. PICK list : list = Only(items, Range(items) \ Blank)
  OBVIOUS
<1>3. list \in Seq(Strings)
  BY <1>1, <1>2, OnlyThese
<1>4. "cover_folder_names" \in DOMAIN panelKeys /\ panelKeys["cover_folder_names"].kind = texts
      /\ ~panelKeys["cover_folder_names"].optional
  BY DEF panelKeys, Key
<1>5. list \in Holds(panelKeys["cover_folder_names"].kind)
  BY <1>3, <1>4, HoldsOf
<1>6. Fits(panelKeys["cover_folder_names"], list)
  BY <1>5 DEF Fits
<1>7. SettingsFit(Set(v, <<"cover_folder_names">>, list))
  BY <1>4, <1>6, SetPanel
<1> QED BY <1>2, <1>7 DEF edit_folder_names

\* The keys a check box changes are never absent.
LEMMA FlagKeys ==
  /\ \A p \in Flags(panel_specs ++ column_specs) :
       p \in DOMAIN settings_spec /\ settings_spec[p].kind = flag /\ ~settings_spec[p].optional
  /\ \A p \in Flags(visualization_specs) :
       p \in DOMAIN settings_spec /\ settings_spec[p].kind = flag /\ ~settings_spec[p].optional
<1>1. ASSUME NEW p \in Flags(panel_specs ++ column_specs)
      PROVE  p \in DOMAIN settings_spec /\ settings_spec[p].kind = flag /\ ~settings_spec[p].optional
  <2>1. PICK m : m = panel_specs ++ column_specs
    OBVIOUS
  <2>2. p \in DOMAIN m /\ m[p].kind = flag
    BY <2>1 DEF Flags
  <2>3. CASE p \in DOMAIN panel_specs
    <3>1. m[p] = panel_specs[p]
      BY <2>1, <2>3, MergedIs
    <3>2. ~panel_specs[p].optional
      <4>1. Under(<<>>, panelKeys, panel_specs)
        <5>1. <<>> \in Seq(Strings)
          OBVIOUS
        <5> QED BY <5>1, TablesSound, SectionSound DEF panel_specs
      <4> QED BY <2>3, <4>1 DEF Under
    <3> QED BY <2>2, <2>3, <3>1, <3>2, SettingsTable
  <2>4. CASE p \notin DOMAIN panel_specs
    <3>1. p \in DOMAIN column_specs
      BY <2>1, <2>2, <2>4, MergedIs
    <3>2. m[p] = column_specs[p]
      <4>1. p \in DOMAIN column_specs \ DOMAIN panel_specs
        BY <2>4, <3>1
      <4>2. (panel_specs ++ column_specs)[p] = column_specs[p]
        <5>1. \A x \in DOMAIN column_specs \ DOMAIN panel_specs : (panel_specs ++ column_specs)[x] = column_specs[x]
          BY MergedIs, Zenon
        <5> QED BY <4>1, <5>1
      <4> QED BY <2>1, <4>2
    <3> QED BY <2>2, <3>1, <3>2, SettingsTable, ColumnTable
  <2> QED BY <2>3, <2>4
<1>2. ASSUME NEW p \in Flags(visualization_specs)
      PROVE  p \in DOMAIN settings_spec /\ settings_spec[p].kind = flag /\ ~settings_spec[p].optional
  BY SettingsTable, VisualizationTable DEF Flags
<1> QED BY <1>1, <1>2

LEMMA ToggleFits ==
  ASSUME NEW v, SettingsFit(v), NEW path,
         path \in Flags(panel_specs ++ column_specs) \/ path \in Flags(visualization_specs)
  PROVE  SettingsFit(toggle(v, path))
BY FlagKeys, HoldsOf, SetKey DEF Fits, toggle

LEMMA MoveFits ==
  ASSUME NEW v, SettingsFit(v), SettingsOK(v), NEW key \in {ColumnOrder, CoverPriority}, NEW i \in 1 .. Len(v[key])
  PROVE  SettingsFit(move_up(v, key, i)) /\ SettingsFit(move_down(v, key, i))
<1>1. PICK all : (key = ColumnOrder /\ all = Columns) \/ (key = CoverPriority /\ all = CoverSources)
  OBVIOUS
<1>2. PICK list : list = v[key]
  OBVIOUS
<1>3. Orders(list, all) /\ key \in DOMAIN v
  BY <1>1, <1>2 DEF SettingsOK
<1>4. Len(list) \in Nat
  BY <1>3 DEF Orders
<1>5. ASSUME NEW to \in 1 .. Len(list), to = i - 1 \/ to = i + 1
      PROVE  SettingsFit(Set(v, key, move_item(list, i, to)))
  <2>1. PICK w : w = Set(v, key, move_item(list, i, to))
    OBVIOUS
  <2>2. Orders(move_item(list, i, to), all)
    BY <1>2, <1>3, <1>5, MovedOrders
  <2>3. DOMAIN w = DOMAIN v /\ w[key] = move_item(list, i, to) /\ \A q \in DOMAIN v : q # key => w[q] = v[q]
    BY <1>3, <2>1, SetIs
  <2>4. SettingsFit(w)
    BY <1>1, <2>2, <2>3, OrderFits
  <2> QED BY <2>1, <2>4
<1>6. SettingsFit(move_up(v, key, i))
  <2>1. CASE i \in 2 .. Len(list)
    BY <1>2, <1>4, <1>5, <2>1 DEF move_up
  <2>2. CASE i \notin 2 .. Len(list)
    BY <1>2, <2>2 DEF move_up
  <2> QED BY <2>1, <2>2
<1>7. SettingsFit(move_down(v, key, i))
  <2>1. CASE i \in 1 .. (Len(list) - 1)
    BY <1>2, <1>4, <1>5, <2>1 DEF move_down
  <2>2. CASE i \notin 1 .. (Len(list) - 1)
    BY <1>2, <2>2 DEF move_down
  <2> QED BY <2>1, <2>2
<1> QED BY <1>6, <1>7

-----------------------------------------------------------------------------
(* Edits of the visualization leave what the reader takes                   *)

LEMMA SetOscilloscope ==
  ASSUME NEW v, SettingsFit(v), NEW k \in DOMAIN OscilloscopeAll, NEW x, Fits(OscilloscopeAll[k], x)
  PROVE  SettingsFit(Set(v, Oscilloscope(k), x))
BY VisualizationTable, SettingsTable, SetKey

LEMMA SetSpectrogram ==
  ASSUME NEW v, SettingsFit(v), NEW k \in DOMAIN SpectrogramAll, NEW x, Fits(SpectrogramAll[k], x)
  PROVE  SettingsFit(Set(v, Spectrogram(k), x))
BY VisualizationTable, SettingsTable, SetKey

LEMMA SetSpectrum ==
  ASSUME NEW v, SettingsFit(v), NEW k \in DOMAIN SpectrumAll, NEW x, Fits(SpectrumAll[k], x)
  PROVE  SettingsFit(Set(v, Spectrum(k), x))
BY VisualizationTable, SettingsTable, SetKey

\* The keys of each type: the common ones, and its own.
LEMMA KeysOfTypes ==
  /\ \A k \in DOMAIN common : /\ k \in DOMAIN OscilloscopeAll /\ OscilloscopeAll[k] = common[k]
                              /\ k \in DOMAIN SpectrogramAll /\ SpectrogramAll[k] = common[k]
                              /\ k \in DOMAIN SpectrumAll /\ SpectrumAll[k] = common[k]
  /\ \A k \in DOMAIN oscilloscopeKeys :
       k \in DOMAIN OscilloscopeAll /\ OscilloscopeAll[k] = oscilloscopeKeys[k]
  /\ \A k \in DOMAIN spectrogramKeys :
       k \in DOMAIN SpectrogramAll /\ SpectrogramAll[k] = spectrogramKeys[k]
  /\ \A k \in DOMAIN spectrumKeys :
       k \in DOMAIN SpectrumAll /\ SpectrumAll[k] = spectrumKeys[k]
<1>1. DOMAIN common = {"channels", "bg_color", "fg_color", "sensitivity"}
  BY DEF common
<1>2. DOMAIN cached = {"cache_in_memory", "cache_on_disk"}
  BY DEF cached
<1>3. \A k \in DOMAIN common : k \notin DOMAIN cached
  BY <1>1, <1>2
<1>4. \A k \in DOMAIN common \cup DOMAIN cached :
        k \notin DOMAIN oscilloscopeKeys /\ k \notin DOMAIN spectrogramKeys
  BY <1>1, <1>2 DEF oscilloscopeKeys, spectrogramKeys
<1>5. \A k \in DOMAIN common : k \notin DOMAIN spectrumKeys
  BY <1>1 DEF spectrumKeys
<1>6. PICK both : both = common ++ cached
  OBVIOUS
<1>7. DOMAIN both = DOMAIN common \cup DOMAIN cached /\ \A k \in DOMAIN common : both[k] = common[k]
  BY <1>6, MergedIs
<1>8. OscilloscopeAll = both ++ oscilloscopeKeys /\ SpectrogramAll = both ++ spectrogramKeys
  BY <1>6, Zenon DEF OscilloscopeAll, SpectrogramAll
<1>9. ASSUME NEW own, \A k \in DOMAIN common \cup DOMAIN cached : k \notin DOMAIN own
      PROVE  /\ \A k \in DOMAIN common : k \in DOMAIN (both ++ own) /\ (both ++ own)[k] = common[k]
             /\ \A k \in DOMAIN own : k \in DOMAIN (both ++ own) /\ (both ++ own)[k] = own[k]
  BY <1>7, <1>9 DEF ++
<1>10. /\ \A k \in DOMAIN common : k \in DOMAIN SpectrumAll /\ SpectrumAll[k] = common[k]
       /\ \A k \in DOMAIN spectrumKeys : k \in DOMAIN SpectrumAll /\ SpectrumAll[k] = spectrumKeys[k]
  BY <1>5 DEF SpectrumAll, ++
<1> QED BY <1>4, <1>8, <1>9, <1>10, Zenon

LEMMA ClampIs ==
  ASSUME NEW lo \in Int, NEW hi \in Int, lo <= hi, NEW x \in Int
  PROVE  /\ clamp(x, lo, hi) \in within(lo, hi)
         /\ lo >= 0 => clamp_u32(x, lo, hi) \in within(lo, hi)
BY DEF clamp, clamp_u32, within

LEMMA VizNumbersAt ==
  ASSUME NEW path \in DOMAIN vizNumbers
  PROVE  \/ path = Oscilloscope("sensitivity") /\ vizNumbers[path] = <<1, 2000>>
         \/ path = Oscilloscope("line_width") /\ vizNumbers[path] = <<50, 400>>
         \/ path = Spectrogram("sensitivity") /\ vizNumbers[path] = <<1, 2000>>
         \/ path = Spectrogram("gain_db") /\ vizNumbers[path] = <<-4000, 10000>>
         \/ path = Spectrogram("range_db") /\ vizNumbers[path] = <<100, 20000>>
         \/ path = Spectrogram("high_boost_db") /\ vizNumbers[path] = <<0, 6000>>
         \/ path = Spectrum("sensitivity") /\ vizNumbers[path] = <<1, 2000>>
         \/ path = Spectrum("smoothing") /\ vizNumbers[path] = <<0, 99>>
<1> DEFINE Row(p, x) == \/ p = Oscilloscope("sensitivity") /\ x = <<1, 2000>>
                        \/ p = Oscilloscope("line_width") /\ x = <<50, 400>>
                        \/ p = Spectrogram("sensitivity") /\ x = <<1, 2000>>
                        \/ p = Spectrogram("gain_db") /\ x = <<-4000, 10000>>
                        \/ p = Spectrogram("range_db") /\ x = <<100, 20000>>
                        \/ p = Spectrogram("high_boost_db") /\ x = <<0, 6000>>
                        \/ p = Spectrum("sensitivity") /\ x = <<1, 2000>>
                        \/ p = Spectrum("smoothing") /\ x = <<0, 99>>
<1> DEFINE Rows(f) == \A p \in DOMAIN f : Row(p, f[p])
<1>1. /\ Row(Oscilloscope("sensitivity"), <<1, 2000>>)
      /\ Row(Oscilloscope("line_width"), <<50, 400>>)
      /\ Row(Spectrogram("sensitivity"), <<1, 2000>>)
      /\ Row(Spectrogram("gain_db"), <<-4000, 10000>>)
      /\ Row(Spectrogram("range_db"), <<100, 20000>>)
      /\ Row(Spectrogram("high_boost_db"), <<0, 6000>>)
      /\ Row(Spectrum("sensitivity"), <<1, 2000>>)
      /\ Row(Spectrum("smoothing"), <<0, 99>>)
  OBVIOUS
<1> HIDE DEF Row
<1>2. \A f, g : Rows(f) /\ Rows(g) => Rows(f ++ g)
  BY DEF ++
<1>3. \A p, x : Row(p, x) => Rows(Single(p, x))
  BY DEF Single
<1> HIDE DEF Rows
<1>4. /\ Rows(Single(Oscilloscope("sensitivity"), <<1, 2000>>))
      /\ Rows(Single(Oscilloscope("line_width"), <<50, 400>>))
      /\ Rows(Single(Spectrogram("sensitivity"), <<1, 2000>>))
      /\ Rows(Single(Spectrogram("gain_db"), <<-4000, 10000>>))
      /\ Rows(Single(Spectrogram("range_db"), <<100, 20000>>))
      /\ Rows(Single(Spectrogram("high_boost_db"), <<0, 6000>>))
      /\ Rows(Single(Spectrum("sensitivity"), <<1, 2000>>))
      /\ Rows(Single(Spectrum("smoothing"), <<0, 99>>))
  BY <1>1, <1>3
<1>5. Rows(vizNumbers)
  BY <1>2, <1>4 DEF vizNumbers
<1>6. Row(path, vizNumbers[path])
  BY <1>5 DEF Rows
<1> QED BY <1>6 DEF Row

LEMMA VizCountsAt ==
  ASSUME NEW path \in DOMAIN vizCounts
  PROVE  \/ path = Oscilloscope("max_columns") /\ vizCounts[path] = <<512, 8192>>
         \/ path = Spectrogram("max_frames") /\ vizCounts[path] = <<512, 8192>>
         \/ path = Spectrum("peak_decay_ms") /\ vizCounts[path] = <<50, 2000>>
         \/ path = Spectrum("bar_gap") /\ vizCounts[path] = <<0, 10>>
         \/ path = Spectrum("bar_radius") /\ vizCounts[path] = <<0, 12>>
<1> DEFINE Row(p, x) == \/ p = Oscilloscope("max_columns") /\ x = <<512, 8192>>
                        \/ p = Spectrogram("max_frames") /\ x = <<512, 8192>>
                        \/ p = Spectrum("peak_decay_ms") /\ x = <<50, 2000>>
                        \/ p = Spectrum("bar_gap") /\ x = <<0, 10>>
                        \/ p = Spectrum("bar_radius") /\ x = <<0, 12>>
<1> DEFINE Rows(f) == \A p \in DOMAIN f : Row(p, f[p])
<1>1. /\ Row(Oscilloscope("max_columns"), <<512, 8192>>)
      /\ Row(Spectrogram("max_frames"), <<512, 8192>>)
      /\ Row(Spectrum("peak_decay_ms"), <<50, 2000>>)
      /\ Row(Spectrum("bar_gap"), <<0, 10>>)
      /\ Row(Spectrum("bar_radius"), <<0, 12>>)
  OBVIOUS
<1> HIDE DEF Row
<1>2. \A f, g : Rows(f) /\ Rows(g) => Rows(f ++ g)
  BY DEF ++
<1>3. \A p, x : Row(p, x) => Rows(Single(p, x))
  BY DEF Single
<1> HIDE DEF Rows
<1>4. /\ Rows(Single(Oscilloscope("max_columns"), <<512, 8192>>))
      /\ Rows(Single(Spectrogram("max_frames"), <<512, 8192>>))
      /\ Rows(Single(Spectrum("peak_decay_ms"), <<50, 2000>>))
      /\ Rows(Single(Spectrum("bar_gap"), <<0, 10>>))
      /\ Rows(Single(Spectrum("bar_radius"), <<0, 12>>))
  BY <1>1, <1>3
<1>5. Rows(vizCounts)
  BY <1>2, <1>4 DEF vizCounts
<1>6. Row(path, vizCounts[path])
  BY <1>5 DEF Rows
<1> QED BY <1>6 DEF Row

LEMMA VizNumberFits ==
  ASSUME NEW v, SettingsFit(v), NEW path \in DOMAIN vizNumbers, NEW n \in Int
  PROVE  SettingsFit(edit_viz_number(v, path, n))
<1>1. ASSUME NEW lo \in Int, NEW hi \in Int, lo <= hi, vizNumbers[path] = <<lo, hi>>
      PROVE  \E x \in within(lo, hi) : edit_viz_number(v, path, n) = Set(v, path, x)
  BY <1>1, ClampIs DEF edit_viz_number
<1>2. CASE path = Oscilloscope("sensitivity") /\ vizNumbers[path] = <<1, 2000>>
  <2>1. PICK x \in within(1, 2000) : edit_viz_number(v, path, n) = Set(v, path, x)
    BY <1>1, <1>2
  <2>2. "sensitivity" \in DOMAIN common /\ common["sensitivity"] = Key(number(Int), 100)
    BY DEF common
  <2>3. "sensitivity" \in DOMAIN OscilloscopeAll /\ OscilloscopeAll["sensitivity"] = Key(number(Int), 100)
    BY <2>2, KeysOfTypes
  <2>4. x \in Holds(number(Int))
    BY <2>1, HoldsOf, WithinIs
  <2>5. Fits(OscilloscopeAll["sensitivity"], x)
    BY <2>3, <2>4, FitsIs
  <2> QED BY <1>2, <2>1, <2>3, <2>5, SetOscilloscope
<1>3. CASE path = Oscilloscope("line_width") /\ vizNumbers[path] = <<50, 400>>
  <2>1. PICK x \in within(50, 400) : edit_viz_number(v, path, n) = Set(v, path, x)
    BY <1>1, <1>3
  <2>2. "line_width" \in DOMAIN oscilloscopeKeys /\ oscilloscopeKeys["line_width"] = Key(number(within(50, 400)), 120)
    BY DEF oscilloscopeKeys
  <2>3. "line_width" \in DOMAIN OscilloscopeAll /\ OscilloscopeAll["line_width"] = Key(number(within(50, 400)), 120)
    BY <2>2, KeysOfTypes
  <2>4. x \in Holds(number(within(50, 400)))
    BY <2>1, HoldsOf
  <2>5. Fits(OscilloscopeAll["line_width"], x)
    BY <2>3, <2>4, FitsIs
  <2> QED BY <1>3, <2>1, <2>3, <2>5, SetOscilloscope
<1>4. CASE path = Spectrogram("sensitivity") /\ vizNumbers[path] = <<1, 2000>>
  <2>1. PICK x \in within(1, 2000) : edit_viz_number(v, path, n) = Set(v, path, x)
    BY <1>1, <1>4
  <2>2. "sensitivity" \in DOMAIN common /\ common["sensitivity"] = Key(number(Int), 100)
    BY DEF common
  <2>3. "sensitivity" \in DOMAIN SpectrogramAll /\ SpectrogramAll["sensitivity"] = Key(number(Int), 100)
    BY <2>2, KeysOfTypes
  <2>4. x \in Holds(number(Int))
    BY <2>1, HoldsOf, WithinIs
  <2>5. Fits(SpectrogramAll["sensitivity"], x)
    BY <2>3, <2>4, FitsIs
  <2> QED BY <1>4, <2>1, <2>3, <2>5, SetSpectrogram
<1>5. CASE path = Spectrogram("gain_db") /\ vizNumbers[path] = <<-4000, 10000>>
  <2>1. PICK x \in within(-4000, 10000) : edit_viz_number(v, path, n) = Set(v, path, x)
    BY <1>1, <1>5
  <2>2. "gain_db" \in DOMAIN spectrogramKeys /\ spectrogramKeys["gain_db"] = Key(number(within(-4000, 10000)), 2000)
    BY DEF spectrogramKeys
  <2>3. "gain_db" \in DOMAIN SpectrogramAll /\ SpectrogramAll["gain_db"] = Key(number(within(-4000, 10000)), 2000)
    BY <2>2, KeysOfTypes
  <2>4. x \in Holds(number(within(-4000, 10000)))
    BY <2>1, HoldsOf
  <2>5. Fits(SpectrogramAll["gain_db"], x)
    BY <2>3, <2>4, FitsIs
  <2> QED BY <1>5, <2>1, <2>3, <2>5, SetSpectrogram
<1>6. CASE path = Spectrogram("range_db") /\ vizNumbers[path] = <<100, 20000>>
  <2>1. PICK x \in within(100, 20000) : edit_viz_number(v, path, n) = Set(v, path, x)
    BY <1>1, <1>6
  <2>2. "range_db" \in DOMAIN spectrogramKeys /\ spectrogramKeys["range_db"] = Key(number(within(100, 20000)), 8000)
    BY DEF spectrogramKeys
  <2>3. "range_db" \in DOMAIN SpectrogramAll /\ SpectrogramAll["range_db"] = Key(number(within(100, 20000)), 8000)
    BY <2>2, KeysOfTypes
  <2>4. x \in Holds(number(within(100, 20000)))
    BY <2>1, HoldsOf
  <2>5. Fits(SpectrogramAll["range_db"], x)
    BY <2>3, <2>4, FitsIs
  <2> QED BY <1>6, <2>1, <2>3, <2>5, SetSpectrogram
<1>7. CASE path = Spectrogram("high_boost_db") /\ vizNumbers[path] = <<0, 6000>>
  <2>1. PICK x \in within(0, 6000) : edit_viz_number(v, path, n) = Set(v, path, x)
    BY <1>1, <1>7
  <2>2. "high_boost_db" \in DOMAIN spectrogramKeys /\ spectrogramKeys["high_boost_db"] = Key(number(within(0, 6000)), 600)
    BY DEF spectrogramKeys
  <2>3. "high_boost_db" \in DOMAIN SpectrogramAll /\ SpectrogramAll["high_boost_db"] = Key(number(within(0, 6000)), 600)
    BY <2>2, KeysOfTypes
  <2>4. x \in Holds(number(within(0, 6000)))
    BY <2>1, HoldsOf
  <2>5. Fits(SpectrogramAll["high_boost_db"], x)
    BY <2>3, <2>4, FitsIs
  <2> QED BY <1>7, <2>1, <2>3, <2>5, SetSpectrogram
<1>8. CASE path = Spectrum("sensitivity") /\ vizNumbers[path] = <<1, 2000>>
  <2>1. PICK x \in within(1, 2000) : edit_viz_number(v, path, n) = Set(v, path, x)
    BY <1>1, <1>8
  <2>2. "sensitivity" \in DOMAIN common /\ common["sensitivity"] = Key(number(Int), 100)
    BY DEF common
  <2>3. "sensitivity" \in DOMAIN SpectrumAll /\ SpectrumAll["sensitivity"] = Key(number(Int), 100)
    BY <2>2, KeysOfTypes
  <2>4. x \in Holds(number(Int))
    BY <2>1, HoldsOf, WithinIs
  <2>5. Fits(SpectrumAll["sensitivity"], x)
    BY <2>3, <2>4, FitsIs
  <2> QED BY <1>8, <2>1, <2>3, <2>5, SetSpectrum
<1>9. CASE path = Spectrum("smoothing") /\ vizNumbers[path] = <<0, 99>>
  <2>1. PICK x \in within(0, 99) : edit_viz_number(v, path, n) = Set(v, path, x)
    BY <1>1, <1>9
  <2>2. "smoothing" \in DOMAIN spectrumKeys /\ spectrumKeys["smoothing"] = Key(number(within(0, 99)), 70)
    BY DEF spectrumKeys
  <2>3. "smoothing" \in DOMAIN SpectrumAll /\ SpectrumAll["smoothing"] = Key(number(within(0, 99)), 70)
    BY <2>2, KeysOfTypes
  <2>4. x \in Holds(number(within(0, 99)))
    BY <2>1, HoldsOf
  <2>5. Fits(SpectrumAll["smoothing"], x)
    BY <2>3, <2>4, FitsIs
  <2> QED BY <1>9, <2>1, <2>3, <2>5, SetSpectrum
<1> QED BY <1>2, <1>3, <1>4, <1>5, <1>6, <1>7, <1>8, <1>9, VizNumbersAt

LEMMA VizCountFits ==
  ASSUME NEW v, SettingsFit(v), NEW path \in DOMAIN vizCounts, NEW i \in Int
  PROVE  SettingsFit(edit_viz_count(v, path, i))
<1>1. ASSUME NEW lo \in Int, NEW hi \in Int, lo <= hi, lo >= 0, vizCounts[path] = <<lo, hi>>
      PROVE  \E x \in within(lo, hi) : edit_viz_count(v, path, i) = Set(v, path, x)
  BY <1>1, ClampIs DEF edit_viz_count
<1>2. CASE path = Oscilloscope("max_columns") /\ vizCounts[path] = <<512, 8192>>
  <2>1. PICK x \in within(512, 8192) : edit_viz_count(v, path, i) = Set(v, path, x)
    BY <1>1, <1>2
  <2>2. "max_columns" \in DOMAIN oscilloscopeKeys /\ oscilloscopeKeys["max_columns"] = Key(integer(within(512, 8192)), 2000)
    BY DEF oscilloscopeKeys
  <2>3. "max_columns" \in DOMAIN OscilloscopeAll /\ OscilloscopeAll["max_columns"] = Key(integer(within(512, 8192)), 2000)
    BY <2>2, KeysOfTypes
  <2>4. x \in Holds(integer(within(512, 8192)))
    BY <2>1, HoldsOf
  <2>5. Fits(OscilloscopeAll["max_columns"], x)
    BY <2>3, <2>4, FitsIs
  <2> QED BY <1>2, <2>1, <2>3, <2>5, SetOscilloscope
<1>3. CASE path = Spectrogram("max_frames") /\ vizCounts[path] = <<512, 8192>>
  <2>1. PICK x \in within(512, 8192) : edit_viz_count(v, path, i) = Set(v, path, x)
    BY <1>1, <1>3
  <2>2. "max_frames" \in DOMAIN spectrogramKeys /\ spectrogramKeys["max_frames"] = Key(integer(within(512, 8192)), 4000)
    BY DEF spectrogramKeys
  <2>3. "max_frames" \in DOMAIN SpectrogramAll /\ SpectrogramAll["max_frames"] = Key(integer(within(512, 8192)), 4000)
    BY <2>2, KeysOfTypes
  <2>4. x \in Holds(integer(within(512, 8192)))
    BY <2>1, HoldsOf
  <2>5. Fits(SpectrogramAll["max_frames"], x)
    BY <2>3, <2>4, FitsIs
  <2> QED BY <1>3, <2>1, <2>3, <2>5, SetSpectrogram
<1>4. CASE path = Spectrum("peak_decay_ms") /\ vizCounts[path] = <<50, 2000>>
  <2>1. PICK x \in within(50, 2000) : edit_viz_count(v, path, i) = Set(v, path, x)
    BY <1>1, <1>4
  <2>2. "peak_decay_ms" \in DOMAIN spectrumKeys /\ spectrumKeys["peak_decay_ms"] = Key(integer(Nat), 400)
    BY DEF spectrumKeys
  <2>3. "peak_decay_ms" \in DOMAIN SpectrumAll /\ SpectrumAll["peak_decay_ms"] = Key(integer(Nat), 400)
    BY <2>2, KeysOfTypes
  <2>4. x \in Holds(integer(Nat))
    BY <2>1, HoldsOf, WithinIs
  <2>5. Fits(SpectrumAll["peak_decay_ms"], x)
    BY <2>3, <2>4, FitsIs
  <2> QED BY <1>4, <2>1, <2>3, <2>5, SetSpectrum
<1>5. CASE path = Spectrum("bar_gap") /\ vizCounts[path] = <<0, 10>>
  <2>1. PICK x \in within(0, 10) : edit_viz_count(v, path, i) = Set(v, path, x)
    BY <1>1, <1>5
  <2>2. "bar_gap" \in DOMAIN spectrumKeys /\ spectrumKeys["bar_gap"] = Key(integer(within(0, 10)), 2)
    BY DEF spectrumKeys
  <2>3. "bar_gap" \in DOMAIN SpectrumAll /\ SpectrumAll["bar_gap"] = Key(integer(within(0, 10)), 2)
    BY <2>2, KeysOfTypes
  <2>4. x \in Holds(integer(within(0, 10)))
    BY <2>1, HoldsOf
  <2>5. Fits(SpectrumAll["bar_gap"], x)
    BY <2>3, <2>4, FitsIs
  <2> QED BY <1>5, <2>1, <2>3, <2>5, SetSpectrum
<1>6. CASE path = Spectrum("bar_radius") /\ vizCounts[path] = <<0, 12>>
  <2>1. PICK x \in within(0, 12) : edit_viz_count(v, path, i) = Set(v, path, x)
    BY <1>1, <1>6
  <2>2. "bar_radius" \in DOMAIN spectrumKeys /\ spectrumKeys["bar_radius"] = Key(integer(within(0, 12)), 2)
    BY DEF spectrumKeys
  <2>3. "bar_radius" \in DOMAIN SpectrumAll /\ SpectrumAll["bar_radius"] = Key(integer(within(0, 12)), 2)
    BY <2>2, KeysOfTypes
  <2>4. x \in Holds(integer(within(0, 12)))
    BY <2>1, HoldsOf
  <2>5. Fits(SpectrumAll["bar_radius"], x)
    BY <2>3, <2>4, FitsIs
  <2> QED BY <1>6, <2>1, <2>3, <2>5, SetSpectrum
<1> QED BY <1>2, <1>3, <1>4, <1>5, <1>6, VizCountsAt

\* A word that can be written is one that the key holds.
LEMMA WordsHeld ==
  ASSUME NEW kind, KindOK(kind), kind.type = "word", NEW w \in DOMAIN kind.written
  PROVE  w \in Holds(kind)
<1>1. Holds(kind) = DOMAIN kind.written
  BY DEF Holds
<1> QED BY <1>1

LEMMA VizWordFits ==
  ASSUME NEW v, SettingsFit(v), NEW path \in DOMAIN visualization_specs,
         visualization_specs[path].kind.type = "word",
         NEW w \in DOMAIN visualization_specs[path].kind.written
  PROVE  SettingsFit(Set(v, path, w))
BY VisualizationTable, WordsHeld, SettingsTable, SetKey DEF PartOK, SpecOK, KeyOK, Fits

LEMMA FftFits ==
  ASSUME NEW v, SettingsFit(v), NEW i \in -1 .. 5
  PROVE  SettingsFit(Set(v, Spectrogram("fft_size"), fft_from_index(i)))
BY HoldsOf, FitsIs, KeysOfTypes, SetSpectrogram DEF clamp, fft_from_index, spectrogramKeys

LEMMA ResetFits ==
  ASSUME NEW v, SettingsFit(v), NEW type \in Strings
  PROVE  SettingsFit(reset_viz_type(v, type))
<1>1. PICK w : w = reset_viz_type(v, type)
  OBVIOUS
<1>2. PICK prefix : prefix = <<"visualization", type>>
  OBVIOUS
<1>3. prefix \in Seq(Strings) /\ Len(prefix) = 2 /\ prefix[1] = "visualization"
  <2>1. "visualization" \in Strings
    BY SettingsFileAssumption
  <2>2. prefix \in Seq(Strings)
    BY <1>2, <2>1, TuplesArePaths
  <2> QED BY <1>2, <2>2
<1>4. /\ DOMAIN v = DOMAIN settings_spec \cup DOMAIN modeSpec \cup {Devices}
      /\ AllFit(settings_spec, v) /\ AllFit(modeSpec, v) /\ DevicesFit(v[Devices])
  BY DEF SettingsFit
<1>5. w = [path \in DOMAIN v |-> IF IsPrefix(prefix, path) THEN default_settings[path] ELSE v[path]]
  BY <1>1, <1>2, Zenon DEF reset_viz_type
<1>6. \A p \in DOMAIN modeSpec \cup {Devices} : p \in Seq(Strings) /\ p[1] = "playback"
  BY ModeSpecOK, PathsApart
<1>7. \A p \in DOMAIN modeSpec \cup {Devices} : ~IsPrefix(prefix, p)
  <2> SUFFICES ASSUME NEW p \in DOMAIN modeSpec \cup {Devices}, IsPrefix(prefix, p) PROVE FALSE
    OBVIOUS
  <2>1. \A i \in 1 .. Len(prefix) : prefix[i] = p[i]
    BY <1>3, <1>6, PrefixIs
  <2>2. 1 \in 1 .. Len(prefix)
    BY <1>3
  <2> QED BY <1>3, <1>6, <2>1, <2>2
<1>8. \A p \in DOMAIN settings_spec : w[p] \in {default_settings[p], v[p]}
  BY <1>4, <1>5
<1>9. \A p \in DOMAIN modeSpec \cup {Devices} : w[p] = v[p]
  BY <1>4, <1>5, <1>7
<1>10. AllFit(settings_spec, default_settings)
  BY DefaultSettingsFit DEF SettingsFit
<1>11. AllFit(settings_spec, w)
  BY <1>4, <1>8, <1>10 DEF AllFit
<1>12. AllFit(modeSpec, w) /\ w[Devices] = v[Devices]
  BY <1>4, <1>9 DEF AllFit
<1>13. DOMAIN w = DOMAIN v
  BY <1>5
<1>14. SettingsFit(w)
  BY <1>4, <1>11, <1>12, <1>13 DEF SettingsFit
<1> QED BY <1>1, <1>14

LEMMA TextsFit ==
  ASSUME NEW v, SettingsFit(v), NEW fmin, NEW fmax, NEW bands
  PROVE  SettingsFit(viz_apply_validated_texts(v, fmin, fmax, bands))
<1>1. /\ "freq_min" \in DOMAIN spectrogramKeys /\ spectrogramKeys["freq_min"] = Key(integer(Nat), 20)
      /\ "freq_max" \in DOMAIN spectrogramKeys /\ spectrogramKeys["freq_max"] = Key(integer(Nat), 22000)
  BY DEF spectrogramKeys
<1>2. "bands" \in DOMAIN spectrumKeys /\ spectrumKeys["bands"] = Key(integer(within(4, 128)), 32)
  BY DEF spectrumKeys
<1>3. ASSUME NEW u, SettingsFit(u), NEW f \in within(1, 22050)
      PROVE  SettingsFit(Set(u, Spectrogram("freq_min"), f)) /\ SettingsFit(Set(u, Spectrogram("freq_max"), f))
  <2>1. f \in Nat
    BY WithinIs
  <2>2. f \in Holds(integer(Nat))
    BY <2>1, HoldsOf
  <2>3. /\ "freq_min" \in DOMAIN SpectrogramAll /\ Fits(SpectrogramAll["freq_min"], f)
        /\ "freq_max" \in DOMAIN SpectrogramAll /\ Fits(SpectrogramAll["freq_max"], f)
    BY <1>1, <2>2, FitsIs, KeysOfTypes
  <2> QED BY <1>3, <2>3, SetSpectrogram
<1>4. ASSUME NEW u, SettingsFit(u), NEW b \in within(4, 128)
      PROVE  SettingsFit(Set(u, Spectrum("bands"), b))
  <2>1. b \in Holds(integer(within(4, 128)))
    BY HoldsOf
  <2>2. "bands" \in DOMAIN SpectrumAll /\ Fits(SpectrumAll["bands"], b)
    BY <1>2, <2>1, FitsIs, KeysOfTypes
  <2> QED BY <1>4, <2>2, SetSpectrum
<1> DEFINE valid(f) == f # None /\ f \in within(1, 22050)
<1> DEFINE cross_ok == valid(fmin) /\ valid(fmax) => fmin < fmax
<1>5. PICK low : low = IF valid(fmin) /\ cross_ok THEN Set(v, Spectrogram("freq_min"), fmin) ELSE v
  OBVIOUS
<1>6. PICK high : high = IF valid(fmax) /\ cross_ok THEN Set(low, Spectrogram("freq_max"), fmax) ELSE low
  OBVIOUS
<1>7. PICK all : all = IF bands # None /\ bands \in within(4, 128) THEN Set(high, Spectrum("bands"), bands) ELSE high
  OBVIOUS
<1>8. viz_apply_validated_texts(v, fmin, fmax, bands) = all
  BY <1>5, <1>6, <1>7 DEF viz_apply_validated_texts
<1>9. SettingsFit(low)
  BY <1>3, <1>5
<1>10. SettingsFit(high)
  BY <1>3, <1>6, <1>9
<1>11. SettingsFit(all)
  BY <1>4, <1>7, <1>10
<1> QED BY <1>8, <1>11

-----------------------------------------------------------------------------
(* Edits of the modes leave what the reader takes                           *)

Choosable(key) == key.kind.type \in {"flag", "word", "integer"}

LEMMA ChoosableKinds ==
  \A d : /\ Choosable(Optional(flag, d)) /\ Choosable(Optional(SrcFilter, d)) /\ Choosable(Optional(Dither, d))
         /\ Choosable(Optional(RateFallback, d)) /\ Choosable(Optional(DsdAboveDac, d))
         /\ Choosable(Optional(DsdFilter, d)) /\ Choosable(Optional(BufferMs, d))
         /\ Choosable(Optional(DeviceBuffer, d)) /\ Choosable(Optional(integer(Nat \ {0}), d))
<1>1. /\ flag.type = "flag" /\ SrcFilter.type = "word" /\ Dither.type = "word" /\ RateFallback.type = "word"
      /\ DsdAboveDac.type = "word"
  BY DEF flag, SrcFilter, Dither, RateFallback, DsdAboveDac, word
<1>2. /\ DsdFilter.type = "integer" /\ BufferMs.type = "integer" /\ DeviceBuffer.type = "integer"
      /\ integer(Nat \ {0}).type = "integer"
  BY DEF DsdFilter, BufferMs, DeviceBuffer, integer
<1> QED BY <1>1, <1>2, FitsIs DEF Choosable

LEMMA CompatibleChoices ==
  \A k \in DOMAIN compatibleKeys : k # "device" => Choosable(compatibleKeys[k])
<1>1. DOMAIN compatibleKeys = {"device", "fixed_rate", "src_filter", "dither", "dsd_filter", "dsd_gain_comp", "buffer"}
  BY DEF compatibleKeys
<1>2. Choosable(compatibleKeys["fixed_rate"])
  <2>1. compatibleKeys["fixed_rate"] = Optional(integer(Nat \ {0}), None)
    BY DEF compatibleKeys
  <2> QED BY <2>1, ChoosableKinds
<1>3. Choosable(compatibleKeys["src_filter"])
  <2>1. compatibleKeys["src_filter"] = Optional(SrcFilter, "Steep")
    BY DEF compatibleKeys
  <2> QED BY <2>1, ChoosableKinds
<1>4. Choosable(compatibleKeys["dither"])
  <2>1. compatibleKeys["dither"] = Optional(Dither, "Tpdf")
    BY DEF compatibleKeys
  <2> QED BY <2>1, ChoosableKinds
<1>5. Choosable(compatibleKeys["dsd_filter"])
  <2>1. compatibleKeys["dsd_filter"] = Optional(DsdFilter, 30)
    BY DEF compatibleKeys
  <2> QED BY <2>1, ChoosableKinds
<1>6. Choosable(compatibleKeys["dsd_gain_comp"])
  <2>1. compatibleKeys["dsd_gain_comp"] = Optional(flag, TRUE)
    BY DEF compatibleKeys
  <2> QED BY <2>1, ChoosableKinds
<1>7. Choosable(compatibleKeys["buffer"])
  <2>1. compatibleKeys["buffer"] = Optional(BufferMs, 1500)
    BY DEF compatibleKeys
  <2> QED BY <2>1, ChoosableKinds
<1> QED BY <1>1, <1>2, <1>3, <1>4, <1>5, <1>6, <1>7

LEMMA OptimalChoices ==
  \A k \in DOMAIN optimalKeys : k # "device" => Choosable(optimalKeys[k])
<1>1. DOMAIN optimalKeys = {"device", "rate_fallback", "src_filter", "dither", "volume_lock", "dsd_above_dac", "dsd_filter", "dsd_gain_comp", "buffer", "device_buffer_ms"}
  BY DEF optimalKeys
<1>2. Choosable(optimalKeys["rate_fallback"])
  <2>1. optimalKeys["rate_fallback"] = Optional(RateFallback, "SameFamily")
    BY DEF optimalKeys
  <2> QED BY <2>1, ChoosableKinds
<1>3. Choosable(optimalKeys["src_filter"])
  <2>1. optimalKeys["src_filter"] = Optional(SrcFilter, "Steep")
    BY DEF optimalKeys
  <2> QED BY <2>1, ChoosableKinds
<1>4. Choosable(optimalKeys["dither"])
  <2>1. optimalKeys["dither"] = Optional(Dither, "Tpdf")
    BY DEF optimalKeys
  <2> QED BY <2>1, ChoosableKinds
<1>5. Choosable(optimalKeys["volume_lock"])
  <2>1. optimalKeys["volume_lock"] = Optional(flag, FALSE)
    BY DEF optimalKeys
  <2> QED BY <2>1, ChoosableKinds
<1>6. Choosable(optimalKeys["dsd_above_dac"])
  <2>1. optimalKeys["dsd_above_dac"] = Optional(DsdAboveDac, "ConvertToPcm")
    BY DEF optimalKeys
  <2> QED BY <2>1, ChoosableKinds
<1>7. Choosable(optimalKeys["dsd_filter"])
  <2>1. optimalKeys["dsd_filter"] = Optional(DsdFilter, 30)
    BY DEF optimalKeys
  <2> QED BY <2>1, ChoosableKinds
<1>8. Choosable(optimalKeys["dsd_gain_comp"])
  <2>1. optimalKeys["dsd_gain_comp"] = Optional(flag, TRUE)
    BY DEF optimalKeys
  <2> QED BY <2>1, ChoosableKinds
<1>9. Choosable(optimalKeys["buffer"])
  <2>1. optimalKeys["buffer"] = Optional(BufferMs, 1500)
    BY DEF optimalKeys
  <2> QED BY <2>1, ChoosableKinds
<1>10. Choosable(optimalKeys["device_buffer_ms"])
  <2>1. optimalKeys["device_buffer_ms"] = Optional(DeviceBuffer, 40)
    BY DEF optimalKeys
  <2> QED BY <2>1, ChoosableKinds
<1> QED BY <1>1, <1>2, <1>3, <1>4, <1>5, <1>6, <1>7, <1>8, <1>9, <1>10

LEMMA StrictChoices ==
  \A k \in DOMAIN strictKeys : k # "device" => Choosable(strictKeys[k])
<1>1. DOMAIN strictKeys = {"device", "buffer", "device_buffer_ms"}
  BY DEF strictKeys
<1>2. Choosable(strictKeys["buffer"])
  <2>1. strictKeys["buffer"] = Optional(BufferMs, 1500)
    BY DEF strictKeys
  <2> QED BY <2>1, ChoosableKinds
<1>3. Choosable(strictKeys["device_buffer_ms"])
  <2>1. strictKeys["device_buffer_ms"] = Optional(DeviceBuffer, 40)
    BY DEF strictKeys
  <2> QED BY <2>1, ChoosableKinds
<1> QED BY <1>1, <1>2, <1>3

LEMMA ChoosableOptions == \A p \in DOMAIN modeSpec : p[3] # "device" => Choosable(modeSpec[p])
<1> SUFFICES ASSUME NEW p \in DOMAIN modeSpec, p[3] # "device" PROVE Choosable(modeSpec[p])
  OBVIOUS
<1>1. PICK k : k = p[3]
  OBVIOUS
<1>2. CASE k \in DOMAIN compatibleKeys /\ p = Option("compatible", k)
  <2>1. modeSpec[Option("compatible", k)] = compatibleKeys[k]
    BY <1>2, ModePaths, Zenon
  <2>2. Choosable(compatibleKeys[k])
    BY <1>1, <1>2, CompatibleChoices
  <2> QED BY <1>2, <2>1, <2>2
<1>3. CASE k \in DOMAIN optimalKeys /\ p = Option("optimal", k)
  <2>1. modeSpec[Option("optimal", k)] = optimalKeys[k]
    BY <1>3, ModePaths, Zenon
  <2>2. Choosable(optimalKeys[k])
    BY <1>1, <1>3, OptimalChoices
  <2> QED BY <1>3, <2>1, <2>2
<1>4. CASE k \in DOMAIN strictKeys /\ p = Option("strict", k)
  <2>1. modeSpec[Option("strict", k)] = strictKeys[k]
    BY <1>4, ModePaths, Zenon
  <2>2. Choosable(strictKeys[k])
    BY <1>1, <1>4, StrictChoices
  <2> QED BY <1>4, <2>1, <2>2
<1> QED BY <1>1, <1>2, <1>3, <1>4, ModePaths, Zenon

LEMMA BufferOptions ==
  \A m \in {"compatible", "optimal", "strict"} :
    Option(m, "buffer") \in DOMAIN modeSpec /\ modeSpec[Option(m, "buffer")] = Optional(BufferMs, 1500)
BY ModePaths DEF compatibleKeys, optimalKeys, strictKeys

LEMMA DeviceOptions ==
  \A m \in {"compatible", "optimal", "strict"} :
    /\ Option(m, "device") \in DOMAIN modeSpec
    /\ modeSpec[Option(m, "device")]
         = IF m = "compatible" THEN Optional(text, None) ELSE Optional(HwDeviceId, None)
BY ModePaths DEF compatibleKeys, optimalKeys, strictKeys

LEMMA SelectDeviceFits ==
  ASSUME NEW v, SettingsFit(v), NEW mode \in DOMAIN Chosen, NEW id \in Chosen[mode]
  PROVE  SettingsFit(set_device(v, mode, id))
<1>1. mode \in {"compatible", "optimal", "strict"} /\ id \in Strings
  BY DocumentsAssumption
<1>2. PICK x : x = IF id = "" \/ (mode # "compatible" /\ id \in Blank) THEN None ELSE id
  OBVIOUS
<1>3. PICK p : p = Option(mode, "device")
  OBVIOUS
<1>4. set_device(v, mode, id) = Set(v, p, x)
  BY <1>2, <1>3, Zenon DEF set_device, Set
<1>5. p \in DOMAIN modeSpec
  BY <1>1, <1>3, DeviceOptions
<1>6. Fits(modeSpec[p], x)
  <2>1. CASE mode = "compatible"
    <3>1. modeSpec[p] = Optional(text, None)
      BY <1>1, <1>3, <2>1, DeviceOptions
    <3>2. x = None \/ x \in Holds(text)
      BY <1>1, <1>2, HoldsOf
    <3> QED BY <3>1, <3>2, FitsIs
  <2>2. CASE mode # "compatible"
    <3>1. modeSpec[p] = Optional(HwDeviceId, None)
      BY <1>1, <1>3, <2>2, DeviceOptions
    <3>2. x = None \/ x \in Holds(HwDeviceId)
      BY <1>1, <1>2, <2>2, HoldsOf DEF HwDeviceId
    <3> QED BY <3>1, <3>2, FitsIs
  <2> QED BY <2>1, <2>2
<1>7. PICK w : w = Set(v, p, x)
  OBVIOUS
<1>8. p \in DOMAIN v
  BY <1>5 DEF SettingsFit
<1>9. DOMAIN w = DOMAIN v /\ w[p] = x /\ \A q \in DOMAIN v : q # p => w[q] = v[q]
  BY <1>7, <1>8, SetIs
<1>10. SettingsFit(w)
  BY <1>5, <1>6, <1>9, SetOption
<1> QED BY <1>4, <1>7, <1>10

\* Raising a buffer leaves it in its range.
LEMMA RaisedFits ==
  ASSUME NEW buffer \in BufferMs.range, NEW device \in DeviceBuffer.range
  PROVE  raise_buffer_for_device(buffer, device) \in BufferMs.range
BY WithinIs DEF BufferMs, DeviceBuffer, integer, raise_buffer_for_device, buffer_floor_ms

LEMMA BufferEditsFit ==
  ASSUME NEW v, SettingsFit(v), NEW mode \in Own
  PROVE  /\ \A ms \in DeviceBuffer.range : SettingsFit(apply_device_buffer(v, mode, ms))
         /\ \A ms \in BufferMs.range : SettingsFit(apply_buffer(v, mode, ms))
<1>1. /\ Buffer(mode) \in DOMAIN modeSpec /\ modeSpec[Buffer(mode)] = Optional(BufferMs, 1500)
      /\ OfDevice(mode) \in DOMAIN modeSpec /\ modeSpec[OfDevice(mode)] = Optional(DeviceBuffer, 40)
  BY BufferKeys
<1>2. Buffer(mode) # OfDevice(mode)
  BY KeysDiffer
<1>3. Buffer(mode) \in DOMAIN v /\ OfDevice(mode) \in DOMAIN v
  BY <1>1 DEF SettingsFit
<1>4. v[Buffer(mode)] \in BufferMs.range /\ v[OfDevice(mode)] \in DeviceBuffer.range
  <2>1. AllFit(modeSpec, v)
    BY DEF SettingsFit
  <2>2. Readable(v, mode)
    <3>1. DOMAIN modeSpec \subseteq DOMAIN v
      BY DEF SettingsFit
    <3> QED BY <2>1, <3>1, FitReadable
  <2> QED BY <2>2 DEF Readable
<1>5. Holds(BufferMs) = BufferMs.range /\ Holds(DeviceBuffer) = DeviceBuffer.range
  BY DEF Holds, BufferMs, DeviceBuffer, integer
<1>6. ASSUME NEW ms \in DeviceBuffer.range PROVE SettingsFit(apply_device_buffer(v, mode, ms))
  <2>1. PICK b : b = raise_buffer_for_device(v[Buffer(mode)], ms)
    OBVIOUS
  <2>2. b \in BufferMs.range
    BY <1>4, <2>1, RaisedFits
  <2>3. PICK u : u = Set(v, OfDevice(mode), ms)
    OBVIOUS
  <2>4. DOMAIN u = DOMAIN v /\ u[OfDevice(mode)] = ms /\ \A q \in DOMAIN v : q # OfDevice(mode) => u[q] = v[q]
    BY <1>3, <2>3, SetIs
  <2>5. SettingsFit(u)
    <3>1. Fits(modeSpec[OfDevice(mode)], u[OfDevice(mode)])
      BY <1>1, <1>5, <2>4, FitsIs
    <3> QED BY <1>1, <2>4, <3>1, SetOption
  <2>6. PICK w : w = Set(u, Buffer(mode), b)
    OBVIOUS
  <2>7. DOMAIN w = DOMAIN u /\ w[Buffer(mode)] = b /\ \A q \in DOMAIN u : q # Buffer(mode) => w[q] = u[q]
    BY <1>3, <2>4, <2>6, SetIs
  <2>8. SettingsFit(w)
    <3>1. Fits(modeSpec[Buffer(mode)], w[Buffer(mode)])
      BY <1>1, <1>5, <2>2, <2>7, FitsIs
    <3> QED BY <1>1, <2>5, <2>7, <3>1, SetOption
  <2>9. apply_device_buffer(v, mode, ms) = w
    BY <1>2, <1>3, <2>1, <2>3, <2>6 DEF apply_device_buffer, Set, Buffer, OfDevice
  <2> QED BY <2>8, <2>9
<1>7. ASSUME NEW ms \in BufferMs.range PROVE SettingsFit(apply_buffer(v, mode, ms))
  <2>1. PICK b : b = raise_buffer_for_device(ms, v[OfDevice(mode)])
    OBVIOUS
  <2>2. b \in BufferMs.range
    BY <1>4, <2>1, RaisedFits
  <2>3. PICK w : w = Set(v, Buffer(mode), b)
    OBVIOUS
  <2>4. DOMAIN w = DOMAIN v /\ w[Buffer(mode)] = b /\ \A q \in DOMAIN v : q # Buffer(mode) => w[q] = v[q]
    BY <1>3, <2>3, SetIs
  <2>5. SettingsFit(w)
    <3>1. Fits(modeSpec[Buffer(mode)], w[Buffer(mode)])
      BY <1>1, <1>5, <2>2, <2>4, FitsIs
    <3> QED BY <1>1, <2>4, <3>1, SetOption
  <2>6. mode # "compatible"
    BY DEF Own
  <2>7. apply_buffer(v, mode, ms) = w
    BY <2>1, <2>3, <2>6 DEF apply_buffer, Set, Buffer, OfDevice
  <2> QED BY <2>5, <2>7
<1> QED BY <1>6, <1>7

LEMMA EditOptionFits ==
  ASSUME NEW v, SettingsFit(v), NEW path \in DOMAIN modeSpec, path[3] \notin {"device", "fixed_rate"},
         NEW choice \in IF path[3] = "buffer" THEN Buffers ELSE Offered(path[2], path[3])
  PROVE  SettingsFit(apply_edit(v, path[2], path[3], choice))
<1>1. PICK m : m = path[2]
  OBVIOUS
<1>2. PICK k : k = path[3]
  OBVIOUS
<1>3. m \in {"compatible", "optimal", "strict"} /\ path = Option(m, k)
  BY <1>1, <1>2, ModePaths
<1>4. ASSUME NEW x, Fits(modeSpec[path], x) PROVE SettingsFit(Set(v, path, x))
  BY <1>4, SetIs, SetOption DEF SettingsFit
<1>5. ASSUME k # "buffer" PROVE choice \in Holds(modeSpec[path].kind)
  BY <1>1, <1>2, <1>3, <1>5, ChoosableOptions DEF Offered, Choosable, Holds
<1>6. CASE k = "device_buffer_ms"
  <2>1. "device_buffer_ms" \notin DOMAIN compatibleKeys
    BY DEF compatibleKeys
  <2>2. m \in Own
    BY <1>1, <1>2, <1>3, <1>6, <2>1, ModePaths DEF Own
  <2>3. modeSpec[path].kind = DeviceBuffer
    BY <1>3, <1>6, <2>2, BufferKeys, FitsIs DEF OfDevice
  <2>4. choice \in DeviceBuffer.range
    <3>1. Holds(DeviceBuffer) = DeviceBuffer.range
      BY DEF Holds, DeviceBuffer, integer
    <3>2. k # "buffer"
      BY <1>6
    <3> QED BY <1>5, <2>3, <3>1, <3>2
  <2>5. apply_edit(v, m, k, choice) = apply_device_buffer(v, m, choice)
    BY <1>6 DEF apply_edit
  <2> QED BY <1>1, <1>2, <2>2, <2>4, <2>5, BufferEditsFit
<1>7. CASE k = "buffer"
  <2>1. choice \in BufferMs.range
    BY <1>2, <1>7, DocumentsAssumption
  <2>2. apply_edit(v, m, k, choice) = apply_buffer(v, m, choice)
    BY <1>7 DEF apply_edit
  <2>3. CASE m \in Own
    BY <1>1, <1>2, <2>1, <2>2, <2>3, BufferEditsFit
  <2>4. CASE m = "compatible"
    <3>1. apply_buffer(v, m, choice) = Set(v, path, choice)
      BY <1>3, <1>7, <2>4 DEF apply_buffer, Set
    <3>2. Holds(BufferMs) = BufferMs.range
      BY DEF Holds, BufferMs, integer
    <3>3. modeSpec[path] = Optional(BufferMs, 1500)
      BY <1>3, <1>7, BufferOptions
    <3>4. Fits(modeSpec[path], choice)
      BY <2>1, <3>2, <3>3, FitsIs
    <3> QED BY <1>1, <1>2, <1>4, <2>2, <3>1, <3>4
  <2> QED BY <1>3, <2>3, <2>4 DEF Own
<1>8. CASE k \notin {"buffer", "device_buffer_ms"}
  <2>1. apply_edit(v, m, k, choice) = Set(v, path, choice)
    BY <1>3, <1>8 DEF apply_edit, Set
  <2>2. Fits(modeSpec[path], choice)
    BY <1>5, <1>8 DEF Fits
  <2> QED BY <1>1, <1>2, <1>4, <2>1, <2>2
<1> QED BY <1>6, <1>7, <1>8

LEMMA EditDopFits ==
  ASSUME NEW v, SettingsFit(v), NEW mode \in Own, NEW on PROVE SettingsFit(apply_device_dop(v, mode, on))
<1>1. PICK id : id = v[Option(mode, "device")]
  OBVIOUS
<1>2. PICK rest : rest = Restrict(v[Devices], DOMAIN v[Devices] \ {id})
  OBVIOUS
<1>3. CASE id = None
  BY <1>1, <1>3 DEF apply_device_dop
<1>4. CASE id # None
  <2>1. PICK entries : entries = IF on THEN rest ELSE rest ++ Single(id, FALSE)
    OBVIOUS
  <2>2. apply_device_dop(v, mode, on) = Set(v, Devices, entries)
    BY <1>1, <1>2, <1>4, <2>1 DEF apply_device_dop, Set
  <2>3. id \in Strings \ Blank
    BY <1>1, <1>4, DeviceOptions, HoldsOf, FitsIs DEF Own, SettingsFit, AllFit, HwDeviceId
  <2>4. DevicesFit(v[Devices])
    BY DEF SettingsFit
  <2>5. DevicesFit(rest)
    BY <1>2, <2>4 DEF DevicesFit, Restrict
  <2>6. DevicesFit(entries)
    <3>1. DevicesFit(rest ++ Single(id, FALSE))
      BY <2>3, <2>5 DEF DevicesFit, ++, Single
    <3> QED BY <2>1, <2>5, <3>1
  <2>7. PICK w : w = Set(v, Devices, entries)
    OBVIOUS
  <2>8. Devices \in DOMAIN v
    BY DEF SettingsFit
  <2>9. DOMAIN w = DOMAIN v /\ w[Devices] = entries /\ \A q \in DOMAIN v : q # Devices => w[q] = v[q]
    BY <2>7, <2>8, SetIs
  <2>10. \A q \in DOMAIN settings_spec \cup DOMAIN modeSpec : q \in DOMAIN v /\ w[q] = v[q]
    BY <2>9, PathsApart DEF SettingsFit
  <2>11. AllFit(settings_spec, w) /\ AllFit(modeSpec, w)
    BY <2>10 DEF SettingsFit, AllFit
  <2>12. SettingsFit(w)
    BY <2>6, <2>9, <2>11 DEF SettingsFit
  <2> QED BY <2>2, <2>7, <2>12
<1> QED BY <1>3, <1>4

-----------------------------------------------------------------------------
(* What is saved is found again                                             *)

\* What the program holds and what it saved last can be written and read, and
\* while nobody changed the file it says what was saved.
ValueFits(v) == IF State THEN StateFits(v) ELSE SettingsFit(v)

ValueOK(v) == IF State THEN StateOK(v) ELSE SettingsOK(v)

FileFits == file \in {NoFile, NotToml} \/ (file.read = "Parsed" /\ DocOK(file.doc))

Remembers ==
  /\ DocumentsInvariant
  /\ ValueFits(memory) /\ ValueFits(kept) /\ ValueOK(kept)
  /\ FileFits
  /\ file.read = "Parsed" /\ damaged = {} => file = Serialize(kept)
  /\ file = NoFile => kept = Defaults
  /\ phase = "loaded" /\ ~banned => memory = Parse(file).value /\ notes = Parse(file).notes

LEMMA MemoryIsOK == DocumentsInvariant => ValueOK(memory)
BY DEF DocumentsInvariant, ValueOK

LEMMA DefaultFits == ValueFits(Defaults) /\ ValueOK(Defaults)
BY DefaultStateFits, DefaultSettingsFit, DefaultStateOK, DefaultSettingsOK DEF ValueFits, ValueOK, Defaults

\* A value that fits is read again as it was written.
LEMMA RoundTrip ==
  ASSUME NEW v, ValueFits(v), ValueOK(v)
  PROVE  /\ Serialize(v).read = "Parsed" /\ DocOK(Serialize(v).doc)
         /\ Parse(Serialize(v)).notes = {}
<1>1. CASE State
  BY <1>1, StateRoundTrip DEF ValueFits, ValueOK, Serialize, Parse
<1>2. CASE ~State
  BY <1>2, WrittenDocument, SettingsRoundTrip DEF ValueFits, ValueOK, Serialize, Parse
<1> QED BY <1>1, <1>2

LEMMA ReadFits ==
  ASSUME NEW seen, seen.read = "Parsed" => DocOK(seen.doc) PROVE ValueFits(Parse(seen).value)
<1>1. StateFits(parse_state(seen).value)
  BY ParsedStateFits
<1>2. SettingsFit(parse_settings(seen).value)
  BY ParsedSettingsFit
<1> QED BY <1>1, <1>2 DEF ValueFits, Parse

\* Whatever a person puts into a document, it is one.
LEMMA PutFits ==
  ASSUME NEW doc, DocOK(doc), NEW path \in Seq(Strings), NEW raw \in Raws \cup {None}
  PROVE  DocOK(Put(doc, path, raw))
BY DEF Put, Restrict, ++, Single, DocOK

LEMMA RemembersInit == Init => Remembers
<1> SUFFICES ASSUME Init PROVE Remembers
  OBVIOUS
<1>1. /\ file = NoFile /\ phase = "stopped" /\ memory = Defaults /\ kept = Defaults
  BY DEF Init
<1>2. file.read # "Parsed"
  BY <1>1 DEF NoFile
<1> QED BY <1>1, <1>2, DocumentsInit, DefaultFits DEF Remembers, FileFits

LEMMA StartRemembers == ASSUME Remembers, Start PROVE Remembers'
<1>1. PICK seen \in {file} \cup (IF file = NoFile THEN {} ELSE {Unreadable}) :
        memory' = Parse(seen).value /\ notes' = Parse(seen).notes /\ banned' = (seen = Unreadable)
  BY DEF Start
<1>2. UNCHANGED <<scope, file, kept, damaged>>
  BY DEF Start
<1>3. DocumentsInvariant'
  BY StartKeeps DEF Remembers
<1>4. seen = file \/ seen = Unreadable
  BY <1>1
<1>5. seen.read = "Parsed" => DocOK(seen.doc)
  BY <1>4 DEF Remembers, FileFits, NoFile, NotToml, Unreadable
<1>6. ValueFits(memory')
  BY <1>1, <1>5, ReadFits
<1>7. ~banned' => memory' = Parse(file).value /\ notes' = Parse(file).notes
  BY <1>1, <1>4
<1> QED BY <1>2, <1>3, <1>6, <1>7
        DEF Remembers, ValueFits, ValueOK, FileFits, State, Serialize, Parse, Defaults

LEMMA StopRemembers == ASSUME Remembers, Stop PROVE Remembers'
<1>1. phase' = "stopped" /\ UNCHANGED <<scope, memory>>
  BY DEF Stop
<1>2. DocumentsInvariant'
  BY StopKeeps DEF Remembers
<1>3. CASE banned
  <2>1. UNCHANGED <<file, kept, damaged>>
    BY <1>3 DEF Stop
  <2> QED BY <1>1, <1>2, <2>1 DEF Remembers, ValueFits, ValueOK, FileFits, State, Serialize, Defaults
<1>4. CASE ~banned
  <2>1. file' = Serialize(memory) /\ kept' = memory
    BY <1>4 DEF Stop
  <2>2. ValueFits(memory) /\ ValueOK(memory)
    BY MemoryIsOK DEF Remembers
  <2>3. file'.read = "Parsed" /\ DocOK(file'.doc)
    BY <2>1, <2>2, RoundTrip
  <2>4. file' # NoFile
    BY <2>3 DEF NoFile
  <2>5. FileFits'
    BY <2>3 DEF FileFits
  <2>6. State' <=> State
    BY <1>1 DEF State
  <2>7. ValueFits(memory)' /\ ValueFits(kept)' /\ ValueOK(kept)'
    BY <1>1, <2>1, <2>2, <2>6 DEF ValueFits, ValueOK
  <2>8. file' = Serialize(kept)'
    BY <2>1, <2>6 DEF Serialize
  <2> QED BY <1>1, <1>2, <2>4, <2>5, <2>7, <2>8 DEF Remembers
<1> QED BY <1>3, <1>4

LEMMA DamageRemembers == ASSUME Remembers, Damage PROVE Remembers'
<1>1. PICK change \in Damages[scope] :
        /\ file' = Text(Put(file.doc, change[1], change[2]))
        /\ damaged' = damaged \cup {change[1]}
  BY DEF Damage
<1>2. /\ file.read = "Parsed" /\ phase = "stopped"
      /\ UNCHANGED <<scope, phase, memory, kept>>
  BY DEF Damage
<1>3. DocumentsInvariant'
  BY DamageKeeps DEF Remembers
<1>4. change[1] \in Seq(Strings) /\ change[2] \in Raws \cup {None}
  <2>1. PICK raws : raws = Raws \cup {None}
    OBVIOUS
  <2>2. PICK names : names = Seq(Strings)
    OBVIOUS
  <2>3. Damages \in [Scopes -> SUBSET (names \X raws)] /\ scope \in Scopes
    BY <2>1, <2>2, DocumentsAssumption DEF Remembers, DocumentsInvariant
  <2>4. change[1] \in names /\ change[2] \in raws
    BY <2>3
  <2> QED BY <2>1, <2>2, <2>4
<1>5. DocOK(file.doc)
  BY <1>2 DEF Remembers, FileFits, NoFile, NotToml
<1>6. PICK path : path = change[1]
  OBVIOUS
<1>7. PICK raw : raw = change[2]
  OBVIOUS
<1>8. PICK put : put = Put(file.doc, path, raw)
  OBVIOUS
<1>9. DocOK(put)
  BY <1>4, <1>5, <1>6, <1>7, <1>8, PutFits
<1>10. file' = Text(put)
  BY <1>1, <1>6, <1>7, <1>8
<1>11. file'.read = "Parsed" /\ DocOK(file'.doc)
  BY <1>9, <1>10 DEF Text
<1>12. FileFits' /\ file' # NoFile
  BY <1>11 DEF FileFits, NoFile
<1>13. damaged' # {}
  BY <1>1
<1>14. State' <=> State
  BY <1>2 DEF State
<1>15. ValueFits(memory)' /\ ValueFits(kept)' /\ ValueOK(kept)'
  BY <1>2, <1>14 DEF Remembers, ValueFits, ValueOK
<1> QED BY <1>2, <1>3, <1>12, <1>13, <1>15 DEF Remembers

LEMMA BreakRemembers == ASSUME Remembers, Break PROVE Remembers'
BY BreakKeeps DEF Break, Remembers, FileFits, NoFile, NotToml, State, ValueFits, ValueOK

\* An edit that leaves what the reader takes.
LEMMA EditRemembers ==
  ASSUME Remembers, NEW value, Becomes(value), ValueFits(value), DocumentsInvariant'
  PROVE  Remembers'
BY DEF Becomes, State, Remembers, ValueFits, ValueOK, FileFits, Serialize, Defaults

LEMMA SettingsRemember ==
  ASSUME Remembers, ~State, NEW value, Becomes(value), SettingsFit(value), DocumentsInvariant'
  PROVE  Remembers'
BY EditRemembers DEF ValueFits

LEMMA StateRemembers ==
  ASSUME Remembers, State, NEW value, Becomes(value), StateFits(value), DocumentsInvariant'
  PROVE  Remembers'
BY EditRemembers DEF ValueFits

LEMMA PanelRemembers ==
  ASSUME Remembers,
         SelectTheme \/ SetSaveInterval \/ SetPanelNumber \/ Move \/ EditFolderNames
  PROVE  Remembers'
<1>1. ~State
  BY DEF SelectTheme, SetSaveInterval, SetPanelNumber, Move, EditFolderNames, State
<1>2. SettingsFit(memory) /\ SettingsOK(memory)
  BY <1>1 DEF Remembers, ValueFits, DocumentsInvariant
<1>3. DocumentsInvariant'
  BY PanelKeeps DEF Remembers
<1>4. CASE SelectTheme
  <2>1. PICK theme \in Themes : Becomes(select_theme(memory, theme))
    BY <1>4 DEF SelectTheme
  <2> QED BY <1>1, <1>2, <1>3, <2>1, ThemeFits, SettingsRemember
<1>5. CASE SetSaveInterval
  <2>1. PICK n \in SAVE_INTERVALS : Becomes(Set(memory, <<"save_interval">>, n))
    BY <1>5 DEF SetSaveInterval
  <2> QED BY <1>1, <1>2, <1>3, <2>1, SaveIntervalFits, SettingsRemember
<1>6. CASE SetPanelNumber
  <2>1. PICK path \in DOMAIN panelNumbers : \E x \in panelNumbers[path] : Becomes(Set(memory, path, x))
    BY <1>6 DEF SetPanelNumber
  <2>2. PICK x \in panelNumbers[path] : Becomes(Set(memory, path, x))
    BY <2>1
  <2> QED BY <1>1, <1>2, <1>3, <2>2, PanelNumberFits, SettingsRemember
<1>7. CASE Move
  <2>1. PICK key \in {ColumnOrder, CoverPriority} : \E i \in 1 .. Len(memory[key]) :
          Becomes(move_up(memory, key, i)) \/ Becomes(move_down(memory, key, i))
    BY <1>7 DEF Move, ColumnOrder, CoverPriority
  <2>2. PICK i \in 1 .. Len(memory[key]) :
          Becomes(move_up(memory, key, i)) \/ Becomes(move_down(memory, key, i))
    BY <2>1
  <2>3. SettingsFit(move_up(memory, key, i)) /\ SettingsFit(move_down(memory, key, i))
    BY <1>2, MoveFits
  <2> QED BY <1>1, <1>3, <2>2, <2>3, SettingsRemember
<1>8. CASE EditFolderNames
  <2>1. PICK items \in NameLists : Becomes(edit_folder_names(memory, items))
    BY <1>8 DEF EditFolderNames
  <2> QED BY <1>1, <1>2, <1>3, <2>1, FolderNamesFit, SettingsRemember
<1> QED BY <1>4, <1>5, <1>6, <1>7, <1>8

LEMMA ToggleRemembers == ASSUME Remembers, Toggle PROVE Remembers'
BY ToggleFits, ToggleKeeps, SettingsRemember DEF Toggle, State, Remembers, ValueFits

LEMMA VisualizationRemembers ==
  ASSUME Remembers, SetVizNumber \/ SetVizWord \/ SetFft \/ ResetVizType \/ CheckTexts
  PROVE  Remembers'
<1>1. ~State
  BY DEF SetVizNumber, SetVizWord, SetFft, ResetVizType, CheckTexts, State
<1>2. SettingsFit(memory)
  BY <1>1 DEF Remembers, ValueFits
<1>3. DocumentsInvariant'
  BY VisualizationKeeps DEF Remembers
<1>4. CASE SetVizNumber
  <2>1. \/ \E path \in DOMAIN vizNumbers : \E x \in Int : Becomes(edit_viz_number(memory, path, x))
        \/ \E path \in DOMAIN vizCounts : \E i \in Int : Becomes(edit_viz_count(memory, path, i))
    BY <1>4 DEF SetVizNumber
  <2>2. CASE \E path \in DOMAIN vizNumbers : \E x \in Int : Becomes(edit_viz_number(memory, path, x))
    <3>1. PICK path \in DOMAIN vizNumbers : \E x \in Int : Becomes(edit_viz_number(memory, path, x))
      BY <2>2
    <3>2. PICK x \in Int : Becomes(edit_viz_number(memory, path, x))
      BY <3>1
    <3> QED BY <1>1, <1>2, <1>3, <3>2, VizNumberFits, SettingsRemember
  <2>3. CASE \E path \in DOMAIN vizCounts : \E i \in Int : Becomes(edit_viz_count(memory, path, i))
    <3>1. PICK path \in DOMAIN vizCounts : \E i \in Int : Becomes(edit_viz_count(memory, path, i))
      BY <2>3
    <3>2. PICK i \in Int : Becomes(edit_viz_count(memory, path, i))
      BY <3>1
    <3> QED BY <1>1, <1>2, <1>3, <3>2, VizCountFits, SettingsRemember
  <2> QED BY <2>1, <2>2, <2>3
<1>5. CASE SetVizWord
  <2>1. PICK path \in DOMAIN visualization_specs :
          /\ visualization_specs[path].kind.type = "word"
          /\ \E w \in DOMAIN visualization_specs[path].kind.written : Becomes(Set(memory, path, w))
    BY <1>5 DEF SetVizWord
  <2>2. PICK w \in DOMAIN visualization_specs[path].kind.written : Becomes(Set(memory, path, w))
    BY <2>1
  <2> QED BY <1>1, <1>2, <1>3, <2>1, <2>2, VizWordFits, SettingsRemember
<1>6. CASE SetFft
  <2>1. PICK i \in -1 .. 5 : Becomes(Set(memory, Spectrogram("fft_size"), fft_from_index(i)))
    BY <1>6 DEF SetFft
  <2> QED BY <1>1, <1>2, <1>3, <2>1, FftFits, SettingsRemember
<1>7. CASE ResetVizType
  <2>1. PICK type \in {"oscilloscope", "spectrogram", "spectrum"} : Becomes(reset_viz_type(memory, type))
    BY <1>7 DEF ResetVizType
  <2>2. type \in Strings
    BY SettingsFileAssumption
  <2> QED BY <1>1, <1>2, <1>3, <2>1, <2>2, ResetFits, SettingsRemember
<1>8. CASE CheckTexts
  <2>1. PICK fmin, fmax, bands : Becomes(viz_apply_validated_texts(memory, fmin, fmax, bands))
    BY <1>8 DEF CheckTexts
  <2> QED BY <1>1, <1>2, <1>3, <2>1, TextsFit, SettingsRemember
<1> QED BY <1>4, <1>5, <1>6, <1>7, <1>8

LEMMA ModesRemember ==
  ASSUME Remembers, SelectDevice \/ EditOption \/ EditDop
  PROVE  Remembers'
<1>1. ~State
  BY DEF SelectDevice, EditOption, EditDop, State
<1>2. SettingsFit(memory)
  BY <1>1 DEF Remembers, ValueFits
<1>3. DocumentsInvariant'
  BY ModesKeep DEF Remembers
<1>4. CASE SelectDevice
  <2>1. PICK mode \in DOMAIN Chosen : \E id \in Chosen[mode] : Becomes(set_device(memory, mode, id))
    BY <1>4 DEF SelectDevice
  <2>2. PICK id \in Chosen[mode] : Becomes(set_device(memory, mode, id))
    BY <2>1
  <2> QED BY <1>1, <1>2, <1>3, <2>2, SelectDeviceFits, SettingsRemember
<1>5. CASE EditOption
  <2>1. PICK path \in {p \in DOMAIN modeSpec : p[3] \notin {"device", "fixed_rate"}} :
          \E choice \in IF path[3] = "buffer" THEN Buffers ELSE Offered(path[2], path[3]) :
            Becomes(apply_edit(memory, path[2], path[3], choice))
    BY <1>5 DEF EditOption
  <2>2. PICK choice \in IF path[3] = "buffer" THEN Buffers ELSE Offered(path[2], path[3]) :
          Becomes(apply_edit(memory, path[2], path[3], choice))
    BY <2>1
  <2>3. SettingsFit(apply_edit(memory, path[2], path[3], choice))
    BY <1>2, EditOptionFits
  <2> QED BY <1>1, <1>3, <2>2, <2>3, SettingsRemember
<1>6. CASE EditDop
  <2>1. PICK mode \in Own, on \in BOOLEAN : Becomes(apply_device_dop(memory, mode, on))
    BY <1>6 DEF EditDop, Own
  <2> QED BY <1>1, <1>2, <1>3, <2>1, EditDopFits, SettingsRemember
<1> QED BY <1>4, <1>5, <1>6

LEMMA StateIsRemembered == ASSUME Remembers, ChangeOfState PROVE Remembers'
<1>1. State
  BY DEF ChangeOfState, SetVolume, SetMuted, SetActiveMode, SetColumnWidths, SetSort, SetVizMode,
         SetRepeat, SetShuffle, SetWindow, SetLastDir
<1>2. StateFits(memory)
  BY <1>1 DEF Remembers, ValueFits
<1>3. DocumentsInvariant'
  BY StateKeeps DEF Remembers
<1>4. ASSUME NEW value, Becomes(value), StateFits(value) PROVE Remembers'
  BY <1>1, <1>3, <1>4, StateRemembers
<1>5. CASE SetVolume
  BY <1>2, <1>4, <1>5, VolumeFits DEF SetVolume
<1>6. CASE SetMuted
  BY <1>2, <1>4, <1>6, MutedFits DEF SetMuted
<1>7. CASE SetActiveMode
  BY <1>2, <1>4, <1>7, SingleFits DEF SetActiveMode
<1>8. CASE SetColumnWidths
  BY <1>2, <1>4, <1>8, WidthsFit DEF SetColumnWidths
<1>9. CASE SetSort
  BY <1>2, <1>4, <1>9, SortFits DEF SetSort
<1>10. CASE SetVizMode
  BY <1>2, <1>4, <1>10, SingleFits DEF SetVizMode
<1>11. CASE SetRepeat
  BY <1>2, <1>4, <1>11, SingleFits DEF SetRepeat
<1>12. CASE SetShuffle
  BY <1>2, <1>4, <1>12, SingleFits DEF SetShuffle
<1>13. CASE SetWindow
  BY <1>2, <1>4, <1>13, GeometryFits DEF SetWindow
<1>14. CASE SetLastDir
  BY <1>2, <1>4, <1>14, SingleFits DEF SetLastDir
<1> QED BY <1>5, <1>6, <1>7, <1>8, <1>9, <1>10, <1>11, <1>12, <1>13, <1>14 DEF ChangeOfState

LEMMA RemembersStep == Remembers /\ [Next]_vars => Remembers'
<1> SUFFICES ASSUME Remembers, [Next]_vars PROVE Remembers'
  OBVIOUS
<1>1. CASE Start
  BY <1>1, StartRemembers
<1>2. CASE Stop
  BY <1>2, StopRemembers
<1>3. CASE Damage
  BY <1>3, DamageRemembers
<1>4. CASE Break
  BY <1>4, BreakRemembers
<1>5. CASE SelectTheme \/ SetSaveInterval \/ SetPanelNumber \/ Move \/ EditFolderNames
  BY <1>5, PanelRemembers
<1>6. CASE Toggle
  BY <1>6, ToggleRemembers
<1>7. CASE SetVizNumber \/ SetVizWord \/ SetFft \/ ResetVizType \/ CheckTexts
  BY <1>7, VisualizationRemembers
<1>8. CASE SelectDevice \/ EditOption \/ EditDop
  BY <1>8, ModesRemember
<1>9. CASE ChangeOfState
  BY <1>9, StateIsRemembered
<1>10. CASE UNCHANGED vars
  BY <1>10 DEF vars, Remembers, DocumentsInvariant, ValueFits, ValueOK, FileFits, State, Serialize, Parse, Defaults
<1> QED BY <1>1, <1>2, <1>3, <1>4, <1>5, <1>6, <1>7, <1>8, <1>9, <1>10 DEF Next, Edit

\* In every run what the program holds and what it saved last is what the
\* readers take, and a file nobody changed says what was saved (AppCore's
\* boot and save_all with parse_settings, parse_state and their writers).
THEOREM RunsRemember == Spec => []Remembers
BY RemembersInit, RemembersStep, PTL DEF Spec

LEMMA NothingIsLost == Remembers => SurvivesRestart
<1> SUFFICES ASSUME Remembers, JustRead, damaged = {}
             PROVE  notes = {} /\ \A path \in DOMAIN memory : Kept(path)
  BY DEF SurvivesRestart
<1>1. memory = Parse(file).value /\ notes = Parse(file).notes /\ file # NotToml
  BY DEF Remembers, JustRead
<1>2. ASSUME NEW path, memory[path] = kept[path] PROVE Kept(path)
  BY <1>2 DEF Kept, Same
<1>3. CASE file = NoFile
  <2>1. file.read # "Parsed" /\ kept = Defaults
    BY <1>3 DEF NoFile, Remembers
  <2>2. Parse(file).value = Defaults /\ Parse(file).notes = {}
    BY <2>1 DEF Parse, Defaults, parse_settings, parse_state
  <2> QED BY <1>1, <1>2, <2>1, <2>2
<1>4. CASE file # NoFile
  <2>1. file = Serialize(kept)
    BY <1>1, <1>4 DEF Remembers, FileFits
  <2>2. ValueFits(kept) /\ ValueOK(kept)
    BY DEF Remembers
  <2>3. notes = {}
    BY <1>1, <2>1, <2>2, RoundTrip
  <2>4. CASE State
    <3>1. StateFits(kept) /\ StateOK(kept)
      BY <2>2, <2>4 DEF ValueFits, ValueOK
    <3>2. memory = parse_state(serialize_state(kept)).value
      BY <1>1, <2>1, <2>4 DEF Parse, Serialize
    <3>3. DOMAIN memory = DOMAIN kept
      BY <2>4, <3>1 DEF Remembers, ValueFits, StateFits
    <3>4. ASSUME NEW path \in DOMAIN memory PROVE Kept(path)
      <4>1. memory[path] = kept[path] \/ (path = LastDir /\ kept[LastDir] \in {q \in DOMAIN Paths : Paths[q] = "bytes"})
        BY <3>1, <3>2, <3>3, StateRoundTrip
      <4> QED BY <1>2, <4>1 DEF Kept, Sayable
    <3> QED BY <2>3, <3>4
  <2>5. CASE ~State
    <3>1. SettingsFit(kept) /\ SettingsOK(kept)
      BY <2>2, <2>5 DEF ValueFits, ValueOK
    <3>2. memory = parse_settings(serialize_settings(kept)).value
      BY <1>1, <2>1, <2>5 DEF Parse, Serialize
    <3>3. DOMAIN memory = DOMAIN kept
      BY <2>5, <3>1 DEF Remembers, ValueFits, SettingsFit
    <3>4. ASSUME NEW path \in DOMAIN memory PROVE Kept(path)
      BY <3>1, <3>2, <3>3, SettingsRoundTrip DEF Kept
    <3> QED BY <2>3, <3>4
  <2> QED BY <2>4, <2>5
<1> QED BY <1>3, <1>4

\* What one run saved the next one has, and it remarks nothing, whichever keys
\* were edited: the writers of settings.toml and state.toml with their readers
\* (serialize_settings and parse_settings, serialize_state and parse_state).
THEOREM RunsSurviveRestart == Spec => []SurvivesRestart
BY RunsRemember, NothingIsLost, PTL

-----------------------------------------------------------------------------
(* What was changed by hand, and what was not                               *)

\* A document differs from the one saved only by what was changed at some paths.
Differs(saved, doc, paths) ==
  /\ \A p \in DOMAIN doc : p \in paths \/ (p \in DOMAIN saved /\ doc[p] = saved[p])
  /\ \A p \in DOMAIN saved \ DOMAIN doc : \E d \in paths : Along(d, p)

LEMMA AlongIs ==
  ASSUME NEW p \in Seq(Strings), NEW q \in Seq(Strings)
  PROVE  Along(p, q) <=> \A i \in Nat \ {0} : i <= Len(p) /\ i <= Len(q) => p[i] = q[i]
BY PrefixIs DEF Along

\* Under a path that nothing changed leads to, nothing changed.
LEMMA UnchangedUnder ==
  ASSUME NEW saved, DocOK(saved), NEW doc, DocOK(doc), NEW paths \in SUBSET Seq(Strings),
         Differs(saved, doc, paths), NEW key \in Seq(Strings), \A d \in paths : ~Along(d, key),
         NEW q \in Seq(Strings), IsPrefix(key, q)
  PROVE  /\ q \in DOMAIN doc <=> q \in DOMAIN saved
         /\ q \in DOMAIN doc => doc[q] = saved[q]
<1>1. Len(key) <= Len(q) /\ \A i \in 1 .. Len(key) : key[i] = q[i]
  BY PrefixIs
<1>2. ASSUME NEW d \in paths, Along(d, q) PROVE FALSE
  BY <1>1, <1>2, AlongIs
<1>3. q \notin paths
  <2>1. Along(q, q)
    BY AlongIs
  <2> QED BY <1>2, <2>1
<1> QED BY <1>2, <1>3 DEF Differs

LEMMA UnchangedLookup ==
  ASSUME NEW saved, DocOK(saved), NEW doc, DocOK(doc), NEW paths \in SUBSET Seq(Strings),
         Differs(saved, doc, paths), NEW key \in Seq(Strings), \A d \in paths : ~Along(d, key)
  PROVE  lookup(doc, key) = lookup(saved, key)
<1>1. IsPrefix(key, key)
  BY PrefixIs
<1>2. (key \in DOMAIN doc <=> key \in DOMAIN saved) /\ (key \in DOMAIN doc => doc[key] = saved[key])
  BY <1>1, UnchangedUnder
<1>3. ASSUME NEW p \in Seq(Strings), IsStrictPrefix(key, p)
      PROVE  p \in DOMAIN doc <=> p \in DOMAIN saved
  <2>1. IsPrefix(key, p)
    BY <1>3, PrefixIs
  <2> QED BY <2>1, UnchangedUnder
<1>4. (\E p \in DOMAIN doc : IsStrictPrefix(key, p)) <=> \E p \in DOMAIN saved : IsStrictPrefix(key, p)
  BY <1>3 DEF DocOK
<1> QED BY <1>2, <1>4 DEF lookup

LEMMA DevicesPrefix ==
  \A p \in Seq(Strings) : IsPrefix(Devices, p) <=> Len(p) >= 2 /\ p[1] = "playback" /\ p[2] = "devices"
<1>1. PICK d : d = Devices
  OBVIOUS
<1>2. d \in Seq(Strings) /\ Len(d) = 2 /\ d[1] = "playback" /\ d[2] = "devices"
  BY <1>1, PathsApart
<1>3. ASSUME NEW p \in Seq(Strings)
      PROVE  IsPrefix(d, p) <=> Len(p) >= 2 /\ p[1] = "playback" /\ p[2] = "devices"
  <2>1. IsPrefix(d, p) <=> 2 <= Len(p) /\ \A i \in 1 .. 2 : d[i] = p[i]
    BY <1>2, PrefixIs
  <2>2. (\A i \in 1 .. 2 : d[i] = p[i]) <=> d[1] = p[1] /\ d[2] = p[2]
    OBVIOUS
  <2>3. Len(p) \in Nat
    OBVIOUS
  <2> QED BY <1>2, <2>1, <2>2, <2>3
<1> QED BY <1>1, <1>3

\* A device has nothing under what it says: an entry is a table or a value.
Pointed(doc) == \A p, q \in DOMAIN doc : IsPrefix(Devices, p) => ~IsStrictPrefix(p, q)

LEMMA SavedPointed ==
  ASSUME NEW v, SettingsFit(v) PROVE Pointed(serialize_settings(v).doc)
<1>1. PICK doc : doc = serialize_settings(v).doc
  OBVIOUS
<1>2. Saves(doc, v) /\ DocOK(doc)
  BY <1>1, WrittenDocument
<1>3. ASSUME NEW p \in DOMAIN doc, p[1] = "playback", p[2] = "devices" PROVE Len(p) = 4
  <2>1. "devices" \notin {"compatible", "optimal", "strict", "schema"}
    OBVIOUS
  <2> QED BY <1>2, <1>3, <2>1, PlaybackPaths
<1>4. ASSUME NEW p \in DOMAIN doc, NEW q \in DOMAIN doc, IsPrefix(Devices, p), IsStrictPrefix(p, q) PROVE FALSE
  BY <1>2, <1>3, <1>4, DevicesPrefix, PrefixIs DEF DocOK
<1> QED BY <1>1, <1>4 DEF Pointed

LEMMA PutPointed ==
  ASSUME NEW doc, Pointed(doc), DocOK(doc), NEW path \in Seq(Strings), NEW raw
  PROVE  Pointed(Put(doc, path, raw))
<1>1. PICK others : others = {p \in DOMAIN doc : ~IsPrefix(p, path) /\ ~IsPrefix(path, p)}
  OBVIOUS
<1>2. PICK rest : rest = Restrict(doc, others)
  OBVIOUS
<1>3. PICK put : put = Put(doc, path, raw)
  OBVIOUS
<1>4. put = rest ++ (IF raw = None THEN <<>> ELSE Single(path, raw))
  BY <1>1, <1>2, <1>3 DEF Put
<1>5. DOMAIN put \subseteq others \cup {path}
  <2>1. DOMAIN rest = others
    BY <1>1, <1>2 DEF Restrict
  <2> QED BY <1>4, <2>1 DEF ++, Single
<1>6. \A p, q \in Seq(Strings) : IsStrictPrefix(p, q) => IsPrefix(p, q) /\ p # q
  BY PrefixIs
<1>7. ASSUME NEW p \in DOMAIN put, NEW q \in DOMAIN put, IsPrefix(Devices, p), IsStrictPrefix(p, q) PROVE FALSE
  BY <1>1, <1>5, <1>6, <1>7 DEF DocOK, Pointed
<1> QED BY <1>3, <1>7 DEF Pointed

\* What the file has that was not saved is where it was changed by hand.
DamagedOnly ==
  /\ Remembers
  /\ damaged \subseteq Seq(Strings)
  /\ file.read = "Parsed" => Differs(Serialize(kept).doc, file.doc, damaged)
  /\ file.read = "Parsed" /\ ~State => Pointed(file.doc)

LEMMA DamagedInit == Init => DamagedOnly
<1> SUFFICES ASSUME Init PROVE DamagedOnly
  OBVIOUS
<1>1. file = NoFile /\ damaged = {}
  BY DEF Init
<1> QED BY <1>1, RemembersInit DEF DamagedOnly, NoFile

\* The file and what was saved stay as they are.
FileHeld == UNCHANGED <<scope, file, kept, damaged>>

LEMMA EditHolds == ASSUME Edit PROVE FileHeld
<1>1. ASSUME NEW value, Becomes(value) PROVE FileHeld
  BY <1>1 DEF Becomes, FileHeld
<1>2. CASE SelectTheme \/ SetSaveInterval \/ SetPanelNumber \/ Move \/ EditFolderNames
  BY <1>1, <1>2 DEF SelectTheme, SetSaveInterval, SetPanelNumber, Move, EditFolderNames
<1>3. CASE Toggle
  BY <1>1, <1>3 DEF Toggle
<1>4. CASE SetVizNumber \/ SetVizWord \/ SetFft \/ ResetVizType \/ CheckTexts
  BY <1>1, <1>4 DEF SetVizNumber, SetVizWord, SetFft, ResetVizType, CheckTexts
<1>5. CASE SelectDevice \/ EditOption \/ EditDop
  BY <1>1, <1>5 DEF SelectDevice, EditOption, EditDop
<1>6. CASE SetVolume \/ SetMuted \/ SetActiveMode \/ SetColumnWidths \/ SetSort
  <2>1. CASE SetVolume \/ SetMuted \/ SetActiveMode
    BY <1>1, <2>1 DEF SetVolume, SetMuted, SetActiveMode
  <2>2. CASE SetColumnWidths
    BY <1>1, <2>2 DEF SetColumnWidths
  <2>3. CASE SetSort
    BY <1>1, <2>3 DEF SetSort
  <2> QED BY <1>6, <2>1, <2>2, <2>3
<1>7. CASE SetVizMode \/ SetRepeat \/ SetShuffle \/ SetWindow \/ SetLastDir
  BY <1>1, <1>7 DEF SetVizMode, SetRepeat, SetShuffle, SetWindow, SetLastDir
<1> QED BY <1>2, <1>3, <1>4, <1>5, <1>6, <1>7 DEF Edit, ChangeOfState

LEMMA HeldDamaged == ASSUME DamagedOnly, FileHeld, Remembers' PROVE DamagedOnly'
BY DEF FileHeld, Serialize, State, DamagedOnly

LEMMA StopDamaged == ASSUME DamagedOnly, Stop, Remembers' PROVE DamagedOnly'
<1>1. CASE banned
  <2>1. FileHeld
    BY <1>1 DEF Stop, FileHeld
  <2> QED BY <2>1, HeldDamaged
<1>2. CASE ~banned
  <2>1. file' = Serialize(memory) /\ kept' = memory /\ damaged' = {} /\ scope' = scope
    BY <1>2 DEF Stop
  <2>2. Serialize(kept)' = file'
    BY <2>1 DEF Serialize, State
  <2>3. Differs(file'.doc, file'.doc, {})
    BY DEF Differs
  <2>4. ASSUME ~State' PROVE Pointed(file'.doc)
    <3>1. ~State
      BY <2>1, <2>4 DEF State
    <3>2. SettingsFit(memory)
      BY <3>1 DEF DamagedOnly, Remembers, ValueFits
    <3> QED BY <2>1, <3>1, <3>2, SavedPointed DEF Serialize
  <2> QED BY <2>1, <2>2, <2>3, <2>4 DEF DamagedOnly
<1> QED BY <1>1, <1>2

LEMMA PutDiffers ==
  ASSUME NEW saved, NEW doc, NEW paths, Differs(saved, doc, paths), NEW path, NEW raw
  PROVE  Differs(saved, Put(doc, path, raw), paths \cup {path})
<1>1. PICK others : others = {p \in DOMAIN doc : ~IsPrefix(p, path) /\ ~IsPrefix(path, p)}
  OBVIOUS
<1>2. PICK rest : rest = Restrict(doc, others)
  OBVIOUS
<1>3. PICK put : put = Put(doc, path, raw)
  OBVIOUS
<1>4. put = rest ++ (IF raw = None THEN <<>> ELSE Single(path, raw))
  BY <1>1, <1>2, <1>3 DEF Put
<1>5. DOMAIN rest = others /\ \A p \in DOMAIN rest : p \in DOMAIN doc /\ rest[p] = doc[p]
  BY <1>1, <1>2 DEF Restrict
<1>6. ASSUME NEW p \in DOMAIN put
      PROVE  (p \in DOMAIN doc /\ put[p] = doc[p]) \/ p = path
  BY <1>4, <1>5 DEF ++, Single
<1>7. DOMAIN rest \subseteq DOMAIN put
  BY <1>4 DEF ++
<1>8. ASSUME NEW p \in DOMAIN saved \ DOMAIN put PROVE \E d \in paths \cup {path} : Along(d, p)
  <2>1. CASE p \in DOMAIN doc
    BY <1>1, <1>5, <1>7, <1>8, <2>1 DEF Along
  <2>2. CASE p \notin DOMAIN doc
    BY <2>2 DEF Differs
  <2> QED BY <2>1, <2>2
<1>9. \A p \in DOMAIN put : p \in paths \cup {path} \/ (p \in DOMAIN saved /\ put[p] = saved[p])
  BY <1>6 DEF Differs
<1> QED BY <1>3, <1>8, <1>9 DEF Differs

LEMMA DamageDamages == ASSUME DamagedOnly, Damage, Remembers' PROVE DamagedOnly'
<1>1. PICK change \in Damages[scope] :
        /\ file' = Text(Put(file.doc, change[1], change[2]))
        /\ damaged' = damaged \cup {change[1]}
  BY DEF Damage
<1>2. file.read = "Parsed" /\ UNCHANGED <<scope, kept>>
  BY DEF Damage
<1>3. change[1] \in Seq(Strings)
  <2>1. PICK raws : raws = Raws \cup {None}
    OBVIOUS
  <2>2. PICK names : names = Seq(Strings)
    OBVIOUS
  <2>3. Damages \in [Scopes -> SUBSET (names \X raws)] /\ scope \in Scopes
    BY <2>1, <2>2, DocumentsAssumption DEF DamagedOnly, Remembers, DocumentsInvariant
  <2>4. change[1] \in names
    BY <2>3
  <2> QED BY <2>2, <2>4
<1>4. Serialize(kept)' = Serialize(kept)
  BY <1>2 DEF Serialize, State
<1>5. PICK path : path = change[1]
  OBVIOUS
<1>6. PICK put : put = Put(file.doc, path, change[2])
  OBVIOUS
<1>7. Differs(Serialize(kept).doc, put, damaged \cup {path})
  BY <1>2, <1>6, PutDiffers DEF DamagedOnly
<1>8. file'.doc = put
  BY <1>1, <1>5, <1>6 DEF Text
<1>9. Differs(Serialize(kept)'.doc, file'.doc, damaged')
  BY <1>1, <1>4, <1>5, <1>7, <1>8
<1>10. damaged' \subseteq Seq(Strings)
  BY <1>1, <1>3 DEF DamagedOnly
<1>11. ASSUME ~State' PROVE Pointed(file'.doc)
  <2>1. ~State
    BY <1>2, <1>11 DEF State
  <2>2. DocOK(file.doc)
    BY <1>2 DEF DamagedOnly, Remembers, FileFits, NoFile, NotToml
  <2>3. Pointed(file.doc)
    BY <1>2, <2>1 DEF DamagedOnly
  <2>4. path \in Seq(Strings)
    BY <1>3, <1>5
  <2> QED BY <1>6, <1>8, <2>2, <2>3, <2>4, PutPointed
<1> QED BY <1>9, <1>10, <1>11 DEF DamagedOnly

LEMMA DamagedStep == DamagedOnly /\ [Next]_vars => DamagedOnly'
<1> SUFFICES ASSUME DamagedOnly, [Next]_vars PROVE DamagedOnly'
  OBVIOUS
<1>1. Remembers'
  BY RemembersStep DEF DamagedOnly
<1>2. CASE Start
  <2>1. FileHeld
    BY <1>2 DEF Start, FileHeld
  <2> QED BY <1>1, <2>1, HeldDamaged
<1>3. CASE Stop
  BY <1>1, <1>3, StopDamaged
<1>4. CASE Damage
  BY <1>1, <1>4, DamageDamages
<1>5. CASE Break
  <2>1. file'.read # "Parsed" /\ damaged' = damaged
    BY <1>5 DEF Break, NotToml
  <2> QED BY <1>1, <2>1 DEF DamagedOnly
<1>6. CASE Edit
  BY <1>1, <1>6, EditHolds, HeldDamaged
<1>7. CASE UNCHANGED vars
  <2>1. FileHeld
    BY <1>7 DEF vars, FileHeld
  <2> QED BY <1>1, <2>1, HeldDamaged
<1> QED BY <1>2, <1>3, <1>4, <1>5, <1>6, <1>7 DEF Next

\* A file that can be parsed says what was saved last but where a person changed
\* it since (AppCore's save_all and the reading at the next boot).
THEOREM OnlyDamageDiffers == Spec => []DamagedOnly
<1>1. Init => DamagedOnly
  BY DamagedInit
<1>2. DamagedOnly /\ [Next]_vars => DamagedOnly'
  BY DamagedStep
<1> QED BY <1>1, <1>2, PTL DEF Spec

-----------------------------------------------------------------------------
(* A key that does not get what was saved is remarked: the session state    *)

\* What is read of a key depends on what is at the key, and on nothing else.
LEMMA WalkSame ==
  ASSUME NEW one, NEW other, NEW spec, NEW fresh, NEW path \in DOMAIN spec,
         lookup(one, path) = lookup(other, path)
  PROVE  walk(one, spec, fresh).value[path] = walk(other, spec, fresh).value[path]
<1>1. ASSUME NEW doc
      PROVE  walk(doc, spec, fresh).value[path]
               = IF lookup(doc, path) # None /\ Accepts(spec[path].kind, lookup(doc, path))
                 THEN Value(spec[path].kind, lookup(doc, path))
                 ELSE IF lookup(doc, path) = None /\ spec[path].optional THEN fresh[path]
                 ELSE spec[path].default
  <2> DEFINE raw == [p \in DOMAIN spec |-> lookup(doc, p)]
             missing == {p \in DOMAIN spec : raw[p] = None}
             read == {p \in DOMAIN spec \ missing : Accepts(spec[p].kind, raw[p])}
             loud == {p \in missing : ~spec[p].optional}
             value == [p \in DOMAIN spec |->
                         IF p \in read THEN Value(spec[p].kind, raw[p])
                         ELSE IF p \in missing \ loud THEN fresh[p]
                         ELSE spec[p].default]
  <2>1. walk(doc, spec, fresh).value = value
    BY DEF walk
  <2>2. raw[path] = lookup(doc, path)
    OBVIOUS
  <2>3. path \in read <=> lookup(doc, path) # None /\ Accepts(spec[path].kind, lookup(doc, path))
    BY <2>2
  <2>4. path \in missing \ loud <=> lookup(doc, path) = None /\ spec[path].optional
    BY <2>2
  <2>5. value[path] = IF path \in read THEN Value(spec[path].kind, raw[path])
                      ELSE IF path \in missing \ loud THEN fresh[path]
                      ELSE spec[path].default
    OBVIOUS
  <2> HIDE DEF read, missing, loud, raw, value
  <2> QED BY <2>1, <2>2, <2>3, <2>4, <2>5
<1> QED BY <1>1

\* The key has what the document says, or there is nothing to say, or it is remarked.
Told(got, doc, spec, key) ==
  \/ \E note \in got.notes : note.key = key
  \/ lookup(doc, key) = None /\ spec[key].optional
  \/ /\ lookup(doc, key) # None /\ Accepts(spec[key].kind, lookup(doc, key))
     /\ got.value[key] = Value(spec[key].kind, lookup(doc, key))

LEMMA WalkTells ==
  ASSUME NEW doc, NEW spec, NEW fresh, NEW path \in DOMAIN spec
  PROVE  Told(walk(doc, spec, fresh), doc, spec, path)
<1> DEFINE raw == [p \in DOMAIN spec |-> lookup(doc, p)]
           missing == {p \in DOMAIN spec : raw[p] = None}
           read == {p \in DOMAIN spec \ missing : Accepts(spec[p].kind, raw[p])}
           loud == {p \in missing : ~spec[p].optional}
           value == [p \in DOMAIN spec |->
                       IF p \in read THEN Value(spec[p].kind, raw[p])
                       ELSE IF p \in missing \ loud THEN fresh[p]
                       ELSE spec[p].default]
           remarks == {Note(p, "missing") : p \in loud}
                        \cup {Note(p, "invalid") : p \in DOMAIN spec \ (missing \cup read)}
                        \cup {Note(p, "unknown") : p \in DOMAIN doc \ DOMAIN spec}
<1>1. walk(doc, spec, fresh).value = value /\ walk(doc, spec, fresh).notes = remarks
  BY DEF walk
<1>2. raw[path] = lookup(doc, path)
  OBVIOUS
<1>3. path \in read => /\ lookup(doc, path) # None /\ Accepts(spec[path].kind, lookup(doc, path))
                       /\ value[path] = Value(spec[path].kind, lookup(doc, path))
  BY <1>2
<1>4. path \in missing \ loud => lookup(doc, path) = None /\ spec[path].optional
  BY <1>2
<1>5. path \in loud => Note(path, "missing") \in remarks
  OBVIOUS
<1>6. path \in DOMAIN spec \ (missing \cup read) => Note(path, "invalid") \in remarks
  OBVIOUS
<1>7. Note(path, "missing").key = path /\ Note(path, "invalid").key = path
  BY DEF Note
<1> HIDE DEF read, missing, loud, raw, value, remarks
<1> QED BY <1>1, <1>3, <1>4, <1>5, <1>6, <1>7 DEF Told

\* The keys that lack the one they go together with.
Lone(v) == Alone(v, SortColumn, SortDirection) \cup Alone(v, Window("x"), Window("y"))
             \cup Alone(v, Window("width"), Window("height"))

LEMMA StateRead ==
  ASSUME NEW seen, seen.read = "Parsed", NEW walked, walked = walk(seen.doc, state_spec, default_state)
  PROVE  /\ walked.notes \subseteq parse_state(seen).notes
         /\ \A p \in Alone(walked.value, SortColumn, SortDirection) :
              Note(p, "invalid") \in parse_state(seen).notes
         /\ \A p \in DOMAIN state_spec :
              parse_state(seen).value[p] = IF p \in Lone(walked.value) THEN None ELSE walked.value[p]
<1>1. PICK v : v = walked.value
  OBVIOUS
<1>2. PICK alone : alone = Alone(v, SortColumn, SortDirection)
  OBVIOUS
<1>3. PICK sorted : sorted = Dropped(v, alone)
  OBVIOUS
<1>4. PICK half : half = Alone(sorted, Window("x"), Window("y"))
                           \cup Alone(sorted, Window("width"), Window("height"))
  OBVIOUS
<1>5. PICK made : made = Dropped(sorted, half)
  OBVIOUS
<1>6. PICK remarks : remarks = walked.notes \cup {Note(p, "invalid") : p \in alone}
  OBVIOUS
<1>7. parse_state(seen).value = made /\ parse_state(seen).notes = remarks
  BY <1>1, <1>2, <1>3, <1>4, <1>5, <1>6 DEF parse_state, adjust_window_geometry, adjust_sort_pair
<1>8. DOMAIN v = DOMAIN state_spec
  BY <1>1, WalkDomain
<1>9. DOMAIN sorted = DOMAIN v /\ \A p \in DOMAIN v : sorted[p] = IF p \in alone THEN None ELSE v[p]
  BY <1>3 DEF Dropped
<1>10. DOMAIN made = DOMAIN v /\ \A p \in DOMAIN v : made[p] = IF p \in half THEN None ELSE sorted[p]
  BY <1>5, <1>9 DEF Dropped
<1>11. \A p \in Paired \ {SortColumn, SortDirection} : p \in DOMAIN v /\ sorted[p] = v[p]
  BY <1>2, <1>8, <1>9, StatePaths DEF Alone
<1>12. half = Alone(v, Window("x"), Window("y")) \cup Alone(v, Window("width"), Window("height"))
  BY <1>4, <1>11, PairsDiffer DEF Alone, Paired
<1>13. Lone(v) = alone \cup half
  BY <1>2, <1>12 DEF Lone
<1>14. \A p \in DOMAIN v : made[p] = IF p \in Lone(v) THEN None ELSE v[p]
  BY <1>9, <1>10, <1>13
<1> QED BY <1>1, <1>2, <1>6, <1>7, <1>8, <1>14

LEMMA StateTells ==
  ASSUME NEW seen, seen.read = "Parsed", NEW key \in DOMAIN state_spec
  PROVE  \/ Told(parse_state(seen), seen.doc, state_spec, key)
         \/ key[1] = "window" /\ parse_state(seen).value[key] = None
<1>1. PICK walked : walked = walk(seen.doc, state_spec, default_state)
  OBVIOUS
<1>2. Told(walked, seen.doc, state_spec, key)
  BY <1>1, WalkTells
<1>3. PICK got : got = parse_state(seen)
  OBVIOUS
<1>4. /\ walked.notes \subseteq got.notes
      /\ \A p \in Alone(walked.value, SortColumn, SortDirection) : Note(p, "invalid") \in got.notes
      /\ got.value[key] = IF key \in Lone(walked.value) THEN None ELSE walked.value[key]
  BY <1>1, <1>3, StateRead
<1>5. CASE key \notin Lone(walked.value)
  BY <1>2, <1>3, <1>4, <1>5 DEF Told
<1>6. CASE key \in Alone(walked.value, SortColumn, SortDirection)
  <2>1. Note(key, "invalid") \in got.notes /\ Note(key, "invalid").key = key
    BY <1>4, <1>6 DEF Note
  <2> QED BY <1>3, <2>1 DEF Told
<1>7. CASE key \in Lone(walked.value) \ Alone(walked.value, SortColumn, SortDirection)
  <2>1. key[1] = "window"
    BY <1>7 DEF Lone, Alone, Window
  <2> QED BY <1>3, <1>4, <1>7, <2>1
<1> QED BY <1>5, <1>6, <1>7 DEF Lone

\* What was saved of a state, read key by key.
LEMMA SavedState ==
  ASSUME NEW s, StateFits(s), NEW doc, doc = serialize_state(s).doc, NEW p \in DOMAIN state_spec
  PROVE  \/ walk(doc, state_spec, default_state).value[p] = s[p]
         \/ p = LastDir /\ s[LastDir] \in {q \in DOMAIN Paths : Paths[q] = "bytes"}
<1>1. PICK unsaid : unsaid = {LastDir : q \in {r \in DOMAIN Paths : Paths[r] = "bytes" /\ s[LastDir] = r}}
  OBVIOUS
<1>2. PICK t : t = Dropped(s, unsaid)
  OBVIOUS
<1>3. doc = Written(state_spec, t)
  BY <1>1, <1>2 DEF serialize_state
<1>4. StateFits(t)
  <2>1. unsaid \subseteq {LastDir}
    BY <1>1
  <2> QED BY <1>2, <2>1, DroppedFits
<1>5. DOMAIN t = DOMAIN s /\ \A q \in DOMAIN s : t[q] = IF q \in unsaid THEN None ELSE s[q]
  BY <1>2 DEF Dropped
<1>6. walk(doc, state_spec, default_state).value[p] = t[p]
  <2>1. DOMAIN state_spec \subseteq Seq(Strings)
    BY StateNames
  <2>2. walk(Written(state_spec, t), state_spec, default_state)
          = [value |-> [path \in DOMAIN state_spec |-> t[path]], notes |-> {}]
    BY <1>4, <2>1, StateSpecOK, StateLeaves, DefaultStateFits, WalkBack DEF StateFits
  <2> QED BY <1>3, <2>2
<1> QED BY <1>1, <1>5, <1>6 DEF StateFits

\* A key of the state that nothing changed has what was saved.
LEMMA StateUnchanged ==
  ASSUME State, NEW s, StateFits(s), StateOK(s), NEW seen, seen.read = "Parsed", DocOK(seen.doc),
         NEW paths \in SUBSET Seq(Strings), Differs(serialize_state(s).doc, seen.doc, paths),
         NEW key \in DOMAIN state_spec, \A d \in paths : ~Concerns(d, key)
  PROVE  \/ parse_state(seen).value[key] = s[key]
         \/ key = LastDir /\ s[LastDir] \in {q \in DOMAIN Paths : Paths[q] = "bytes"}
<1>1. PICK saved : saved = serialize_state(s).doc
  OBVIOUS
<1>2. DocOK(saved)
  BY <1>1, StateRoundTrip
<1>3. PICK walked : walked = walk(seen.doc, state_spec, default_state)
  OBVIOUS
<1>4. ASSUME NEW p \in DOMAIN state_spec, \A d \in paths : ~Along(d, p)
      PROVE  walked.value[p] = s[p] \/ (p = LastDir /\ s[LastDir] \in {q \in DOMAIN Paths : Paths[q] = "bytes"})
  <2>1. p \in Seq(Strings)
    BY StateNames
  <2>2. lookup(seen.doc, p) = lookup(saved, p)
    BY <1>1, <1>2, <1>4, <2>1, UnchangedLookup
  <2>3. walked.value[p] = walk(saved, state_spec, default_state).value[p]
    BY <1>3, <2>2, WalkSame, SMTT(20)
  <2> QED BY <1>1, <2>3, SavedState
<1>5. \A d \in paths : ~Along(d, key)
  BY DEF Concerns
<1>6. ASSUME NEW one \in Paired, NEW other \in Paired, {one, other} \in Together, key \in {one, other},
             Pair(s, one, other)
      PROVE  key \notin Alone(walked.value, one, other)
  <2>1. \A p \in {one, other} : \A d \in paths : ~Along(d, p)
    BY <1>6 DEF Concerns
  <2>2. LastDir \notin Paired
    BY DEF LastDir, Paired, SortColumn, SortDirection, Window
  <2>3. \A p \in {one, other} : walked.value[p] = s[p]
    BY <1>4, <1>6, <2>1, <2>2, StatePaths
  <2> QED BY <1>6, <2>3 DEF Alone, Pair
<1>7. key \notin Lone(walked.value)
  <2>1. /\ {SortColumn, SortDirection} \in Together /\ {Window("x"), Window("y")} \in Together
        /\ {Window("width"), Window("height")} \in Together
    BY DEF Together
  <2>2. /\ Pair(s, SortColumn, SortDirection) /\ Pair(s, Window("x"), Window("y"))
        /\ Pair(s, Window("width"), Window("height"))
    BY DEF StateOK
  <2>3. key \notin Alone(walked.value, SortColumn, SortDirection)
    BY <1>6, <2>1, <2>2 DEF Paired, Alone
  <2>4. key \notin Alone(walked.value, Window("x"), Window("y"))
    BY <1>6, <2>1, <2>2 DEF Paired, Alone
  <2>5. key \notin Alone(walked.value, Window("width"), Window("height"))
    BY <1>6, <2>1, <2>2 DEF Paired, Alone
  <2> QED BY <2>3, <2>4, <2>5 DEF Lone
<1>8. parse_state(seen).value[key] = walked.value[key]
  BY <1>3, <1>7, StateRead
<1> QED BY <1>4, <1>5, <1>8

-----------------------------------------------------------------------------
(* The same of the settings                                                 *)

LEMMA CorrectedIs ==
  ASSUME NEW loaded, NEW path, NEW wrong, NEW value, NEW made, made = Corrected(loaded, path, wrong, value)
  PROVE  /\ DOMAIN made.value = DOMAIN loaded.value /\ loaded.notes \subseteq made.notes
         /\ \A p \in DOMAIN loaded.value : p # path => made.value[p] = loaded.value[p]
         /\ wrong => \E note \in made.notes : note.key = path
         /\ ~wrong => made = loaded
<1>1. CASE wrong
  <2>1. /\ made.value = [loaded.value EXCEPT ![path] = value]
        /\ made.notes = loaded.notes \cup {Note(path, "adjusted")}
    BY <1>1 DEF Corrected
  <2>2. Note(path, "adjusted").key = path
    BY DEF Note
  <2> QED BY <1>1, <2>1, <2>2
<1>2. CASE ~wrong
  BY <1>2 DEF Corrected
<1> QED BY <1>1, <1>2

LEMMA CorrectedTells ==
  ASSUME NEW loaded, NEW path, NEW wrong, NEW value, NEW doc, NEW spec, NEW key \in DOMAIN loaded.value,
         Told(loaded, doc, spec, key), NEW made, made = Corrected(loaded, path, wrong, value)
  PROVE  Told(made, doc, spec, key)
BY CorrectedIs DEF Told

\* Taking the other tables out leaves what there is under a key.
LEMMA PartLookup ==
  ASSUME NEW doc, DocOK(doc), NEW part \in SUBSET DOMAIN doc, NEW key \in Seq(Strings),
         \A p \in DOMAIN doc : IsPrefix(key, p) => p \in part
  PROVE  lookup(Restrict(doc, part), key) = lookup(doc, key)
BY RestrictIs, PrefixIs DEF DocOK, lookup

LEMMA OthersLookup ==
  ASSUME NEW doc, DocOK(doc), NEW others, others = {path \in DOMAIN doc : Head(path) # "playback"},
         NEW key \in DOMAIN settings_spec
  PROVE  lookup(Restrict(doc, others), key) = lookup(doc, key)
<1>1. key \in Seq(Strings) /\ Len(key) \in 1 .. 3 /\ key[1] # "playback"
  BY SettingsSpecOK
<1>2. ASSUME NEW p \in DOMAIN doc, IsPrefix(key, p) PROVE p \in others
  BY <1>1, <1>2, PrefixIs DEF DocOK
<1> QED BY <1>1, <1>2, PartLookup

\* Of a key outside the modes is told what the walk found and the orders made of it.
LEMMA OthersTell ==
  ASSUME NEW seen, seen.read = "Parsed", DocOK(seen.doc), NEW key \in DOMAIN settings_spec
  PROVE  Told(parse_settings(seen), seen.doc, settings_spec, key)
<1>1. PICK others : others = {path \in DOMAIN seen.doc : Head(path) # "playback"}
  OBVIOUS
<1>2. PICK modes : modes = load_mode_settings(seen.doc)
  OBVIOUS
<1>3. PICK walked : walked = walk(Restrict(seen.doc, others), settings_spec, default_settings)
  OBVIOUS
<1>4. PICK joined : joined = [value |-> walked.value ++ modes.value, notes |-> walked.notes \cup modes.notes]
  OBVIOUS
<1>5. PICK sorted : sorted = adjust_column_order(joined)
  OBVIOUS
<1>6. parse_settings(seen) = adjust_cover_priority(sorted)
  BY <1>1, <1>2, <1>3, <1>4, <1>5 DEF parse_settings
<1>7. Told(walked, seen.doc, settings_spec, key)
  <2>1. Told(walked, Restrict(seen.doc, others), settings_spec, key)
    BY <1>3, WalkTells
  <2>2. lookup(Restrict(seen.doc, others), key) = lookup(seen.doc, key)
    BY <1>1, OthersLookup
  <2> QED BY <2>1, <2>2 DEF Told
<1>8. key \in DOMAIN joined.value /\ joined.value[key] = walked.value[key]
  <2>1. PICK f : f = walked.value
    OBVIOUS
  <2>2. PICK g : g = modes.value
    OBVIOUS
  <2>3. joined.value = f ++ g
    BY <1>4, <2>1, <2>2
  <2>4. key \in DOMAIN f
    BY <1>3, <2>1, WalkDomain
  <2>5. key \in DOMAIN (f ++ g) /\ (f ++ g)[key] = f[key]
    BY <2>4, MergedIs, Zenon
  <2> QED BY <2>1, <2>3, <2>5
<1>9. Told(joined, seen.doc, settings_spec, key)
  BY <1>4, <1>7, <1>8 DEF Told
<1>10. Told(sorted, seen.doc, settings_spec, key) /\ key \in DOMAIN sorted.value
  <2>1. PICK list : list = completed(joined.value[ColumnOrder], Columns)
    OBVIOUS
  <2>2. sorted = Corrected(joined, ColumnOrder, list # joined.value[ColumnOrder], list)
    BY <1>5, <2>1 DEF adjust_column_order, adjust_order, ColumnOrder
  <2> QED BY <1>8, <1>9, <2>2, CorrectedTells, CorrectedIs
<1>11. Told(parse_settings(seen), seen.doc, settings_spec, key)
  BY <1>6, <1>10, CorrectedTells DEF adjust_cover_priority, adjust_order, CoverPriority
<1> QED BY <1>11

\* What the modes say and remark, the settings do.
LEMMA JoinedModes ==
  ASSUME NEW seen, seen.read = "Parsed", NEW modes, modes = load_mode_settings(seen.doc)
  PROVE  /\ modes.notes \subseteq parse_settings(seen).notes
         /\ \A p \in DOMAIN modeSpec \cup {Devices} : parse_settings(seen).value[p] = modes.value[p]
<1>1. PICK others : others = {path \in DOMAIN seen.doc : Head(path) # "playback"}
  OBVIOUS
<1>2. PICK walked : walked = walk(Restrict(seen.doc, others), settings_spec, default_settings)
  OBVIOUS
<1>3. PICK joined : joined = [value |-> walked.value ++ modes.value, notes |-> walked.notes \cup modes.notes]
  OBVIOUS
<1>4. PICK sorted : sorted = adjust_column_order(joined)
  OBVIOUS
<1>5. PICK got : got = parse_settings(seen)
  OBVIOUS
<1>6. got = adjust_cover_priority(sorted)
  BY <1>1, <1>2, <1>3, <1>4, <1>5 DEF parse_settings
<1>7. \A p \in DOMAIN modeSpec \cup {Devices} :
         /\ p \in DOMAIN joined.value /\ joined.value[p] = modes.value[p]
         /\ p # ColumnOrder /\ p # CoverPriority
  <2>1. PICK f : f = walked.value
    OBVIOUS
  <2>2. PICK g : g = modes.value
    OBVIOUS
  <2>3. joined.value = f ++ g
    BY <1>3, <2>1, <2>2
  <2>4. DOMAIN f = DOMAIN settings_spec /\ DOMAIN g = DOMAIN modeSpec \cup {Devices}
    <3>1. DOMAIN f = DOMAIN settings_spec
      BY <1>2, <2>1, WalkDomain
    <3> QED BY <2>2, <3>1, LoadedModesOK
  <2>5. \A p \in DOMAIN modeSpec \cup {Devices} : p \notin DOMAIN settings_spec
    BY PathsApart
  <2>6. /\ \A p \in DOMAIN g \ DOMAIN f : (f ++ g)[p] = g[p]
        /\ DOMAIN (f ++ g) = DOMAIN f \cup DOMAIN g
    BY MergedIs
  <2>7. ColumnOrder \in DOMAIN settings_spec /\ CoverPriority \in DOMAIN settings_spec
    BY SettingsPaths
  <2> QED BY <2>2, <2>3, <2>4, <2>5, <2>6, <2>7
<1>8. /\ joined.notes \subseteq sorted.notes /\ DOMAIN sorted.value = DOMAIN joined.value
      /\ \A p \in DOMAIN joined.value : p # ColumnOrder => sorted.value[p] = joined.value[p]
  BY <1>4, CorrectedIs DEF adjust_column_order, adjust_order, ColumnOrder
<1>9. /\ sorted.notes \subseteq got.notes
      /\ \A p \in DOMAIN sorted.value : p # CoverPriority => got.value[p] = sorted.value[p]
  BY <1>6, CorrectedIs DEF adjust_cover_priority, adjust_order, CoverPriority
<1>10. modes.notes \subseteq got.notes
  BY <1>3, <1>8, <1>9
<1>11. \A p \in DOMAIN modeSpec \cup {Devices} : got.value[p] = modes.value[p]
  BY <1>7, <1>8, <1>9
<1> QED BY <1>5, <1>10, <1>11

-----------------------------------------------------------------------------
(* The modes: the frame is whole, or all of it is remarked                  *)

\* [playback] is there, as it has to be, and of the version that is read.
Intact(doc) == WellFormed(doc) /\ lookup(doc, Schema) = Whole(2)

OptionsOf(doc) == walk(Restrict(doc, DOMAIN doc \cap DOMAIN modeSpec), modeSpec, modeDefaults)

\* An option the load corrects.
Wrong(v, key) ==
  \/ key = Compatible("device") /\ v[key] \notin Routed \cup {None}
  \/ \E m \in Own : /\ key = OfDevice(m)
                    /\ ~(v[key] \in DeviceBuffer.range /\ buffers_allowed(v[Buffer(m)], v[key]))

LEMMA MigrateCorrects ==
  ASSUME NEW loaded
  PROVE  migrate_legacy_compatible_device(loaded)
           = Corrected(loaded, Compatible("device"), loaded.value[Compatible("device")] \notin Routed \cup {None}, None)
BY DEF migrate_legacy_compatible_device

LEMMA ReconcileCorrects ==
  ASSUME NEW loaded, NEW m \in Own
  PROVE  \E chosen, wrong :
           /\ reconcile_device_buffer(loaded, m) = Corrected(loaded, OfDevice(m), wrong, chosen)
           /\ wrong = ~(/\ loaded.value[OfDevice(m)] \in DeviceBuffer.range
                        /\ buffers_allowed(loaded.value[Buffer(m)], loaded.value[OfDevice(m)]))
BY DEF reconcile_device_buffer, Buffer, OfDevice

LEMMA ModesRead ==
  ASSUME NEW doc, Intact(doc), NEW got, got = load_mode_settings(doc),
         NEW options, options = OptionsOf(doc), NEW devices, devices = parse_devices(doc)
  PROVE  /\ options.notes \subseteq got.notes /\ devices.notes \subseteq got.notes
         /\ \A p \in DOMAIN modeSpec : lookup(doc, p) = Table => Note(p, "invalid") \in got.notes
         /\ \A p \in Unknown(doc) : Note(p, "unknown") \in got.notes
         /\ got.value[Devices] = devices.value
         /\ \A p \in DOMAIN modeSpec : IF Wrong(options.value, p) THEN \E note \in got.notes : note.key = p
                                       ELSE got.value[p] = options.value[p]
<1>1. PICK tables : tables = {path \in DOMAIN modeSpec : lookup(doc, path) = Table /\ path \in DOMAIN modeSpec}
  OBVIOUS
<1>2. PICK read : read = [value |-> options.value ++ Single(Devices, devices.value),
                          notes |-> options.notes \cup devices.notes
                                    \cup {Note(path, "invalid") : path \in tables}
                                    \cup {Note(path, "unknown") : path \in Unknown(doc)}]
  OBVIOUS
<1>3. PICK migrated : migrated = migrate_legacy_compatible_device(read)
  OBVIOUS
<1>4. PICK one : one = reconcile_device_buffer(migrated, "optimal")
  OBVIOUS
<1>5. got = reconcile_device_buffer(one, "strict")
  <2>1. lookup(doc, <<"playback">>) # None
    <3>1. Table # None
      BY KeysAssumption
    <3> QED BY <3>1 DEF Intact, WellFormed
  <2>2. WellFormed(doc) /\ lookup(doc, Playback("schema")) = Whole(2)
    BY DEF Intact, Schema
  <2> QED BY <1>1, <1>2, <1>3, <1>4, <2>1, <2>2 DEF load_mode_settings, OptionsOf
<1>6. PICK v : v = read.value
  OBVIOUS
<1>7. /\ DOMAIN v = DOMAIN modeSpec \cup {Devices} /\ v[Devices] = devices.value
      /\ \A p \in DOMAIN modeSpec : v[p] = options.value[p]
  <2>1. v = options.value ++ Single(Devices, devices.value)
    BY <1>2, <1>6
  <2>2. DOMAIN options.value = DOMAIN modeSpec
    BY WalkDomain DEF OptionsOf
  <2> QED BY <2>1, <2>2, PathsApart DEF ++, Single
<1>8. "optimal" \in Own /\ "strict" \in Own /\ Own = {"optimal", "strict"}
  BY DEF Own
<1>9. PICK d : d = Compatible("device")
  OBVIOUS
<1>10. PICK o : o = OfDevice("optimal")
  OBVIOUS
<1>11. PICK s : s = OfDevice("strict")
  OBVIOUS
<1>12. PICK ob : ob = Buffer("optimal")
  OBVIOUS
<1>13. PICK sb : sb = Buffer("strict")
  OBVIOUS
<1>14. /\ d # o /\ d # s /\ o # s /\ ob \notin {d, o, s} /\ sb \notin {d, o, s} /\ Devices \notin {d, o, s}
       /\ {d, o, s, ob, sb} \subseteq DOMAIN modeSpec
  <2>1. /\ d # o /\ d # s /\ o # s /\ ob \notin {d, o, s} /\ sb \notin {d, o, s} /\ Devices \notin {d, o, s}
    BY <1>8, <1>9, <1>10, <1>11, <1>12, <1>13, KeysDiffer
  <2>2. {d, o, s, ob, sb} \subseteq DOMAIN modeSpec
    BY <1>8, <1>9, <1>10, <1>11, <1>12, <1>13, BufferKeys, DeviceKey
  <2> QED BY <2>1, <2>2
<1>15. PICK w1 : w1 = (v[d] \notin Routed \cup {None})
  OBVIOUS
<1>16. /\ DOMAIN migrated.value = DOMAIN v /\ read.notes \subseteq migrated.notes
       /\ \A p \in DOMAIN v : p # d => migrated.value[p] = v[p]
       /\ w1 => \E note \in migrated.notes : note.key = d
       /\ ~w1 => migrated.value[d] = v[d]
  <2>1. migrated = Corrected(read, d, w1, None)
    BY <1>3, <1>6, <1>9, <1>15, MigrateCorrects
  <2> QED BY <1>6, <2>1, CorrectedIs
<1>17. PICK c2, w2 : /\ one = Corrected(migrated, o, w2, c2)
                     /\ w2 = ~(/\ migrated.value[o] \in DeviceBuffer.range
                               /\ buffers_allowed(migrated.value[ob], migrated.value[o]))
  BY <1>4, <1>8, <1>10, <1>12, ReconcileCorrects
<1>18. /\ DOMAIN one.value = DOMAIN v /\ migrated.notes \subseteq one.notes
       /\ \A p \in DOMAIN v : p # o => one.value[p] = migrated.value[p]
       /\ w2 => \E note \in one.notes : note.key = o
       /\ ~w2 => one.value[o] = migrated.value[o]
  BY <1>16, <1>17, CorrectedIs
<1>19. PICK c3, w3 : /\ got = Corrected(one, s, w3, c3)
                     /\ w3 = ~(/\ one.value[s] \in DeviceBuffer.range
                               /\ buffers_allowed(one.value[sb], one.value[s]))
  BY <1>5, <1>8, <1>11, <1>13, ReconcileCorrects
<1>20. /\ DOMAIN got.value = DOMAIN v /\ one.notes \subseteq got.notes
       /\ \A p \in DOMAIN v : p # s => got.value[p] = one.value[p]
       /\ w3 => \E note \in got.notes : note.key = s
       /\ ~w3 => got.value[s] = one.value[s]
  BY <1>18, <1>19, CorrectedIs
<1>21. read.notes \subseteq got.notes
  BY <1>16, <1>18, <1>20
<1>22. /\ options.notes \subseteq got.notes /\ devices.notes \subseteq got.notes
       /\ \A p \in DOMAIN modeSpec : lookup(doc, p) = Table => Note(p, "invalid") \in got.notes
       /\ \A p \in Unknown(doc) : Note(p, "unknown") \in got.notes
  BY <1>1, <1>2, <1>21
<1>23. got.value[Devices] = devices.value
  BY <1>7, <1>14, <1>16, <1>18, <1>20
<1>24. PICK u : u = options.value
  OBVIOUS
<1>25. /\ Wrong(u, d) <=> w1
       /\ Wrong(u, o) <=> w2
       /\ Wrong(u, s) <=> w3
       /\ \A p \in DOMAIN modeSpec \ {d, o, s} : ~Wrong(u, p)
  <2>1. \A p : Wrong(u, p) <=> \/ p = d /\ u[p] \notin Routed \cup {None}
                               \/ p = o /\ ~(u[p] \in DeviceBuffer.range /\ buffers_allowed(u[ob], u[p]))
                               \/ p = s /\ ~(u[p] \in DeviceBuffer.range /\ buffers_allowed(u[sb], u[p]))
    BY <1>8, <1>9, <1>10, <1>11, <1>12, <1>13 DEF Wrong
  <2>2. u[d] = v[d] /\ u[o] = migrated.value[o] /\ u[ob] = migrated.value[ob]
    BY <1>7, <1>14, <1>16, <1>24
  <2>3. u[s] = one.value[s] /\ u[sb] = one.value[sb]
    BY <1>7, <1>14, <1>16, <1>18, <1>24
  <2>4. Wrong(u, d) <=> w1
    BY <1>14, <1>15, <2>1, <2>2
  <2>5. Wrong(u, o) <=> w2
    BY <1>14, <1>17, <2>1, <2>2
  <2>6. Wrong(u, s) <=> w3
    BY <1>14, <1>19, <2>1, <2>3
  <2> QED BY <2>1, <2>4, <2>5, <2>6
<1>26. ASSUME NEW p \in DOMAIN modeSpec
       PROVE  IF Wrong(u, p) THEN \E note \in got.notes : note.key = p ELSE got.value[p] = u[p]
  <2>1. p \in DOMAIN v /\ v[p] = u[p]
    BY <1>7, <1>24
  <2>2. CASE p = d
    BY <1>14, <1>16, <1>18, <1>20, <1>25, <2>1, <2>2
  <2>3. CASE p = o
    BY <1>14, <1>16, <1>18, <1>20, <1>25, <2>1, <2>3
  <2>4. CASE p = s
    BY <1>14, <1>16, <1>18, <1>20, <1>25, <2>1, <2>4
  <2>5. CASE p \notin {d, o, s}
    BY <1>16, <1>18, <1>20, <1>25, <2>1, <2>5
  <2> QED BY <2>2, <2>3, <2>4, <2>5
<1> QED BY <1>22, <1>23, <1>24, <1>26

\* What keeps the frame from being whole is remarked.
LEMMA BrokenFrame ==
  ASSUME NEW doc, ~Intact(doc), lookup(doc, <<"playback">>) # None
  PROVE  \E note \in load_mode_settings(doc).notes : note.key \in {<<"playback">>, Schema}
<1>1. \/ load_mode_settings(doc) = Unrecognised(<<"playback">>)
      \/ load_mode_settings(doc) = Unrecognised(Schema)
  <2>1. CASE ~WellFormed(doc)
    BY <2>1 DEF load_mode_settings
  <2>2. CASE WellFormed(doc)
    BY <2>2 DEF load_mode_settings, Intact, Schema
  <2> QED BY <2>1, <2>2
<1>2. ASSUME NEW path PROVE \E note \in Unrecognised(path).notes : note.key = path
  BY DEF Unrecognised, Note
<1> QED BY <1>1, <1>2

LEMMA OptionLookup ==
  ASSUME NEW doc, DocOK(doc), NEW key \in DOMAIN modeSpec
  PROVE  lookup(Restrict(doc, DOMAIN doc \cap DOMAIN modeSpec), key)
           = IF lookup(doc, key) = Table THEN None ELSE lookup(doc, key)
<1>1. PICK part : part = Restrict(doc, DOMAIN doc \cap DOMAIN modeSpec)
  OBVIOUS
<1>2. DOMAIN part = DOMAIN doc \cap DOMAIN modeSpec /\ \A p \in DOMAIN part : part[p] = doc[p]
  BY <1>1, RestrictIs
<1>3. key \in DOMAIN doc => lookup(doc, key) = doc[key] /\ lookup(doc, key) # Table
  BY LookedUp
<1>4. ASSUME NEW p \in DOMAIN part, IsStrictPrefix(key, p) PROVE FALSE
  <2>1. p \in Seq(Strings) /\ key \in Seq(Strings) /\ Len(p) = 3 /\ Len(key) = 3
    BY <1>2, ModeSpecOK
  <2> QED BY <1>4, <2>1, PrefixIs
<1>5. CASE key \in DOMAIN doc
  BY <1>1, <1>2, <1>3, <1>5 DEF lookup
<1>6. CASE key \notin DOMAIN doc
  <2>1. lookup(part, key) = None
    BY <1>2, <1>4, <1>6 DEF lookup
  <2>2. lookup(doc, key) \in {Table, None}
    BY <1>6 DEF lookup
  <2> QED BY <1>1, <2>1, <2>2
<1> QED BY <1>5, <1>6

LEMMA OptionsOptional == \A p \in DOMAIN modeSpec : modeSpec[p].optional
BY ModePaths DEF compatibleKeys, Optional, optimalKeys, strictKeys

LEMMA NothingUnder ==
  ASSUME NEW doc, DocOK(doc), NEW path \in Seq(Strings), NEW key \in Seq(Strings),
         IsPrefix(path, key), lookup(doc, path) = None
  PROVE  lookup(doc, key) = None
<1>1. path \notin DOMAIN doc
  BY LookedUp
<1>2. None # Table
  BY KeysAssumption
<1>3. \A p \in DOMAIN doc : ~IsStrictPrefix(path, p)
  BY <1>1, <1>2 DEF lookup
<1>4. ASSUME NEW p \in DOMAIN doc, IsPrefix(key, p) PROVE FALSE
  BY <1>1, <1>3, <1>4, PrefixIs, ShortPaths DEF DocOK
<1>5. IsPrefix(key, key)
  BY PrefixIs
<1>6. \A p \in DOMAIN doc : IsStrictPrefix(key, p) => IsPrefix(key, p)
  BY PrefixIs DEF DocOK
<1> QED BY <1>4, <1>5, <1>6 DEF lookup

LEMMA TopIs ==
  /\ <<"playback">> \in Seq(Strings)
  /\ \A p \in Seq(Strings) : Len(p) >= 1 /\ p[1] = "playback" => IsPrefix(<<"playback">>, p)
<1>1. PICK top : top = <<"playback">>
  OBVIOUS
<1>2. top \in Seq(Strings)
  BY <1>1, ModeNames, TuplesArePaths
<1>3. Len(top) = 1 /\ top[1] = "playback"
  BY <1>1
<1>4. ASSUME NEW p \in Seq(Strings), Len(p) >= 1, p[1] = "playback" PROVE IsPrefix(top, p)
  BY <1>2, <1>3, <1>4, PrefixIs
<1> QED BY <1>1, <1>2, <1>4

LEMMA RawBoolean ==
  ASSUME NEW raw \in Raws, raw[1] = "boolean" PROVE raw \in {Bool(TRUE), Bool(FALSE)}
<1>1. raw \in {"boolean"} \X BOOLEAN
  BY DEF Raws
<1>2. raw = <<raw[1], raw[2]>> /\ raw[2] \in BOOLEAN
  BY <1>1
<1>3. raw[2] = TRUE \/ raw[2] = FALSE
  BY <1>2
<1>4. CASE raw[2] = TRUE
  BY <1>2, <1>4 DEF Bool
<1>5. CASE raw[2] = FALSE
  BY <1>2, <1>5 DEF Bool
<1> QED BY <1>3, <1>4, <1>5

LEMMA OptionsTell ==
  ASSUME NEW doc, DocOK(doc), NEW key \in DOMAIN modeSpec, NEW got, got = load_mode_settings(doc)
  PROVE  \/ Told(got, doc, modeSpec, key)
         \/ \E note \in got.notes : note.key \in {<<"playback">>, Schema}
<1>1. CASE lookup(doc, <<"playback">>) = None
  <2>1. <<"playback">> \in Seq(Strings) /\ key \in Seq(Strings) /\ IsPrefix(<<"playback">>, key)
    <3>1. key \in Seq(Strings) /\ key[1] = "playback" /\ Len(key) = 3
      BY ModeSpecOK
    <3> QED BY <3>1, TopIs
  <2>2. lookup(doc, key) = None
    BY <1>1, <2>1, NothingUnder
  <2> QED BY <2>2, OptionsOptional DEF Told
<1>2. CASE lookup(doc, <<"playback">>) # None /\ ~Intact(doc)
  BY <1>2, BrokenFrame
<1>3. CASE Intact(doc)
  <2>1. PICK options : options = OptionsOf(doc)
    OBVIOUS
  <2>2. /\ options.notes \subseteq got.notes
        /\ lookup(doc, key) = Table => Note(key, "invalid") \in got.notes
        /\ IF Wrong(options.value, key) THEN \E note \in got.notes : note.key = key
           ELSE got.value[key] = options.value[key]
    BY <1>3, <2>1, ModesRead
  <2>3. PICK part : part = Restrict(doc, DOMAIN doc \cap DOMAIN modeSpec)
    OBVIOUS
  <2>4. Told(options, part, modeSpec, key)
    BY <2>1, <2>3, WalkTells DEF OptionsOf
  <2>5. lookup(part, key) = IF lookup(doc, key) = Table THEN None ELSE lookup(doc, key)
    BY <2>3, OptionLookup
  <2>6. CASE lookup(doc, key) = Table
    <3>1. Note(key, "invalid").key = key
      BY DEF Note
    <3> QED BY <2>2, <2>6, <3>1 DEF Told
  <2>7. CASE lookup(doc, key) # Table
    <3>1. Told(options, doc, modeSpec, key)
      BY <2>4, <2>5, <2>7 DEF Told
    <3> QED BY <2>2, <3>1 DEF Told
  <2> QED BY <2>6, <2>7
<1> QED BY <1>1, <1>2, <1>3

\* An entry of a device that says anything but whether it takes DoP is remarked.
LEMMA EntriesTell ==
  ASSUME NEW doc, DocOK(doc), Pointed(doc), NEW path \in Seq(Strings), IsPrefix(Devices, path),
         lookup(doc, path) \notin {None, Table, Bool(TRUE), Bool(FALSE)}
  PROVE  \E note \in load_mode_settings(doc).notes :
           note.key \in {<<"playback">>, Schema} \/ (note.key \in Seq(Strings) /\ IsPrefix(Devices, note.key))
<1>1. path \in DOMAIN doc /\ lookup(doc, path) = doc[path]
  BY LookedUp
<1>2. Len(path) >= 2 /\ path[1] = "playback" /\ path[2] = "devices"
  BY DevicesPrefix
<1>3. lookup(doc, <<"playback">>) # None
  <2>1. <<"playback">> \in Seq(Strings) /\ IsPrefix(<<"playback">>, path)
    BY <1>2, TopIs
  <2> QED BY <1>1, <2>1, NothingUnder
<1>4. CASE ~Intact(doc)
  BY <1>3, <1>4, BrokenFrame
<1>5. CASE Intact(doc)
  <2>1. PICK entries : entries = Children(doc, Devices)
    OBVIOUS
  <2>2. PICK notesOf : notesOf = parse_devices(doc).notes
    OBVIOUS
  <2>3. /\ notesOf \subseteq load_mode_settings(doc).notes
        /\ \A p \in Unknown(doc) : Note(p, "unknown") \in load_mode_settings(doc).notes
    BY <1>5, <2>2, ModesRead
  <2>4. path # Devices
    BY <1>5 DEF Intact, WellFormed, Tables
  <2>5. Len(path) >= 3
    <3>1. CASE Len(path) = 2
      <4>1. \A i \in 1 .. 2 : path[i] = Devices[i]
        BY <1>2, PathsApart
      <4> QED BY <2>4, <3>1, <4>1, PathsApart, ShortPaths
    <3>2. PICK n : n = Len(path)
      OBVIOUS
    <3>3. n \in Nat /\ n >= 2 /\ n # 2
      BY <1>2, <3>1, <3>2
    <3>4. n >= 3
      BY <3>3
    <3> QED BY <3>2, <3>4
  <2>6. PICK id : id = path[3]
    OBVIOUS
  <2>7. id \in Strings
    BY <2>5, <2>6
  <2>8. Entry(id) \in entries
    <3>1. IsStrictPrefix(Devices, path)
      BY <1>2, <2>5, PathsApart, PrefixIs
    <3>2. SubSeq(path, 1, 3) \in Seq(Strings) /\ Len(SubSeq(path, 1, 3)) = 3
          /\ \A i \in 1 .. 3 : SubSeq(path, 1, 3)[i] = path[i]
      BY <2>5, PartIs
    <3>3. \A i \in 1 .. 3 : SubSeq(path, 1, 3)[i] = Entry(id)[i]
      <4>1. path[1] = Entry(id)[1] /\ path[2] = Entry(id)[2] /\ path[3] = Entry(id)[3]
        BY <1>2, <2>6, <2>7, EntryIs
      <4> QED BY <3>2, <4>1
    <3>4. SubSeq(path, 1, 3) = Entry(id)
      BY <2>7, <3>2, <3>3, EntryIs, ShortPaths
    <3>5. SubSeq(path, 1, Len(Devices) + 1) \in entries
      BY <1>1, <2>1, <3>1 DEF Children
    <3>6. Len(Devices) + 1 = 3
      BY PathsApart
    <3> QED BY <3>4, <3>5, <3>6
  <2>9. CASE id \in Blank
    <3>1. Last(Entry(id)) = id /\ Append(Devices, id) = Entry(id)
      BY <2>7, EntryIs
    <3>2. Note(Entry(id), "invalid") \in notesOf
      BY <2>1, <2>2, <2>8, <2>9, <3>1 DEF parse_devices
    <3>3. Note(Entry(id), "invalid").key = Entry(id)
      BY DEF Note
    <3>4. Entry(id) \in Seq(Strings) /\ IsPrefix(Devices, Entry(id))
      BY <2>7, EntryIs, DevicesPrefix
    <3> QED BY <2>3, <3>2, <3>3, <3>4
  <2>10. ASSUME id \notin Blank, lookup(doc, Dop(id)) # None, lookup(doc, Dop(id))[1] # "boolean"
         PROVE  \E note \in notesOf : note.key \in Seq(Strings) /\ IsPrefix(Devices, note.key)
    <3>1. Last(Entry(id)) = id
      BY <2>7, EntryIs
    <3>2. id \in {Last(e) : e \in entries} \ Blank
      BY <2>8, <2>10, <3>1
    <3>3. Note(Dop(id), "invalid") \in notesOf
      BY <2>1, <2>2, <2>10, <3>2 DEF parse_devices
    <3>4. Note(Dop(id), "invalid").key = Dop(id)
      BY DEF Note
    <3>5. Dop(id) \in Seq(Strings) /\ IsPrefix(Devices, Dop(id))
      BY <2>7, PartsApart, DevicesPrefix
    <3> QED BY <3>3, <3>4, <3>5
  <2>11. CASE id \notin Blank /\ Len(path) = 3
    <3>1. path = Entry(id)
      <4>1. path[1] = Entry(id)[1] /\ path[2] = Entry(id)[2] /\ path[3] = Entry(id)[3]
        BY <1>2, <2>6, <2>7, EntryIs
      <4>2. \A i \in 1 .. 3 : path[i] = Entry(id)[i]
        BY <4>1
      <4>3. Len(path) = 3
        BY <2>11
      <4>4. Entry(id) \in Seq(Strings) /\ Len(Entry(id)) = 3
        BY <2>7, EntryIs
      <4> QED BY <4>2, <4>3, <4>4, ShortPaths
    <3>2. lookup(doc, path) = Table
      BY <1>5, <2>1, <2>8, <3>1 DEF Intact, WellFormed
    <3> QED BY <3>2
  <2>12. CASE id \notin Blank /\ Len(path) # 3
    <3>1. Len(path) >= 4
      <4>1. PICK n : n = Len(path)
        OBVIOUS
      <4>2. n \in Nat /\ n >= 3 /\ n # 3
        BY <2>5, <2>12, <4>1
      <4>3. n >= 4
        BY <4>2
      <4> QED BY <4>1, <4>3
    <3>2. PICK child : child = SubSeq(path, 1, 4)
      OBVIOUS
    <3>3. child \in Seq(Strings) /\ Len(child) = 4 /\ \A i \in 1 .. 4 : child[i] = path[i]
      BY <3>1, <3>2, PartIs
    <3>4. IsPrefix(Devices, child)
      <4>1. child[1] = path[1] /\ child[2] = path[2] /\ Len(child) >= 2
        BY <3>3
      <4> QED BY <1>2, <3>3, <4>1, DevicesPrefix
    <3>5. CASE child = Dop(id)
      <4>1. lookup(doc, Dop(id)) # None /\ lookup(doc, Dop(id))[1] # "boolean"
        <5>1. CASE Len(path) = 4
          <6>1. path = Dop(id)
            BY <3>3, <3>5, <5>1, ShortPaths
          <6>2. doc[path] \in Raws /\ doc[path] \notin {Bool(TRUE), Bool(FALSE)}
            BY <1>1 DEF DocOK
          <6>3. doc[path][1] # "boolean"
            BY <6>2, RawBoolean
          <6>4. doc[path] # None
            BY <1>1
          <6> QED BY <1>1, <6>1, <6>3, <6>4
        <5>2. CASE Len(path) # 4
          <6>1. IsStrictPrefix(Dop(id), path)
            BY <3>1, <3>3, <3>5, <5>2, PrefixIs
          <6>2. lookup(doc, Dop(id)) = Table \/ Dop(id) \in DOMAIN doc
            BY <1>1, <6>1 DEF lookup
          <6>3. Table[1] = "table" /\ Table # None
            BY KeysAssumption DEF Table
          <6>4. CASE lookup(doc, Dop(id)) = Table
            BY <6>3, <6>4
          <6>5. CASE Dop(id) \in DOMAIN doc
            <7>1. IsPrefix(Devices, Dop(id))
              BY <2>7, PartsApart, DevicesPrefix
            <7> QED BY <1>1, <6>1, <6>5, <7>1 DEF Pointed
          <6> QED BY <6>2, <6>4, <6>5
        <5> QED BY <5>1, <5>2
      <4> QED BY <2>3, <2>10, <2>12, <4>1
    <3>6. CASE child # Dop(id)
      <4>1. child \in Children(doc, Entry(id))
        <5>1. Len(Entry(id)) = 3 /\ Entry(id) \in Seq(Strings)
          BY <2>7, EntryIs
        <5>2. \A i \in 1 .. 3 : Entry(id)[i] = path[i]
          <6>1. path[1] = Entry(id)[1] /\ path[2] = Entry(id)[2] /\ path[3] = Entry(id)[3]
            BY <1>2, <2>6, <2>7, EntryIs
          <6> QED BY <6>1
        <5>3. IsStrictPrefix(Entry(id), path)
          BY <3>1, <5>1, <5>2, PrefixIs
        <5>4. SubSeq(path, 1, Len(Entry(id)) + 1) \in Children(doc, Entry(id))
          BY <1>1, <5>3 DEF Children
        <5>5. Len(Entry(id)) + 1 = 4
          BY <5>1
        <5> QED BY <3>2, <5>4, <5>5
      <4>2. child \notin Tables \cup {Playback("schema")} \cup DOMAIN modeSpec
        <5>1. \A p \in Tables \cup {Playback("schema")} \cup DOMAIN modeSpec : Len(p) = 2 \/ Len(p) = 3
          BY TablePaths, PartsApart, ModeSpecOK DEF Schema
        <5>2. Len(child) # 2 /\ Len(child) # 3
          BY <3>3
        <5> QED BY <5>1, <5>2, Zenon
      <4>3. ASSUME NEW e \in entries, child = Append(e, "dop") PROVE FALSE
        <5>1. e \in Seq(Strings) /\ Len(e) = 3
          <6>1. Devices \in Seq(Strings) /\ Len(Devices) + 1 = 3
            BY PathsApart
          <6>2. e \in Seq(Strings) /\ Len(e) = Len(Devices) + 1
            BY <2>1, <6>1, ChildrenAre
          <6> QED BY <6>1, <6>2
        <5>2. "dop" \in Strings
          BY ModeNames
        <5>3. child[4] = "dop"
          <6>1. Append(e, "dop")[Len(e) + 1] = "dop"
            BY <5>1, <5>2, LongerPath
          <6>2. Len(e) + 1 = 4
            BY <5>1
          <6> QED BY <4>3, <6>1, <6>2
        <5>4. \A i \in 1 .. 4 : child[i] = Dop(id)[i]
          <6>1. /\ child[1] = Dop(id)[1] /\ child[2] = Dop(id)[2] /\ child[3] = Dop(id)[3]
                /\ child[4] = Dop(id)[4]
            BY <1>2, <2>6, <2>7, <3>3, <5>3, PartsApart
          <6> QED BY <6>1
        <5>5. child = Dop(id)
          <6>1. Dop(id) \in Seq(Strings) /\ Len(Dop(id)) = 4
            BY <2>7, PartsApart
          <6> QED BY <3>3, <5>4, <6>1, ShortPaths
        <5> QED BY <3>6, <5>5
      <4>4. Entry(id) \in {e \in entries : Last(e) \notin Blank}
        BY <2>7, <2>8, <2>12, EntryIs
      <4>5. child \in Unknown(doc)
        BY <2>1, <4>1, <4>2, <4>3, <4>4 DEF Unknown
      <4>6. Note(child, "unknown") \in load_mode_settings(doc).notes
        BY <2>3, <4>5
      <4>7. Note(child, "unknown").key = child
        BY DEF Note
      <4> QED BY <3>3, <3>4, <4>6, <4>7
    <3> QED BY <3>5, <3>6
  <2> QED BY <2>9, <2>11, <2>12
<1> QED BY <1>4, <1>5

-----------------------------------------------------------------------------
(* A key that nothing concerns has what was saved                           *)

LEMMA AdjustOrderIs ==
  ASSUME NEW loaded, NEW key, NEW all, NEW made, made = adjust_order(loaded, key, all)
  PROVE  /\ DOMAIN made.value = DOMAIN loaded.value
         /\ \A p \in DOMAIN loaded.value : p # key => made.value[p] = loaded.value[p]
BY CorrectedIs DEF adjust_order

LEMMA OtherUnchanged ==
  ASSUME NEW v, SettingsFit(v), SettingsOK(v), NEW seen, seen.read = "Parsed", DocOK(seen.doc),
         NEW paths \in SUBSET Seq(Strings), Differs(serialize_settings(v).doc, seen.doc, paths),
         NEW key \in DOMAIN settings_spec, \A d \in paths : ~Along(d, key)
  PROVE  parse_settings(seen).value[key] = v[key]
<1>1. PICK saved : saved = serialize_settings(v).doc
  OBVIOUS
<1>2. Saves(saved, v) /\ DocOK(saved)
  BY <1>1, WrittenDocument
<1>3. PICK others : others = {path \in DOMAIN seen.doc : Head(path) # "playback"}
  OBVIOUS
<1>4. PICK before : before = {path \in DOMAIN saved : Head(path) # "playback"}
  OBVIOUS
<1>5. lookup(Restrict(seen.doc, others), key) = lookup(Restrict(saved, before), key)
  <2>1. key \in Seq(Strings)
    BY SettingsSpecOK
  <2>2. lookup(seen.doc, key) = lookup(saved, key)
    BY <1>1, <1>2, <2>1, UnchangedLookup
  <2>3. lookup(Restrict(seen.doc, others), key) = lookup(seen.doc, key)
    BY <1>3, OthersLookup
  <2>4. lookup(Restrict(saved, before), key) = lookup(saved, key)
    BY <1>2, <1>4, OthersLookup
  <2> QED BY <2>2, <2>3, <2>4
<1>6. PICK walked : walked = walk(Restrict(seen.doc, others), settings_spec, default_settings)
  OBVIOUS
<1>7. walked.value[key] = v[key]
  <2>1. walked.value[key] = walk(Restrict(saved, before), settings_spec, default_settings).value[key]
    BY <1>5, <1>6, WalkSame
  <2>2. walk(Restrict(saved, before), settings_spec, default_settings)
          = [value |-> [path \in DOMAIN settings_spec |-> v[path]], notes |-> {}]
    BY <1>2, <1>4, SavedOthers
  <2> QED BY <2>1, <2>2
<1>8. PICK modes : modes = load_mode_settings(seen.doc)
  OBVIOUS
<1>9. PICK joined : joined = [value |-> walked.value ++ modes.value, notes |-> walked.notes \cup modes.notes]
  OBVIOUS
<1>10. PICK sorted : sorted = adjust_order(joined, ColumnOrder, Columns)
  OBVIOUS
<1>11. PICK got : got = parse_settings(seen)
  OBVIOUS
<1>12. got = adjust_order(sorted, CoverPriority, CoverSources)
  BY <1>3, <1>6, <1>8, <1>9, <1>10, <1>11
     DEF parse_settings, adjust_column_order, adjust_cover_priority, ColumnOrder, CoverPriority
<1>13. key \in DOMAIN joined.value /\ joined.value[key] = v[key]
  <2>1. PICK f : f = walked.value
    OBVIOUS
  <2>2. PICK g : g = modes.value
    OBVIOUS
  <2>3. joined.value = f ++ g
    BY <1>9, <2>1, <2>2
  <2>4. key \in DOMAIN f
    BY <1>6, <2>1, WalkDomain
  <2>5. key \in DOMAIN (f ++ g) /\ (f ++ g)[key] = f[key]
    BY <2>4, MergedIs, Zenon
  <2> QED BY <1>7, <2>1, <2>3, <2>5
<1>14. Orders(v[ColumnOrder], Columns) /\ Orders(v[CoverPriority], CoverSources)
  BY DEF SettingsOK
<1>15. key \in DOMAIN sorted.value /\ sorted.value[key] = v[key]
  <2>1. CASE key = ColumnOrder
    <3>1. sorted = joined
      BY <1>10, <1>13, <1>14, <2>1, AdjustedSame, SourcesAre
    <3> QED BY <1>13, <3>1
  <2>2. CASE key # ColumnOrder
    BY <1>10, <1>13, <2>2, AdjustOrderIs
  <2> QED BY <2>1, <2>2
<1>16. got.value[key] = v[key]
  <2>1. CASE key = CoverPriority
    <3>1. got = sorted
      BY <1>12, <1>14, <1>15, <2>1, AdjustedSame, SourcesAre
    <3> QED BY <1>15, <3>1
  <2>2. CASE key # CoverPriority
    BY <1>12, <1>15, <2>2, AdjustOrderIs
  <2> QED BY <2>1, <2>2
<1> QED BY <1>11, <1>16

LEMMA FrameUnchanged ==
  ASSUME NEW v, SettingsFit(v), NEW saved, DocOK(saved), Saves(saved, v), NEW doc, DocOK(doc),
         NEW paths \in SUBSET Seq(Strings), Differs(saved, doc, paths),
         \A d \in paths : ~Frame(d) /\ Len(d) > 0
  PROVE  Intact(doc)
<1>1. Schema \in Seq(Strings) /\ Len(Schema) = 2 /\ Schema[1] = "playback" /\ Schema[2] = "schema"
  BY PartsApart
<1>2. PICK top : top = <<"playback">>
  OBVIOUS
<1>3. top \in Seq(Strings) /\ Len(top) = 1 /\ top[1] = "playback" /\ Frame(top)
  BY <1>2, ModeNames, TuplesArePaths DEF Frame
<1>4. ASSUME NEW d \in paths, Along(d, Schema) PROVE FALSE
  <2>1. d \in Seq(Strings)
    OBVIOUS
  <2>2. CASE IsPrefix(Schema, d)
    BY <2>2 DEF Frame, Schema
  <2>3. CASE IsPrefix(d, Schema)
    <3>1. Len(d) <= 2 /\ \A i \in 1 .. Len(d) : d[i] = Schema[i]
      BY <1>1, <2>1, <2>3, PrefixIs
    <3>2. PICK n : n = Len(d)
      OBVIOUS
    <3>3. n \in Nat /\ n > 0 /\ n <= 2
      BY <3>1, <3>2
    <3>4. n = 1 \/ n = 2
      BY <3>3
    <3>5. CASE n = 1
      <4>1. d[1] = top[1] /\ Len(d) = 1
        BY <1>1, <1>3, <3>1, <3>2, <3>5
      <4>2. d = top
        BY <1>3, <2>1, <4>1, ShortPaths
      <4> QED BY <1>3, <4>2
    <3>6. CASE n = 2
      <4>1. d = Schema
        BY <1>1, <2>1, <3>1, <3>2, <3>6, ShortPaths
      <4> QED BY <1>1, <2>2, <4>1, PrefixIs
    <3> QED BY <3>4, <3>5, <3>6
  <2> QED BY <1>4, <2>2, <2>3 DEF Along
<1>5. lookup(doc, Schema) = Whole(2) /\ Schema \in DOMAIN doc
  BY <1>1, <1>4, UnchangedLookup, SavedLookups, LookedUp DEF Saves
<1>6. ASSUME NEW p \in DOMAIN doc, Frame(p), p[1] = "playback" PROVE p \in DOMAIN saved
  BY <1>6 DEF Differs
<1>7. lookup(doc, top) = Table
  <2>1. top \notin DOMAIN doc
    <3>1. ASSUME top \in DOMAIN saved PROVE FALSE
      BY <1>3, <3>1, PlaybackPaths
    <3> QED BY <1>3, <1>6, <3>1
  <2>2. IsStrictPrefix(top, Schema)
    <3>1. PICK s : s = Schema
      OBVIOUS
    <3>2. s \in Seq(Strings) /\ Len(s) = 2 /\ s[1] = "playback"
      BY <1>1, <3>1
    <3>3. \A i \in 1 .. 1 : top[i] = s[i]
      BY <1>3, <3>2
    <3>4. Len(top) < Len(s) /\ \A i \in 1 .. Len(top) : top[i] = s[i]
      BY <1>3, <3>2, <3>3
    <3>5. IsStrictPrefix(top, s)
      BY <1>3, <3>2, <3>4, PrefixIs
    <3> QED BY <3>1, <3>5
  <2> QED BY <1>5, <2>1, <2>2 DEF lookup
<1>8. ASSUME NEW t \in Tables PROVE lookup(doc, t) \in {None, Table}
  <2>1. t \in Seq(Strings) /\ Len(t) = 2 /\ t[1] = "playback" /\ t[2] # "schema"
    BY TablePaths
  <2>2. t \notin DOMAIN doc
    <3>1. ASSUME t \in DOMAIN saved PROVE FALSE
      BY <2>1, <3>1, PlaybackPaths
    <3>2. Frame(t)
      BY DEF Frame
    <3> QED BY <1>6, <2>1, <3>1, <3>2
  <2> QED BY <2>2 DEF lookup
<1>9. ASSUME NEW e \in Children(doc, Devices) PROVE lookup(doc, e) = Table
  <2>1. Devices \in Seq(Strings) /\ Len(Devices) = 2 /\ Devices[1] = "playback" /\ Devices[2] = "devices"
    BY PathsApart
  <2>2. PICK p \in DOMAIN doc :
          /\ p \in Seq(Strings) /\ Len(Devices) < Len(p) /\ \A i \in 1 .. Len(Devices) : p[i] = Devices[i]
          /\ e = SubSeq(p, 1, Len(Devices) + 1)
          /\ e \in Seq(Strings) /\ Len(e) = Len(Devices) + 1
          /\ \A i \in 1 .. Len(Devices) + 1 : e[i] = p[i]
    BY <1>9, <2>1, ChildrenAre
  <2>3. Len(e) = 3 /\ e[1] = "playback" /\ e[2] = "devices"
    BY <2>1, <2>2
  <2>4. e \notin DOMAIN doc
    <3>1. ASSUME e \in DOMAIN saved PROVE FALSE
      <4>1. "devices" \notin {"compatible", "optimal", "strict", "schema"}
        OBVIOUS
      <4>2. Len(e) = 4
        BY <2>3, <3>1, <4>1, PlaybackPaths
      <4>3. PICK n : n = Len(e)
        OBVIOUS
      <4>4. n = 3 /\ n = 4
        BY <2>3, <4>2, <4>3, Zenon
      <4> QED BY <4>4
    <3>2. IsPrefix(Devices, e)
      <4>1. Len(e) >= 2
        BY <2>3
      <4> QED BY <2>2, <2>3, <4>1, DevicesPrefix
    <3>3. Frame(e)
      BY <2>3, <3>2 DEF Frame
    <3> QED BY <1>6, <2>3, <3>1, <3>3
  <2>5. p # e
    BY <2>4
  <2>6. Len(p) # 3
    <3>1. ASSUME Len(p) = 3 PROVE FALSE
      <4>1. \A i \in 1 .. 3 : e[i] = p[i]
        BY <2>1, <2>2
      <4> QED BY <2>2, <2>3, <2>5, <3>1, <4>1, ShortPaths
    <3> QED BY <3>1
  <2>7. Len(p) > 3
    <3>1. PICK n : n = Len(p)
      OBVIOUS
    <3>2. n \in Nat /\ 2 < n /\ n # 3
      BY <2>1, <2>2, <2>6, <3>1
    <3>3. n > 3
      BY <3>2
    <3> QED BY <3>1, <3>3
  <2>8. IsStrictPrefix(e, p)
    <3>1. \A i \in 1 .. 3 : e[i] = p[i]
      BY <2>1, <2>2
    <3> QED BY <2>2, <2>3, <2>7, <3>1, PrefixIs
  <2> QED BY <2>4, <2>8 DEF lookup
<1>10. lookup(doc, Schema)[1] = "integer"
  BY <1>5 DEF Whole
<1> QED BY <1>2, <1>5, <1>7, <1>8, <1>9, <1>10 DEF Intact, WellFormed, Schema

LEMMA OptionUnchanged ==
  ASSUME NEW v, SettingsFit(v), ModesOK(v), NEW saved, DocOK(saved), Saves(saved, v),
         NEW doc, DocOK(doc), Intact(doc), NEW paths \in SUBSET Seq(Strings), Differs(saved, doc, paths),
         NEW key \in DOMAIN modeSpec, \A d \in paths : ~Concerns(d, key)
  PROVE  load_mode_settings(doc).value[key] = v[key]
<1>1. PICK options : options = OptionsOf(doc)
  OBVIOUS
<1>2. ASSUME NEW q \in DOMAIN modeSpec, \A d \in paths : ~Along(d, q) PROVE options.value[q] = v[q]
  <2>1. PICK now : now = Restrict(doc, DOMAIN doc \cap DOMAIN modeSpec)
    OBVIOUS
  <2>2. PICK before : before = Restrict(saved, DOMAIN saved \cap DOMAIN modeSpec)
    OBVIOUS
  <2>3. lookup(now, q) = lookup(before, q)
    <3>1. lookup(doc, q) = lookup(saved, q)
      BY <1>2, ModeSpecOK, UnchangedLookup
    <3>2. lookup(now, q) = IF lookup(doc, q) = Table THEN None ELSE lookup(doc, q)
      BY <2>1, OptionLookup
    <3>3. lookup(before, q) = IF lookup(saved, q) = Table THEN None ELSE lookup(saved, q)
      BY <2>2, OptionLookup
    <3> QED BY <3>1, <3>2, <3>3
  <2>4. options.value[q] = walk(before, modeSpec, modeDefaults).value[q]
    <3>1. options = walk(now, modeSpec, modeDefaults)
      BY <1>1, <2>1 DEF OptionsOf
    <3> QED BY <2>3, <3>1, WalkSame
  <2>5. walk(before, modeSpec, modeDefaults) = [value |-> [path \in DOMAIN modeSpec |-> v[path]], notes |-> {}]
    BY <2>2, SavedModes
  <2> QED BY <2>4, <2>5
<1>3. options.value[key] = v[key]
  BY <1>2 DEF Concerns
<1>4. ~Wrong(options.value, key)
  <2>1. ASSUME key = Compatible("device"), options.value[key] \notin Routed \cup {None} PROVE FALSE
    BY <1>3, <2>1 DEF ModesOK
  <2>2. ASSUME NEW m \in Own, key = OfDevice(m)
        PROVE  /\ options.value[key] \in DeviceBuffer.range
               /\ buffers_allowed(options.value[Buffer(m)], options.value[key])
    BY <1>2, <1>3, <2>2, BufferKeys DEF Own, Together, Buffer, OfDevice, Concerns, ModesOK
  <2> QED BY <2>1, <2>2 DEF Wrong
<1> QED BY <1>1, <1>3, <1>4, ModesRead

LEMMA DevicesUnchanged ==
  ASSUME NEW v, SettingsFit(v), NEW saved, DocOK(saved), Saves(saved, v),
         NEW doc, DocOK(doc), NEW paths \in SUBSET Seq(Strings), Differs(saved, doc, paths),
         \A d \in paths : ~Along(d, Devices)
  PROVE  parse_devices(doc).value = [id \in Loud(v) |-> FALSE]
<1>1. PICK entries : entries = Children(doc, Devices)
  OBVIOUS
<1>2. entries = Children(saved, Devices)
  <2>1. ASSUME NEW q \in Seq(Strings), IsStrictPrefix(Devices, q)
        PROVE  q \in DOMAIN doc <=> q \in DOMAIN saved
    <3>1. IsPrefix(Devices, q)
      BY <2>1, PathsApart, PrefixIs
    <3> QED BY <3>1, PathsApart, UnchangedUnder
  <2>2. {q \in DOMAIN doc : IsStrictPrefix(Devices, q)} = {q \in DOMAIN saved : IsStrictPrefix(Devices, q)}
    BY <2>1 DEF DocOK
  <2> QED BY <1>1, <2>2 DEF Children
<1>3. ASSUME NEW id \in Strings PROVE lookup(doc, Dop(id)) = lookup(saved, Dop(id))
  <2>1. PICK key : key = Dop(id)
    OBVIOUS
  <2>2. key \in Seq(Strings) /\ IsPrefix(Devices, key)
    BY <2>1, PartsApart, DevicesPrefix
  <2>3. Devices \in Seq(Strings)
    BY PathsApart
  <2>4. ASSUME NEW d \in paths, Along(d, key) PROVE FALSE
    BY <2>2, <2>3, <2>4, PrefixIs, AlongIs
  <2>5. lookup(doc, key) = lookup(saved, key)
    BY <2>2, <2>4, UnchangedLookup
  <2> QED BY <2>1, <2>5
<1>4. PICK ids : ids = {Last(e) : e \in entries} \ Blank
  OBVIOUS
<1>5. ids \subseteq Strings
  <2>1. Devices \in Seq(Strings)
    BY PathsApart
  <2>2. \A e \in entries : Last(e) \in Strings
    BY <1>1, <2>1, ChildrenAre
  <2> QED BY <1>4, <2>2
<1>6. parse_devices(doc).value = [id \in ids |-> lookup(doc, Dop(id)) # Bool(FALSE)]
  BY <1>1, <1>4 DEF parse_devices
<1>7. parse_devices(saved).value = [id \in ids |-> lookup(saved, Dop(id)) # Bool(FALSE)]
  BY <1>2, <1>4 DEF parse_devices
<1>8. parse_devices(doc).value = parse_devices(saved).value
  BY <1>3, <1>5, <1>6, <1>7
<1> QED BY <1>8, SavedDevices

-----------------------------------------------------------------------------
(* Damage stays where it is                                                 *)

LEMMA DevicesOfSettings == \A p \in DOMAIN state_spec : p # Devices
<1>1. PICK d : d = Devices
  OBVIOUS
<1>2. Len(d) = 2 /\ d[1] = "playback" /\ d[2] = "devices"
  BY <1>1, PathsApart
<1>3. ASSUME NEW p \in DOMAIN playback_specs PROVE p # d
  <2>1. Active[2] = "active"
    BY DEF Active
  <2>2. \A m : Len(Volume(m)) = 3 /\ Len(Muted(m)) = 3
    BY DEF Volume, Muted
  <2> QED BY <1>2, <2>1, <2>2, PlaybackKeys
<1>4. ASSUME NEW p \in DOMAIN state_spec \ DOMAIN playback_specs PROVE p # d
  BY <1>2, StateTable DEF VisMode, Repeat, Shuffle, LastDir
<1> QED BY <1>1, <1>3, <1>4

LEMMA SpecOfSettings ==
  ASSUME ~State
  PROVE  /\ \A p \in DOMAIN settings_spec : SpecOf(p) = settings_spec[p]
         /\ \A p \in DOMAIN modeSpec : SpecOf(p) = modeSpec[p]
<1>1. PICK both : both = settings_spec ++ modeSpec
  OBVIOUS
<1>2. \A p \in DOMAIN settings_spec : both[p] = settings_spec[p]
  BY <1>1, MergedIs, Zenon
<1>3. \A p \in DOMAIN modeSpec : both[p] = modeSpec[p]
  <2>1. \A p \in DOMAIN modeSpec \ DOMAIN settings_spec : both[p] = modeSpec[p]
    <3>1. \A p \in DOMAIN modeSpec \ DOMAIN settings_spec : (settings_spec ++ modeSpec)[p] = modeSpec[p]
      BY MergedIs, Zenon
    <3> QED BY <1>1, <3>1
  <2> QED BY <2>1, PathsApart
<1> QED BY <1>1, <1>2, <1>3 DEF SpecOf

\* The program has just read a file somebody may have changed.
Reading ==
  /\ DamagedOnly
  /\ file.read = "Parsed" /\ memory = Parse(file).value /\ notes = Parse(file).notes

LEMMA ReadingIs ==
  ASSUME Reading
  PROVE  /\ DocOK(file.doc) /\ damaged \in SUBSET Seq(Strings)
         /\ State => /\ StateFits(kept) /\ StateOK(kept) /\ DOMAIN memory = DOMAIN state_spec
                     /\ memory = parse_state(file).value /\ notes = parse_state(file).notes
                     /\ Differs(serialize_state(kept).doc, file.doc, damaged)
         /\ ~State => /\ SettingsFit(kept) /\ SettingsOK(kept) /\ Pointed(file.doc)
                      /\ DOMAIN memory = DOMAIN settings_spec \cup DOMAIN modeSpec \cup {Devices}
                      /\ memory = parse_settings(file).value /\ notes = parse_settings(file).notes
                      /\ Differs(serialize_settings(kept).doc, file.doc, damaged)
<1>1. Remembers /\ file.read = "Parsed" /\ memory = Parse(file).value /\ notes = Parse(file).notes
  BY DEF Reading, DamagedOnly
<1>2. DocOK(file.doc) /\ damaged \in SUBSET Seq(Strings)
  BY <1>1 DEF Remembers, FileFits, NoFile, NotToml, Reading, DamagedOnly
<1>3. Differs(Serialize(kept).doc, file.doc, damaged) /\ (~State => Pointed(file.doc))
  BY <1>1 DEF Reading, DamagedOnly
<1>4. ValueFits(kept) /\ ValueOK(kept) /\ ValueFits(memory)
  BY <1>1 DEF Remembers
<1>5. CASE State
  BY <1>1, <1>2, <1>3, <1>4, <1>5 DEF ValueFits, ValueOK, StateFits, Parse, Serialize
<1>6. CASE ~State
  <2>1. DOMAIN memory = DOMAIN settings_spec \cup DOMAIN modeSpec \cup {Devices}
    BY <1>4, <1>6 DEF ValueFits, SettingsFit
  <2> QED BY <1>1, <1>2, <1>3, <1>4, <1>6, <2>1 DEF ValueFits, ValueOK, Parse, Serialize
<1> QED BY <1>5, <1>6

\* What nothing damaged is kept: the session state.
LEMMA StateIsKept == ASSUME Reading, State, NEW key \in DOMAIN memory, ~Damaged(key) PROVE Kept(key)
<1>1. \A d \in damaged : ~Concerns(d, key)
  BY DEF Damaged
<1>2. key \in DOMAIN state_spec /\ DocOK(file.doc) /\ damaged \in SUBSET Seq(Strings) /\ file.read = "Parsed"
  BY ReadingIs DEF Reading
<1>3. /\ StateFits(kept) /\ StateOK(kept) /\ memory = parse_state(file).value
      /\ Differs(serialize_state(kept).doc, file.doc, damaged)
  BY ReadingIs
<1>4. \/ parse_state(file).value[key] = kept[key]
      \/ key = LastDir /\ kept[LastDir] \in {q \in DOMAIN Paths : Paths[q] = "bytes"}
  BY <1>1, <1>2, <1>3, StateUnchanged
<1>5. CASE memory[key] = kept[key]
  BY <1>5 DEF Kept, Same
<1>6. CASE memory[key] # kept[key]
  BY <1>3, <1>4, <1>6 DEF Kept, Sayable
<1> QED BY <1>5, <1>6

\* The same of the settings.
LEMMA SettingsAreKept == ASSUME Reading, ~State, NEW key \in DOMAIN memory, ~Damaged(key) PROVE Kept(key)
<1>1. \A d \in damaged : ~Concerns(d, key) /\ ~(Frame(d) /\ OfModes(key))
  BY DEF Damaged
<1>2. \A d \in damaged : ~Along(d, key)
  BY <1>1 DEF Concerns
<1>3. /\ DocOK(file.doc) /\ damaged \in SUBSET Seq(Strings) /\ file.read = "Parsed"
      /\ key \in DOMAIN settings_spec \cup DOMAIN modeSpec \cup {Devices}
  BY ReadingIs DEF Reading
<1>4. PICK v : v = kept
  OBVIOUS
<1>5. SettingsFit(v) /\ SettingsOK(v) /\ memory = parse_settings(file).value
  BY <1>4, ReadingIs
<1>6. PICK saved : saved = serialize_settings(v).doc
  OBVIOUS
<1>7. Saves(saved, v) /\ DocOK(saved) /\ Differs(saved, file.doc, damaged)
  BY <1>4, <1>5, <1>6, WrittenDocument, ReadingIs
<1>8. CASE key \in DOMAIN settings_spec
  <2>1. parse_settings(file).value[key] = v[key]
    BY <1>2, <1>3, <1>5, <1>6, <1>7, <1>8, OtherUnchanged
  <2> QED BY <1>4, <1>5, <2>1 DEF Kept, Same
<1>9. CASE key \in DOMAIN modeSpec \cup {Devices}
  <2>1. key \in Seq(Strings) /\ Len(key) \in 1 .. 3 /\ key[1] = "playback"
    BY <1>9, ModeSpecOK, PathsApart
  <2>2. OfModes(key)
    <3>1. Head(key) = key[1]
      BY <2>1
    <3> QED BY <2>1, <3>1 DEF OfModes
  <2>3. ASSUME NEW d \in damaged PROVE ~Frame(d) /\ Len(d) > 0
    <3>1. d \in Seq(Strings)
      BY <1>3
    <3>2. ASSUME Len(d) = 0 PROVE FALSE
      <4>1. \A i \in Nat \ {0} : ~(i <= Len(d))
        BY <3>2
      <4>2. Along(d, key)
        BY <2>1, <3>1, <4>1, AlongIs
      <4> QED BY <1>2, <4>2
    <3>3. Len(d) > 0
      BY <3>1, <3>2
    <3> QED BY <1>1, <2>2, <3>3
  <2>4. Intact(file.doc)
    BY <1>3, <1>5, <1>7, <2>3, FrameUnchanged
  <2>5. PICK modes : modes = load_mode_settings(file.doc)
    OBVIOUS
  <2>6. memory[key] = modes.value[key]
    BY <1>3, <1>5, <1>9, <2>5, JoinedModes
  <2>7. CASE key \in DOMAIN modeSpec
    <3>1. ModesOK(v)
      BY <1>5 DEF SettingsOK
    <3>2. modes.value[key] = v[key]
      BY <1>1, <1>3, <1>5, <1>7, <2>4, <2>5, <2>7, <3>1, OptionUnchanged
    <3> QED BY <1>4, <2>6, <3>2 DEF Kept, Same
  <2>8. CASE key = Devices
    <3>1. parse_devices(file.doc).value = [id \in Loud(v) |-> FALSE]
      BY <1>2, <1>3, <1>5, <1>7, <2>8, DevicesUnchanged
    <3>2. modes.value[Devices] = parse_devices(file.doc).value
      BY <2>4, <2>5, ModesRead
    <3>3. memory[key] = [id \in Loud(v) |-> FALSE]
      BY <2>6, <2>8, <3>1, <3>2
    <3>4. \A id \in DOMAIN v[Devices] : v[Devices][id] \in BOOLEAN
      BY <1>5 DEF SettingsFit, DevicesFit
    <3>5. \A id : id \in Loud(v) <=> id \in DOMAIN v[Devices] /\ ~v[Devices][id]
      BY DEF Loud
    <3>6. Same(key, memory[key], v[key])
      BY <2>8, <3>3, <3>4, <3>5, Zenon DEF Same
    <3> QED BY <1>4, <3>6 DEF Kept
  <2> QED BY <1>9, <2>7, <2>8
<1> QED BY <1>3, <1>8, <1>9

\* What a reader tells of a key, the program does.
LEMMA ToldIs ==
  ASSUME NEW got, got.notes \subseteq notes, NEW key \in Seq(Strings), memory[key] = got.value[key],
         NEW spec, Told(got, file.doc, spec, key), SpecOf(key) = spec[key]
  PROVE  Remarked(key) \/ Found(key)
<1>1. CASE \E note \in got.notes : note.key = key
  <2>1. Along(key, key)
    BY AlongIs
  <2> QED BY <1>1, <2>1 DEF Remarked, Concerns
<1>2. CASE lookup(file.doc, key) = None /\ spec[key].optional
  BY <1>2 DEF Found
<1>3. CASE /\ lookup(file.doc, key) # None /\ Accepts(spec[key].kind, lookup(file.doc, key))
           /\ got.value[key] = Value(spec[key].kind, lookup(file.doc, key))
  BY <1>3 DEF Found
<1> QED BY <1>1, <1>2, <1>3 DEF Told

LEMMA StateIsTold ==
  ASSUME Reading, State, NEW key \in DOMAIN memory
  PROVE  key # Devices /\ (Remarked(key) \/ Found(key) \/ Halved(key))
<1>1. /\ key \in DOMAIN state_spec /\ file.read = "Parsed"
      /\ memory = parse_state(file).value /\ notes = parse_state(file).notes
  BY ReadingIs DEF Reading
<1>2. key # Devices
  BY <1>1, DevicesOfSettings
<1>3. key \in Seq(Strings) /\ Len(key) \in 1 .. 3
  BY <1>1, StateNames
<1>4. CASE Told(parse_state(file), file.doc, state_spec, key)
  <2>1. SpecOf(key) = state_spec[key]
    BY DEF SpecOf
  <2> QED BY <1>1, <1>2, <1>3, <1>4, <2>1, ToldIs
<1>5. CASE key[1] = "window" /\ memory[key] = None
  <2>1. Head(key) = key[1]
    BY <1>3
  <2> QED BY <1>2, <1>5, <2>1 DEF Halved
<1> QED BY <1>1, <1>4, <1>5, StateTells

LEMMA SettingsAreTold ==
  ASSUME Reading, ~State, NEW key \in DOMAIN memory
  PROVE  \/ Remarked(key)
         \/ key = Devices /\ Entries
         \/ key # Devices /\ Found(key)
<1>1. /\ DocOK(file.doc) /\ Pointed(file.doc) /\ file.read = "Parsed" /\ damaged \in SUBSET Seq(Strings)
      /\ key \in DOMAIN settings_spec \cup DOMAIN modeSpec \cup {Devices}
      /\ memory = parse_settings(file).value /\ notes = parse_settings(file).notes
  BY ReadingIs DEF Reading
<1>2. CASE key \in DOMAIN settings_spec
  <2>1. Told(parse_settings(file), file.doc, settings_spec, key)
    BY <1>1, <1>2, OthersTell
  <2>2. key \in Seq(Strings) /\ key # Devices
    BY <1>2, SettingsSpecOK, PathsApart
  <2>3. SpecOf(key) = settings_spec[key]
    BY <1>2, SpecOfSettings
  <2> QED BY <1>1, <2>1, <2>2, <2>3, ToldIs
<1>3. PICK modes : modes = load_mode_settings(file.doc)
  OBVIOUS
<1>4. modes.notes \subseteq notes
  BY <1>1, <1>3, JoinedModes
<1>5. ASSUME key \in DOMAIN modeSpec \cup {Devices}, NEW note \in modes.notes,
             note.key \in {<<"playback">>, Schema}
      PROVE  Remarked(key)
  <2>1. key \in Seq(Strings) /\ Len(key) >= 1 /\ key[1] = "playback"
    <3>1. CASE key \in DOMAIN modeSpec
      <4>1. key \in Seq(Strings) /\ Len(key) = 3 /\ key[1] = "playback"
        BY <3>1, ModeSpecOK
      <4>2. Len(key) >= 1
        BY <4>1
      <4> QED BY <4>1, <4>2
    <3>2. CASE key = Devices
      <4>1. key \in Seq(Strings) /\ Len(key) = 2 /\ key[1] = "playback"
        BY <3>2, PathsApart
      <4>2. Len(key) >= 1
        BY <4>1
      <4> QED BY <4>1, <4>2
    <3> QED BY <1>5, <3>1, <3>2
  <2>2. note \in notes
    BY <1>4, <1>5
  <2>3. CASE note.key = <<"playback">>
    <3>1. IsPrefix(<<"playback">>, key)
      BY <2>1, TopIs
    <3>2. Concerns(note.key, key)
      BY <2>3, <3>1 DEF Concerns, Along
    <3> QED BY <2>2, <3>2 DEF Remarked
  <2>4. CASE note.key = Schema
    BY <2>1, <2>2, <2>4 DEF OfModes, Schema, Remarked
  <2> QED BY <1>5, <2>3, <2>4
<1>6. CASE key \in DOMAIN modeSpec
  <2>1. key \in Seq(Strings) /\ key # Devices
    BY <1>6, ModeSpecOK, PathsApart
  <2>2. CASE Told(modes, file.doc, modeSpec, key)
    <3>1. memory[key] = modes.value[key]
      BY <1>1, <1>3, <1>6, JoinedModes
    <3>2. SpecOf(key) = modeSpec[key]
      BY <1>6, SpecOfSettings
    <3> QED BY <1>4, <2>1, <2>2, <3>1, <3>2, ToldIs
  <2>3. CASE \E note \in modes.notes : note.key \in {<<"playback">>, Schema}
    BY <1>5, <1>6, <2>3
  <2> QED BY <1>1, <1>3, <1>6, <2>2, <2>3, OptionsTell
<1>7. CASE key = Devices
  <2>1. CASE Entries
    BY <1>7, <2>1
  <2>2. CASE ~Entries
    <3>1. PICK path \in damaged :
            IsPrefix(Devices, path) /\ lookup(file.doc, path) \notin {None, Table, Bool(TRUE), Bool(FALSE)}
      BY <2>2 DEF Entries
    <3>2. path \in Seq(Strings)
      BY <1>1
    <3>3. PICK note \in modes.notes :
            note.key \in {<<"playback">>, Schema} \/ (note.key \in Seq(Strings) /\ IsPrefix(Devices, note.key))
      BY <1>1, <1>3, <3>1, <3>2, EntriesTell
    <3>4. CASE note.key \in {<<"playback">>, Schema}
      BY <1>5, <1>7, <3>4
    <3>5. CASE IsPrefix(Devices, note.key)
      <4>1. Concerns(note.key, key)
        BY <1>7, <3>5 DEF Concerns, Along
      <4>2. note \in notes
        BY <1>4
      <4> QED BY <4>1, <4>2 DEF Remarked
    <3> QED BY <3>3, <3>4, <3>5
  <2> QED BY <2>1, <2>2
<1> QED BY <1>1, <1>2, <1>6, <1>7

\* Without their section the modes have their defaults.
LEMMA NoSectionIsDefault ==
  ASSUME Reading, NEW key \in DOMAIN memory, NoSection(key)
  PROVE  memory[key] = modeDefaults[key]
<1>1. ~State /\ Head(key) = "playback" /\ lookup(file.doc, <<"playback">>) = None
  BY DEF NoSection, OfModes
<1>2. /\ key \in DOMAIN settings_spec \cup DOMAIN modeSpec \cup {Devices}
      /\ memory = parse_settings(file).value /\ file.read = "Parsed"
  BY <1>1, ReadingIs DEF Reading
<1>3. key \in DOMAIN modeSpec \cup {Devices}
  <2>1. \A p \in DOMAIN settings_spec : Head(p) # "playback"
    BY SettingsSpecOK
  <2> QED BY <1>1, <1>2, <2>1
<1>4. PICK modes : modes = load_mode_settings(file.doc)
  OBVIOUS
<1>5. memory[key] = modes.value[key]
  BY <1>2, <1>3, <1>4, JoinedModes
<1>6. modes.value = modeDefaults
  BY <1>1, <1>4 DEF load_mode_settings
<1> QED BY <1>5, <1>6

LEMMA DamageStays == DamagedOnly => DamageIsLocal
<1> SUFFICES ASSUME DamagedOnly, JustRead, NEW key \in DOMAIN memory, ~Kept(key)
             PROVE  /\ Damaged(key)
                    /\ IF NoSection(key) THEN memory[key] = modeDefaults[key] ELSE Explained(key)
  BY DEF DamageIsLocal
<1>1. Remembers
  BY DEF DamagedOnly
<1>2. memory = Parse(file).value /\ notes = Parse(file).notes /\ file # NotToml
  BY <1>1 DEF Remembers, JustRead
<1>3. CASE file = NoFile
  <2>1. file.read # "Parsed" /\ kept = Defaults
    BY <1>1, <1>3 DEF NoFile, Remembers
  <2>2. Parse(file).value = Defaults
    BY <2>1 DEF Parse, Defaults, parse_settings, parse_state
  <2>3. Kept(key)
    BY <1>2, <2>1, <2>2 DEF Kept, Same
  <2> QED BY <2>3
<1>4. CASE file # NoFile
  <2>1. Reading
    BY <1>1, <1>2, <1>4 DEF Remembers, FileFits, Reading
  <2>2. CASE State
    <3>1. Damaged(key) /\ Explained(key) /\ ~NoSection(key)
      BY <2>1, <2>2, StateIsKept, StateIsTold DEF Explained, NoSection, OfModes
    <3> QED BY <3>1
  <2>3. CASE ~State
    <3>1. Damaged(key) /\ Explained(key)
      BY <2>1, <2>3, SettingsAreKept, SettingsAreTold DEF Explained
    <3> QED BY <2>1, <3>1, NoSectionIsDefault
  <2> QED BY <2>2, <2>3
<1> QED BY <1>3, <1>4

\* A key changed by hand loses its own value and those it is bound to, and what
\* the program has instead is what the file says, nothing where it may say nothing,
\* remarked, or, without the section of the modes, a default (the readers: settings_file.rs and playback_dto.rs, state_file.rs).
THEOREM DamageStaysLocal == Spec => []DamageIsLocal
BY OnlyDamageDiffers, DamageStays, PTL
=============================================================================
