-------------------------- MODULE SignalPathProofs --------------------------
(***************************************************************************)
(* The badge of the signal path is true, for every set of tracks, devices, *)
(* streams and options.  First what a plan says of the samples, along the  *)
(* steps of plan_with_device from draft to draft; then the invariant that  *)
(* ties the badge that is shown to the stream that plays.                  *)
(***************************************************************************)
EXTENDS SignalPath, TLAPS, WellFoundedInduction

-----------------------------------------------------------------------------
(* Choices the steps make                                                  *)

\* A set of natural numbers has a least one.
LEMMA LeastNatural ==
  ASSUME NEW S \in SUBSET Nat, S # {}
  PROVE  \E m \in S : \A k \in S : m <= k
<1>. DEFINE Less == {ss \in Nat \X Nat : ss[1] < ss[2]}
<1>1. IsWellFoundedOn(Less, Nat)
  BY NatLessThanWellFounded, Zenon DEF OpToRel
<1>. HIDE DEF Less
<1>2. PICK m \in S : \A k \in S : <<k, m>> \notin Less
  BY <1>1, WFMin
<1>3. \A k \in S : ~(k < m)
  BY <1>2 DEF Less
<1>. QED  BY <1>3

LEMMA LowestFacts ==
  ASSUME NEW S \in SUBSET Nat, S # {}
  PROVE  Lowest(S) \in S /\ \A k \in S : Lowest(S) <= k
BY LeastNatural DEF Lowest

\* A set of natural numbers below n has a greatest one.
LEMMA HighestFacts ==
  ASSUME NEW n \in Nat, NEW S \in SUBSET Nat, S # {}, \A k \in S : k < n
  PROVE  Highest(S) \in S
<1>. DEFINE T == {n - k : k \in S}
<1>0. \A k \in S : n - k \in Nat
  <2>. SUFFICES ASSUME NEW k \in S PROVE n - k \in Nat
    OBVIOUS
  <2>1. k \in Nat /\ k < n
    OBVIOUS
  <2>. QED  BY <2>1
<1>1. T \in SUBSET Nat /\ T # {}
  BY <1>0
<1>2. PICK m \in T : \A t \in T : m <= t
  BY <1>1, LeastNatural
<1>3. PICK h \in S : m = n - h
  OBVIOUS
<1>4. \A k \in S : k <= h
  BY <1>2, <1>3
<1>. QED  BY <1>4 DEF Highest

\* The narrowest and the widest of some formats are among them.
LEMMA FormatChoices ==
  ASSUME NEW fs \in SUBSET Formats, fs # {}
  PROVE  Narrowest(fs) \in fs /\ Widest(fs) \in fs
         /\ \A f \in fs \ {"F32"} :
              FieldBits(f) <= FieldBits(Widest(fs)) \/ Widest(fs) = "F32"
<1>1. /\ Position("S16") = 1 /\ Position("S24_3") = 2 /\ Position("S24") = 3
      /\ Position("S32") = 4 /\ Position("F32") = 4
  BY DEF Position
<1>2. \E f \in fs : \A g \in fs : Position(f) <= Position(g)
  <2>1. CASE "S16" \in fs
    BY <1>1, <2>1 DEF Formats
  <2>2. CASE "S16" \notin fs /\ "S24_3" \in fs
    BY <1>1, <2>2 DEF Formats
  <2>3. CASE "S16" \notin fs /\ "S24_3" \notin fs /\ "S24" \in fs
    BY <1>1, <2>3 DEF Formats
  <2>4. CASE "S16" \notin fs /\ "S24_3" \notin fs /\ "S24" \notin fs
    <3>1. \A g \in fs : g \in {"S32", "F32"}
      BY <2>4 DEF Formats
    <3>2. \A g \in fs : Position(g) = 4
      BY <1>1, <3>1
    <3>. QED  BY <3>2
  <2>. QED  BY <2>1, <2>2, <2>3, <2>4
<1>3. \E f \in fs : \A g \in fs : Position(g) <= Position(f)
  <2>1. CASE "S32" \in fs
    BY <1>1, <2>1 DEF Formats
  <2>2. CASE "F32" \in fs
    BY <1>1, <2>2 DEF Formats
  <2>3. CASE "S32" \notin fs /\ "F32" \notin fs /\ "S24" \in fs
    BY <1>1, <2>3 DEF Formats
  <2>4. CASE "S24_3" \in fs /\ fs \subseteq {"S16", "S24_3"}
    BY <1>1, <2>4
  <2>5. CASE fs = {"S16"}
    BY <1>1, <2>5
  <2>. QED  BY <2>1, <2>2, <2>3, <2>4, <2>5 DEF Formats
<1>4. Narrowest(fs) \in fs
  BY <1>2 DEF Narrowest
<1>5. Widest(fs) \in fs /\ \A g \in fs : Position(g) <= Position(Widest(fs))
  BY <1>3 DEF Widest
<1>6. \A f \in fs \ {"F32"} : FieldBits(f) <= FieldBits(Widest(fs)) \/ Widest(fs) = "F32"
  <2>1. \A f, w \in Formats \ {"F32"} :
          Position(f) <= Position(w) => FieldBits(f) <= FieldBits(w)
    <3>1. /\ FieldBits("S16") = 16 /\ FieldBits("S24_3") = 24 /\ FieldBits("S24") = 24
          /\ FieldBits("S32") = 32
      BY DEF FieldBits
    <3>. QED  BY <1>1, <3>1 DEF Formats
  <2>. QED  BY <1>5, <2>1
<1>. QED  BY <1>4, <1>5, <1>6

-----------------------------------------------------------------------------
(* Drafts                                                                  *)

IsDraft(d) ==
  d \in [mode : {d.mode}, source : {d.source}, route : {d.route}, kinds : {d.kinds},
         rate : {d.rate}, sample : {d.sample}, channels : {d.channels},
         exact : {d.exact}, bits : {d.bits}, reason : {d.reason}]

Policies == {"Compatible", "Optimal", "Strict"}

\* What is true between two steps of a plan that is not blocked, DoP apart:
\* each conversion of rate and channels is written down, and none is made
\* that does nothing.  pm is the mode of the policy.
Told(d, src, pm) ==
  /\ IsDraft(d) /\ d.source = src /\ d.mode = pm
  /\ d.route = IF src.kind = "dsd" THEN "dsdToPcm" ELSE "pcm"
  /\ d.channels \in Nat
  /\ d.kinds \subseteq {"DsdToPcm", "MonoToStereo", "ChannelPad", "Downmix", "Resample"}
  /\ src.kind = "dsd" <=> "DsdToPcm" \in d.kinds
  /\ "Downmix" \in d.kinds <=> d.channels < src.channels
  /\ d.route = "pcm" => ("Resample" \in d.kinds <=> d.rate # src.rate)
  /\ pm = "Strict" => d.kinds \cap {"DsdToPcm", "Downmix", "Resample"} = {}

\* A draft of a DSD stream that is sent as it is.
Packed(d, src, pm) ==
  /\ IsDraft(d) /\ d.source = src /\ d.mode = pm
  /\ d.route = "dop" /\ d.kinds = {"DopPack"}
  /\ d.channels = src.channels
  /\ d.sample \in {"S24_3", "S24", "S32"}

LEMMA AddFacts ==
  ASSUME NEW d, IsDraft(d), NEW k
  PROVE  /\ IsDraft(Add(d, k)) /\ Add(d, k).kinds = d.kinds \cup k
         /\ Add(d, k).mode = d.mode /\ Add(d, k).source = d.source
         /\ Add(d, k).route = d.route /\ Add(d, k).rate = d.rate
         /\ Add(d, k).sample = d.sample /\ Add(d, k).channels = d.channels
         /\ Add(d, k).exact = d.exact /\ Add(d, k).reason = d.reason
BY DEF Add, IsDraft

LEMMA BlockedFacts ==
  ASSUME NEW d, IsDraft(d), NEW why, why # "none"
  PROVE  IsDraft(Blocked(d, why)) /\ Blocked(d, why).reason # "none"
         /\ Blocked(d, why).route = d.route
BY DEF Blocked, IsDraft

LEMMA SourceFacts ==
  ASSUME NEW src \in SourceFormats
  PROVE  /\ src.kind \in {"pcm", "float", "dsd"} /\ src.bits \in Nat
         /\ src.channels \in Nat /\ src.channels >= 1
         /\ src.kind = "pcm" => src.bits <= 32
         /\ src.kind = "float" => src.bits \in {32, 64}
BY DEF SourceFormats

\* The draft before any step.
LEMMA DraftFacts ==
  ASSUME NEW src \in SourceFormats, NEW pm \in Policies
  PROVE  /\ IsDraft(Draft(src, pm)) /\ Draft(src, pm).reason = "none"
         /\ Draft(src, pm).source = src /\ Draft(src, pm).mode = pm
         /\ Draft(src, pm).route = "pcm" /\ Draft(src, pm).kinds = {}
         /\ Draft(src, pm).rate = src.rate /\ Draft(src, pm).channels = src.channels
BY DEF Draft, IsDraft

\* StepRoute sends DSD as it is, turns it into PCM, or refuses.
LEMMA RouteStep ==
  ASSUME NEW src \in SourceFormats, NEW caps, caps.formats \subseteq Formats,
         NEW pol, pol.mode \in Policies, NEW dop \in BOOLEAN,
         NEW e, e = Draft(src, pol.mode), NEW d, d = StepRoute(e, caps, pol, dop)
  PROVE  /\ d.reason = "none" => \/ Told(d, src, pol.mode) /\ d.kinds \subseteq {"DsdToPcm"}
                                 \/ Packed(d, src, pol.mode)
         /\ d.reason # "none" => d.route # "dop"
<1>1. /\ IsDraft(e) /\ e.reason = "none" /\ e.source = src /\ e.mode = pol.mode
      /\ e.route = "pcm" /\ e.kinds = {} /\ e.rate = src.rate /\ e.channels = src.channels
  BY DraftFacts
<1>2. src.kind \in {"pcm", "float", "dsd"} /\ src.channels \in Nat
  BY SourceFacts
<1>. DEFINE fits == dop /\ DopFormats(src, caps) # {}
<1>3. CASE src.kind # "dsd"
  <2>1. d = e
    BY <1>1, <1>3 DEF StepRoute
  <2>. QED  BY <2>1, <1>1, <1>2, <1>3 DEF Told
<1>4. CASE src.kind = "dsd" /\ pol.mode # "Compatible" /\ fits
  <2>. DEFINE f == [e EXCEPT !.route = "dop", !.rate = DopRate(src),
                             !.sample = Narrowest(DopFormats(src, caps))]
  <2>1. d = Add(f, {"DopPack"})
    BY <1>1, <1>4 DEF StepRoute
  <2>2. Narrowest(DopFormats(src, caps)) \in {"S24_3", "S24", "S32"}
    <3>1. DopFormats(src, caps) \subseteq {"S24_3", "S24", "S32"}
      BY DEF DopFormats
    <3>. QED  BY <1>4, <3>1, FormatChoices DEF Formats
  <2>3. /\ IsDraft(f) /\ f.source = src /\ f.mode = pol.mode /\ f.route = "dop"
        /\ f.kinds = {} /\ f.channels = src.channels /\ f.reason = "none"
        /\ f.sample \in {"S24_3", "S24", "S32"}
    BY <1>1, <2>2 DEF IsDraft
  <2>. HIDE DEF f
  <2>. QED  BY <2>1, <2>3, AddFacts DEF Packed
<1>5. CASE src.kind = "dsd" /\ pol.mode = "Strict" /\ ~fits
  <2>1. d = Blocked(e, IF dop THEN "DopUnsupported" ELSE "DopDisabled")
    BY <1>1, <1>5 DEF StepRoute
  <2>. QED  BY <2>1, <1>1, BlockedFacts
<1>6. CASE src.kind = "dsd" /\ (pol.mode = "Compatible" \/ ~fits) /\ pol.mode # "Strict"
  <2>. DEFINE f == [e EXCEPT !.route = "dsdToPcm", !.rate = DsdPcmRate(src, caps, pol.dsdFilter)]
  <2>1. d = Add(f, {"DsdToPcm"})
    BY <1>1, <1>6 DEF StepRoute
  <2>2. /\ IsDraft(f) /\ f.source = src /\ f.mode = pol.mode /\ f.route = "dsdToPcm"
        /\ f.kinds = {} /\ f.channels = src.channels /\ f.reason = "none"
    BY <1>1 DEF IsDraft
  <2>. HIDE DEF f
  <2>. QED  BY <2>1, <2>2, <1>2, <1>6, AddFacts DEF Told
<1>. QED  BY <1>2, <1>3, <1>4, <1>5, <1>6 DEF Policies

\* StepChannels writes down every downmix, and only those, and never makes
\* one in the Strict mode.
LEMMA ChannelStep ==
  ASSUME NEW src \in SourceFormats, NEW pm \in Policies,
         NEW caps, caps.channels \subseteq Nat \ {0},
         NEW d, Told(d, src, pm), d.kinds \subseteq {"DsdToPcm"},
         NEW f, f = StepChannels(d, caps), d.reason = "none", f.reason = "none"
  PROVE  Told(f, src, pm) /\ "Resample" \notin f.kinds
<1>. DEFINE n == src.channels
            C == caps.channels
            fewer == {c \in C : c < n}
<1>1. /\ n \in Nat /\ n >= 1 /\ IsDraft(d) /\ d.source = src /\ d.mode = pm
      /\ C \in SUBSET Nat /\ \A c \in C : c >= 1
      /\ d.channels \in Nat /\ ~(d.channels < n)
  BY SourceFacts DEF Told
<1>2. CASE C = {} \/ n \in C
  BY <1>1, <1>2 DEF StepChannels
<1>3. CASE C # {} /\ n \notin C /\ n = 1
  <2>1. CASE 2 \in C
    <3>. DEFINE g == [d EXCEPT !.channels = 2]
    <3>1. f = Add(g, {"MonoToStereo"})
      BY <1>1, <1>3, <2>1 DEF StepChannels
    <3>2. /\ IsDraft(g) /\ g.source = src /\ g.mode = pm /\ g.route = d.route
          /\ g.kinds = d.kinds /\ g.channels = 2 /\ g.rate = d.rate
      BY <1>1 DEF IsDraft
    <3>. HIDE DEF g
    <3>. QED  BY <3>1, <3>2, <1>1, <1>3, AddFacts DEF Told
  <2>2. CASE 2 \notin C
    <3>. DEFINE g == [d EXCEPT !.channels = Lowest(C)]
    <3>1. f = Add(g, {"MonoToStereo", "ChannelPad"})
      BY <1>1, <1>3, <2>2 DEF StepChannels
    <3>2. Lowest(C) \in C /\ Lowest(C) \in Nat /\ Lowest(C) >= 1
      BY <1>1, <1>3, LowestFacts
    <3>3. /\ IsDraft(g) /\ g.source = src /\ g.mode = pm /\ g.route = d.route
          /\ g.kinds = d.kinds /\ g.channels = Lowest(C) /\ g.rate = d.rate
      BY <1>1 DEF IsDraft
    <3>. HIDE DEF g
    <3>. QED  BY <3>1, <3>2, <3>3, <1>1, <1>3, AddFacts DEF Told
  <2>. QED  BY <2>1, <2>2
<1>4. CASE C # {} /\ n \notin C /\ n # 1 /\ fewer # {}
  <2>1. pm # "Strict"
    <3>. SUFFICES ASSUME pm = "Strict" PROVE FALSE
      OBVIOUS
    <3>1. f = Blocked(d, "ChannelsUnsupported")
      BY <1>1, <1>4 DEF StepChannels
    <3>. QED  BY <3>1, <1>1, BlockedFacts
  <2>. DEFINE g == [d EXCEPT !.channels = Highest(fewer)]
  <2>2. f = Add(g, {"Downmix"})
    BY <1>1, <1>4, <2>1 DEF StepChannels
  <2>3. Highest(fewer) \in fewer
    BY <1>1, <1>4, HighestFacts
  <2>4. Highest(fewer) \in Nat /\ Highest(fewer) < n
    BY <2>3, <1>1
  <2>5. /\ IsDraft(g) /\ g.source = src /\ g.mode = pm /\ g.route = d.route
        /\ g.kinds = d.kinds /\ g.channels = Highest(fewer) /\ g.rate = d.rate
    BY <1>1 DEF IsDraft
  <2>. HIDE DEF g, fewer
  <2>. QED  BY <2>1, <2>2, <2>4, <2>5, <1>1, AddFacts DEF Told
<1>5. CASE C # {} /\ n \notin C /\ n # 1 /\ fewer = {}
  <2>. DEFINE g == [d EXCEPT !.channels = Lowest(C)]
  <2>1. f = Add(g, {"ChannelPad"})
    BY <1>1, <1>5 DEF StepChannels
  <2>2. Lowest(C) \in C /\ Lowest(C) \in Nat
    BY <1>1, <1>5, LowestFacts
  <2>3. ~(Lowest(C) < n)
    BY <2>2, <1>5
  <2>4. /\ IsDraft(g) /\ g.source = src /\ g.mode = pm /\ g.route = d.route
        /\ g.kinds = d.kinds /\ g.channels = Lowest(C) /\ g.rate = d.rate
    BY <1>1 DEF IsDraft
  <2>. HIDE DEF g
  <2>. QED  BY <2>1, <2>2, <2>3, <2>4, <1>1, AddFacts DEF Told
<1>. QED  BY <1>2, <1>3, <1>4, <1>5

\* Convert says that it resamples exactly when it does.
LEMMA ConvertFacts ==
  ASSUME NEW src \in SourceFormats, NEW pm \in Policies, pm # "Strict",
         NEW d, Told(d, src, pm), "Resample" \notin d.kinds, NEW to
  PROVE  Told(Convert(d, to), src, pm)
<1>. DEFINE g == [d EXCEPT !.rate = to]
<1>1. /\ IsDraft(g) /\ g.source = src /\ g.mode = pm /\ g.route = d.route
      /\ g.kinds = d.kinds /\ g.channels = d.channels /\ g.rate = to
  BY DEF Told, IsDraft
<1>2. Convert(d, to) = Add(g, IF to = d.rate THEN {} ELSE {"Resample"})
  BY DEF Convert
<1>3. d.route = "pcm" => d.rate = src.rate
  BY DEF Told
<1>. HIDE DEF g
<1>. QED  BY <1>1, <1>2, <1>3, AddFacts DEF Told

\* StepRate converts outside the Strict mode and says so.
LEMMA RateStep ==
  ASSUME NEW src \in SourceFormats, NEW caps, NEW pol, pol.mode \in Policies,
         NEW d, Told(d, src, pol.mode), "Resample" \notin d.kinds,
         NEW f, f = StepRate(d, caps, pol), f.reason = "none"
  PROVE  Told(f, src, pol.mode)
<1>1. IsDraft(d) /\ d.mode = pol.mode
  BY DEF Told
<1>2. CASE pol.mode = "Compatible"
  <2>1. f = Blocked(d, "RateUnsupported") \/ \E to : f = Convert(d, to)
    BY <1>1, <1>2 DEF StepRate
  <2>. QED  BY <2>1, <1>1, <1>2, ConvertFacts, BlockedFacts
<1>3. CASE pol.mode = "Optimal"
  <2>1. f = d \/ f = Blocked(d, "RateUnsupported") \/ \E to : f = Convert(d, to)
    BY <1>1, <1>3 DEF StepRate
  <2>. QED  BY <2>1, <1>1, <1>3, ConvertFacts, BlockedFacts
<1>4. CASE pol.mode = "Strict"
  <2>1. f = d \/ f = Blocked(d, "RateUnsupported")
    BY <1>1, <1>4 DEF StepRate
  <2>. QED  BY <2>1, <1>1, BlockedFacts
<1>. QED  BY <1>2, <1>3, <1>4 DEF Policies

-----------------------------------------------------------------------------
(* The sample format                                                       *)

\* f is d with the sample format s and the transforms K besides its own.
Sampled(f, d, s, K) ==
  /\ IsDraft(f) /\ f.mode = d.mode /\ f.source = d.source /\ f.route = d.route
  /\ f.rate = d.rate /\ f.channels = d.channels
  /\ f.sample = s /\ f.kinds = d.kinds \cup K

\* The transforms that the choice of a format may add.
FormatKinds == {"FloatNarrow", "IntToFloat", "Int32ToFloat", "FloatToInt", "Truncate", "ZeroPad"}

\* K is what the samples of src, not resampled nor mixed if whole, pay for
\* the format s.
Costs(K, s, src, whole) ==
  /\ K \subseteq FormatKinds
  /\ src.kind = "float" => (K \subseteq Lossless <=> s = "F32" /\ src.bits = 32)
  /\ src.kind = "pcm" /\ whole => (K \subseteq Lossless <=> FieldBits(s) >= src.bits)

LEMMA SampledFacts ==
  ASSUME NEW d, IsDraft(d), NEW s, NEW K
  PROVE  /\ Sampled([d EXCEPT !.sample = s], d, s, {})
         /\ Sampled(Add([d EXCEPT !.sample = s], K), d, s, K)
<1>. DEFINE g == [d EXCEPT !.sample = s]
<1>1. /\ IsDraft(g) /\ g.mode = d.mode /\ g.source = d.source /\ g.route = d.route
      /\ g.rate = d.rate /\ g.channels = d.channels /\ g.sample = s /\ g.kinds = d.kinds
  BY DEF IsDraft
<1>. HIDE DEF g
<1>2. Sampled(g, d, s, {})
  BY <1>1 DEF Sampled
<1>3. Sampled(Add(g, K), d, s, K)
  BY <1>1, AddFacts DEF Sampled
<1>. QED  BY <1>2, <1>3 DEF g

\* What a device of floats costs.
LEMMA FloatCosts ==
  ASSUME NEW src \in SourceFormats, NEW d, d.source = src
  PROVE  Costs(FloatConversion(d), "F32", src, ~F32Payload(d))
<1>1. src.kind \in {"pcm", "float", "dsd"} /\ src.bits \in Nat
      /\ (src.kind = "float" => src.bits \in {32, 64})
  BY SourceFacts
<1>2. FieldBits("F32") = 24
  BY DEF FieldBits
<1>3. CASE src.kind = "float"
  <2>1. FloatConversion(d) = IF src.bits = 64 THEN {"FloatNarrow"} ELSE {}
    BY <1>3 DEF FloatConversion
  <2>. QED  BY <2>1, <1>1, <1>3 DEF FormatKinds, Costs, Lossless
<1>4. CASE src.kind = "pcm" /\ ~F32Payload(d)
  <2>1. FloatConversion(d) = IF src.bits <= 24 THEN {"IntToFloat"} ELSE {"Int32ToFloat"}
    BY <1>4 DEF FloatConversion
  <2>. QED  BY <2>1, <1>1, <1>2, <1>4 DEF FormatKinds, Costs, Lossless
<1>5. CASE src.kind = "dsd" \/ (src.kind = "pcm" /\ F32Payload(d))
  <2>1. FloatConversion(d) = {}
    BY <1>5 DEF FloatConversion
  <2>. QED  BY <2>1, <1>5 DEF FormatKinds, Costs
<1>. QED  BY <1>1, <1>3, <1>4, <1>5

\* A source that reports no format is given its own.
LEMMA NaturalCosts ==
  ASSUME NEW src \in SourceFormats, ~(src.kind = "float" /\ src.bits = 64), NEW whole
  PROVE  NaturalFormat(src) \in Formats /\ Costs({}, NaturalFormat(src), src, whole)
<1>1. src.kind \in {"pcm", "float", "dsd"} /\ src.bits \in Nat
      /\ (src.kind = "pcm" => src.bits <= 32)
      /\ (src.kind = "float" => src.bits \in {32, 64})
  BY SourceFacts
<1>2. CASE src.kind = "float"
  <2>1. NaturalFormat(src) = "F32"
    BY <1>2 DEF NaturalFormat
  <2>. QED  BY <2>1, <1>1, <1>2 DEF FormatKinds, Costs, Formats
<1>3. CASE src.kind = "dsd"
  <2>1. NaturalFormat(src) = "S32"
    BY <1>3 DEF NaturalFormat
  <2>. QED  BY <2>1, <1>3 DEF FormatKinds, Costs, Formats
<1>4. CASE src.kind = "pcm"
  <2>1. NaturalFormat(src)
          = IF src.bits <= 16 THEN "S16" ELSE IF src.bits <= 24 THEN "S24" ELSE "S32"
    BY <1>4 DEF NaturalFormat
  <2>2. NaturalFormat(src) \in Formats /\ FieldBits(NaturalFormat(src)) >= src.bits
    BY <2>1, <1>1, <1>4 DEF Formats, FieldBits
  <2>. QED  BY <2>2, <1>4 DEF FormatKinds, Costs
<1>. QED  BY <1>1, <1>2, <1>3, <1>4

\* f is d with a format of S and what that costs; in the Strict mode nothing.
Formatted(f, d, S) ==
  \E s \in S, K \in SUBSET FormatKinds :
    /\ Sampled(f, d, s, K)
    /\ Costs(K, s, d.source, ~F32Payload(d))
    /\ d.mode = "Strict" => K \subseteq Lossless

\* The integer formats of a device: the samples go to one of them.
LEMMA IntegerStep ==
  ASSUME NEW src \in SourceFormats, NEW pm \in Policies, ~(pm = "Strict" /\ src.kind = "float"),
         NEW caps, caps.formats \subseteq Formats, IntFormats(caps) # {},
         NEW d, IsDraft(d), d.source = src, d.mode = pm, d.route # "dop",
         pm = "Strict" => ~F32Payload(d),
         NEW f, f = ExclusiveFormat(d, caps), f.reason = "none"
  PROVE  Formatted(f, d, Formats \ {"F32"})
<1>. DEFINE ints   == IntFormats(caps)
            enough == {g \in ints : FieldBits(g) >= src.bits}
            fit    == Narrowest(enough)
            w      == Widest(ints)
<1>1. src.kind \in {"pcm", "float", "dsd"} /\ src.bits \in Nat
  BY SourceFacts
<1>2. ints \in SUBSET Formats /\ "F32" \notin ints /\ ints # {}
  BY DEF IntFormats
<1>3. \A g \in Formats : FieldBits(g) \in Nat
  BY DEF FieldBits
<1>4. w \in ints /\ \A g \in ints : FieldBits(g) <= FieldBits(w)
  BY <1>2, FormatChoices
<1>5. CASE F32Payload(d)
  <2>1. f = Add([d EXCEPT !.sample = w], Quantised(src, w))
    BY <1>2, <1>5 DEF ExclusiveFormat
  <2>2. Sampled(f, d, w, Quantised(src, w))
    BY <2>1, SampledFacts
  <2>3. Costs(Quantised(src, w), w, src, ~F32Payload(d))
    BY <1>1, <1>2, <1>4, <1>5 DEF Quantised, FormatKinds, Costs, Lossless
  <2>. QED  BY <1>2, <1>4, <1>5, <2>2, <2>3 DEF Formatted, Costs
<1>6. ~F32Payload(d) => src.kind # "float"
  BY DEF F32Payload
<1>7. CASE ~F32Payload(d) /\ enough # {}
  <2>. DEFINE K == IF FieldBits(fit) > src.bits THEN {"ZeroPad"} ELSE {}
  <2>1. f = Add([d EXCEPT !.sample = fit], K)
    BY <1>2, <1>7 DEF ExclusiveFormat
  <2>2. fit \in enough
    BY <1>2, <1>7, FormatChoices
  <2>3. Sampled(f, d, fit, K)
    BY <2>1, SampledFacts
  <2>4. Costs(K, fit, src, ~F32Payload(d)) /\ K \subseteq Lossless
    <3>1. FieldBits(fit) >= src.bits /\ src.kind # "float"
      BY <1>6, <1>7, <2>2
    <3>2. K \subseteq {"ZeroPad"}
      OBVIOUS
    <3>. QED  BY <3>1, <3>2 DEF FormatKinds, Costs, Lossless
  <2>. QED  BY <1>2, <2>2, <2>3, <2>4 DEF Formatted, Costs
<1>8. CASE ~F32Payload(d) /\ enough = {}
  <2>1. pm # "Strict"
    <3>. SUFFICES ASSUME pm = "Strict" PROVE FALSE
      OBVIOUS
    <3>1. f = Blocked(d, "TruncationForbidden")
      BY <1>2, <1>8 DEF ExclusiveFormat
    <3>. QED  BY <3>1, BlockedFacts
  <2>2. f = Add([d EXCEPT !.sample = w], {"Truncate"})
    BY <1>2, <1>8, <2>1 DEF ExclusiveFormat
  <2>3. Sampled(f, d, w, {"Truncate"})
    BY <2>2, SampledFacts
  <2>4. ~(FieldBits(w) >= src.bits)
    BY <1>4, <1>8
  <2>5. Costs({"Truncate"}, w, src, ~F32Payload(d))
    BY <1>6, <1>8, <2>4 DEF FormatKinds, Costs, Lossless
  <2>. QED  BY <1>2, <1>4, <2>1, <2>3, <2>5 DEF Formatted, Costs
<1>. QED  BY <1>5, <1>7, <1>8

\* StepSampleFormat writes down what the format costs, and costs nothing in
\* the Strict mode.
LEMMA FormatStep ==
  ASSUME NEW src \in SourceFormats, NEW pm \in Policies,
         NEW caps, caps.formats \subseteq Formats,
         caps.formats = {} => ~(src.kind = "float" /\ src.bits = 64),
         NEW d, IsDraft(d), d.source = src, d.mode = pm, d.route # "dop",
         pm = "Strict" /\ src.kind # "float" => ~F32Payload(d),
         NEW f, f = StepSampleFormat(d, caps), f.reason = "none"
  PROVE  Formatted(f, d, Formats) /\ (pm = "Strict" => src.kind # "float")
<1>1. ~(pm = "Strict" /\ src.kind = "float")
  <2>. SUFFICES ASSUME pm = "Strict" /\ src.kind = "float" PROVE FALSE
    OBVIOUS
  <2>1. f = Blocked(d, "FloatUnsupported")
    BY DEF StepSampleFormat
  <2>. QED  BY <2>1, BlockedFacts
<1>2. CASE caps.formats = {}
  <2>1. f = [d EXCEPT !.sample = NaturalFormat(src)]
    BY <1>1, <1>2 DEF StepSampleFormat
  <2>2. Sampled(f, d, NaturalFormat(src), {})
    BY <2>1, SampledFacts
  <2>. QED  BY <1>1, <1>2, <2>2, NaturalCosts DEF Formatted
<1>3. CASE caps.formats # {} /\ pm = "Compatible" /\ "F32" \in caps.formats
  <2>1. f = Add([d EXCEPT !.sample = "F32"], FloatConversion(d))
    BY <1>1, <1>3 DEF StepSampleFormat
  <2>2. Sampled(f, d, "F32", FloatConversion(d))
    BY <2>1, SampledFacts
  <2>. QED  BY <1>1, <1>3, <2>2, FloatCosts DEF Formats, Formatted, Costs
<1>4. CASE caps.formats # {} /\ ~(pm = "Compatible" /\ "F32" \in caps.formats)
  <2>1. f = ExclusiveFormat(d, caps)
    BY <1>1, <1>4 DEF StepSampleFormat
  <2>2. CASE IntFormats(caps) # {}
    <3>1. pm = "Strict" => ~F32Payload(d)
      BY <1>1
    <3>2. Formatted(f, d, Formats \ {"F32"})
      BY <1>1, <2>1, <2>2, <3>1, IntegerStep
    <3>. QED  BY <1>1, <3>2 DEF Formatted
  <2>3. CASE IntFormats(caps) = {}
    <3>1. f = FloatOnlyFormat(d)
      BY <2>1, <2>3 DEF ExclusiveFormat
    <3>2. ~(pm = "Strict" /\ "Int32ToFloat" \in FloatConversion(d))
      <4>. SUFFICES ASSUME pm = "Strict" /\ "Int32ToFloat" \in FloatConversion(d) PROVE FALSE
        OBVIOUS
      <4>1. f = Blocked(d, "TruncationForbidden")
        BY <3>1 DEF FloatOnlyFormat
      <4>. QED  BY <4>1, BlockedFacts
    <3>3. f = Add([d EXCEPT !.sample = "F32"], FloatConversion(d))
      BY <3>1, <3>2 DEF FloatOnlyFormat
    <3>4. Sampled(f, d, "F32", FloatConversion(d))
      BY <3>3, SampledFacts
    <3>5. pm = "Strict" => FloatConversion(d) \subseteq Lossless
      BY <1>1, <3>2 DEF FloatConversion, Lossless
    <3>. QED  BY <1>1, <3>4, <3>5, FloatCosts DEF Formats, Formatted, Costs
  <2>. QED  BY <2>2, <2>3
<1>. QED  BY <1>2, <1>3, <1>4

-----------------------------------------------------------------------------
(* The plan                                                                *)

\* What an accepted plan p says of the source, in a mode.
Sound(p, src, pm) ==
  /\ IsDraft(p) /\ p.source = src /\ p.mode = pm /\ p.reason = "none"
  /\ p.kinds \cap GainKinds = {}
  /\ p.sample \in Formats
  /\ Lossy(p) = {} <=> CarriesSource(p)
  /\ pm = "Strict" => Lossy(p) = {}
  /\ Lossy(p) = {} /\ p.route # "dop" => p.exact \/ src.kind = "float"

\* StepRing moves the words of integers that nothing has touched, and leaves
\* the rest of the draft alone.
LEMMA RingStep ==
  ASSUME NEW d, IsDraft(d), NEW f, f = StepRing(d)
  PROVE  /\ IsDraft(f) /\ f.source = d.source /\ f.mode = d.mode /\ f.route = d.route
         /\ f.kinds = d.kinds /\ f.rate = d.rate /\ f.sample = d.sample
         /\ f.channels = d.channels /\ f.reason = d.reason
         /\ d.route # "dop" /\ d.source.kind = "pcm" /\ ~F32Payload(d) => f.exact
<1>1. CASE d.route = "dop"
  BY <1>1 DEF StepRing, IsDraft
<1>2. CASE d.route # "dop" /\ d.source.kind = "pcm" /\ ~F32Payload(d)
  <2>1. f = [d EXCEPT !.exact = TRUE, !.bits = d.source.bits]
    BY <1>2 DEF StepRing
  <2>. QED  BY <2>1, <1>2 DEF IsDraft
<1>3. CASE d.route # "dop" /\ ~(d.source.kind = "pcm" /\ ~F32Payload(d))
  <2>1. f = [d EXCEPT !.exact = FALSE, !.bits = 0]
    BY <1>3 DEF StepRing
  <2>. QED  BY <2>1, <1>3 DEF IsDraft
<1>. QED  BY <1>1, <1>2, <1>3

\* A stream that is packed keeps every bit.
LEMMA PackedIsSound ==
  ASSUME NEW src \in SourceFormats, NEW pm, NEW d, Packed(d, src, pm), NEW p,
         p = StepRing(d), p.reason = "none"
  PROVE  Sound(p, src, pm)
<1>1. /\ IsDraft(p) /\ p.source = src /\ p.mode = pm /\ p.route = "dop"
      /\ p.kinds = {"DopPack"} /\ p.channels = src.channels /\ p.sample \in Formats
  BY RingStep DEF Packed, Formats
<1>2. Lossy(p) = {} /\ p.kinds \cap GainKinds = {}
  BY <1>1 DEF Lossy, Lossless, GainKinds
<1>3. CarriesSource(p)
  BY <1>1, SourceFacts DEF CarriesSource
<1>. QED  BY <1>1, <1>2, <1>3 DEF Sound

\* So is a draft whose conversions and format are written down.
LEMMA ToldIsSound ==
  ASSUME NEW src \in SourceFormats, NEW pm \in Policies,
         NEW d, Told(d, src, pm), NEW s \in Formats, NEW K,
         Costs(K, s, src, ~F32Payload(d)),
         pm = "Strict" => src.kind # "float" /\ K \subseteq Lossless,
         NEW f, Sampled(f, d, s, K), NEW p, p = StepRing(f), p.reason = "none"
  PROVE  Sound(p, src, pm)
<1>1. /\ IsDraft(p) /\ p.source = src /\ p.mode = pm /\ p.route = d.route
      /\ p.kinds = d.kinds \cup K /\ p.rate = d.rate /\ p.sample = s
      /\ p.channels = d.channels
  BY RingStep DEF Sampled, Told
<1>2. p.kinds \cap GainKinds = {}
  BY <1>1 DEF Told, FormatKinds, Costs, GainKinds
<1>3. Lossy(p) = {} <=> d.kinds \cap {"DsdToPcm", "Downmix", "Resample"} = {} /\ K \subseteq Lossless
  BY <1>1 DEF Told, Lossy, Lossless
<1>4. src.kind \in {"pcm", "float", "dsd"}
  BY SourceFacts
<1>5. CASE src.kind = "dsd"
  <2>1. Lossy(p) # {}
    BY <1>3, <1>5 DEF Told
  <2>2. ~CarriesSource(p)
    BY <1>1, <1>5 DEF Told, CarriesSource
  <2>3. pm # "Strict"
    BY <1>5 DEF Told
  <2>. QED  BY <1>1, <1>2, <2>1, <2>2, <2>3 DEF Sound
<1>6. CASE src.kind # "dsd"
  <2>1. d.route = "pcm" /\ "DsdToPcm" \notin d.kinds
    BY <1>6 DEF Told
  <2>2. CASE d.kinds \cap {"Downmix", "Resample"} # {}
    <3>1. Lossy(p) # {} /\ pm # "Strict"
      BY <1>3, <2>2 DEF Told
    <3>2. p.rate # src.rate \/ p.channels < src.channels
      BY <1>1, <2>1, <2>2 DEF Told
    <3>3. ~CarriesSource(p)
      <4>1. CASE p.rate # src.rate
        BY <1>1, <2>1, <4>1 DEF CarriesSource
      <4>2. CASE p.channels < src.channels
        <5>1. ~(p.channels >= src.channels)
          BY <1>1, <4>2, SourceFacts DEF Told
        <5>. QED  BY <1>1, <5>1 DEF CarriesSource
      <4>. QED  BY <3>2, <4>1, <4>2
    <3>. QED  BY <1>1, <1>2, <3>1, <3>3 DEF Sound
  <2>3. CASE d.kinds \cap {"Downmix", "Resample"} = {}
    <3>1. Lossy(p) = {} <=> K \subseteq Lossless
      BY <1>3, <2>1, <2>3
    <3>2. p.rate = src.rate /\ p.channels >= src.channels
      BY <1>1, <2>1, <2>3, SourceFacts DEF Told
    <3>3. CarriesSource(p) <=> IF src.kind = "pcm" THEN FieldBits(s) >= src.bits
                                                  ELSE s = "F32" /\ src.bits = 32
      BY <1>1, <2>1, <3>2 DEF CarriesSource
    <3>4. src.kind = "pcm" => ~F32Payload(d) /\ ~F32Payload(f)
      BY <2>1, <2>3 DEF F32Payload, Told, FormatKinds, Costs, Sampled
    <3>5. Lossy(p) = {} <=> CarriesSource(p)
      BY <1>4, <1>6, <3>1, <3>3, <3>4 DEF FormatKinds, Costs
    <3>6. src.kind = "pcm" => p.exact
      BY <2>1, <3>4, RingStep DEF Sampled, Told
    <3>. QED  BY <1>1, <1>2, <1>4, <1>6, <3>1, <3>5, <3>6 DEF Sound
  <2>. QED  BY <2>2, <2>3
<1>. QED  BY <1>5, <1>6

\* Every plan that is not blocked is sound.
LEMMA PlanIsSound ==
  ASSUME NEW src \in SourceFormats,
         NEW caps, caps.formats \subseteq Formats, caps.channels \subseteq Nat \ {0},
         caps.formats = {} => ~(src.kind = "float" /\ src.bits = 64),
         NEW pol, pol.mode \in Policies, NEW dop \in BOOLEAN,
         NEW p, p = PlanWithDevice(src, caps, pol, dop), p.reason = "none"
  PROVE  Sound(p, src, pol.mode)
<1>. DEFINE d0 == Draft(src, pol.mode)
            d1 == StepRoute(d0, caps, pol, dop)
            d2 == Then(d1, StepChannels(d1, caps))
            d3 == Then(d2, StepRate(d2, caps, pol))
            d4 == Then(d3, StepSampleFormat(d3, caps))
            d5 == IF d1.route = "dop" THEN d1 ELSE d4
<1>1. p = Then(d5, StepRing(d5))
  BY DEF PlanWithDevice
<1>2. /\ d1.reason = "none" => \/ Told(d1, src, pol.mode) /\ d1.kinds \subseteq {"DsdToPcm"}
                               \/ Packed(d1, src, pol.mode)
      /\ d1.reason # "none" => d1.route # "dop"
  BY RouteStep
<1>. HIDE DEF d1
<1>3. CASE d1.route = "dop"
  <2>1. d1.reason = "none" /\ p = StepRing(d1)
    BY <1>1, <1>2, <1>3 DEF Then
  <2>2. Packed(d1, src, pol.mode)
    BY <1>2, <1>3, <2>1, SourceFacts DEF Told
  <2>. QED  BY <2>1, <2>2, PackedIsSound
<1>4. CASE d1.route # "dop"
  <2>1. d4.reason = "none" /\ p = StepRing(d4)
    BY <1>1, <1>4 DEF Then
  <2>2. d3.reason = "none" /\ d4 = StepSampleFormat(d3, caps)
    BY <2>1 DEF Then
  <2>3. d2.reason = "none" /\ d3 = StepRate(d2, caps, pol)
    BY <2>2 DEF Then
  <2>4. d1.reason = "none" /\ d2 = StepChannels(d1, caps)
    BY <2>3 DEF Then
  <2>5. Told(d1, src, pol.mode) /\ d1.kinds \subseteq {"DsdToPcm"}
    BY <1>2, <1>4, <2>4 DEF Packed
  <2>. HIDE DEF d2, d3, d4
  <2>6. Told(d2, src, pol.mode) /\ "Resample" \notin d2.kinds
    BY <2>3, <2>4, <2>5, ChannelStep
  <2>7. Told(d3, src, pol.mode)
    BY <2>2, <2>3, <2>6, RateStep
  <2>8. /\ IsDraft(d3) /\ d3.source = src /\ d3.mode = pol.mode /\ d3.route # "dop"
        /\ pol.mode = "Strict" /\ src.kind # "float" => ~F32Payload(d3)
    <3>1. IsDraft(d3) /\ d3.source = src /\ d3.mode = pol.mode /\ d3.route # "dop"
      BY <2>7 DEF Told
    <3>2. ASSUME pol.mode = "Strict", src.kind # "float"
          PROVE  ~F32Payload(d3)
      <4>1. d3.kinds \cap {"DsdToPcm", "Downmix", "Resample"} = {} /\ src.kind = "pcm"
            /\ d3.route # "dsdToPcm"
        BY <2>7, <3>2, SourceFacts DEF Told
      <4>. QED  BY <3>1, <4>1 DEF F32Payload
    <3>. QED  BY <3>1, <3>2
  <2>9. Formatted(d4, d3, Formats) /\ (pol.mode = "Strict" => src.kind # "float")
    <3>1. caps.formats = {} => ~(src.kind = "float" /\ src.bits = 64)
      BY <2>1
    <3>. QED  BY <2>1, <2>2, <2>8, <3>1, FormatStep
  <2>10. PICK s \in Formats, K \in SUBSET FormatKinds :
           /\ Sampled(d4, d3, s, K) /\ Costs(K, s, src, ~F32Payload(d3))
           /\ pol.mode = "Strict" => K \subseteq Lossless
    BY <2>8, <2>9 DEF Formatted
  <2>. QED  BY <2>1, <2>7, <2>9, <2>10, ToldIsSound
<1>. QED  BY <1>3, <1>4

-----------------------------------------------------------------------------
(* The badge                                                               *)

TypesOK ==
  /\ mode \in Modes /\ options \in Options /\ volume \in {50, 100}
  /\ muted \in BOOLEAN /\ held \in Devices \cup {NoDevice}

\* A plan that was accepted is one of the planner's, for a track.
SoundPlan(p) == p.reason = "none" => \E src \in Sources, m \in Policies : Sound(p, src, m)

IsPath(pt) ==
  pt \in [open : {TRUE}, plan : {pt.plan}, driver : {pt.driver}, stage : {pt.stage},
          badge : {pt.badge}, muted : {pt.muted}, gain : {pt.gain}]

\* The open stream: the device it needs is held, its gain and mute are the
\* ones of the mode, and its badge, when it is the best one, agrees with the
\* plan and with the format the device was configured to.
PathOK ==
  \/ path = NoPath
  \/ /\ IsPath(path)
     /\ held # NoDevice /\ mode # "Compatible"
     /\ \E src \in Sources, m \in Policies : Sound(path.plan, src, m)
     /\ path.muted = muted /\ path.gain = EffectiveGain(mode, options, volume)
     /\ path.driver \in {Unreadable, hw}
     /\ path.badge = "BitPerfect" => Lossy(path.plan) = {} /\ path.driver = Target(path.plan)

\* What the window shows is not newer than the stream's own badge, and the
\* gain it was computed from is still the one that is applied.
ShownOK ==
  path.open /\ shown = "BitPerfect" =>
    /\ path.badge = "BitPerfect"
    /\ ~muted
    /\ path.stage = "noGain" \/ EffectiveGain(mode, options, volume) = 100

\* The volume of the Strict mode is 100 once the change of mode is over: the
\* stream it leaves to the Optimal mode may have a volume of its own.
StrictIsLoud == mode = "Strict" /\ todo \notin {"open", "volume"} => volume = 100

IInv == TypesOK /\ SoundPlan(plan) /\ PathOK /\ ShownOK /\ StrictIsLoud

-----------------------------------------------------------------------------
LEMMA PolicyFacts ==
  ASSUME NEW m \in Modes, NEW opts \in Options
  PROVE  /\ Policy(m, opts).mode = m /\ m \in Policies /\ opts.dop \in BOOLEAN
BY SignalPathAssumption DEF Policy, Modes, Policies

LEMMA NoDeviceIsNone == NoDevice \notin Devices
BY SignalPathAssumption DEF NoDevice

\* The planner's lemma, for a track and a device of this module.
LEMMA DevicePlanIsSound ==
  ASSUME NEW src \in Sources, NEW caps \in Devices, NEW m \in Modes, NEW opts \in Options
  PROVE  SoundPlan(PlanWithDevice(src, caps, Policy(m, opts), opts.dop))
<1>1. /\ src \in SourceFormats /\ caps.formats \subseteq Formats
      /\ caps.channels \subseteq Nat \ {0}
      /\ caps.formats = {} => ~(src.kind = "float" /\ src.bits = 64)
  BY SignalPathAssumption
<1>2. Policy(m, opts).mode = m /\ m \in Policies /\ opts.dop \in BOOLEAN
  BY PolicyFacts
<1>. QED  BY <1>1, <1>2, PlanIsSound DEF SoundPlan

\* And for a stream of the shared mode.
LEMMA StreamPlanIsSound ==
  ASSUME NEW src \in Sources, NEW desc \in Streams, NEW m \in Modes, NEW opts \in Options,
         NEW caps, caps = [access |-> "shared", rates |-> [kind |-> "discrete", set |-> {desc.rate}],
                           channels |-> {desc.channels}, formats |-> {desc.sample}]
  PROVE  SoundPlan(PlanWithDevice(src, caps, Policy(m, opts), TRUE))
<1>1. /\ src \in SourceFormats /\ caps.formats \subseteq Formats
      /\ caps.channels \subseteq Nat \ {0} /\ caps.formats # {}
  BY SignalPathAssumption
<1>2. Policy(m, opts).mode = m /\ m \in Policies
  BY PolicyFacts
<1>. QED  BY <1>1, <1>2, PlanIsSound DEF SoundPlan

\* The best badge says that the plan loses nothing, that the gain is unity
\* and that the driver took the plan's format.
LEMMA BestBadge ==
  ASSUME NEW p, IsDraft(p), p.kinds \cap GainKinds = {}, NEW gain, NEW pol, NEW driver,
         gain \in {"muted", "scaled", "unity"},
         Verdict(WithGain(p, gain, pol), gain, "exclusive", driver) = "BitPerfect"
  PROVE  gain = "unity" /\ Lossy(p) = {} /\ driver = Target(p)
<1>. DEFINE q == WithGain(p, gain, pol)
            base == [p EXCEPT !.kinds = @ \ GainKinds]
<1>1. gain = "unity" /\ Lossy(q) = {} /\ driver = Target(q)
  BY DEF Verdict
<1>2. /\ IsDraft(base) /\ base.kinds = p.kinds /\ base.rate = p.rate
      /\ base.sample = p.sample /\ base.channels = p.channels
  BY DEF IsDraft
<1>3. q = Add(base, {}) \/ q = Add(Add(base, {}), {"Dither"})
  BY <1>1 DEF WithGain
<1>. HIDE DEF base, q
<1>4. /\ IsDraft(Add(base, {})) /\ Add(base, {}).kinds = base.kinds \cup {}
      /\ Add(base, {}).rate = base.rate /\ Add(base, {}).sample = base.sample
      /\ Add(base, {}).channels = base.channels
  BY <1>2, AddFacts
<1>5. /\ p.kinds \subseteq q.kinds /\ q.rate = p.rate
      /\ q.sample = p.sample /\ q.channels = p.channels
  BY <1>2, <1>3, <1>4, AddFacts
<1>. QED  BY <1>1, <1>5 DEF Lossy, Target

LEMMA SharedBadge ==
  ASSUME NEW p, NEW gain, NEW driver
  PROVE  Verdict(p, gain, "shared", driver) # "BitPerfect"
BY DEF Verdict

LEMMA GainFacts ==
  ASSUME NEW m, NEW opts, NEW v, NEW silent \in BOOLEAN
  PROVE  /\ GainState(m, opts, v, silent) \in {"muted", "scaled", "unity"}
         /\ GainState(m, opts, v, silent) = "unity" => ~silent /\ EffectiveGain(m, opts, v) = 100
BY DEF GainState

-----------------------------------------------------------------------------
(* Opening                                                                 *)

\* Opening the exclusive path closes the old one or replaces it by a sound
\* one, whose badge is the one shown.
LEMMA OpenExclusiveStep ==
  ASSUME TypesOK, PathOK, mode # "Compatible", held # NoDevice,
         NEW src \in Sources, NEW opts \in Options, OpenExclusive(src, opts),
         mode' = mode, options' = opts, volume' = volume, muted' = muted, held' = held
  PROVE  SoundPlan(plan)' /\ PathOK' /\ ShownOK'
<1>. DEFINE policy == Policy(mode, opts)
            p      == PlanWithDevice(src, held, policy, opts.dop)
            gain   == GainState(mode, opts, volume, muted)
            Badge(c) == Verdict(WithGain(p, gain, policy), gain, "exclusive", c.driver)
            New(c) == [open |-> TRUE, plan |-> p, driver |-> c.driver, stage |-> Stage(p, opts),
                       badge |-> Badge(c), muted |-> muted,
                       gain |-> EffectiveGain(mode, opts, volume)]
<1>1. plan' = p
  BY DEF OpenExclusive
<1>2. SoundPlan(p)
  <2>1. held \in Devices /\ mode \in Modes
    BY DEF TypesOK
  <2>. QED  BY <2>1, DevicePlanIsSound
<1>3. CASE path' = NoPath
  BY <1>1, <1>2, <1>3 DEF PathOK, ShownOK, SoundPlan, NoPath
<1>4. ASSUME Accepted(p), NEW c \in Configured(p), hw' = c.hw, path' = New(c), shown' = Badge(c)
      PROVE  PathOK' /\ ShownOK'
  <2>1. PICK s \in Sources, m \in Policies : Sound(p, s, m)
    BY <1>2, <1>4 DEF SoundPlan, Accepted
  <2>2. c.driver \in {Unreadable, c.hw}
    BY DEF Configured, Reuses, PathOK, NoPath
  <2>3. IsDraft(p) /\ p.kinds \cap GainKinds = {}
    BY <2>1 DEF Sound
  <2>. HIDE DEF p, policy
  <2>4. gain \in {"muted", "scaled", "unity"}
        /\ (gain = "unity" => ~muted /\ EffectiveGain(mode, opts, volume) = 100)
    BY GainFacts DEF TypesOK
  <2>. HIDE DEF gain
  <2>5. Badge(c) = "BitPerfect" => gain = "unity" /\ Lossy(p) = {} /\ c.driver = Target(p)
    BY <2>3, <2>4, BestBadge
  <2>6. /\ path'.open = TRUE /\ path'.plan = p /\ path'.driver = c.driver
        /\ path'.badge = Badge(c) /\ path'.muted = muted
        /\ path'.gain = EffectiveGain(mode, opts, volume)
        /\ IsPath(path')
    BY <1>4 DEF IsPath
  <2>. HIDE DEF Badge, New
  <2>7. EffectiveGain(mode, options, volume)' = EffectiveGain(mode, opts, volume)
    BY DEF EffectiveGain
  <2>8. PathOK'
    BY <1>4, <2>1, <2>2, <2>5, <2>6, <2>7 DEF PathOK
  <2>9. ShownOK'
    BY <1>4, <2>4, <2>5, <2>6, <2>7 DEF ShownOK
  <2>. QED  BY <2>8, <2>9
<1>5. \/ path' = NoPath
      \/ \E c \in Configured(p) : Accepted(p) /\ hw' = c.hw /\ path' = New(c) /\ shown' = Badge(c)
  BY DEF OpenExclusive, Closed
<1>6. SoundPlan(plan)'
  BY <1>1, <1>2 DEF SoundPlan
<1>. QED  BY <1>3, <1>4, <1>5, <1>6

\* Opening a track leaves the invariant's parts about the stream true.
LEMMA OpenTrackStep ==
  ASSUME IInv, NEW src \in Sources, OpenTrack(src)
  PROVE  SoundPlan(plan)' /\ PathOK' /\ ShownOK'
<1>1. UNCHANGED <<mode, options, volume, muted, held>>
  BY DEF OpenTrack
<1>2. UNCHANGED EffectiveGain(mode, options, volume)
  BY <1>1 DEF EffectiveGain
<1>3. CASE NotOpened
  BY <1>1, <1>2, <1>3 DEF NotOpened, IInv, PathOK, ShownOK, SoundPlan, NoPlan
<1>4. CASE mode = "Compatible" /\ OpenCompatible(src)
  <2>1. path = NoPath /\ UNCHANGED <<path, hw>>
    BY <1>4 DEF IInv, PathOK, OpenCompatible
  <2>2. PathOK' /\ ShownOK'
    BY <2>1 DEF PathOK, ShownOK, NoPath
  <2>3. CASE plan' = NoPlan
    BY <2>2, <2>3 DEF SoundPlan, NoPlan
  <2>4. CASE plan' # NoPlan
    <3>1. PICK desc \in Streams :
            plan' = PlanWithDevice(src,
                      [access |-> "shared", rates |-> [kind |-> "discrete", set |-> {desc.rate}],
                       channels |-> {desc.channels}, formats |-> {desc.sample}],
                      Policy(mode, options), TRUE)
      BY <1>4, <2>4 DEF OpenCompatible
    <3>2. mode \in Modes /\ options \in Options
      BY DEF IInv, TypesOK
    <3>3. SoundPlan(PlanWithDevice(src,
                      [access |-> "shared", rates |-> [kind |-> "discrete", set |-> {desc.rate}],
                       channels |-> {desc.channels}, formats |-> {desc.sample}],
                      Policy(mode, options), TRUE))
      BY <3>2, StreamPlanIsSound
    <3>4. SoundPlan(plan)'
      BY <3>1, <3>3 DEF SoundPlan
    <3>. QED  BY <2>2, <3>4
  <2>. QED  BY <2>3, <2>4
<1>5. CASE mode # "Compatible" /\ held # NoDevice /\ OpenExclusive(src, options)
  <2>1. TypesOK /\ PathOK /\ options \in Options
    BY DEF IInv, TypesOK
  <2>. QED  BY <1>1, <1>5, <2>1, OpenExclusiveStep
<1>. QED  BY <1>3, <1>4, <1>5 DEF OpenTrack

-----------------------------------------------------------------------------
(* Volume and mute                                                         *)

\* refresh_path_gain replaces the badge that is shown whenever the gain it
\* was computed from is not the one that is applied.
LEMMA RefreshStep ==
  ASSUME IInv, NEW v, NEW silent \in BOOLEAN,
         RefreshPathGain(WithStreamGain(path, mode, options, v, silent), v, silent),
         UNCHANGED <<mode, options, held, hw>>, volume' = v, muted' = silent
  PROVE  PathOK' /\ ShownOK'
<1>. DEFINE gain   == GainState(mode, options, v, silent)
            policy == Policy(mode, options)
            exclusive == Verdict(WithGain(path.plan, gain, policy), gain, "exclusive", path.driver)
            shared == Verdict(WithGain(active.plan, gain, Policy("Compatible", options)),
                              gain, "shared", Unreadable)
            stream == WithStreamGain(path, mode, options, v, silent)
<1>1. /\ path' = IF path.open THEN [stream EXCEPT !.badge = exclusive] ELSE stream
      /\ shown' = CASE path.open /\ exclusive # path.badge -> exclusive
                    [] ~(path.open /\ exclusive # path.badge)
                       /\ active.open /\ shared # active.badge -> shared
                    [] OTHER -> shown
  BY DEF RefreshPathGain
<1>2. EffectiveGain(mode, options, volume)' = EffectiveGain(mode, options, v)
  BY DEF EffectiveGain
<1>3. CASE path = NoPath
  <2>1. path' = NoPath
    BY <1>1, <1>3 DEF WithStreamGain, NoPath
  <2>. QED  BY <2>1 DEF PathOK, ShownOK, NoPath
<1>4. CASE path # NoPath
  <2>1. /\ IsPath(path) /\ path.open = TRUE /\ held # NoDevice /\ mode # "Compatible"
        /\ path.driver \in {Unreadable, hw}
    BY <1>4 DEF IInv, PathOK, IsPath
  <2>2. PICK s \in Sources, m \in Policies : Sound(path.plan, s, m)
    BY <1>4 DEF IInv, PathOK
  <2>3. gain \in {"muted", "scaled", "unity"}
        /\ (gain = "unity" => ~silent /\ EffectiveGain(mode, options, v) = 100)
    BY GainFacts
  <2>4. IsDraft(path.plan) /\ path.plan.kinds \cap GainKinds = {}
    BY <2>2 DEF Sound
  <2>. HIDE DEF gain, policy
  <2>5. exclusive = "BitPerfect" =>
          gain = "unity" /\ Lossy(path.plan) = {} /\ path.driver = Target(path.plan)
    BY <2>3, <2>4, BestBadge
  <2>6. shared # "BitPerfect"
    BY SharedBadge
  <2>. HIDE DEF exclusive, shared
  <2>7. /\ IsPath(path') /\ path'.open = TRUE /\ path'.plan = path.plan
        /\ path'.driver = path.driver /\ path'.stage = path.stage /\ path'.badge = exclusive
        /\ path'.muted = silent /\ path'.gain = EffectiveGain(mode, options, v)
    <3>1. path' = [path EXCEPT !.gain = EffectiveGain(mode, options, v), !.muted = silent,
                               !.badge = exclusive]
      BY <1>1, <2>1 DEF WithStreamGain, IsPath
    <3>. QED  BY <2>1, <3>1 DEF IsPath
  <2>8. PathOK'
    BY <1>2, <2>1, <2>2, <2>5, <2>7 DEF PathOK
  <2>9. ShownOK'
    <3>. SUFFICES ASSUME shown' = "BitPerfect"
                  PROVE  exclusive = "BitPerfect"
      BY <1>2, <2>3, <2>5, <2>7 DEF ShownOK
    <3>1. CASE exclusive # path.badge
      BY <1>1, <2>1, <3>1
    <3>2. CASE exclusive = path.badge
      <4>1. shown = "BitPerfect"
        BY <1>1, <2>6, <3>2
      <4>. QED  BY <2>1, <3>2, <4>1 DEF IInv, ShownOK
    <3>. QED  BY <3>1, <3>2
  <2>. QED  BY <2>8, <2>9
<1>. QED  BY <1>3, <1>4

\* A step without an opening makes no plan.
LEMMA NoOpeningStep ==
  ASSUME NoOpening
  PROVE  SoundPlan(plan)'
BY DEF NoOpening, SoundPlan, NoPlan

LEMMA VolumeStep ==
  ASSUME IInv, NEW v \in {50, 100}, ApplyVolume(v),
         mode = "Strict" => v = 100 \/ todo' \in {"open", "volume"}
  PROVE  IInv'
<1>1. UNCHANGED <<mode, options, held, hw>> /\ volume' = v /\ muted' = muted
  BY DEF ApplyVolume
<1>2. muted \in BOOLEAN
  BY DEF IInv, TypesOK
<1>3. PathOK' /\ ShownOK'
  BY <1>1, <1>2, RefreshStep DEF ApplyVolume
<1>4. SoundPlan(plan)'
  BY NoOpeningStep DEF ApplyVolume
<1>. QED  BY <1>1, <1>3, <1>4 DEF IInv, TypesOK, StrictIsLoud

LEMMA MutedStep ==
  ASSUME IInv, NEW silent \in BOOLEAN, ApplyMuted(silent),
         todo' \in {"open", "volume"} \/ todo' = todo \/ todo = "muted"
  PROVE  IInv'
<1>1. UNCHANGED <<mode, options, held, hw, volume>> /\ muted' = silent
  BY DEF ApplyMuted
<1>2. PathOK' /\ ShownOK'
  <2>1. volume' = volume
    BY <1>1
  <2>. QED  BY <1>1, <2>1, RefreshStep DEF ApplyMuted
<1>3. SoundPlan(plan)'
  BY NoOpeningStep DEF ApplyMuted
<1>. QED  BY <1>1, <1>2, <1>3 DEF IInv, TypesOK, StrictIsLoud

-----------------------------------------------------------------------------
(* The other commands                                                      *)

LEMMA SettingsStep ==
  ASSUME IInv, NEW new \in Options, SetModeSettings(new)
  PROVE  IInv'
<1>. DEFINE stream == WithStreamGain(path, mode, new, volume, muted)
            reopen == Reopens(new) /\ path.open
<1>1. UNCHANGED <<mode, volume, muted, held, todo>> /\ options' = new /\ new # options
  BY DEF SetModeSettings
<1>2. TypesOK' /\ StrictIsLoud'
  BY <1>1 DEF IInv, TypesOK, StrictIsLoud
<1>3. EffectiveGain(mode, options, volume)' = EffectiveGain(mode, new, volume)
  BY <1>1 DEF EffectiveGain
<1>4. path.open => /\ IsPath(path) /\ path # NoPath /\ held # NoDevice /\ mode # "Compatible"
                   /\ path.plan.source \in Sources
  BY DEF IInv, PathOK, NoPath, Sound
<1>5. ASSUME path' = stream, hw' = hw
      PROVE  PathOK'
  <2>1. CASE path = NoPath
    BY <1>5, <2>1 DEF PathOK, WithStreamGain, NoPath
  <2>2. CASE path # NoPath
    <3>1. IsPath(path) /\ path.open = TRUE /\ path.muted = muted
      BY <2>2 DEF IInv, PathOK, IsPath
    <3>2. /\ IsPath(path') /\ path'.open = TRUE /\ path'.plan = path.plan
          /\ path'.driver = path.driver /\ path'.badge = path.badge
          /\ path'.muted = muted /\ path'.gain = EffectiveGain(mode, new, volume)
      BY <1>5, <3>1 DEF WithStreamGain, IsPath
    <3>. QED  BY <1>1, <1>3, <1>5, <2>2, <3>2 DEF IInv, PathOK
  <2>. QED  BY <2>1, <2>2
<1>6. CASE ~reopen /\ path' = stream /\ NoOpening /\ UNCHANGED <<active, hw, shown>>
  <2>1. PathOK' /\ SoundPlan(plan)'
    BY <1>5, <1>6, NoOpeningStep
  <2>2. ShownOK'
    <3>. SUFFICES ASSUME path'.open, shown' = "BitPerfect"
                  PROVE  /\ path'.badge = "BitPerfect" /\ ~muted'
                         /\ path'.stage = "noGain" \/ EffectiveGain(mode, options, volume)' = 100
      BY DEF ShownOK
    <3>1. path.open
      BY <1>6 DEF WithStreamGain
    <3>2. mode = "Strict"
      BY <1>1, <1>4, <1>6, <3>1 DEF Reopens, IInv, TypesOK, Modes
    <3>3. path'.badge = path.badge
      BY <1>4, <1>6, <3>1 DEF WithStreamGain, IsPath
    <3>. QED  BY <1>1, <1>3, <1>6, <3>1, <3>2, <3>3 DEF IInv, ShownOK, EffectiveGain
  <2>. QED  BY <1>2, <2>1, <2>2 DEF IInv
<1>7. CASE reopen /\ path' = stream /\ shown' = "NoStream" /\ plan' = NoPlan /\ UNCHANGED <<active, hw>>
  BY <1>2, <1>5, <1>7 DEF IInv, ShownOK, SoundPlan, NoPlan
<1>8. CASE reopen /\ OpenExclusive(path.plan.source, new)
  <2>1. TypesOK /\ PathOK
    BY DEF IInv
  <2>2. SoundPlan(plan)' /\ PathOK' /\ ShownOK'
    BY <1>1, <1>4, <1>8, <2>1, OpenExclusiveStep
  <2>. QED  BY <1>2, <2>2 DEF IInv
<1>. QED  BY <1>6, <1>7, <1>8 DEF SetModeSettings

\* Between the exclusive modes the stream goes on with the gain of the new
\* mode; the Compatible mode closes it.
LEMMA ModeStep ==
  ASSUME IInv, NEW m \in Modes, SetActiveMode(m)
  PROVE  IInv'
<1>1. /\ mode' = m /\ todo' = "open" /\ todo = "none" /\ NoOpening
      /\ UNCHANGED <<options, volume, muted, hw, shown>>
  BY DEF SetActiveMode
<1>2. SoundPlan(plan)' /\ StrictIsLoud'
  BY <1>1, NoOpeningStep DEF StrictIsLoud
<1>3. EffectiveGain(mode, options, volume)' = EffectiveGain(m, options, volume)
  BY <1>1 DEF EffectiveGain
<1>4. CASE /\ m # "Compatible" /\ UNCHANGED held
           /\ path' = WithStreamGain(path, m, options, volume, muted)
  <2>1. TypesOK'
    BY <1>1, <1>4 DEF IInv, TypesOK
  <2>2. CASE path = NoPath
    <3>1. path' = NoPath
      BY <1>4, <2>2 DEF WithStreamGain, NoPath
    <3>. QED  BY <1>2, <2>1, <3>1 DEF IInv, PathOK, ShownOK, NoPath
  <2>3. CASE path # NoPath
    <3>1. IsPath(path) /\ path.open = TRUE /\ mode # "Compatible"
      BY <2>3 DEF IInv, PathOK, IsPath
    <3>2. /\ IsPath(path') /\ path'.open = TRUE /\ path'.plan = path.plan
          /\ path'.driver = path.driver /\ path'.badge = path.badge
          /\ path'.stage = path.stage
          /\ path'.muted = muted /\ path'.gain = EffectiveGain(m, options, volume)
      BY <1>4, <3>1 DEF WithStreamGain, IsPath
    <3>3. PathOK'
      BY <1>1, <1>3, <1>4, <2>3, <3>2 DEF IInv, PathOK
    <3>4. ShownOK'
      <4>. SUFFICES ASSUME shown = "BitPerfect", path.stage # "noGain"
                    PROVE  EffectiveGain(m, options, volume) = 100
        BY <1>1, <1>3, <3>1, <3>2 DEF IInv, ShownOK
      <4>1. EffectiveGain(mode, options, volume) = 100
        BY <3>1 DEF IInv, ShownOK
      <4>2. CASE mode = "Strict"
        <5>1. volume = 100
          BY <1>1, <4>2 DEF IInv, StrictIsLoud
        <5>. QED  BY <5>1 DEF EffectiveGain
      <4>3. CASE m = "Strict"
        BY <4>3 DEF EffectiveGain
      <4>4. CASE mode = "Optimal" /\ m = "Optimal"
        BY <4>1, <4>4
      <4>. QED  BY <1>4, <3>1, <4>2, <4>3, <4>4 DEF IInv, TypesOK, Modes
    <3>. QED  BY <1>2, <2>1, <3>3, <3>4 DEF IInv
  <2>. QED  BY <2>2, <2>3
<1>5. CASE StopPlayback /\ held' = NoDevice
  BY <1>1, <1>2, <1>5 DEF IInv, TypesOK, PathOK, ShownOK, StopPlayback, NoPath
<1>6. CASE m = "Compatible" /\ held = NoDevice /\ UNCHANGED <<held, active, path>>
  <2>1. path' = NoPath
    BY <1>6 DEF IInv, PathOK
  <2>. QED  BY <1>1, <1>2, <1>6, <2>1 DEF IInv, TypesOK, PathOK, ShownOK, NoPath
<1>. QED  BY <1>4, <1>5, <1>6 DEF SetActiveMode

\* A step that closes the stream, whatever it does to the device.
LEMMA StopStep ==
  ASSUME IInv, StopPlayback, NoOpening, held' \in Devices \cup {NoDevice},
         UNCHANGED <<mode, options, volume, muted, todo>>
  PROVE  IInv'
<1>1. SoundPlan(plan)'
  BY NoOpeningStep
<1>. QED  BY <1>1 DEF IInv, TypesOK, PathOK, ShownOK, StrictIsLoud, StopPlayback, NoPath

LEMMA ClaimStep ==
  ASSUME IInv, NEW caps \in Devices, Claimed(caps)
  PROVE  IInv'
<1>1. SoundPlan(plan)'
  BY NoOpeningStep DEF Claimed
<1>2. path = NoPath /\ path' = path /\ held' = caps
      /\ UNCHANGED <<mode, options, volume, muted, todo>>
  BY DEF Claimed, IInv, PathOK
<1>. QED  BY <1>1, <1>2 DEF IInv, TypesOK, PathOK, ShownOK, StrictIsLoud, NoPath

-----------------------------------------------------------------------------
\* The invariant is inductive: for the parts about the stream and the badge
\* each command has its lemma, the rest is what it leaves alone.
THEOREM PathInvariant == PathSpec => []IInv
<1>1. Init => IInv
  <2>. SUFFICES ASSUME Init PROVE IInv
    OBVIOUS
  <2>1. muted \in BOOLEAN
    BY Zenon DEF Init
  <2>2. TypesOK
    BY <2>1 DEF Init, TypesOK
  <2>3. SoundPlan(plan)
    BY DEF Init, SoundPlan, NoPlan
  <2>4. PathOK /\ ShownOK
    BY DEF Init, PathOK, ShownOK, NoPath
  <2>. QED  BY <2>2, <2>3, <2>4 DEF Init, IInv, StrictIsLoud
<1>2. IInv /\ [Next]_vars => IInv'
  <2>. SUFFICES ASSUME IInv, [Next]_vars PROVE IInv'
    OBVIOUS
  <2>1. ASSUME NEW src \in Sources, Open(src) PROVE IInv'
    <3>1. OpenTrack(src) /\ UNCHANGED <<mode, options, volume, muted, held, todo>>
      BY <2>1 DEF Open, OpenTrack
    <3>. QED  BY <3>1, OpenTrackStep DEF IInv, TypesOK, StrictIsLoud
  <2>2. ASSUME NEW src \in Sources, SwitchOpens(src) PROVE IInv'
    <3>1. /\ OpenTrack(src) /\ UNCHANGED <<mode, options, volume, muted, held>>
          /\ todo' = "volume"
      BY <2>2 DEF SwitchOpens, OpenTrack
    <3>. QED  BY <3>1, OpenTrackStep DEF IInv, TypesOK, StrictIsLoud
  <2>3. ASSUME NEW v \in {50, 100}, SetVolume(v) PROVE IInv'
    BY <2>3, VolumeStep DEF SetVolume
  <2>4. ASSUME NEW v \in {50, 100}, SwitchVolume(v) PROVE IInv'
    BY <2>4, VolumeStep DEF SwitchVolume
  <2>5. ASSUME NEW silent \in BOOLEAN, SetMuted(silent) PROVE IInv'
    BY <2>5, MutedStep DEF SetMuted
  <2>6. ASSUME NEW silent \in BOOLEAN, SwitchMuted(silent) PROVE IInv'
    BY <2>6, MutedStep DEF SwitchMuted
  <2>7. ASSUME NEW new \in Options, SetModeSettings(new) PROVE IInv'
    BY <2>7, SettingsStep
  <2>8. ASSUME NEW m \in Modes, SetActiveMode(m) PROVE IInv'
    BY <2>8, ModeStep
  <2>9. ASSUME SwitchSilent PROVE IInv'
    BY <2>9 DEF SwitchSilent, NoOpening, IInv, TypesOK, SoundPlan, PathOK, ShownOK,
                StrictIsLoud, NoPlan, EffectiveGain
  <2>10. ASSUME NEW caps \in Devices, Claimed(caps) PROVE IInv'
    BY <2>10, ClaimStep
  <2>11. ASSUME Released PROVE IInv'
    BY <2>11, StopStep DEF Released
  <2>12. ASSUME Stop PROVE IInv'
    BY <2>12, StopStep DEF Stop, IInv, TypesOK
  <2>13. CASE UNCHANGED vars
    BY <2>13 DEF vars, IInv, TypesOK, SoundPlan, PathOK, ShownOK, StrictIsLoud, EffectiveGain
  <2>. QED  BY <2>1, <2>2, <2>3, <2>4, <2>5, <2>6, <2>7, <2>8, <2>9, <2>10, <2>11, <2>12, <2>13
            DEF Next
<1>. QED  BY <1>1, <1>2, PTL DEF PathSpec

\* Whatever the tracks, the devices and the order of the commands, the
\* bit-perfect badge is never shown over a stream that changes the samples.
THEOREM BadgeStaysTrue == PathSpec => []BadgeIsTrue
<1>1. IInv => BadgeIsTrue
  <2>. SUFFICES ASSUME IInv, shown = "BitPerfect", path.open
                PROVE  BitExact(path)
    BY DEF BadgeIsTrue
  <2>1. /\ path # NoPath /\ path.muted = muted
        /\ path.gain = EffectiveGain(mode, options, volume)
        /\ path.driver \in {Unreadable, hw}
    BY DEF IInv, PathOK, NoPath
  <2>2. path.badge = "BitPerfect" /\ ~muted
        /\ (path.stage = "noGain" \/ EffectiveGain(mode, options, volume) = 100)
    BY DEF IInv, ShownOK
  <2>3. Lossy(path.plan) = {} /\ path.driver = Target(path.plan)
    BY <2>1, <2>2 DEF IInv, PathOK
  <2>4. PICK src \in Sources, m \in Policies : Sound(path.plan, src, m)
    BY <2>1 DEF IInv, PathOK
  <2>5. CarriesSource(path.plan)
        /\ (path.plan.route = "dop" \/ path.plan.exact \/ path.plan.source.kind = "float")
    BY <2>3, <2>4 DEF Sound
  <2>6. Target(path.plan).sample # "unreadable"
    BY <2>4 DEF Sound, Target, Formats
  <2>7. hw = Target(path.plan)
    BY <2>1, <2>3, <2>6 DEF Unreadable
  <2>. QED  BY <2>1, <2>2, <2>5, <2>7 DEF BitExact, Unity
<1>. QED  BY <1>1, PathInvariant, PTL

\* The transforms of every plan the engine makes say that something is lost
\* exactly when the formats on both ends say so.
THEOREM LossStaysReported == PathSpec => []LossIsReported
<1>1. IInv => LossIsReported
  BY DEF IInv, SoundPlan, Sound, LossIsReported, Accepted
<1>. QED  BY <1>1, PathInvariant, PTL

\* No plan of the Strict mode changes a sample.
THEOREM StrictPlansAreExact == PathSpec => []StrictKeepsSource
<1>1. IInv => StrictKeepsSource
  BY DEF IInv, SoundPlan, Sound, StrictKeepsSource, Accepted
<1>. QED  BY <1>1, PathInvariant, PTL

=============================================================================
