------------------------------ MODULE Planner ------------------------------
(***************************************************************************)
(* The path planner (audio/path/plan.rs): from the format of a source, the *)
(* capabilities of a device and the options of a mode, the conversions the *)
(* samples go through and the format they reach the device in.  Every      *)
(* function of the planner is pure and so is every operator here.          *)
(*                                                                         *)
(* A source is [kind, bits, rate, channels]: "pcm" of 16, 24 or 32 bits,   *)
(* "float" of 32 or 64 bits, or "dsd", whose rate is the bit rate of the   *)
(* DSD stream.  Capabilities are [access, rates, channels, formats].  The  *)
(* transforms of a plan are the set of their kinds: why each was made, the *)
(* words that describe it and what the player recommends are left out.     *)
(***************************************************************************)
EXTENDS Integers, FiniteSets

Formats == {"S16", "S24_3", "S24", "S32", "F32"}

(* What a decoder may report of a track.                                   *)
SourceFormats ==
  [kind : {"pcm"}, bits : 1 .. 32, rate : Nat, channels : Nat \ {0}]
  \cup [kind : {"float"}, bits : {32, 64}, rate : Nat, channels : Nat \ {0}]
  \cup [kind : {"dsd"}, bits : {1}, rate : Nat, channels : Nat \ {0}]

FieldBits(f) == IF f = "S16" THEN 16 ELSE IF f = "S32" THEN 32 ELSE 24

Position(f) == CASE f = "S16" -> 1 [] f = "S24_3" -> 2 [] f = "S24" -> 3 [] OTHER -> 4

Narrowest(fs) == CHOOSE f \in fs : \A g \in fs : Position(f) <= Position(g)

Widest(fs) == CHOOSE f \in fs : \A g \in fs : Position(g) <= Position(f)

IntFormats(caps) == caps.formats \ {"F32"}

NaturalFormat(src) ==
  CASE src.kind = "float" -> "F32"
    [] src.kind = "dsd"   -> "S32"
    [] OTHER -> IF src.bits <= 16 THEN "S16" ELSE IF src.bits <= 24 THEN "S24" ELSE "S32"

StandardRates == {44100, 48000, 88200, 96000, 176400, 192000, 352800, 384000, 705600, 768000}

HasRate(caps, r) ==
  IF caps.rates.kind = "range" THEN caps.rates.min <= r /\ r <= caps.rates.max
                               ELSE r \in caps.rates.set

Candidates(caps) ==
  IF caps.rates.kind = "range" THEN {r \in StandardRates : HasRate(caps, r)} ELSE caps.rates.set

Family(r) == IF r % 11025 = 0 THEN "44k1" ELSE IF r % 8000 = 0 THEN "48k" ELSE "other"

Highest(S) == CHOOSE r \in S : \A q \in S : q <= r
Lowest(S)  == CHOOSE r \in S : \A q \in S : r <= q

Distance(r, f) == IF r < f THEN f - r ELSE r - f

Nearest(S, f) ==
  Highest({r \in S : \A q \in S : Distance(r, f) <= Distance(q, f)})

SameFamily(S, f) ==
  LET same == {r \in S : Family(r) = Family(f)}
      below == {r \in same : r <= f}
  IN  IF below # {} THEN Highest(below) ELSE IF same # {} THEN Lowest(same) ELSE Nearest(S, f)

NoDownsample(S, f) ==
  LET above == {r \in S : r >= f} IN IF above # {} THEN Lowest(above) ELSE Highest(S)

ApplyRule(rule, S, f) ==
  CASE rule = "sameFamily"   -> SameFamily(S, f)
    [] rule = "nearest"      -> Nearest(S, f)
    [] rule = "noDownsample" -> NoDownsample(S, f)

Clamp(caps, f) ==
  IF f < caps.rates.min THEN caps.rates.min ELSE IF f > caps.rates.max THEN caps.rates.max ELSE f

(* What the rule is left with: no candidate inside a range is the range's  *)
(* nearest end, no candidate of a list is no rate at all.                  *)
NoRate(caps) == caps.rates.kind = "discrete" /\ caps.rates.set = {}

FallbackRate(caps, rule, f) ==
  IF Candidates(caps) # {} THEN ApplyRule(rule, Candidates(caps), f) ELSE Clamp(caps, f)

-----------------------------------------------------------------------------
(***************************************************************************)
(* The draft the steps fill in.  A step that blocks the plan writes its    *)
(* reason and the steps after it are not made.                             *)
(***************************************************************************)
Draft(src, mode) ==
  [mode |-> mode, source |-> src, route |-> "pcm", kinds |-> {}, rate |-> src.rate,
   sample |-> NaturalFormat(src), channels |-> src.channels,
   exact |-> FALSE, bits |-> 0, reason |-> "none"]

Add(d, kinds) == [d EXCEPT !.kinds = @ \cup kinds]

Blocked(d, why) == [d EXCEPT !.reason = why]

DopRate(src) == src.rate \div 16

DopFormats(src, caps) ==
  IF caps.access = "exclusive" /\ src.channels \in caps.channels /\ HasRate(caps, DopRate(src))
  THEN caps.formats \cap {"S24_3", "S24", "S32"}
  ELSE {}

Dsd64 == 2822400

DsdPcmRate(src, caps, filter) ==
  LET base  == IF src.rate = Dsd64 /\ filter # 50 THEN 88200 ELSE 176400
      whole == {r \in {base, base \div 2, base \div 4} : HasRate(caps, r)}
      kin   == {r \in Candidates(caps) : Family(r) = "44k1" /\ r < base}
  IN  CASE whole # {} -> Highest(whole)
        [] whole = {} /\ kin # {} -> Highest(kin)
        [] whole = {} /\ kin = {} /\ Candidates(caps) # {} -> Highest(Candidates(caps))
        [] OTHER -> base

StepRoute(d, caps, pol, dop) ==
  LET src  == d.source
      fits == dop /\ DopFormats(src, caps) # {}
  IN  CASE src.kind # "dsd" -> d
        [] src.kind = "dsd" /\ d.mode # "Compatible" /\ fits ->
             Add([d EXCEPT !.route = "dop", !.rate = DopRate(src),
                           !.sample = Narrowest(DopFormats(src, caps))], {"DopPack"})
        [] src.kind = "dsd" /\ d.mode = "Strict" /\ ~fits ->
             Blocked(d, IF dop THEN "DopUnsupported" ELSE "DopDisabled")
        [] OTHER ->
             Add([d EXCEPT !.route = "dsdToPcm", !.rate = DsdPcmRate(src, caps, pol.dsdFilter)],
                 {"DsdToPcm"})

StepChannels(d, caps) ==
  LET n     == d.source.channels
      C     == caps.channels
      fewer == {c \in C : c < n}
  IN  CASE C = {} \/ n \in C -> d
        [] C # {} /\ n \notin C /\ n = 1 ->
             IF 2 \in C
             THEN Add([d EXCEPT !.channels = 2], {"MonoToStereo"})
             ELSE Add([d EXCEPT !.channels = Lowest(C)], {"MonoToStereo", "ChannelPad"})
        [] n \notin C /\ n # 1 /\ fewer # {} ->
             IF d.mode = "Strict" THEN Blocked(d, "ChannelsUnsupported")
             ELSE Add([d EXCEPT !.channels = Highest(fewer)], {"Downmix"})
        [] OTHER -> Add([d EXCEPT !.channels = Lowest(C)], {"ChannelPad"})

\* Mutant: the rate is changed and the conversion is not written down.
ConvertUnsaid(d, to) == [d EXCEPT !.rate = to]

Convert(d, to) ==
  Add([d EXCEPT !.rate = to], IF to = d.rate THEN {} ELSE {"Resample"})

(* The rate of the draft is the source's, or the one DSD was turned into.  *)
StepRate(d, caps, pol) ==
  LET wanted == IF pol.fixedRate = 0 THEN d.rate ELSE pol.fixedRate
  IN  CASE d.mode = "Compatible" /\ HasRate(caps, wanted) -> Convert(d, wanted)
        [] d.mode = "Compatible" /\ ~HasRate(caps, wanted) ->
             IF NoRate(caps) THEN Blocked(d, "RateUnsupported")
             ELSE Convert(d, FallbackRate(caps, "sameFamily", wanted))
        [] d.mode # "Compatible" /\ HasRate(caps, d.rate) -> d
        [] d.mode = "Optimal" /\ ~HasRate(caps, d.rate) ->
             IF NoRate(caps) THEN Blocked(d, "RateUnsupported")
             ELSE Convert(d, FallbackRate(caps, pol.rateFallback, d.rate))
        [] OTHER -> Blocked(d, "RateUnsupported")

F32Payload(d) ==
  /\ d.route # "dop"
  /\ \/ d.kinds \cap {"Resample", "Downmix", "DsdToPcm"} # {}
     \/ d.route = "dsdToPcm"
     \/ d.source.kind # "pcm"

FloatConversion(d) ==
  CASE d.source.kind = "float" -> IF d.source.bits = 64 THEN {"FloatNarrow"} ELSE {}
    [] d.source.kind = "pcm" /\ ~F32Payload(d) ->
         IF d.source.bits <= 24 THEN {"IntToFloat"} ELSE {"Int32ToFloat"}
    [] OTHER -> {}

\* Mutant: 32-bit integers go to a device of floats in every mode.
FloatOnlyAnyMode(d) == Add([d EXCEPT !.sample = "F32"], FloatConversion(d))

(* A device without integer formats.                                       *)
FloatOnlyFormat(d) ==
  IF d.mode = "Strict" /\ "Int32ToFloat" \in FloatConversion(d)
  THEN Blocked(d, "TruncationForbidden")
  ELSE Add([d EXCEPT !.sample = "F32"], FloatConversion(d))

(* What a payload of floats costs at the widest integer format w.          *)
Quantised(src, w) ==
  CASE src.kind = "float" -> {"FloatToInt"}
    [] src.kind = "pcm"   -> IF src.bits > FieldBits(w) THEN {"Truncate"} ELSE {}
    [] OTHER -> {}

ExclusiveFormat(d, caps) ==
  LET ints   == IntFormats(caps)
      enough == {f \in ints : FieldBits(f) >= d.source.bits}
      fit    == Narrowest(enough)
  IN  CASE ints = {} -> FloatOnlyFormat(d)
        [] ints # {} /\ F32Payload(d) ->
             Add([d EXCEPT !.sample = Widest(ints)], Quantised(d.source, Widest(ints)))
        [] ints # {} /\ ~F32Payload(d) /\ enough # {} ->
             Add([d EXCEPT !.sample = fit],
                 IF FieldBits(fit) > d.source.bits THEN {"ZeroPad"} ELSE {})
        [] OTHER ->
             IF d.mode = "Strict" THEN Blocked(d, "TruncationForbidden")
             ELSE Add([d EXCEPT !.sample = Widest(ints)], {"Truncate"})

StepSampleFormat(d, caps) ==
  CASE d.mode = "Strict" /\ d.source.kind = "float" -> Blocked(d, "FloatUnsupported")
    [] ~(d.mode = "Strict" /\ d.source.kind = "float") /\ caps.formats = {} ->
         [d EXCEPT !.sample = NaturalFormat(d.source)]
    [] d.mode = "Compatible" /\ "F32" \in caps.formats ->
         Add([d EXCEPT !.sample = "F32"], FloatConversion(d))
    [] OTHER -> ExclusiveFormat(d, caps)

StepRing(d) ==
  CASE d.route = "dop" -> [d EXCEPT !.exact = TRUE, !.bits = 24]
    [] d.route # "dop" /\ d.source.kind = "pcm" /\ ~F32Payload(d) ->
         [d EXCEPT !.exact = TRUE, !.bits = d.source.bits]
    [] OTHER -> [d EXCEPT !.exact = FALSE, !.bits = 0]

Then(d, next) == IF d.reason = "none" THEN next ELSE d

PlanWithDevice(src, caps, pol, dop) ==
  LET d1 == StepRoute(Draft(src, pol.mode), caps, pol, dop)
      d2 == Then(d1, StepChannels(d1, caps))
      d3 == Then(d2, StepRate(d2, caps, pol))
      d4 == Then(d3, StepSampleFormat(d3, caps))
      d5 == IF d1.route = "dop" THEN d1 ELSE d4
  IN  Then(d5, StepRing(d5))

-----------------------------------------------------------------------------
(***************************************************************************)
(* Volume, mute and dither on top of a plan, and the badge.                *)
(* A gain is "unity", "scaled" (a volume other than 100 %) or "muted".     *)
(***************************************************************************)
GainKinds == {"Volume", "Mute", "SilenceGate", "Dither"}

Requantizes(p) ==
  \/ p.sample # "F32" /\ (~p.exact \/ "Volume" \in p.kinds)
  \/ "Truncate" \in p.kinds

HasGainStage(p, pol) ==
  /\ p.route # "dop"
  /\ pol.mode # "Strict"
  /\ ~(pol.mode = "Optimal" /\ pol.volumeLock)

WithGain(p, gain, pol) ==
  LET base == [p EXCEPT !.kinds = @ \ GainKinds]
      step == CASE gain = "muted"  -> IF HasGainStage(p, pol) THEN {"Mute"} ELSE {"SilenceGate"}
                [] gain = "scaled" -> IF HasGainStage(p, pol) THEN {"Volume"} ELSE {}
                [] OTHER -> {}
      next == Add(base, step)
  IN  IF gain # "muted" /\ pol.mode # "Strict" /\ pol.dither /\ Requantizes(next)
      THEN Add(next, {"Dither"}) ELSE next

Lossless == {"ZeroPad", "MonoToStereo", "ChannelPad", "IntToFloat", "DopPack", "SilenceGate"}

Lossy(p) == p.kinds \ Lossless

Target(p) == [rate |-> p.rate, sample |-> p.sample, channels |-> p.channels]

(* The badge: driver is the format the driver reported, Unreadable when it *)
(* reported none (a shared stream never does).                             *)
Unreadable == [rate |-> 0, sample |-> "unreadable", channels |-> 0]

\* Mutant: what the driver took is not compared with what it was asked for.
VerdictOfPlan(p, gain, access, driver) ==
  LET reasons == Lossy(p) # {} \/ gain # "unity"
  IN  CASE access = "shared"    -> IF reasons THEN "SharedNotBitPerfect" ELSE "Clean"
        [] access = "exclusive" ->
             IF gain = "muted" THEN "Muted" ELSE IF reasons THEN "NotBitPerfect" ELSE "BitPerfect"

Verdict(p, gain, access, driver) ==
  LET reasons == Lossy(p) # {} \/ gain # "unity"
  IN  CASE access = "shared"    -> IF reasons THEN "SharedNotBitPerfect" ELSE "Clean"
        [] access = "exclusive" ->
             IF gain = "muted" THEN "Muted"
             ELSE IF ~reasons /\ driver = Target(p) THEN "BitPerfect" ELSE "NotBitPerfect"

-----------------------------------------------------------------------------
(***************************************************************************)
(* What a plan does to the samples, read off the formats alone and not off *)
(* the transforms the planner wrote down.                                  *)
(***************************************************************************)
(* The format the samples leave in can hold every sample of the source.    *)
CarriesSource(p) ==
  LET src == p.source
  IN  /\ p.route # "dsdToPcm"
      /\ p.route = "pcm" =>
           /\ p.rate = src.rate
           /\ IF src.kind = "pcm" THEN FieldBits(p.sample) >= src.bits
                                  ELSE p.sample = "F32" /\ src.bits = 32
      /\ p.channels >= src.channels

Accepted(p) == p.reason = "none"
=============================================================================
