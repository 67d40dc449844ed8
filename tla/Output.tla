------------------------------- MODULE Output -------------------------------
(***************************************************************************)
(* The output of the Compatible mode (audio/output.rs): the devices the    *)
(* player offers, and the device, rate and channels that are chosen for a  *)
(* track.  engine/legacy_path.rs asks with one policy only (nearest rate,  *)
(* degrade rather than refuse), and so does the model.                     *)
(***************************************************************************)
EXTENDS Integers, FiniteSets

\* A device: [id, kind, channels, rate, ranges].  kind is what its id tells:
\* an alias of the audio server, bare hardware or another plugin.  channels
\* and rate are those of its default configuration; ranges are its
\* configurations, each [ch, min, max].

\* is_fixed_server_alias, and how collapse_to_system_default prefers them.
Aliases == [pipewire |-> 1, pulse |-> 2, default |-> 3]

Nothing == [id |-> "none", kind |-> "none"]

\* collapse_to_system_default of what cpal lists: its aliases become one entry,
\* the system default, and nothing else of it is offered.  Without an alias
\* what cpal calls the default stands in, unless that is bare hardware.
Collapse(listed, fallback) ==
  LET fixed == {d \in listed : d.kind \in DOMAIN Aliases}
  IN IF fixed # {}
     THEN CHOOSE d \in fixed : \A e \in fixed : Aliases[d.kind] <= Aliases[e.kind]
     ELSE IF fallback.kind = "hw" THEN Nothing ELSE fallback

\* supports_rate: by any configuration, whatever its channels.
SupportsRate(d, r) == \E c \in d.ranges : c.min <= r /\ r <= c.max

Distance(a, b) == IF a < b THEN b - a ELSE a - b

\* The rate of configuration c that is nearest to r.
Clamped(c, r) == IF r < c.min THEN c.min ELSE IF r > c.max THEN c.max ELSE r

\* nearest_rate among the configurations with ch channels, the lower of two
\* at the same distance; without any, the rate of the default configuration.
NearestRate(d, ch, r) ==
  LET rates == {Clamped(c, r) : c \in {x \in d.ranges : x.ch = ch}}
  IN IF rates = {} THEN d.rate
     ELSE CHOOSE q \in rates :
            \A s \in rates : \/ Distance(q, r) < Distance(s, r)
                             \/ Distance(q, r) = Distance(s, r) /\ q <= s

\* choose_output with the one device d there is to choose, for a track of rate
\* and channels; fixed is 0 or the rate every track is to be given.  Whatever
\* id was asked for, it is that of d or is not on the list.
ChooseOutput(d, rate, channels, fixed) ==
  LET ch == IF channels < d.channels THEN channels ELSE d.channels
      want == IF fixed # 0 THEN fixed ELSE rate
      out == IF SupportsRate(d, want) THEN want ELSE NearestRate(d, ch, want)
  IN [id |-> d.id, kind |-> d.kind, ch |-> ch, rate |-> out,
      reason |-> IF ~SupportsRate(d, want) THEN "rate"
                 ELSE IF ch # channels THEN "channels"
                 ELSE IF out # rate THEN "forced"
                 ELSE "none"]
=============================================================================
