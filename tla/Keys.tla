-------------------------------- MODULE Keys --------------------------------
(***************************************************************************)
(* persist/keys.rs: reading a TOML document key by key, with the leaf      *)
(* readers of persist/settings_file.rs and persist/state_file.rs.          *)
(*                                                                         *)
(* A document is a function from the paths of its leaves to raw values, a  *)
(* path a sequence of names.  A fraction is a number of hundredths.  What  *)
(* a key may hold is a record here and a closure in the code.              *)
(***************************************************************************)
EXTENDS Integers, Sequences, SequencesExt, Functions

CONSTANTS Strings,  \* the strings there are
          None,     \* no value: a key that is absent, an item that is no string
          Columns   \* ColumnId::ALL, a sequence of keys

\* The values of f, and those of g where f has none; and a value of one path.
f ++ g == [x \in DOMAIN f \cup DOMAIN g |-> IF x \in DOMAIN f THEN f[x] ELSE g[x]]
Single(path, x) == [p \in {path} |-> x]

-----------------------------------------------------------------------------
(* Raw values                                                               *)

Bool(b) == <<"boolean", b>>
Whole(n) == <<"integer", n>>
Real(h) == <<"float", h>>
Str(s) == <<"string", s>>
Array(items) == <<"array", items>>
Table == <<"table">>

Raws == ({"boolean"} \X BOOLEAN) \cup ({"integer", "float"} \X Int)
        \cup ({"string"} \X Strings) \cup ({"array"} \X Seq(Strings \cup {None}))

ASSUME KeysAssumption ==
  /\ None \notin BOOLEAN \cup Int \cup Strings \cup Seq(Strings) \cup Raws \cup {Table}
  /\ Columns \in Seq(Strings) /\ IsInjective(Columns)

\* KeyPath: what TOML keeps under a path.
lookup(doc, path) ==
  IF path \in DOMAIN doc THEN doc[path]
  ELSE IF \E p \in DOMAIN doc : IsStrictPrefix(path, p) THEN Table
  ELSE None

-----------------------------------------------------------------------------
(* What a key may hold.  A word is an enumeration with the table it is read *)
(* by and the table it is written by; the code that serde derives has one.  *)

flag == [type |-> "flag"]
text == [type |-> "text"]
name(refused) == [type |-> "name", refused |-> refused]
number(range) == [type |-> "number", range |-> range]
integer(range) == [type |-> "integer", range |-> range]
word(read, written) == [type |-> "word", read |-> read, written |-> written]
derived(words) == LET same == [w \in words |-> w] IN word(same, same)
texts == [type |-> "texts"]
order(all) == [type |-> "order", all |-> all]

\* lo..=hi of the source.
within(lo, hi) == lo..hi

\* The closure `read` of a KeySpec returns Ok.
Accepts(kind, raw) ==
  \/ kind.type = "flag" /\ raw[1] = "boolean"
  \/ kind.type = "text" /\ raw[1] = "string"
  \/ kind.type = "name" /\ raw[1] = "string" /\ raw[2] \notin kind.refused
  \/ kind.type = "number" /\ raw[1] = "float" /\ raw[2] \in kind.range
  \/ kind.type = "number" /\ raw[1] = "integer" /\ 100 * raw[2] \in kind.range
  \/ kind.type = "integer" /\ raw[1] = "integer" /\ raw[2] \in kind.range
  \/ kind.type = "word" /\ raw[1] = "string" /\ raw[2] \in DOMAIN kind.read
  \/ kind.type = "texts" /\ raw[1] = "array" /\ ~Contains(raw[2], None)
  \/ kind.type = "order" /\ raw[1] = "array"

\* The items of a list at some places, in their order.
Picked(list, places) ==
  LET kept[n \in 0..Len(list)] ==
        IF n = 0 THEN <<>>
        ELSE IF n \in places THEN Append(kept[n - 1], list[n]) ELSE kept[n - 1]
  IN kept[Len(list)]

Only(list, set) == Picked(list, {i \in DOMAIN list : list[i] \in set})

\* What it stores.  Of an order the unknown items are dropped.
Value(kind, raw) ==
  CASE kind.type = "number" /\ raw[1] = "integer" -> 100 * raw[2]
    [] kind.type = "word" -> kind.read[raw[2]]
    [] kind.type = "order" -> Only(raw[2], kind.all)
    [] OTHER -> raw[2]

\* The raw value the Serialize side writes for a stored one.
Raw(kind, value) ==
  CASE kind.type = "flag" -> Bool(value)
    [] kind.type = "number" -> Real(value)
    [] kind.type = "integer" -> Whole(value)
    [] kind.type = "word" -> Str(kind.written[value])
    [] kind.type \in {"texts", "order"} -> Array(value)
    [] OTHER -> Str(value)

-----------------------------------------------------------------------------
(* The table of keys and the walk over it                                   *)

Key(kind, default) == [kind |-> kind, default |-> default, optional |-> FALSE]
Optional(kind, default) == [kind |-> kind, default |-> default, optional |-> TRUE]

\* The keys of one table of the document, under their paths.
Section(prefix, keys) ==
  [path \in {Append(prefix, k) : k \in DOMAIN keys} |-> keys[Last(path)]]

Note(path, why) == [key |-> path, why |-> why]

\* fresh is T::default(), which an absent optional key leaves as it is.
walk(doc, spec, fresh) ==
  LET raw == [path \in DOMAIN spec |-> lookup(doc, path)]
      missing == {path \in DOMAIN spec : raw[path] = None}
      read == {path \in DOMAIN spec \ missing : Accepts(spec[path].kind, raw[path])}
      loud == {path \in missing : ~spec[path].optional}
  IN [value |-> [path \in DOMAIN spec |->
                   IF path \in read THEN Value(spec[path].kind, raw[path])
                   ELSE IF path \in missing \ loud THEN fresh[path]
                   ELSE spec[path].default],
      notes |-> {Note(path, "missing") : path \in loud}
                \cup {Note(path, "invalid") : path \in DOMAIN spec \ (missing \cup read)}
                \cup {Note(path, "unknown") : path \in DOMAIN doc \ DOMAIN spec}]

\* The keys of a value that has one are written, with the rest of the table.
Written(spec, value) ==
  [path \in {p \in DOMAIN spec : value[p] # None} |-> Raw(spec[path].kind, value[path])]
=============================================================================
