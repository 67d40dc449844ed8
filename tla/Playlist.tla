------------------------------ MODULE Playlist ------------------------------
(***************************************************************************)
(* The playlist (playlist/model.rs), its Shuffle pass (playlist/           *)
(* shuffle.rs) and the operations AppCore makes of them (core/mod.rs).     *)
(* The rows have a source order, saved in playlist.m3u, and a visible      *)
(* order, the rows sorted by the key of the header.  Positions start at 1. *)
(***************************************************************************)
EXTENDS Integers, Sequences, FiniteSets, SequencesExt

CONSTANTS Columns,    \* the columns of the table that sort
          TrackKeys   \* the keys of a track: per column, the field of the
                      \* column and those that decide between equals

None == -1

\* A field is a number or blank; a column always has the same fields.
ASSUME KeysAssumption ==
  /\ TrackKeys \subseteq [Columns -> Seq(Nat \cup {None})]
  /\ \A k, l \in TrackKeys, c \in Columns : Len(k[c]) = Len(l[c])

VARIABLES
  rows,         \* the ids of the rows in source order
  visible,      \* the same ids in visible order
  sort,         \* <<column, direction>>, or <<>>
  keys,         \* the compare keys of every row
  nextId,       \* ids are never used again
  shuffle,      \* SessionState.shuffle
  repeat,       \* SessionState.repeat
  history,      \* ShuffleState: played in this pass
  passCurrent,  \* ShuffleState.current
  upcoming,     \* ShuffleState: not yet played, in random order
  stale,        \* for the properties: tags changed since the last sorting
  taken         \* for the properties: ids handed out in this pass

tableVars == <<rows, visible, sort, keys, nextId, stale>>
passVars == <<history, passCurrent, upcoming, taken>>
playlistVars == <<tableVars, passVars, shuffle, repeat>>

PosIn(s, id) == CHOOSE i \in DOMAIN s : s[i] = id

\* index_of.
IndexOf(s, id) == IF id \in ToSet(s) THEN PosIn(s, id) ELSE None

\* A table after a change: its rows, their keys and the sort key.
Table(r, k, s) == [rows |-> r, keys |-> k, sort |-> s]

\* cmp_field gives Less.  A blank comes last in both directions.
FieldLess(x, y, dir) == /\ x # None
                        /\ \/ y = None
                           \/ dir = "asc" /\ x < y
                           \/ dir = "desc" /\ x > y

\* compare_keys gives Less.  The direction is that of the first field.
KeyLess(t, a, b) ==
  LET x == t.keys[a][t.sort[1]]
      y == t.keys[b][t.sort[1]]
  IN \E i \in DOMAIN x :
       /\ \A j \in 1 .. i - 1 : x[j] = y[j]
       /\ FieldLess(x[i], y[i], IF i = 1 THEN t.sort[2] ELSE "asc")

\* Mutant: rows with equal keys in any order.
AfterUnstable(t, a, b) == KeyLess(t, b, a)

\* cmp_ids gives Greater: by key, then by position in the source order.
After(t, a, b) ==
  \/ KeyLess(t, b, a)
  \/ ~KeyLess(t, a, b) /\ PosIn(t.rows, a) > PosIn(t.rows, b)

\* resort: the source order, sorted by the key.
Resorted(t) ==
  IF t.sort = <<>> THEN t.rows
  ELSE CHOOSE v \in SetToSeqs(ToSet(t.rows)) :
         \A i, j \in DOMAIN v : i < j => ~After(t, v[i], v[j])

\* retain: what is in S, in the order of s.
Only(s, S) ==
  LET kept[n \in 0 .. Len(s)] ==
        IF n = 0 THEN <<>>
        ELSE IF s[n] \in S THEN Append(kept[n - 1], s[n])
        ELSE kept[n - 1]
  IN kept[Len(s)]

Without(s, id) == Only(s, ToSet(s) \ {id})

-----------------------------------------------------------------------------
\* The Shuffle pass.

\* new_pass over the visible order v.
NewPass(v) == /\ history' = <<>>
              /\ passCurrent' = None
              /\ upcoming' \in SetToSeqs(ToSet(v))
              /\ taken' = {}

\* Mutant: only upcoming is known, so what was played comes again.
RebuildForgetful(v) ==
  /\ history' = Only(history, ToSet(v))
  /\ passCurrent' = IF passCurrent \in ToSet(v) THEN passCurrent ELSE None
  /\ upcoming' \in SetToSeqs(ToSet(v) \ {passCurrent'})
  /\ UNCHANGED taken

\* rebuild: rows that are gone leave the pass, new ones are not yet played.
Rebuild(v) ==
  LET kept == ToSet(upcoming) \cap ToSet(v)
      known == ToSet(history') \cup {passCurrent'} \cup kept
  IN /\ history' = Only(history, ToSet(v))
     /\ passCurrent' = IF passCurrent \in ToSet(v) THEN passCurrent ELSE None
     /\ upcoming' \in SetToSeqs(kept \cup (ToSet(v) \ known))
     /\ UNCHANGED taken

\* Mutant: the track that was playing is forgotten, not played.
StartedDroppingCurrent(h, u, id) ==
  /\ history' = Without(h, id)
  /\ upcoming' = Without(u, id)
  /\ passCurrent' = id

\* started, on a pass with history h and upcoming u.
Started(h, u, id) ==
  IF passCurrent = id
  THEN history' = h /\ upcoming' = u /\ UNCHANGED passCurrent
  ELSE /\ history' = Without(IF passCurrent = None THEN h
                                                   ELSE Append(h, passCurrent),
                             id)
       /\ upcoming' = Without(u, id)
       /\ passCurrent' = id

\* shuffle_first, then shuffle_started for the track it gives, id (None: no
\* track).  When nothing is left Repeat All begins a new pass.
TakeNext(id) ==
  \/ /\ upcoming # <<>>
     /\ id = Head(upcoming)
     /\ Started(history, upcoming, id)
     /\ taken' = taken \cup {id}
  \/ /\ upcoming = <<>>
     /\ repeat = "all"
     /\ \E u \in SetToSeqs(ToSet(visible) \ {passCurrent}) :
          /\ id = IF u = <<>> THEN None ELSE Head(u)
          /\ IF u = <<>> THEN history' = <<>> /\ UNCHANGED <<passCurrent, upcoming>>
                         ELSE Started(<<>>, u, id)
     /\ taken' = {id} \ {None}
  \/ /\ upcoming = <<>>
     /\ repeat # "all"
     /\ id = None
     /\ UNCHANGED passVars

\* back: the last track of the history, None when there is none.
TakeBack(id) ==
  IF history = <<>> THEN id = None /\ UNCHANGED passVars
  ELSE /\ id = Last(history)
       /\ history' = Front(history)
       /\ passCurrent' = id
       /\ upcoming' = IF passCurrent = None THEN upcoming
                                            ELSE <<passCurrent>> \o upcoming
       /\ taken' = taken \ {passCurrent}

-----------------------------------------------------------------------------
\* The operations of AppCore on the playlist.

\* apply_playlist_effect with order_changed.
OrderChanged == IF shuffle THEN Rebuild(visible') ELSE UNCHANGED passVars

\* The rows and the visible order become those of table t and order v.
Show(t, v) == /\ rows' = t.rows
              /\ keys' = t.keys
              /\ sort' = t.sort
              /\ visible' = v

NewKeys(k) == [i \in ToSet(rows) \cup {nextId} |->
                 IF i = nextId THEN k ELSE keys[i]]

\* Mutant: the new row always comes last.
AddLast(k) == /\ Show(Table(Append(rows, nextId), NewKeys(k), sort),
                      Append(visible, nextId))
              /\ nextId' = nextId + 1
              /\ UNCHANGED stale
              /\ OrderChanged

\* playlist_add of one track: at the end of the source order, in the visible
\* one before the first row that comes after it (partition_point; any such
\* boundary when changed tags have left the order unsorted).
Add(k) ==
  LET t == Table(Append(rows, nextId), NewKeys(k), sort)
      Boundary(i) == IF sort = <<>> THEN i = Len(visible) + 1
                     ELSE /\ i > 1 => ~After(t, visible[i - 1], nextId)
                          /\ i <= Len(visible) => After(t, visible[i], nextId)
  IN /\ \E i \in 1 .. Len(visible) + 1 :
          Boundary(i) /\ Show(t, InsertAt(visible, i, nextId))
     /\ nextId' = nextId + 1
     /\ UNCHANGED stale
     /\ OrderChanged

\* playlist_remove of one row.
Remove1(id) ==
  /\ id \in ToSet(rows)
  /\ Show(Table(Without(rows, id), [i \in ToSet(rows) \ {id} |-> keys[i]], sort),
          Without(visible, id))
  /\ UNCHANGED <<nextId, stale>>
  /\ OrderChanged

\* playlist_clear: the sort key stays.
Clear == IF rows = <<>> THEN UNCHANGED <<tableVars, passVars>>
         ELSE /\ Show(Table(<<>>, <<>>, sort), <<>>)
              /\ UNCHANGED <<nextId, stale>>
              /\ OrderChanged

\* Mutant: the third click keeps the order of the second.
HeaderClickKeepsOrder(c) ==
  LET s == IF sort = <<c, "asc">> THEN <<c, "desc">>
           ELSE IF sort = <<c, "desc">> THEN <<>>
           ELSE <<c, "asc">>
  IN /\ Show(Table(rows, keys, s),
             IF s = <<>> THEN visible ELSE Resorted(Table(rows, keys, s)))
     /\ stale' = FALSE
     /\ UNCHANGED nextId
     /\ OrderChanged

\* playlist_header_click on a visible column: up, down, no key.
HeaderClick(c) ==
  LET s == IF sort = <<c, "asc">> THEN <<c, "desc">>
           ELSE IF sort = <<c, "desc">> THEN <<>>
           ELSE <<c, "asc">>
  IN /\ Show(Table(rows, keys, s), Resorted(Table(rows, keys, s)))
     /\ stale' = FALSE
     /\ UNCHANGED nextId
     /\ OrderChanged

\* playlist_reorder: the rows of S, in their visible order, before row b or,
\* when b moves itself or is not there, at the end.  What is seen becomes the
\* source order.
Reorder(S, b) ==
  LET others == Only(visible, ToSet(visible) \ S)
      i == IF b \in ToSet(others) THEN PosIn(others, b) ELSE Len(others) + 1
      v == SubSeq(others, 1, i - 1) \o Only(visible, S)
             \o SubSeq(others, i, Len(others))
  IN /\ S \cap ToSet(rows) # {}
     /\ Show(Table(v, keys, <<>>), v)
     /\ stale' = FALSE
     /\ UNCHANGED nextId
     /\ OrderChanged

\* playlist_update_tags: the visible order stays until the next sorting.
UpdateTags(id, k) ==
  /\ id \in ToSet(rows)
  /\ keys' = [keys EXCEPT ![id] = k]
  /\ stale' = (stale \/ k # keys[id])
  /\ UNCHANGED <<rows, visible, sort, nextId, passVars>>

\* Mutant: a loaded playlist leaves the pass of the one before.
ReplaceUnshuffled(ks) ==
  LET r == [i \in DOMAIN ks |-> nextId + i - 1]
      t == Table(r, [id \in ToSet(r) |-> ks[id - nextId + 1]], sort)
  IN /\ Show(t, Resorted(t))
     /\ nextId' = nextId + Len(ks)
     /\ stale' = FALSE
     /\ UNCHANGED passVars

\* playlist_replace by a loaded playlist, which the loader has sorted; ks are
\* the keys of its tracks.
Replace(ks) ==
  LET r == [i \in DOMAIN ks |-> nextId + i - 1]
      t == Table(r, [id \in ToSet(r) |-> ks[id - nextId + 1]], sort)
  IN /\ Show(t, Resorted(t))
     /\ nextId' = nextId + Len(ks)
     /\ stale' = FALSE
     /\ IF shuffle THEN NewPass(visible') ELSE UNCHANGED passVars

\* change_state(Shuffle): a pass begins when Shuffle goes on.
ToggleShuffle ==
  /\ shuffle' = ~shuffle
  /\ IF shuffle THEN UNCHANGED passVars ELSE NewPass(visible)
  /\ UNCHANGED <<tableVars, repeat>>

\* change_state(Repeat), in the order of the button.
CycleRepeat ==
  /\ repeat' = CASE repeat = "off" -> "all"
                 [] repeat = "all" -> "one"
                 [] repeat = "one" -> "off"
  /\ UNCHANGED <<tableVars, passVars, shuffle>>

PlaylistInit == /\ rows = <<>> /\ visible = <<>> /\ sort = <<>>
                /\ keys = <<>> /\ nextId = 0 /\ stale = FALSE
                /\ shuffle = FALSE /\ repeat = "off"
                /\ history = <<>> /\ passCurrent = None /\ upcoming = <<>>
                /\ taken = {}

\* Calls that leave SessionState.shuffle and repeat alone.
EditsTable ==
  /\ \/ \E k \in TrackKeys : Add(k)
     \/ \E id \in ToSet(rows) : Remove1(id)
     \/ Clear
     \/ \E c \in Columns : HeaderClick(c)
     \/ \E S \in SUBSET ToSet(rows), b \in ToSet(rows) \cup {None} : Reorder(S, b)
     \/ \E id \in ToSet(rows), k \in TrackKeys : UpdateTags(id, k)
     \/ \E ks \in Seq(TrackKeys) : Replace(ks)
  /\ UNCHANGED <<shuffle, repeat>>

\* "Next" and "Previous" while Shuffle is on.
MovesInPass ==
  /\ shuffle
  /\ \E id \in ToSet(visible) \cup {None} : TakeNext(id) \/ TakeBack(id)
  /\ UNCHANGED <<tableVars, shuffle, repeat>>

PlaylistNext == EditsTable \/ MovesInPass \/ ToggleShuffle \/ CycleRepeat

PlaylistSpec == PlaylistInit /\ [][PlaylistNext]_playlistVars

-----------------------------------------------------------------------------

\* What the table shows is what is saved: the visible order holds every row
\* once, it is the source order when no header is active, and otherwise that
\* order stably sorted, through any additions, removals, moves and loads, as
\* long as no tags have changed since it was sorted (I-R14).
ViewMatchesSource ==
  /\ Len(visible) = Len(rows) /\ ToSet(visible) = ToSet(rows)
  /\ Cardinality(ToSet(rows)) = Len(rows)
  /\ sort = <<>> => visible = rows
  /\ ~stale => visible = Resorted(Table(rows, keys, sort))

\* While Shuffle is on every row of the table is in exactly one place of the
\* pass: played, current or not yet played; a row in none is never played, a
\* row in two is played twice, an id that is no row leads "Next" nowhere.  And
\* what was handed out in this pass and not put back by "Previous" is not
\* ahead again, whatever was sorted, added, moved or removed since (I-R15).
PassIsPartition ==
  shuffle =>
    LET current == IF passCurrent = None THEN <<>> ELSE <<passCurrent>>
        pass == history \o current \o upcoming
    IN /\ Len(pass) = Len(visible) /\ ToSet(pass) = ToSet(visible)
       /\ taken \cap ToSet(upcoming) = {}
=============================================================================
