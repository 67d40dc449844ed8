------------------------------ MODULE StateFile -----------------------------
(***************************************************************************)
(* persist/state_file.rs: the keys of state.toml, the text read and        *)
(* written, and SessionState::apply, the one place that changes the state. *)
(*                                                                         *)
(* A SessionState is a function from the paths of its keys, None where     *)
(* nothing is known.  A place or a size of the window is there as a pair   *)
(* or not at all.                                                          *)
(***************************************************************************)
EXTENDS Keys

CONSTANTS Paths,      \* the paths there are: path -> "relative", "text", "bytes"
          MaxI32      \* the greatest i32 there is

Active == <<"playback", "active">>
Volume(mode) == <<"playback", mode, "volume">>
Muted(mode) == <<"playback", mode, "muted">>
Width(c) == <<"columns", "widths", c>>
SortColumn == <<"sort", "column">>
SortDirection == <<"sort", "direction">>
Window(k) == <<"window", k>>
VisMode == <<"visualization", "mode">>
Repeat == <<"repeat">>
Shuffle == <<"shuffle">>
LastDir == <<"last_dir">>

-----------------------------------------------------------------------------
(* The table of keys                                                        *)

AudioMode ==
  word([compatible |-> "Compatible", optimal |-> "Optimal", strict |-> "Strict"],
       [Compatible |-> "compatible", Optimal |-> "optimal", Strict |-> "strict"])
modeName == AudioMode.written

volume_spec == Key(integer(within(0, 100)), 100)

playback_specs ==
  Single(Active, Key(AudioMode, "Compatible"))
  ++ [path \in {Volume("compatible"), Volume("optimal")} |-> volume_spec]
  ++ [path \in {Muted(m) : m \in {"compatible", "optimal", "strict"}} |-> Key(flag, FALSE)]

column_width_specs ==
  [path \in {Width(c) : c \in Range(Columns)} |-> Optional(number(within(1, 10000)), None)]

Direction == word([asc |-> "Asc", desc |-> "Desc"], [Asc |-> "asc", Desc |-> "desc"])

sort_specs ==
  Single(SortColumn, Optional(derived(Range(Columns) \ {"now_playing"}), None))
  ++ Single(SortDirection, Optional(Direction, None))

window_units_spec ==
  Key(word([physical |-> "Physical", logical |-> "Logical"],
           [Physical |-> "physical", Logical |-> "logical"]), "Physical")

I32 == -MaxI32 - 1..MaxI32

windowKeys ==
  [x |-> Optional(integer(I32), None), y |-> Optional(integer(I32), None),
   width |-> Optional(integer(Nat \ {0}), None), height |-> Optional(integer(Nat \ {0}), None),
   maximized |-> Key(flag, FALSE), fullscreen |-> Key(flag, FALSE),
   units |-> window_units_spec]

window_specs == Section(<<"window">>, windowKeys)

VisualizationMode == derived({"off", "oscilloscope", "spectrogram", "spectrum"})

repeat_spec ==
  Key(word([off |-> "Off", all |-> "All", one |-> "One"],
           [Off |-> "off", All |-> "all", One |-> "one"]), "Off")

\* An absolute path; a string is always text.
last_dir_spec ==
  Optional(name({p \in DOMAIN Paths : Paths[p] = "relative"}), None)

\* The names of the tables and the keys, and the words, are strings.
ASSUME StateFileAssumption ==
  /\ MaxI32 \in Nat
  /\ {"playback", "active", "volume", "muted", "compatible", "optimal", "strict", "columns", "widths",
      "sort", "column", "direction", "window", "visualization", "mode", "repeat", "shuffle",
      "last_dir"} \cup DOMAIN windowKeys \subseteq Strings
  /\ \A kind \in {AudioMode, Direction, window_units_spec.kind, VisualizationMode, repeat_spec.kind} :
       DOMAIN kind.read \cup DOMAIN kind.written \subseteq Strings

state_spec ==
  playback_specs ++ column_width_specs ++ sort_specs ++ window_specs
  ++ Single(VisMode, Key(VisualizationMode, "off"))
  ++ Single(Repeat, repeat_spec) ++ Single(Shuffle, Key(flag, FALSE))
  ++ Single(LastDir, last_dir_spec)

default_state == [path \in DOMAIN state_spec |-> state_spec[path].default]

-----------------------------------------------------------------------------
(* The text                                                                 *)

\* Of two keys that go together one alone is dropped.
Alone(value, one, other) ==
  {path \in {one, other} : value[path] # None /\ None \in {value[one], value[other]}}

Dropped(value, paths) ==
  [path \in DOMAIN value |-> IF path \in paths THEN None ELSE value[path]]

\* Mutant: of a sort key that is not whole nothing is said.
SortDroppedSilently(loaded) ==
  [loaded EXCEPT !.value = Dropped(@, Alone(@, SortColumn, SortDirection))]

adjust_sort_pair(loaded) ==
  LET alone == Alone(loaded.value, SortColumn, SortDirection)
  IN [value |-> Dropped(loaded.value, alone),
      notes |-> loaded.notes \cup {Note(path, "invalid") : path \in alone}]

\* The window says nothing of it.
adjust_window_geometry(loaded) ==
  [loaded EXCEPT !.value = Dropped(@, Alone(@, Window("x"), Window("y"))
                                      \cup Alone(@, Window("width"), Window("height")))]

parse_state(file) ==
  IF file.read = "Parsed"
  THEN adjust_window_geometry(adjust_sort_pair(walk(file.doc, state_spec, default_state)))
  ELSE [value |-> default_state, notes |-> {}]

\* A directory whose name is no text is left out.
serialize_state(state) ==
  LET dir == state[LastDir]
      unsaid == {LastDir : p \in {q \in DOMAIN Paths : Paths[q] = "bytes" /\ dir = q}}
  IN [read |-> "Parsed", doc |-> Written(state_spec, Dropped(state, unsaid))]

-----------------------------------------------------------------------------
(* SessionState::apply, an operator for each StateChange                    *)

Change(state, path, x) == [state EXCEPT ![path] = x]

\* The Strict mode has no volume.
ChangeVolume(state, v) ==
  IF state[Active] = "Strict" THEN state
  ELSE Change(state, Volume(modeName[state[Active]]), IF v > 100 THEN 100 ELSE v)

ChangeMuted(state, m) == Change(state, Muted(modeName[state[Active]]), m)

ChangeColumnWidths(state, widths) ==
  [path \in DOMAIN state |->
     IF ~IsPrefix(<<"columns", "widths">>, path) THEN state[path]
     ELSE IF path[3] \in DOMAIN widths THEN widths[path[3]] ELSE None]

\* A sort key is a column with a direction, or None.
ChangeSort(state, key) ==
  [state EXCEPT ![SortColumn] = IF key = None THEN None ELSE key[1],
                ![SortDirection] = IF key = None THEN None ELSE key[2]]

\* A geometry: the values of the keys of the window.
ChangeWindow(state, geometry) ==
  [path \in DOMAIN state |->
     IF path[1] = "window" THEN geometry[path[2]] ELSE state[path]]

-----------------------------------------------------------------------------
(* What the player reads of it                                              *)

\* LegacyPlaybackState of the active mode.
playback(state) ==
  [volume |-> IF state[Active] = "Strict" THEN 100 ELSE state[Volume(modeName[state[Active]])],
   muted |-> state[Muted(modeName[state[Active]])]]
=============================================================================
