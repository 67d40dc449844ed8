------------------------------ MODULE Documents -----------------------------
(***************************************************************************)
(* settings.toml and state.toml over several runs of the program: what one *)
(* run saves the next one loads, after somebody may have changed the file  *)
(* by hand.  When and how a file is written is the subject of Persist and  *)
(* AtomicWrite; here a run that ends has written what it holds.            *)
(*                                                                         *)
(* A behaviour is about one file, and about one part of settings.toml: the *)
(* changes keep to it, the document is always the whole one.               *)
(***************************************************************************)
EXTENDS SettingsFile, StateFile

CONSTANTS
  MaxChanges,   \* bound: edits and damages in a behaviour
  Scopes,       \* the parts: "panel", "visualization", "playback", "state"
  Damages,      \* Damages[scope]: <<path, raw>> somebody may put, None to delete
  Themes,       \* names of themes there are directories for
  NameLists,    \* what may be typed as the names of cover files
  Chosen,       \* Chosen[mode]: what the list of devices gives, "" for none
  Buffers,      \* what the slider of the buffer is set to
  Geometries,   \* geometries of the window the tracker reports
  Dirs          \* directories a playlist is opened from

\* The list of the Compatible mode has the devices of the audio server, a file
\* dialog gives absolute paths, and a window has a place or a size or none.
ASSUME DocumentsAssumption ==
  /\ Damages \in [Scopes -> SUBSET (Seq(Strings) \X (Raws \cup {None}))]
  /\ Themes \subseteq Strings /\ NameLists \subseteq Seq(Strings)
  /\ Chosen \in [{"compatible", "optimal", "strict"} -> SUBSET Strings]
  /\ Chosen["compatible"] \subseteq Routed \cup {""}
  /\ Buffers \subseteq BufferMs.range
  /\ Geometries \subseteq
       {g \in [x : I32 \cup {None}, y : I32 \cup {None},
               width : (Nat \ {0}) \cup {None}, height : (Nat \ {0}) \cup {None},
               maximized : BOOLEAN, fullscreen : BOOLEAN, units : {"Physical", "Logical"}] :
          (g.x = None <=> g.y = None) /\ (g.width = None <=> g.height = None)}
  /\ Dirs \subseteq Strings /\ \A d \in Dirs : d \in DOMAIN Paths => Paths[d] # "relative"

VARIABLES
  scope,     \* the part this behaviour is about
  file,      \* the file
  phase,     \* "stopped", "loaded" when just started, "edited"
  memory,    \* the settings or the session state
  notes,     \* LoadNotes of the last start
  banned,    \* the file could not be read: it is not written without a command
  changes,   \* edits and damages so far
  kept,      \* history: the value the program saved last
  damaged    \* history: paths changed by hand since

vars == <<scope, file, phase, memory, notes, banned, changes, kept, damaged>>

State == scope = "state"
Defaults == IF State THEN default_state ELSE default_settings
Parse(f) == IF State THEN parse_state(f) ELSE parse_settings(f)
Serialize(value) == IF State THEN serialize_state(value) ELSE serialize_settings(value)

Init == /\ scope \in Scopes
        /\ file = NoFile /\ phase = "stopped"
        /\ memory = Defaults /\ notes = {} /\ banned = FALSE
        /\ changes = 0 /\ kept = Defaults /\ damaged = {}

-----------------------------------------------------------------------------
(* Runs of the program                                                      *)

\* boot: the file is read and parsed, or it cannot be read.
Start ==
  /\ phase = "stopped"
  /\ \E seen \in {file} \cup (IF file = NoFile THEN {} ELSE {Unreadable}) :
       /\ memory' = Parse(seen).value
       /\ notes' = Parse(seen).notes
       /\ banned' = (seen = Unreadable)
  /\ phase' = "loaded"
  /\ UNCHANGED <<scope, file, changes, kept, damaged>>

Stop ==
  /\ phase # "stopped"
  /\ phase' = "stopped"
  /\ IF banned THEN UNCHANGED <<file, kept, damaged>>
     ELSE file' = Serialize(memory) /\ kept' = memory /\ damaged' = {}
  /\ UNCHANGED <<scope, memory, notes, banned, changes>>

\* The button "save" writes settings.toml also when it could not be read.
Becomes(value) ==
  /\ phase # "stopped" /\ changes < MaxChanges
  /\ memory' = value /\ phase' = "edited" /\ changes' = changes + 1
  /\ banned' = (banned /\ State)
  /\ UNCHANGED <<scope, file, notes, kept, damaged>>

-----------------------------------------------------------------------------
(* The file changed by hand between two runs                                *)

\* A value under a path leaves none under a shorter or a longer one.
Put(doc, path, raw) ==
  LET others == {p \in DOMAIN doc : ~IsPrefix(p, path) /\ ~IsPrefix(path, p)}
  IN Restrict(doc, others) ++ (IF raw = None THEN <<>> ELSE Single(path, raw))

Damage ==
  /\ phase = "stopped" /\ file.read = "Parsed" /\ changes < MaxChanges
  /\ \E change \in Damages[scope] :
       /\ file' = Text(Put(file.doc, change[1], change[2]))
       /\ damaged' = damaged \cup {change[1]}
  /\ changes' = changes + 1
  /\ UNCHANGED <<scope, phase, memory, notes, banned, kept>>

Break ==
  /\ phase = "stopped" /\ file.read = "Parsed" /\ changes < MaxChanges
  /\ file' = NotToml
  /\ changes' = changes + 1
  /\ UNCHANGED <<scope, phase, memory, notes, banned, kept, damaged>>

-----------------------------------------------------------------------------
(* Edits of the panel, the list and the covers                              *)

SelectTheme == scope = "panel" /\ \E theme \in Themes : Becomes(select_theme(memory, theme))

SetSaveInterval ==
  scope = "panel" /\ \E n \in SAVE_INTERVALS : Becomes(Set(memory, <<"save_interval">>, n))

SetPanelNumber ==
  /\ scope = "panel"
  /\ \E path \in DOMAIN panelNumbers : \E x \in panelNumbers[path] : Becomes(Set(memory, path, x))

\* Check boxes and the visible columns.
Flags(spec) == {path \in DOMAIN spec : spec[path].kind = flag}

Toggle ==
  \E path \in IF scope = "panel" THEN Flags(panel_specs ++ column_specs)
              ELSE IF scope = "visualization" THEN Flags(visualization_specs) ELSE {} :
    Becomes(toggle(memory, path))

Move ==
  /\ scope = "panel"
  /\ \E key \in {<<"column_order">>, <<"cover_priority">>} : \E i \in 1..Len(memory[key]) :
       Becomes(move_up(memory, key, i)) \/ Becomes(move_down(memory, key, i))

EditFolderNames ==
  scope = "panel" /\ \E items \in NameLists : Becomes(edit_folder_names(memory, items))

-----------------------------------------------------------------------------
(* Edits of the visualization                                               *)

SetVizNumber ==
  /\ scope = "visualization"
  /\ \/ \E path \in DOMAIN vizNumbers : \E x \in {-5000, 50, 30000} :
          Becomes(edit_viz_number(memory, path, x))
     \/ \E path \in DOMAIN vizCounts : \E i \in {-1, 0, 600, 9000} :
          Becomes(edit_viz_count(memory, path, i))

SetVizWord ==
  /\ scope = "visualization"
  /\ \E path \in {p \in DOMAIN visualization_specs : visualization_specs[p].kind.type = "word"} :
       \E w \in DOMAIN visualization_specs[path].kind.written : Becomes(Set(memory, path, w))

SetFft ==
  /\ scope = "visualization"
  /\ \E i \in -1..5 : Becomes(Set(memory, Spectrogram("fft_size"), fft_from_index(i)))

ResetVizType ==
  /\ scope = "visualization"
  /\ \E type \in {"oscilloscope", "spectrogram", "spectrum"} : Becomes(reset_viz_type(memory, type))

CheckTexts ==
  /\ scope = "visualization"
  /\ \E fmin, fmax \in {None, 0, 20, 22050, 22051}, bands \in {None, 3, 4, 128} :
       Becomes(viz_apply_validated_texts(memory, fmin, fmax, bands))

-----------------------------------------------------------------------------
(* Edits of the three modes                                                 *)

\* The device list of the mode, and the automatic choice of the engine.
SelectDevice ==
  /\ scope = "playback"
  /\ \E mode \in DOMAIN Chosen : \E id \in Chosen[mode] : Becomes(set_device(memory, mode, id))

EditOption ==
  /\ scope = "playback"
  /\ \E path \in {p \in DOMAIN modeSpec : p[3] \notin {"device", "fixed_rate"}} :
       \E choice \in IF path[3] = "buffer" THEN Buffers ELSE Offered(path[2], path[3]) :
         Becomes(apply_edit(memory, path[2], path[3], choice))

EditDop ==
  /\ scope = "playback"
  /\ \E mode \in {"optimal", "strict"}, on \in BOOLEAN : Becomes(apply_device_dop(memory, mode, on))

-----------------------------------------------------------------------------
(* Changes of the session state, one action for each StateChange            *)

SetVolume == State /\ \E v \in {0, 100, 255} : Becomes(ChangeVolume(memory, v))
SetMuted == State /\ \E m \in BOOLEAN : Becomes(ChangeMuted(memory, m))
SetActiveMode == State /\ \E m \in DOMAIN modeName : Becomes(Change(memory, Active, m))
SetColumnWidths ==
  State /\ \E shown \in SUBSET Range(Columns) :
    Becomes(ChangeColumnWidths(memory, [c \in shown |-> 10000 \div Cardinality(shown)]))
SetSort ==
  /\ State
  /\ \/ \E c \in Range(Columns) \ {"now_playing"}, d \in {"Asc", "Desc"} :
          Becomes(ChangeSort(memory, <<c, d>>))
     \/ Becomes(ChangeSort(memory, None))
SetVizMode ==
  State /\ \E m \in DOMAIN VisualizationMode.written : Becomes(Change(memory, VisMode, m))
SetRepeat == State /\ \E r \in DOMAIN repeat_spec.kind.written : Becomes(Change(memory, Repeat, r))
SetShuffle == State /\ \E s \in BOOLEAN : Becomes(Change(memory, Shuffle, s))
SetWindow == State /\ \E g \in Geometries : Becomes(ChangeWindow(memory, g))
SetLastDir == State /\ \E d \in Dirs : Becomes(Change(memory, LastDir, d))

ChangeOfState == \/ SetVolume \/ SetMuted \/ SetActiveMode \/ SetColumnWidths \/ SetSort
                 \/ SetVizMode \/ SetRepeat \/ SetShuffle \/ SetWindow \/ SetLastDir

Edit == \/ SelectTheme \/ SetSaveInterval \/ SetPanelNumber \/ Toggle \/ Move \/ EditFolderNames
        \/ SetVizNumber \/ SetVizWord \/ SetFft \/ ResetVizType \/ CheckTexts
        \/ SelectDevice \/ EditOption \/ EditDop \/ ChangeOfState

Next == Start \/ Stop \/ Damage \/ Break \/ Edit

Spec == Init /\ [][Next]_vars

-----------------------------------------------------------------------------
(* Properties                                                               *)

\* Two values of a key that the program does not tell apart.
Same(path, x, y) ==
  IF path = Devices
  THEN \A id \in DOMAIN x \cup DOMAIN y : (id \in DOMAIN x => x[id]) <=> (id \in DOMAIN y => y[id])
  ELSE x = y

\* A directory whose name is no text cannot be saved.
Sayable(path) == path # LastDir \/ kept[path] \notin {p \in DOMAIN Paths : Paths[p] = "bytes"}

Kept(path) == Same(path, memory[path], kept[path]) \/ ~Sayable(path)

JustRead == phase = "loaded" /\ ~banned /\ file # NotToml

\* What a run saved is what the next one has, and it finds nothing to remark:
\* every value an edit can leave is one the reader takes (ТЗ-1, ТЗ-9).
SurvivesRestart ==
  JustRead /\ damaged = {} => notes = {} /\ \A path \in DOMAIN memory : Kept(path)

\* The keys of which one has no value without the other, or bounds it.
Together == {{SortColumn, SortDirection}, {Window("x"), Window("y")}, {Window("width"), Window("height")},
             {Option("optimal", "buffer"), Option("optimal", "device_buffer_ms")},
             {Option("strict", "buffer"), Option("strict", "device_buffer_ms")}}

\* Of two paths one leads to the other.
Along(path, key) == IsPrefix(path, key) \/ IsPrefix(key, path)

\* What is at a path is what a key says, or one it goes together with.
Concerns(path, key) ==
  \/ Along(path, key)
  \/ \E pair \in Together : key \in pair /\ \E other \in pair : Along(path, other)

OfModes(key) == ~State /\ Head(key) = "playback"

\* [playback] is one structure: the version, the tables and the entries.
Frame(path) ==
  \/ path \in {<<"playback">>} \cup Tables
  \/ IsPrefix(Playback("schema"), path)
  \/ IsPrefix(Devices, path) /\ Len(path) = 3

Damaged(key) == \E path \in damaged : Concerns(path, key) \/ (Frame(path) /\ OfModes(key))

Remarked(key) ==
  \E note \in notes : Concerns(note.key, key) \/ (note.key = Playback("schema") /\ OfModes(key))

\* The key has what the file says, or the file says nothing of one that may be absent.
SpecOf(key) == IF State THEN state_spec[key] ELSE (settings_spec ++ modeSpec)[key]
Found(key) ==
  LET raw == lookup(file.doc, key)
  IN IF raw = None THEN SpecOf(key).optional
     ELSE Accepts(SpecOf(key).kind, raw) /\ memory[key] = Value(SpecOf(key).kind, raw)

\* Of a place or a size of the window a half is nothing.
Halved(key) == Head(key) = "window" /\ memory[key] = None

\* What somebody left among the entries of the devices can be one.
Entries ==
  \A path \in damaged : IsPrefix(Devices, path) =>
    lookup(file.doc, path) \in {None, Table, Bool(TRUE), Bool(FALSE)}

Explained(key) == \/ Remarked(key)
                  \/ key = Devices /\ Entries
                  \/ key # Devices /\ (Found(key) \/ Halved(key))

\* The whole [playback] is gone.
NoSection(key) == OfModes(key) /\ lookup(file.doc, <<"playback">>) = None

\* One bad key loses that key alone, with what it is bound to (ТЗ-5); and a value
\* that came from nobody is remarked, but for half a place or a size, and but for
\* the options of the modes without [playback]: they are the defaults, and
\* there is no note, which load_mode_settings is said to give (ТЗ-97).
DamageIsLocal ==
  JustRead => \A key \in DOMAIN memory : ~Kept(key) =>
    /\ Damaged(key)
    /\ IF NoSection(key) THEN memory[key] = modeDefaults[key] ELSE Explained(key)

\* Values that have to agree do, whatever is edited and whatever was read:
\* the orders name everything once, the buffer of the player holds two of the
\* device (И-Р22), a sort key is whole, so are a place and a size, and the
\* Compatible mode has no device past the audio server.
Agreements ==
  LET permutes(key, all) == IsInjective(memory[key]) /\ Range(memory[key]) = Range(all)
      pair(one, other) == (memory[one] = None) <=> (memory[other] = None)
  IN IF State
     THEN /\ pair(SortColumn, SortDirection)
          /\ pair(Window("x"), Window("y")) /\ pair(Window("width"), Window("height"))
     ELSE /\ permutes(<<"column_order">>, Columns) /\ permutes(<<"cover_priority">>, CoverSources)
          /\ \A mode \in {"optimal", "strict"} :
               buffers_allowed(memory[Option(mode, "buffer")], memory[Option(mode, "device_buffer_ms")])
          /\ memory[Compatible("device")] \in Routed \cup {None}
=============================================================================
