----------------------------- MODULE SettingsFile ---------------------------
(***************************************************************************)
(* persist/settings_file.rs: the keys of settings.toml, the text read and  *)
(* written, and the edits of the draft (app/mod.rs, with                   *)
(* app/viz_settings_manager.rs for the visualization).                     *)
(*                                                                         *)
(* A value of Settings is a function from the paths of its keys, with the  *)
(* options of the modes among them.  The default titles and colours stand  *)
(* for themselves by name.                                                 *)
(***************************************************************************)
EXTENDS ModeSettings

CONSTANTS Labels,       \* INFO_LABEL_KEYS
          Separated     \* strings with a path separator among those there are

ALL_COLUMNS == Range(Columns)
CoverSources == <<"folder", "embedded", "internet">>

-----------------------------------------------------------------------------
(* The table of keys                                                        *)

SAVE_INTERVALS == {10, 30, 60, 120}

panelKeys ==
  [theme |-> Key(name(Separated \cup {""}), "light"),
   save_interval |-> Key(integer(SAVE_INTERVALS), 30),
   minimize_to_tray |-> Key(flag, FALSE), scroll_to_playing |-> Key(flag, TRUE),
   cover_size |-> Key(number(within(10000, 40000)), 20000),
   col_info_w |-> Key(number(within(20000, 40000)), 24000),
   col_gap |-> Key(number(within(0, 2000)), 1200),
   column_order |-> Key(order(ALL_COLUMNS), Columns),
   cover_priority |-> Key(order(Range(CoverSources)), CoverSources),
   cover_folder_names |-> Key(texts, <<"cover.jpg", "folder.jpg">>),
   cover_online |-> Key(flag, TRUE)]

panel_specs == Section(<<>>, panelKeys)

ColumnKind == word([data |-> "Data"] ++ Single("now-playing", "NowPlaying"),
                   [Data |-> "data", NowPlaying |-> "now-playing"])

\* Widths in pixels and, for the cap, as a share of the width: in hundredths.
ColumnCfg(priority, min_width, max_width, max_width_percent, visible) ==
  [priority |-> priority, min_width |-> min_width, max_width |-> max_width,
   max_width_percent |-> max_width_percent, visible |-> visible]

default_columns ==
  [now_playing |-> ColumnCfg(1, 2400, 3600, None, TRUE), track |-> ColumnCfg(3, 4400, 8400, None, TRUE),
   title |-> ColumnCfg(22, 12000, None, 60, TRUE), artist |-> ColumnCfg(15, 9000, None, 45, TRUE),
   album |-> ColumnCfg(15, 9000, None, 45, TRUE), genre |-> ColumnCfg(5, 8000, None, 30, FALSE),
   year |-> ColumnCfg(4, 4400, 7200, None, FALSE), format |-> ColumnCfg(4, 5200, 9600, None, FALSE),
   bitrate |-> ColumnCfg(4, 7000, 13000, None, FALSE), bit_depth |-> ColumnCfg(4, 6400, 11000, None, FALSE),
   sample_rate |-> ColumnCfg(5, 9000, 14000, None, FALSE), duration |-> ColumnCfg(5, 5600, 10000, None, TRUE),
   file_name |-> ColumnCfg(8, 11000, None, 60, FALSE), file_path |-> ColumnCfg(4, 13000, None, 70, FALSE)]

Column(c, k) == <<"columns", c, k>>
columnKeys(c) ==
  LET row == default_columns[c]
  IN [title |-> Key(text, c), priority |-> Key(number(Nat), row.priority),
      min_width |-> Key(number(Nat), row.min_width),
      max_width |-> Optional(number(Nat), row.max_width),
      max_width_percent |-> Optional(number(within(1, 100)), row.max_width_percent),
      visible |-> Key(flag, row.visible),
      column_type |-> Optional(ColumnKind, IF c = "now_playing" THEN "NowPlaying" ELSE "Data")]

column_specs ==
  [path \in UNION {{Column(c, k) : k \in DOMAIN columnKeys(c)} : c \in ALL_COLUMNS} |->
     columnKeys(path[2])[path[3]]]

info_label_specs == Section(<<"info_labels">>, [k \in Labels |-> Key(text, k)])

Viz(k) == <<"visualization", k>>
Oscilloscope(k) == <<"visualization", "oscilloscope", k>>
Spectrogram(k) == <<"visualization", "spectrogram", k>>
Spectrum(k) == <<"visualization", "spectrum", k>>

ChannelMode == derived({"mono", "stereo"})
FreqScale == derived({"linear", "log", "mel"})
LevelScale == derived({"linear", "log"})
WindowType == derived({"hann", "hamming", "blackman"})
Palette == derived({"solid", "magma", "viridis", "plasma", "inferno", "gray", "thermal", "rainbow"})

\* The keys the three types have in common.
common == [channels |-> Key(ChannelMode, "stereo"), bg_color |-> Key(text, "#11111b"),
           fg_color |-> Key(text, "#cba6f7"), sensitivity |-> Key(number(Int), 100)]
cached == [cache_in_memory |-> Key(flag, TRUE), cache_on_disk |-> Key(flag, TRUE)]

oscilloscopeKeys ==
  [line_width |-> Key(number(within(50, 400)), 120), draw_center_line |-> Key(flag, FALSE),
   max_columns |-> Key(integer(within(512, 8192)), 2000)]

spectrogramKeys ==
  [fft_size |-> Key(integer({512, 1024, 2048, 4096, 8192}), 2048),
   window_type |-> Key(WindowType, "hann"), freq_scale |-> Key(FreqScale, "log"),
   freq_min |-> Key(integer(Nat), 20), freq_max |-> Key(integer(Nat), 22000),
   gain_db |-> Key(number(within(-4000, 10000)), 2000), range_db |-> Key(number(within(100, 20000)), 8000),
   high_boost_db |-> Key(number(within(0, 6000)), 600), palette |-> Key(Palette, "magma"),
   max_frames |-> Key(integer(within(512, 8192)), 4000), dsd_cic_compensation |-> Key(flag, TRUE)]

spectrumKeys ==
  [bands |-> Key(integer(within(4, 128)), 32), freq_scale |-> Key(FreqScale, "log"),
   level_scale |-> Key(LevelScale, "log"), smoothing |-> Key(number(within(0, 99)), 70),
   peak_hold |-> Key(flag, FALSE), peak_decay_ms |-> Key(integer(Nat), 400),
   bar_gap |-> Key(integer(within(0, 10)), 2), bar_radius |-> Key(integer(within(0, 12)), 2),
   gradient |-> Key(flag, TRUE), dsd_cic_compensation |-> Key(flag, TRUE)]

cacheKeys ==
  [skip_fulltrack_for_dsd |-> Key(flag, TRUE), viz_max_ram_mb |-> Key(integer(Nat), 64),
   disk_max_size_mb |-> Key(integer(Nat), 512)]

oscilloscope_specs ==
  Section(<<"visualization", "oscilloscope">>, common ++ cached ++ oscilloscopeKeys)
spectrogram_specs ==
  Section(<<"visualization", "spectrogram">>, common ++ cached ++ spectrogramKeys)
spectrum_specs == Section(<<"visualization", "spectrum">>, common ++ spectrumKeys)

visualization_specs ==
  oscilloscope_specs ++ spectrogram_specs ++ spectrum_specs
  ++ Section(<<"visualization">>, cacheKeys)

\* Every column has a row in the table of the defaults; the names of the tables
\* and the keys, the words and the texts are strings.
ASSUME SettingsFileAssumption ==
  /\ ALL_COLUMNS \subseteq DOMAIN default_columns
  /\ Labels \subseteq Strings /\ Separated \subseteq Strings \ {"light"}
  /\ {"columns", "info_labels", "visualization", "oscilloscope", "spectrogram", "spectrum"}
       \subseteq Strings
  /\ DOMAIN panelKeys \cup DOMAIN common \cup DOMAIN cached \cup DOMAIN oscilloscopeKeys
       \cup DOMAIN spectrogramKeys \cup DOMAIN spectrumKeys \cup DOMAIN cacheKeys \subseteq Strings
  /\ \A c \in ALL_COLUMNS : DOMAIN columnKeys(c) \subseteq Strings
  /\ \A kind \in {ColumnKind, ChannelMode, FreqScale, LevelScale, WindowType, Palette} :
       DOMAIN kind.read \cup DOMAIN kind.written \subseteq Strings
  /\ Range(CoverSources) \cup {"light", "cover.jpg", "folder.jpg", "#11111b", "#cba6f7"}
       \subseteq Strings

settings_spec == panel_specs ++ column_specs ++ info_label_specs ++ visualization_specs

\* Settings::default(): what the keys default to, key by key.
default_settings == [path \in DOMAIN settings_spec |-> settings_spec[path].default] ++ modeDefaults

-----------------------------------------------------------------------------
(* The text                                                                 *)

\* What is known of a file: not there, not readable, not a document, or one.
NoFile == [read |-> "Absent"]
Unreadable == [read |-> "Failed"]
NotToml == [read |-> "Unparsable"]
Text(doc) == [read |-> "Parsed", doc |-> doc]

\* An order without repetitions, the items it lacks at its end.
completed(listed, all) ==
  LET items == listed \o all
  IN Picked(items, {i \in DOMAIN items : \A j \in 1..(i - 1) : items[j] # items[i]})

adjust_order(loaded, key, all) ==
  LET listed == loaded.value[key]
  IN Corrected(loaded, key, completed(listed, all) # listed, completed(listed, all))

adjust_column_order(loaded) == adjust_order(loaded, <<"column_order">>, Columns)
adjust_cover_priority(loaded) == adjust_order(loaded, <<"cover_priority">>, CoverSources)

\* [playback] is taken out of the document before the walk.
parse_settings(file) ==
  LET others == {path \in DOMAIN file.doc : Head(path) # "playback"}
      modes == load_mode_settings(file.doc)
      walked == walk(Restrict(file.doc, others), settings_spec, default_settings)
      joined == [value |-> walked.value ++ modes.value, notes |-> walked.notes \cup modes.notes]
  IN IF file.read = "Parsed" THEN adjust_cover_priority(adjust_column_order(joined))
     ELSE [value |-> default_settings, notes |-> {}]

serialize_settings(value) == Text(Written(settings_spec, value) ++ playback_dto(value))

-----------------------------------------------------------------------------
(* Edits of the draft                                                       *)

Set(value, path, x) == [value EXCEPT ![path] = x]

move_item(list, from, to) == InsertAt(RemoveAt(list, from), to, list[from])

\* move_column and move_cover, from the buttons "up" and "down".
move_up(value, key, i) ==
  IF i \in 2..Len(value[key]) THEN Set(value, key, move_item(value[key], i, i - 1)) ELSE value
move_down(value, key, i) ==
  IF i \in 1..(Len(value[key]) - 1) THEN Set(value, key, move_item(value[key], i, i + 1)) ELSE value

toggle(value, path) == Set(value, path, ~value[path])

\* A name of a theme with a path separator leaves the draft as it is.
select_theme(value, theme) ==
  IF theme \in Separated \cup {""} THEN value ELSE Set(value, <<"theme">>, theme)

\* The names of cover files: items of a list, trimmed, the blank ones dropped.
edit_folder_names(value, items) ==
  Set(value, <<"cover_folder_names">>, Only(items, Range(items) \ Blank))

\* clamp of a number, and of an i32 as u32, where a negative one is huge.
clamp(x, lo, hi) == IF x < lo THEN lo ELSE IF x > hi THEN hi ELSE x
clamp_u32(i, lo, hi) == IF i < 0 THEN hi ELSE clamp(i, lo, hi)

\* The ends of the sliders of the panel.
panelNumbers ==
  Single(<<"cover_size">>, {10000, 40000}) ++ Single(<<"col_info_w">>, {20000, 40000})
  ++ Single(<<"col_gap">>, {0, 2000})

\* The least and the greatest value each number of the visualization takes.
vizNumbers ==
  Single(Oscilloscope("sensitivity"), <<1, 2000>>) ++ Single(Oscilloscope("line_width"), <<50, 400>>)
  ++ Single(Spectrogram("sensitivity"), <<1, 2000>>) ++ Single(Spectrogram("gain_db"), <<-4000, 10000>>)
  ++ Single(Spectrogram("range_db"), <<100, 20000>>) ++ Single(Spectrogram("high_boost_db"), <<0, 6000>>)
  ++ Single(Spectrum("sensitivity"), <<1, 2000>>) ++ Single(Spectrum("smoothing"), <<0, 99>>)
vizCounts ==
  Single(Oscilloscope("max_columns"), <<512, 8192>>) ++ Single(Spectrogram("max_frames"), <<512, 8192>>)
  ++ Single(Spectrum("peak_decay_ms"), <<50, 2000>>) ++ Single(Spectrum("bar_gap"), <<0, 10>>)
  ++ Single(Spectrum("bar_radius"), <<0, 12>>)

edit_viz_number(value, path, x) == Set(value, path, clamp(x, vizNumbers[path][1], vizNumbers[path][2]))
edit_viz_count(value, path, i) == Set(value, path, clamp_u32(i, vizCounts[path][1], vizCounts[path][2]))

\* 512 shifted by 0 to 4.
fft_from_index(i) ==
  <<512, 1024, 2048, 4096, 8192>>[1 + clamp(IF i < 0 THEN -i ELSE i, 0, 4)]

reset_viz_type(value, type) ==
  [path \in DOMAIN value |->
     IF IsPrefix(<<"visualization", type>>, path) THEN default_settings[path] ELSE value[path]]

\* The three checked texts; None is one that is no number.
viz_apply_validated_texts(value, fmin, fmax, bands) ==
  LET valid(f) == f # None /\ f \in within(1, 22050)
      cross_ok == valid(fmin) /\ valid(fmax) => fmin < fmax
      low == IF valid(fmin) /\ cross_ok THEN Set(value, Spectrogram("freq_min"), fmin) ELSE value
      high == IF valid(fmax) /\ cross_ok THEN Set(low, Spectrogram("freq_max"), fmax) ELSE low
  IN IF bands # None /\ bands \in within(4, 128) THEN Set(high, Spectrum("bands"), bands) ELSE high
=============================================================================
