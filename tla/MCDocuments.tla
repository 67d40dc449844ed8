---------------------------- MODULE MCDocuments ----------------------------
(* Documents for TLC: three columns, one label, and for each part the damages *)
(* that reach every branch of its readers.                                   *)
EXTENDS Documents

MCStrings == STRING
MCColumns == <<"now_playing", "title", "year">>
MCLabels == {"genre"}
MCSeparated == {"a/b"}
MCBlank == {"", " "}
MCRouted == {"pipewire"}
MCPaths == ("music" :> "relative") @@ ("/music" :> "text") @@ ("/bytes" :> "bytes")

MCThemes == {"dark", "a/b"}
MCNameLists == {<<>>, <<"front.png", " ">>}
MCChosen == [compatible |-> {"", "pipewire"}, optimal |-> {"", "hw0"}, strict |-> {"hw0"}]
MCBuffers == {100, 300, 10000}
MCDirs == {"/music", "/bytes"}

Place(x, y, width, height) ==
  [x |-> x, y |-> y, width |-> width, height |-> height,
   maximized |-> FALSE, fullscreen |-> FALSE, units |-> "Physical"]
MCGeometries == {Place(-10, 20, 800, 600),
                 [Place(None, None, 640, 480) EXCEPT !.units = "Logical"],
                 [Place(None, None, None, None) EXCEPT !.maximized = TRUE]}

All(paths, raws) == paths \X raws

MCDamages ==
  [panel |->
     All({<<"theme">>}, {Str(""), Str("a/b"), Str("blue"), Whole(1), None})
     \cup All({<<"save_interval">>}, {Whole(31), Whole(60)})
     \cup All({<<"cover_size">>}, {Whole(150), Real(9999), Str("x")})
     \cup All({<<"column_order">>}, {Array(<<"year", "year", "x">>), Array(<<None>>), Whole(1)})
     \cup All({<<"cover_priority">>}, {Array(<<>>), None})
     \cup All({<<"cover_folder_names">>}, {Array(<<None>>), Array(<<"x">>)})
     \cup All({<<"columns">>}, {Whole(1)})
     \cup All({Column("title", "max_width_percent"), Column("year", "max_width"),
               Column("title", "column_type"), Column("title", "visible")},
              {None, Whole(0), Whole(70), Str("now-playing")})
     \cup All({<<"info_labels">>, <<"info_labels", "genre">>}, {Str("x"), None})
     \cup All({<<"unknown">>, <<"theme", "x">>}, {Whole(1)}),
   visualization |->
     All({Viz("viz_max_ram_mb")}, {Whole(-1), Whole(0)})
     \cup All({Oscilloscope("channels"), Spectrogram("palette")}, {Str("mono"), Str("magma"), None})
     \cup All({Spectrogram("fft_size")}, {Whole(1024), Whole(1000)})
     \cup All({Spectrum("smoothing"), Oscilloscope("line_width")}, {Real(99), Real(100), Whole(1)})
     \cup All({<<"visualization", "spectrum">>, <<"visualization">>}, {None, Bool(TRUE)})
     \cup All({Viz("unknown")}, {Bool(TRUE)}),
   playback |->
     All({Playback("schema")}, {Whole(1), Str("x"), None})
     \cup All({Option("strict", "buffer"), Option("optimal", "buffer")}, {Whole(50), Whole(100), Whole(700)})
     \cup All({Option("strict", "device_buffer_ms")}, {Whole(400), Whole(30), None})
     \cup All({Compatible("device")}, {Str("hw0"), Str("pipewire"), Whole(1), None})
     \cup All({Option("optimal", "device")}, {Str(" "), Str("hw1")})
     \cup All({Compatible("fixed_rate")}, {Whole(0), Whole(44100)})
     \cup All({Option("optimal", "src_filter")}, {Str("slow"), Str("Slow"), None})
     \cup All({Dop("hw0"), Dop(" ")}, {Bool(FALSE), Bool(TRUE), Whole(1), None})
     \cup All({Devices, Playback("strict"), <<"playback">>, Append(Devices, "hw0")}, {Bool(TRUE), None})
     \cup All({Append(Dop("hw0"), "x"), Append(Option("optimal", "buffer"), "x"),
               Append(Playback("schema"), "x"), Playback("x")}, {Whole(1)}),
   state |->
     All({Active}, {Str("strict"), Str("Strict"), None})
     \cup All({Volume("optimal")}, {Whole(101), Whole(0), Real(50)})
     \cup All({SortColumn}, {Str("now_playing"), Str("year"), None})
     \cup All({SortDirection}, {Str("desc"), Str("Desc"), None})
     \cup All({Width("title")}, {Whole(0), Real(1), Whole(100), None})
     \cup All({Window("x"), Window("width")}, {Whole(0), Whole(5), Whole(-1001), None})
     \cup All({Window("units"), <<"window">>}, {Str("logical"), None})
     \cup All({LastDir}, {Str("music"), Str("/music"), None})
     \cup All({<<"unknown">>, <<"sort">>, <<"playback", "strict">>, Append(SortColumn, "x"),
               Append(Window("x"), "x")}, {Whole(1)})]
=============================================================================
