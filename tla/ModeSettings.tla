----------------------------- MODULE ModeSettings ---------------------------
(***************************************************************************)
(* settings/playback.rs with settings/playback_dto.rs: the options of the  *)
(* three modes, how they are read from and written to [playback], and the  *)
(* edits of them in the dialog (app/mode_dialog.rs).                       *)
(*                                                                         *)
(* The options are a function from the paths of their keys.  The entries   *)
(* of devices are one value, a function from device to whether it takes    *)
(* DoP.  A string that trim leaves empty is a blank one.                   *)
(***************************************************************************)
EXTENDS Keys, FiniteSets

CONSTANTS Blank,    \* strings HwDeviceId::from_str refuses
          Routed    \* device ids is_server_routed_pcm accepts

Playback(k) == <<"playback", k>>
Compatible(k) == <<"playback", "compatible", k>>
Optimal(k) == <<"playback", "optimal", k>>
Strict(k) == <<"playback", "strict", k>>
Option(mode, k) == <<"playback", mode, k>>
Devices == Playback("devices")
Dop(id) == <<"playback", "devices", id, "dop">>

-----------------------------------------------------------------------------
(* The keys of the three modes                                              *)

SrcFilter == word([steep |-> "Steep", slow |-> "Slow", very_slow |-> "VerySlow"],
                  [Steep |-> "steep", Slow |-> "slow", VerySlow |-> "very_slow"])
Dither == word([tpdf |-> "Tpdf", off |-> "Off"], [Tpdf |-> "tpdf", Off |-> "off"])
RateFallback ==
  word([same_family |-> "SameFamily", nearest |-> "Nearest", no_downsample |-> "NoDownsample"],
       [SameFamily |-> "same_family", Nearest |-> "nearest", NoDownsample |-> "no_downsample"])
DsdAboveDac == word([convert_to_pcm |-> "ConvertToPcm"], [ConvertToPcm |-> "convert_to_pcm"])
DsdFilter == integer({24, 30, 50})
BufferMs == integer(within(100, 10000))
DeviceBuffer == integer({20, 40, 100, 200, 400})
HwDeviceId == name(Blank)

compatibleKeys ==
  [device |-> Optional(text, None), fixed_rate |-> Optional(integer(Nat \ {0}), None),
   src_filter |-> Optional(SrcFilter, "Steep"), dither |-> Optional(Dither, "Tpdf"),
   dsd_filter |-> Optional(DsdFilter, 30), dsd_gain_comp |-> Optional(flag, TRUE),
   buffer |-> Optional(BufferMs, 1500)]

optimalKeys ==
  [device |-> Optional(HwDeviceId, None), rate_fallback |-> Optional(RateFallback, "SameFamily"),
   src_filter |-> Optional(SrcFilter, "Steep"), dither |-> Optional(Dither, "Tpdf"),
   volume_lock |-> Optional(flag, FALSE), dsd_above_dac |-> Optional(DsdAboveDac, "ConvertToPcm"),
   dsd_filter |-> Optional(DsdFilter, 30), dsd_gain_comp |-> Optional(flag, TRUE),
   buffer |-> Optional(BufferMs, 1500), device_buffer_ms |-> Optional(DeviceBuffer, 40)]

strictKeys ==
  [device |-> Optional(HwDeviceId, None), buffer |-> Optional(BufferMs, 1500),
   device_buffer_ms |-> Optional(DeviceBuffer, 40)]

\* The names of the tables and the keys, and the words, are strings.
ASSUME ModeSettingsAssumption ==
  /\ {"playback", "compatible", "optimal", "strict", "devices", "schema", "dop", ""} \subseteq Strings
  /\ DOMAIN compatibleKeys \cup DOMAIN optimalKeys \cup DOMAIN strictKeys \subseteq Strings
  /\ \A kind \in {SrcFilter, Dither, RateFallback, DsdAboveDac} :
       DOMAIN kind.read \cup DOMAIN kind.written \subseteq Strings
  /\ "" \in Blank

modeSpec == Section(<<"playback", "compatible">>, compatibleKeys)
              ++ Section(<<"playback", "optimal">>, optimalKeys)
              ++ Section(<<"playback", "strict">>, strictKeys)

modeDefaults == [path \in DOMAIN modeSpec |-> modeSpec[path].default] ++ Single(Devices, <<>>)

-----------------------------------------------------------------------------
(* Agreements between options                                               *)

\* Mutant: the buffer of the player must be greater than two of the device.
BuffersApart(buffer, device) == buffer > 2 * device

\* И-Р22: the buffer of the player holds two of the device.
buffers_allowed(buffer, device) == buffer >= 2 * device

buffer_floor_ms(device) == IF 2 * device > 100 THEN 2 * device ELSE 100

raise_buffer_for_device(buffer, device) ==
  IF buffer >= buffer_floor_ms(device) THEN buffer ELSE buffer_floor_ms(device)

\* The value and the notes of a step of the load that may correct one key.
Corrected(loaded, path, wrong, value) ==
  IF wrong THEN [value |-> [loaded.value EXCEPT ![path] = value],
                 notes |-> loaded.notes \cup {Note(path, "adjusted")}]
           ELSE loaded

reconcile_device_buffer(loaded, mode) ==
  LET buffer == loaded.value[Option(mode, "buffer")]
      key == Option(mode, "device_buffer_ms")
      allowed == {d \in DeviceBuffer.range : buffers_allowed(buffer, d)}
      least == CHOOSE d \in allowed : \A e \in allowed : d <= e
  IN Corrected(loaded, key, loaded.value[key] \notin allowed, IF 40 \in allowed THEN 40 ELSE least)

\* A device that bypasses the audio server is not for the Compatible mode.
migrate_legacy_compatible_device(loaded) ==
  Corrected(loaded, Compatible("device"),
            loaded.value[Compatible("device")] \notin Routed \cup {None}, None)

-----------------------------------------------------------------------------
(* Reading [playback]                                                       *)

Tables == {Playback("compatible"), Playback("optimal"), Playback("strict"), Devices}

Children(doc, path) ==
  {SubSeq(p, 1, Len(path) + 1) : p \in {q \in DOMAIN doc : IsStrictPrefix(path, q)}}

\* Deserializing a PlaybackDto: what must be a table is one, or is absent.
WellFormed(doc) ==
  /\ lookup(doc, <<"playback">>) = Table
  /\ \A path \in Tables : lookup(doc, path) \in {None, Table}
  /\ \A entry \in Children(doc, Devices) : lookup(doc, entry) = Table
  /\ lookup(doc, Playback("schema")) # None => lookup(doc, Playback("schema"))[1] = "integer"

\* The keys of each level that its Dto collects as unknown.
Unknown(doc) ==
  LET known == Tables \cup {Playback("schema")} \cup DOMAIN modeSpec
      entries == Children(doc, Devices)
      levels == Children(doc, <<"playback">>)
                \cup (UNION {Children(doc, t) : t \in Tables \ {Devices}})
                \cup (UNION {Children(doc, e) : e \in {e \in entries : Last(e) \notin Blank}})
  IN {path \in levels \ known : \A e \in entries : path # Append(e, "dop")}

parse_devices(doc) ==
  LET ids == {Last(e) : e \in Children(doc, Devices)}
      kept == ids \ Blank
      bad(id) == lookup(doc, Dop(id)) # None /\ lookup(doc, Dop(id))[1] # "boolean"
  IN [value |-> [id \in kept |-> lookup(doc, Dop(id)) # Bool(FALSE)],
      notes |-> {Note(Append(Devices, id), "invalid") : id \in ids \cap Blank}
                \cup {Note(Dop(id), "invalid") : id \in {i \in kept : bad(i)}}]

Unrecognised(path) == [value |-> modeDefaults, notes |-> {Note(path, "invalid")}]

\* Mutant: one option out of its range loses all of them.
AllOrNothing(doc) ==
  IF \A path \in DOMAIN doc \cap DOMAIN modeSpec : Accepts(modeSpec[path].kind, doc[path])
  THEN [value |-> walk(Restrict(doc, DOMAIN doc \cap DOMAIN modeSpec), modeSpec, modeDefaults).value
                  ++ Single(Devices, parse_devices(doc).value),
        notes |-> {}]
  ELSE Unrecognised(<<"playback">>)

load_mode_settings(doc) ==
  LET modes == walk(Restrict(doc, DOMAIN doc \cap DOMAIN modeSpec), modeSpec, modeDefaults)
      inTable(path) == lookup(doc, path) = Table /\ path \in DOMAIN modeSpec
      tables == {path \in DOMAIN modeSpec : inTable(path)}
      devices == parse_devices(doc)
      read == [value |-> modes.value ++ Single(Devices, devices.value),
               notes |-> modes.notes \cup devices.notes
                         \cup {Note(path, "invalid") : path \in tables}
                         \cup {Note(path, "unknown") : path \in Unknown(doc)}]
      migrated == migrate_legacy_compatible_device(read)
  IN IF lookup(doc, <<"playback">>) = None THEN [value |-> modeDefaults, notes |-> {}]
     ELSE IF ~WellFormed(doc) THEN Unrecognised(<<"playback">>)
     ELSE IF lookup(doc, Playback("schema")) # Whole(2) THEN Unrecognised(Playback("schema"))
     ELSE reconcile_device_buffer(reconcile_device_buffer(migrated, "optimal"), "strict")

\* Writing it; an entry of a device as it is by default is not written.
playback_dto(modes) ==
  LET loud == {id \in DOMAIN modes[Devices] : ~modes[Devices][id]}
  IN Written(modeSpec, modes) ++ Single(Playback("schema"), Whole(2))
       ++ [path \in {Dop(id) : id \in loud} |-> Bool(FALSE)]

-----------------------------------------------------------------------------
(* Edits in the dialog, on options that may be part of a larger value       *)

\* SRC_FILTER_OPTIONS and the other lists offer every value of the option.
Offered(mode, k) ==
  LET kind == modeSpec[Option(mode, k)].kind
  IN CASE kind.type = "word" -> DOMAIN kind.written
       [] kind.type = "flag" -> BOOLEAN
       [] OTHER -> kind.range

\* A shorter device buffer leaves a raised buffer of the player as it is.
apply_device_buffer(modes, mode, ms) ==
  [modes EXCEPT ![Option(mode, "device_buffer_ms")] = ms,
                ![Option(mode, "buffer")] = raise_buffer_for_device(@, ms)]

\* Mutant: the buffer of the device sets no bound.
BufferUnbound(modes, mode, ms) == [modes EXCEPT ![Option(mode, "buffer")] = ms]

apply_buffer(modes, mode, ms) ==
  [modes EXCEPT ![Option(mode, "buffer")] =
     IF mode = "compatible" THEN ms
     ELSE raise_buffer_for_device(ms, modes[Option(mode, "device_buffer_ms")])]

device_opts(modes, id) == id \in DOMAIN modes[Devices] => modes[Devices][id]

\* Only with a device; an entry that is as by default is removed.
apply_device_dop(modes, mode, on) ==
  LET id == modes[Option(mode, "device")]
      rest == Restrict(modes[Devices], DOMAIN modes[Devices] \ {id})
  IN IF id = None THEN modes
     ELSE [modes EXCEPT ![Devices] = IF on THEN rest ELSE rest ++ Single(id, FALSE)]

set_device(modes, mode, id) ==
  [modes EXCEPT ![Option(mode, "device")] =
     IF id = "" \/ (mode # "compatible" /\ id \in Blank) THEN None ELSE id]

apply_edit(modes, mode, k, choice) ==
  CASE k = "device_buffer_ms" -> apply_device_buffer(modes, mode, choice)
    [] k = "buffer" -> apply_buffer(modes, mode, choice)
    [] OTHER -> [modes EXCEPT ![Option(mode, k)] = choice]
=============================================================================
