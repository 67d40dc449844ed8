# APAP: a verification project

APAP is a desktop audio player written in Rust (`src/src/`, user interface in
Slint).  This directory holds TLA+ models of it, the TLC runs that check them,
and theorems about them checked by TLAPS.  File names below are relative to
`src/src/`; requirement and invariant numbers (ТЗ-n, И-Рn, ОВС-n) are those of
`src/docs/02_settings_persistence_v1.0/02_tz.md` and `03_spec.md`; those about the
audio modes and skipped tracks are of `src/docs/01_audio_modes_v1.0`.

## 1. The system

### Threads and how they talk

| Thread | Code | Receives | Sends |
|---|---|---|---|
| UI | `core/mod.rs` (`AppCore`), `app/mod.rs` (`MusicApp`) | events of the window, a 100 ms timer | commands to all others |
| `apap-persist` | `persist/writer.rs` | `WriterCmd` (FIFO) | `WriterReply` (FIFO) |
| `apap-playlist` | `playlist/load.rs` | load jobs with a generation | the outcome with the generation |
| `apap-io` | `core/io.rs` | theme and cache jobs with a generation | results |
| `apap-fulltrack`, a builder per picture | `audio/fulltrack.rs` | builds, cancel flags | pictures, failures |
| `apap-engine` | `engine/` | engine commands, internal messages of its jobs | engine events |
| device jobs | `engine/spawner.rs` | nothing | one answer each: a device resolved, claimed |
| `apap-decode`, output thread | `audio/worker.rs`, `audio/backend/` | ring, atomics of the session | positions, faults |
| `apap-log` | `journal.rs` | records | nothing |
| tray, signals, D-Bus | `platform/`, `audio/reservation/` | OS | events to the UI or the engine |

The UI thread never blocks on files except once: on the exit path it waits for
the writer at most `EXIT_BUDGET`.  Nothing is shared between UI and writer but
the two channels; a snapshot is immutable once sent (И-Т5).  Engine, decoder
and output thread share the atomics of `SessionShared` and a ring.

### Components

State, operations, what is hard, what makes it correct.

* **Tracker** (`persist/tracker.rs`).  Per TOML file a reference text, a queue of
  snapshots in flight, `stopped`, `auto_forbidden`; for the playlist a change
  number and the number written; one deadline for state and playlist.  Hard:
  deciding from "the last text sent" rather than from the disk, answers about
  older texts, one deadline for two files.  Correct: what it believes is in
  flight is; its reference is the disk; no change is forgotten.
* **Writer thread** (`persist/writer.rs`).  A slot per file, a FIFO of jobs, the
  stop flag.  Hard: replacing a waiting snapshot against the job that takes it,
  ending with work queued.  Correct: one job per full slot, writes of one file in
  order of sending, every command answered once.
* **Atomic write** (`platform/fs/`).  Temporary file, write, sync, rename, sync of
  the directory.  Hard: a kill or a loss of power between two calls.  Correct:
  the target is always whole, a confirmed write survives.
* **AppCore, exit, start** (`core/mod.rs`, `core/exit.rs`, `core/load.rs`,
  `persist/mod.rs`, `main.rs`).  Session state, settings, playlist, how each file
  was found.  Hard: snapshots of the time before the exit, an answer against the
  budget, a file that cannot be read.  Correct: the exit ends, its report is
  true; what is damaged is kept first.
* **Settings and state files** (`persist/settings_file.rs`, `state_file.rs`,
  `settings/`).  A table of keys, a tolerant walk over a TOML document,
  corrections between keys, and what is written.  Hard: one broken key must cost
  that key only; what one run saves the next must read; corrections that come
  after others.
* **Messages, gate, dialog, loads** (`core/messages.rs`, `gate.rs`, `dialog.rs`,
  `load.rs`, `io.rs`).  A queue of windows, reasons that block the main window, a
  draft of the settings, generations of loads and of answers.  Hard: a message
  withdrawn while shown or pressed, settings changed elsewhere while the draft is
  open, answers to older questions.  Correct: every cause has its window and
  every block its cause; Save applies what the user chose.
* **Playlist and Shuffle** (`playlist/`).  Rows in saved order, visible order, sort
  key; played, current and upcoming part of one pass.  Hard: insertion into an
  order that tags have made stale, a pass under sorting, removals, a new load.
* **Play queue** (`app/playback_manager.rs`, `app/playlist_manager.rs`,
  `app/ui_audio_state.rs`).  Position of the current and of the awaited row, skip
  streak, end flag.  Hard: rows named by position under every change of the order,
  late answers, an end that races an opening.
* **Whole-track pictures** (`app/fulltrack_manager.rs`, `audio/fulltrack.rs`).
  Requests, builders, a cache in memory and one on the disk.  Hard: late builders,
  files that change, a directory cleared meanwhile.
* **Wheel** (`platform/input/`), **geometry** (`core/geometry.rs`), **volume**
  (`core/volume.rs`).  Machines on event streams: pairing of two sources, inertia,
  swipes; echo of a programmatic move.
* **Engine and device lock** (`engine/run.rs`, `engine/lock.rs`).  The table of the
  lock, a claim, the path on it, a deferred Open, the point to come back to.
  Hard: jobs that answer late, a device lost and back, a mode changed meanwhile.
* **Session** (`audio/session.rs`, `worker.rs`, `render/`, `backend/alsa_out.rs`).  A
  ring, generations, the three phases of a seek, the end of the track.  Hard:
  every interleaving of three threads over a dozen atomics.
* **Planner and signal path** (`audio/path/`, `audio/verdict.rs`,
  `audio/session_build.rs`).  A pure choice of the output path, and a badge that
  is kept true.  Hard: exact ends of a plan, everything that makes a badge stale.
* **Compatible mode** (`audio/player.rs`, `audio/output.rs`, `engine/legacy_path.rs`).
  A stream over cpal under settings, devices and sinks that change.

`PROJECT.json` lists every part with its source files and status, and every
hazard with its line and the properties that cover it.

## 2. How the project is laid out

| Area | Modules | Composition | Proofs |
|---|---|---|---|
| Writing files | `SavedFiles` (abstract), `Writer`, `AtomicWrite` | `WriterClient` (writer and any client) | `PersistProofs` |
| What to write and when | `Tracker`, `PersistProps` | `Persist` (tracker, core, exit, writer) | `PersistProofs` |
| What is in the files | `Keys`, `ModeSettings`, `SettingsFile`, `StateFile` | `Documents` (several runs of the program) | `DocumentsProofs` |
| The window | `MessageCenter`, `Dialog`, `FullTrack`, `Wheel`, `Geometry` | `Windows` (messages, gate, dialog, loads), `MCShell` (the others beside it) | `WindowsProofs` |
| The queue | `Playlist` | `Player` (queue, engine as the queue sees it) | `PlayerProofs` |
| The engine | `DeviceLock`, `Output` | `Engine` (exclusive modes), `Compatible` | `EngineProofs`, `CompatibleProofs` |
| The sound | `Listener` (abstract), `Planner` | `Session` (three threads), `SignalPath` (plan, builder, badge) | `SessionProofs`, `SignalPathProofs` |

Modules named `MC...` give constants their values and bounds for TLC; each `.cfg`
is one run.

The work was done in the order persistence, queue, engine, session, signal path,
window, documents.  What would come next is listed in section 8.

Every invariant of the passing runs and both refinements are proved; what is left to TLC
alone is liveness (section 7).

## 3. The modules and the code

### Writer (with WriterClient, SavedFiles)

`Writer` is `run_writer` and the client's handle.  `cmds` and `replies` are the two
mpsc channels, `slots` and `order` the local variables of `run_writer`, `job` the
job in `run_job`.  The loop of the code is: receive everything that is there
(`AcceptWrite`, `AcceptOther`, `AcceptStop` are the arms of `accept`), and when the
channel is empty take one job (`StartJob`) or block or return (`End`).  `at` is the
place in that loop.  A job is three steps: the call starts, the target is replaced
(`JobReplaces`) or the call fails before it (`JobFails`), the call returns with or
without an error and the reply is sent (`JobReturns`).

`Send` covers the three situations of `WriterHandle::send`: the thread lives, it was
never spawned (`dead_reply` answers at once) or it has returned (the command is
lost).  The last does not happen in production: `WriterCmd::Stop` and
`WriterHandle::join` are only used by tests, so the thread ends with the process or
when the handle is dropped.  `join` without a `Stop` would wait for ever.

Texts are numbers (equality is all the code asks of them), the playlist's text is
the number of the change it contains.  `issued`, `stored`, `confirmed`, `tried`,
`rescued` are history variables.

`SavedFiles` is the promise without slots and queues: a file is a register that
moves forward through the ids issued for it, and a confirmation names what the
register holds.  `WriterClient` is a client that sends anything at any time, stops
and disconnects; `MCFiles` bounds what it sends.

### Tracker, Persist

`Tracker` translates `PersistTracker`; its operators are the methods, its variables
the fields (`mem` is what the core would serialize now).  `inFlight[f]` holds id and
text (the code keeps text and change number in the same queue).  Time is the time
left: `deadline = 0` is an expired deadline, `None` no deadline.

`Persist` composes tracker, writer and channels under the handlers of `AppCore`:

| Code | Action |
|---|---|
| `boot`, `bad_copies_via_writer`, `from_boot` | `Init` |
| `change_state` | `ChangeState` |
| `playlist_changed` and the commands that call it | `PlaylistChanged` |
| `save_settings_now`, called for "Save" and for a device the engine chose or gave up | `SaveSettings` |
| `export` | `ExportPlaylist` |
| `tick`: load result, replies, deadline | `TickBegin`/`TickLoad`, `TickReply`, `TickEnd` |
| `send_snapshot` | `SendOne` |
| `retry` | `Retry` |
| `MessageCenter::press` of the error window | `DismissErrors` |
| `exit`: begin and sends, wait, end | `ExitBegin`, `SendOne`, `ExitReply`, `ExitEnd` |

A handler that sends or receives several messages takes several steps, so that
the writer runs in between; `ui` says how far it is, and no other handler starts
before it is over, as in the event loop.  `saved` remembers who had the settings
saved: the user, or `save_auto_selected_device` and `save_compatible_device_migrated` on
an event of the engine (`app/mod.rs:3730`).  A tick with nothing to receive and no
expired deadline changes nothing and is a stuttering step.

Left out or abstracted, and why it does not matter:

* The geometry that a tick reads at its end, and which calls `change_state`, is a
  `ChangeState` after the tick; the one of the exit is part of `ExitBegin`.
* Answers to the start-up copies may be read by `main`'s wait or by a tick; both
  ignore them, so only the tick is modelled.
* A text that cannot be serialized (`SerializeError`) is not sent; never happens
  for values the program builds, not modelled.
* A file whose text differs from its canonical form although it parses counts as
  the same text (`boot` keeps the raw text as the reference, so such a file is
  written once more than here).
* After the exit (`phase = "done"`) further input is ignored by
  `ExitCoordinator::begin`; no action of the user is enabled.
* `dismiss_for_exit` closes windows and keeps the map of errors; after the exit
  nothing reads it.

### AtomicWrite

One action per system call of `write_atomic` on Unix, `Fail` for an error of the
call that is due, kills and losses of power anywhere.  Memory and medium are two
directories: after a loss of power a file that was not synced may be torn, and of
the changes to the directory since it was last synced any prefix may survive.  The temporary file of a killed process is there when the next
process starts.  The parent directory is assumed to exist; that of a directory
created by `create_dir_all` is not synced by the code, and its loss is not
modelled.  The macOS and Windows variants are not modelled.

### Playlist

`rows` is the saved order, `visible` the order of the table, as in `Playlist`;
`history`, `passCurrent`, `upcoming` are the fields of `Shuffle`.  Actions are the
methods of `AppCore` that change the list, each with its effect on the pass
(`apply_playlist_effect`) in the same step.  Positions count from 1.  A row has for
each column the sequence of fields `compare_keys` compares, with `None` for a
missing tag; texts and years are numbers, of which only the order matters.  Random
choices (`shuffle`) are choices.  `Add` inserts by a binary search, whose result on
an order that is not sorted is any position the search can end at; `stale` records
that tags changed since the last sorting.  `taken` is a history variable: the ids
handed out in the pass.

### Player

The variables up to `applied` are fields of `MusicApp` and `UiAudioState`, `cmds` and
`events` the channels, `engine` the track the engine has open.

| Code | Action |
|---|---|
| `tick`, `drain_engine_events` | `TickBegins` (drain), `ApplyEvent` (one event), `TakeOpened`, `Dispatch` (one of `engine_applied`) |
| `handle_auto_advance` | `TickEnds` |
| `poll_tray`; the same buttons of the window | `TrayInput` |
| `poll_load_playlist` with `apply_play_now`, `drain_scan` | `Loaded`, `Scanned` |
| callbacks of the window | `WindowInput` (`PlayRow`, `RemoveRow`, `ClearList`, `SortBy`, Shuffle, Repeat) |
| `handle` of the engine | `EngineOpen`, `EnginePlay`, `EngineStop` |
| `poll_session` | `EngineEnds`, `EngineFails` |

A tick is several steps: the engine runs between them, the window does not.
`AutoAdvanceTo`, `SkipTo`, `GoTo` are what the three callers of `next_track_index` do with
its result; `WithNext` is that function, written with the continuation as its
argument because with Shuffle it changes the pass.

Left out, and why it does not matter to these properties or where it is:

* Pause, toggle and seek: they change neither the queue nor what is open.
  "Previous" after the third second is a seek.
* Change of mode and of device, the lock, loss of a device, the exclusive path:
  `Engine` has them.  In the Compatible mode `lock_blocks_play` is false.  `Blocked`
  of `build_compatible_path` leaves a stopped track with an error, which is the
  third outcome of `EngineOpen` as far as the queue can tell.
* `UiGate` (`Windows` has it): it blocks some inputs; the model allows them all.
* Files of one scan batch are added one by one; a batch of one file here.
* An engine that is not running (`engine_send` fails).

### Documents (with Keys, ModeSettings, SettingsFile, StateFile)

`Keys` is `KeyTable`'s walk: a key is present, absent or broken, and a reader takes
the value, the default or notes the damage.  `SettingsFile` and `StateFile` have
`parse_*` with every correction in its order, and `serialize_*`; `ModeSettings` the
three modes, `[playback]` and the dialog's edits of them.  `Documents` runs the
program several times over one file that hands may change in between; how the
file is written is `Persist`'s and `AtomicWrite`'s subject, so a run that ends has
written what it holds.  Texts and numbers are a few values on each side of every
bound that is tested.

A table of keys is a function of paths, put together with `++` (the left side wins).
`Strings` is the set of all strings, and each module says in an assumption which names of
tables and keys it writes out: the prover does not know that `"window"` is a string.

### Windows (with MessageCenter, Dialog), FullTrack, Wheel, Geometry

`MessageCenter` is the queue, the window shown and the map of write errors, with
the block reasons of `UiGate`; `Dialog` the draft on three fields that stand for
the others (one that only the dialog writes, one that the engine may change, and
the theme, which must be read by `apap-io` first).  `Windows` is their owner: the
lock events, the buttons, the tray, pickers, loads with generations.

`FullTrack` follows a picture from the tick that asks for it through the thread and
its builder to the cache and the screen; a picture is what it was made from.
`Wheel` is the normalizer with both event sources and the tray icon; ages are in
units of 100 ms.  `Geometry` is the tracker against a window system that does what
it was asked for late, or otherwise.

### Engine (with DeviceLock)

`DeviceLock` is the table of `lock.rs` as an operator: state and event give the state
and what to do.  The engine thread runs one handler at a time and a handler calls
others, so its fields are one record and each method is an operator from record to
record; what a handler cannot know (does a thread start, does a track open) is a
parameter chosen by the action.  `awaited` is the last Open until it is answered by
an event, dropped by Stop or with the lock, or given up by nobody telling (`Forsake`, a
search for a device that ends without a capture).  Jobs (`resolve`, `start_claim`) are separate
actors that answer late; devices are plugged, unplugged and lose their
reservation name at any time.

### Session (with Listener)

One step of `Session` reads or writes one shared atomic, or several in the order of
the code where nothing in between could be seen.  A frame is numbered as the source
yields it, which is not the position shown for it: `poll_seek` counts from the target
(`base`), while the source lands where its format lets it.  A seek that is carried out
lands in `Lands(target)`, at most `Align` frames before its target (`DsdDecoder::seek` goes to
the start of a block, `Decoder::seek` to that of a packet and trims nothing); one that
is refused leaves the source where it is, without what tail and feed held.  `landed` is
where it stood after the last seek.  A source that fails leaves nothing, or the one
buffer of silence that `FloatFeed` had already sized, and then counts as ended.

`Listener` is what the user is promised: frames come in order and without a gap between
two periods; what comes after a seek that was carried out begins where it, or a later
one, may land; nothing of what was left behind is heard again; beyond the track there
is nothing but the silence of a failed source.  `refused` and `broke` name the seeks that
were refused and those after which the source failed.  `ImplementsListener` is the refinement.

### SignalPath (with Planner)

`Planner` is `plan()` by its stages: route, channels, rate, format, gain.
`SignalPath` has what the engine keeps (`last_volume`, `active_path`, the exclusive
path with its signal), what `session_build` really installs, and the verdict.

### Compatible (with Output)

`Output` is the choice of device, rate and channels that `legacy_path.rs` asks for.
`Compatible` has the `Player` with its session and stream and the engine's handlers
on it.  It is the detailed form of what `EngineOpen` and `EngineStop` stand for in
`Player`.

## 4. The runs

All with `tlc -config <cfg> <module>`; constants and bounds are in the cfg files
and in the MC modules.

| Run | What it shows |
|---|---|
| `persist` | 1.8 million states. `InFlightMirrorsWriter`: the tracker's queue is, in order, what is answered unseen and what is in channel, slot and job, answers come in that order, and the last snapshot is the last tried. `ReferenceIsDisk`, `DifferenceIsScheduled`: the comparison that suppresses writes is right and loses no change. `OriginalsKept`: files that could not be read are written only after a save by the user or for a device (an exception, section 6), damaged ones after their rescue was tried. `ExitReportIsTrue`. |
| `persist_live` | `ExitCompletes` with nothing assumed of the writer; `ChangeReachesDisk` if the writer is scheduled. |
| `files` | 967 thousand states, the writer alone and one file through `write_atomic`. `WritesInOrder`, the refinement `ImplementsSavedFiles`, `EndsWhenLeft`: the thread ends, with its work done. `TargetWhole`: after any kill or loss of power the target is one whole version, never older than what was on the medium. `ConfirmedSurvives`. |
| `player` | 3.7 million states. `ViewMatchesSource`, `PassIsPartition`: table and pass against the saved order under every call. `AnswerGoesToItsRow`: the accepted answer is of the awaited row. `AwaitedIsOnItsWay`: no row is awaited without a command or answer on its way. `ShownIsSounding`: at rest, what sounds is the current row. |
| `compatible` | 113 thousand states. `StreamIsAsSet`: rate, dither, gain and device of the stream are those in force, except where section 6 says. `GoesOnOrIsTold`: a track goes on where it was or the user is told. |
| `engine` | `HeldHasClaim`, `AcquiringHasWork`: the lock's state against claims and jobs. `OpenIsKept`: an Open is answered, dropped, or deferred with a capture still waited for, except one deferred while a device was looked for in vain (section 6). `NoPlayAfterLoss`: a loss is not followed by sound nobody asked for. |
| `session` | 552 thousand states. `RingIsCurrent`. `PositionIsTrue`: the position runs with what is heard, off by as much as the last seek landed off its target. `EndedIsComplete`: at the end all the source yielded was heard, and it is at the end of the track or has failed. The refinement `ImplementsListener`. `WaitsEnd`: no thread waits for ever for another, and the track's end is reached. |
| `signal_path` | `BadgeIsTrue`: the bit-perfect badge against what the built path does to a sample. `LossIsReported`: a plan lists a loss exactly when its ends differ. `StrictKeepsSource`. |
| `windows` | 1.4 million states. `EachCauseHasItsWindow`, `NothingStuck`, `SaveIsWhatWasChosen`: messages, gate and dialog. `PicturesAreRight`, `ScrollingIsFollowed`, `GeometryIsTheUsers`: the machines beside it. |
| `documents` | 98 thousand states. `SurvivesRestart`: what one run saves the next reads. `DamageIsLocal`: a broken key costs that key and those it is bound to; what stands in its place is what the file says or is told, but for the defaults without `[playback]`. `Agreements`: what several keys must agree on. |
| `refute_auto` | An exclusive mode entered without a chosen device ends with an inactive lock. |
| `refute_mono` | A mono track that the planner accepts for a stereo device does not open. |

Two refinements are checked: `ImplementsSavedFiles` (the writer implements a register
file) and `ImplementsListener` (three threads implement one listener).

**Scopes and bounds of `persist`.**  A behaviour belongs to one scope of
`MCPersist`: the session state alone (found well, absent, damaged; with and
without a writer; 4 inputs), the playlist alone (found in all four ways; 3
inputs), both TOML files (settings unreadable, settings damaged, state unreadable
with it or damaged with it; saves that change the interval; 2 inputs), state and
playlist together (2 inputs).  Inputs are acts of user or platform; ticks, time,
the writer and every failure of a call are free, and the exit is free as well.
Three or four inputs are enough for three snapshots of one file in flight (one
being written, two in the channel), a failure, a Retry and an exit over them.  Two
texts give "change and change back", the case that a comparison with the wrong
text loses.  The files meet only in the queue, in the deadline and in the error
window; the last scopes have two of them in all three.

**`files`.**  The writer: three snapshots over two files, a copy to `.bad` and a stop at
any time; the client sends while fewer than three messages are in the queues.
Three snapshots fill slot, job and channel of one file at once.  The call: three
calls and five inodes, with any number of kills and losses of power: one call to
be confirmed, one to fail half-way, one to meet what that left.

**`player`.**  Two scopes.  In the first the calls on the list are made in any
order on at most three ids of two kinds over two columns (one of one field, one of
two, of which the second may be missing): two rows are then equal in every column,
the case the stable comparison decides by the source order.  With Shuffle on, rows are
moved to the end only, which gives every order, and Shuffle goes off before a track
is over; what is left of a pass that is off is not read again.  In the second the
queue plays three ids with three inputs by the user; ticks and openings, with
their failures, are free, and tracks end or fail while fewer than two openings
were asked for.  Two openings are an answer that comes too late and the one that
is awaited.  The engine takes its steps while the UI is between two ticks: within
a tick the UI reads the channel once, at `TickBegins`, and writes only to the end
of the other one, so a step of the engine inside a tick commutes to its end.

**`engine`.**  Two devices (symmetric), three attempts at reacquisition, seven
scopes (`MCEngine`): a device lost and back; lost and the mode left and chosen
again; a change of mode that is a change of device; devices found automatically
or chosen (three: with two attempts, or with three and no event or no choice); every
command.  Each bounds the commands `Open`, the attempts, and the
events of devices, names and sessions.  A job that answers after the thing it was
asked for has gone needs two attempts; a third finds nothing new.

**`session`.**  A track of three frames, a ring of two, packets and periods of two,
one frame to prime and to start: packets that do not fit (the tail), periods that
the ring cannot fill, an end inside a period.  Targets are first, middle and end; a
seek lands up to one frame early (`Align` is 1), so an exact and an early one differ in
position, in what is heard first and in where the track ends.  One seek is refused and
the source fails once, at any moment; a second of either meets the same places of the
handshake, since both leave only `source`, `done` and `failed` behind, which the next seek
resets.  Playing and pausing come before the first seek.  (The theorems have none of
these bounds.)

**`signal_path`.**  Seventeen tracks (every depth, float, DSD, mono, six channels, odd
rates), six devices, four sets of options: each stage of the plan is left by each
of its exits.

**`windows`.**  Five parts, one per behaviour, since they share nothing but the
thread.  Messages: two files, two reasons of a failed lock, three themes, two
devices, at most three messages that wait, two questions to `apap-io`, two loads,
in three scopes.  Pictures: two tracks (one DSD), two kinds, caches of one entry;
a file changes at most twice.  Wheel: offsets on each side of every threshold (a
click, a step, a fraction, inertia).  Geometry: a normal and a tiny size, two
positions.  The user acts two to four times per part (`MCMaxInputs`).

**`documents`.**  Two edits or damages over any number of runs of the program, four
scopes (panel, visualization, playback, state); three columns and one label;
`MaxI32` is 1000.

**`compatible`.**  An audio server with two aliases that differ in what they offer,
bare hardware, one sink, two tracks; two openings; scopes for devices, settings and
volume.

Deadlock is not checked in `persist` and `persist_live` (the program stops after
its exit), `files` (the thread has ended, the calls are over),
`engine` (it has shut down), `session` (it is closed) and `windows` (the inputs are
used up).

## 5. Fairness

The Slint event loop fires its timer and runs a handler to its end: weak fairness
of `Elapse`, `TickBegin`, `TickLoad` and `HandlerStep` (`UiFairness`).  Acts of the
user are never fair.  The writer is not assumed to run in `ExitCompletes`; the exit
relies on `recv_timeout`, which `ExitEnd` models by being enabled at any time.
`ChangeReachesDisk` states the assumption on the writer (`WriterScheduled`: the thread
is scheduled and calls of the file system return) in the property itself.
`EndsWhenLeft` assumes the same of the thread.  `WaitsEnd` assumes that decoder and
output thread are scheduled and that the engine's join returns when they have
ended (`Scheduled`: weak fairness of `Decode`, `Output` and `Joins`); the engine's
other acts, and faults, are not fair.

## 6. Where code and documents differ

Two differences have runs of their own:

* **A mode entered without a device never captures (`refute_auto`).**  `SetActiveMode`
  sets `active_mode` (`run.rs:2039`) while the device is still being looked for in the
  background; the answer is then put to the table of the lock in the new mode, where
  `NotApplicable` stays as it is.  The device that was found is not taken, the window
  "no device selected" does not come, and the lock stays inactive in a mode in which
  it should not be (`lock.rs:20`, ТЗ-143, ТЗ-144).  The unit tests of the resolution call
  `lock_input` themselves, those of `SetActiveMode` have a device chosen; the start of
  the program with an exclusive mode saved (`app/mod.rs:680`) is the untested pair.

* **A mono track does not open (`refute_mono`).**  The planner accepts one channel for
  a device with two by doubling it; the builder of the session refuses the plan, and
  the track fails although both modes' requirements promise it.

The others were met while modelling.  The models do what the code does; where a
property would fail, its comment names the exception.

Persistence:

* A write reported as failed may have replaced the file: `write_atomic` returns the
  error of `sync_dir` after the rename (`platform/fs/mod.rs:79`); ТЗ-20 says a write
  error, fsync included, leaves the previous file untouched.  It is the reason for
  `stored = confirmed` in `ReferenceIsDisk`.
* A change may not be scheduled after a successful Retry: `poll_deadline` takes an
  expired deadline away even if the file is stopped; a Retry of the older text then
  clears `stopped`, and the later change waits for another change or the exit.  ТЗ-20
  says that writing by the count resumes.  `DifferenceIsScheduled` holds with this
  case (`dropped`) taken out.
* A damaged playlist may be written over: the quarantine is queued
  (`core/load.rs:175`); a change and an exit can queue a snapshot behind it before its
  failure is known, and `exit` ignores `QuarantineFailed`.  ТЗ-21 case 3 says the file
  is not touched.  `OriginalsKept` asks that the move was at least tried.
* The comment at `persist/tracker.rs:36` says at most two snapshots of a file are in
  flight; commands wait in the channel while a job runs, so there may be more
  (nothing depends on it).  И-Р4: an answer `Written` to a snapshot sent before the
  error also turns writing by the count on.  If a playlist
  becomes banned with a snapshot of it in flight, the exit may report "written"
  although later changes are not in it.
* An automatic choice of a device overwrites a `settings.toml` that could not be read:
  `save_auto_selected_device` and `save_compatible_device_migrated` (`app/mod.rs:3730-3758`) call
  `save_settings_now`, which does not look at `auto_forbidden` (`core/mod.rs:900-932`), so the
  defaults the program started with go over the user's file.  И-Р20
  (`docs/02_settings_persistence_v1.0/03_spec.md:2320`) and ОВС-6 (line 204) allow that to "Save"
  and "Retry" only; И-Р10 (line 2310) says the settings are written on "Save".
  `OriginalsKept` names the case (`DeviceSaved`).

Settings and state files:

* `keys.rs:62` says the absence of an optional key is `None`; `columns.*.max_width`
  and `_percent` keep the default instead.
* A `settings.toml` without `[playback]` gives the defaults of all modes and no note
  (`settings_file.rs:1139-1141`, `playback_dto.rs:866-868`), although the comment at
  `playback_dto.rs:838-841` (ТЗ-97) says that a missing section gives one note.
  `DamageIsLocal` names the case (`NoSection`).
* An error in the structure of `[playback]` loses the whole section, although ТЗ-5 and
  `playback_dto.rs:4` say one bad key keeps the rest.
* The dialog's texts can leave `freq_min` at or above `freq_max`
  (`viz_settings_manager.rs:1`); a `last_dir` that is not UTF-8 and a `window.x` without
  `window.y` are lost silently; `widths_on_enable` mixes fractions with stored percents.

Window:

* Pressing any message clears `mode_notice_pending`, so a second notice about an
  unavailable mode can be queued (comment at `app/mod.rs` ~1262).
* "Open audio settings" pressed while another message waits: the next window blocks
  the gate first, and the dialog does not open (ТЗ-46).
* A late answer to "list themes" after the user picked theme B shows A in the box and
  puts A's metadata over B's, while the draft holds B (comment ~1944–1960).
* A `maximized` that the window system reports after the first reading is saved as
  "not maximized" and then counts as the user's; an exit in between loses it (`late` in
  `Geometry`).
* The limit of a swipe is net, so turning back and forth gives more than `max_steps`
  steps in all (comment in `normalizer.rs` ~227), and after five one way the other way is
  blocked until the pause.  A mark of inertia that nobody takes shifts the queue of
  marks for good (И-Р19).  What was scrolled over the tray before the desktop was
  known keeps its unit when it is found to be GNOME.
* `Envelope::feed` (`audio/fulltrack.rs:70`) updates the maximum only when a sample is
  not a new minimum; a column whose samples only fall has a maximum that no sample
  had and is drawn as silence, against "minimum and maximum of one column".
* After a failure, or while the next one is built, the previous track's picture stays
  on the screen.  The builder's key and the UI's may differ when the file changes in
  between; the picture is then dropped for good.

Queue:

* Removing a row above the current one makes another track the current one:
  `remove_track` lowers `current` and then calls `playlist_op`, which moves it once more
  (`app/playlist_manager.rs:131`).  ТЗ-45 says removals leave the current track alone.
* A skip comes back to the skipped track: `current` changes only when a track opens, so
  the successor is the track just skipped, until the streak reaches the number of
  rows (`app/mod.rs:3587`).  ТЗ-86 says a skip goes to the next track.
* A row that is double-clicked, and the track that plays when Shuffle goes on, are not
  reported to the pass and come again in it (И-Р15, `app/mod.rs:2242`).
* An `Ended` of the old track applied after `begin_open` raises the end flag again, and
  the tick opens what follows the old track (`strayed` in `ShownIsSounding`); removing
  the awaited row leaves the removed track open; Stop during an opening does not stop
  it; with Shuffle, Repeat All and one row the player stops; Next and Previous of the
  tray are not asked of the gate.
* When an end meets a device whose lock is open (`playback_manager.rs:368`), the end
  flag stays up and every tick takes another track from the pass and queues another
  message (comment ~303–312).  In the exclusive modes Repeat One plays a path that is
  closed.

Engine and session:

* With the Compatible mode saved, the start sends settings and mode the engine already
  has, so `fixed_rate`, dither, filter and buffer do not reach the player until the user
  changes one (`behind = "start"` in `Compatible`; comment `app/mod.rs:770`).
* Choosing a sink of the server plays on the system default: `open_pw_node_stream`
  (`audio/backend/shared.rs:262`) has no caller; `docs/01…/03_spec.md:229` says the
  node is opened.
* A finished track reopened by a change of settings is opened at its end, so the next
  Play ends at once ("A finished track is rewound and replayed", `audio/player.rs`).
* For the same reason as in `refute_auto`, leaving the Compatible mode without a device
  defers an Open that nobody answers: a search that finds nothing, or a capture that is
  refused at once, sends no event about it (`run.rs:1055-1191`, `1372-1421`; only a capture that
  fails later does, `run.rs:682-701`).  `OpenIsKept` names the case (`Forsake`).  A resolution pending for Optimal that answers
  after Strict was chosen sets the mode back (against `run.rs:360`).  A recapture while an older claim still
  holds the name is refused by ourselves.  A name lost while Acquiring is ignored, and
  the claim that then succeeds is Held without it.
* `ended` may be set by a period that read `eof` before a seek cleared it; the path is
  then closed right after the seek (`render/mod.rs` ~169, against
  `exclusive_path.rs:158`).
* A seek does not land on its target: `DsdDecoder::seek` goes to the start of a block of a
  DSF file (`audio/dsd.rs:1128-1152`), `Decoder::seek` to that of a packet and drops the
  place that Symphonia tells (`audio/decoder.rs:576-584`), while `poll_seek` sets
  `base_frame = target` all the same (`audio/worker.rs:432-434`).  Frames before the target are
  heard, and the position, the published end with it, is off by as much until the next
  seek.  A seek that is refused shows the target as the position, too, and
  what the feed held is lost.  `PositionIsTrue`, `EndedIsComplete` and `Listener` state what holds.
* On the exclusive path a failure of the decoder is taken for the end of the track: nobody
  reads `decode_events` (`exclusive_path.rs:32-34`), and `poll_session` reports `Ended`
  (`run.rs:2578-2583`), although `run.rs:2535-2538` (ТЗ-87) calls such a failure a skip and not an
  end.  Up to `WORKER_CHUNK_FRAMES` frames of silence come before it, since `FloatFeed::refill`
  has sized its buffer when the source fails (`worker.rs:181-207`, `388-416`).
  `EndedIsComplete` names the case (`failed`).
* A DoP stream at volume 50 is told as "not bit-perfect: volume" although nothing can
  change it (`verdict.rs:68`).  A change of mode opens the new stream with the old
  mode's volume (`run.rs` ~1636).  The badge of the Compatible mode is stale after a
  change of its settings (ТЗ-57, ТЗ-60).  For DSD converted to PCM the decoder takes its
  own rate, not the plan's (`source.rs:229`).
* For more than one channel and devices with both fewer and more of them, Strict
  refuses and Optimal mixes down although the wider one would lose nothing.

## 7. What is proved

Eight modules hold proofs; all obligations are checked by SMT, Zenon and LS4.
Nothing is assumed but the named `ASSUME`s on constants.

**`PersistProofs`**, first part, is about `Writer` under `WriterClient`: any number of commands in any
order, a stop and a disconnect at any time, a writer that lives or was never spawned,
failures of every call.  The induction is over

    WriterInv == TypeOK /\ IdsBelowCounter /\ JobsHaveSnapshots /\ WritesInOrder

`IdsBelowCounter` says that ids everywhere are below the client's counter, so a new
snapshot is newer than all; `JobsHaveSnapshots` that a slot is full exactly when one
job of its file is queued, so a job finds its snapshot and a second job cannot
appear; `WritesInOrder` that for each file the ids on disk, in the job, in the slot
and in the channel grow strictly in this order.

**`PersistProofs`**, second part, is about `Persist`: tracker, handlers, exit, writer thread and disk,
for any number of changes, ticks, answers, failures and Retries, any texts and any
intervals.  All five safety properties of the run `persist` are proved, from one
induction over `IInv`:

* `WriterInv`, taken over: every step of `Persist` is a step `WriterClient` allows
  (`PersistIsClient`), so its invariant and its refinement hold here too.
* `OnTheWay`: per file, ids in flight are ids answered unseen or still to be answered, in
  one order throughout (`Mirror`); the newest was taken by a job or is queued
  (`NewestIsTaken`); a snapshot answered `Superseded` has a newer one behind it
  (`NewerFollows`).  Without the last the queue could become empty by an answer
  that says nothing about the disk, and the exit would have nothing to report.
* `TextsAgree` and `ReferenceFollows`: the writer has the texts the tracker noted,
  and between a replacement and the handling of its answer the disk holds the text
  of the newest answer unseen.  `ReferenceIsDisk` alone is not inductive: it says
  nothing of the time in which it has to become true.
* `RescueFirst`, `OriginalStays`, `Bans`, `QuarantineIsPlaylist`: the copy or the
  quarantine of a damaged file is in front of every write of it in channel and queue,
  and nothing lists a file that was not read.
* `ChangesGrow`: numbers of playlist changes grow along the queue, so `Later` in
  `RefAfterWritten` takes what was written.
* `Scheduled`: what the timer has to write is on the clock or on the list being sent.
* `Exit`: during the exit every file is to be sent, waited for (the newest
  snapshot in flight, whose text is the one wanted or whose file is banned) or settled.

The proof goes by what a step does to the channels (`StepKind`: send, take, work,
export, quarantine, or nothing), with a lemma per conjunct and kind; the conjuncts that
depend on the handler are proved action by action.  TLC checked `IInv` on the states
of the run `persist` before it was proved.

**`PersistProofs`**, third part, is about `AtomicWrite`: `TargetInv` says for each place
within a call what the temporary inode and the directory of memory and medium may hold;
`TargetIsWhole` and `ConfirmedTextSurvives` follow, for any number of calls.

**`EngineProofs`** is about `Engine`: any devices, cards and outdated ids, any number of
captures, openings, losses and changes of mode.  All four properties of the run
`engine` are proved from one induction over `IInv`, which says of the record of the
engine, whenever no handler runs:

* `OneClaim`: `Held` has one claim, beside the path or in it, with the number of the
  last attempt and the device the engine waited for; no other state has one.
* `Resolving`: a resolution is waited for only while the lock shows Acquiring, was asked
  for in a state without a device, and names the mode that asked.  Without it the
  late answer, which takes the state *before* the question, could undo a capture.
* `Deferred`, `PointIsCurrent`, `Silent`: what is kept for later (the opening, the point
  to come back to) belongs to the state of the lock and to the current track, and
  would not play after a loss.
* `NoLockInCompatible`, and `Numbered`: jobs and answers carry numbers of attempts made,
  and one with the last number is for the device waited for.  This is what lets a
  late answer be told from the awaited one.
* `Worked`: whoever shows Acquiring is waited for.

A handler calls others and may pass through states where parts of this do not
hold: `SetActiveMode` enters the lock twice, a capture ends before the opening it
waited for is answered.  So the lemmas follow the methods: what each one changes
(`PerformDoes`, `StartClaimDoes`, `SettleDoes`...), then that it keeps `Good` (the
invariant with the threads just started), then one lemma per command, message and
step of a thread.  The converse of `NoLockInCompatible` is false (`refute_auto`): the
attempt to prove it is how that difference was found.

**`PlayerProofs`** is about `Playlist` and about `Player` on top of it: any rows, any
columns and keys, any number of operations, queues of any length between the UI and
the engine.  All five properties of the run `player` are proved, from four
invariants, each inductive with those before it:

* `TableInv`: `rows` and `visible` list the same ids once each, all given out before, each
  with a key; the order is `Resorted` of the rows unless tags have changed
  (`stale`).  That ids are below `nextId` is what makes a new row new.  A stable sort
  has exactly one result (`SortedOnce`, `SortedExists`: at most one sorted list of a
  finite set, and at least one), so a row inserted by binary search into a sorted
  order gives what sorting everything would.
* `PassInv`: history, current and upcoming are apart and make up the rows, and nothing
  handed out is upcoming (`Parts`, `PassOf`).
* `QueueInv`: nothing on its way is of an Open later than `req`; what is of the last one
  asks for the awaited row or answers about it (`Awaits`), in commands, events,
  batch, opened and applied alike.  `AnswerGoesToItsRow` speaks only of the moment of the
  answer; the row may have moved many times between the question and it, and
  `Moved` has to keep every message of the last Open about the same *track*.
* `SoundInv`: openings on their way rise and are later than the open track and all
  reports; no Play is behind an Open; a row that is gone while its track may sound is
  followed by a Stop; an end that will be believed is that of the row shown.
  `ShownIsSounding` is about the moment when nothing is on its way, and says
  nothing of the commands that lead there.

Each operation of AppCore, each handler of the queue and each step of the engine has
a lemma per invariant.  `Only` (`Vec::retain`) is a recursive function: what it returns is
proved along the length of the sequence by taking the shortest counterexample
(`NatStep`), which needs no induction theorem.  TLC checked the four invariants on all
states of the run `player` before they were proved.

**`CompatibleProofs`**: any tracks, devices, rates, volumes, any number of openings and
failures of each.  `CompatibleInv` adds to the types: a Player's stream has a session,
goes to a chosen output that is no hardware, and the gain is the Player's volume
(`Sane`); the engine knows the session's track, and what it calls stopped does not play
(`EngineKnows`); the Player has been told what the settings are, and unless something
was changed while stopped its stream is what its fields ask for (`Told`, `UpToDate`).
`EngineKnows` is what `GoesOnOrIsTold` needs: the two ways of a change of settings that
report nothing, an engine without a track and a stopped one, are then those in which
nothing sounds.  The attempt to prove `StreamIsAsSet` in its first form, where no reason
was to be given without a loss, failed for a good reason: when the fixed rate is one the
device lacks, the nearest may be that of the track, and `choose_output` still gives
the reason `RateUnsupported`, which is about the wish.  The device that shows it is now
among those of the run, and the property says which reasons mean a loss.

**`SessionProofs`**: `RingInv == TypesOK /\ Handshake /\ RingIsCurrent` is inductive by
itself: `Handshake` says which of the generations asked, requested, acknowledged and
seen may differ at each place of the decoder and the callback.  `PosInv` adds
`SourceInv` and `StreamInv`, where decoder, tail, ring and callback are relative to the frame
the source stood at after the last seek (`landed`) and how far that may be from the target,
and gives `PositionIsTrue`.  `EndInv` adds what the decoder has counted and published
as its end (`Counted`, `EofIsKnown`) and what the callback may flag (`FlagIsDue`): the
callback looks at the end in one step and raises the flag in a later one, so a seek may
clear the flag in between, and only with these three is `EndedIsComplete` inductive.
`HeardInv` adds to `PosInv` that everything is inside the track or, after a failure, the
silence behind it (`InTrack`), where the
decoder stands while a generation is not yet acknowledged (`Waits`) and that what was
handed to the device, the ring and the decoder follow each other (`Follows`).  With it
every step of a thread is a step of `Listener` or leaves it as it is: that is
`ImplementsListener`.  For any sizes under `SessionAssumption`.

**`SignalPathProofs`** begins with lemmas about the stages of `plan`; then comes the
induction over `TypesOK /\ PathOK /\ ShownOK /\ StrictIsLoud`: a path is built from a
sound plan (`SoundPlan`), what is shown is of that path.  For all sources, devices
and options under `SignalPathAssumption`, which asks that a device that takes doubles
reports its formats: for one that reports none `LossIsReported` fails.

**`WindowsProofs`** is about `Windows` (with `Dialog` and `MessageCenter`), `Wheel`, `Geometry`
and `FullTrack`, which share no variable.

*The draft*: `DraftInv == TypesOK /\ ReadsApart /\ ThemeState /\ OnlyEdited`: the
questions to `apap-io` carry different generations, the state of the theme says what
the last of them was, and a field of the draft differs from the value in force only if
the user edited it or it changed elsewhere.

*The messages*: `WindowInv` has three parts.  `OnScreen` ties each block reason of the gate to
what is on the screen and says that no message waits while none is shown.  `Causes` says
of each cause how often its message is there, shown or queued: the summary of write errors
once while there are any, the notice of the mode while its flag is up, of the messages about
the lock the one that `lockMsg` names and no other, and that one only in a lock that failed
for its reason.  `LoadInv` says that a file dialog is open only while nothing loads and that
a load waits for a generation that was asked for.  An operation of the centre may move
messages, show the next or drop some, so the lemmas say of each operation what it does to
*one* message (`Here`, `Once`); a handler is then a row of such steps.  Of the constants only
`NoneAssumption` is used: what stands for nothing is no message, draft, load or file dialog.

*Scrolling*: `WheelInv` adds `MarksAgree` (while the filter sees every event the monitor
sees, no mark is left for a later event) and `TrayBegins` to what the run checks; the rest
is the arithmetic of a quotient that rounds towards zero.

*The geometry*: `GeometryInv` says when a user who has done nothing finds everything as
restored: before the window is shown nothing is asked; afterwards the window is maximized
and full as it was, but for what the window system has still to do (`InTime`), and once
the first reading is made the next one equals it.  `GeometryAssumption` keeps the size
of a maximized window apart from the ordinary ones.

*The pictures*, for any tracks, parameters and sizes of both caches, any number of requests,
builders, changes of files and starts of the program.  `PicturesInv` has, besides what the run checks:

* `Memory`, `Stored`, `Readies`: whatever a cache, the directory or an answer holds is a picture of
  its key and of no older file; in the directory, if it is not torn and has a time.
* `Careful`: the key of a builder is not of a younger file than the one it will open, and its
  picture not of an older one.  The metadata are read before the file is opened; the
  other order could store a picture of an old file under a new key.
* `CommandsInv`, `BuilderInv`: numbers of requests grow along the queue and are greater than
  those of all builders; what carries the last number is what the target asks for, unless
  the file is another one by now (`KeyOfTarget`).
* `TargetInv`: the target is of the file that was looked at last.

`PictureIsOnItsWay` names three places for the last request; the proof follows it from one to
the next.  A builder that gives up was told so, and one that was told is not the last; a
`Cancel` behind a `Build` is of a later request.  That `Drained` takes the answers one after
the other is proved along their number as for `Only` (`NatStep`).

**`DocumentsProofs`** is about `Documents`: any strings, columns, cover sources and labels, any
devices, any damage of the files, any number of edits and of runs of the program.
`DocumentsInvariant` says what the values in memory agree on (`SettingsOK`, `StateOK`) and one thing
about a document: what stands under the key of an order is a list if it is a list at all
(`ListsOK`).  Nothing more is asked of the file, since the hooks of `parse_settings` and
`parse_state` have to make agree whatever `walk` gives them.

* An order is completed (`adjust_column_order`, `adjust_cover_priority`): what was listed, each item
  once, then what was left out.  `Picked` goes along a list, so its lemmas are proved along
  the number of items (`PickedSteps`, `NatStep`).
* The buffers: `reconcile_device_buffer` raises the buffer of a mode to the floor of its
  device, or leaves the device its automatic buffer; `apply_device_buffer`, `apply_buffer` and
  `set_device` do so after an edit (`RaisedIs`, `BufferEdits`).
* The pairs of the state: `adjust_sort_pair` and `adjust_window_geometry` drop the half of a pair.

An edit writes one key, or the keys under a prefix.  Most keys are bound to no other, and
what writes only such keys keeps `SettingsOK` whatever it writes (`OthersFree`, `SetFree`,
`ChangeFree`); the work is to show that paths put together in different ways differ
(`SectionAt`, `PrefixIs`, `KeysDiffer`, `PairsDiffer`).  Of the assumptions, `KeysAssumption`
(what stands for nothing is no value), those that say which names are strings, and
`DocumentsAssumption` are used: the list of the Compatible mode has devices of the audio
server, the tracker reports both coordinates of a place or none.

`SurvivesRestart` needs the tables key by key.  `Remembers` is its invariant: what is in memory
and what was saved last fit the tables (`SettingsFit`, `StateFits`: each key has a value of its
kind, `Holds`, or none if it may lack one), a document has paths and raw values only, and a file
that nobody changed is what was written of `kept`.

* The tables are sound (`SettingsSpecOK`, `ModeSpecOK`, `StateSpecOK`): every default is a value
  of its key, every word that is read can be written and is read as itself, and no key that
  may be absent is the table of another (`Leaves`), so an absent key is not found as a table.
* What is read fits, whatever the document says (`ParsedSettingsFit`, `ParsedStateFits`), and what
  an edit leaves fits (`ThemeFits` to `EditDopFits`, `VolumeFits` to `WidthsFit`): the limits of every
  slider, clamp and list are inside what the reader takes.
* What fits and agrees is written so that it is read again as it was (`SettingsRoundTrip`,
  `StateRoundTrip`): no key is missing, none is unknown (`SavedFrame`: `[playback]` is well formed),
  and no hook corrects anything (`CompletedSame`, `Correct`), which is where `DocumentsInvariant`
  is needed.

`DamageIsLocal` is about the reading of a file that somebody has changed since.  It needs one
more invariant, `DamagedOnly`: a file that can be parsed differs from what was saved only
under the paths in `damaged`, and under an entry of a device there is no deeper leaf (`Pointed`).
A path that was not touched then says what it said, as its value, table or absence, so its
key is read as it was saved, unless the other of a pair (`Together`) or the frame of
`[playback]` is damaged.  Of a damaged key the proof follows each
reader to its ways out: the value in the file is taken, an optional key is absent, the half
of a place or a size is dropped, or a remark names the key.

TLC found the property as first stated too strong: a value put below one of a pair of keys, or
below the version of `[playback]`, removes that key with the document it stood in and is told
under another name.  `Along`, `Together` and `Frame` say now which keys go together in the code.

| Theorem | Says |
|---|---|
| `PersistProofs!WriterInvariant` | The inductive invariant of the writer thread under any client. |
| `PersistProofs!TypeCorrect` | Types of the thread, its channels and the disk, for every client. |
| `PersistProofs!EveryJobHasItsSnapshot` | Slots and jobs agree one to one, for any number of commands: the early return of run_job is never taken. |
| `PersistProofs!FilesMoveForward` | Snapshots of one file are written in the order they were sent, through any failures and supersessions. |
| `PersistProofs!NothingLeftBehind` | The thread ends only with all accepted work done. |
| `PersistProofs!WriterImplementsSavedFiles` | The thread implements the abstract register file. |
| `PersistProofs!PersistInvariant` | The inductive invariant that ties tracker, writer thread, disk, timer and exit together. |
| `PersistProofs!PersistIsClient` | AppCore uses the writer as a client `WriterClient` allows: its theorems hold in the program. |
| `PersistProofs!SessionImplementsSavedFiles` | The working files of a session are files written in the order of their snapshots. |
| `PersistProofs!TrackerMirrorsWriter` | What the tracker believes to be in flight is what the writer has to answer, in that order. |
| `PersistProofs!ReferenceIsRight` | With nothing in flight the reference is what the file holds. |
| `PersistProofs!NoChangeIsForgotten` | While an unsaved change waits the deadline runs. |
| `PersistProofs!NoOriginalIsLost` | A file not read at start is never written, except the settings after a save by the user or, against И-Р20, for a device the engine chose; a damaged one only after its rescue was tried. |
| `PersistProofs!ExitTellsTheTruth` | What the exit reports of each file is true, whatever is in flight when it begins. |
| `EngineProofs!EngineInvariant` | The inductive invariant of the engine thread against captures, resolutions, losses and changes of mode. |
| `EngineProofs!LockIsTheClaim` | The lock is Held exactly while one claim is alive, that of the last attempt and of the device it names. |
| `EngineProofs!HourglassEnds` | A lock that shows Acquiring has a thread or an answer behind it. |
| `EngineProofs!OpenIsNeverLost` | An Open is answered, dropped, or deferred while a capture is waited for, except one deferred while a device was looked for in vain; none stays deferred once the device is held. |
| `EngineProofs!LossStaysSilent` | After a loss of the device nothing plays until the user says so. |
| `PlayerProofs!PlaylistInvariant` | The inductive invariant of table and Shuffle pass under every operation of AppCore. |
| `PlayerProofs!TableAlwaysMatches` | The visible order holds the rows of the source order once each and is sorted unless tags have changed since. |
| `PlayerProofs!PassAlwaysDivides` | History, current and upcoming share out the rows, and no row handed out comes again in the pass. |
| `PlayerProofs!PlayerInvariant` | The inductive invariant of queue and engine: nothing on its way is of an Open not yet sent, and all of the last Open is about the awaited row. |
| `PlayerProofs!TableMatchesInPlay` | The table is right also under the tick: tags of an opened file, scanned files, loaded playlists. |
| `PlayerProofs!PassDividesInPlay` | The pass shares the rows out also under skips, ends, Next, Previous, removals and loads. |
| `PlayerProofs!AnswerAlwaysGoesToItsRow` | The answer that is accepted is that of the awaited row, wherever it has moved. |
| `PlayerProofs!AwaitedAlwaysComes` | The command or the answer of what is awaited is on its way. |
| `PlayerProofs!ShownAlwaysSounds` | With nothing on its way, what sounds is the track of the current row, but for the exceptions `strayed` marks. |
| `PersistProofs!InductiveInvariant` | The inductive invariant of write_atomic: what memory and medium may hold at every call. |
| `PersistProofs!TargetIsWhole` | No kill and no loss of power leaves a torn target, for any number of calls and inodes. |
| `PersistProofs!ConfirmedTextSurvives` | A text whose write was confirmed, or a later one, is what any restart finds. |
| `SignalPathProofs!PathInvariant` | The inductive invariant: plans are sound, the path is built from its plan, the badge is that of the path. |
| `SignalPathProofs!BadgeStaysTrue` | The bit-perfect badge is true for all tracks, devices and options. |
| `SignalPathProofs!LossStaysReported` | A plan lists a loss exactly when its two ends differ, for all tracks, devices and options. |
| `SignalPathProofs!StrictPlansAreExact` | A plan accepted in the Strict mode carries the source whole. |
| `SessionProofs!HandshakeInvariant` | The inductive invariant of the three phases of a seek, for any sizes of ring, packet and period. |
| `SessionProofs!RingStaysCurrent` | The ring holds frames of the acknowledged generation only, however seeks interleave. |
| `SessionProofs!PositionInvariant` | Where decoder, ring and callback are in the source, relative to each other and to where the last seek landed. |
| `SessionProofs!PositionStaysTrue` | At rest the position is the frame after the last one handed to the device, shifted by as much as the last seek landed off its target (by `Align` at most if it was carried out). |
| `SessionProofs!EndInvariant` | What the decoder has counted and published and what the callback has flagged agree, however seeks come between. |
| `SessionProofs!EndIsTheEnd` | When the engine sees the end, all that the source has yielded since the last seek was heard, and it is at the end of the track or has failed. |
| `SessionProofs!HeardInvariant` | What was heard, what is in the ring and what the decoder writes next follow each other without a gap, after early and refused seeks and failures of the source. |
| `SessionProofs!SessionIsHeardAsPromised` | The three threads of a session implement `Listener`, which knows how far before its target a seek may land and what a failing source leaves. |
| `CompatibleProofs!CompatibleInvariant` | Stream, session, engine and settings of the Compatible mode, through every opening, reopening and failure. |
| `CompatibleProofs!StreamFollowsSettings` | What is open has the dither, the gain and the rate in force or the report why not, never on bare hardware. |
| `CompatibleProofs!SoundGoesOn` | A change of settings, volume or devices keeps what sounds at its place, or the queue is told. |
| `WindowsProofs!DraftInvariant` | The inductive invariant of the draft: generations of readings apart, theme state against values, edited fields. |
| `WindowsProofs!SaveStaysWhatWasChosen` | What Save applies is what the user chose, for all themes, devices, files and bounds. |
| `WindowsProofs!WindowInvariant` | Messages, gate, file dialogs and loads: every cause has its one message, the gate is what is on the screen. |
| `WindowsProofs!NothingIsStuck` | The window is blocked exactly by what is shown, and no message waits while it could be shown. |
| `WindowsProofs!CausesHaveWindows` | Write errors, the notice of the mode and the failed lock have their one message as long as they last, and no other is left. |
| `WindowsProofs!ScrollingStaysFollowed` | Steps and remainder of a swipe add up to what the fingers moved unless the limit cut it, the tray loses nothing, inertia moves nothing while no event went astray. |
| `WindowsProofs!GeometryStaysTheUsers` | The size of a maximized or full window is never kept as its ordinary one, and what was restored costs no writing and is not lost. |
| `WindowsProofs!PicturesInvariant` | Requests, builders, answers and both caches: numbers in order, keys no younger than what is read, the last request followed to its answer. |
| `WindowsProofs!PicturesStayRight` | The picture shown is of the last request, a cache gives what the key says, and no request is lost. |
| `DocumentsProofs!DocumentsAreFit` | What a run holds in memory agrees with itself, whatever the file says. |
| `DocumentsProofs!ValuesAgree` | Orders name everything once, both buffers fit each other, sort key, place and size are whole, whatever was edited, damaged and read. |
| `DocumentsProofs!RunsRemember` | Every value an edit leaves is one the reader takes, and a file nobody changed says what was saved last. |
| `DocumentsProofs!RunsSurviveRestart` | What one run saved is what the next one has, with nothing remarked. |
| `DocumentsProofs!DamageStaysLocal` | A key changed by hand loses its own value and those it is bound to; what stands instead is what the file says, nothing where it may say nothing, or remarked; without `[playback]`, the defaults. |

Only model-checked: the liveness properties, which are outside what the prover handles.

## 8. Not modelled

* **Numbers of the sound**: decoding, filters, DSD to PCM, dither, spectra.  Their
  control (positions, ends, resets) is in `Session` where it matters.
* **Backends**: calls of ALSA, WASAPI, CoreAudio, cpal; their results are inputs.
* **Reservation over D-Bus**: that a name is got, lost or released is an input of
  `Engine`; the messages on the bus are not modelled.
* **Journal, texts, covers, metadata, M3U8, themes, table of parameters, tray and other
  OS layers, visualizer**: display, texts and thin calls of the OS.
