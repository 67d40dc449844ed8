------------------------------- MODULE Player -------------------------------
(***************************************************************************)
(* The play queue (app/playback_manager.rs, app/playlist_manager.rs,       *)
(* app/mod.rs), its mirror of the engine (app/ui_audio_state.rs) and the   *)
(* engine in the Compatible mode (engine/run.rs, audio/player.rs), which   *)
(* runs in a thread of its own.  The UI sends commands and reads events on *)
(* its tick.  In this mode there is no device lock.                        *)
(*                                                                         *)
(* Rows are named by their position in the visible order, as in the code.  *)
(***************************************************************************)
EXTENDS Playlist

VARIABLES
  current,     \* position of the current track, or None
  pending,     \* pending_open: position whose opening is awaited, or None
  skipStreak,  \* tracks skipped in a row
  req,         \* number of the last Open (req_gen, latest_req_gen)
  session,     \* number of the Open whose track is open, or None
  ended,       \* UiAudioState.ended
  opened,      \* the accepted Opened not yet taken, or <<>>
  phase,       \* the UI thread: idle, or what is left of tick: apply, dispatch
  batch,       \* events taken from the channel and not yet applied
  applied,     \* engine_applied: events accepted and not yet dispatched
  cmds,        \* commands on their way to the engine
  events,      \* events on their way to the UI
  engine,      \* the open track of the engine and what becomes of it
  strayed      \* for the properties: the queue has lost its row (see the end)

mirrorVars == <<req, session, ended, opened>>
queueVars == <<current, pending, skipStreak>>
tickVars == <<phase, batch, applied>>
playerVars == <<playlistVars, queueVars, mirrorVars, tickVars, cmds, events,
                engine, strayed>>

Silence == [gen |-> None, id |-> None, state |-> "none", failed |-> FALSE]

\* Events and commands; those without a track have id None.
Open(g, id) == [type |-> "Open", gen |-> g, id |-> id]
Play == [type |-> "Play", gen |-> None, id |-> None]
Stop == [type |-> "Stop", gen |-> None, id |-> None]
Event(t, g, id) == [type |-> t, gen |-> g, id |-> id]

Send(c) == cmds' = Append(cmds, c)

-----------------------------------------------------------------------------
\* The engine.

\* Mutant: a track that cannot be opened is not reported.
OpenSilently ==
  /\ cmds # <<>> /\ Head(cmds).type = "Open"
  /\ cmds' = Tail(cmds)
  /\ LET c == Head(cmds)
     IN \/ /\ engine' = [gen |-> c.gen, id |-> c.id, state |-> "paused",
                         failed |-> FALSE]
           /\ events' = Append(events, Event("Opened", c.gen, c.id))
        \/ UNCHANGED <<engine, events>>

\* handle(Open): the track is open and paused; or its file is no good and the
\* old track stays; or the output cannot be set up for it and the old track
\* is gone, which is the fault of the file or of the engine.
EngineOpen ==
  /\ cmds # <<>> /\ Head(cmds).type = "Open"
  /\ cmds' = Tail(cmds)
  /\ LET c == Head(cmds)
     IN \/ /\ engine' = [gen |-> c.gen, id |-> c.id, state |-> "paused",
                         failed |-> FALSE]
           /\ events' = Append(events, Event("Opened", c.gen, c.id))
        \/ /\ events' = Append(events, Event("Skipped", c.gen, c.id))
           /\ UNCHANGED engine
        \/ /\ engine' = [engine EXCEPT !.state = "none"]
           /\ \E t \in {"Skipped", "OpenFailed"} :
                events' = Append(events, Event(t, c.gen, c.id))

\* handle(Play): a track that is over starts again.
EnginePlay ==
  /\ cmds # <<>> /\ Head(cmds).type = "Play"
  /\ cmds' = Tail(cmds)
  /\ engine' = IF engine.state = "none" THEN engine
               ELSE [engine EXCEPT !.state = "playing"]
  /\ UNCHANGED events

\* handle(Stop): back to the start of the track.
EngineStop ==
  /\ cmds # <<>> /\ Head(cmds).type = "Stop"
  /\ cmds' = Tail(cmds)
  /\ engine' = IF engine.state = "none" THEN engine
               ELSE [engine EXCEPT !.state = "paused"]
  /\ UNCHANGED events

\* poll_session: the track is over.  It is not reported after a failure.
EngineEnds ==
  /\ engine.state = "playing"
  /\ engine' = [engine EXCEPT !.state = "over"]
  /\ events' = IF engine.failed THEN events
               ELSE Append(events, Event("Ended", engine.gen, engine.id))
  /\ UNCHANGED cmds

\* poll_session: the decoder fails in the middle of the track.
EngineFails ==
  /\ engine.state \in {"paused", "playing"} /\ ~engine.failed
  /\ engine' = [engine EXCEPT !.failed = TRUE]
  /\ events' = Append(events, Event("Skipped", engine.gen, engine.id))
  /\ UNCHANGED cmds

EngineCommand ==
  /\ EngineOpen \/ EnginePlay \/ EngineStop
  /\ UNCHANGED <<playlistVars, queueVars, mirrorVars, tickVars, strayed>>

EnginePolls ==
  /\ EngineEnds \/ EngineFails
  /\ UNCHANGED <<playlistVars, queueVars, mirrorVars, tickVars, strayed>>

-----------------------------------------------------------------------------
\* The play queue.

\* play_track of the row at position i of the order v; sent is what the
\* handler sent before.
PlayTrack(i, v, sent) ==
  IF i \notin DOMAIN v
  THEN cmds' = cmds \o sent /\ UNCHANGED <<pending, req, ended>>
  ELSE /\ req' = req + 1
       /\ ended' = FALSE
       /\ pending' = i
       /\ cmds' = cmds \o sent \o <<Open(req + 1, v[i])>>

\* advance_index, positions from 1.
AdvanceIndex(i, step, n, rep) ==
  IF n = 0 THEN None
  ELSE IF i = None THEN 1
  ELSE LET at == (IF i > n THEN n ELSE i) + step
       IN IF at \in 1 .. n THEN at
          ELSE IF rep # "all" THEN None
          ELSE IF at > n THEN 1 ELSE n

\* next_track_index, after which the handler goes on with Then.
WithNext(rep, Then(_)) ==
  IF shuffle
  THEN \E id \in ToSet(visible) \cup {None} :
         TakeNext(id) /\ Then(IndexOf(visible, id))
  ELSE /\ Then(AdvanceIndex(current, 1, Len(visible), rep))
       /\ UNCHANGED passVars

\* The position after an operation of what was at position i before.
Moved(i) == IF i \notin DOMAIN visible THEN None
                                       ELSE IndexOf(visible', visible[i])

\* playlist_op around an operation that ends in visible', with i as current.
PlaylistOp(i) == current' = Moved(i) /\ pending' = Moved(pending)

-----------------------------------------------------------------------------
\* tick: the events of the engine.

\* The events there are, are taken from the channel.
TickBegins ==
  /\ phase = "idle"
  /\ phase' = "apply"
  /\ batch' = events
  /\ events' = <<>>
  /\ UNCHANGED <<playlistVars, queueVars, mirrorVars, applied, cmds, engine,
                 strayed>>

\* Mutant: what an older Open brought is taken for the answer.
AnswersAnything(e) == TRUE

\* Opened, Skipped and OpenFailed of an older Open are dropped.
Answers(e) == e.gen >= req

\* UiAudioState::apply.  An end is dropped when its track is not the one open.
ApplyEvent ==
  /\ phase = "apply" /\ batch # <<>>
  /\ batch' = Tail(batch)
  /\ LET e == Head(batch)
     IN /\ \/ /\ e.type = "Opened" /\ Answers(e)
              /\ session' = e.gen
              /\ opened' = <<e>>
              /\ UNCHANGED <<ended, applied>>
           \/ /\ e.type \in {"Skipped", "OpenFailed"} /\ Answers(e)
              /\ session' = None
              /\ applied' = Append(applied, e)
              /\ UNCHANGED <<ended, opened>>
           \/ /\ e.type = "Ended" /\ session = e.gen
              /\ ended' = TRUE
              /\ UNCHANGED <<session, opened, applied>>
           \/ /\ IF e.type = "Ended" THEN session # e.gen ELSE ~Answers(e)
              /\ UNCHANGED <<session, opened, applied, ended>>
        /\ strayed' = (strayed \/ (e.type = "Ended" /\ session = e.gen /\ e.gen # req))
  /\ UNCHANGED <<playlistVars, queueVars, req, phase, cmds, events, engine>>

\* drain_engine_events, take_opened: the awaited row becomes the current one
\* and plays (on_track_opened); its tags are those of the file.
TakeOpened ==
  /\ phase = "apply" /\ batch = <<>>
  /\ phase' = "dispatch"
  /\ opened' = <<>>
  /\ pending' = IF opened = <<>> THEN pending ELSE None
  /\ IF opened = <<>> \/ pending \notin DOMAIN visible
     THEN UNCHANGED <<playlistVars, current, skipStreak, cmds, strayed>>
     ELSE /\ \E k \in TrackKeys : UpdateTags(visible[pending], k)
          /\ current' = pending
          /\ skipStreak' = 0
          /\ Send(Play)
          /\ strayed' = FALSE
          /\ UNCHANGED <<shuffle, repeat>>
  /\ UNCHANGED <<batch, applied, req, session, ended, events, engine>>

\* The track to go on with after a skip, or Stop.
SkipTo(i) == IF i = None THEN Send(Stop) /\ pending' = None /\ UNCHANGED <<req, ended>>
                         ELSE PlayTrack(i, visible, <<>>)

\* dispatch_applied(Skipped): the next track, unless that were all of them.
\* Repeat One does not repeat a track that is no good.
Skip ==
  /\ skipStreak' = skipStreak + 1
  /\ IF visible = <<>> \/ skipStreak + 1 >= Len(visible)
     THEN Send(Stop) /\ pending' = None /\ UNCHANGED <<req, ended, passVars>>
     ELSE WithNext(IF repeat = "one" THEN "all" ELSE repeat, SkipTo)

\* dispatch_applied(OpenFailed): on_open_failed stops.
OpenFailed == /\ Send(Stop)
              /\ pending' = None
              /\ UNCHANGED <<req, ended, skipStreak, passVars>>

Dispatch ==
  /\ phase = "dispatch" /\ applied # <<>>
  /\ applied' = Tail(applied)
  /\ IF Head(applied).type = "Skipped" THEN Skip ELSE OpenFailed
  /\ UNCHANGED <<tableVars, shuffle, repeat, current, session, opened, phase,
                 batch, events, engine, strayed>>

-----------------------------------------------------------------------------
\* tick: the end of the track.

\* The events are dealt with; the tray, a load and a scan are polled.
Polling == phase = "dispatch" /\ applied = <<>>

\* The track that follows, or no flag any more.
AutoAdvanceTo(i) ==
  IF i = None THEN ended' = FALSE /\ UNCHANGED <<cmds, pending, req>>
              ELSE PlayTrack(i, visible, <<>>)

\* handle_auto_advance, the last of the tick that concerns the queue.
TickEnds ==
  /\ Polling
  /\ phase' = "idle"
  /\ IF ~ended \/ current = None THEN UNCHANGED <<passVars, cmds, pending, req, ended>>
     ELSE IF repeat = "one"
     THEN Send(Play) /\ ended' = FALSE /\ UNCHANGED <<passVars, pending, req>>
     ELSE WithNext(repeat, AutoAdvanceTo)
  /\ UNCHANGED <<tableVars, shuffle, repeat, current, skipStreak, session,
                 opened, batch, applied, events, engine, strayed>>

-----------------------------------------------------------------------------
\* What the user does, in the window or, within a tick, in the tray.

\* A row is double-clicked; "Play" of a stopped player does it to the current
\* or the first row (play_via_open_if_stopped).
PlayRow(i) ==
  /\ PlayTrack(i, visible, <<>>)
  /\ UNCHANGED <<playlistVars, current, skipStreak, session, opened>>

\* What play_next does with the position it finds.
GoTo(i) == IF i = None THEN UNCHANGED <<cmds, pending, req, ended>>
                       ELSE PlayTrack(i, visible, <<>>)

\* play_next(1).
PressNext ==
  /\ IF visible = <<>> THEN UNCHANGED <<passVars, cmds, pending, req, ended>>
                       ELSE WithNext(repeat, GoTo)
  /\ UNCHANGED <<tableVars, shuffle, repeat, current, skipStreak, session, opened>>

\* play_prev in the first seconds of a track, later it is only a seek.
PressPrev ==
  /\ IF visible = <<>> THEN UNCHANGED <<passVars, cmds, pending, req, ended>>
     ELSE IF shuffle
     THEN \E id \in ToSet(visible) \cup {None} :
            TakeBack(id) /\ GoTo(IndexOf(visible, id))
     ELSE /\ GoTo(AdvanceIndex(current, -1, Len(visible), repeat))
          /\ UNCHANGED passVars
  /\ UNCHANGED <<tableVars, shuffle, repeat, current, skipStreak, session, opened>>

PressStop == /\ Send(Stop)
             /\ UNCHANGED <<playlistVars, queueVars, mirrorVars>>

\* Mutant: the engine is not told that its track was removed.
RemoveRowPlayingOn(i) ==
  /\ i \in DOMAIN visible
  /\ Remove1(visible[i])
  /\ PlaylistOp(IF current = i THEN None
                ELSE IF current > i THEN current - 1 ELSE current)
  /\ strayed' = (strayed \/ current > i \/ pending = i)
  /\ UNCHANGED <<shuffle, repeat, skipStreak, mirrorVars, cmds>>

\* remove_track(i).  A removal above the current row moves it by one before
\* playlist_op does.
RemoveRow(i) ==
  LET cur == IF current = i THEN None
             ELSE IF current > i THEN current - 1 ELSE current
  IN /\ i \in DOMAIN visible
     /\ IF current = i THEN Send(Stop) ELSE UNCHANGED cmds
     /\ Remove1(visible[i])
     /\ PlaylistOp(cur)
     /\ strayed' = (strayed \/ current > i \/ pending = i)
     /\ UNCHANGED <<shuffle, repeat, skipStreak, mirrorVars>>

\* clear_playlist.
ClearList == /\ Send(Stop)
             /\ Clear
             /\ PlaylistOp(None)
             /\ UNCHANGED <<shuffle, repeat, skipStreak, mirrorVars>>

\* sort_tracks.
SortBy(c) == /\ HeaderClick(c)
             /\ PlaylistOp(current)
             /\ UNCHANGED <<shuffle, repeat, skipStreak, mirrorVars, cmds>>

\* drain_scan with the last of a batch of files (one file here).
AddTrack(k) == /\ Add(k)
               /\ PlaylistOp(current)
               /\ UNCHANGED <<shuffle, repeat, skipStreak, mirrorVars, cmds>>

\* Mutant: the opening awaited for the old playlist is still awaited.
LoadKeepingPending(ks) ==
  /\ Replace(ks)
  /\ current' = None
  /\ Send(Stop)
  /\ UNCHANGED <<shuffle, repeat, skipStreak, mirrorVars, pending>>

\* poll_load_playlist with a playlist the user loads: playlist_replace, then
\* apply_play_now with its first track (on_command_outcome, shuffle_first).
LoadList(ks) ==
  /\ current' = None
  /\ IF shuffle /\ ks # <<>>
     THEN \E first \in nextId .. nextId + Len(ks) - 1 :
            /\ rows' = [i \in DOMAIN ks |-> nextId + i - 1]
            /\ keys' = [id \in ToSet(rows') |-> ks[id - nextId + 1]]
            /\ visible' = Resorted(Table(rows', keys', sort))
            /\ nextId' = nextId + Len(ks)
            /\ stale' = FALSE
            /\ UNCHANGED sort
            /\ history' = <<>>
            /\ passCurrent' = first
            /\ upcoming' \in SetToSeqs(ToSet(rows') \ {first})
            /\ taken' = {first}
            /\ PlayTrack(IndexOf(visible', first), visible', <<Stop>>)
     ELSE /\ Replace(ks)
          /\ IF ks = <<>> THEN Send(Stop) /\ pending' = None /\ UNCHANGED <<req, ended>>
                          ELSE PlayTrack(1, visible', <<Stop>>)
  /\ UNCHANGED <<shuffle, repeat, skipStreak, session, opened>>

PressShuffle == ToggleShuffle /\ UNCHANGED <<queueVars, mirrorVars, cmds>>
PressRepeat == CycleRepeat /\ UNCHANGED <<queueVars, mirrorVars, cmds>>

backgroundVars == <<tickVars, events, engine>>

\* In the window or, within a tick, in the tray.
TrayInput == /\ (phase = "idle" \/ Polling)
             /\ PressNext \/ PressPrev \/ PressStop
             /\ UNCHANGED <<backgroundVars, strayed>>

\* Callbacks of the window, which run between two ticks.
WindowInput ==
  /\ phase = "idle"
  /\ \/ /\ \/ \E i \in DOMAIN visible : PlayRow(i)
           \/ ClearList
           \/ \E c \in Columns : SortBy(c)
           \/ PressShuffle
           \/ PressRepeat
        /\ UNCHANGED strayed
     \/ \E i \in DOMAIN visible : RemoveRow(i)
  /\ UNCHANGED backgroundVars

\* What poll_load_playlist and drain_scan find within a tick.
Loaded(ks) == Polling /\ LoadList(ks) /\ UNCHANGED <<backgroundVars, strayed>>
Scanned(k) == Polling /\ AddTrack(k) /\ UNCHANGED <<backgroundVars, strayed>>

UserInput == \/ TrayInput
             \/ WindowInput
             \/ \E ks \in Seq(TrackKeys) : Loaded(ks)
             \/ \E k \in TrackKeys : Scanned(k)

-----------------------------------------------------------------------------
\* The playlist ks of the last session has been loaded, nothing is open.
PlayerInit(ks) ==
  /\ rows = [i \in DOMAIN ks |-> i - 1] /\ visible = rows /\ sort = <<>>
  /\ keys = [id \in ToSet(rows) |-> ks[id + 1]]
  /\ nextId = Len(ks) /\ stale = FALSE
  /\ shuffle \in BOOLEAN /\ repeat \in {"off", "all", "one"}
  /\ history = <<>> /\ passCurrent = None /\ taken = {}
  /\ upcoming \in IF shuffle THEN SetToSeqs(ToSet(rows)) ELSE {<<>>}
  /\ current = None /\ pending = None /\ skipStreak = 0
  /\ req = 0 /\ session = None /\ ended = FALSE /\ opened = <<>>
  /\ phase = "idle" /\ batch = <<>> /\ applied = <<>>
  /\ cmds = <<>> /\ events = <<>> /\ engine = Silence /\ strayed = FALSE

Tick == TickBegins \/ ApplyEvent \/ TakeOpened \/ Dispatch \/ TickEnds

PlayerNext == Tick \/ EngineCommand \/ EnginePolls \/ UserInput

PlayerSpec == /\ \E ks \in Seq(TrackKeys) : PlayerInit(ks)
              /\ [][PlayerNext]_playerVars

-----------------------------------------------------------------------------

\* The answer that is taken for the awaited opening is that of the row which
\* awaits it, although rows were sorted, added, removed or loaded and other
\* openings asked for since the command was sent (I-R14).  Otherwise the tags
\* of one file are written to the row of another.
AnswerGoesToItsRow ==
  opened # <<>> /\ pending \in DOMAIN visible => visible[pending] = opened[1].id

NothingInFlight == /\ cmds = <<>> /\ events = <<>> /\ batch = <<>> /\ applied = <<>>
                   /\ opened = <<>> /\ pending = None

\* What sounds when nothing is in flight is the current row of the table,
\* however skips, failed openings, removals and loads followed each other.
\* Known exceptions, until the next track opens: a removal above the current
\* row or of the awaited one, and an end that is
\* reported after another track was asked for.
ShownIsSounding ==
  NothingInFlight /\ ~strayed /\ engine.state = "playing" =>
    current \in DOMAIN visible /\ visible[current] = engine.id

\* While an opening is awaited, its command or its answer is on its way, so a
\* row is not awaited for ever, whatever was skipped, removed or loaded.
AwaitedIsOnItsWay ==
  pending # None =>
    \E m \in ToSet(cmds \o events \o batch \o opened \o applied) :
      m.gen = req /\ m.type \in {"Open", "Opened", "Skipped", "OpenFailed"}

=============================================================================
