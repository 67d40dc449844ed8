------------------------------ MODULE Persist ------------------------------
(***************************************************************************)
(* How APAP keeps its three working files: the UI thread (AppCore in       *)
(* core/mod.rs with PersistTracker and ExitCoordinator), the writer thread *)
(* and the two channels between them.                                      *)
(*                                                                         *)
(* The UI thread runs one handler at a time.  A handler that receives or   *)
(* sends more than one message takes several steps here, so that the       *)
(* writer thread can run in between; `ui' says where the handler is and no *)
(* other handler starts before it is idle again.                           *)
(***************************************************************************)
EXTENDS Tracker

VARIABLES
  ui,       \* "idle", "draining", "sending" or "waiting"
  outbox,   \* files whose snapshots the running handler still has to send
  phase,    \* ExitPhase: "running", "exiting", "done"
  waiting,  \* waiting[f]: the snapshot whose answer the exit waits for
  report,   \* ExitReport: what the exit says of each file
  alerts,   \* MessageCenter.write_errors: files in the error window
  load,     \* "loading" until the start-up playlist load is handled
  boot,     \* how the files were found at start
  dropped,  \* history: files whose due write was dropped because of an error
  quiet,    \* history: the session state differs by the start or by program
            \* changes alone, which start no count
  saved     \* history: who had the settings saved

uiVars == <<ui, outbox, phase, waiting, report, alerts, load, boot, dropped,
            quiet, saved>>
vars == <<writerVars, trackerVars, uiVars>>

\* How a file is found at start: it does not exist, it is there but cannot
\* be used or read, or it is fine.
Found == {"ok", "absent", "damaged", "unreadable"}

\* Who has the settings saved: the user, or the engine's events about devices.
Savers == {"user", "engine"}

Class == {"none", "written", "unchanged", "forbidden", "failed", "timed_out"}

\* The sequence of e alone if it is wanted.
If(wanted, e) == IF wanted THEN <<e>> ELSE <<>>

-----------------------------------------------------------------------------
(* Start: boot(), bad_copies_via_writer() and AppCore::with_deps()          *)

DamagedToml(b) == {f \in Toml : b[f] = "damaged"}

\* A BadCopy for every TOML file that does not parse goes to the writer
\* before anything else.  main() waits a while for the answers and only logs
\* them; an answer it did not wait for is taken by a tick, without effect.
StartCommands(b) ==
  If("settings" \in DamagedToml(b), BadCopy("settings"))
  \o If("state" \in DamagedToml(b), BadCopy("state"))

StartDisk(b) == [f \in File |-> CASE b[f] = "ok"     -> 0
                                  [] b[f] = "absent" -> Absent
                                  [] OTHER           -> Original]

StartRef(b) == [f \in File |-> IF f = "playlist" \/ b[f] = "ok" THEN 0
                                                               ELSE None]

Init ==
  \E b \in [File -> Found], n \in Intervals, d \in BOOLEAN :
    /\ boot = b
    /\ WriterInit(StartCommands(b), StartDisk(b), d)
    /\ TrackerInit(StartRef(b), n, {f \in Toml : b[f] = "unreadable"})
    /\ ui = "idle" /\ outbox = <<>> /\ phase = "running"
    /\ waiting = [f \in File |-> None]
    /\ report = [f \in File |-> "none"]
    /\ alerts = {}
    /\ load = "loading"
    /\ dropped = {} /\ quiet = TRUE /\ saved = {}

Idle == ui = "idle" /\ phase = "running"

\* The handler goes on to send the snapshots of the files in fs, in order.
SendNext(fs) ==
  /\ outbox' = fs
  /\ ui' = IF fs # <<>> THEN "sending"
           ELSE IF phase' = "exiting" THEN "waiting" ELSE "idle"

-----------------------------------------------------------------------------
(* Changes of the session state, the playlist and the settings             *)

\* change_state: only a change by the user starts the count.  The reading of
\* the window geometry at the end of a tick, which calls it too, is taken as
\* an input of its own after the tick.
ChangeState(t, byUser) ==
  /\ Idle
  /\ mem' = [mem EXCEPT !["state"] = t]
  /\ deadline' = IF byUser THEN Armed(deadline) ELSE deadline
  /\ dropped' = IF deadline' = None THEN dropped ELSE dropped \ {"state"}
  /\ quiet' = (deadline' = None)
  /\ UNCHANGED <<writerVars, interval, ref, stopped, forbidden,
                 autoForbidden, inFlight, ui, outbox, phase, waiting,
                 report, alerts, load, boot, saved>>

\* playlist_changed, by any operation that changes the source order.  The
\* gate keeps these commands away while the start-up load runs.
PlaylistChanged ==
  /\ Idle
  /\ load = "idle"
  /\ mem' = [mem EXCEPT !["playlist"] = @ + 1]
  /\ deadline' = Armed(deadline)
  /\ dropped' = dropped \ {"playlist"}
  /\ UNCHANGED <<writerVars, interval, ref, stopped, forbidden,
                 autoForbidden, inFlight, ui, outbox, phase, waiting,
                 report, alerts, load, boot, quiet, saved>>

\* save_settings_now: the settings are written at once if their text is not
\* what was last sent, whether automatic writes are forbidden or not; a new
\* interval can only bring the deadline closer.  It is called for «Save» of the
\* dialog and, with the settings in force but for one device, for the device
\* that the engine chose or went back to by itself.
SaveSettings(t, n, who) ==
  /\ Idle
  /\ who = "engine" => n = interval
  /\ mem' = [mem EXCEPT !["settings"] = t]
  /\ interval' = n
  /\ deadline' = IF n # interval THEN Shortened(n) ELSE deadline
  /\ saved' = saved \union {who}
  /\ phase' = phase
  /\ SendNext(IF TomlNeedsWrite("settings", t) THEN <<"settings">> ELSE <<>>)
  /\ UNCHANGED <<writerVars, ref, stopped, forbidden, autoForbidden,
                 inFlight, waiting, report, alerts, load, boot, dropped,
                 quiet>>

\* export: the writer gets a copy of the visible list; the tracker is not
\* involved.
ExportPlaylist ==
  /\ Idle
  /\ load = "idle"
  /\ SendOther(Export)
  /\ UNCHANGED <<trackerVars, ui, outbox, phase, waiting, report, alerts,
                 load, boot, dropped, quiet, saved>>

\* Time passes while the UI thread is in its event loop.
Elapse ==
  /\ ui = "idle" /\ deadline > 0
  /\ deadline' = deadline - 1
  /\ UNCHANGED <<writerVars, mem, interval, ref, stopped, forbidden,
                 autoForbidden, inFlight, uiVars>>

-----------------------------------------------------------------------------
(* tick()                                                                   *)

\* A tick begins: no load result has come.
TickBegin ==
  /\ ui = "idle" /\ phase # "exiting"
  /\ replies # <<>> \/ Due
  /\ ui' = "draining"
  /\ UNCHANGED <<writerVars, trackerVars, outbox, phase, waiting, report,
                 alerts, load, boot, dropped, quiet, saved>>

\* What the start-up load reported of the playlist (LoadOutcome).
LoadUnreadable == boot["playlist"] = "unreadable"

\* Mutant: a damaged playlist is taken for an absent one.
LoadCorruptIgnored == FALSE

LoadCorrupt == boot["playlist"] = "damaged"

\* A tick begins and poll_load finds the result of the start-up load: an
\* unreadable file bans writing, a damaged one is sent to quarantine.
TickLoad ==
  /\ Idle /\ load = "loading"
  /\ load' = "idle"
  /\ forbidden' = (forbidden \/ LoadUnreadable)
  /\ IF LoadCorrupt THEN SendOther(Quarantine) ELSE UNCHANGED writerVars
  /\ ui' = "draining"
  /\ UNCHANGED <<mem, interval, deadline, ref, stopped, autoForbidden,
                 inFlight, outbox, phase, waiting, report, alerts, boot,
                 dropped, quiet, saved>>

\* One reply: a failed quarantine bans writing, the rest is the tracker's.
\* The error window follows the outcome of each file.
TickReply ==
  /\ ui = "draining"
  /\ TakeReply
  /\ LET r == Head(replies)
     IN /\ OnReply(r)
        /\ forbidden' = (forbidden \/ r.kind = "quarantine_failed")
        /\ alerts' = CASE r.kind = "failed"  -> alerts \cup {r.file}
                       [] r.kind = "written" -> alerts \ {r.file}
                       [] OTHER              -> alerts
  /\ UNCHANGED <<mem, interval, deadline, autoForbidden, ui, outbox, phase,
                 waiting, report, load, boot, dropped, quiet, saved>>

\* What the expired deadline asks for, state before playlist.
DueState == /\ Due /\ ~stopped["state"] /\ "state" \notin autoForbidden
            /\ TomlNeedsWrite("state", mem["state"])
DuePlaylist == Due /\ PlaylistDirty /\ PlaylistWritable(TRUE)

DueFiles == If(DueState, "state") \o If(DuePlaylist, "playlist")

\* Due files that an earlier error keeps from being written.
DroppedFiles ==
  {f \in {"state", "playlist"} :
     /\ Due /\ stopped[f]
     /\ IF f = "playlist" THEN PlaylistDirty ELSE TomlNeedsWrite(f, mem[f])}

\* The channel is empty: the deadline is polled and the due files go out.
TickEnd ==
  /\ ui = "draining" /\ replies = <<>>
  /\ deadline' = Polled
  /\ dropped' = dropped \cup DroppedFiles
  /\ phase' = phase
  /\ SendNext(DueFiles)
  /\ UNCHANGED <<writerVars, mem, interval, ref, stopped, forbidden,
                 autoForbidden, inFlight, waiting, report, alerts, load,
                 boot, quiet, saved>>

\* send_snapshot for the next file of the outbox.
SendOne ==
  /\ ui = "sending"
  /\ LET f == Head(outbox)
     IN /\ SendSnapshot(f, mem[f])
        /\ Sent(f)
        /\ waiting' = IF phase = "exiting"
                        THEN [waiting EXCEPT ![f] = nextId] ELSE waiting
  /\ phase' = phase
  /\ SendNext(Tail(outbox))
  /\ UNCHANGED <<mem, interval, deadline, ref, stopped, forbidden,
                 autoForbidden, report, alerts, load, boot, dropped,
                 quiet, saved>>

-----------------------------------------------------------------------------
(* The error window                                                         *)

\* retry: every file of the window is sent again whatever the reference
\* says, the playlist unless it is banned.
Retry ==
  /\ Idle /\ alerts # {}
  /\ phase' = phase
  /\ SendNext(If("playlist" \in alerts /\ PlaylistWritable(FALSE), "playlist")
              \o If("state" \in alerts, "state")
              \o If("settings" \in alerts, "settings"))
  /\ dropped' = dropped \ alerts
  /\ UNCHANGED <<writerVars, trackerVars, waiting, report, alerts, load,
                 boot, quiet, saved>>

\* "OK" closes the window; the files stay stopped.
DismissErrors ==
  /\ Idle /\ alerts # {}
  /\ alerts' = {}
  /\ UNCHANGED <<writerVars, trackerVars, ui, outbox, phase, waiting, report,
                 load, boot, dropped, quiet, saved>>

-----------------------------------------------------------------------------
(* exit()                                                                   *)

\* Mutant: a TOML file that was not read at start is written.
WrittenAtExitAnyway(f, m) ==
  IF f = "playlist" THEN ~forbidden /\ PlaylistDirty
                    ELSE TomlNeedsWrite(f, m[f])

\* One attempt for every file whose text in m differs, whatever failed before.
WrittenAtExit(f, m) ==
  IF f = "playlist" THEN ~forbidden /\ PlaylistDirty
                    ELSE f \notin autoForbidden /\ TomlNeedsWrite(f, m[f])

BannedAtExit(f) == IF f = "playlist" THEN forbidden ELSE f \in autoForbidden

\* The last reading of the window geometry gives the state the text t; it is
\* a change by the user if it is one.
LastChange(t) ==
  /\ mem' = [mem EXCEPT !["state"] = t]
  /\ IF t = mem["state"]
       THEN UNCHANGED <<deadline, dropped, quiet>>
       ELSE /\ deadline' = Armed(deadline)
            /\ dropped' = dropped \ {"state"}
            /\ quiet' = FALSE

\* MusicApp::exit and AppCore::exit up to the wait, with classify_unsent: the
\* last snapshot in flight is the file's outcome; without one the file is
\* banned or unchanged.
ExitBegin(t) ==
  /\ Idle
  /\ phase' = "exiting"
  /\ LastChange(t)
  /\ waiting' = [f \in File |-> IF ~WrittenAtExit(f, mem') /\ inFlight[f] # <<>>
                                  THEN LastInFlight(f) ELSE None]
  /\ report' = [f \in File |->
       IF WrittenAtExit(f, mem') \/ inFlight[f] # <<>> THEN "none"
       ELSE IF BannedAtExit(f) THEN "forbidden" ELSE "unchanged"]
  /\ SendNext(If(WrittenAtExit("playlist", mem'), "playlist")
              \o If(WrittenAtExit("state", mem'), "state")
              \o If(WrittenAtExit("settings", mem'), "settings"))
  /\ UNCHANGED <<writerVars, interval, ref, stopped, forbidden,
                 autoForbidden, inFlight, alerts, load, boot, saved>>

\* One reply within the budget: the tracker takes it, and the file it
\* settles is waited for no longer.
ExitReply ==
  /\ ui = "waiting" /\ phase = "exiting"
  /\ \E f \in File : waiting[f] # None
  /\ TakeReply
  /\ LET r == Head(replies)
         settles == /\ r.kind \in {"written", "failed"}
                    /\ waiting[r.file] = r.id
     IN /\ OnReply(r)
        /\ waiting' = IF settles THEN [waiting EXCEPT ![r.file] = None]
                                 ELSE waiting
        /\ report' = IF settles THEN [report EXCEPT ![r.file] = r.kind]
                                ELSE report
  /\ UNCHANGED <<mem, interval, deadline, forbidden, autoForbidden, ui,
                 outbox, phase, alerts, load, boot, dropped, quiet,
                 saved>>

\* Mutant: the exit has no budget and waits for every answer.
ExitEndWaits ==
  /\ ui = "waiting" /\ phase = "exiting"
  /\ \A f \in File : waiting[f] = None
  /\ phase' = "done" /\ ui' = "idle"
  /\ UNCHANGED <<writerVars, trackerVars, outbox, waiting, report, alerts,
                 load, boot, dropped, quiet, saved>>

\* Every file is settled, or EXIT_BUDGET is over: the rest timed out.
ExitEnd ==
  /\ ui = "waiting" /\ phase = "exiting"
  /\ report' = [f \in File |-> IF waiting[f] # None THEN "timed_out"
                                                    ELSE report[f]]
  /\ phase' = "done" /\ ui' = "idle"
  /\ UNCHANGED <<writerVars, trackerVars, outbox, waiting, alerts, load,
                 boot, dropped, quiet, saved>>

-----------------------------------------------------------------------------
\* What the user and the platform do to the files fs.
UserStep(fs) ==
  \/ /\ "state" \in fs
     /\ \E t \in Texts, u \in BOOLEAN : t # mem["state"] /\ ChangeState(t, u)
  \/ "playlist" \in fs /\ PlaylistChanged
  \/ "playlist" \in fs /\ ExportPlaylist
  \/ /\ "settings" \in fs
     /\ \E t \in Texts, n \in Intervals, who \in Savers : SaveSettings(t, n, who)
  \/ Retry
  \/ DismissErrors
  \/ \E t \in Texts : ("state" \in fs \/ t = mem["state"]) /\ ExitBegin(t)

\* What the UI thread does of itself once it is started on something.
HandlerStep == TickReply \/ TickEnd \/ SendOne \/ ExitReply \/ ExitEnd

WriterStep == ThreadStep /\ UNCHANGED <<trackerVars, uiVars>>

Next == UserStep(File) \/ Elapse \/ TickBegin \/ TickLoad \/ HandlerStep
        \/ WriterStep

Spec == Init /\ [][Next]_vars

\* The event loop runs its timer and a handler runs to its end.
UiFairness == /\ WF_vars(Elapse)
              /\ WF_vars(TickBegin)
              /\ WF_vars(TickLoad)
              /\ WF_vars(HandlerStep)

\* Nothing is assumed of the writer: it may hang in a file-system call.
UiFairSpec == Spec /\ UiFairness

\* The writer is scheduled and every file-system call returns.
WriterScheduled == WF_vars(WriterStep)
=============================================================================
