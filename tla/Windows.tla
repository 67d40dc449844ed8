------------------------------- MODULE Windows -------------------------------
(***************************************************************************)
(* The main window's thread as the owner of messages, gate, dialog, pickers*)
(* and loads (app/mod.rs, core/mod.rs, core/load.rs).  The lock of the     *)
(* engine, the writer's answers, the threads apap-playlist and apap-io, the*)
(* tray and the user are the environment: each may act between any two     *)
(* handlers.                                                               *)
(***************************************************************************)
EXTENDS MessageCenter, Dialog

CONSTANTS Files,       \* the files that are written
          Reasons,     \* why a capture of the device may fail
          Themes, Devices,
          Available,   \* the modes this platform has
          MaxQueue,    \* bound: messages that wait
          MaxReads,    \* bound: readings of themes asked for
          MaxLoads     \* bound: loads of a playlist

ModeKinds == {"Compatible", "Optimal"}
Locks     == {[state |-> s] : s \in {"NotApplicable", "Open", "Acquiring", "Held"}}
             \cup {[state |-> "Failed", reason |-> r] : r \in Reasons}

(* What is shown, drafted, loaded or picked is never "nothing".            *)
Messages == {Plain(k) : k \in {"info", "stalled", "modeNotice", "lockOpen", "writeErrors"}}
            \cup {LockFailure(r) : r \in Reasons}
Values   == Themes \cup Devices \cup ModeKinds
Drafts   == [values : [Fields -> Values],
             theme  : {Unchanged, Invalid} \cup {Ready(v) : v \in Values}
                      \cup [state : {"Loading"}, gen : Nat]]

ASSUME NoneAssumption ==
  /\ None \notin Messages
  /\ None \notin Drafts
  /\ None \notin {"Startup", "Command", "AddFiles", "LoadPlaylist", "SavePlaylist"}

VARIABLES center,      \* the messages and the reasons that block the window
          lock,        \* the lock as the last event told it
          flags,       \* a subset of {"modeNotice", "captureAndPlay"}
          lockMsg,     \* the message about the lock that is tracked
          inForce,     \* settings and mode in force
          draft,       \* the dialog's draft
          edited,      \* history: fields of the draft the user has set
          reads,       \* questions to apap-io that are not answered, oldest first
          lastRead,    \* the generation given last to such a question
          loading,     \* the gate's kind of load
          load,        \* LoadCtl: what is loaded, under which generation
          outcomes,    \* generations whose outcome is still to come
          scan,        \* files are being added
          picker,      \* what the file dialog is open for
          running

dialogVars == <<inForce, draft, edited, reads, lastRead>>
loadVars   == <<loading, load, outcomes, scan, picker>>
lockVars   == <<lock, flags, lockMsg>>
vars       == <<center, lockVars, dialogVars, loadVars, running>>

Idle == [state |-> "Idle"]

Init ==
  /\ inForce \in {[theme |-> t, device |-> d, mode |-> m] :
                    t \in Themes, d \in Devices, m \in ModeKinds}
  /\ flags = IF inForce.mode \in Available THEN {} ELSE {"modeNotice"}
  /\ center = IF inForce.mode \in Available THEN EmptyCenter
              ELSE push(EmptyCenter, Plain("modeNotice"))
  /\ lock = [state |-> "NotApplicable"] /\ lockMsg = None
  /\ draft = None /\ edited = {} /\ reads = <<>> /\ lastRead = 0
  /\ loading = "Startup" /\ load = [state |-> "Startup", gen |-> 1] /\ outcomes = {1}
  /\ scan = FALSE /\ picker = None
  /\ running = TRUE

Room == Len(center.queue) < MaxQueue

-----------------------------------------------------------------------------
(* Messages and their causes *)

(* A failed opening, a lost device, a playlist set aside and the like.     *)
PushMessage(kind) ==
  /\ Room
  /\ center' = push(center, Plain(kind))
  /\ UNCHANGED <<lockVars, dialogVars, loadVars, running>>

(* An opening refused because the platform has not the mode in force.      *)
OpenRefusedByMode ==
  /\ inForce.mode \notin Available
  /\ Room
  /\ center' = IF "modeNotice" \in flags THEN center ELSE push(center, Plain("modeNotice"))
  /\ flags' = flags \cup {"modeNotice"}
  /\ UNCHANGED <<lock, lockMsg, dialogVars, loadVars, running>>

(* Play, a row, "Next", the tray or the end of a track, while the lock is open. *)
lock_blocks_play == lock.state = "Open" /\ PushMessage("lockOpen")

ReplyFailed(f) ==
  /\ Room
  /\ center' = write_failed(center, f)
  /\ UNCHANGED <<lockVars, dialogVars, loadVars, running>>

ReplySucceeded(f) ==
  /\ center' = write_succeeded(center, f)
  /\ UNCHANGED <<lockVars, dialogVars, loadVars, running>>

dismiss_lock_failure_message ==
  IF lockMsg = None THEN center ELSE retract(center, lockMsg)

(* Mutant: a new reason does not withdraw the window of the old one.       *)
ShowsNext(next) ==
  IF next = lock THEN <<center, lockMsg>>
  ELSE IF next.state = "Failed"
    THEN <<push(center, LockFailure(next.reason)), LockFailure(next.reason)>>
  ELSE IF lock.state = "Failed" THEN <<dismiss_lock_failure_message, None>>
  ELSE <<center, lockMsg>>

(* lock_failure_transition and what is done about it: the windows and the  *)
(* message tracked.  Leaving a failure dismisses, a new reason replaces.   *)
apply_lock_failure_message(next) ==
  IF next = lock THEN <<center, lockMsg>>
  ELSE IF next.state = "Failed"
    THEN LET m == LockFailure(next.reason)
         IN  <<push(IF lock.state = "Failed" THEN dismiss_lock_failure_message ELSE center, m), m>>
  ELSE IF lock.state = "Failed" THEN <<dismiss_lock_failure_message, None>>
  ELSE <<center, lockMsg>>

LockEvent(next) ==
  /\ Room
  /\ LET shown == apply_lock_failure_message(next)
     IN  center' = shown[1] /\ lockMsg' = shown[2]
  /\ flags' = IF next.state = "Acquiring" THEN flags ELSE flags \ {"captureAndPlay"}
  /\ lock' = next
  /\ UNCHANGED <<dialogVars, loadVars, running>>

WindowShown ==
  /\ ~center.windowShown
  /\ center' = window_shown(center)
  /\ UNCHANGED <<lockVars, dialogVars, loadVars, running>>

(* The window is closed to the tray, or the tray hides or shows it.        *)
Tray(hidden) ==
  /\ center.windowShown
  /\ center.inTray # hidden
  /\ center' = set_in_tray(center, hidden)
  /\ UNCHANGED <<lockVars, dialogVars, loadVars, running>>

-----------------------------------------------------------------------------
(* The dialog *)

(* dialog_open, after the windows have become w.  The theme list and the   *)
(* sizes of the caches it asks for change no draft and are left out.       *)
OpenDialog(w) ==
  IF draft = None /\ allows(w, loading, "OpenSettings")
    THEN center' = Block(w, "Dialog") /\ draft' = NewDraft(inForce) /\ edited' = {}
    ELSE center' = w /\ UNCHANGED <<draft, edited>>

OpenSettings ==
  /\ OpenDialog(center)
  /\ UNCHANGED <<lockVars, inForce, reads, lastRead, loadVars, running>>

EditDraft(f, v) ==
  /\ draft # None
  /\ lastRead < MaxReads
  /\ LET after == dialog_edit(draft, inForce, f, v, lastRead + 1)
         asked == after.theme = Loading(lastRead + 1)
     IN  /\ draft' = after
         /\ reads' = IF asked THEN Append(reads, [gen |-> lastRead + 1, name |-> v]) ELSE reads
         /\ lastRead' = IF asked THEN lastRead + 1 ELSE lastRead
  /\ edited' = edited \cup {f}
  /\ UNCHANGED <<center, lockVars, inForce, loadVars, running>>

(* apap-io has read the file of a theme, or could not.                     *)
ThemeRead(ok) ==
  /\ reads # <<>>
  /\ reads' = Tail(reads)
  /\ draft' = IF draft = None THEN None
              ELSE dialog_theme_loaded(draft, Head(reads).gen,
                                       IF ok THEN Ready(Head(reads).name) ELSE Invalid)
  /\ UNCHANGED <<center, lockVars, inForce, edited, lastRead, loadVars, running>>

(* "Save": nothing when nothing differs or a value is not valid.           *)
SaveSettings ==
  /\ draft # None
  /\ diff(inForce, draft) # {} /\ validate(draft)
  /\ inForce' = draft.values
  /\ draft' = None /\ edited' = {}
  /\ center' = Unblock(center, "Dialog")
  /\ UNCHANGED <<lockVars, reads, lastRead, loadVars, running>>

CancelSettings ==
  /\ draft # None
  /\ draft' = None /\ edited' = {}
  /\ center' = Unblock(center, "Dialog")
  /\ UNCHANGED <<lockVars, inForce, reads, lastRead, loadVars, running>>

(* The engine chose the device by itself, or left one that is gone.        *)
DeviceAutoSelected(d) ==
  /\ inForce' = [inForce EXCEPT !.device = d]
  /\ draft' = IF draft = None THEN None ELSE rebase(draft, inForce, inForce')
  /\ UNCHANGED <<center, lockVars, edited, reads, lastRead, loadVars, running>>

(* select_active_mode: nothing for a mode that is in force or is not there.*)
SelectMode(m) ==
  IF m \in Available /\ m # inForce.mode
    THEN /\ inForce' = [inForce EXCEPT !.mode = m]
         /\ draft' = IF draft = None THEN None ELSE rebase(draft, inForce, inForce')
    ELSE UNCHANGED <<inForce, draft>>

SwitchMode(m) ==
  /\ allows(center, loading, "SwitchMode")
  /\ m \in Available /\ m # inForce.mode
  /\ SelectMode(m)
  /\ flags' = flags \ {"modeNotice"}
  /\ UNCHANGED <<center, lock, lockMsg, edited, reads, lastRead, loadVars, running>>

-----------------------------------------------------------------------------
(* The buttons of the message that is shown.  The writer and the engine    *)
(* answer "Retry", "RetryCapture" and "CaptureAndPlay" later.              *)
Press(action) ==
  /\ center.shown # None
  /\ ~center.inTray
  /\ action \in Actions(center.shown)
  /\ lockMsg' = IF lockMsg = center.shown THEN None ELSE lockMsg
  /\ flags' = IF action = "CaptureAndPlay" THEN {"captureAndPlay"} ELSE flags \ {"modeNotice"}
  /\ IF action = "OpenAudioSettings"
       THEN OpenDialog(press(center, action)) /\ UNCHANGED inForce
       ELSE /\ center' = press(center, action)
            /\ IF action = "SwitchToCompatible" THEN SelectMode("Compatible")
               ELSE UNCHANGED <<inForce, draft>>
            /\ UNCHANGED edited
  /\ UNCHANGED <<lock, reads, lastRead, loadVars, running>>

-----------------------------------------------------------------------------
(* Loads of the playlist, scans, the file dialog *)

Pick(cmd) ==
  /\ cmd \in {"AddFiles", "LoadPlaylist", "SavePlaylist"}
  /\ allows(center, loading, cmd)
  /\ cmd = "LoadPlaylist" => load.gen < MaxLoads
  /\ picker' = cmd
  /\ center' = Block(center, "FilePicker")
  /\ UNCHANGED <<lockVars, dialogVars, loading, load, outcomes, scan, running>>

PickCancelled ==
  /\ picker # None
  /\ picker' = None
  /\ center' = Unblock(center, "FilePicker")
  /\ UNCHANGED <<lockVars, dialogVars, loading, load, outcomes, scan, running>>

Picked ==
  /\ picker # None
  /\ picker' = None
  /\ center' = Unblock(center, "FilePicker")
  /\ loading' = IF picker = "LoadPlaylist" \/ (picker = "AddFiles" /\ ~scan)
                  THEN "Command" ELSE loading
  /\ scan' = (scan \/ picker = "AddFiles")
  /\ IF picker = "LoadPlaylist"
       THEN /\ load' = [state |-> "Command", gen |-> load.gen + 1]
            /\ outcomes' = outcomes \cup {load.gen + 1}
       ELSE UNCHANGED <<load, outcomes>>
  /\ UNCHANGED <<lockVars, dialogVars, running>>

ScanDone ==
  /\ scan
  /\ scan' = FALSE /\ loading' = None
  /\ UNCHANGED <<center, lockVars, dialogVars, load, outcomes, picker, running>>

(* The outcome of a load: of no interest unless it is the one awaited.     *)
poll_load(g, unread) ==
  /\ g \in outcomes
  /\ Room
  /\ outcomes' = outcomes \ {g}
  /\ IF load.state = "Idle" \/ load.gen # g THEN UNCHANGED <<center, load, loading>>
     ELSE /\ load' = [load EXCEPT !.state = "Idle"]
          /\ loading' = None
          /\ center' = IF unread THEN push(center, Plain("info")) ELSE center
  /\ UNCHANGED <<lockVars, dialogVars, scan, picker, running>>

-----------------------------------------------------------------------------
(* The exit: draft and messages are dropped without a question.            *)
Exit ==
  /\ running' = FALSE
  /\ draft' = None /\ edited' = {}
  /\ center' = Unblock(dismiss_for_exit(center), "Dialog")
  /\ UNCHANGED <<lockVars, inForce, reads, lastRead, loadVars>>

Edits == \/ \E v \in Themes  : EditDraft("theme", v)
         \/ \E v \in Devices : EditDraft("device", v)
         \/ \E v \in ModeKinds : EditDraft("mode", v)

DialogStep ==
  \/ OpenSettings \/ SaveSettings \/ CancelSettings \/ Edits
  \/ \E ok \in BOOLEAN : ThemeRead(ok)
  \/ \E d \in Devices : DeviceAutoSelected(d)
  \/ \E m \in ModeKinds : SwitchMode(m)

MessageStep ==
  \/ \E kind \in {"info", "stalled"} : PushMessage(kind)
  \/ OpenRefusedByMode \/ lock_blocks_play
  \/ \E f \in Files : ReplyFailed(f) \/ ReplySucceeded(f)
  \/ \E next \in Locks : LockEvent(next)
  \/ \E action \in {"OpenAudioSettings", "SwitchToCompatible", "Cancel", "RetryCapture",
                    "CaptureAndPlay", "Ok", "Retry"} : Press(action)

WindowStep ==
  \/ WindowShown \/ Exit
  \/ \E hidden \in BOOLEAN : Tray(hidden)

LoadStep ==
  \/ \E cmd \in {"AddFiles", "LoadPlaylist", "SavePlaylist"} : Pick(cmd)
  \/ PickCancelled \/ Picked \/ ScanDone
  \/ \E g \in outcomes, unread \in BOOLEAN : poll_load(g, unread)

Next == running /\ (DialogStep \/ MessageStep \/ WindowStep \/ LoadStep)

Spec == Init /\ [][Next]_vars

-----------------------------------------------------------------------------
(* Properties *)

Copies(m) == Cardinality({i \in DOMAIN center.queue : center.queue[i] = m})
             + IF center.shown = m THEN 1 ELSE 0

(* While the program runs every cause has its one window, shown or waiting:*)
(* the write errors have a summary exactly while there are any, a notice   *)
(* that counts as pending is there, and the window about the lock that is  *)
(* tracked names the reason for which the lock has failed; no other window *)
(* about the lock is left behind by retries, replaced reasons, captures    *)
(* that succeed meanwhile and buttons pressed late.                        *)
EachCauseHasItsWindow ==
  running =>
    /\ Copies(WriteErrors) = IF center.writeErrors = {} THEN 0 ELSE 1
    /\ "modeNotice" \in flags => Copies(Plain("modeNotice")) > 0
    /\ \A r \in Reasons :
         /\ lockMsg = LockFailure(r) => lock = [state |-> "Failed", reason |-> r]
         /\ Copies(LockFailure(r)) = IF lockMsg = LockFailure(r) THEN 1 ELSE 0

(* The window is blocked exactly by what is on the screen, the list by a   *)
(* load or a scan that will end, and no message waits while it could be    *)
(* shown: no order of messages, tray, dialog, pickers and loads leaves the *)
(* user with a window that takes no command and shows no reason.           *)
NothingStuck ==
  /\ "Message" \in center.blocked <=> center.shown # None
  /\ "Dialog" \in center.blocked <=> draft # None
  /\ "FilePicker" \in center.blocked <=> picker # None
  /\ loading = "Startup" <=> load.state = "Startup"
  /\ loading = "Command" <=> (load.state = "Command" \/ scan)
  /\ load.state # "Idle" => load.gen \in outcomes
  /\ center.windowShown /\ ~center.inTray /\ center.shown = None => center.queue = <<>>

(* What "Save" would apply is what the user chose: only fields he set      *)
(* differ from what is in force, whatever changed meanwhile elsewhere, and *)
(* the theme read is the one the draft names; until it is, its reading is  *)
(* still to be answered.                                                   *)
SaveIsWhatWasChosen ==
  draft # None =>
    /\ diff(inForce, draft) \subseteq edited
    /\ CASE draft.theme.state = "Unchanged" -> draft.values.theme = inForce.theme
         [] draft.theme.state = "Ready"     -> draft.values.theme = draft.theme.of
         [] draft.theme.state = "Invalid"   -> draft.values.theme # inForce.theme
         [] draft.theme.state = "Loading"   ->
              \E i \in DOMAIN reads : reads[i] = [gen |-> draft.theme.gen, name |-> draft.values.theme]
=============================================================================
