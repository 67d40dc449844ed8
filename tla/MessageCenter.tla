---------------------------- MODULE MessageCenter ----------------------------
(***************************************************************************)
(* The centre of messages and the reasons that block the main window       *)
(* (core/messages.rs, core/gate.rs).  Messages wait in a queue and are     *)
(* shown one at a time, never before the main window was first shown and   *)
(* never while it is in the tray; the write errors of all the files share  *)
(* one entry.  An operation takes the windows and returns them: the effect *)
(* that the code hands to MusicApp (show, hide) is applied to the gate in  *)
(* the same call, and so it is here.  Titles, texts and notifications are  *)
(* left out.                                                               *)
(***************************************************************************)
EXTENDS Sequences, SequencesExt

CONSTANTS None,       \* no message, no draft, no picker
          NoRetry     \* the reasons of a failed capture that a retry cannot cure

(* A message is its kind, and for a failed capture the reason.             *)
Plain(kind)    == [kind |-> kind, reason |-> None]
LockFailure(r) == [kind |-> "lockFailure", reason |-> r]
WriteErrors    == Plain("writeErrors")

lock_failure_actions(r) ==
  {"OpenAudioSettings", "SwitchToCompatible", "Cancel"}
    \cup IF r \in NoRetry THEN {} ELSE {"RetryCapture"}

(* The buttons of a message.                                               *)
Actions(m) ==
  CASE m.kind = "lockFailure" -> lock_failure_actions(m.reason)
    [] m.kind = "modeNotice"  -> {"SwitchToCompatible", "Ok"}
    [] m.kind = "lockOpen"    -> {"CaptureAndPlay", "Ok"}
    [] m.kind = "stalled"     -> {"OpenAudioSettings", "Cancel"}
    [] m.kind = "writeErrors" -> {"Retry", "Ok"}
    [] m.kind = "info"        -> {"Ok"}

EmptyCenter == [queue |-> <<>>, shown |-> None, windowShown |-> FALSE, inTray |-> FALSE,
                writeErrors |-> {}, blocked |-> {}]

Block(w, why)   == [w EXCEPT !.blocked = @ \cup {why}]
Unblock(w, why) == [w EXCEPT !.blocked = @ \ {why}]

Hide(w) == Unblock([w EXCEPT !.shown = None], "Message")

show_next(w) ==
  IF ~w.windowShown \/ w.inTray \/ w.shown # None \/ w.queue = <<>>
    THEN w
    ELSE Block([w EXCEPT !.shown = Head(w.queue), !.queue = Tail(w.queue)], "Message")

(* retain: a queue without the message m.                                  *)
Retained(q, m) ==
  LET kept[n \in 0 .. Len(q)] ==
        IF n = 0 THEN <<>>
        ELSE IF q[n] = m THEN kept[n - 1]
        ELSE Append(kept[n - 1], q[n])
  IN kept[Len(q)]

Without(w, m) == [w EXCEPT !.queue = Retained(@, m)]
Holds(w, m)   == w.shown = m \/ m \in ToSet(w.queue)

push(w, m) == show_next([w EXCEPT !.queue = Append(@, m)])

write_failed(w, f) ==
  LET v == [w EXCEPT !.writeErrors = @ \cup {f}]
  IN  IF Holds(w, WriteErrors) THEN v ELSE push(v, WriteErrors)

write_succeeded(w, f) ==
  LET v == [w EXCEPT !.writeErrors = @ \ {f}]
  IN  IF v.writeErrors # {}      THEN v
      ELSE IF v.shown = WriteErrors THEN show_next(Hide(v))
      ELSE Without(v, WriteErrors)

window_shown(w) == show_next([w EXCEPT !.windowShown = TRUE])

set_in_tray(w, hidden) ==
  LET v == [w EXCEPT !.inTray = hidden] IN IF hidden THEN v ELSE show_next(v)

(* A button of the message shown: "Retry" keeps the summary open, any      *)
(* other one closes what is shown.                                         *)
press(w, action) ==
  IF w.shown = WriteErrors /\ action = "Retry" THEN w
  ELSE show_next(Hide(IF w.shown = WriteErrors THEN [w EXCEPT !.writeErrors = {}] ELSE w))

(* Mutant: a message withdrawn while it is shown leaves the queue waiting. *)
RetractAlone(w, m) == IF w.shown = m THEN Hide(w) ELSE Without(w, m)

retract(w, m) == IF w.shown = m THEN show_next(Hide(w)) ELSE Without(w, m)

dismiss_for_exit(w) == Hide([w EXCEPT !.queue = <<>>])

-----------------------------------------------------------------------------
(* The commands of the main window that the model asks about.              *)
blocked_during_load == {"AddFiles", "LoadPlaylist", "SavePlaylist"}

allows(w, loading, cmd) ==
  w.blocked = {} /\ (loading = None \/ cmd \notin blocked_during_load)
=============================================================================
