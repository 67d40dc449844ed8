---------------------------- MODULE PersistProps ----------------------------
(***************************************************************************)
(* What keeping the working files correctly means: the properties of       *)
(* module Persist.                                                         *)
(***************************************************************************)
EXTENDS Persist

-----------------------------------------------------------------------------
(* The two sides of the channels                                            *)

\* The answers to snapshots of f that the UI thread has not seen, by their
\* places, and the snapshots of f still to be answered: in the running job, in
\* the slot, in the channel.
Answers(f) == {k \in DOMAIN replies :
                 /\ replies[k].kind \in {"written", "failed", "superseded"}
                 /\ replies[k].file = f}

Unanswered(f) == {i \in issued[f] :
                    \/ IsWrite(job, f) /\ job.id = i
                    \/ slots[f].id = i
                    \/ \E k \in DOMAIN cmds : IsWrite(cmds[k], f) /\ cmds[k].id = i}

Ids(q) == {q[k].id : k \in DOMAIN q}

\* Of the snapshots of f in flight none is in front of an older one.
OldestFirst(q) == \A k, l \in DOMAIN q : k < l => q[k].id < q[l].id

\* What the tracker believes to be in flight is exactly what the writer still
\* has to answer or has answered unseen, and answers come in the order of the
\* snapshots: none is lost between slot, queue and channels and none is answered
\* twice (PersistTracker.in_flight against run_writer's slots and order).  And
\* when nothing of a file is on its way, the job that ran last had the newest
\* snapshot issued (И-Р1).
InFlightMirrorsWriter ==
  \A f \in File :
    /\ Ids(inFlight[f]) = {replies[k].id : k \in Answers(f)} \cup Unanswered(f)
    /\ OldestFirst(inFlight[f])
    /\ \A k \in Answers(f) : /\ \A l \in Answers(f) : k < l => replies[k].id < replies[l].id
                             /\ \A i \in Unanswered(f) : replies[k].id < i
    /\ ~dead /\ inFlight[f] = <<>> => \A i \in issued[f] : i <= tried[f]

-----------------------------------------------------------------------------
(* What the tracker knows of the disk                                       *)

\* With nothing in flight and the last replacement confirmed, the reference
\* (for the playlist, the change number) is what the file really holds, so
\* comparing with it decides rightly whether to write.
ReferenceIsDisk ==
  \A f \in File :
    (inFlight[f] = <<>> /\ stored[f] # None /\ stored[f] = confirmed[f]) =>
      disk[f] = ref[f]

Banned(f) == IF f = "playlist" THEN forbidden ELSE f \in autoForbidden

\* An unsaved change that the timer is responsible for: no snapshot of it is
\* on its way, no error stopped the file and it is not banned.
Unsaved(f) ==
  /\ Idle /\ load = "idle"
  /\ inFlight[f] = <<>> /\ mem[f] # ref[f]
  /\ ~stopped[f] /\ ~Banned(f)
  /\ f = "state" => ~quiet

\* No change is forgotten by the timer: while a change waits the deadline runs
\* (ТЗ-11), unless the deadline expired while an error had stopped the file;
\* poll_deadline then takes the deadline away and nothing is sent.
DifferenceIsScheduled ==
  \A f \in {"state", "playlist"} :
    Unsaved(f) /\ f \notin dropped => deadline # None

-----------------------------------------------------------------------------
(* Files that could not be used at start                                    *)

\* The engine chose a device, or went back from one, and that was saved.
DeviceSaved == "engine" \in saved

\* What the user has is not lost to a start that could not use it: a file that
\* exists but was not read is never written, by the timer, by the exit or by
\* "Retry", except settings.toml after the user's "Save" (ОВС-6, И-Р20), and,
\* against both, after DeviceSaved: the automatic choice of a device goes
\* through save_settings_now too, which does not look at auto_forbidden.  A
\* damaged file is replaced only after its copy or its move to <name>.bad was
\* tried (И-Р18).
OriginalsKept ==
  \A f \in File :
    disk[f] # Original =>
      /\ boot[f] = "unreadable" => f = "settings" /\ ("user" \in saved \/ DeviceSaved)
      /\ boot[f] = "damaged" => f \in rescued

-----------------------------------------------------------------------------
(* The exit                                                                 *)

\* The report of the exit is true: every file is in it; "written" is what the
\* file holds for good, all of it unless the file is banned (of a playlist
\* banned with a snapshot in flight only that snapshot); "unchanged" had
\* nothing to write or is a playlist that was never changed; "forbidden" was
\* banned.  A replacement whose directory sync failed escapes the reference.
ExitReportIsTrue ==
  phase = "done" =>
    \A f \in File :
      /\ report[f] # "none"
      /\ report[f] = "written" => /\ stored[f] = confirmed[f]
                                  /\ disk[f] = mem[f] \/ Banned(f)
      /\ report[f] = "unchanged" => \/ disk[f] = mem[f]
                                    \/ stored[f] # confirmed[f]
                                    \/ f = "playlist" /\ mem[f] = 0
      /\ report[f] = "forbidden" => Banned(f)

\* An exit that was asked for ends, even if the writer never answers (НФ-9).
ExitCompletes == phase = "exiting" ~> phase = "done"

-----------------------------------------------------------------------------
(* Progress                                                                 *)

\* A change whose deadline runs reaches the disk if the writer is scheduled,
\* unless the write fails, the file is banned, the program is left meanwhile
\* or, after the state was sent, the program changed it without a count.
ChangeReachesDisk ==
  WriterScheduled =>
    \A f \in {"state", "playlist"} :
      (mem[f] # ref[f] /\ deadline # None)
        ~> (mem[f] = ref[f] \/ stopped[f] \/ Banned(f) \/ f \in dropped
            \/ (f = "state" /\ quiet) \/ phase # "running")

=============================================================================
