------------------------------- MODULE Writer -------------------------------
(***************************************************************************)
(* The writer thread apap-persist (persist/writer.rs): the only thread     *)
(* that writes the working files.  It reads commands from a FIFO channel,  *)
(* keeps at most one waiting snapshot per file in a slot, runs its jobs    *)
(* one at a time in order of arrival and answers on a second channel.      *)
(*                                                                         *)
(* A file-system call is two steps: the atomic replacement of the target   *)
(* and everything after it (the directory sync), with a failure possible   *)
(* in either; module AtomicWrite looks inside the call.                    *)
(***************************************************************************)
EXTENDS Integers, Sequences

CONSTANTS Absent,    \* the content of a file that does not exist
          Original   \* the content of a file that could not be used at start

ASSUME ContentAssumption == /\ Absent \notin Nat
                            /\ Original \notin Nat
                            /\ Absent # Original

File == {"playlist", "state", "settings"}
Toml == {"state", "settings"}

None == -1

\* Texts are numbers: a TOML text, or the number of the playlist change
\* that the playlist text contains.
Content == Nat \cup {Absent, Original}

VARIABLES
  cmds,       \* commands sent and not yet received by the writer
  replies,    \* replies sent and not yet received by the client
  slots,      \* slots[f]: the snapshot of f that waits for its job
  order,      \* the jobs waiting to run
  job,        \* the job being run, with the snapshot taken from the slot
  at,         \* where the thread is: "accept", "doing", "replaced", "ended"
  stopping,   \* a Stop command was accepted
  connected,  \* the client still holds its end of the command channel
  dead,       \* the thread could not be spawned
  disk,       \* what each working file holds
  kept,       \* files whose original was copied or moved to <name>.bad
  nextId      \* the client's snapshot counter

\* History of the run, read by the properties and by the refinement only.
VARIABLES
  issued,     \* issued[f]: ids of the snapshots sent for f
  stored,     \* stored[f]: id of the snapshot that f holds
  confirmed,  \* confirmed[f]: newest id answered with Written
  tried,      \* tried[f]: id of the last snapshot of f taken by a job
  rescued     \* files whose copy or move to <name>.bad was attempted

channelVars == <<cmds, replies, connected, dead>>
threadVars  == <<slots, order, job, at, stopping>>
diskVars    == <<disk, kept>>
historyVars == <<issued, stored, confirmed, tried, rescued>>
writerVars  == <<cmds, replies, connected, dead, slots, order, job, at,
                 stopping, disk, kept, nextId, issued, stored, confirmed,
                 tried, rescued>>

Kind == {"none", "write", "export", "badcopy", "quarantine", "stop"}
Command == [kind : Kind, file : File, id : Nat, text : Nat]
Job == [kind : {"write", "export", "badcopy", "quarantine"}, file : File]
Answer == {"written", "failed", "superseded", "quarantined",
           "quarantine_failed", "other"}
Reply == [kind : Answer, file : File, id : Nat]
Snapshot == [id : Nat, text : Nat]
Empty == [id |-> None, text |-> 0]

NoJob == [kind |-> "none", file |-> "playlist", id |-> 0, text |-> 0]

Write(f, i, t) == [kind |-> "write", file |-> f, id |-> i, text |-> t]
Export         == [NoJob EXCEPT !.kind = "export"]
BadCopy(f)     == [NoJob EXCEPT !.kind = "badcopy", !.file = f]
Quarantine     == [NoJob EXCEPT !.kind = "quarantine"]
Stop           == [NoJob EXCEPT !.kind = "stop"]

\* The reply to command c when it succeeds or fails.
ReplyTo(c, ok) ==
  [kind |-> CASE c.kind = "write"      -> IF ok THEN "written" ELSE "failed"
              [] c.kind = "quarantine" -> IF ok THEN "quarantined"
                                                ELSE "quarantine_failed"
              [] OTHER                 -> "other",
   file |-> c.file, id |-> c.id]

\* A command or a job that writes f.
IsWrite(c, f) == c.kind = "write" /\ c.file = f

-----------------------------------------------------------------------------
(* The client's handle *)

\* WriterHandle::send.  A dead writer answers at once with a failure; a
\* thread that has returned has dropped the receiver and the command is lost.
Send(c) ==
  IF dead
    THEN /\ replies' = IF c.kind = "stop" THEN replies
                       ELSE Append(replies, ReplyTo(c, FALSE))
         /\ cmds' = cmds
    ELSE /\ cmds' = IF at = "ended" THEN cmds ELSE Append(cmds, c)
         /\ replies' = replies

\* Mutant: the counter stays.
SendSnapshotSameId(f, t) ==
  /\ Send(Write(f, nextId, t))
  /\ issued' = [issued EXCEPT ![f] = @ \cup {nextId}]
  /\ UNCHANGED <<connected, dead, nextId, threadVars, diskVars,
                 stored, confirmed, tried, rescued>>

\* A snapshot of f with text t goes to the writer under the next id.
SendSnapshot(f, t) ==
  /\ Send(Write(f, nextId, t))
  /\ nextId' = nextId + 1
  /\ issued' = [issued EXCEPT ![f] = @ \cup {nextId}]
  /\ UNCHANGED <<connected, dead, threadVars, diskVars,
                 stored, confirmed, tried, rescued>>

\* Any other command goes to the writer.
SendOther(c) ==
  /\ Send(c)
  /\ UNCHANGED <<connected, dead, threadVars, diskVars, nextId, historyVars>>

\* WriterHandle::try_recv and a receive on WriterHandle::replies.
TakeReply ==
  /\ replies # <<>>
  /\ replies' = Tail(replies)
  /\ UNCHANGED <<cmds, connected, dead, threadVars, diskVars, nextId,
                 historyVars>>

-----------------------------------------------------------------------------
(* The thread *)

\* Mutant: the snapshot that waits wins over the new one.
AcceptWriteKeepsOld ==
  /\ at = "accept" /\ cmds # <<>> /\ Head(cmds).kind = "write"
  /\ LET c == Head(cmds)
     IN IF slots[c.file] = Empty
          THEN /\ slots' = [slots EXCEPT ![c.file] = [id |-> c.id, text |-> c.text]]
               /\ order' = Append(order, [kind |-> "write", file |-> c.file])
               /\ UNCHANGED replies
          ELSE /\ replies' = Append(replies, [kind |-> "superseded",
                                              file |-> c.file, id |-> c.id])
               /\ UNCHANGED <<slots, order>>
  /\ cmds' = Tail(cmds)
  /\ UNCHANGED <<connected, dead, job, at, stopping, diskVars, nextId,
                 historyVars>>

\* accept() for a Write: a snapshot waiting in the slot is superseded and
\* its job keeps its place; otherwise a job joins the queue.
AcceptWrite ==
  /\ at = "accept" /\ cmds # <<>> /\ Head(cmds).kind = "write"
  /\ LET c == Head(cmds)
         old == slots[c.file]
     IN /\ slots' = [slots EXCEPT ![c.file] = [id |-> c.id, text |-> c.text]]
        /\ IF old # Empty
             THEN /\ replies' = Append(replies, [kind |-> "superseded",
                                                 file |-> c.file,
                                                 id |-> old.id])
                  /\ order' = order
             ELSE /\ order' = Append(order, [kind |-> "write",
                                             file |-> c.file])
                  /\ replies' = replies
  /\ cmds' = Tail(cmds)
  /\ UNCHANGED <<connected, dead, job, at, stopping, diskVars, nextId,
                 historyVars>>

\* Mutant: Stop is queued like a job.
AcceptAnyOther ==
  /\ at = "accept" /\ cmds # <<>> /\ Head(cmds).kind # "write"
  /\ order' = Append(order, [kind |-> Head(cmds).kind,
                             file |-> Head(cmds).file])
  /\ cmds' = Tail(cmds)
  /\ UNCHANGED <<replies, connected, dead, slots, job, at, stopping,
                 diskVars, nextId, historyVars>>

\* accept() for Export, BadCopy and QuarantinePlaylist.
AcceptOther ==
  /\ at = "accept" /\ cmds # <<>>
  /\ Head(cmds).kind \in {"export", "badcopy", "quarantine"}
  /\ order' = Append(order, [kind |-> Head(cmds).kind,
                             file |-> Head(cmds).file])
  /\ cmds' = Tail(cmds)
  /\ UNCHANGED <<replies, connected, dead, slots, job, at, stopping,
                 diskVars, nextId, historyVars>>

\* accept() for Stop.
AcceptStop ==
  /\ at = "accept" /\ cmds # <<>> /\ Head(cmds).kind = "stop"
  /\ stopping' = TRUE
  /\ cmds' = Tail(cmds)
  /\ UNCHANGED <<replies, connected, dead, slots, order, job, at,
                 diskVars, nextId, historyVars>>

\* Mutant: the snapshot is copied out of the slot and stays in it.
StartJobKeepsSlot ==
  /\ at = "accept" /\ ~dead /\ cmds = <<>> /\ order # <<>>
  /\ Head(order).kind = "write"
  /\ LET f == Head(order).file
     IN /\ job' = Write(f, slots[f].id, slots[f].text)
        /\ tried' = [tried EXCEPT ![f] = slots[f].id]
  /\ order' = Tail(order)
  /\ at' = "doing"
  /\ UNCHANGED <<channelVars, slots, stopping, diskVars, nextId,
                 issued, stored, confirmed, rescued>>

\* The channel is drained: the first job leaves the queue and, for a file,
\* takes the snapshot from the slot.
StartJob ==
  /\ at = "accept" /\ ~dead /\ cmds = <<>> /\ order # <<>>
  /\ LET j == Head(order)
         s == slots[j.file]
     IN IF j.kind = "write"
          THEN /\ job' = Write(j.file, s.id, s.text)
               /\ slots' = [slots EXCEPT ![j.file] = Empty]
               /\ tried' = [tried EXCEPT ![j.file] = s.id]
               /\ UNCHANGED rescued
          ELSE /\ job' = [NoJob EXCEPT !.kind = j.kind, !.file = j.file]
               /\ rescued' = IF j.kind = "export" THEN rescued
                             ELSE rescued \cup {j.file}
               /\ UNCHANGED <<slots, tried>>
  /\ order' = Tail(order)
  /\ at' = "doing"
  /\ UNCHANGED <<channelVars, stopping, diskVars, nextId,
                 issued, stored, confirmed>>

\* Mutant: the error is not reported.
JobFailsSilently ==
  /\ at = "doing"
  /\ job' = NoJob
  /\ at' = "accept"
  /\ UNCHANGED <<channelVars, slots, order, stopping, diskVars, nextId,
                 historyVars>>

\* The call fails before the target is replaced: the disk is as it was.
JobFails ==
  /\ at = "doing"
  /\ replies' = Append(replies, ReplyTo(job, FALSE))
  /\ job' = NoJob
  /\ at' = "accept"
  /\ UNCHANGED <<cmds, connected, dead, slots, order, stopping, diskVars,
                 nextId, historyVars>>

\* The target is replaced (write_atomic) or moved away (rename_replace,
\* which fails when there is nothing to move).
JobReplaces ==
  /\ at = "doing"
  /\ job.kind = "quarantine" => disk["playlist"] # Absent
  /\ CASE job.kind = "write" ->
            /\ disk' = [disk EXCEPT ![job.file] = job.text]
            /\ stored' = [stored EXCEPT ![job.file] = job.id]
            /\ UNCHANGED kept
       [] job.kind = "badcopy" ->
            /\ kept' = kept \cup {job.file}
            /\ UNCHANGED <<disk, stored>>
       [] job.kind = "quarantine" ->
            /\ kept' = IF disk["playlist"] = Original
                         THEN kept \cup {"playlist"} ELSE kept
            /\ disk' = [disk EXCEPT !["playlist"] = Absent]
            /\ UNCHANGED stored
       [] OTHER -> UNCHANGED <<disk, stored, kept>>
  /\ at' = "replaced"
  /\ UNCHANGED <<channelVars, slots, order, job, stopping, nextId,
                 issued, confirmed, tried, rescued>>

\* The call returns after the replacement: ok, or the error of the directory
\* sync.  The reply is sent and the thread goes back to its channel.
JobReturns(ok) ==
  /\ at = "replaced"
  /\ replies' = Append(replies, ReplyTo(job, ok))
  /\ confirmed' = IF ok /\ job.kind = "write"
                    THEN [confirmed EXCEPT ![job.file] = job.id]
                    ELSE confirmed
  /\ job' = NoJob
  /\ at' = "accept"
  /\ UNCHANGED <<cmds, connected, dead, slots, order, stopping, diskVars,
                 nextId, issued, stored, tried, rescued>>

\* Mutant: the thread waits for a Stop command that a dropped handle never sends.
EndOnStop ==
  /\ at = "accept" /\ ~dead /\ cmds = <<>> /\ order = <<>>
  /\ stopping
  /\ at' = "ended"
  /\ UNCHANGED <<channelVars, slots, order, job, stopping, diskVars,
                 nextId, historyVars>>

\* Mutant: the thread looks at the stop before it looks for work.
EndAtOnce ==
  /\ at = "accept" /\ ~dead /\ cmds = <<>>
  /\ stopping \/ ~connected
  /\ at' = "ended"
  /\ UNCHANGED <<channelVars, slots, order, job, stopping, diskVars,
                 nextId, historyVars>>

\* No work is left and the client asked to stop or is gone.
End ==
  /\ at = "accept" /\ ~dead /\ cmds = <<>> /\ order = <<>>
  /\ stopping \/ ~connected
  /\ at' = "ended"
  /\ UNCHANGED <<channelVars, slots, order, job, stopping, diskVars,
                 nextId, historyVars>>

ThreadStep == \/ AcceptWrite \/ AcceptOther \/ AcceptStop
              \/ StartJob \/ JobFails \/ JobReplaces
              \/ (\E ok \in BOOLEAN : JobReturns(ok))
              \/ End

WriterInit(startCmds, startDisk, isDead) ==
  /\ dead = isDead
  /\ cmds = IF isDead THEN <<>> ELSE startCmds
  /\ replies = <<>>
  /\ connected = TRUE
  /\ slots = [f \in File |-> Empty]
  /\ order = <<>>
  /\ job = NoJob
  /\ at = "accept"
  /\ stopping = FALSE
  /\ disk = startDisk
  /\ kept = {}
  /\ nextId = 0
  /\ issued = [f \in File |-> {}]
  /\ stored = [f \in File |-> None]
  /\ confirmed = [f \in File |-> None]
  /\ tried = [f \in File |-> None]
  /\ rescued = {}
=============================================================================
