---------------------------- MODULE WriterClient ----------------------------
(***************************************************************************)
(* The writer thread with the most general client: whoever holds a         *)
(* WriterHandle may send any command at any time, take replies when it     *)
(* likes and drop the handle.  What is shown here of the thread holds for  *)
(* every use of it, the one module Persist makes of it included.           *)
(***************************************************************************)
EXTENDS Writer

Others == {Export, Quarantine, Stop} \cup {BadCopy(f) : f \in Toml}

\* The copies main() asks for before anything else (bad_copies_via_writer).
StartCmds == {<<>>, <<BadCopy("settings")>>, <<BadCopy("state")>>,
              <<BadCopy("settings"), BadCopy("state")>>}

StartDisks == [File -> {0, Absent, Original}]

ClientInit == \E c \in StartCmds, d \in StartDisks, b \in BOOLEAN :
                WriterInit(c, d, b)

\* The handle is dropped: the command channel is closed.
Disconnect == /\ connected
              /\ connected' = FALSE
              /\ UNCHANGED <<cmds, replies, dead, threadVars, diskVars,
                             nextId, historyVars>>

\* A snapshot of one of the files fs with one of the texts ts, or one of the
\* other commands cs.
ClientSends(fs, ts, cs) == /\ connected
                           /\ \/ \E f \in fs, t \in ts : SendSnapshot(f, t)
                              \/ \E c \in cs : SendOther(c)

ClientStep == \/ ClientSends(File, Nat, Others)
              \/ connected /\ TakeReply
              \/ Disconnect

ClientNext == ClientStep \/ ThreadStep

ClientSpec == ClientInit /\ [][ClientNext]_writerVars

-----------------------------------------------------------------------------
\* Types of the writer's variables.
TypeOK ==
  /\ cmds \in Seq(Command) /\ replies \in Seq(Reply)
  /\ connected \in BOOLEAN /\ dead \in BOOLEAN
  /\ slots \in [File -> Snapshot \cup {Empty}]
  /\ order \in Seq(Job) /\ job \in Command
  /\ at \in {"accept", "doing", "replaced", "ended"}
  /\ stopping \in BOOLEAN
  /\ disk \in [File -> Content] /\ kept \in SUBSET File
  /\ nextId \in Nat
  /\ issued \in [File -> SUBSET Nat]
  /\ stored \in [File -> Nat \cup {None}]
  /\ confirmed \in [File -> Nat \cup {None}]
  /\ tried \in [File -> Nat \cup {None}]
  /\ rescued \in SUBSET File

\* Every id given out is below the counter.
IdsBelowCounter == \A f \in File : /\ \A i \in issued[f] : i < nextId
                                  /\ stored[f] < nextId

\* A slot is occupied if and only if the queue has a job for its file, and
\* then just one: run_job never takes its early return, which would leave a
\* snapshot without an answer, and no snapshot waits for a job that is not
\* there.
JobsHaveSnapshots ==
  /\ \A k \in DOMAIN order :
       order[k].kind = "write" => slots[order[k].file] # Empty
  /\ \A k, l \in DOMAIN order :
       (/\ order[k].kind = "write" /\ order[l].kind = "write"
        /\ order[k].file = order[l].file) => k = l
  /\ \A f \in File :
       slots[f] # Empty =>
         \E k \in DOMAIN order : order[k].kind = "write" /\ order[k].file = f

Doing(f) == at = "doing" /\ IsWrite(job, f)

\* The running job of f has a newer snapshot than f holds, until f holds it.
JobInOrder(f) ==
  /\ Doing(f) => job.id \in issued[f] /\ job.id > stored[f]
  /\ at = "replaced" /\ IsWrite(job, f) => stored[f] = job.id

\* The slot's snapshot is newer than the running job's.
SlotInOrder(f) ==
  slots[f] # Empty => /\ slots[f].id \in issued[f]
                      /\ slots[f].id > stored[f]
                      /\ Doing(f) => slots[f].id > job.id

\* The snapshots in the channel are newer still, and in order.
ChannelInOrder(f) ==
  \A k \in DOMAIN cmds :
    IsWrite(cmds[k], f) =>
      /\ cmds[k].id \in issued[f]
      /\ cmds[k].id > stored[f]
      /\ cmds[k].id > slots[f].id
      /\ Doing(f) => cmds[k].id > job.id
      /\ \A l \in DOMAIN cmds :
           k < l /\ IsWrite(cmds[l], f) => cmds[k].id < cmds[l].id

\* Writes of one file happen in the order their snapshots were issued: what
\* the file holds is older than what is on its way to it.  A superseded slot,
\* a failed job or a late command never brings an older text back (И-Р1: the
\* last one written is the last snapshot).
WritesInOrder ==
  \A f \in File : JobInOrder(f) /\ SlotInOrder(f) /\ ChannelInOrder(f)

\* A thread that has ended has left nothing it had accepted undone.
EndsEmpty ==
  at = "ended" => order = <<>> /\ \A f \in File : slots[f] = Empty

\* The thread is the register file that SavedFiles promises.
Registers == INSTANCE SavedFiles WITH File <- File, issued <- issued,
                                     stored <- stored, confirmed <- confirmed
ImplementsSavedFiles == Registers!Spec

\* A thread whose client is gone ends, and what it had accepted is done first.
EndsWhenLeft == ~connected /\ ~dead ~> at = "ended" /\ EndsEmpty
=============================================================================
