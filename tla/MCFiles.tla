------------------------------ MODULE MCFiles -------------------------------
(***************************************************************************)
(* Writing files, for TLC: a behaviour is about the writer thread under    *)
(* its client, or about the system calls of one file, and the other stands *)
(* still.  The thread has two files, the commands that differ for it and a *)
(* client that waits while its messages fill the queues.                   *)
(***************************************************************************)
EXTENDS WriterClient, AtomicWrite

CONSTANTS MaxSnapshots,  \* bound: snapshots sent
          MaxQueue       \* bound: messages in the queues when the client sends

VARIABLE part

filesVars == <<part, writerVars, atomicVars>>

MCClientStep ==
  \/ /\ ClientSends({"playlist", "state"}, {0}, {BadCopy("state"), Stop})
     /\ nextId' <= MaxSnapshots
     /\ Len(cmds) + Len(order) + Len(replies) < MaxQueue
  \/ connected /\ TakeReply
  \/ Disconnect

\* One disk to begin with: the thread never looks at it.
MCInit == /\ part \in {"thread", "calls"}
          /\ ClientInit /\ cmds = <<>> /\ disk = [f \in File |-> Original]
          /\ part = "calls" => dead
          /\ AtomicInit

MCNext == \/ part = "thread" /\ (MCClientStep \/ ThreadStep) /\ UNCHANGED <<part, atomicVars>>
          \/ part = "calls" /\ AtomicNext /\ UNCHANGED <<part, writerVars>>

\* The thread is scheduled and a file-system call returns.
MCFairSpec == MCInit /\ [][MCNext]_filesVars /\ WF_writerVars(part = "thread" /\ ThreadStep)

\* Five inodes are enough: at most two names of each of the directories the
\* medium may hold refer to different ones.
MCInodes == 1..5
=============================================================================
