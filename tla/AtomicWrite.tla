---------------------------- MODULE AtomicWrite -----------------------------
(***************************************************************************)
(* OsFs::write_atomic (platform/fs/mod.rs with platform/fs/linux.rs), one  *)
(* step for each system call that can fail, with the process killed or the *)
(* power lost between any two of them.                                     *)
(*                                                                         *)
(* The file system is the weakest one the calls are written for.  A file   *)
(* that was not synced may be torn after a loss of power.  Of the changes  *)
(* to the directory since it was last synced any prefix may survive.       *)
(*                                                                         *)
(* The n-th call writes text n, so that a newer text is a greater number.  *)
(***************************************************************************)
EXTENDS Integers, FiniteSets

CONSTANTS MaxCalls,  \* bound: calls of write_atomic in a behaviour
          Inodes     \* inodes there are

ASSUME AtomicWriteAssumption == /\ MaxCalls \in Nat
                                /\ Inodes \subseteq Nat \ {0}
                                /\ 1 \in Inodes

VARIABLES
  text,       \* text[i]: what inode i reads as, Torn when it is not whole
  synced,     \* inodes whose content is on the medium
  dir,        \* dir[name]: the inode of the name, NoInode when there is none
  onMedium,   \* the directories a loss of power may leave
  step,       \* the next system call, "idle" outside write_atomic
  call,       \* number of the running or last call
  returned    \* the last call that returned Ok, 0 at first

atomicVars == <<text, synced, dir, onMedium, step, call, returned>>
fileVars == <<text, synced, dir, onMedium>>

Names == {"target", "tmp"}
NoInode == 0
Torn == -1
Steps == {"idle", "create_dir", "open_temp", "write_data", "sync_file",
          "replace", "sync_dir", "remove_temp"}

\* What is read under a name; text 0 was there before the first call.
Read(d, name) == text[d[name]]

AtomicInit == /\ text = [i \in Inodes |-> 0]
              /\ synced = {1}
              /\ dir = [target |-> 1, tmp |-> NoInode]
              /\ onMedium = {dir}
              /\ step = "idle" /\ call = 0 /\ returned = 0

\* The directory changes in memory; the medium may or may not follow.
Directory(d) == dir' = d /\ onMedium' = onMedium \cup {d}

\* No directory that may come back refers to the inode.
Free(i) == \A d \in onMedium : i \notin {d[n] : n \in Names}

-----------------------------------------------------------------------------
(* write_atomic                                                             *)

Begin == /\ step = "idle" /\ call < MaxCalls
         /\ call' = call + 1
         /\ step' = "create_dir"
         /\ UNCHANGED <<fileVars, returned>>

\* The call that is due returns an error, and write_atomic with it.
Fail == /\ step' = IF step \in {"create_dir", "sync_dir"} THEN "idle"
                                                       ELSE "remove_temp"
        /\ UNCHANGED <<call, returned>>

Advance(next) == step' = next /\ UNCHANGED <<call, returned>>

CreateDir == /\ step = "create_dir"
             /\ Advance("open_temp") \/ Fail
             /\ UNCHANGED fileVars

\* A new temporary file, or the one a killed process left, cut to nothing.
OpenTemp ==
  /\ step = "open_temp"
  /\ \/ /\ \E i \in Inodes :
             /\ IF dir["tmp"] = NoInode THEN Free(i) ELSE i = dir["tmp"]
             /\ text' = [text EXCEPT ![i] = Torn]
             /\ synced' = synced \ {i}
             /\ Directory([dir EXCEPT !["tmp"] = i])
        /\ Advance("write_data")
     \/ Fail /\ UNCHANGED fileVars

WriteData ==
  /\ step = "write_data"
  /\ \/ /\ text' = [text EXCEPT ![dir["tmp"]] = call]
        /\ Advance("sync_file")
     \/ Fail /\ UNCHANGED text
  /\ UNCHANGED <<synced, dir, onMedium>>

\* Mutant: the temporary file is not synced.
SyncFileSkipped ==
  /\ step = "sync_file"
  /\ Advance("replace") \/ Fail
  /\ UNCHANGED fileVars

SyncFile ==
  /\ step = "sync_file"
  /\ \/ synced' = synced \cup {dir["tmp"]} /\ Advance("replace")
     \/ Fail /\ UNCHANGED synced
  /\ UNCHANGED <<text, dir, onMedium>>

Replace ==
  /\ step = "replace"
  /\ \/ /\ Directory([target |-> dir["tmp"], tmp |-> NoInode])
        /\ Advance("sync_dir")
     \/ Fail /\ UNCHANGED <<dir, onMedium>>
  /\ UNCHANGED <<text, synced>>

\* Mutant: the directory is not synced.
SyncDirSkipped ==
  /\ step = "sync_dir"
  /\ step' = "idle" /\ returned' = call
  /\ UNCHANGED <<fileVars, call>>

SyncDir ==
  /\ step = "sync_dir"
  /\ \/ /\ onMedium' = {dir}
        /\ step' = "idle" /\ returned' = call
        /\ UNCHANGED call
     \/ Fail /\ UNCHANGED onMedium
  /\ UNCHANGED <<text, synced, dir>>

\* remove_temp after an error; its own failure only goes to the journal.
RemoveTemp ==
  /\ step = "remove_temp"
  /\ \/ Directory([dir EXCEPT !["tmp"] = NoInode])
     \/ UNCHANGED <<dir, onMedium>>
  /\ Advance("idle")
  /\ UNCHANGED <<text, synced>>

-----------------------------------------------------------------------------
(* Failures from outside; the program is started again and may write again  *)

Killed == /\ step # "idle"
          /\ step' = "idle"
          /\ UNCHANGED <<fileVars, call, returned>>

\* A loss of power: a directory that was on the medium, and files that were
\* not synced are as they were or torn.
PowerLoss ==
  /\ \E d \in onMedium : dir' = d /\ onMedium' = {d}
  /\ \E lost \in SUBSET (Inodes \ synced) :
       text' = [i \in Inodes |-> IF i \in lost THEN Torn ELSE text[i]]
  /\ synced' = Inodes
  /\ step' = "idle"
  /\ UNCHANGED <<call, returned>>

AtomicNext == \/ Begin \/ CreateDir \/ OpenTemp \/ WriteData \/ SyncFile
              \/ Replace \/ SyncDir \/ RemoveTemp \/ Killed \/ PowerLoss

AtomicSpec == AtomicInit /\ [][AtomicNext]_atomicVars

-----------------------------------------------------------------------------
\* The target is whole at every moment, also after the power is lost between
\* two calls: readers see an old text or a new one (ТЗ-18).
TargetWhole == Read(dir, "target") # Torn

\* A text reported as written is never lost again: after any failure the
\* target holds it or a newer one (ТЗ-19).
ConfirmedSurvives == Read(dir, "target") >= returned

=============================================================================
