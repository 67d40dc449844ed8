---------------------------- MODULE PersistProofs ----------------------------
(***************************************************************************)
(* The working files are kept.  First the writer thread, for every client  *)
(* and every number of commands (WriterClient): its types, the order of    *)
(* its writes and that it implements SavedFiles.  Then what PersistProps   *)
(* says of the UI thread, the writer thread and the disk, for every number *)
(* of changes, failures and ticks: the thread's invariant is taken over,   *)
(* and the rest of the inductive invariant ties the tracker to it.  Last   *)
(* one file through any number of calls of write_atomic, with any number   *)
(* of inodes, kills and losses of power: the target is whole, and what was *)
(* confirmed survives.                                                     *)
(***************************************************************************)
EXTENDS PersistProps, WriterClient, AtomicWrite, TLAPS

-----------------------------------------------------------------------------
(* Sequences                                                                *)

\* A queue loses its head: the rest moves up by one place.
LEMMA TailFacts ==
  ASSUME NEW S, NEW q \in Seq(S), q # <<>>
  PROVE  /\ Head(q) \in S /\ Head(q) = q[1] /\ 1 \in DOMAIN q
         /\ Tail(q) \in Seq(S)
         /\ \A k \in DOMAIN Tail(q) : /\ k + 1 \in DOMAIN q
                                      /\ Tail(q)[k] = q[k + 1]
                                      /\ k \in Nat /\ k > 0
         /\ \A k \in DOMAIN q : k = 1 \/ \E l \in DOMAIN Tail(q) : l + 1 = k
<1>1. \A k \in DOMAIN q : k = 1 \/ k - 1 \in DOMAIN Tail(q)
  OBVIOUS
<1>2. \A k \in DOMAIN q : (k - 1) + 1 = k
  OBVIOUS
<1>. QED  BY <1>1, <1>2

\* A queue gets a new last element.
LEMMA AppendFacts ==
  ASSUME NEW S, NEW q \in Seq(S), NEW e \in S
  PROVE  /\ Append(q, e) \in Seq(S)
         /\ \A k \in DOMAIN Append(q, e) :
              \/ k \in DOMAIN q /\ Append(q, e)[k] = q[k]
              \/ k \notin DOMAIN q /\ Append(q, e)[k] = e /\ \A l \in DOMAIN q : l < k
         /\ \A k \in DOMAIN q : k \in DOMAIN Append(q, e)
                                /\ Append(q, e)[k] = q[k]
         /\ \E k \in DOMAIN Append(q, e) : Append(q, e)[k] = e
OBVIOUS

\* The places of a queue.
LEMMA DomainFacts ==
  ASSUME NEW S, NEW q \in Seq(S)
  PROVE  /\ DOMAIN q = 1..Len(q) /\ Len(q) \in Nat
         /\ \A k \in DOMAIN q : q[k] \in S /\ k \in Nat
OBVIOUS

-----------------------------------------------------------------------------
(* Types                                                                    *)

\* A reply to a command is a reply.
LEMMA ReplyToType ==
  ASSUME NEW c \in Command, NEW ok \in BOOLEAN
  PROVE  ReplyTo(c, ok) \in Reply
<1>1. ReplyTo(c, ok).kind \in Answer
  BY DEF ReplyTo, Answer
<1>. QED  BY <1>1 DEF ReplyTo, Reply, Command

\* The commands of a client are commands.
LEMMA CommandTypes ==
  /\ \A f \in File, i \in Nat, t \in Nat : Write(f, i, t) \in Command
  /\ \A c \in Others : c \in Command /\ c.kind # "write"
  /\ NoJob \in Command
<1>1. \A f \in File, i \in Nat, t \in Nat : Write(f, i, t) \in Command
  BY DEF Write, Command, Kind
<1>2. NoJob \in Command
  BY DEF NoJob, Command, Kind, File
<1>3. Export \in Command /\ Quarantine \in Command /\ Stop \in Command
  BY DEF Export, Quarantine, Stop, NoJob, Command, Kind, File
<1>4. \A f \in Toml : BadCopy(f) \in Command
  BY DEF BadCopy, NoJob, Command, Kind, File, Toml
<1>5. \A c \in Others : c.kind # "write"
  BY DEF Others, Export, Quarantine, Stop, BadCopy, NoJob
<1>. QED  BY <1>1, <1>2, <1>3, <1>4, <1>5 DEF Others

\* The fields of the records and the records made from them.
LEMMA RecordFacts ==
  /\ \A c \in Command : /\ c.kind \in Kind /\ c.file \in File
                        /\ c.id \in Nat /\ c.text \in Nat
  /\ \A j \in Job : j.kind \in Kind /\ j.file \in File
  /\ \A i, t \in Nat : [id |-> i, text |-> t] \in Snapshot
  /\ \A k \in {"write", "export", "badcopy", "quarantine"}, f \in File :
       [kind |-> k, file |-> f] \in Job
  /\ \A i \in Nat, f \in File :
       [kind |-> "superseded", file |-> f, id |-> i] \in Reply
BY DEF Command, Job, Snapshot, Reply, Kind, Answer

\* None is not an id and the empty slot is not a snapshot.
LEMMA NoneFacts == /\ None \notin Nat /\ None < 0 /\ Empty \notin Snapshot
                   /\ Empty.id = None
BY DEF None, Empty, Snapshot

-----------------------------------------------------------------------------
\* Every initial state is well typed.
LEMMA TypeInit == ClientInit => TypeOK
<1>. SUFFICES ASSUME NEW c \in StartCmds, NEW d \in StartDisks,
                     NEW b \in BOOLEAN, WriterInit(c, d, b)
              PROVE  TypeOK
  BY DEF ClientInit
<1>1. c \in Seq(Command) /\ <<>> \in Seq(Command) /\ <<>> \in Seq(Reply)
      /\ <<>> \in Seq(Job)
  <2>1. BadCopy("settings") \in Command /\ BadCopy("state") \in Command
    BY CommandTypes DEF Others, Toml
  <2>2. /\ <<BadCopy("settings")>> \in Seq(Command)
        /\ <<BadCopy("state")>> \in Seq(Command)
        /\ <<BadCopy("settings"), BadCopy("state")>> \in Seq(Command)
    BY <2>1
  <2>3. <<>> \in Seq(Command) /\ <<>> \in Seq(Reply) /\ <<>> \in Seq(Job)
    OBVIOUS
  <2>. QED  BY <2>2, <2>3 DEF StartCmds
<1>2. d \in [File -> Content]
  BY DEF StartDisks, Content
<1>. QED  BY <1>1, <1>2, CommandTypes DEF WriterInit, TypeOK

\* What Send does to the two channels.
LEMMA SendType ==
  ASSUME TypeOK, NEW c \in Command, Send(c)
  PROVE  cmds' \in Seq(Command) /\ replies' \in Seq(Reply)
<1>1. cmds \in Seq(Command) /\ replies \in Seq(Reply)
  BY DEF TypeOK
<1>2. Append(cmds, c) \in Seq(Command)
  BY <1>1, AppendFacts
<1>3. Append(replies, ReplyTo(c, FALSE)) \in Seq(Reply)
  BY <1>1, ReplyToType, AppendFacts
<1>. QED  BY <1>1, <1>2, <1>3 DEF Send

\* Every step of the client and of the thread keeps the types; starting a job
\* needs a snapshot in the slot it empties.
LEMMA TypeStep == TypeOK /\ JobsHaveSnapshots /\ [ClientNext]_writerVars => TypeOK'
<1>. SUFFICES ASSUME TypeOK, JobsHaveSnapshots, [ClientNext]_writerVars
              PROVE  TypeOK'
  OBVIOUS
<1>. USE DEF channelVars, threadVars, diskVars, historyVars
<1>1. ASSUME NEW f \in File, NEW t \in Nat, SendSnapshot(f, t)
      PROVE  TypeOK'
  <2>1. t \in Nat
    OBVIOUS
  <2>2. Write(f, nextId, t) \in Command
    BY <2>1, CommandTypes DEF TypeOK
  <2>3. cmds' \in Seq(Command) /\ replies' \in Seq(Reply)
    BY <1>1, <2>2, SendType DEF SendSnapshot
  <2>. QED  BY <1>1, <2>3 DEF SendSnapshot, TypeOK
<1>2. ASSUME NEW c \in Others, SendOther(c)
      PROVE  TypeOK'
  <2>1. cmds' \in Seq(Command) /\ replies' \in Seq(Reply)
    BY <1>2, CommandTypes, SendType DEF SendOther
  <2>. QED  BY <1>2, <2>1 DEF SendOther, TypeOK
<1>3. CASE TakeReply
  BY <1>3, TailFacts DEF TakeReply, TypeOK
<1>4. CASE Disconnect
  BY <1>4 DEF Disconnect, TypeOK
<1>5. CASE AcceptWrite
  <2>. DEFINE c == Head(cmds)
  <2>0. c \in Command /\ Tail(cmds) \in Seq(Command)
    BY <1>5, TailFacts DEF AcceptWrite, TypeOK
  <2>1. /\ c.file \in File
        /\ [id |-> c.id, text |-> c.text] \in Snapshot
        /\ [kind |-> "write", file |-> c.file] \in Job
    BY <2>0, RecordFacts
  <2>2. slots[c.file] # Empty =>
          [kind |-> "superseded", file |-> c.file, id |-> slots[c.file].id]
            \in Reply
    <3>1. slots[c.file] # Empty => slots[c.file].id \in Nat
      BY <2>1 DEF TypeOK, Snapshot
    <3>. QED  BY <2>1, <3>1, RecordFacts
  <2>3. order' \in Seq(Job) /\ replies' \in Seq(Reply)
    <3>1. order \in Seq(Job) /\ replies \in Seq(Reply)
      BY DEF TypeOK
    <3>2. Append(order, [kind |-> "write", file |-> c.file]) \in Seq(Job)
      BY <2>1, <3>1, AppendFacts
    <3>3. slots[c.file] # Empty =>
            Append(replies, [kind |-> "superseded", file |-> c.file,
                             id |-> slots[c.file].id]) \in Seq(Reply)
      BY <2>2, <3>1, AppendFacts
    <3>. QED  BY <1>5, <3>1, <3>2, <3>3 DEF AcceptWrite
  <2>4. slots' \in [File -> Snapshot \cup {Empty}]
    BY <1>5, <2>1 DEF AcceptWrite, TypeOK
  <2>. QED  BY <1>5, <2>0, <2>3, <2>4 DEF AcceptWrite, TypeOK
<1>6. CASE AcceptOther
  <2>0. Tail(cmds) \in Seq(Command) /\ Head(cmds) \in Command
    BY <1>6, TailFacts DEF AcceptOther, TypeOK
  <2>1. [kind |-> Head(cmds).kind, file |-> Head(cmds).file] \in Job
    BY <1>6, <2>0, RecordFacts DEF AcceptOther
  <2>2. order' \in Seq(Job)
    BY <1>6, <2>1, AppendFacts DEF AcceptOther, TypeOK
  <2>. QED  BY <1>6, <2>0, <2>2 DEF AcceptOther, TypeOK
<1>7. CASE AcceptStop
  BY <1>7, TailFacts DEF AcceptStop, TypeOK
<1>8. CASE StartJob
  <2>. DEFINE j == Head(order)
  <2>1. /\ j \in Job /\ j = order[1] /\ 1 \in DOMAIN order
        /\ Tail(order) \in Seq(Job)
    BY <1>8, TailFacts DEF StartJob, TypeOK
  <2>. j.file \in File /\ j.kind \in Kind
    BY <2>1, RecordFacts
  <2>2. CASE j.kind = "write"
    <3>1. slots[j.file] \in Snapshot
      BY <2>1, <2>2 DEF JobsHaveSnapshots, TypeOK
    <3>2. job' \in Command /\ slots[j.file].id \in Nat
      BY <1>8, <2>1, <2>2, <3>1, CommandTypes DEF StartJob, Snapshot
    <3>. QED  BY <1>8, <2>1, <2>2, <3>2 DEF StartJob, TypeOK
  <2>3. CASE j.kind # "write"
    <3>0. job' = [NoJob EXCEPT !.kind = j.kind, !.file = j.file]
      BY <1>8, <2>3 DEF StartJob
    <3>1. job' \in Command
      BY <3>0 DEF NoJob, Command
    <3>. QED  BY <1>8, <2>1, <2>3, <3>1 DEF StartJob, TypeOK
  <2>. QED  BY <2>2, <2>3
<1>9. CASE JobFails
  <2>1. replies' \in Seq(Reply)
    BY <1>9, ReplyToType, AppendFacts DEF JobFails, TypeOK
  <2>. QED  BY <1>9, <2>1, CommandTypes DEF JobFails, TypeOK
<1>10. CASE JobReplaces
  <2>1. job.file \in File /\ job.text \in Content /\ job.id \in Nat
        /\ Absent \in Content
    BY DEF TypeOK, Command, Content
  <2>. "playlist" \in File
    BY DEF File
  <2>2. CASE job.kind = "write"
    BY <1>10, <2>1, <2>2 DEF JobReplaces, TypeOK
  <2>3. CASE job.kind = "badcopy"
    BY <1>10, <2>1, <2>3 DEF JobReplaces, TypeOK
  <2>4. CASE job.kind = "quarantine"
    BY <1>10, <2>1, <2>4 DEF JobReplaces, TypeOK
  <2>5. CASE job.kind \notin {"write", "badcopy", "quarantine"}
    BY <1>10, <2>5 DEF JobReplaces, TypeOK
  <2>. QED  BY <2>2, <2>3, <2>4, <2>5
<1>11. ASSUME NEW ok \in BOOLEAN, JobReturns(ok)
       PROVE  TypeOK'
  <2>1. replies' \in Seq(Reply)
    BY <1>11, ReplyToType, AppendFacts DEF JobReturns, TypeOK
  <2>2. confirmed' \in [File -> Nat \cup {None}]
    BY <1>11 DEF JobReturns, TypeOK, Command
  <2>. QED  BY <1>11, <2>1, <2>2, CommandTypes DEF JobReturns, TypeOK
<1>12. CASE End
  BY <1>12 DEF End, TypeOK
<1>13. CASE UNCHANGED writerVars
  BY <1>13 DEF writerVars, TypeOK
<1>. QED
  BY <1>1, <1>2, <1>3, <1>4, <1>5, <1>6, <1>7, <1>8, <1>9, <1>10, <1>11,
     <1>12, <1>13
     DEF ClientNext, ClientStep, ClientSends, ThreadStep
-----------------------------------------------------------------------------
(* The inductive invariant                                                  *)

WriterInv == TypeOK /\ IdsBelowCounter /\ JobsHaveSnapshots /\ WritesInOrder

\* The rest of the inductive invariant holds at the start: nothing is issued
\* and the only commands are the copies main() asks for.
LEMMA OrderInit == ClientInit => IdsBelowCounter /\ JobsHaveSnapshots /\ WritesInOrder
<1>. SUFFICES ASSUME NEW c \in StartCmds, NEW d \in StartDisks,
                     NEW b \in BOOLEAN, WriterInit(c, d, b)
              PROVE  IdsBelowCounter /\ JobsHaveSnapshots /\ WritesInOrder
  BY DEF ClientInit
<1>1. IdsBelowCounter /\ JobsHaveSnapshots
  BY DEF WriterInit, IdsBelowCounter, JobsHaveSnapshots, None
<1>2. \A k \in DOMAIN cmds : cmds[k].kind # "write"
  <2>1. \A f : BadCopy(f).kind # "write"
    BY DEF BadCopy, NoJob
  <2>2. \A k \in DOMAIN c : c[k].kind # "write"
    BY <2>1 DEF StartCmds
  <2>. QED  BY <2>2 DEF WriterInit
<1>3. at = "accept" /\ \A f \in File : slots[f] = Empty
  BY DEF WriterInit
<1>4. ASSUME NEW f \in File
      PROVE  JobInOrder(f) /\ SlotInOrder(f) /\ ChannelInOrder(f)
  <2>1. JobInOrder(f)
    BY <1>3 DEF JobInOrder, Doing
  <2>2. SlotInOrder(f)
    BY <1>3 DEF SlotInOrder
  <2>3. ChannelInOrder(f)
    BY <1>2 DEF ChannelInOrder, IsWrite
  <2>. QED  BY <2>1, <2>2, <2>3
<1>. QED  BY <1>1, <1>4 DEF WritesInOrder

\* Ids stay below the counter: only sending gives out an id.
LEMMA IdsStep ==
  TypeOK /\ IdsBelowCounter /\ WritesInOrder /\ [ClientNext]_writerVars
    => IdsBelowCounter'
<1>. SUFFICES ASSUME TypeOK, IdsBelowCounter, WritesInOrder, [ClientNext]_writerVars
              PROVE  IdsBelowCounter'
  OBVIOUS
<1>. USE DEF channelVars, threadVars, diskVars, historyVars
<1>1. ASSUME NEW f \in File, NEW t \in Nat, SendSnapshot(f, t)
      PROVE  IdsBelowCounter'
  <2>1. \A g \in File : \A i \in issued'[g] : i \in issued[g] \/ i = nextId
    BY <1>1 DEF SendSnapshot, TypeOK
  <2>2. nextId' = nextId + 1 /\ nextId \in Nat /\ stored' = stored
    BY <1>1 DEF SendSnapshot, TypeOK
  <2>3. \A g \in File : /\ stored[g] \in Nat \cup {None}
                        /\ \A i \in issued[g] : i \in Nat
    BY DEF TypeOK
  <2>. QED  BY <2>1, <2>2, <2>3 DEF IdsBelowCounter, None
<1>2. CASE JobReplaces
  <2>1. UNCHANGED <<issued, nextId>>
    BY <1>2 DEF JobReplaces
  <2>2. ASSUME NEW g \in File  PROVE  stored'[g] < nextId
    <3>1. CASE job.kind = "write" /\ g = job.file
      BY <1>2, <3>1 DEF JobReplaces, WritesInOrder, JobInOrder, Doing,
                        IsWrite, IdsBelowCounter, TypeOK
    <3>2. CASE ~(job.kind = "write" /\ g = job.file)
      BY <1>2, <3>2 DEF JobReplaces, IdsBelowCounter, TypeOK
    <3>. QED  BY <3>1, <3>2
  <2>. QED  BY <2>1, <2>2 DEF IdsBelowCounter
<1>3. ASSUME UNCHANGED <<issued, nextId, stored>>
      PROVE  IdsBelowCounter'
  BY <1>3 DEF IdsBelowCounter
<1>4. ASSUME [ClientNext]_writerVars, ~JobReplaces,
             ~\E f \in File, t \in Nat : SendSnapshot(f, t)
      PROVE  UNCHANGED <<issued, nextId, stored>>
  BY <1>4 DEF ClientNext, ClientStep, ClientSends, ThreadStep, writerVars, SendOther,
     TakeReply, Disconnect, AcceptWrite, AcceptOther, AcceptStop, StartJob,
     JobFails, JobReturns, End
<1>. QED  BY <1>1, <1>2, <1>3, <1>4

\* The queue and the slots stay in step: only accepting and starting a job
\* touch them.
LEMMA JobsStep ==
  TypeOK /\ JobsHaveSnapshots /\ [ClientNext]_writerVars => JobsHaveSnapshots'
<1>. SUFFICES ASSUME TypeOK, JobsHaveSnapshots, [ClientNext]_writerVars
              PROVE  JobsHaveSnapshots'
  OBVIOUS
<1>. USE DEF channelVars, threadVars, diskVars, historyVars
<1>0. order \in Seq(Job)
  BY DEF TypeOK
<1>1. CASE AcceptWrite
  <2>. DEFINE c == Head(cmds)
              j == [kind |-> "write", file |-> c.file]
  <2>1. c \in Command
    BY <1>1, TailFacts DEF AcceptWrite, TypeOK
  <2>2. /\ c.file \in File
        /\ j \in Job
        /\ [id |-> c.id, text |-> c.text] # Empty
    BY <2>1, RecordFacts, NoneFacts
  <2>3. \A f \in File : slots[f] # Empty => slots'[f] # Empty
    BY <1>1, <2>2 DEF AcceptWrite, TypeOK
  <2>4. slots'[c.file] # Empty
    BY <1>1, <2>2 DEF AcceptWrite, TypeOK
  <2>7. \A f \in File : f = c.file \/ slots'[f] = slots[f]
    BY <1>1, <2>2 DEF AcceptWrite, TypeOK
  <2>5. CASE slots[c.file] # Empty
    <3>1. order' = order
      BY <1>1, <2>5 DEF AcceptWrite
    <3>2. \A k \in DOMAIN order : order[k].file \in File
      BY <1>0, DomainFacts, RecordFacts
    <3>3. \A f \in File : slots'[f] # Empty => slots[f] # Empty
      BY <2>5, <2>7
    <3>. QED  BY <2>3, <3>1, <3>2, <3>3 DEF JobsHaveSnapshots
  <2>6. CASE slots[c.file] = Empty
    <3>1. order' = Append(order, j)
      BY <1>1, <2>6 DEF AcceptWrite
    <3>2. \A k \in DOMAIN order' :
            \/ k \in DOMAIN order /\ order'[k] = order[k]
            \/ /\ k \notin DOMAIN order /\ order'[k] = j
               /\ \A l \in DOMAIN order : l < k
      BY <1>0, <2>2, <3>1, AppendFacts
    <3>3. \A k, l \in DOMAIN order' :
            k \notin DOMAIN order /\ l \notin DOMAIN order => k = l
      BY <1>0, <2>2, <3>1
    <3>4. \A k \in DOMAIN order : order[k].file \in File
      BY <1>0, DomainFacts, RecordFacts
    <3>5. \A k \in DOMAIN order :
            order[k].kind = "write" => order[k].file # c.file
      BY <2>6 DEF JobsHaveSnapshots
    <3>6. /\ \A k \in DOMAIN order : k \in DOMAIN order' /\ order'[k] = order[k]
          /\ \E k \in DOMAIN order' : order'[k] = j
      BY <1>0, <2>2, <3>1, AppendFacts
    <3>7. \A f \in File :
            slots'[f] # Empty => \E k \in DOMAIN order' :
                                   order'[k].kind = "write" /\ order'[k].file = f
      BY <2>7, <3>6 DEF JobsHaveSnapshots
    <3>. QED  BY <2>3, <2>4, <3>2, <3>3, <3>4, <3>5, <3>7 DEF JobsHaveSnapshots
  <2>. QED  BY <2>5, <2>6
<1>2. CASE AcceptOther
  <2>. DEFINE j == [kind |-> Head(cmds).kind, file |-> Head(cmds).file]
  <2>1. Head(cmds) \in Command
    BY <1>2, TailFacts DEF AcceptOther, TypeOK
  <2>2. j \in Job /\ j.kind # "write"
    BY <1>2, <2>1, RecordFacts DEF AcceptOther
  <2>3. \A k \in DOMAIN order' :
          \/ k \in DOMAIN order /\ order'[k] = order[k]
          \/ order'[k] = j
    BY <1>0, <1>2, <2>2, AppendFacts DEF AcceptOther
  <2>4. \A k \in DOMAIN order : k \in DOMAIN order' /\ order'[k] = order[k]
    BY <1>0, <1>2, <2>2, AppendFacts DEF AcceptOther
  <2>. QED  BY <1>2, <2>2, <2>3, <2>4 DEF AcceptOther, JobsHaveSnapshots
<1>3. CASE StartJob
  <2>. DEFINE j == Head(order)
  <2>1. /\ j \in Job /\ j = order[1] /\ 1 \in DOMAIN order
        /\ order' = Tail(order)
        /\ \A k \in DOMAIN order' : /\ k + 1 \in DOMAIN order
                                    /\ order'[k] = order[k + 1]
                                    /\ k \in Nat /\ k > 0
    BY <1>0, <1>3, TailFacts DEF StartJob
  <2>2. \A k \in DOMAIN order' : order'[k].file \in File
    BY <1>0, <2>1, DomainFacts, RecordFacts
  <2>3. \A k \in DOMAIN order' :
          order'[k].kind = "write" /\ j.kind = "write" =>
            order'[k].file # j.file
    BY <2>1 DEF JobsHaveSnapshots
  <2>4. \A f \in File : \/ j.kind = "write" /\ f = j.file
                        \/ slots'[f] = slots[f]
    BY <1>3 DEF StartJob, TypeOK
  <2>5. \A k, l \in DOMAIN order' : k + 1 = l + 1 => k = l
    BY <2>1
  <2>6. ASSUME NEW k \in DOMAIN order', order'[k].kind = "write"
        PROVE  slots'[order'[k].file] # Empty
    <3>1. slots[order'[k].file] # Empty
      BY <2>1, <2>6 DEF JobsHaveSnapshots
    <3>. QED  BY <2>2, <2>3, <2>4, <2>6, <3>1
  <2>7. \A k \in DOMAIN order : k = 1 \/ \E l \in DOMAIN order' : l + 1 = k
    BY <1>0, <1>3, TailFacts DEF StartJob
  <2>8. ASSUME NEW f \in File, slots'[f] # Empty
        PROVE  \E k \in DOMAIN order' :
                 order'[k].kind = "write" /\ order'[k].file = f
    <3>1. slots[f] # Empty /\ ~(j.kind = "write" /\ j.file = f)
      BY <1>3, <2>8 DEF StartJob, TypeOK
    <3>2. PICK k \in DOMAIN order :
            order[k].kind = "write" /\ order[k].file = f
      BY <3>1 DEF JobsHaveSnapshots
    <3>3. k # 1
      BY <2>1, <3>1, <3>2
    <3>4. PICK l \in DOMAIN order' : l + 1 = k
      BY <2>7, <3>2, <3>3
    <3>. QED  BY <2>1, <3>2, <3>4
  <2>. QED  BY <2>1, <2>5, <2>6, <2>8 DEF JobsHaveSnapshots
<1>4. ASSUME UNCHANGED <<order, slots>>
      PROVE  JobsHaveSnapshots'
  BY <1>4 DEF JobsHaveSnapshots
<1>5. ASSUME [ClientNext]_writerVars, ~AcceptWrite, ~AcceptOther, ~StartJob
      PROVE  UNCHANGED <<order, slots>>
  BY <1>5 DEF ClientNext, ClientStep, ClientSends, ThreadStep, writerVars, SendOther,
     SendSnapshot, TakeReply, Disconnect, AcceptStop, JobFails, JobReplaces,
     JobReturns, End
<1>. QED  BY <1>1, <1>2, <1>3, <1>4, <1>5

\* Every action keeps the writes of every file in order.
LEMMA OrderStep == WriterInv /\ [ClientNext]_writerVars => WritesInOrder'
<1>. SUFFICES ASSUME WriterInv, [ClientNext]_writerVars, NEW f \in File
              PROVE  (JobInOrder(f) /\ SlotInOrder(f) /\ ChannelInOrder(f))'
  BY DEF WritesInOrder
<1>. USE DEF channelVars, threadVars, diskVars, historyVars
<1>0. /\ TypeOK /\ IdsBelowCounter /\ JobsHaveSnapshots
      /\ JobInOrder(f) /\ SlotInOrder(f) /\ ChannelInOrder(f)
  BY DEF WriterInv, WritesInOrder
<1>a. /\ cmds \in Seq(Command) /\ order \in Seq(Job) /\ job \in Command
      /\ slots[f] \in Snapshot \cup {Empty} /\ stored[f] \in Nat \cup {None}
      /\ issued[f] \in SUBSET Nat /\ nextId \in Nat
      /\ \A k \in DOMAIN cmds : cmds[k].id \in Nat /\ k \in Nat
      /\ \A i \in issued[f] : i < nextId
      /\ stored[f] < nextId
      /\ job.id \in Nat
  <2>1. cmds \in Seq(Command) /\ job \in Command
    BY <1>0 DEF TypeOK
  <2>. QED  BY <1>0, <2>1, DomainFacts, RecordFacts DEF TypeOK, IdsBelowCounter
<1>1. ASSUME NEW g \in File, NEW t \in Nat, SendSnapshot(g, t)
      PROVE  (JobInOrder(f) /\ SlotInOrder(f) /\ ChannelInOrder(f))'
  <2>. DEFINE c == Write(g, nextId, t)
  <2>1. /\ c \in Command /\ c.id = nextId /\ c.file = g
    <3>1. t \in Nat
      OBVIOUS
    <3>. QED  BY <1>a, <3>1, CommandTypes DEF Write
  <2>2. /\ issued[f] \subseteq issued'[f]
        /\ f = g => nextId \in issued'[f]
        /\ UNCHANGED <<job, at, slots, stored>>
    BY <1>0, <1>1 DEF SendSnapshot, TypeOK
  <2>3. JobInOrder(f)' /\ SlotInOrder(f)'
    BY <1>0, <2>2 DEF JobInOrder, SlotInOrder, Doing
  <2>4. \A k \in DOMAIN cmds' :
          \/ k \in DOMAIN cmds /\ cmds'[k] = cmds[k]
          \/ /\ k \notin DOMAIN cmds /\ cmds'[k] = c
             /\ \A l \in DOMAIN cmds' : l <= k
    <3>1. CASE cmds' = cmds
      BY <3>1
    <3>2. CASE cmds' = Append(cmds, c)
      BY <1>a, <2>1, <3>2
    <3>. QED  BY <1>1, <3>1, <3>2 DEF SendSnapshot, Send
  <2>5. /\ slots[f].id < nextId
        /\ Doing(f) => job.id < nextId
        /\ \A k \in DOMAIN cmds : IsWrite(cmds[k], f) => cmds[k].id < nextId
    <3>1. slots[f].id < nextId
      <4>1. CASE slots[f] = Empty
        BY <1>a, <4>1, NoneFacts DEF None
      <4>2. CASE slots[f] # Empty
        BY <1>0, <1>a, <4>2 DEF SlotInOrder
      <4>. QED  BY <4>1, <4>2
    <3>. QED  BY <1>0, <1>a, <3>1 DEF JobInOrder, ChannelInOrder
  <2>6. /\ \A k \in DOMAIN cmds' : k \in Nat
        /\ \A k \in DOMAIN cmds' :
             k \notin DOMAIN cmds => /\ cmds'[k].id = nextId
                                     /\ cmds'[k].file = g
    <3>1. cmds' \in Seq(Command)
      <4>1. Append(cmds, c) \in Seq(Command)
        BY <1>a, <2>1, AppendFacts
      <4>. QED  BY <1>a, <1>1, <4>1 DEF SendSnapshot, Send
    <3>. QED  BY <2>1, <2>4, <3>1, DomainFacts
  <2>7. ASSUME NEW k \in DOMAIN cmds', IsWrite(cmds'[k], f)
        PROVE  /\ cmds'[k].id \in issued'[f]
               /\ cmds'[k].id > stored[f]
               /\ cmds'[k].id > slots[f].id
               /\ Doing(f) => cmds'[k].id > job.id
               /\ \A l \in DOMAIN cmds' :
                    k < l /\ IsWrite(cmds'[l], f) => cmds'[k].id < cmds'[l].id
    <3>1. CASE k \in DOMAIN cmds
      <4>1. cmds'[k] = cmds[k]
        BY <2>4, <3>1
      <4>2. \A l \in DOMAIN cmds' :
              k < l /\ IsWrite(cmds'[l], f) => cmds'[k].id < cmds'[l].id
        BY <1>0, <2>4, <2>5, <2>6, <2>7, <3>1, <4>1 DEF ChannelInOrder
      <4>. QED  BY <1>0, <2>2, <2>7, <3>1, <4>1, <4>2 DEF ChannelInOrder
    <3>2. CASE k \notin DOMAIN cmds
      <4>1. f = g
        BY <2>6, <2>7, <3>2 DEF IsWrite
      <4>2. \A l \in DOMAIN cmds' : ~(k < l)
        BY <2>4, <2>6, <3>2
      <4>3. stored[f] < nextId /\ slots[f].id < nextId
        BY <1>a, <2>5
      <4>. QED  BY <1>a, <2>2, <2>5, <2>6, <3>2, <4>1, <4>2, <4>3, NoneFacts
                DEF Snapshot
    <3>. QED  BY <3>1, <3>2
  <2>8. ChannelInOrder(f)'
    BY <2>2, <2>7 DEF ChannelInOrder, Doing
  <2>. QED  BY <2>3, <2>8
<1>2. ASSUME NEW c \in Others, SendOther(c)
      PROVE  (JobInOrder(f) /\ SlotInOrder(f) /\ ChannelInOrder(f))'
  <2>1. c \in Command /\ c.kind # "write"
    BY CommandTypes
  <2>2. \A k \in DOMAIN cmds' : \/ k \in DOMAIN cmds /\ cmds'[k] = cmds[k]
                                \/ cmds'[k] = c
    <3>1. CASE cmds' = cmds
      BY <3>1
    <3>2. CASE cmds' = Append(cmds, c)
      BY <1>a, <2>1, <3>2, AppendFacts
    <3>. QED  BY <1>2, <3>1, <3>2 DEF SendOther, Send
  <2>3. UNCHANGED <<job, at, slots, stored, issued>>
    BY <1>2 DEF SendOther
  <2>. QED  BY <1>0, <2>1, <2>2, <2>3 DEF JobInOrder, SlotInOrder,
               ChannelInOrder, Doing, IsWrite
<1>3. CASE AcceptWrite
  <2>. DEFINE c == Head(cmds)
  <2>1. /\ c = cmds[1] /\ 1 \in DOMAIN cmds /\ c \in Command
        /\ cmds' = Tail(cmds)
        /\ \A k \in DOMAIN cmds' : /\ k + 1 \in DOMAIN cmds
                                   /\ cmds'[k] = cmds[k + 1]
                                   /\ k \in Nat /\ k > 0
    BY <1>a, <1>3, TailFacts DEF AcceptWrite
  <2>2. /\ at = "accept" /\ c.kind = "write" /\ c.file \in File
        /\ UNCHANGED <<job, at, stored, issued>>
        /\ slots' = [slots EXCEPT ![c.file] = [id |-> c.id, text |-> c.text]]
    BY <1>3, <2>1, RecordFacts DEF AcceptWrite
  <2>3. ~Doing(f) /\ ~Doing(f)'
    BY <2>2 DEF Doing
  <2>4. JobInOrder(f)'
    BY <1>0, <2>2, <2>3 DEF JobInOrder
  <2>5. CASE c.file = f
    <3>1. slots'[f].id = c.id /\ IsWrite(cmds[1], f)
      BY <1>0, <2>1, <2>2, <2>5 DEF TypeOK, IsWrite
    <3>2. SlotInOrder(f)'
      BY <1>0, <2>1, <2>2, <2>3, <3>1 DEF SlotInOrder, ChannelInOrder
    <3>3. ASSUME NEW k \in DOMAIN cmds', IsWrite(cmds'[k], f)
          PROVE  /\ cmds'[k].id \in issued[f]
                 /\ cmds'[k].id > stored[f]
                 /\ cmds'[k].id > c.id
                 /\ \A l \in DOMAIN cmds' :
                      k < l /\ IsWrite(cmds'[l], f)
                        => cmds'[k].id < cmds'[l].id
      BY <1>0, <1>a, <2>1, <3>1, <3>3 DEF ChannelInOrder
    <3>. QED  BY <2>2, <2>3, <2>4, <3>1, <3>2, <3>3 DEF ChannelInOrder
  <2>6. CASE c.file # f
    <3>1. slots'[f] = slots[f]
      BY <1>0, <2>2, <2>6 DEF TypeOK
    <3>2. SlotInOrder(f)'
      BY <1>0, <2>2, <2>3, <3>1 DEF SlotInOrder
    <3>3. ChannelInOrder(f)'
      BY <1>0, <2>1, <2>2, <2>3, <3>1 DEF ChannelInOrder
    <3>. QED  BY <2>4, <3>2, <3>3
  <2>. QED  BY <2>5, <2>6
<1>4. CASE AcceptOther \/ AcceptStop
  <2>1. \A k \in DOMAIN cmds' : /\ k + 1 \in DOMAIN cmds
                                /\ cmds'[k] = cmds[k + 1]
                                /\ k \in Nat /\ k > 0
    <3>1. cmds # <<>> /\ cmds' = Tail(cmds)
      BY <1>4 DEF AcceptOther, AcceptStop
    <3>. QED  BY <1>a, <3>1, TailFacts
  <2>2. UNCHANGED <<job, at, slots, stored, issued>>
    BY <1>4 DEF AcceptOther, AcceptStop
  <2>. QED  BY <1>0, <2>1, <2>2 DEF JobInOrder, SlotInOrder, ChannelInOrder,
                                    Doing
<1>5. CASE StartJob
  <2>. DEFINE j == Head(order)
  <2>1. /\ j = order[1] /\ 1 \in DOMAIN order /\ j \in Job
        /\ cmds = <<>> /\ cmds' = <<>>
        /\ at = "accept" /\ at' = "doing"
        /\ UNCHANGED <<stored, issued>>
    BY <1>a, <1>5, TailFacts DEF StartJob
  <2>2. ChannelInOrder(f)'
    BY <2>1 DEF ChannelInOrder
  <2>3. CASE j.kind = "write" /\ j.file = f
    <3>1. /\ slots[f] # Empty /\ slots'[f] = Empty
          /\ job'.id = slots[f].id
      BY <1>0, <1>5, <2>1, <2>3
         DEF StartJob, JobsHaveSnapshots, TypeOK, Write
    <3>. QED  BY <1>0, <2>1, <2>2, <3>1 DEF JobInOrder, SlotInOrder, Doing
  <2>4. CASE ~(j.kind = "write" /\ j.file = f)
    <3>1. ~IsWrite(job', f)
      <4>1. CASE j.kind = "write"
        BY <1>5, <2>4, <4>1 DEF StartJob, Write, IsWrite
      <4>2. CASE j.kind # "write"
        BY <1>5, <2>4, <4>2 DEF StartJob, NoJob, IsWrite
      <4>. QED  BY <4>1, <4>2
    <3>2. slots'[f] = slots[f]
      BY <1>0, <1>5, <2>4 DEF StartJob, TypeOK
    <3>. QED  BY <1>0, <2>1, <2>2, <3>1, <3>2
              DEF JobInOrder, SlotInOrder, Doing
  <2>. QED  BY <2>3, <2>4
<1>6. CASE JobFails \/ \E ok \in BOOLEAN : JobReturns(ok)
  <2>1. /\ at' = "accept"
        /\ UNCHANGED <<cmds, slots, stored, issued>>
    BY <1>6 DEF JobFails, JobReturns
  <2>. QED  BY <1>0, <2>1 DEF JobInOrder, SlotInOrder, ChannelInOrder, Doing
<1>7. CASE JobReplaces
  <2>1. /\ at = "doing" /\ at' = "replaced"
        /\ UNCHANGED <<cmds, slots, job, issued>>
    BY <1>7 DEF JobReplaces
  <2>2. CASE IsWrite(job, f)
    <3>1. stored'[f] = job.id /\ Doing(f)
      BY <1>0, <1>7, <2>2 DEF JobReplaces, IsWrite, TypeOK, Doing
    <3>. QED  BY <1>0, <2>1, <3>1 DEF JobInOrder, SlotInOrder, ChannelInOrder,
                                      Doing
  <2>3. CASE ~IsWrite(job, f)
    <3>1. stored'[f] = stored[f]
      BY <1>0, <1>7, <2>3 DEF JobReplaces, IsWrite, TypeOK
    <3>. QED  BY <1>0, <2>1, <2>3, <3>1 DEF JobInOrder, SlotInOrder,
                                            ChannelInOrder, Doing
  <2>. QED  BY <2>2, <2>3
<1>8. CASE End
  BY <1>0, <1>8 DEF End, JobInOrder, SlotInOrder, ChannelInOrder, Doing
<1>9. CASE TakeReply \/ Disconnect \/ UNCHANGED writerVars
  <2>1. UNCHANGED <<cmds, slots, job, at, stored, issued>>
    BY <1>9 DEF TakeReply, Disconnect, writerVars
  <2>. QED  BY <1>0, <2>1 DEF JobInOrder, SlotInOrder, ChannelInOrder, Doing
<1>. QED
  BY <1>1, <1>2, <1>3, <1>4, <1>5, <1>6, <1>7, <1>8, <1>9
     DEF ClientNext, ClientStep, ClientSends, ThreadStep

-----------------------------------------------------------------------------
(* The theorems                                                             *)

\* The inductive invariant holds in every state, whatever the client does.
THEOREM WriterInvariant == ClientSpec => []WriterInv
<1>1. ClientInit => WriterInv
  BY TypeInit, OrderInit DEF WriterInv
<1>2. WriterInv /\ [ClientNext]_writerVars => WriterInv'
  BY TypeStep, IdsStep, JobsStep, OrderStep DEF WriterInv
<1>. QED  BY <1>1, <1>2, PTL DEF ClientSpec

\* Once the thread has ended nothing is accepted any more.
LEMMA EndStep == JobsHaveSnapshots /\ EndsEmpty /\ [ClientNext]_writerVars => EndsEmpty'
<1>. SUFFICES ASSUME JobsHaveSnapshots, EndsEmpty, [ClientNext]_writerVars
              PROVE  EndsEmpty'
  OBVIOUS
<1>. USE DEF channelVars, threadVars, diskVars, historyVars
<1>1. CASE End
  <2>1. order = <<>> /\ UNCHANGED <<order, slots>>
    BY <1>1 DEF End
  <2>2. \A f \in File : slots[f] = Empty
    BY <2>1 DEF JobsHaveSnapshots
  <2>. QED  BY <2>1, <2>2 DEF EndsEmpty
<1>2. CASE at' # "ended"
  BY <1>2 DEF EndsEmpty
<1>3. CASE UNCHANGED <<at, order, slots>>
  BY <1>3 DEF EndsEmpty
<1>4. ASSUME [ClientNext]_writerVars, ~End
      PROVE  at' # "ended" \/ UNCHANGED <<at, order, slots>>
  BY <1>4 DEF ClientNext, ClientStep, ClientSends, ThreadStep, writerVars, SendOther,
     SendSnapshot, TakeReply, Disconnect, AcceptWrite, AcceptOther, AcceptStop,
     StartJob, JobFails, JobReplaces, JobReturns
<1>. QED  BY <1>1, <1>2, <1>3, <1>4

\* The thread ends only when every snapshot and command it accepted had its
\* job, whether the client said Stop or dropped its handle.
THEOREM NothingLeftBehind == ClientSpec => []EndsEmpty
<1>1. ClientInit => EndsEmpty
  BY DEF ClientInit, WriterInit, EndsEmpty
<1>2. WriterInv => JobsHaveSnapshots
  BY DEF WriterInv
<1>. QED  BY <1>1, <1>2, EndStep, WriterInvariant, PTL DEF ClientSpec

\* Types of every variable of the writer thread, its channels and its disk.
THEOREM TypeCorrect == ClientSpec => []TypeOK
<1>1. WriterInv => TypeOK
  BY DEF WriterInv
<1>. QED  BY <1>1, WriterInvariant, PTL

\* The queue and the slots agree one to one: run_job's early return (`slots[i].take()`
\* finds nothing) is never taken, so every job is answered.
THEOREM EveryJobHasItsSnapshot == ClientSpec => []JobsHaveSnapshots
<1>1. WriterInv => JobsHaveSnapshots
  BY DEF WriterInv
<1>. QED  BY <1>1, WriterInvariant, PTL

\* The texts of one file reach the disk in the order in which their snapshots
\* were sent, for any number of snapshots, failures and supersessions.
THEOREM FilesMoveForward == ClientSpec => []WritesInOrder
<1>1. WriterInv => WritesInOrder
  BY DEF WriterInv
<1>. QED  BY <1>1, WriterInvariant, PTL

\* A step of the writer is a step of the abstract register file or leaves it
\* alone: sending is Issue, replacing the target is Store, and the answer
\* Written is Confirm.
LEMMA RegisterStep ==
  WriterInv /\ [ClientNext]_writerVars => [Registers!Next]_(Registers!vars)
<1>. SUFFICES ASSUME WriterInv, [ClientNext]_writerVars
              PROVE  Registers!Next \/ UNCHANGED <<issued, stored, confirmed>>
  BY DEF Registers!vars
<1>. USE DEF channelVars, threadVars, diskVars, historyVars
<1>0. TypeOK /\ IdsBelowCounter /\ WritesInOrder
  BY DEF WriterInv
<1>1. ASSUME NEW f \in File, NEW t \in Nat, SendSnapshot(f, t)
      PROVE  Registers!Issue(f)
  <2>1. /\ issued' = [issued EXCEPT ![f] = @ \cup {nextId}]
        /\ nextId \in issued'[f] /\ nextId \in Nat
        /\ UNCHANGED <<stored, confirmed>>
    BY <1>0, <1>1 DEF SendSnapshot, TypeOK
  <2>2. \A g \in File : \A j \in issued[g] : j < nextId
    BY <1>0 DEF IdsBelowCounter
  <2>. QED  BY <2>1, <2>2 DEF Registers!Issue
<1>2. CASE JobReplaces
  <2>1. CASE job.kind = "write"
    <3>1. IsWrite(job, job.file) /\ Doing(job.file) /\ job.file \in File
      BY <1>0, <1>2, <2>1, RecordFacts DEF IsWrite, Doing, JobReplaces, TypeOK
    <3>2. job.id \in issued[job.file] /\ job.id > stored[job.file]
      BY <1>0, <3>1 DEF WritesInOrder, JobInOrder
    <3>3. Registers!Store(job.file, job.id)
      BY <1>2, <2>1, <3>2 DEF JobReplaces, Registers!Store
    <3>. QED  BY <3>1, <3>2, <3>3 DEF Registers!Next
  <2>2. CASE job.kind # "write"
    BY <1>2, <2>2 DEF JobReplaces
  <2>. QED  BY <2>1, <2>2
<1>3. ASSUME NEW ok \in BOOLEAN, JobReturns(ok)
      PROVE  Registers!Next \/ UNCHANGED <<issued, stored, confirmed>>
  <2>1. CASE ok /\ job.kind = "write"
    <3>1. job.file \in File /\ stored[job.file] = job.id
      BY <1>0, <1>3, <2>1, RecordFacts
         DEF JobReturns, WritesInOrder, JobInOrder, IsWrite, TypeOK
    <3>2. Registers!Confirm(job.file)
      BY <1>3, <2>1, <3>1 DEF JobReturns, Registers!Confirm
    <3>. QED  BY <3>1, <3>2 DEF Registers!Next
  <2>2. CASE ~(ok /\ job.kind = "write")
    BY <1>3, <2>2 DEF JobReturns
  <2>. QED  BY <2>1, <2>2
<1>4. ASSUME ~JobReplaces, ~\E ok \in BOOLEAN : JobReturns(ok),
             ~\E f \in File, t \in Nat : SendSnapshot(f, t)
      PROVE  UNCHANGED <<issued, stored, confirmed>>
  BY <1>4 DEF ClientNext, ClientStep, ClientSends, ThreadStep, writerVars, SendOther,
     TakeReply, Disconnect, AcceptWrite, AcceptOther, AcceptStop, StartJob,
     JobFails, End
<1>. QED  BY <1>1, <1>2, <1>3, <1>4 DEF Registers!Next

\* The writer thread implements the register file that SavedFiles promises:
\* files only move forward through issued snapshots, and Written is answered
\* only for the snapshot the file holds.
THEOREM WriterImplementsSavedFiles == ClientSpec => ImplementsSavedFiles
<1>1. ClientInit => Registers!Init
  BY DEF ClientInit, WriterInit, Registers!Init, None, Registers!None
<1>. QED  BY <1>1, RegisterStep, WriterInvariant, PTL
          DEF ClientSpec, ImplementsSavedFiles, Registers!Spec

-----------------------------------------------------------------------------
(* Types, and what a handler may be doing                                   *)

TrackerTypeOK ==
  /\ mem \in [File -> Nat]
  /\ interval \in Nat \ {0}
  /\ deadline \in Nat \cup {None}
  /\ ref \in [File -> Nat \cup {None}] /\ ref["playlist"] \in Nat
  /\ stopped \in [File -> BOOLEAN]
  /\ forbidden \in BOOLEAN
  /\ inFlight \in [File -> Seq(Snapshot)]

UiTypeOK ==
  /\ ui \in {"idle", "draining", "sending", "waiting"}
  /\ outbox \in Seq(File) /\ (ui = "sending" <=> outbox # <<>>)
  /\ \A k, l \in DOMAIN outbox : outbox[k] = outbox[l] => k = l
  /\ phase \in {"running", "exiting", "done"}
  /\ waiting \in [File -> Nat \cup {None}]
  /\ report \in [File -> Class]
  /\ alerts \in SUBSET File
  /\ load \in {"loading", "idle"}
  /\ boot \in [File -> Found]
  /\ dropped \in SUBSET File
  /\ quiet \in BOOLEAN /\ saved \in SUBSET Savers

\* The UI thread keeps its handle and sends no Stop; a writer that could not
\* be spawned has nothing.
Alive ==
  /\ connected /\ ~stopping /\ at # "ended"
  /\ \A k \in DOMAIN cmds : cmds[k].kind # "stop"
  /\ at = "accept" => job = NoJob
  /\ at # "accept" => job.kind # "none"
  /\ dead => cmds = <<>> /\ order = <<>> /\ at = "accept"

-----------------------------------------------------------------------------
(* Snapshots on their way                                                   *)

\* An id in a slot or in the channel.
Queued(f, i) == \/ slots[f] # Empty /\ slots[f].id = i
                \/ \E k \in DOMAIN cmds : IsWrite(cmds[k], f) /\ cmds[k].id = i

IdsIssued(f) ==
  /\ Ids(inFlight[f]) \subseteq issued[f]
  /\ stored[f] # None => stored[f] \in issued[f]
  /\ tried[f] < nextId
  /\ IsWrite(job, f) => job.id \in issued[f]

\* The newest snapshot issued was taken by a job or is queued.
NewestIsTaken(f) ==
  /\ \A i \in issued[f] : dead \/ i <= tried[f] \/ \E j \in Nat : Queued(f, j) /\ i <= j
  /\ \A j \in Nat : Queued(f, j) => tried[f] < j

\* A snapshot is superseded by a newer one.
NewerFollows(f) ==
  \A k \in Answers(f) : replies[k].kind = "superseded" =>
                          \E i \in Ids(inFlight[f]) : replies[k].id < i

Mirror(f) ==
  /\ Ids(inFlight[f]) = {replies[k].id : k \in Answers(f)} \cup Unanswered(f)
  /\ OldestFirst(inFlight[f])
  /\ \A k \in Answers(f) : /\ \A l \in Answers(f) : k < l => replies[k].id < replies[l].id
                           /\ \A i \in Unanswered(f) : replies[k].id < i

OnTheWay(f) == IdsIssued(f) /\ NewestIsTaken(f) /\ NewerFollows(f) /\ Mirror(f)

-----------------------------------------------------------------------------
(* Texts                                                                    *)

\* The writer has the texts the tracker has noted.
TextsAgree(f) ==
  \A m \in DOMAIN inFlight[f] :
    LET e == inFlight[f][m]
    IN /\ IsWrite(job, f) /\ job.id = e.id => job.text = e.text
       /\ slots[f].id = e.id => slots[f].text = e.text
       /\ \A k \in DOMAIN cmds :
            IsWrite(cmds[k], f) /\ cmds[k].id = e.id => cmds[k].text = e.text

\* The numbers of the playlist's changes grow.
ChangesGrow ==
  LET q == inFlight["playlist"]
  IN /\ \A k \in DOMAIN q : q[k].text <= mem["playlist"] /\ ref["playlist"] <= q[k].text
     /\ \A k, l \in DOMAIN q : k < l => q[k].text <= q[l].text
     /\ ref["playlist"] <= mem["playlist"]

\* The disk between a replacement and the tracker's learning of it.
Written(f) == {k \in Answers(f) : replies[k].kind = "written"}

ReferenceFollows(f) ==
  /\ confirmed[f] <= stored[f]
  /\ at = "doing" /\ IsWrite(job, f) => stored[f] < job.id
  /\ at = "replaced" /\ IsWrite(job, f) =>
       confirmed[f] < job.id /\ stored[f] = job.id /\ disk[f] = job.text
  /\ \A k \in Written(f) : /\ replies[k].id <= confirmed[f]
                           /\ stored[f] > replies[k].id => stored[f] \in Ids(inFlight[f])
  /\ confirmed[f] # None /\ stored[f] = confirmed[f] =>
       \/ Written(f) = {} /\ ref[f] = disk[f]
       \/ /\ \E k \in Written(f) : replies[k].id = confirmed[f]
          /\ \A m \in DOMAIN inFlight[f] :
               inFlight[f][m].id = confirmed[f] => inFlight[f][m].text = disk[f]
  /\ confirmed[f] = None => ref[f] = StartRef(boot)[f]

-----------------------------------------------------------------------------
(* Originals                                                                *)

IsRescue(c, f) == c.kind \in {"badcopy", "quarantine"} /\ c.file = f

\* Only the playlist goes to quarantine.
QuarantineIsPlaylist ==
  /\ \A k \in DOMAIN cmds : cmds[k].kind = "quarantine" => cmds[k].file = "playlist"
  /\ \A k \in DOMAIN order : order[k].kind = "quarantine" => order[k].file = "playlist"
  /\ job.kind = "quarantine" => job.file = "playlist"

\* The rescue of a damaged file is before every write of it.
RescueFirst(f) ==
  /\ \A k \in DOMAIN cmds :
       IsRescue(cmds[k], f) =>
         /\ boot[f] = "damaged" /\ stored[f] = None
         /\ slots[f] = Empty /\ ~IsWrite(job, f)
         /\ \A l \in DOMAIN cmds : l < k => ~IsWrite(cmds[l], f)
  /\ \A k \in DOMAIN order :
       IsRescue(order[k], f) =>
         /\ boot[f] = "damaged" /\ stored[f] = None
         /\ ~IsWrite(job, f)
         /\ \A l \in DOMAIN order : l < k => ~IsWrite(order[l], f)
  /\ IsRescue(job, f) => boot[f] = "damaged" /\ stored[f] = None /\ f \in rescued
  /\ boot[f] = "damaged" /\ f \notin rescued =>
       /\ stored[f] = None /\ ~IsWrite(job, f)
       /\ \/ dead
          \/ f = "playlist" /\ load = "loading"
          \/ \E k \in DOMAIN cmds : IsRescue(cmds[k], f)
          \/ \E k \in DOMAIN order : IsRescue(order[k], f)

\* Until it is written a file holds what it held at start.
OriginalStays(f) ==
  stored[f] = None => \/ disk[f] = StartDisk(boot)[f]
                      \/ f = "playlist" /\ boot[f] = "damaged" /\ f \in rescued

\* A file that was not read is not written.
NotWritten(f) == boot[f] = "unreadable" /\ ~(f = "settings" /\ saved # {})

Bans ==
  /\ autoForbidden = {f \in Toml : boot[f] = "unreadable"}
  /\ load = "idle" /\ boot["playlist"] = "unreadable" => forbidden
  /\ \A f \in alerts : issued[f] # {}
  /\ \A f \in File : NotWritten(f) => issued[f] = {} /\ \A k \in DOMAIN outbox : outbox[k] # f
  /\ load = "loading" =>
       /\ issued["playlist"] = {} /\ mem["playlist"] = 0
       /\ \A k \in DOMAIN outbox : outbox[k] # "playlist"
       /\ \A k \in DOMAIN cmds : ~IsRescue(cmds[k], "playlist")
       /\ \A k \in DOMAIN order : ~IsRescue(order[k], "playlist")
       /\ ~IsRescue(job, "playlist")

-----------------------------------------------------------------------------
(* The deadline and the exit                                                *)

InOutbox(f) == \E k \in DOMAIN outbox : outbox[k] = f

NeedsWrite(f) == TomlNeedsWrite(f, mem[f])

\* What the timer has to write is on the clock or on its way.
Scheduled(f) ==
  /\ phase = "running" /\ NeedsWrite(f) /\ ~Banned(f) /\ f \notin dropped
  /\ inFlight[f] = <<>> => ~stopped[f]
  /\ f = "state" => ~quiet
  => deadline # None \/ InOutbox(f)

\* Nothing of f is left to do, and the file is what the report says.
Unchanging(f) == inFlight[f] = <<>> /\ ~InOutbox(f) /\ (ref[f] = mem[f] \/ Banned(f))

Settled(f) ==
  \/ report[f] = "forbidden" /\ Banned(f)
  \/ report[f] = "unchanged" /\ Unchanging(f) /\ ref[f] = mem[f]
  \/ /\ report[f] = "written" /\ Unchanging(f)
     /\ stored[f] # None /\ stored[f] = confirmed[f]
  \/ report[f] \in {"failed", "timed_out"}

Awaited(f) ==
  /\ report[f] = "none" /\ ~InOutbox(f)
  /\ waiting[f] # None /\ inFlight[f] # <<>> /\ waiting[f] = LastInFlight(f)
  /\ Last(inFlight[f]).text = mem[f] \/ Banned(f)

ToSend(f) == report[f] = "none" /\ InOutbox(f) /\ waiting[f] = None /\ ~Banned(f)

Exit(f) ==
  /\ phase = "exiting" => \/ ToSend(f) \/ Awaited(f)
                          \/ waiting[f] = None /\ ~InOutbox(f) /\ Settled(f)
  /\ phase = "exiting" => ui \in {"sending", "waiting"}
  /\ phase = "done" => Settled(f)

-----------------------------------------------------------------------------
IInv ==
  /\ WriterInv /\ TrackerTypeOK /\ UiTypeOK /\ Alive /\ Bans /\ ChangesGrow
  /\ QuarantineIsPlaylist
  /\ \A f \in File : /\ OnTheWay(f) /\ TextsAgree(f) /\ ReferenceFollows(f)
                     /\ RescueFirst(f) /\ OriginalStays(f) /\ Exit(f)
  /\ Scheduled("state") /\ Scheduled("playlist")

-----------------------------------------------------------------------------
(* The queue of a file in flight                                            *)

\* Only the empty sequence has no elements.
LEMMA EmptyFacts == ASSUME NEW S, NEW s \in Seq(S)  PROVE s = <<>> <=> Len(s) = 0
OBVIOUS

\* What stands at the head of a queue that has no older entry behind it: all
\* three ways in which the tracker looks an entry up find the head.
LEMMA HeadIsOldest ==
  ASSUME NEW q \in Seq(Snapshot), q # <<>>, OldestFirst(q)
  PROVE  /\ q[1] \in Snapshot /\ q[1] = Head(q)
         /\ Holds(q, q[1].id)
         /\ SelectInSeq(q, LAMBDA e : e.id = q[1].id) = 1
         /\ RemoveId(q, q[1].id) = Tail(q)
         /\ PopFrontUntil(q, q[1].id) = Tail(q)
<1>1. /\ q[1] \in Snapshot /\ q[1] = Head(q) /\ 1 \in DOMAIN q /\ DOMAIN q = 1 .. Len(q)
      /\ Len(q) \in Nat /\ Len(q) >= 1
  OBVIOUS
<1>a. \A k \in 1 .. Len(q) : q[k].id \in Nat /\ k \in Nat
  <2>1. \A k \in 1 .. Len(q) : q[k] \in Snapshot
    OBVIOUS
  <2>. QED  BY <2>1 DEF Snapshot
<1>2. \A k \in 1 .. Len(q) : k # 1 => q[1].id < q[k].id /\ q[k].id \in Nat
  BY <1>1, <1>a DEF OldestFirst
<1>3. {i \in 1 .. Len(q) : q[i].id = q[1].id} = {1}
  BY <1>1, <1>a, <1>2
<1>4. {i \in 1 .. Len(q) : q[i].id <= q[1].id} = {1}
  BY <1>1, <1>a, <1>2
<1>5. Min({1}) = 1 /\ Max({1}) = 1 /\ {1} # {}
  BY DEF Min, Max
<1>6. Holds(q, q[1].id)
  BY <1>1 DEF Holds
<1>7. SelectInSeq(q, LAMBDA e : e.id = q[1].id) = 1
  BY <1>3, <1>5 DEF SelectInSeq
<1>8. SelectLastInSeq(q, LAMBDA e : e.id <= q[1].id) = 1
  BY <1>4, <1>5 DEF SelectLastInSeq
<1>9. SubSeq(q, 2, Len(q)) = Tail(q) /\ SubSeq(q, 1, 0) = <<>>
  BY <1>1
<1>10. RemoveId(q, q[1].id) = Tail(q)
  <2>1. RemoveId(q, q[1].id) = SubSeq(q, 1, 1 - 1) \o SubSeq(q, 1 + 1, Len(q))
    BY <1>3, <1>5, <1>6, Zenon DEF RemoveId, RemoveAt, SelectInSeq
  <2>. QED  BY <2>1, <1>9
<1>11. PopFrontUntil(q, q[1].id) = Tail(q)
  <2>1. PopFrontUntil(q, q[1].id) = SubSeq(q, 1 + 1, Len(q))
    BY <1>4, <1>5, Zenon DEF PopFrontUntil, SelectLastInSeq
  <2>. QED  BY <2>1, <1>9
<1>. QED  BY <1>1, <1>6, <1>7, <1>10, <1>11

-----------------------------------------------------------------------------
(* The mirror, by the four things that may happen to a snapshot of f        *)

AnswerKinds == {"written", "failed", "superseded"}

\* The places of answers are places of replies.
LEMMA AnswerFacts ==
  ASSUME replies \in Seq(Reply), NEW f \in File
  PROVE  /\ \A k : k \in Answers(f) <=> /\ k \in DOMAIN replies
                                         /\ replies[k].kind \in AnswerKinds
                                         /\ replies[k].file = f
         /\ \A k \in Answers(f) : replies[k].id \in Nat /\ k \in Nat /\ k >= 1
<1>1. \A k \in DOMAIN replies : replies[k] \in Reply /\ k \in Nat /\ k >= 1
  OBVIOUS
<1>2. \A k \in DOMAIN replies : replies[k].id \in Nat
  BY <1>1 DEF Reply
<1>. QED  BY <1>1, <1>2 DEF Answers, AnswerKinds

\* Ids in a queue in flight are numbers.
LEMMA IdsFacts ==
  ASSUME NEW q \in Seq(Snapshot)
  PROVE  /\ \A k \in DOMAIN q : q[k].id \in Ids(q) /\ q[k].id \in Nat /\ q[k].text \in Nat
                                /\ k \in Nat /\ k >= 1
         /\ \A i \in Ids(q) : i \in Nat /\ \E k \in DOMAIN q : q[k].id = i
<1>1. \A k \in DOMAIN q : q[k] \in Snapshot /\ k \in Nat /\ k >= 1
  OBVIOUS
<1>2. \A k \in DOMAIN q : q[k].id \in Nat /\ q[k].text \in Nat
  BY <1>1 DEF Snapshot
<1>. QED  BY <1>1, <1>2 DEF Ids

\* Nothing of f happens.
LEMMA MirrorStands ==
  ASSUME NEW f \in File, replies \in Seq(Reply), Mirror(f), NewerFollows(f),
         inFlight'[f] = inFlight[f], Unanswered(f)' = Unanswered(f),
         \/ replies' = replies
         \/ \E e \in Reply : /\ replies' = Append(replies, e)
                             /\ ~(e.kind \in AnswerKinds /\ e.file = f)
  PROVE  Mirror(f)' /\ NewerFollows(f)'
<1>1. replies' \in Seq(Reply) /\ \A k \in DOMAIN replies : k \in DOMAIN replies' /\ replies'[k] = replies[k]
  OBVIOUS
<1>2. \A k \in DOMAIN replies' : k \in DOMAIN replies \/ ~(replies'[k].kind \in AnswerKinds /\ replies'[k].file = f)
  OBVIOUS
<1>3. Answers(f)' = Answers(f) /\ \A k \in Answers(f) : replies'[k] = replies[k]
  BY <1>1, <1>2 DEF Answers, AnswerKinds
<1>4. Ids(inFlight[f])' = Ids(inFlight[f]) /\ OldestFirst(inFlight[f])' = OldestFirst(inFlight[f])
  BY DEF Ids, OldestFirst
<1>5. {replies[k].id : k \in Answers(f)}' = {replies[k].id : k \in Answers(f)}
  BY <1>3
<1>. QED  BY <1>3, <1>4, <1>5 DEF Mirror, NewerFollows

\* The oldest snapshot of f that is not answered is answered.
LEMMA MirrorAnswers ==
  ASSUME NEW f \in File, replies \in Seq(Reply), Mirror(f), NewerFollows(f),
         inFlight'[f] = inFlight[f], inFlight[f] \in Seq(Snapshot),
         NEW e \in Reply, e.kind \in AnswerKinds, e.file = f,
         replies' = Append(replies, e),
         e.id \in Unanswered(f), Unanswered(f)' = Unanswered(f) \ {e.id},
         \A i \in Unanswered(f)' : e.id < i,
         e.kind = "superseded" => Unanswered(f)' # {}
  PROVE  Mirror(f)' /\ NewerFollows(f)'
<1>. DEFINE n == Len(replies) + 1
<1>0. n \in Nat /\ n \notin DOMAIN replies /\ \A k \in DOMAIN replies : k < n /\ k \in Nat
  OBVIOUS
<1>1. /\ replies' \in Seq(Reply) /\ DOMAIN replies' = DOMAIN replies \cup {n}
      /\ replies'[n] = e /\ \A k \in DOMAIN replies : replies'[k] = replies[k]
  OBVIOUS
<1>2. Answers(f)' = Answers(f) \cup {n}
  BY <1>0, <1>1 DEF Answers, AnswerKinds
<1>3. Ids(inFlight[f])' = Ids(inFlight[f]) /\ OldestFirst(inFlight[f])' = OldestFirst(inFlight[f])
  BY DEF Ids, OldestFirst
<1>4. Answers(f) \subseteq DOMAIN replies
  BY DEF Answers
<1>5. {replies[k].id : k \in Answers(f)}' = {replies[k].id : k \in Answers(f)} \cup {e.id}
  BY <1>0, <1>1, <1>2, <1>4
<1>6. Ids(inFlight[f])' = {replies[k].id : k \in Answers(f)}' \cup Unanswered(f)'
  BY <1>3, <1>5 DEF Mirror
<1>7. \A k, l \in Answers(f)' : k < l => replies'[k].id < replies'[l].id
  BY <1>0, <1>1, <1>2, <1>4 DEF Mirror
<1>8. \A k \in Answers(f)' : \A i \in Unanswered(f)' : replies'[k].id < i
  BY <1>0, <1>1, <1>2, <1>4 DEF Mirror
<1>9. NewerFollows(f)'
  BY <1>0, <1>1, <1>2, <1>3, <1>4, <1>6 DEF NewerFollows
<1>. QED  BY <1>3, <1>6, <1>7, <1>8, <1>9 DEF Mirror

\* The first answer of f is to the snapshot at the head of its queue.
LEMMA AnswerIsOldest ==
  ASSUME NEW f \in File, replies \in Seq(Reply), inFlight[f] \in Seq(Snapshot),
         Mirror(f), 1 \in Answers(f)
  PROVE  inFlight[f] # <<>> /\ 1 \in DOMAIN inFlight[f] /\ inFlight[f][1].id = replies[1].id
<1>. DEFINE q == inFlight[f]
<1>1. replies[1].id \in Ids(q)
  BY DEF Mirror
<1>2. PICK m \in DOMAIN q : q[m].id = replies[1].id
  BY <1>1, IdsFacts
<1>3. q # <<>> /\ 1 \in DOMAIN q /\ m \in Nat /\ m >= 1
  BY <1>2, IdsFacts
<1>4. q[1].id \in Ids(q) /\ q[1].id \in Nat /\ q[m].id \in Nat
  BY <1>2, <1>3, IdsFacts
<1>5. m # 1 => q[1].id < q[m].id
  BY <1>2, <1>3 DEF Mirror, OldestFirst
<1>6. CASE q[1].id \in Unanswered(f)
  <2>1. replies[1].id < q[1].id
    BY <1>6 DEF Mirror
  <2>. QED  BY <2>1, <1>2, <1>3, <1>4, <1>5
<1>7. CASE \E k \in Answers(f) : replies[k].id = q[1].id
  <2>1. PICK k \in Answers(f) : replies[k].id = q[1].id
    BY <1>7
  <2>2. k # 1 => replies[1].id < q[1].id
    BY <2>1, AnswerFacts DEF Mirror
  <2>. QED  BY <2>1, <2>2, <1>2, <1>3, <1>4, <1>5
<1>. QED  BY <1>4, <1>6, <1>7 DEF Mirror

\* The queue without its head.
LEMMA TailOfQueue ==
  ASSUME NEW q \in Seq(Snapshot), q # <<>>, OldestFirst(q)
  PROVE  /\ Tail(q) \in Seq(Snapshot) /\ OldestFirst(Tail(q))
         /\ Ids(Tail(q)) = Ids(q) \ {q[1].id}
         /\ \A k \in DOMAIN Tail(q) : k + 1 \in DOMAIN q /\ Tail(q)[k] = q[k + 1]
         /\ Tail(q) # <<>> => Last(Tail(q)) = Last(q)
         /\ Tail(q) = <<>> => Last(q) = q[1]
<1>1. /\ Tail(q) \in Seq(Snapshot) /\ 1 \in DOMAIN q
      /\ \A k \in DOMAIN Tail(q) : k + 1 \in DOMAIN q /\ Tail(q)[k] = q[k + 1] /\ k \in Nat /\ k > 0
      /\ \A k \in DOMAIN q : k = 1 \/ \E l \in DOMAIN Tail(q) : l + 1 = k
  BY TailFacts
<1>2. OldestFirst(Tail(q))
  BY <1>1 DEF OldestFirst
<1>3. \A k \in DOMAIN q : k # 1 => q[1].id # q[k].id
  <2>1. \A k \in DOMAIN q : k \in Nat /\ k >= 1 /\ q[k].id \in Nat
    BY IdsFacts
  <2>. QED  BY <1>1, <2>1 DEF OldestFirst
<1>4. ASSUME NEW i
      PROVE  i \in Ids(Tail(q)) <=> i \in Ids(q) /\ i # q[1].id
  <2>1. i \in Ids(Tail(q)) => i \in Ids(q) /\ i # q[1].id
    BY <1>1, <1>3 DEF Ids
  <2>2. i \in Ids(q) /\ i # q[1].id => i \in Ids(Tail(q))
    BY <1>1 DEF Ids
  <2>. QED  BY <2>1, <2>2
<1>5. /\ Tail(q) # <<>> => Last(Tail(q)) = Last(q)
      /\ Tail(q) = <<>> => Last(q) = q[1]
  <2>0. Len(q) \in Nat /\ Len(q) >= 1 /\ Len(Tail(q)) = Len(q) - 1
    OBVIOUS
  <2>a. Tail(q) = <<>> <=> Len(Tail(q)) = 0
    BY <1>1, EmptyFacts
  <2>1. Len(q) \in Nat /\ Len(q) >= 1 /\ (Tail(q) = <<>> <=> Len(q) = 1)
    BY <2>0, <2>a
  <2>2. Tail(q) # <<>> => Len(q) - 1 \in DOMAIN Tail(q)
    BY <1>1, <2>0, <2>1
  <2>3. Tail(q) # <<>> => Tail(q)[Len(q) - 1] = q[Len(q)]
    <3>1. (Len(q) - 1) + 1 = Len(q)
      BY <2>1
    <3>. QED  BY <1>1, <2>2, <3>1
  <2>. QED  BY <2>0, <2>1, <2>3 DEF Last
<1>. QED  BY <1>1, <1>2, <1>4, <1>5

\* The UI thread takes a reply, to a snapshot of f or not.
LEMMA MirrorTaken ==
  ASSUME NEW f \in File, replies \in Seq(Reply), Mirror(f), NewerFollows(f),
         inFlight[f] \in Seq(Snapshot), replies # <<>>, replies' = Tail(replies),
         Unanswered(f)' = Unanswered(f),
         inFlight'[f] = IF 1 \in Answers(f) THEN Tail(inFlight[f]) ELSE inFlight[f]
  PROVE  Mirror(f)' /\ NewerFollows(f)'
<1>. DEFINE q == inFlight[f]
<1>1. /\ replies' \in Seq(Reply)
      /\ \A k \in DOMAIN replies' : /\ k + 1 \in DOMAIN replies /\ replies'[k] = replies[k + 1]
                                    /\ k \in Nat /\ k > 0
      /\ \A k \in DOMAIN replies : k = 1 \/ \E l \in DOMAIN replies' : l + 1 = k
  BY TailFacts
<1>2. \A k : k \in Answers(f)' <=> k \in DOMAIN replies' /\ k + 1 \in Answers(f)
  BY <1>1 DEF Answers
<1>3. \A k \in Answers(f)' : /\ k + 1 \in Answers(f) /\ replies'[k] = replies[k + 1]
                             /\ k \in Nat /\ k + 1 # 1 /\ k + 1 \in Nat
  BY <1>1, <1>2
<1>4. \A k \in Answers(f) : k = 1 \/ \E l \in Answers(f)' : l + 1 = k /\ replies'[l] = replies[k]
  BY <1>1, <1>2 DEF Answers
<1>5. \A k, l \in Answers(f)' : k < l => replies'[k].id < replies'[l].id
  <2>1. \A k, l \in Answers(f)' : k < l => k + 1 < l + 1
    BY <1>3
  <2>. QED  BY <1>3, <2>1 DEF Mirror
<1>6. \A k \in Answers(f)' : \A i \in Unanswered(f)' : replies'[k].id < i
  BY <1>3 DEF Mirror
<1>7. CASE 1 \in Answers(f)
  <2>1. q # <<>> /\ q[1].id = replies[1].id /\ OldestFirst(q)
    BY <1>7, AnswerIsOldest DEF Mirror
  <2>2. OldestFirst(inFlight[f])' /\ Ids(inFlight[f])' = Ids(q) \ {replies[1].id}
    <3>1. OldestFirst(Tail(q)) /\ Ids(Tail(q)) = Ids(q) \ {replies[1].id}
      BY <2>1, TailOfQueue
    <3>. QED  BY <1>7, <3>1 DEF OldestFirst, Ids
  <2>3. \A k \in Answers(f)' : replies[1].id < replies'[k].id /\ replies'[k].id \in Nat
    <3>1. \A k \in Answers(f)' : 1 < k + 1
      BY <1>3
    <3>. QED  BY <1>3, <1>7, <3>1, AnswerFacts DEF Mirror
  <2>4. replies[1].id \in Nat /\ replies[1].id \notin Unanswered(f)
    BY <1>7, AnswerFacts DEF Mirror
  <2>5. ASSUME NEW i
        PROVE  i \in Ids(inFlight[f])' <=> (\E k \in Answers(f)' : i = replies'[k].id) \/ i \in Unanswered(f)'
    <3>1. i \in Ids(q) <=> (\E k \in Answers(f) : i = replies[k].id) \/ i \in Unanswered(f)
      BY DEF Mirror
    <3>2. ASSUME NEW k \in Answers(f)', i = replies'[k].id
          PROVE  (\E l \in Answers(f) : i = replies[l].id) /\ i # replies[1].id
      <4>1. k + 1 \in Answers(f) /\ i = replies[k + 1].id
        BY <1>3, <3>2
      <4>2. replies[1].id < i /\ i \in Nat
        BY <2>3, <3>2
      <4>. QED  BY <2>4, <4>1, <4>2
    <3>3. ASSUME NEW k \in Answers(f), i = replies[k].id, i # replies[1].id
          PROVE  \E l \in Answers(f)' : i = replies'[l].id
      <4>1. k # 1
        BY <3>3
      <4>. QED  BY <1>4, <3>3, <4>1
    <3>4. i \in Unanswered(f) => i # replies[1].id
      BY <2>4
    <3>. QED  BY <2>2, <3>1, <3>2, <3>3, <3>4
  <2>6. NewerFollows(f)'
    <3>1. ASSUME NEW k \in Answers(f)', replies'[k].kind = "superseded"
          PROVE  \E i \in Ids(inFlight[f])' : replies'[k].id < i
      <4>1. PICK i \in Ids(q) : replies'[k].id < i
        BY <1>3, <3>1 DEF NewerFollows
      <4>2. i \in Nat /\ replies[1].id < replies'[k].id /\ replies'[k].id \in Nat
        BY <2>3, IdsFacts
      <4>3. \A a, b, c \in Nat : a < b /\ b < c => c # a
        OBVIOUS
      <4>4. i # replies[1].id
        BY <2>4, <4>1, <4>2, <4>3
      <4>. QED  BY <2>2, <4>1, <4>4
    <3>. QED  BY <3>1 DEF NewerFollows
  <2>. QED  BY <1>5, <1>6, <2>2, <2>5, <2>6 DEF Mirror
<1>8. CASE 1 \notin Answers(f)
  <2>1. OldestFirst(inFlight[f])' /\ Ids(inFlight[f])' = Ids(q)
    BY <1>8 DEF Mirror, OldestFirst, Ids
  <2>2. ASSUME NEW i
        PROVE  (\E l \in Answers(f)' : replies'[l].id = i) <=> \E k \in Answers(f) : replies[k].id = i
    <3>1. \A k \in Answers(f) : \E l \in Answers(f)' : replies'[l].id = replies[k].id
      BY <1>4, <1>8
    <3>2. \A l \in Answers(f)' : \E k \in Answers(f) : replies'[l].id = replies[k].id
      BY <1>3
    <3>3. ASSUME NEW k \in Answers(f), replies[k].id = i
          PROVE  \E l \in Answers(f)' : replies'[l].id = i
      BY <3>1, <3>3
    <3>4. ASSUME NEW l \in Answers(f)', replies'[l].id = i
          PROVE  \E k \in Answers(f) : replies[k].id = i
      BY <3>2, <3>4
    <3>. QED  BY <3>3, <3>4
  <2>3. NewerFollows(f)'
    BY <1>3, <2>1 DEF NewerFollows
  <2>4. ASSUME NEW i
        PROVE  i \in Ids(inFlight[f])' <=> (\E k \in Answers(f)' : i = replies'[k].id) \/ i \in Unanswered(f)'
    <3>1. i \in Ids(q) <=> (\E k \in Answers(f) : i = replies[k].id) \/ i \in Unanswered(f)
      BY DEF Mirror
    <3>. QED  BY <2>1, <2>2, <3>1
  <2>. QED  BY <1>5, <1>6, <2>1, <2>4, <2>3 DEF Mirror
<1>. QED  BY <1>7, <1>8

\* The queue with a new snapshot.
LEMMA QueueGrows ==
  ASSUME NEW q \in Seq(Snapshot), NEW s \in Snapshot, OldestFirst(q),
         \A i \in Ids(q) : i < s.id
  PROVE  /\ Append(q, s) \in Seq(Snapshot) /\ OldestFirst(Append(q, s))
         /\ Ids(Append(q, s)) = Ids(q) \cup {s.id}
         /\ Append(q, s) # <<>> /\ Last(Append(q, s)) = s
<1>. DEFINE n == Len(q) + 1
<1>1. /\ Append(q, s) \in Seq(Snapshot) /\ Len(Append(q, s)) = n /\ n \in Nat /\ n # 0
      /\ DOMAIN Append(q, s) = DOMAIN q \cup {n} /\ Append(q, s)[n] = s
      /\ \A k \in DOMAIN q : Append(q, s)[k] = q[k] /\ k < n /\ k \in Nat
  OBVIOUS
<1>2. Append(q, s) # <<>> /\ Last(Append(q, s)) = s
  BY <1>1, EmptyFacts DEF Last
<1>3. Ids(Append(q, s)) = Ids(q) \cup {s.id}
  <2>1. ASSUME NEW k \in DOMAIN Append(q, s)
        PROVE  Append(q, s)[k].id \in Ids(q) \cup {s.id}
    BY <1>1 DEF Ids
  <2>2. ASSUME NEW i \in Ids(q) \cup {s.id}
        PROVE  \E k \in DOMAIN Append(q, s) : Append(q, s)[k].id = i
    BY <1>1 DEF Ids
  <2>. QED  BY <2>1, <2>2 DEF Ids
<1>4. ASSUME NEW k \in DOMAIN Append(q, s), NEW l \in DOMAIN Append(q, s), k < l
      PROVE  Append(q, s)[k].id < Append(q, s)[l].id
  <2>1. k \in DOMAIN q
    BY <1>1, <1>4
  <2>2. q[k].id \in Ids(q)
    BY <2>1 DEF Ids
  <2>. QED  BY <1>1, <1>4, <2>1, <2>2 DEF OldestFirst
<1>. QED  BY <1>1, <1>2, <1>3, <1>4 DEF OldestFirst

\* A snapshot of f is sent, or answered at once by a writer that is not there.
LEMMA MirrorSent ==
  ASSUME NEW f \in File, replies \in Seq(Reply), Mirror(f), NewerFollows(f),
         inFlight[f] \in Seq(Snapshot), NEW s \in Snapshot,
         inFlight'[f] = Append(inFlight[f], s), \A i \in Ids(inFlight[f]) : i < s.id,
         \/ replies' = replies /\ Unanswered(f)' = Unanswered(f) \cup {s.id}
         \/ /\ Unanswered(f) = {} /\ Unanswered(f)' = {}
            /\ \E e \in Reply : /\ replies' = Append(replies, e)
                                /\ e.kind = "failed" /\ e.file = f /\ e.id = s.id
  PROVE  Mirror(f)' /\ NewerFollows(f)'
<1>1. OldestFirst(inFlight[f])' /\ Ids(inFlight[f])' = Ids(inFlight[f]) \cup {s.id}
  <2>1. /\ OldestFirst(Append(inFlight[f], s))
        /\ Ids(Append(inFlight[f], s)) = Ids(inFlight[f]) \cup {s.id}
    BY QueueGrows DEF Mirror
  <2>. QED  BY <2>1 DEF OldestFirst, Ids
<1>0. s.id \in Nat /\ \A k \in Answers(f) : replies[k].id \in Ids(inFlight[f])
  BY DEF Mirror, Snapshot
<1>2. CASE replies' = replies /\ Unanswered(f)' = Unanswered(f) \cup {s.id}
  <2>1. Answers(f)' = Answers(f)
    BY <1>2 DEF Answers
  <2>2. Ids(inFlight[f])' = {replies[k].id : k \in Answers(f)}' \cup Unanswered(f)'
    BY <1>1, <1>2, <2>1 DEF Mirror
  <2>3. NewerFollows(f)'
    BY <1>1, <1>2, <2>1 DEF NewerFollows
  <2>4. \A k \in Answers(f)' : \A i \in Unanswered(f)' : replies'[k].id < i
    BY <1>0, <1>2, <2>1 DEF Mirror
  <2>5. \A k, l \in Answers(f)' : k < l => replies'[k].id < replies'[l].id
    BY <1>2, <2>1 DEF Mirror
  <2>. QED  BY <1>1, <2>2, <2>3, <2>4, <2>5 DEF Mirror
<1>3. CASE /\ Unanswered(f) = {} /\ Unanswered(f)' = {}
           /\ \E e \in Reply : /\ replies' = Append(replies, e)
                               /\ e.kind = "failed" /\ e.file = f /\ e.id = s.id
  <2>1. PICK e \in Reply : /\ replies' = Append(replies, e)
                           /\ e.kind = "failed" /\ e.file = f /\ e.id = s.id
    BY <1>3
  <2>. DEFINE n == Len(replies) + 1
  <2>2. /\ n \in Nat /\ n \notin DOMAIN replies /\ \A k \in DOMAIN replies : k < n /\ k \in Nat
        /\ DOMAIN replies' = DOMAIN replies \cup {n}
        /\ replies'[n] = e /\ \A k \in DOMAIN replies : replies'[k] = replies[k]
    BY <2>1
  <2>3. Answers(f)' = Answers(f) \cup {n} /\ Answers(f) \subseteq DOMAIN replies
    BY <2>1, <2>2 DEF Answers
  <2>4. ASSUME NEW i
        PROVE  i \in Ids(inFlight[f])' <=> (\E k \in Answers(f)' : i = replies'[k].id) \/ i \in Unanswered(f)'
    <3>1. i \in Ids(inFlight[f]) <=> \E k \in Answers(f) : i = replies[k].id
      BY <1>3 DEF Mirror
    <3>. QED  BY <1>1, <1>3, <2>1, <2>2, <2>3, <3>1
  <2>5. \A k, l \in Answers(f)' : k < l => replies'[k].id < replies'[l].id
    BY <1>0, <2>1, <2>2, <2>3 DEF Mirror
  <2>6. NewerFollows(f)'
    BY <1>1, <2>1, <2>2, <2>3 DEF NewerFollows
  <2>. QED  BY <1>1, <1>3, <2>4, <2>5, <2>6 DEF Mirror
<1>. QED  BY <1>2, <1>3

-----------------------------------------------------------------------------
(* The steps that reach the channels or the queues in flight                *)

Sends(f) == SendSnapshot(f, mem[f]) /\ Sent(f)
Takes == TakeReply /\ OnReply(Head(replies))
SendsOther == (\E c \in {Export, Quarantine} : SendOther(c)) /\ UNCHANGED <<inFlight, ref>>
Works == ThreadStep /\ UNCHANGED <<inFlight, ref>>

\* What is known before such a step.
Ready == WriterInv /\ TrackerTypeOK /\ Alive /\ \A f \in File : OnTheWay(f)

\* The types among it.
LEMMA ReadyFacts ==
  ASSUME Ready
  PROVE  /\ cmds \in Seq(Command) /\ replies \in Seq(Reply) /\ order \in Seq(Job)
         /\ job \in Command /\ slots \in [File -> Snapshot \cup {Empty}]
         /\ nextId \in Nat /\ issued \in [File -> SUBSET Nat]
         /\ \A f \in File : inFlight[f] \in Seq(Snapshot)
         /\ \A k \in DOMAIN cmds : cmds[k] \in Command /\ cmds[k].id \in Nat /\ cmds[k].file \in File
         /\ \A f \in File : slots[f].id \in Nat => slots[f] \in Snapshot
         /\ \A f \in File : \A i \in issued[f] : i \in Nat /\ i < nextId
<1>1. TypeOK /\ TrackerTypeOK /\ IdsBelowCounter
  BY DEF Ready, WriterInv
<1>2. \A k \in DOMAIN cmds : cmds[k] \in Command
  BY <1>1 DEF TypeOK
<1>3. \A f \in File : slots[f].id \in Nat => slots[f] \in Snapshot
  BY <1>1, NoneFacts DEF TypeOK
<1>4. \A f \in File : \A i \in issued[f] : i \in Nat /\ i < nextId
  BY <1>1 DEF IdsBelowCounter, TypeOK
<1>. QED  BY <1>1, <1>2, <1>3, <1>4, RecordFacts DEF TypeOK, TrackerTypeOK

\* A snapshot accepted into the slot, with the one it supersedes.
LEMMA MirrorAccepts ==
  ASSUME Ready, AcceptWrite, inFlight' = inFlight, NEW f \in File
  PROVE  Mirror(f)' /\ NewerFollows(f)'
<1>. USE DEF channelVars, threadVars, diskVars, historyVars
<1>. DEFINE c == Head(cmds)
            g == c.file
<1>1. /\ c \in Command /\ c = cmds[1] /\ 1 \in DOMAIN cmds /\ c.kind = "write"
      /\ g \in File /\ c.id \in Nat /\ IsWrite(cmds[1], g)
      /\ \A k \in DOMAIN cmds' : /\ k + 1 \in DOMAIN cmds /\ cmds'[k] = cmds[k + 1]
                                 /\ k \in Nat /\ k > 0
      /\ \A k \in DOMAIN cmds : k = 1 \/ \E l \in DOMAIN cmds' : l + 1 = k
  BY ReadyFacts, TailFacts, RecordFacts DEF AcceptWrite, IsWrite
<1>2. /\ slots' = [slots EXCEPT ![g] = [id |-> c.id, text |-> c.text]]
      /\ job' = job /\ issued' = issued /\ at = "accept" /\ job = NoJob
      /\ IF slots[g] # Empty
           THEN replies' = Append(replies, [kind |-> "superseded", file |-> g, id |-> slots[g].id])
           ELSE replies' = replies
  BY DEF AcceptWrite, Ready, Alive
<1>3. /\ Mirror(f) /\ NewerFollows(f) /\ replies \in Seq(Reply) /\ inFlight[f] \in Seq(Snapshot)
      /\ \A h \in File : ~IsWrite(job, h) /\ issued[h] \in SUBSET Nat
  BY <1>2, ReadyFacts DEF Ready, OnTheWay, IsWrite, NoJob
<1>4. ASSUME f # g
      PROVE  Unanswered(f)' = Unanswered(f)
  <2>1. slots'[f] = slots[f]
    BY <1>2, <1>4, ReadyFacts
  <2>2. \A k \in DOMAIN cmds : IsWrite(cmds[k], f) => k # 1
    BY <1>1, <1>4 DEF IsWrite
  <2>3. ASSUME NEW i
        PROVE  (\E k \in DOMAIN cmds' : IsWrite(cmds'[k], f) /\ cmds'[k].id = i)
                 <=> (\E k \in DOMAIN cmds : IsWrite(cmds[k], f) /\ cmds[k].id = i)
    BY <1>1, <2>2
  <2>. QED  BY <1>2, <2>1, <2>3 DEF Unanswered, IsWrite
<1>5. CASE f # g
  <2>1. \/ replies' = replies
        \/ \E e \in Reply : replies' = Append(replies, e) /\ ~(e.kind \in AnswerKinds /\ e.file = f)
    <3>1. slots[g] # Empty => /\ slots[g].id \in Nat
                              /\ [kind |-> "superseded", file |-> g, id |-> slots[g].id] \in Reply
      BY <1>1, ReadyFacts, RecordFacts DEF Snapshot
    <3>. QED  BY <1>2, <1>5, <3>1
  <2>. QED  BY <1>3, <1>4, <1>5, <2>1, MirrorStands
<1>6. ASSUME f = g, NEW i
      PROVE  i \in Unanswered(f)' <=> i \in issued[f] /\ \E k \in DOMAIN cmds : IsWrite(cmds[k], f) /\ cmds[k].id = i
  <2>1. slots'[f].id = c.id
    BY <1>1, <1>2, <1>6, ReadyFacts
  <2>2. ASSUME NEW k \in DOMAIN cmds, IsWrite(cmds[k], f), cmds[k].id = i, k # 1
        PROVE  \E l \in DOMAIN cmds' : IsWrite(cmds'[l], f) /\ cmds'[l].id = i
    BY <1>1, <2>2
  <2>3. ASSUME NEW l \in DOMAIN cmds', IsWrite(cmds'[l], f), cmds'[l].id = i
        PROVE  \E k \in DOMAIN cmds : IsWrite(cmds[k], f) /\ cmds[k].id = i
    BY <1>1, <2>3
  <2>4. (\E l \in DOMAIN cmds' : IsWrite(cmds[l], f)' /\ cmds'[l].id = i)
          <=> \E l \in DOMAIN cmds' : IsWrite(cmds'[l], f) /\ cmds'[l].id = i
    BY DEF IsWrite
  <2>. QED  BY <1>1, <1>2, <1>3, <1>6, <2>1, <2>2, <2>3, <2>4 DEF Unanswered, IsWrite
<1>7. CASE f = g /\ slots[g] = Empty
  <2>1. slots[f].id \notin issued[f]
    BY <1>3, <1>7, NoneFacts
  <2>2. Unanswered(f)' = Unanswered(f)
    BY <1>3, <1>6, <1>7, <2>1 DEF Unanswered
  <2>. QED  BY <1>2, <1>3, <1>7, <2>2, MirrorStands
<1>8. CASE f = g /\ slots[g] # Empty
  <2>. DEFINE x == slots[f].id
              e == [kind |-> "superseded", file |-> f, id |-> x]
  <2>1. /\ x \in Nat /\ x \in issued[f] /\ e \in Reply
        /\ \A k \in DOMAIN cmds : IsWrite(cmds[k], f) => cmds[k].id > x /\ cmds[k].id \in issued[f]
    BY <1>8, ReadyFacts, RecordFacts
       DEF Ready, WriterInv, WritesInOrder, SlotInOrder, ChannelInOrder, Snapshot
  <2>2. \A i : i \in Unanswered(f)' => x < i /\ i # x
    BY <1>6, <1>8, <2>1, ReadyFacts
  <2>3. x \in Unanswered(f) /\ Unanswered(f)' = Unanswered(f) \ {x}
    BY <1>3, <1>6, <1>8, <2>1, <2>2 DEF Unanswered
  <2>4. c.id \in Unanswered(f)'
    BY <1>1, <1>6, <1>8, <2>1
  <2>5. replies' = Append(replies, e) /\ e.kind \in AnswerKinds /\ e.file = f /\ e.id = x
    BY <1>2, <1>8 DEF AnswerKinds
  <2>. HIDE DEF e, x
  <2>6. /\ e.id \in Unanswered(f) /\ Unanswered(f)' = Unanswered(f) \ {e.id}
        /\ \A i \in Unanswered(f)' : e.id < i
        /\ Unanswered(f)' # {}
    BY <2>2, <2>3, <2>4, <2>5
  <2>. QED  BY <1>3, <2>1, <2>5, <2>6, MirrorAnswers
<1>. QED  BY <1>5, <1>7, <1>8

\* Other commands accepted, a job started or its file replaced: the snapshots
\* on their way stay on it.
LEMMA MirrorMoves ==
  ASSUME Ready, AcceptOther \/ StartJob \/ JobReplaces, inFlight' = inFlight, NEW f \in File
  PROVE  Mirror(f)' /\ NewerFollows(f)'
<1>. USE DEF channelVars, threadVars, diskVars, historyVars
<1>0. /\ Mirror(f) /\ NewerFollows(f) /\ replies \in Seq(Reply) /\ replies' = replies
      /\ issued' = issued
  BY ReadyFacts DEF Ready, OnTheWay, AcceptOther, StartJob, JobReplaces
<1>1. CASE AcceptOther
  <2>1. /\ \A k \in DOMAIN cmds' : /\ k + 1 \in DOMAIN cmds /\ cmds'[k] = cmds[k + 1]
                                   /\ k \in Nat /\ k > 0
        /\ \A k \in DOMAIN cmds : k = 1 \/ \E l \in DOMAIN cmds' : l + 1 = k
        /\ ~IsWrite(cmds[1], f)
    BY <1>1, ReadyFacts, TailFacts DEF AcceptOther, IsWrite
  <2>2. slots' = slots /\ job' = job
    BY <1>1 DEF AcceptOther
  <2>3. ASSUME NEW i
        PROVE  (\E k \in DOMAIN cmds' : IsWrite(cmds'[k], f) /\ cmds'[k].id = i)
                 <=> (\E k \in DOMAIN cmds : IsWrite(cmds[k], f) /\ cmds[k].id = i)
    <3>1. ASSUME NEW k \in DOMAIN cmds, IsWrite(cmds[k], f), cmds[k].id = i
          PROVE  \E l \in DOMAIN cmds' : IsWrite(cmds'[l], f) /\ cmds'[l].id = i
      BY <2>1, <3>1
    <3>. QED  BY <2>1, <3>1
  <2>4. Unanswered(f)' = Unanswered(f)
    BY <1>0, <2>2, <2>3 DEF Unanswered, IsWrite
  <2>. QED  BY <1>0, <2>4, MirrorStands
<1>2. CASE StartJob
  <2>. DEFINE j == Head(order)
  <2>1. /\ job = NoJob /\ cmds' = cmds /\ cmds = <<>> /\ j \in Job /\ 1 \in DOMAIN order /\ j = order[1]
        /\ j.file \in File
    BY <1>2, ReadyFacts, TailFacts, RecordFacts DEF StartJob, Ready, Alive
  <2>2. ASSUME NEW i \in issued[f]
        PROVE  ((IsWrite(job, f) /\ job.id = i) \/ slots[f].id = i)
                 <=> ((IsWrite(job', f) /\ job'.id = i) \/ slots'[f].id = i)
    <3>0. i # None
      BY ReadyFacts, NoneFacts
    <3>1. CASE j.kind = "write"
      <4>1. /\ job' = Write(j.file, slots[j.file].id, slots[j.file].text)
            /\ slots' = [slots EXCEPT ![j.file] = Empty]
        BY <1>2, <3>1 DEF StartJob
      <4>. QED  BY <2>1, <3>0, <4>1, ReadyFacts DEF Write, IsWrite, NoJob, Empty
    <3>2. CASE j.kind # "write"
      <4>1. job'.kind # "write" /\ slots' = slots
        BY <1>2, <3>2 DEF StartJob, NoJob
      <4>. QED  BY <2>1, <4>1 DEF IsWrite, NoJob
    <3>. QED  BY <3>1, <3>2
  <2>3. Unanswered(f)' = Unanswered(f)
    BY <1>0, <2>1, <2>2 DEF Unanswered, IsWrite
  <2>. QED  BY <1>0, <2>3, MirrorStands
<1>3. CASE JobReplaces
  <2>1. Unanswered(f)' = Unanswered(f)
    BY <1>0, <1>3 DEF JobReplaces, Unanswered, IsWrite
  <2>. QED  BY <1>0, <2>1, MirrorStands
<1>. QED  BY <1>1, <1>2, <1>3

\* A job is answered.
LEMMA MirrorAnswersJob ==
  ASSUME Ready, NEW ok \in BOOLEAN, at \in {"doing", "replaced"}, job' = NoJob,
         replies' = Append(replies, ReplyTo(job, ok)),
         UNCHANGED <<cmds, slots, issued, inFlight>>, NEW f \in File
  PROVE  Mirror(f)' /\ NewerFollows(f)'
<1>. DEFINE e == ReplyTo(job, ok)
<1>0. /\ Mirror(f) /\ NewerFollows(f) /\ replies \in Seq(Reply) /\ inFlight[f] \in Seq(Snapshot)
      /\ e \in Reply /\ job \in Command /\ e.file = job.file /\ e.id = job.id
  BY ReadyFacts, ReplyToType DEF Ready, OnTheWay, ReplyTo
<1>1. ASSUME NEW i
      PROVE  i \in Unanswered(f)' <=> /\ i \in issued[f]
                                      /\ \/ slots[f].id = i
                                         \/ \E k \in DOMAIN cmds : IsWrite(cmds[k], f) /\ cmds[k].id = i
  BY DEF Unanswered, IsWrite, NoJob
<1>2. CASE ~IsWrite(job, f)
  <2>1. Unanswered(f)' = Unanswered(f)
    BY <1>1, <1>2 DEF Unanswered
  <2>2. ~(e.kind \in AnswerKinds /\ e.file = f)
    BY <1>0, <1>2 DEF IsWrite, ReplyTo, AnswerKinds
  <2>. QED  BY <1>0, <2>1, <2>2, MirrorStands
<1>3. CASE IsWrite(job, f)
  <2>1. job.id \in issued[f] /\ job.id \in Nat
    BY <1>3, ReadyFacts DEF Ready, OnTheWay, IdsIssued
  <2>2. slots[f].id \in issued[f] => job.id < slots[f].id
    <3>1. slots[f].id \in issued[f] => slots[f] # Empty
      BY ReadyFacts, NoneFacts
    <3>. QED  BY <1>3, <3>1, ReadyFacts
              DEF Ready, WriterInv, WritesInOrder, SlotInOrder, JobInOrder, Doing
  <2>3. \A k \in DOMAIN cmds : IsWrite(cmds[k], f) => job.id < cmds[k].id
    BY <1>3, ReadyFacts DEF Ready, WriterInv, WritesInOrder, ChannelInOrder, JobInOrder, Doing
  <2>4. \A i \in Unanswered(f)' : job.id < i /\ i # job.id
    BY <1>1, <2>1, <2>2, <2>3, ReadyFacts
  <2>5. job.id \in Unanswered(f) /\ Unanswered(f)' = Unanswered(f) \ {job.id}
    BY <1>1, <1>3, <2>1, <2>4 DEF Unanswered
  <2>6. e.kind \in AnswerKinds /\ e.file = f /\ e.kind # "superseded" /\ replies' = Append(replies, e)
    BY <1>3 DEF ReplyTo, AnswerKinds, IsWrite
  <2>. HIDE DEF e
  <2>. QED  BY <1>0, <2>4, <2>5, <2>6, MirrorAnswers
<1>. QED  BY <1>2, <1>3

\* A snapshot is sent.
LEMMA MirrorSends ==
  ASSUME Ready, NEW g \in File, Sends(g), NEW f \in File
  PROVE  Mirror(f)' /\ NewerFollows(f)'
<1>. USE DEF channelVars, threadVars, diskVars, historyVars
<1>. DEFINE c == Write(g, nextId, mem[g])
            s == [id |-> nextId, text |-> mem[g]]
<1>0. /\ Mirror(f) /\ NewerFollows(f) /\ replies \in Seq(Reply) /\ inFlight[f] \in Seq(Snapshot)
      /\ cmds \in Seq(Command) /\ mem[g] \in Nat /\ nextId \in Nat /\ s \in Snapshot /\ c \in Command
      /\ c.kind = "write" /\ c.file = g /\ c.id = nextId
  BY ReadyFacts, CommandTypes, RecordFacts DEF Ready, OnTheWay, TrackerTypeOK, Write
<1>1. /\ job' = job /\ slots' = slots /\ Send(c) /\ at # "ended"
      /\ issued' = [issued EXCEPT ![g] = @ \cup {nextId}]
      /\ inFlight' = [inFlight EXCEPT ![g] = Append(@, s)]
  BY DEF Sends, SendSnapshot, Sent, Ready, Alive
<1>2. \A h \in File : /\ Ids(inFlight[h]) \subseteq issued[h] /\ nextId \notin issued[h]
                      /\ \A i \in Ids(inFlight[h]) : i < nextId
  BY ReadyFacts DEF Ready, OnTheWay, IdsIssued
<1>3. issued[f] \in SUBSET Nat /\ issued'[f] = IF f = g THEN issued[f] \cup {nextId} ELSE issued[f]
  BY <1>1, ReadyFacts
<1>4. inFlight'[f] = IF f = g THEN Append(inFlight[f], s) ELSE inFlight[f]
  BY <1>1, ReadyFacts DEF Ready, TrackerTypeOK
<1>5. ~IsWrite(job, f) \/ job.id \in issued[f]
  BY DEF Ready, OnTheWay, IdsIssued
<1>6. slots[f] # Empty => slots[f].id \in issued[f]
  BY DEF Ready, WriterInv, WritesInOrder, SlotInOrder
<1>a. slots[f].id # nextId
  BY <1>2, <1>6, NoneFacts, ReadyFacts
<1>7. \A k \in DOMAIN cmds : IsWrite(cmds[k], f) => cmds[k].id \in issued[f]
  BY DEF Ready, WriterInv, WritesInOrder, ChannelInOrder
<1>8. CASE dead
  <2>1. cmds = <<>> /\ cmds' = cmds /\ job = NoJob /\ replies' = Append(replies, ReplyTo(c, FALSE))
    BY <1>0, <1>1, <1>8 DEF Send, Ready, Alive
  <2>2. /\ ReplyTo(c, FALSE) \in Reply /\ ReplyTo(c, FALSE).kind = "failed"
        /\ ReplyTo(c, FALSE).file = g /\ ReplyTo(c, FALSE).id = s.id
    BY <1>0, ReplyToType DEF ReplyTo
  <2>3. slots[f] = Empty
    <3>1. order = <<>>
      BY <1>8 DEF Ready, Alive
    <3>. QED  BY <3>1 DEF Ready, WriterInv, JobsHaveSnapshots
  <2>4. Unanswered(f) = {} /\ Unanswered(f)' = {}
    BY <1>0, <1>1, <1>3, <2>1, <2>3, NoneFacts DEF Unanswered, IsWrite, NoJob
  <2>5. CASE f = g
    BY <1>0, <1>2, <1>4, <2>1, <2>2, <2>4, <2>5, MirrorSent
  <2>6. CASE f # g
    BY <1>0, <1>4, <2>1, <2>2, <2>4, <2>6, MirrorStands
  <2>. QED  BY <2>5, <2>6
<1>9. CASE ~dead
  <2>1. cmds' = Append(cmds, c) /\ replies' = replies
    BY <1>1, <1>9 DEF Send
  <2>2. ASSUME NEW i
        PROVE  (\E k \in DOMAIN cmds' : IsWrite(cmds'[k], f) /\ cmds'[k].id = i)
                 <=> \/ \E k \in DOMAIN cmds : IsWrite(cmds[k], f) /\ cmds[k].id = i
                     \/ f = g /\ i = nextId
    <3>1. /\ \A k \in DOMAIN cmds' : \/ k \in DOMAIN cmds /\ cmds'[k] = cmds[k]
                                     \/ cmds'[k] = c
          /\ \A k \in DOMAIN cmds : k \in DOMAIN cmds' /\ cmds'[k] = cmds[k]
          /\ \E k \in DOMAIN cmds' : cmds'[k] = c
      <4>. HIDE DEF c
      <4>. QED  BY <1>0, <2>1, AppendFacts
    <3>2. IsWrite(c, f) <=> f = g
      BY <1>0 DEF IsWrite
    <3>. HIDE DEF c
    <3>. QED  BY <1>0, <3>1, <3>2
  <2>3. CASE f = g
    <3>0. ASSUME NEW i
          PROVE  i \in Unanswered(f)' <=> i \in Unanswered(f) \/ i = nextId
      <4>1. (\E k \in DOMAIN cmds' : IsWrite(cmds[k], f)' /\ cmds'[k].id = i)
              <=> \E k \in DOMAIN cmds' : IsWrite(cmds'[k], f) /\ cmds'[k].id = i
        BY DEF IsWrite
      <4>2. (IsWrite(job, f)' /\ job'.id = i) <=> IsWrite(job, f) /\ job.id = i
        BY <1>1 DEF IsWrite
      <4>. QED  BY <1>1, <1>2, <1>3, <1>5, <1>a, <1>7, <2>2, <2>3, <4>1, <4>2 DEF Unanswered
    <3>1. Unanswered(f)' = Unanswered(f) \cup {nextId}
      BY <3>0
    <3>. QED  BY <1>0, <1>2, <1>4, <2>1, <2>3, <3>1, MirrorSent
  <2>4. CASE f # g
    <3>1. Unanswered(f)' = Unanswered(f)
      BY <1>1, <1>3, <2>2, <2>4 DEF Unanswered, IsWrite
    <3>. QED  BY <1>0, <1>4, <2>1, <2>4, <3>1, MirrorStands
  <2>. QED  BY <2>3, <2>4
<1>. QED  BY <1>8, <1>9

\* Another command is sent.
LEMMA MirrorSendsOther ==
  ASSUME Ready, SendsOther, NEW f \in File
  PROVE  Mirror(f)' /\ NewerFollows(f)'
<1>. USE DEF channelVars, threadVars, diskVars, historyVars
<1>1. PICK c \in {Export, Quarantine} : SendOther(c)
  BY DEF SendsOther
<1>2. /\ c \in Command /\ c.kind \in {"export", "quarantine"} /\ Send(c) /\ job' = job /\ slots' = slots
      /\ issued' = issued /\ inFlight' = inFlight /\ at # "ended"
  BY <1>1, CommandTypes DEF SendOther, SendsOther, Others, Export, Quarantine, NoJob, Ready, Alive
<1>0. /\ Mirror(f) /\ NewerFollows(f) /\ replies \in Seq(Reply) /\ cmds \in Seq(Command)
  BY ReadyFacts DEF Ready, OnTheWay
<1>3. \/ replies' = replies
      \/ \E e \in Reply : replies' = Append(replies, e) /\ ~(e.kind \in AnswerKinds /\ e.file = f)
  <2>1. ReplyTo(c, FALSE) \in Reply /\ ReplyTo(c, FALSE).kind \notin AnswerKinds
    BY <1>2, ReplyToType DEF ReplyTo, AnswerKinds
  <2>. QED  BY <1>2, <2>1 DEF Send
<1>4. ASSUME NEW i
      PROVE  (\E k \in DOMAIN cmds' : IsWrite(cmds'[k], f) /\ cmds'[k].id = i)
               <=> \E k \in DOMAIN cmds : IsWrite(cmds[k], f) /\ cmds[k].id = i
  <2>1. CASE dead
    BY <1>2, <2>1 DEF Send
  <2>2. CASE ~dead
    <3>1. cmds' = Append(cmds, c)
      BY <1>2, <2>2 DEF Send
    <3>2. /\ \A k \in DOMAIN cmds' : \/ k \in DOMAIN cmds /\ cmds'[k] = cmds[k]
                                     \/ cmds'[k] = c
          /\ \A k \in DOMAIN cmds : k \in DOMAIN cmds' /\ cmds'[k] = cmds[k]
      BY <1>0, <1>2, <3>1, AppendFacts
    <3>3. ~IsWrite(c, f)
      BY <1>2 DEF IsWrite
    <3>. QED  BY <3>2, <3>3
  <2>. QED  BY <2>1, <2>2
<1>5. Unanswered(f)' = Unanswered(f)
  BY <1>2, <1>4 DEF Unanswered, IsWrite
<1>. QED  BY <1>0, <1>2, <1>3, <1>5, MirrorStands

\* What taking a reply does to the tracker: an answer is to the head of its
\* file's queue, which leaves the queue.
LEMMA TakesEffect ==
  ASSUME Ready, Takes
  PROVE  LET r == Head(replies)
             q == inFlight[r.file]
         IN /\ r \in Reply /\ r.file \in File /\ r = replies[1] /\ 1 \in DOMAIN replies
            /\ r.kind \in AnswerKinds =>
                 /\ q # <<>> /\ q[1].id = r.id /\ q[1] \in Snapshot /\ OldestFirst(q)
                 /\ inFlight' = [inFlight EXCEPT ![r.file] = Tail(q)]
                 /\ ref' = [ref EXCEPT ![r.file] =
                              IF r.kind # "written" THEN @
                              ELSE IF r.file = "playlist" THEN Later(ref[r.file], q[1].text)
                              ELSE q[1].text]
                 /\ stopped' = [stopped EXCEPT ![r.file] =
                                  IF r.kind = "superseded" THEN @ ELSE r.kind = "failed"]
            /\ r.kind \notin AnswerKinds => UNCHANGED <<inFlight, ref, stopped>>
<1>. DEFINE r == Head(replies)
            q == inFlight[r.file]
<1>1. r \in Reply /\ r = replies[1] /\ 1 \in DOMAIN replies /\ OnReply(r)
  BY ReadyFacts, TailFacts DEF Takes, TakeReply
<1>2. r.file \in File /\ r.kind \in Answer
  BY <1>1 DEF Reply
<1>3. CASE r.kind \in AnswerKinds
  <2>1. 1 \in Answers(r.file)
    BY <1>1, <1>3 DEF Answers, AnswerKinds
  <2>2. Mirror(r.file) /\ replies \in Seq(Reply) /\ q \in Seq(Snapshot) /\ OldestFirst(q)
    BY <1>2, ReadyFacts DEF Ready, OnTheWay, Mirror
  <2>3. q # <<>> /\ q[1].id = r.id
    BY <1>1, <1>2, <2>1, <2>2, AnswerIsOldest
  <2>4. /\ q[1] \in Snapshot /\ Holds(q, r.id)
        /\ RemoveId(q, r.id) = Tail(q) /\ PopFrontUntil(q, r.id) = Tail(q)
    BY <2>2, <2>3, HeadIsOldest
  <2>5. SelectInSeq(q, LAMBDA e : e.id = r.id) = 1
    <3>1. SelectInSeq(q, LAMBDA e : e.id = q[1].id) = 1
      BY <2>2, <2>3, HeadIsOldest
    <3>. QED  BY <2>3, <3>1
  <2>6. RefAfterWritten(r.file, r.id) = IF r.file = "playlist" THEN Later(ref[r.file], q[1].text) ELSE q[1].text
    BY <2>4, <2>5, Zenon DEF RefAfterWritten
  <2>7. /\ inFlight \in [File -> Seq(Snapshot)] /\ stopped \in [File -> BOOLEAN]
        /\ ref \in [File -> Nat \cup {None}]
    BY DEF Ready, TrackerTypeOK
  <2>8. CASE r.kind = "written"
    <3>1. OnWritten(r.file, r.id)
      BY <1>1, <2>8 DEF OnReply
    <3>. QED  BY <1>1, <1>2, <1>3, <2>2, <2>3, <2>4, <2>6, <2>7, <2>8, <3>1 DEF OnWritten
  <2>9. CASE r.kind = "failed"
    <3>1. OnFailed(r.file, r.id)
      BY <1>1, <2>9 DEF OnReply
    <3>. QED  BY <1>1, <1>2, <1>3, <2>2, <2>3, <2>4, <2>7, <2>9, <3>1 DEF OnFailed
  <2>10. CASE r.kind = "superseded"
    <3>1. OnSuperseded(r.file, r.id)
      BY <1>1, <2>10 DEF OnReply
    <3>. QED  BY <1>1, <1>2, <1>3, <2>2, <2>3, <2>4, <2>7, <2>10, <3>1 DEF OnSuperseded
  <2>. QED  BY <1>3, <2>8, <2>9, <2>10 DEF AnswerKinds
<1>4. CASE r.kind \notin AnswerKinds
  <2>1. UNCHANGED <<ref, inFlight, stopped>>
    BY <1>1, <1>4 DEF OnReply, AnswerKinds
  <2>. QED  BY <1>1, <1>2, <1>4, <2>1
<1>. QED  BY <1>3, <1>4

LEMMA MirrorTakes ==
  ASSUME Ready, Takes, NEW f \in File
  PROVE  Mirror(f)' /\ NewerFollows(f)'
<1>. DEFINE r == Head(replies)
<1>1. /\ Mirror(f) /\ NewerFollows(f) /\ replies \in Seq(Reply) /\ inFlight[f] \in Seq(Snapshot)
      /\ inFlight \in [File -> Seq(Snapshot)]
  BY ReadyFacts DEF Ready, OnTheWay, TrackerTypeOK
<1>2. /\ replies # <<>> /\ replies' = Tail(replies) /\ cmds' = cmds /\ job' = job /\ slots' = slots
      /\ issued' = issued
  BY DEF Takes, TakeReply, threadVars, historyVars
<1>3. Unanswered(f)' = Unanswered(f)
  BY <1>2 DEF Unanswered, IsWrite
<1>4. 1 \in Answers(f) <=> r.kind \in AnswerKinds /\ r.file = f
  BY TakesEffect DEF Answers, AnswerKinds
<1>5. inFlight'[f] = IF 1 \in Answers(f) THEN Tail(inFlight[f]) ELSE inFlight[f]
  BY <1>1, <1>4, TakesEffect
<1>. QED  BY <1>1, <1>2, <1>3, <1>5, MirrorTaken

-----------------------------------------------------------------------------
(* Ids                                                                      *)

\* Ids of a file stay issued, and what is on its way has been issued.
LEMMA IdsKept ==
  ASSUME Ready, NEW f \in File,
         \/ \E g \in File : Sends(g)
         \/ Takes \/ SendsOther \/ Works
  PROVE  IdsIssued(f)'
<1>. USE DEF channelVars, threadVars, diskVars, historyVars
<1>0. /\ IdsIssued(f) /\ inFlight \in [File -> Seq(Snapshot)] /\ inFlight[f] \in Seq(Snapshot)
      /\ tried \in [File -> Nat \cup {None}] /\ stored \in [File -> Nat \cup {None}]
      /\ issued \in [File -> SUBSET Nat] /\ nextId \in Nat /\ issued[f] \in SUBSET Nat
  BY ReadyFacts DEF Ready, OnTheWay, TrackerTypeOK, WriterInv, TypeOK
<1>a. tried[f] \in Int
  BY <1>0 DEF None
<1>1. ASSUME NEW g \in File, Sends(g)
      PROVE  IdsIssued(f)'
  <2>. DEFINE s == [id |-> nextId, text |-> mem[g]]
  <2>1. /\ issued' = [issued EXCEPT ![g] = @ \cup {nextId}] /\ nextId' = nextId + 1
        /\ UNCHANGED <<stored, tried, job>> /\ inFlight' = [inFlight EXCEPT ![g] = Append(@, s)]
    BY <1>1 DEF Sends, SendSnapshot, Sent
  <2>2. issued[f] \subseteq issued'[f] /\ (f = g => nextId \in issued'[f])
    BY <1>0, <2>1
  <2>3. s \in Snapshot /\ s.id = nextId
    BY <1>0, RecordFacts DEF Ready, TrackerTypeOK
  <2>4. CASE f = g
    <3>1. Ids(Append(inFlight[f], s)) \subseteq Ids(inFlight[f]) \cup {nextId}
      <4>. HIDE DEF s
      <4>1. \A k \in DOMAIN Append(inFlight[f], s) :
              \/ k \in DOMAIN inFlight[f] /\ Append(inFlight[f], s)[k] = inFlight[f][k]
              \/ Append(inFlight[f], s)[k] = s
        BY <1>0, <2>3, AppendFacts
      <4>. QED  BY <2>3, <4>1 DEF Ids
    <3>2. Ids(inFlight[f])' \subseteq issued'[f]
      BY <1>0, <2>1, <2>2, <2>4, <3>1 DEF IdsIssued, Ids
    <3>3. tried'[f] < nextId'
      BY <1>0, <1>a, <2>1 DEF IdsIssued
    <3>. QED  BY <1>0, <2>1, <2>2, <3>2, <3>3 DEF IdsIssued, IsWrite
  <2>5. CASE f # g
    <3>1. inFlight'[f] = inFlight[f]
      BY <1>0, <2>1, <2>5
    <3>2. Ids(inFlight[f])' = Ids(inFlight[f])
      BY <3>1 DEF Ids
    <3>3. tried'[f] < nextId'
      BY <1>0, <1>a, <2>1 DEF IdsIssued
    <3>. QED  BY <1>0, <2>1, <2>2, <3>2, <3>3 DEF IdsIssued, IsWrite
  <2>. QED  BY <2>4, <2>5
<1>2. CASE Takes
  <2>1. UNCHANGED <<issued, stored, tried, nextId, job>>
    BY <1>2 DEF Takes, TakeReply
  <2>2. Ids(inFlight[f])' \subseteq Ids(inFlight[f])
    <3>. DEFINE r == Head(replies)
    <3>1. CASE inFlight'[f] = inFlight[f]
      BY <3>1 DEF Ids
    <3>2. CASE inFlight'[f] # inFlight[f]
      <4>1. r.kind \in AnswerKinds /\ r.file = f /\ inFlight[f] # <<>> /\ inFlight'[f] = Tail(inFlight[f])
        BY <1>0, <1>2, <3>2, TakesEffect
      <4>2. OldestFirst(inFlight[f])
        BY DEF Ready, OnTheWay, Mirror
      <4>3. Ids(Tail(inFlight[f])) = Ids(inFlight[f]) \ {inFlight[f][1].id}
        BY <1>0, <4>1, <4>2, TailOfQueue
      <4>. QED  BY <4>1, <4>3 DEF Ids
    <3>. QED  BY <3>1, <3>2
  <2>. QED  BY <1>0, <2>1, <2>2 DEF IdsIssued, IsWrite
<1>3. CASE SendsOther
  <2>1. UNCHANGED <<issued, stored, tried, nextId, job, inFlight>>
    BY <1>3 DEF SendsOther, SendOther
  <2>. QED  BY <1>0, <2>1 DEF IdsIssued, IsWrite, Ids
<1>4. CASE Works
  <2>0. inFlight' = inFlight /\ UNCHANGED <<issued, nextId>>
    BY <1>4 DEF Works, ThreadStep, AcceptWrite, AcceptOther, AcceptStop, StartJob, JobFails, JobReplaces,
                JobReturns, End
  <2>1. CASE StartJob
    <3>. DEFINE j == Head(order)
    <3>1. j \in Job /\ j = order[1] /\ 1 \in DOMAIN order /\ j.file \in File
      BY <2>1, ReadyFacts, TailFacts, RecordFacts DEF StartJob
    <3>2. CASE j.kind = "write"
      <4>1. slots[j.file].id \in issued[j.file] /\ slots[j.file].id < nextId
        BY <3>1, <3>2, ReadyFacts DEF Ready, WriterInv, JobsHaveSnapshots, WritesInOrder, SlotInOrder
      <4>2. /\ stored' = stored /\ tried' = [tried EXCEPT ![j.file] = slots[j.file].id]
            /\ job' = Write(j.file, slots[j.file].id, slots[j.file].text)
        BY <2>1, <3>2 DEF StartJob
      <4>. QED  BY <1>0, <2>0, <4>1, <4>2 DEF IdsIssued, IsWrite, Write, Ids
    <3>3. CASE j.kind # "write"
      <4>1. stored' = stored /\ tried' = tried /\ job'.kind # "write"
        BY <2>1, <3>3 DEF StartJob, NoJob
      <4>. QED  BY <1>0, <2>0, <4>1 DEF IdsIssued, IsWrite, Ids
    <3>. QED  BY <3>2, <3>3
  <2>2. CASE JobReplaces
    <3>1. /\ job' = job /\ tried' = tried
          /\ \/ stored' = stored
             \/ stored' = [stored EXCEPT ![job.file] = job.id] /\ job.kind = "write"
      BY <2>2 DEF JobReplaces
    <3>. QED  BY <1>0, <2>0, <3>1 DEF IdsIssued, IsWrite, Ids
  <2>3. ASSUME ~StartJob, ~JobReplaces
        PROVE  stored' = stored /\ tried' = tried /\ (job' = job \/ job' = NoJob)
    BY <1>4, <2>3 DEF Works, ThreadStep, AcceptWrite, AcceptOther, AcceptStop, JobFails, JobReturns, End
  <2>4. CASE stored' = stored /\ tried' = tried /\ (job' = job \/ job' = NoJob)
    BY <1>0, <2>0, <2>4 DEF IdsIssued, IsWrite, Ids, NoJob
  <2>. QED  BY <2>1, <2>2, <2>3, <2>4
<1>. QED  BY <1>1, <1>2, <1>3, <1>4

\* The newest snapshot of f stays queued until a job takes it.
LEMMA NewestKept ==
  ASSUME Ready, NEW f \in File,
         \/ \E g \in File : Sends(g)
         \/ Takes \/ SendsOther \/ Works
  PROVE  NewestIsTaken(f)'
<1>. USE DEF channelVars, threadVars, diskVars, historyVars
<1>0. /\ NewestIsTaken(f) /\ issued \in [File -> SUBSET Nat] /\ nextId \in Nat /\ issued[f] \in SUBSET Nat
      /\ tried[f] \in Int /\ tried[f] < nextId /\ tried \in [File -> Nat \cup {None}]
      /\ \A i \in issued[f] : i \in Nat /\ i < nextId
      /\ cmds \in Seq(Command)
  BY ReadyFacts DEF Ready, OnTheWay, WriterInv, TypeOK, IdsIssued, None
\* Nothing changes for f.
<1>1. ASSUME issued'[f] = issued[f], tried'[f] = tried[f], dead' = dead,
             \A i \in Nat : Queued(f, i)' <=> Queued(f, i)
      PROVE  NewestIsTaken(f)'
  BY <1>0, <1>1 DEF NewestIsTaken
<1>2. ASSUME UNCHANGED <<issued, tried, dead, cmds, slots>>
      PROVE  NewestIsTaken(f)'
  BY <1>1, <1>2 DEF Queued, IsWrite
<1>3. ASSUME NEW c \in Command, Send(c), ~dead, NEW i
      PROVE  (\E k \in DOMAIN cmds' : IsWrite(cmds'[k], f) /\ cmds'[k].id = i)
               <=> \/ \E k \in DOMAIN cmds : IsWrite(cmds[k], f) /\ cmds[k].id = i
                   \/ IsWrite(c, f) /\ c.id = i
  <2>1. cmds' = Append(cmds, c)
    BY <1>3 DEF Send, Ready, Alive
  <2>2. /\ \A k \in DOMAIN cmds' : (k \in DOMAIN cmds /\ cmds'[k] = cmds[k]) \/ cmds'[k] = c
        /\ \A k \in DOMAIN cmds : k \in DOMAIN cmds' /\ cmds'[k] = cmds[k]
        /\ \E k \in DOMAIN cmds' : cmds'[k] = c
    BY <1>0, <2>1, AppendFacts
  <2>. QED  BY <2>2
<1>4. \A i : Queued(f, i)' <=> \/ slots'[f] # Empty /\ slots'[f].id = i
                               \/ \E k \in DOMAIN cmds' : IsWrite(cmds'[k], f) /\ cmds'[k].id = i
  BY DEF Queued, IsWrite
<1>5. ASSUME NEW g \in File, Sends(g)
      PROVE  NewestIsTaken(f)'
  <2>. DEFINE c == Write(g, nextId, mem[g])
  <2>1. /\ c \in Command /\ Send(c) /\ issued' = [issued EXCEPT ![g] = @ \cup {nextId}]
        /\ UNCHANGED <<dead, tried, slots>> /\ IsWrite(c, g) /\ c.id = nextId
        /\ (f # g => ~IsWrite(c, f))
    BY <1>0, <1>5, CommandTypes DEF Sends, SendSnapshot, Ready, TrackerTypeOK, IsWrite, Write
  <2>. HIDE DEF c
  <2>2. CASE dead
    <3>1. cmds = <<>> /\ cmds' = cmds
      BY <2>1, <2>2 DEF Send, Ready, Alive
    <3>. QED  BY <1>0, <2>1, <2>2, <3>1 DEF NewestIsTaken, Queued, IsWrite
  <2>3. CASE ~dead
    <3>1. \A i : Queued(f, i)' <=> (Queued(f, i) \/ (f = g /\ i = nextId))
      BY <1>3, <1>4, <2>1, <2>3 DEF Queued
    <3>2. CASE f = g
      <4>1. \A i \in issued'[f] : i <= tried[f] \/ (\E j \in Nat : Queued(f, j)' /\ i <= j)
        BY <1>0, <2>1, <2>3, <3>1, <3>2 DEF NewestIsTaken
      <4>2. \A j \in Nat : Queued(f, j)' => tried[f] < j
        BY <1>0, <3>1 DEF NewestIsTaken
      <4>. QED  BY <2>1, <4>1, <4>2 DEF NewestIsTaken
    <3>3. CASE f # g
      BY <1>0, <1>1, <2>1, <3>1, <3>3
    <3>. QED  BY <3>2, <3>3
  <2>. QED  BY <2>2, <2>3
<1>6. CASE Takes
  BY <1>2, <1>6 DEF Takes, TakeReply
<1>7. CASE SendsOther
  <2>1. PICK c \in {Export, Quarantine} : SendOther(c)
    BY <1>7 DEF SendsOther
  <2>2. /\ c \in Command /\ ~IsWrite(c, f) /\ Send(c) /\ UNCHANGED <<issued, tried, dead, slots>>
    BY <2>1, CommandTypes DEF SendOther, Others, Export, Quarantine, NoJob, IsWrite
  <2>3. CASE dead
    BY <1>2, <2>2, <2>3 DEF Send
  <2>4. CASE ~dead
    BY <1>1, <1>3, <1>4, <2>2, <2>4 DEF Queued
  <2>. QED  BY <2>3, <2>4
<1>8. CASE Works
  <2>1. CASE AcceptWrite
    <3>. DEFINE c == Head(cmds)
                g == c.file
    <3>1. /\ c \in Command /\ c = cmds[1] /\ 1 \in DOMAIN cmds /\ c.kind = "write"
          /\ g \in File /\ c.id \in Nat /\ IsWrite(cmds[1], g)
          /\ \A k \in DOMAIN cmds' : k + 1 \in DOMAIN cmds /\ cmds'[k] = cmds[k + 1]
          /\ \A k \in DOMAIN cmds : k = 1 \/ \E l \in DOMAIN cmds' : l + 1 = k /\ cmds'[l] = cmds[k]
      BY <2>1, ReadyFacts, TailFacts, RecordFacts DEF AcceptWrite, IsWrite
    <3>2. /\ slots' = [slots EXCEPT ![g] = [id |-> c.id, text |-> c.text]]
          /\ UNCHANGED <<issued, tried, dead>>
      BY <2>1 DEF AcceptWrite
    <3>3. CASE f # g
      <4>1. slots'[f] = slots[f] /\ ~IsWrite(cmds[1], f)
        BY <3>1, <3>2, <3>3, ReadyFacts DEF IsWrite
      <4>2. \A i : Queued(f, i)' <=> Queued(f, i)
        BY <1>4, <3>1, <4>1 DEF Queued
      <4>. QED  BY <1>1, <3>2, <4>2
    <3>4. CASE f = g
      <4>1. slots'[f] # Empty /\ slots'[f].id = c.id
        BY <3>1, <3>2, <3>4, ReadyFacts, NoneFacts
      <4>2. \A i : Queued(f, i)' <=> \E k \in DOMAIN cmds : IsWrite(cmds[k], f) /\ cmds[k].id = i
        BY <1>4, <3>1, <3>4, <4>1
      <4>3. slots[f] # Empty => slots[f].id < c.id /\ slots[f].id \in Nat
        BY <3>1, <3>4, ReadyFacts DEF Ready, WriterInv, WritesInOrder, ChannelInOrder, SlotInOrder
      <4>4. \A j \in Nat : Queued(f, j)' => tried[f] < j
        BY <1>0, <4>2 DEF NewestIsTaken, Queued
      <4>. PICK n \in Nat : n = c.id
        BY <3>1
      <4>5. Queued(f, n)'
        <5>1. 1 \in DOMAIN cmds /\ IsWrite(cmds[1], f) /\ cmds[1].id = n
          BY <3>1, <3>4
        <5>. QED  BY <4>2, <5>1
      <4>6. ASSUME NEW i \in issued[f]
            PROVE  dead \/ i <= tried[f] \/ \E j \in Nat : Queued(f, j)' /\ i <= j
        <5>1. dead \/ i <= tried[f] \/ \E j \in Nat : Queued(f, j) /\ i <= j
          BY <1>0 DEF NewestIsTaken
        <5>2. ASSUME NEW j \in Nat, Queued(f, j), i <= j
              PROVE  \E l \in Nat : Queued(f, l)' /\ i <= l
          <6>1. CASE slots[f] # Empty /\ slots[f].id = j
            <7>1. i \in Nat /\ i <= j /\ j < n
              BY <1>0, <4>3, <5>2, <6>1
            <7>2. i <= n
              BY <7>1
            <7>. QED  BY <4>5, <7>2
          <6>2. CASE \E k \in DOMAIN cmds : IsWrite(cmds[k], f) /\ cmds[k].id = j
            BY <4>2, <5>2, <6>2
          <6>. QED  BY <5>2, <6>1, <6>2 DEF Queued
        <5>. QED  BY <5>1, <5>2
      <4>. QED  BY <3>2, <4>4, <4>6 DEF NewestIsTaken
    <3>. QED  BY <3>3, <3>4
  <2>2. CASE AcceptOther
    <3>1. /\ \A k \in DOMAIN cmds' : k + 1 \in DOMAIN cmds /\ cmds'[k] = cmds[k + 1]
          /\ \A k \in DOMAIN cmds : k = 1 \/ \E l \in DOMAIN cmds' : l + 1 = k /\ cmds'[l] = cmds[k]
          /\ ~IsWrite(cmds[1], f) /\ UNCHANGED <<issued, tried, dead, slots>>
      BY <2>2, ReadyFacts, TailFacts DEF AcceptOther, IsWrite
    <3>2. \A i : Queued(f, i)' <=> Queued(f, i)
      BY <1>4, <3>1 DEF Queued
    <3>. QED  BY <1>1, <3>1, <3>2
  <2>3. CASE StartJob
    <3>. DEFINE j == Head(order)
    <3>1. /\ j \in Job /\ j = order[1] /\ 1 \in DOMAIN order /\ j.file \in File
          /\ cmds = <<>> /\ cmds' = <<>> /\ UNCHANGED <<issued, dead>>
      BY <2>3, ReadyFacts, TailFacts, RecordFacts DEF StartJob
    <3>2. CASE j.kind = "write" /\ j.file = f
      <4>1. slots[f] # Empty /\ slots[f].id \in Nat
        BY <3>1, <3>2, ReadyFacts DEF Ready, WriterInv, JobsHaveSnapshots, WritesInOrder, SlotInOrder
      <4>2. tried'[f] = slots[f].id /\ slots'[f] = Empty
        BY <1>0, <2>3, <3>2, ReadyFacts DEF StartJob
      <4>3. \A i \in Nat : Queued(f, i) <=> i = slots[f].id
        BY <3>1, <4>1 DEF Queued
      <4>4. \A i : ~Queued(f, i)'
        BY <3>1, <4>2, <1>4
      <4>5. \A i \in issued[f] : dead \/ i <= slots[f].id
        BY <1>0, <4>1, <4>3 DEF NewestIsTaken
      <4>. QED  BY <3>1, <4>2, <4>4, <4>5 DEF NewestIsTaken
    <3>3. CASE ~(j.kind = "write" /\ j.file = f)
      <4>1. tried'[f] = tried[f] /\ slots'[f] = slots[f]
        BY <1>0, <2>3, <3>1, <3>3, ReadyFacts DEF StartJob
      <4>. QED  BY <1>1, <1>4, <3>1, <4>1 DEF Queued
    <3>. QED  BY <3>2, <3>3
  <2>4. ASSUME ~AcceptWrite, ~AcceptOther, ~StartJob
        PROVE  UNCHANGED <<issued, tried, dead, cmds, slots>>
    <3>1. ~AcceptStop
      BY ReadyFacts, TailFacts DEF AcceptStop, Ready, Alive
    <3>. QED  BY <1>8, <2>4, <3>1 DEF Works, ThreadStep, JobFails, JobReplaces, JobReturns, End
  <2>. QED  BY <1>2, <2>1, <2>2, <2>3, <2>4
<1>. QED  BY <1>5, <1>6, <1>7, <1>8

\* What the thread may do while the client is there: it neither stops nor ends.
LEMMA WorksCases ==
  ASSUME Ready, Works
  PROVE  /\ \/ AcceptWrite \/ AcceptOther \/ StartJob \/ JobFails \/ JobReplaces
            \/ \E ok \in BOOLEAN : JobReturns(ok)
         /\ inFlight' = inFlight /\ ref' = ref
<1>1. ~AcceptStop /\ ~End
  BY ReadyFacts, TailFacts DEF AcceptStop, End, Ready, Alive
<1>. QED  BY <1>1 DEF Works, ThreadStep

\* The job that starts is the first of the queue.
LEMMA StartJobFacts ==
  ASSUME Ready, StartJob
  PROVE  LET j == order[1]
         IN /\ cmds = <<>> /\ cmds' = <<>> /\ job = NoJob /\ at = "accept" /\ at' = "doing"
            /\ 1 \in DOMAIN order /\ j \in Job /\ j.file \in File /\ order' = Tail(order)
            /\ \A k \in DOMAIN order' : /\ k + 1 \in DOMAIN order /\ order'[k] = order[k + 1]
                                        /\ k \in Nat /\ k > 0
            /\ \A k \in DOMAIN order : k = 1 \/ \E l \in DOMAIN order' : l + 1 = k
            /\ job'.kind = j.kind /\ job'.file = j.file
            /\ j.kind = "write" => /\ slots[j.file] # Empty /\ rescued' = rescued
                                   /\ slots' = [slots EXCEPT ![j.file] = Empty]
                                   /\ job'.id = slots[j.file].id /\ job'.text = slots[j.file].text
            /\ j.kind # "write" => /\ slots' = slots
                                   /\ rescued' = IF j.kind = "export" THEN rescued
                                                 ELSE rescued \cup {j.file}
            /\ UNCHANGED <<replies, dead, connected, stopping, disk, kept, nextId, issued, stored, confirmed>>
<1>. DEFINE j == Head(order)
<1>1. /\ cmds = <<>> /\ cmds' = <<>> /\ job = NoJob /\ at = "accept" /\ at' = "doing"
      /\ order # <<>> /\ order' = Tail(order)
      /\ UNCHANGED <<replies, dead, connected, stopping, disk, kept, nextId, issued, stored, confirmed>>
  BY DEF StartJob, channelVars, diskVars, Ready, Alive
<1>2. /\ j = order[1] /\ 1 \in DOMAIN order /\ j \in Job /\ j.file \in File
      /\ \A k \in DOMAIN order' : /\ k + 1 \in DOMAIN order /\ order'[k] = order[k + 1]
                                  /\ k \in Nat /\ k > 0
      /\ \A k \in DOMAIN order : k = 1 \/ \E l \in DOMAIN order' : l + 1 = k
  BY <1>1, ReadyFacts, TailFacts, RecordFacts
<1>3. ASSUME j.kind = "write"
      PROVE  /\ slots[j.file] # Empty /\ rescued' = rescued
             /\ slots' = [slots EXCEPT ![j.file] = Empty]
             /\ job'.kind = j.kind /\ job'.file = j.file
             /\ job'.id = slots[j.file].id /\ job'.text = slots[j.file].text
  <2>1. slots[j.file] # Empty
    BY <1>2, <1>3 DEF Ready, WriterInv, JobsHaveSnapshots
  <2>2. /\ job' = Write(j.file, slots[j.file].id, slots[j.file].text) /\ rescued' = rescued
        /\ slots' = [slots EXCEPT ![j.file] = Empty]
    BY <1>3 DEF StartJob
  <2>. QED  BY <1>3, <2>1, <2>2 DEF Write
<1>4. ASSUME j.kind # "write"
      PROVE  /\ slots' = slots /\ job'.kind = j.kind /\ job'.file = j.file
             /\ rescued' = IF j.kind = "export" THEN rescued ELSE rescued \cup {j.file}
  <2>1. /\ slots' = slots /\ job' = [NoJob EXCEPT !.kind = j.kind, !.file = j.file]
        /\ rescued' = IF j.kind = "export" THEN rescued ELSE rescued \cup {j.file}
    BY <1>4 DEF StartJob
  <2>. QED  BY <2>1 DEF NoJob
<1>. QED  BY <1>1, <1>2, <1>3, <1>4

\* A command accepted leaves the channel; its job is the last of the queue.
LEMMA AcceptFacts ==
  ASSUME Ready, AcceptWrite \/ AcceptOther
  PROVE  LET c == cmds[1]
         IN /\ at = "accept" /\ job = NoJob /\ job' = job
            /\ 1 \in DOMAIN cmds /\ c \in Command /\ c.file \in File
            /\ \A k \in DOMAIN cmds' : /\ k + 1 \in DOMAIN cmds /\ cmds'[k] = cmds[k + 1]
                                       /\ k \in Nat /\ k > 0
            /\ \A k \in DOMAIN cmds : k = 1 \/ \E l \in DOMAIN cmds' : l + 1 = k
            /\ \A k \in DOMAIN order' :
                 \/ k \in DOMAIN order /\ order'[k] = order[k]
                 \/ /\ order'[k].kind = c.kind /\ order'[k].file = c.file
                    /\ \A l \in DOMAIN order' : l < k => l \in DOMAIN order
            /\ \A k \in DOMAIN order : k \in DOMAIN order' /\ order'[k] = order[k]
            /\ \A k \in DOMAIN order' : k \in Nat /\ k >= 1
            /\ c.kind # "write" =>
                 \E k \in DOMAIN order' : order'[k].kind = c.kind /\ order'[k].file = c.file
            /\ AcceptWrite => c.kind = "write" /\ \A h \in File : h # c.file => slots'[h] = slots[h]
            /\ AcceptOther => c.kind # "write" /\ slots' = slots
            /\ UNCHANGED <<dead, disk, kept, nextId, issued, stored, confirmed, tried, rescued>>
<1>. DEFINE c == Head(cmds)
            j == [kind |-> c.kind, file |-> c.file]
<1>1. cmds # <<>> /\ cmds' = Tail(cmds) /\ cmds \in Seq(Command) /\ order \in Seq(Job)
  BY ReadyFacts DEF AcceptWrite, AcceptOther
<1>2. /\ c = cmds[1] /\ 1 \in DOMAIN cmds /\ c \in Command /\ c.file \in File
      /\ \A k \in DOMAIN cmds' : /\ k + 1 \in DOMAIN cmds /\ cmds'[k] = cmds[k + 1]
                                 /\ k \in Nat /\ k > 0
      /\ \A k \in DOMAIN cmds : k = 1 \/ \E l \in DOMAIN cmds' : l + 1 = k
  BY <1>1, TailFacts, RecordFacts
<1>3. /\ at = "accept" /\ job = NoJob /\ job' = job
      /\ UNCHANGED <<dead, disk, kept, nextId, issued, stored, confirmed, tried, rescued>>
      /\ AcceptOther => slots' = slots /\ c.kind # "write" /\ order' = Append(order, j)
      /\ AcceptWrite => /\ c.kind = "write" /\ \A h \in File : h # c.file => slots'[h] = slots[h]
                        /\ order' = order \/ order' = Append(order, j)
  BY ReadyFacts DEF AcceptWrite, AcceptOther, diskVars, historyVars, Ready, Alive
<1>4. c.kind \in {"write", "export", "badcopy", "quarantine"} /\ j \in Job
  <2>1. c.kind \in {"write", "export", "badcopy", "quarantine"}
    BY DEF AcceptWrite, AcceptOther
  <2>. QED  BY <1>2, <2>1, RecordFacts
<1>5. CASE order' = order
  BY <1>2, <1>3, <1>5, <1>1, AppendFacts
<1>6. CASE order' = Append(order, j)
  <2>0. j.kind = c.kind /\ j.file = c.file
    OBVIOUS
  <2>. HIDE DEF j
  <2>1. /\ \A k \in DOMAIN order' :
             \/ k \in DOMAIN order /\ order'[k] = order[k]
             \/ order'[k] = j /\ \A l \in DOMAIN order' : l < k => l \in DOMAIN order
        /\ \A k \in DOMAIN order : k \in DOMAIN order' /\ order'[k] = order[k]
        /\ \E k \in DOMAIN order' : order'[k] = j
        /\ \A k \in DOMAIN order' : k \in Nat /\ k >= 1
    <3>. DEFINE n == Len(order) + 1
    <3>1. /\ DOMAIN order' = DOMAIN order \cup {n} /\ n \notin DOMAIN order /\ order'[n] = j
          /\ \A k \in DOMAIN order : order'[k] = order[k] /\ k < n /\ k \in Nat /\ k >= 1
      BY <1>1, <1>4, <1>6
    <3>2. n \in Nat /\ n >= 1 /\ ~(n < n)
      BY <1>1
    <3>. HIDE DEF n
    <3>. QED  BY <3>1, <3>2
  <2>. HIDE DEF c
  <2>. QED  BY <1>2, <1>3, <2>0, <2>1
<1>. QED  BY <1>3, <1>5, <1>6

\* What is on its way stays accounted for.
LEMMA OnTheWayKept ==
  ASSUME Ready, NEW f \in File,
         \/ \E g \in File : Sends(g)
         \/ Takes \/ SendsOther \/ Works
  PROVE  OnTheWay(f)'
<1>1. Mirror(f)' /\ NewerFollows(f)'
  <2>1. CASE Works
    <3>1. CASE AcceptWrite
      BY <2>1, <3>1, WorksCases, MirrorAccepts
    <3>2. CASE AcceptOther \/ StartJob \/ JobReplaces
      BY <2>1, <3>2, WorksCases, MirrorMoves
    <3>3. CASE JobFails
      BY <2>1, <3>3, WorksCases, MirrorAnswersJob DEF JobFails, historyVars
    <3>4. ASSUME NEW ok \in BOOLEAN, JobReturns(ok)
          PROVE  Mirror(f)' /\ NewerFollows(f)'
      BY <2>1, <3>4, WorksCases, MirrorAnswersJob DEF JobReturns
    <3>. QED  BY <2>1, <3>1, <3>2, <3>3, <3>4, WorksCases
  <2>. QED  BY <2>1, MirrorSends, MirrorTakes, MirrorSendsOther
<1>2. IdsIssued(f)' /\ NewestIsTaken(f)'
  BY IdsKept, NewestKept
<1>. QED  BY <1>1, <1>2 DEF OnTheWay

-----------------------------------------------------------------------------
(* Texts                                                                    *)

\* What a command sent does to the channels: it comes after everything there.
LEMMA SendFacts ==
  ASSUME cmds \in Seq(Command), replies \in Seq(Reply), NEW c \in Command, Send(c)
  PROVE  /\ \A k \in DOMAIN cmds' : \/ k \in DOMAIN cmds /\ cmds'[k] = cmds[k]
                                    \/ cmds'[k] = c /\ \A l \in DOMAIN cmds : l < k
         /\ \A k \in DOMAIN cmds : k \in DOMAIN cmds' /\ cmds'[k] = cmds[k]
         /\ \A k \in DOMAIN cmds' : k \in Nat
         /\ ~dead /\ at # "ended" =>
              /\ replies' = replies
              /\ \E k \in DOMAIN cmds' : cmds'[k] = c
         /\ replies' = replies \/ replies' = Append(replies, ReplyTo(c, FALSE))
<1>0. \A k \in DOMAIN cmds : k \in Nat
  OBVIOUS
<1>1. CASE dead
  <2>1. cmds' = cmds
    BY <1>1 DEF Send
  <2>2. replies' = replies \/ replies' = Append(replies, ReplyTo(c, FALSE))
    BY <1>1 DEF Send
  <2>. QED  BY <1>0, <1>1, <2>1, <2>2
<1>2. CASE ~dead /\ at = "ended"
  <2>1. cmds' = cmds /\ replies' = replies
    BY <1>2 DEF Send
  <2>. QED  BY <1>0, <1>2, <2>1
<1>3. CASE ~dead /\ at # "ended"
  <2>1. cmds' = Append(cmds, c) /\ replies' = replies
    BY <1>3 DEF Send
  <2>2. \A k \in DOMAIN Append(cmds, c) : k \in Nat
    BY SMT
  <2>. QED  BY <1>3, <2>1, <2>2, AppendFacts
<1>. QED  BY <1>1, <1>2, <1>3

\* A text once noted stays the text the writer has.
LEMMA TextsKept ==
  ASSUME Ready, NEW f \in File, TextsAgree(f),
         \/ \E g \in File : Sends(g)
         \/ Takes \/ SendsOther \/ Works
  PROVE  TextsAgree(f)'
<1>. USE DEF channelVars, threadVars, diskVars, historyVars
<1>0. /\ inFlight \in [File -> Seq(Snapshot)] /\ inFlight[f] \in Seq(Snapshot) /\ cmds \in Seq(Command)
      /\ Ids(inFlight[f]) \subseteq issued[f] /\ issued[f] \in SUBSET Nat /\ nextId \in Nat
      /\ slots \in [File -> Snapshot \cup {Empty}]
  BY ReadyFacts DEF Ready, OnTheWay, IdsIssued, TrackerTypeOK
<1>1. \A m \in DOMAIN inFlight[f] : /\ inFlight[f][m].id \in issued[f] /\ inFlight[f][m].id \in Nat
                                    /\ inFlight[f][m].id # nextId
  BY <1>0, IdsFacts, ReadyFacts
\* What the writer has keeps its text.
<1>2. ASSUME inFlight'[f] = inFlight[f],
             IsWrite(job', f) => \/ IsWrite(job, f) /\ job'.id = job.id /\ job'.text = job.text
                                 \/ job'.id = slots[f].id /\ job'.text = slots[f].text,
             \/ slots'[f] = slots[f] \/ slots'[f].id = None
             \/ \E k \in DOMAIN cmds : /\ IsWrite(cmds[k], f)
                                       /\ slots'[f].id = cmds[k].id /\ slots'[f].text = cmds[k].text,
             \A k \in DOMAIN cmds' : IsWrite(cmds'[k], f) =>
                                       \E l \in DOMAIN cmds : cmds'[k] = cmds[l]
      PROVE  TextsAgree(f)'
  <2>. SUFFICES ASSUME NEW m \in DOMAIN inFlight[f], NEW i, i = inFlight[f][m].id,
                       NEW t, t = inFlight[f][m].text
                PROVE  /\ IsWrite(job', f) /\ job'.id = i => job'.text = t
                       /\ slots'[f].id = i => slots'[f].text = t
                       /\ \A k \in DOMAIN cmds' : IsWrite(cmds'[k], f) /\ cmds'[k].id = i => cmds'[k].text = t
    BY <1>2 DEF TextsAgree, IsWrite
  <2>1. /\ IsWrite(job, f) /\ job.id = i => job.text = t
        /\ slots[f].id = i => slots[f].text = t
        /\ \A k \in DOMAIN cmds : IsWrite(cmds[k], f) /\ cmds[k].id = i => cmds[k].text = t
        /\ i \in Nat
    BY <1>1 DEF TextsAgree
  <2>2. IsWrite(job', f) /\ job'.id = i => job'.text = t
    BY <1>2, <2>1
  <2>3. slots'[f].id = i => slots'[f].text = t
    BY <1>2, <2>1, NoneFacts
  <2>4. \A k \in DOMAIN cmds' : IsWrite(cmds'[k], f) /\ cmds'[k].id = i => cmds'[k].text = t
    BY <1>2, <2>1
  <2>. QED  BY <2>2, <2>3, <2>4
<1>3. ASSUME NEW g \in File, Sends(g)
      PROVE  TextsAgree(f)'
  <2>. DEFINE s == [id |-> nextId, text |-> mem[g]]
              c == Write(g, nextId, mem[g])
  <2>1. /\ UNCHANGED <<job, slots>> /\ Send(c) /\ inFlight' = [inFlight EXCEPT ![g] = Append(@, s)]
        /\ s \in Snapshot /\ c \in Command /\ c.id = s.id /\ c.text = s.text /\ s.id = nextId
        /\ c.file = g
    BY <1>3, ReadyFacts, CommandTypes, RecordFacts
       DEF Sends, SendSnapshot, Sent, Ready, TrackerTypeOK, Write
  <2>. HIDE DEF s, c
  <2>2. \A k \in DOMAIN cmds' : (k \in DOMAIN cmds /\ cmds'[k] = cmds[k]) \/ cmds'[k] = c
    BY <1>0, <2>1, SendFacts, ReadyFacts
  <2>3. CASE f # g
    <3>1. ~IsWrite(c, f) /\ inFlight'[f] = inFlight[f]
      BY <1>0, <2>1, <2>3 DEF IsWrite
    <3>. QED  BY <1>2, <2>1, <2>2, <3>1
  <2>4. CASE f = g
    <3>1. \A m \in DOMAIN inFlight'[f] : \/ m \in DOMAIN inFlight[f] /\ inFlight'[f][m] = inFlight[f][m]
                                         \/ inFlight'[f][m] = s
      BY <1>0, <2>1, <2>4, AppendFacts
    <3>2. /\ IsWrite(job, f) => job.id # nextId
          /\ slots[f].id # nextId
          /\ \A k \in DOMAIN cmds : IsWrite(cmds[k], f) => cmds[k].id # nextId
      <4>1. slots[f] # Empty => slots[f].id \in issued[f]
        BY DEF Ready, WriterInv, WritesInOrder, SlotInOrder
      <4>2. IsWrite(job, f) => job.id \in issued[f]
        BY DEF Ready, OnTheWay, IdsIssued
      <4>3. \A k \in DOMAIN cmds : IsWrite(cmds[k], f) => cmds[k].id \in issued[f]
        BY DEF Ready, WriterInv, WritesInOrder, ChannelInOrder
      <4>. QED  BY <1>0, <4>1, <4>2, <4>3, ReadyFacts, NoneFacts
    <3>. SUFFICES ASSUME NEW m \in DOMAIN inFlight'[f], NEW i, i = inFlight'[f][m].id,
                         NEW t, t = inFlight'[f][m].text
                  PROVE  /\ IsWrite(job, f) /\ job.id = i => job.text = t
                         /\ slots[f].id = i => slots[f].text = t
                         /\ \A k \in DOMAIN cmds' : IsWrite(cmds'[k], f) /\ cmds'[k].id = i
                                                      => cmds'[k].text = t
      BY <2>1 DEF TextsAgree, IsWrite
    <3>3. CASE inFlight'[f][m] = s
      BY <2>1, <2>2, <3>2, <3>3
    <3>4. CASE m \in DOMAIN inFlight[f] /\ inFlight'[f][m] = inFlight[f][m]
      <4>1. /\ IsWrite(job, f) /\ job.id = i => job.text = t
            /\ slots[f].id = i => slots[f].text = t
            /\ \A k \in DOMAIN cmds : IsWrite(cmds[k], f) /\ cmds[k].id = i => cmds[k].text = t
            /\ i # nextId
        BY <1>1, <3>4 DEF TextsAgree
      <4>. QED  BY <2>1, <2>2, <4>1
    <3>. QED  BY <3>1, <3>3, <3>4
  <2>. QED  BY <2>3, <2>4
<1>4. CASE Takes
  <2>1. UNCHANGED <<job, slots, cmds>>
    BY <1>4 DEF Takes, TakeReply
  <2>2. \A m \in DOMAIN inFlight'[f] : \E l \in DOMAIN inFlight[f] : inFlight'[f][m] = inFlight[f][l]
    <3>1. CASE inFlight'[f] = inFlight[f]
      BY <3>1
    <3>2. CASE inFlight'[f] # inFlight[f]
      <4>1. inFlight[f] # <<>> /\ inFlight'[f] = Tail(inFlight[f])
        BY <1>0, <1>4, <3>2, TakesEffect
      <4>. QED  BY <1>0, <4>1, TailFacts
    <3>. QED  BY <3>1, <3>2
  <2>. QED  BY <2>1, <2>2 DEF TextsAgree, IsWrite
<1>5. CASE SendsOther
  <2>1. PICK c \in {Export, Quarantine} : SendOther(c)
    BY <1>5 DEF SendsOther
  <2>2. /\ c \in Command /\ ~IsWrite(c, f) /\ Send(c) /\ UNCHANGED <<job, slots, inFlight>>
    BY <1>5, <2>1, CommandTypes DEF SendOther, SendsOther, Others, Export, Quarantine, NoJob, IsWrite
  <2>4. \A k \in DOMAIN cmds' : (k \in DOMAIN cmds /\ cmds'[k] = cmds[k]) \/ cmds'[k] = c
    BY <1>0, <2>2, SendFacts, ReadyFacts
  <2>. QED  BY <1>2, <2>2, <2>4
<1>6. CASE Works
  <2>0. inFlight' = inFlight
    BY <1>6, WorksCases
  <2>1. CASE AcceptWrite
    <3>0. /\ Head(cmds) = cmds[1] /\ 1 \in DOMAIN cmds
          /\ \A k \in DOMAIN cmds' : \E l \in DOMAIN cmds : cmds'[k] = cmds[l]
      BY <1>0, <2>1, TailFacts DEF AcceptWrite
    <3>1. /\ cmds[1].kind = "write" /\ job' = job
          /\ slots' = [slots EXCEPT ![cmds[1].file] = [id |-> cmds[1].id, text |-> cmds[1].text]]
      BY <3>0, <2>1 DEF AcceptWrite
    <3>2. CASE cmds[1].file = f
      BY <1>0, <1>2, <2>0, <3>0, <3>1, <3>2 DEF IsWrite
    <3>3. CASE cmds[1].file # f
      BY <1>0, <1>2, <2>0, <3>0, <3>1, <3>3
    <3>. QED  BY <3>2, <3>3
  <2>2. CASE AcceptOther
    <3>1. UNCHANGED <<job, slots>> /\ \A k \in DOMAIN cmds' : \E l \in DOMAIN cmds : cmds'[k] = cmds[l]
      BY <1>0, <2>2, TailFacts DEF AcceptOther
    <3>. QED  BY <1>2, <2>0, <3>1
  <2>3. CASE StartJob
    <3>1. CASE Head(order).kind = "write"
      <4>. DEFINE g == Head(order).file
      <4>1. /\ cmds' = cmds /\ job' = Write(g, slots[g].id, slots[g].text)
            /\ slots' = [slots EXCEPT ![g] = Empty]
        BY <2>3, <3>1 DEF StartJob
      <4>2. slots'[f] = slots[f] \/ slots'[f].id = None
        BY <1>0, <4>1, NoneFacts
      <4>3. IsWrite(job', f) => job'.id = slots[f].id /\ job'.text = slots[f].text
        BY <4>1 DEF IsWrite, Write
      <4>. QED  BY <1>2, <2>0, <4>1, <4>2, <4>3
    <3>2. CASE Head(order).kind # "write"
      <4>1. UNCHANGED <<cmds, slots>> /\ ~IsWrite(job', f)
        BY <2>3, <3>2 DEF StartJob, NoJob, IsWrite
      <4>. QED  BY <1>2, <2>0, <4>1
    <3>. QED  BY <3>1, <3>2
  <2>4. ASSUME UNCHANGED <<cmds, slots>>, job' = job \/ job' = NoJob
        PROVE  TextsAgree(f)'
    <3>1. ~IsWrite(NoJob, f)
      BY DEF IsWrite, NoJob
    <3>. QED  BY <1>2, <2>0, <2>4, <3>1
  <2>. QED  BY <1>6, <2>1, <2>2, <2>3, <2>4, WorksCases DEF JobFails, JobReplaces, JobReturns
<1>. QED  BY <1>3, <1>4, <1>5, <1>6

-----------------------------------------------------------------------------
(* What the tracker knows of the disk                                       *)

\* The writes of f that the UI thread has not heard of.
LEMMA WrittenFacts ==
  ASSUME replies \in Seq(Reply), NEW f \in File
  PROVE  \A k : k \in Written(f) <=> /\ k \in DOMAIN replies
                                      /\ replies[k].kind = "written" /\ replies[k].file = f
<1>1. \A k : k \in Written(f) <=> k \in Answers(f) /\ replies[k].kind = "written"
  BY DEF Written
<1>. QED  BY <1>1, AnswerFacts DEF AnswerKinds

\* The ids that say where f stands are numbers.
LEMMA StandFacts ==
  ASSUME Ready, NEW f \in File
  PROVE  /\ confirmed[f] \in Int /\ stored[f] \in Int
         /\ confirmed[f] # None => confirmed[f] \in Nat
         /\ stored[f] # None => stored[f] \in Nat
         /\ confirmed[f] >= None /\ stored[f] >= None /\ stored[f] < nextId
         /\ job.id \in Nat /\ job.text \in Nat /\ job.file \in File
         /\ confirmed \in [File -> Nat \cup {None}] /\ stored \in [File -> Nat \cup {None}]
         /\ DOMAIN disk = File /\ replies \in Seq(Reply) /\ ref \in [File -> Nat \cup {None}]
<1>1. TypeOK /\ IdsBelowCounter /\ TrackerTypeOK
  BY DEF Ready, WriterInv
<1>2. /\ confirmed \in [File -> Nat \cup {None}] /\ stored \in [File -> Nat \cup {None}]
      /\ DOMAIN disk = File /\ replies \in Seq(Reply) /\ ref \in [File -> Nat \cup {None}]
  BY <1>1 DEF TypeOK, TrackerTypeOK
<1>3. job.id \in Nat /\ job.text \in Nat /\ job.file \in File
  BY <1>1, RecordFacts DEF TypeOK
<1>4. /\ confirmed[f] \in Nat \cup {None} /\ stored[f] \in Nat \cup {None}
      /\ stored[f] < nextId
  BY <1>1, <1>2 DEF IdsBelowCounter
<1>5. /\ confirmed[f] \in Int /\ stored[f] \in Int
      /\ confirmed[f] # None => confirmed[f] \in Nat
      /\ stored[f] # None => stored[f] \in Nat
      /\ confirmed[f] >= None /\ stored[f] >= None
  BY <1>4 DEF None
<1>. QED  BY <1>2, <1>3, <1>4, <1>5

\* Nothing is written to f, and the UI thread hears of no write of it.
LEMMA ReferenceStands ==
  ASSUME Ready, NEW f \in File, ReferenceFollows(f),
         confirmed'[f] = confirmed[f], stored'[f] = stored[f], disk'[f] = disk[f],
         ref'[f] = ref[f], boot' = boot,
         at' = "doing" /\ IsWrite(job', f) => stored[f] < job'.id,
         at' = "replaced" /\ IsWrite(job', f) => at = "replaced" /\ job' = job,
         \/ replies' = replies
         \/ \E e \in Reply : replies' = Append(replies, e) /\ ~(e.kind = "written" /\ e.file = f),
         \A k \in Written(f) : stored[f] \in Ids(inFlight[f]) => stored[f] \in Ids(inFlight'[f]),
         \A m \in DOMAIN inFlight'[f] : inFlight'[f][m].id = confirmed[f] =>
            \E l \in DOMAIN inFlight[f] : inFlight[f][l] = inFlight'[f][m]
  PROVE  ReferenceFollows(f)'
<1>0. replies \in Seq(Reply)
  BY ReadyFacts
<1>1. /\ replies' \in Seq(Reply)
      /\ \A k \in DOMAIN replies : k \in DOMAIN replies' /\ replies'[k] = replies[k]
      /\ \A k \in DOMAIN replies' : k \in DOMAIN replies \/ ~(replies'[k].kind = "written" /\ replies'[k].file = f)
  <2>1. CASE replies' = replies
    BY <1>0, <2>1
  <2>2. ASSUME NEW e \in Reply, replies' = Append(replies, e), ~(e.kind = "written" /\ e.file = f)
        PROVE  <1>1!:
    BY <1>0, <2>2, AppendFacts
  <2>. QED  BY <2>1, <2>2
<1>2. Written(f)' = Written(f) /\ \A k \in Written(f) : replies'[k] = replies[k]
  BY <1>1 DEF Written, Answers
<1>3. /\ at' = "doing" /\ IsWrite(job, f)' => stored'[f] < job'.id
      /\ at' = "replaced" /\ IsWrite(job, f)' =>
           confirmed'[f] < job'.id /\ stored'[f] = job'.id /\ disk'[f] = job'.text
  BY DEF IsWrite, ReferenceFollows
<1>4. \A k \in Written(f)' : /\ replies'[k].id <= confirmed'[f]
                             /\ stored'[f] > replies'[k].id => stored'[f] \in Ids(inFlight[f])'
  BY <1>2 DEF ReferenceFollows, Ids
<1>5. confirmed'[f] # None /\ stored'[f] = confirmed'[f] =>
        \/ Written(f)' = {} /\ ref'[f] = disk'[f]
        \/ /\ \E k \in Written(f)' : replies'[k].id = confirmed'[f]
           /\ \A m \in DOMAIN inFlight'[f] :
                inFlight'[f][m].id = confirmed'[f] => inFlight'[f][m].text = disk'[f]
  <2>1. CASE Written(f) = {} /\ ref[f] = disk[f]
    BY <1>2, <2>1
  <2>2. CASE /\ \E k \in Written(f) : replies[k].id = confirmed[f]
             /\ \A m \in DOMAIN inFlight[f] : inFlight[f][m].id = confirmed[f] => inFlight[f][m].text = disk[f]
    <3>1. ASSUME NEW m \in DOMAIN inFlight'[f], inFlight'[f][m].id = confirmed[f]
          PROVE  inFlight'[f][m].text = disk[f]
      BY <2>2, <3>1
    <3>. QED  BY <1>2, <2>2, <3>1
  <2>. QED  BY <2>1, <2>2 DEF ReferenceFollows
<1>6. confirmed'[f] <= stored'[f] /\ (confirmed'[f] = None => ref'[f] = StartRef(boot')[f])
  BY DEF ReferenceFollows
<1>7. StartRef(boot)[f]' = StartRef(boot')[f]
  BY DEF StartRef
<1>. QED  BY <1>3, <1>4, <1>5, <1>6, <1>7 DEF ReferenceFollows

\* The UI thread hears of the oldest write.
LEMMA ReferenceTaken ==
  ASSUME Ready, NEW f \in File, ReferenceFollows(f), ChangesGrow, Takes, boot' = boot
  PROVE  ReferenceFollows(f)'
<1>. DEFINE r == replies[1]
            q == inFlight[f]
<1>0. /\ UNCHANGED <<at, job, confirmed, stored, disk>> /\ replies # <<>> /\ replies' = Tail(replies)
      /\ replies \in Seq(Reply) /\ inFlight \in [File -> Seq(Snapshot)] /\ q \in Seq(Snapshot)
      /\ ref \in [File -> Nat \cup {None}]
  BY ReadyFacts, StandFacts DEF Takes, TakeReply, threadVars, diskVars, historyVars, Ready, TrackerTypeOK
<1>1. /\ replies' \in Seq(Reply)
      /\ \A k \in DOMAIN replies' : /\ k + 1 \in DOMAIN replies /\ replies'[k] = replies[k + 1]
                                    /\ k \in Nat /\ k > 0
      /\ \A k \in DOMAIN replies : k = 1 \/ \E l \in DOMAIN replies' : l + 1 = k
  BY <1>0, TailFacts
<1>2. \A k \in Written(f)' : k + 1 \in Written(f) /\ replies'[k] = replies[k + 1] /\ k \in Nat /\ k > 0
  BY <1>0, <1>1 DEF Written, Answers
<1>3. \A k \in Written(f) : k = 1 \/ \E l \in Written(f)' : l + 1 = k /\ replies'[l] = replies[k]
  BY <1>0, <1>1 DEF Written, Answers
<1>4. ASSUME NEW k \in Written(f)', 1 \in Answers(f)
      PROVE  r.id < replies'[k].id
  <2>1. k + 1 \in Answers(f) /\ 1 < k + 1
    BY <1>2, <1>4 DEF Written
  <2>. QED  BY <1>2, <1>4, <2>1 DEF Ready, OnTheWay, Mirror
<1>5. 1 \in Answers(f) <=> r.kind \in AnswerKinds /\ r.file = f
  BY TakesEffect DEF Answers, AnswerKinds
<1>6. /\ inFlight'[f] = (IF 1 \in Answers(f) THEN Tail(q) ELSE q)
      /\ 1 \in Answers(f) => q # <<>> /\ q[1].id = r.id /\ OldestFirst(q)
  BY <1>0, <1>5, TakesEffect
<1>7. /\ \A m \in DOMAIN inFlight'[f] : \E l \in DOMAIN q : q[l] = inFlight'[f][m]
      /\ \A i \in Ids(q) : i \in Ids(inFlight'[f]) \/ (1 \in Answers(f) /\ i = r.id)
  <2>1. CASE 1 \in Answers(f)
    BY <1>0, <1>6, <2>1, TailOfQueue
  <2>2. CASE 1 \notin Answers(f)
    BY <1>6, <2>2
  <2>. QED  BY <2>1, <2>2
<1>8. ref'[f] = IF 1 \in Written(f) THEN (IF f = "playlist" THEN Later(ref[f], q[1].text) ELSE q[1].text)
                                    ELSE ref[f]
  <2>1. r = Head(replies) /\ r.file \in File /\ 1 \in DOMAIN replies
    BY TakesEffect
  <2>2. 1 \in Written(f) <=> r.kind = "written" /\ r.file = f
    BY <1>0, <2>1, WrittenFacts
  <2>. QED  BY <1>0, <1>5, <2>1, <2>2, TakesEffect DEF AnswerKinds
<1>9. \A k \in Written(f)' : /\ replies'[k].id <= confirmed[f]
                             /\ stored[f] > replies'[k].id => stored[f] \in Ids(inFlight'[f])
  <2>. SUFFICES ASSUME NEW k \in Written(f)'
                PROVE  /\ replies'[k].id <= confirmed[f]
                       /\ stored[f] > replies'[k].id => stored[f] \in Ids(inFlight'[f])
    OBVIOUS
  <2>1. k + 1 \in Written(f) /\ replies'[k] = replies[k + 1]
    BY <1>2
  <2>2. /\ replies'[k].id <= confirmed[f]
        /\ stored[f] > replies'[k].id => stored[f] \in Ids(q)
    BY <2>1 DEF ReferenceFollows
  <2>3. ASSUME stored[f] > replies'[k].id, 1 \in Answers(f)
        PROVE  stored[f] # r.id
    <3>1. r.id < replies'[k].id
      BY <1>4, <2>3
    <3>2. r.id \in Nat /\ replies'[k].id \in Nat /\ stored[f] \in Int
      BY <1>0, <2>1, <2>3, AnswerFacts, StandFacts DEF Written
    <3>. QED  BY <2>3, <3>1, <3>2
  <2>. QED  BY <1>7, <2>2, <2>3
<1>10. ASSUME confirmed[f] # None, stored[f] = confirmed[f]
       PROVE  \/ Written(f)' = {} /\ ref'[f] = disk[f]
              \/ /\ \E k \in Written(f)' : replies'[k].id = confirmed[f]
                 /\ \A m \in DOMAIN inFlight'[f] :
                      inFlight'[f][m].id = confirmed[f] => inFlight'[f][m].text = disk[f]
  <2>1. CASE Written(f) = {} /\ ref[f] = disk[f]
    BY <1>2, <1>8, <2>1
  <2>2. CASE /\ \E k \in Written(f) : replies[k].id = confirmed[f]
             /\ \A m \in DOMAIN q : q[m].id = confirmed[f] => q[m].text = disk[f]
    <3>1. \A m \in DOMAIN inFlight'[f] : inFlight'[f][m].id = confirmed[f] => inFlight'[f][m].text = disk[f]
      BY <1>7, <2>2
    <3>2. PICK k \in Written(f) : replies[k].id = confirmed[f]
      BY <2>2
    <3>3. CASE k # 1
      BY <1>3, <3>1, <3>2, <3>3
    <3>4. CASE k = 1
      <4>1. 1 \in Answers(f) /\ r.id = confirmed[f] /\ r.id \in Nat /\ 1 \in Written(f)
        BY <1>0, <3>2, <3>4, AnswerFacts DEF Written
      <4>2. Written(f)' = {}
        <5>. SUFFICES ASSUME NEW l \in Written(f)'
                      PROVE  FALSE
          OBVIOUS
        <5>1. r.id < replies'[l].id /\ replies'[l].id <= confirmed[f]
          BY <1>4, <1>9, <4>1
        <5>2. replies'[l].id \in Nat
          <6>1. l + 1 \in Answers(f) /\ replies'[l] = replies[l + 1]
            BY <1>2 DEF Written
          <6>. QED  BY <1>0, <6>1, AnswerFacts
        <5>. QED  BY <4>1, <5>1, <5>2
      <4>3. 1 \in DOMAIN q /\ q[1].id = confirmed[f] /\ q[1].text \in Nat
        BY <1>0, <1>6, <4>1, IdsFacts
      <4>4. q[1].text = disk[f]
        BY <2>2, <4>3
      <4>5. f = "playlist" => Later(ref[f], q[1].text) = q[1].text
        <5>1. f = "playlist" => ref[f] <= q[1].text /\ ref[f] \in Nat
          BY <4>3 DEF ChangesGrow, Ready, TrackerTypeOK
        <5>. QED  BY <4>3, <5>1 DEF Later
      <4>. QED  BY <1>8, <4>1, <4>2, <4>4, <4>5
    <3>. QED  BY <3>3, <3>4
  <2>. QED  BY <1>10, <2>1, <2>2 DEF ReferenceFollows
<1>11. confirmed[f] = None => ref'[f] = ref[f]
  <2>1. ASSUME 1 \in Written(f)
        PROVE  confirmed[f] # None
    <3>1. r.id <= confirmed[f] /\ r.id \in Nat /\ confirmed[f] \in Int
      BY <1>0, <2>1, AnswerFacts, StandFacts DEF ReferenceFollows, Written
    <3>. QED  BY <3>1 DEF None
  <2>. QED  BY <1>8, <2>1
<1>12. /\ IsWrite(job, f)' = IsWrite(job, f) /\ StartRef(boot)[f]' = StartRef(boot)[f]
       /\ Ids(inFlight[f])' = Ids(inFlight'[f])
  BY <1>0 DEF IsWrite, StartRef, Ids
<1>. QED  BY <1>0, <1>9, <1>10, <1>11, <1>12 DEF ReferenceFollows

\* The thread writes f, answers for it or does something else.
LEMMA ReferenceWorks ==
  ASSUME Ready, NEW f \in File, ReferenceFollows(f), TextsAgree(f), RescueFirst(f),
         QuarantineIsPlaylist, Works, boot' = boot
  PROVE  ReferenceFollows(f)'
<1>. USE DEF channelVars, threadVars, diskVars, historyVars
<1>0. inFlight' = inFlight /\ ref' = ref
  BY WorksCases
<1>1. ASSUME UNCHANGED <<confirmed, stored, disk, replies, job, at>>
      PROVE  ReferenceFollows(f)'
  BY <1>0, <1>1, ReferenceStands DEF ReferenceFollows
<1>2. CASE AcceptWrite
  <2>0. UNCHANGED <<confirmed, stored, disk, job, at>> /\ at = "accept"
    BY <1>2 DEF AcceptWrite
  <2>1. \/ replies' = replies
        \/ \E e \in Reply : replies' = Append(replies, e) /\ ~(e.kind = "written" /\ e.file = f)
    <3>. DEFINE c == Head(cmds)
                e == [kind |-> "superseded", file |-> c.file, id |-> slots[c.file].id]
    <3>1. replies' = replies \/ (slots[c.file] # Empty /\ replies' = Append(replies, e))
      BY <1>2 DEF AcceptWrite
    <3>2. c.file \in File
      BY <1>2, ReadyFacts, TailFacts, RecordFacts DEF AcceptWrite
    <3>3. slots[c.file] # Empty => e \in Reply
      <4>1. slots[c.file] # Empty => slots[c.file].id \in Nat
        BY <3>2, ReadyFacts DEF Snapshot
      <4>. QED  BY <3>2, <4>1, RecordFacts
    <3>4. e.kind # "written"
      OBVIOUS
    <3>. QED  BY <3>1, <3>3, <3>4
  <2>. QED  BY <1>0, <2>0, <2>1, ReferenceStands
<1>3. CASE AcceptOther
  BY <1>1, <1>3 DEF AcceptOther
<1>4. CASE StartJob
  <2>1. UNCHANGED <<confirmed, stored, disk, replies>> /\ at' = "doing"
    BY <1>4 DEF StartJob
  <2>2. IsWrite(job', f) => stored[f] < job'.id
    <3>2. IsWrite(job', f) => slots[f] # Empty /\ job'.id = slots[f].id
      BY <1>4, StartJobFacts DEF IsWrite
    <3>4. slots[f] # Empty => slots[f].id > stored[f] /\ slots[f].id \in Nat
      BY ReadyFacts DEF Ready, WriterInv, WritesInOrder, SlotInOrder
    <3>. QED  BY <3>2, <3>4, StandFacts
  <2>. QED  BY <1>0, <2>1, <2>2, ReferenceStands
<1>5. CASE JobFails
  <2>1. /\ UNCHANGED <<confirmed, stored, disk>> /\ replies' = Append(replies, ReplyTo(job, FALSE))
        /\ job' = NoJob
    BY <1>5 DEF JobFails
  <2>2. ReplyTo(job, FALSE) \in Reply /\ ReplyTo(job, FALSE).kind # "written" /\ ~IsWrite(NoJob, f)
    BY ReadyFacts, ReplyToType DEF ReplyTo, IsWrite, NoJob
  <2>. QED  BY <1>0, <2>1, <2>2, ReferenceStands
<1>6. CASE JobReplaces
  <2>0. UNCHANGED <<confirmed, replies, job>> /\ at = "doing" /\ at' = "replaced"
    BY <1>6 DEF JobReplaces
  <2>1. CASE IsWrite(job, f)
    <3>1. disk'[f] = job.text /\ stored'[f] = job.id
      BY <1>6, <2>1, StandFacts DEF JobReplaces, IsWrite
    <3>2. stored[f] < job.id /\ confirmed[f] < job.id
      <4>1. stored[f] < job.id /\ confirmed[f] <= stored[f]
        BY <2>0, <2>1 DEF ReferenceFollows
      <4>. QED  BY <4>1, StandFacts
    <3>3. job.id \in Ids(inFlight[f])
      <4>1. job.id \in Unanswered(f)
        BY <2>1 DEF Unanswered, Ready, OnTheWay, IdsIssued
      <4>. QED  BY <4>1 DEF Ready, OnTheWay, Mirror
    <3>4. Written(f)' = Written(f) /\ Ids(inFlight[f])' = Ids(inFlight[f])
      BY <1>0, <2>0 DEF Written, Answers, Ids
    <3>5. confirmed[f] # job.id /\ confirmed[f] <= job.id
      BY <3>2, StandFacts
    <3>6. IsWrite(job, f)' = IsWrite(job, f) /\ StartRef(boot)[f]' = StartRef(boot)[f]
      BY <2>0 DEF IsWrite, StartRef
    <3>. QED  BY <1>0, <2>0, <3>1, <3>2, <3>3, <3>4, <3>5, <3>6 DEF ReferenceFollows
  <2>2. CASE ~IsWrite(job, f) /\ ~(job.kind = "quarantine" /\ f = "playlist")
    <3>1. disk'[f] = disk[f] /\ stored'[f] = stored[f]
      BY <1>6, <2>2, StandFacts DEF JobReplaces, IsWrite
    <3>. QED  BY <1>0, <2>0, <2>2, <3>1, ReferenceStands
  <2>3. CASE job.kind = "quarantine" /\ f = "playlist"
    <3>1. stored[f] = None /\ stored' = stored /\ ~IsWrite(job, f)
      BY <1>6, <2>3 DEF JobReplaces, RescueFirst, QuarantineIsPlaylist, IsRescue, IsWrite
    <3>2. confirmed[f] = None
      BY <3>1, StandFacts DEF ReferenceFollows
    <3>3. Written(f)' = Written(f) /\ Ids(inFlight[f])' = Ids(inFlight[f])
          /\ IsWrite(job, f)' = IsWrite(job, f) /\ StartRef(boot)[f]' = StartRef(boot)[f]
      BY <1>0, <2>0 DEF Written, Answers, Ids, IsWrite, StartRef
    <3>. QED  BY <1>0, <2>0, <3>1, <3>2, <3>3 DEF ReferenceFollows
  <2>. QED  BY <2>1, <2>2, <2>3 DEF IsWrite
<1>7. ASSUME NEW ok \in BOOLEAN, JobReturns(ok)
      PROVE  ReferenceFollows(f)'
  <2>. DEFINE e == ReplyTo(job, ok)
  <2>0. /\ UNCHANGED <<stored, disk>> /\ replies' = Append(replies, e) /\ job' = NoJob
        /\ at = "replaced" /\ at' = "accept" /\ ~IsWrite(NoJob, f)
    BY <1>7 DEF JobReturns, IsWrite, NoJob
  <2>1. e \in Reply /\ e.file = job.file /\ e.id = job.id
    BY ReadyFacts, ReplyToType DEF ReplyTo
  <2>2. e.kind = "written" <=> ok /\ job.kind = "write"
    BY DEF ReplyTo
  <2>3. CASE ~(ok /\ IsWrite(job, f))
    <3>1. confirmed'[f] = confirmed[f]
      BY <1>7, <2>3, StandFacts DEF JobReturns, IsWrite
    <3>2. ~(e.kind = "written" /\ e.file = f)
      BY <2>1, <2>2, <2>3 DEF IsWrite
    <3>. HIDE DEF e
    <3>. QED  BY <1>0, <2>0, <2>1, <3>1, <3>2, ReferenceStands
  <2>4. CASE ok /\ IsWrite(job, f)
    <3>. DEFINE n == Len(replies) + 1
    <3>1. confirmed'[f] = job.id /\ stored[f] = job.id /\ disk[f] = job.text
      BY <1>7, <2>0, <2>4, StandFacts DEF JobReturns, IsWrite, ReferenceFollows
    <3>2. e.kind = "written" /\ e.file = f
      BY <2>1, <2>2, <2>4 DEF IsWrite
    <3>. HIDE DEF e
    <3>3. /\ DOMAIN replies' = DOMAIN replies \cup {n} /\ replies'[n] = e /\ n \notin DOMAIN replies
          /\ \A k \in DOMAIN replies : replies'[k] = replies[k]
      BY <2>0, StandFacts
    <3>4. Written(f)' = Written(f) \cup {n} /\ \A k \in Written(f) : replies'[k] = replies[k]
      BY <3>2, <3>3 DEF Written, Answers
    <3>5. \A m \in DOMAIN inFlight[f] : inFlight[f][m].id = job.id => inFlight[f][m].text = job.text
      BY <2>4 DEF TextsAgree
    <3>6. \A k \in Written(f)' : replies'[k].id <= job.id
      <4>1. \A k \in Written(f) : replies[k].id <= confirmed[f] /\ replies[k].id \in Nat
        BY StandFacts, AnswerFacts DEF ReferenceFollows, Written
      <4>2. confirmed[f] < job.id
        BY <2>0, <2>4 DEF ReferenceFollows
      <4>. QED  BY <2>1, <3>3, <3>4, <4>1, <4>2, StandFacts
    <3>7. \A k \in Written(f)' : job.id > replies'[k].id => job.id \in Ids(inFlight[f])
      <4>1. job.id \in Unanswered(f)
        BY <2>4 DEF Unanswered, Ready, OnTheWay, IdsIssued
      <4>. QED  BY <4>1 DEF Ready, OnTheWay, Mirror
    <3>8. /\ Ids(inFlight[f])' = Ids(inFlight[f])
          /\ IsWrite(job, f)' = IsWrite(NoJob, f)
      BY <1>0, <2>0 DEF Ids, IsWrite
    <3>9. \E k \in Written(f)' : replies'[k].id = job.id
      BY <2>1, <3>3, <3>4
    <3>10. job.id # None
      BY StandFacts DEF None
    <3>. QED  BY <1>0, <2>0, <3>1, <3>5, <3>6, <3>7, <3>8, <3>9, <3>10, StandFacts DEF ReferenceFollows
  <2>. QED  BY <2>3, <2>4
<1>. QED  BY <1>2, <1>3, <1>4, <1>5, <1>6, <1>7, WorksCases

\* A snapshot or another command is sent: nothing is written yet.
LEMMA ReferenceSends ==
  ASSUME Ready, NEW f \in File, ReferenceFollows(f),
         (\E g \in File : Sends(g)) \/ SendsOther, ref' = ref, boot' = boot
  PROVE  ReferenceFollows(f)'
<1>. USE DEF channelVars, threadVars, diskVars, historyVars
<1>1. UNCHANGED <<confirmed, stored, disk, job, at>>
  BY DEF Sends, SendSnapshot, SendsOther, SendOther
<1>2. /\ \A k \in DOMAIN inFlight[f] : inFlight[f][k].id \in Ids(inFlight'[f])
      /\ \A m \in DOMAIN inFlight'[f] : \/ \E l \in DOMAIN inFlight[f] : inFlight[f][l] = inFlight'[f][m]
                                        \/ inFlight'[f][m].id = nextId
  <2>1. ASSUME NEW g \in File, Sends(g)
        PROVE  <1>2!:
    <3>. DEFINE s == [id |-> nextId, text |-> mem[g]]
    <3>1. inFlight' = [inFlight EXCEPT ![g] = Append(@, s)] /\ s \in Snapshot /\ s.id = nextId
      BY <2>1, ReadyFacts, RecordFacts DEF Sends, Sent, Ready, TrackerTypeOK
    <3>2. inFlight'[f] = inFlight[f] \/ inFlight'[f] = Append(inFlight[f], s)
      BY <3>1 DEF Ready, TrackerTypeOK
    <3>. HIDE DEF s
    <3>3. inFlight[f] \in Seq(Snapshot)
      BY ReadyFacts
    <3>4. CASE inFlight'[f] = inFlight[f]
      BY <3>4 DEF Ids
    <3>5. CASE inFlight'[f] = Append(inFlight[f], s)
      <4>. DEFINE q == inFlight'[f]
      <4>1. /\ \A k \in DOMAIN q : (k \in DOMAIN inFlight[f] /\ q[k] = inFlight[f][k]) \/ q[k] = s
            /\ \A k \in DOMAIN inFlight[f] : k \in DOMAIN q /\ q[k] = inFlight[f][k]
        BY <3>1, <3>3, <3>5, AppendFacts
      <4>. QED  BY <3>1, <4>1 DEF Ids
    <3>. QED  BY <3>2, <3>4, <3>5
  <2>2. CASE SendsOther
    BY <2>2 DEF SendsOther, Ids
  <2>. QED  BY <2>1, <2>2
<1>3. \/ replies' = replies
      \/ \E e \in Reply : replies' = Append(replies, e) /\ ~(e.kind = "written" /\ e.file = f)
  <2>1. ASSUME NEW c \in Command, Send(c)
        PROVE  <1>3!:
    <3>1. ReplyTo(c, FALSE) \in Reply /\ ReplyTo(c, FALSE).kind # "written"
      BY ReplyToType DEF ReplyTo
    <3>. QED  BY <2>1, <3>1 DEF Send
  <2>2. CASE SendsOther
    BY <2>1, <2>2, CommandTypes DEF SendsOther, SendOther, Others
  <2>3. ASSUME NEW g \in File, Sends(g)
        PROVE  <1>3!:
    BY <2>1, <2>3, ReadyFacts, CommandTypes DEF Sends, SendSnapshot, Ready, TrackerTypeOK
  <2>. QED  BY <2>2, <2>3
<1>4. confirmed[f] # nextId
  BY StandFacts DEF ReferenceFollows
<1>5. /\ at' = "doing" /\ IsWrite(job', f) => stored[f] < job'.id
  BY <1>1 DEF ReferenceFollows
<1>6. stored[f] \in Ids(inFlight[f]) => stored[f] \in Ids(inFlight'[f])
  BY <1>2, ReadyFacts, IdsFacts
<1>. QED  BY <1>1, <1>2, <1>3, <1>4, <1>5, <1>6, ReferenceStands

-----------------------------------------------------------------------------
(* Originals                                                                *)

\* The steps, by what they do to the channels, the queues in flight and the
\* start-up load.
Sending(g)   == Sends(g) /\ InOutbox(g) /\ UNCHANGED <<mem, ref, load, boot>>
Taking       == Takes /\ UNCHANGED <<mem, load, boot>>
Working      == Works /\ UNCHANGED <<mem, load, boot>>
Exporting    == SendOther(Export) /\ UNCHANGED <<inFlight, ref, mem, load, boot>>
Quarantining == /\ load = "loading" /\ load' = "idle" /\ boot["playlist"] = "damaged"
                /\ SendOther(Quarantine) /\ UNCHANGED <<inFlight, ref, mem, boot>>
Noting       == /\ UNCHANGED <<writerVars, inFlight, ref, boot>>
                /\ mem'["playlist"] \in Nat /\ mem'["playlist"] >= mem["playlist"]
                /\ \/ load' = load
                   \/ load = "loading" /\ load' = "idle" /\ boot["playlist"] # "damaged"

StepKind == \/ \E g \in File : Sending(g)
            \/ Taking \/ Working \/ Exporting \/ Quarantining \/ Noting

\* Only the playlist goes to quarantine.
LEMMA QuarantineKept ==
  ASSUME Ready, QuarantineIsPlaylist, StepKind
  PROVE  QuarantineIsPlaylist'
<1>. USE DEF channelVars, threadVars, diskVars, historyVars
<1>0. cmds \in Seq(Command) /\ order \in Seq(Job) /\ replies \in Seq(Reply)
  BY ReadyFacts
<1>1. ASSUME UNCHANGED <<cmds, order, job>>
      PROVE  QuarantineIsPlaylist'
  BY <1>1 DEF QuarantineIsPlaylist
<1>2. ASSUME NEW c \in Command, Send(c), c.kind = "quarantine" => c.file = "playlist", UNCHANGED <<order, job>>
      PROVE  QuarantineIsPlaylist'
  <2>1. \A k \in DOMAIN cmds' : (k \in DOMAIN cmds /\ cmds'[k] = cmds[k]) \/ cmds'[k] = c
    BY <1>0, <1>2, SendFacts
  <2>. QED  BY <1>2, <2>1 DEF QuarantineIsPlaylist
<1>3. ASSUME NEW g \in File, Sending(g)
      PROVE  QuarantineIsPlaylist'
  <2>1. Write(g, nextId, mem[g]) \in Command /\ Send(Write(g, nextId, mem[g])) /\ UNCHANGED <<order, job>>
    BY <1>3, ReadyFacts, CommandTypes DEF Sending, Sends, SendSnapshot, Ready, TrackerTypeOK
  <2>. QED  BY <1>2, <2>1 DEF Write
<1>4. CASE Exporting \/ Quarantining
  <2>1. /\ Export \in Command /\ Quarantine \in Command /\ Export.kind # "quarantine"
        /\ Quarantine.file = "playlist"
    BY CommandTypes DEF Others, Export, Quarantine, NoJob
  <2>. QED  BY <1>2, <1>4, <2>1 DEF Exporting, Quarantining, SendOther
<1>5. CASE Taking \/ Noting
  BY <1>1, <1>5 DEF Taking, Takes, TakeReply, Noting, writerVars
<1>6. CASE Working
  <2>1. CASE AcceptWrite \/ AcceptOther
    BY <2>1, AcceptFacts DEF QuarantineIsPlaylist
  <2>2. CASE StartJob
    BY <2>2, StartJobFacts DEF QuarantineIsPlaylist
  <2>3. ASSUME UNCHANGED <<cmds, order>>, job' = job \/ job' = NoJob
        PROVE  QuarantineIsPlaylist'
    BY <2>3 DEF QuarantineIsPlaylist, NoJob
  <2>. QED  BY <1>6, <2>1, <2>2, <2>3, WorksCases DEF Working, JobFails, JobReplaces, JobReturns
<1>. QED  BY <1>3, <1>4, <1>5, <1>6 DEF StepKind

\* The disk holds the original until a write or its rescue.
LEMMA OriginalKept ==
  ASSUME Ready, NEW f \in File, OriginalStays(f), RescueFirst(f), QuarantineIsPlaylist, StepKind
  PROVE  OriginalStays(f)'
<1>. USE DEF channelVars, threadVars, diskVars, historyVars
<1>1. ASSUME stored'[f] = stored[f], disk'[f] = disk[f], rescued \subseteq rescued', boot' = boot
      PROVE  OriginalStays(f)'
  <2>1. StartDisk(boot)[f]' = StartDisk(boot)[f]
    BY <1>1 DEF StartDisk
  <2>. QED  BY <1>1, <2>1 DEF OriginalStays
<1>2. boot' = boot
  BY DEF StepKind, Sending, Taking, Working, Exporting, Quarantining, Noting
<1>3. CASE Working
  <2>1. CASE JobReplaces
    <3>1. CASE IsWrite(job, f)
      <4>1. stored'[f] = job.id
        BY <2>1, <3>1, StandFacts DEF JobReplaces, IsWrite
      <4>2. job.id # None
        BY StandFacts DEF None
      <4>. QED  BY <4>1, <4>2 DEF OriginalStays
    <3>2. CASE job.kind = "quarantine" /\ f = "playlist"
      <4>1. boot[f] = "damaged" /\ f \in rescued /\ rescued' = rescued
        BY <2>1, <3>2 DEF RescueFirst, QuarantineIsPlaylist, IsRescue, JobReplaces
      <4>. QED  BY <1>2, <3>2, <4>1 DEF OriginalStays
    <3>3. CASE ~IsWrite(job, f) /\ ~(job.kind = "quarantine" /\ f = "playlist")
      BY <1>1, <1>2, <2>1, <3>3, StandFacts DEF JobReplaces, IsWrite
    <3>. QED  BY <3>1, <3>2, <3>3 DEF IsWrite
  <2>2. CASE StartJob
    <3>1. UNCHANGED <<stored, disk>> /\ rescued \subseteq rescued'
      BY <2>2, StartJobFacts
    <3>. QED  BY <1>1, <1>2, <3>1
  <2>3. CASE UNCHANGED <<stored, disk, rescued>>
    BY <1>1, <1>2, <2>3
  <2>. QED  BY <1>3, <2>1, <2>2, <2>3, WorksCases
            DEF Working, AcceptWrite, AcceptOther, JobFails, JobReturns
<1>4. CASE ~Working
  <2>1. UNCHANGED <<stored, disk, rescued>>
    BY <1>4 DEF StepKind, Sending, Sends, SendSnapshot, Taking, Takes, TakeReply, Exporting,
                Quarantining, SendOther, Noting, writerVars
  <2>. QED  BY <1>1, <1>2, <2>1
<1>. QED  BY <1>3, <1>4

\* The numbers of the playlist's changes grow.
LEMMA ChangesKept ==
  ASSUME Ready, ChangesGrow, StepKind
  PROVE  ChangesGrow'
<1>. DEFINE q == inFlight["playlist"]
<1>0. /\ q \in Seq(Snapshot) /\ mem["playlist"] \in Nat /\ ref["playlist"] \in Nat
      /\ "playlist" \in File /\ inFlight \in [File -> Seq(Snapshot)] /\ ref \in [File -> Nat \cup {None}]
      /\ nextId \in Nat /\ mem \in [File -> Nat]
  BY ReadyFacts DEF Ready, TrackerTypeOK, File
<1>a. \A k \in DOMAIN q : q[k].text \in Nat /\ k \in Nat
  BY <1>0, IdsFacts
<1>1. ASSUME NEW g \in File, Sending(g)
      PROVE  ChangesGrow'
  <2>. DEFINE s == [id |-> nextId, text |-> mem[g]]
  <2>1. /\ inFlight' = [inFlight EXCEPT ![g] = Append(@, s)] /\ UNCHANGED <<mem, ref>>
        /\ s \in Snapshot /\ s.text = mem[g]
    BY <1>0, <1>1, RecordFacts DEF Sending, Sends, Sent
  <2>2. CASE g # "playlist"
    <3>1. inFlight'["playlist"] = q
      BY <1>0, <2>1, <2>2
    <3>. QED  BY <2>1, <3>1 DEF ChangesGrow
  <2>3. CASE g = "playlist"
    <3>. HIDE DEF s
    <3>1. inFlight'["playlist"] = Append(q, s)
      BY <1>0, <2>1, <2>3
    <3>2. /\ \A k \in DOMAIN Append(q, s) :
               \/ k \in DOMAIN q /\ Append(q, s)[k] = q[k]
               \/ k \notin DOMAIN q /\ Append(q, s)[k] = s /\ \A l \in DOMAIN q : l < k
      BY <1>0, <2>1, AppendFacts
    <3>a. \A k \in DOMAIN Append(q, s) : k \in Nat
      BY <1>0, <2>1
    <3>3. \A k \in DOMAIN Append(q, s) : /\ Append(q, s)[k].text <= mem["playlist"]
                                         /\ ref["playlist"] <= Append(q, s)[k].text
      BY <1>0, <2>1, <2>3, <3>2 DEF ChangesGrow
    <3>4. ASSUME NEW k \in DOMAIN Append(q, s), NEW l \in DOMAIN Append(q, s), k < l
          PROVE  Append(q, s)[k].text <= Append(q, s)[l].text
      <4>1. k \in DOMAIN q /\ Append(q, s)[k] = q[k]
        BY <1>a, <3>2, <3>4, <3>a
      <4>2. CASE l \in DOMAIN q /\ Append(q, s)[l] = q[l]
        BY <3>4, <4>1, <4>2 DEF ChangesGrow
      <4>3. CASE Append(q, s)[l] = s
        BY <2>1, <2>3, <4>1, <4>3 DEF ChangesGrow
      <4>. QED  BY <3>2, <4>2, <4>3
    <3>. QED  BY <2>1, <3>1, <3>3, <3>4 DEF ChangesGrow
  <2>. QED  BY <2>2, <2>3
<1>2. CASE Taking
  <2>. DEFINE r == Head(replies)
  <2>1. Takes /\ mem' = mem
    BY <1>2 DEF Taking
  <2>2. CASE ~(r.kind \in AnswerKinds /\ r.file = "playlist")
    <3>1. inFlight'["playlist"] = q /\ ref'["playlist"] = ref["playlist"]
      BY <1>0, <2>1, <2>2, TakesEffect
    <3>. QED  BY <2>1, <3>1 DEF ChangesGrow
  <2>3. CASE r.kind \in AnswerKinds /\ r.file = "playlist"
    <3>1. /\ q # <<>> /\ OldestFirst(q) /\ inFlight'["playlist"] = Tail(q)
          /\ ref'["playlist"] = IF r.kind # "written" THEN ref["playlist"]
                                ELSE Later(ref["playlist"], q[1].text)
      BY <1>0, <2>1, <2>3, TakesEffect
    <3>2. /\ 1 \in DOMAIN q
          /\ \A k \in DOMAIN Tail(q) : /\ k + 1 \in DOMAIN q /\ Tail(q)[k] = q[k + 1]
                                       /\ k \in Nat /\ k > 0
      BY <1>0, <3>1, TailFacts
    <3>3. ref["playlist"] <= q[1].text /\ q[1].text \in Nat /\ q[1].text <= mem["playlist"]
      BY <1>a, <3>2 DEF ChangesGrow
    <3>4. ref'["playlist"] = ref["playlist"] \/ ref'["playlist"] = q[1].text
      BY <1>0, <3>1, <3>3 DEF Later
    <3>5. \A k \in DOMAIN Tail(q) : /\ q[1].text <= Tail(q)[k].text /\ ref["playlist"] <= Tail(q)[k].text
                                    /\ Tail(q)[k].text <= mem["playlist"]
      <4>1. \A k \in DOMAIN Tail(q) : k + 1 \in DOMAIN q /\ 1 < k + 1
        BY <3>2
      <4>. QED  BY <3>2, <4>1 DEF ChangesGrow
    <3>6. \A k, l \in DOMAIN Tail(q) : k < l => Tail(q)[k].text <= Tail(q)[l].text
      <4>1. \A k, l \in DOMAIN Tail(q) : k < l => k + 1 < l + 1
        BY <3>2
      <4>. QED  BY <3>2, <4>1 DEF ChangesGrow
    <3>7. ref["playlist"] <= mem["playlist"]
      BY DEF ChangesGrow
    <3>. QED  BY <2>1, <3>1, <3>3, <3>4, <3>5, <3>6, <3>7 DEF ChangesGrow
  <2>. QED  BY <2>2, <2>3
<1>3. CASE Working \/ Exporting \/ Quarantining \/ Noting
  <2>1. /\ inFlight' = inFlight /\ ref' = ref
        /\ mem'["playlist"] \in Nat /\ mem'["playlist"] >= mem["playlist"]
    BY <1>0, <1>3 DEF Working, Works, Exporting, Quarantining, Noting
  <2>2. \A i \in Nat : i <= mem["playlist"] => i <= mem'["playlist"]
    BY <1>0, <2>1
  <2>3. ref["playlist"] <= mem'["playlist"] /\ \A k \in DOMAIN q : q[k].text <= mem'["playlist"]
    BY <1>0, <1>a, <2>2 DEF ChangesGrow
  <2>. QED  BY <2>1, <2>3 DEF ChangesGrow
<1>. QED  BY <1>1, <1>2, <1>3 DEF StepKind

\* The rescue of f stays before its writes, and stays asked for until it was
\* tried.
LEMMA RescueKept ==
  ASSUME Ready, NEW f \in File, RescueFirst(f), Bans, StepKind
  PROVE  RescueFirst(f)'
<1>. USE DEF channelVars, threadVars, diskVars, historyVars
<1>. DEFINE InChannel ==
              \A k \in DOMAIN cmds' :
                IsRescue(cmds'[k], f) =>
                  /\ boot[f] = "damaged" /\ stored'[f] = None
                  /\ slots'[f] = Empty /\ ~IsWrite(job', f)
                  /\ \A l \in DOMAIN cmds' : l < k => ~IsWrite(cmds'[l], f)
            InQueue ==
              \A k \in DOMAIN order' :
                IsRescue(order'[k], f) =>
                  /\ boot[f] = "damaged" /\ stored'[f] = None
                  /\ ~IsWrite(job', f)
                  /\ \A l \in DOMAIN order' : l < k => ~IsWrite(order'[l], f)
            InJob == IsRescue(job', f) => boot[f] = "damaged" /\ stored'[f] = None /\ f \in rescued'
            Asked == \/ dead'
                     \/ f = "playlist" /\ load' = "loading"
                     \/ \E k \in DOMAIN cmds' : IsRescue(cmds'[k], f)
                     \/ \E k \in DOMAIN order' : IsRescue(order'[k], f)
            Waits == boot[f] = "damaged" /\ f \notin rescued' =>
                       stored'[f] = None /\ ~IsWrite(job', f) /\ Asked
<1>0. SUFFICES InChannel /\ InQueue /\ InJob /\ Waits
  <2>1. boot' = boot
    BY DEF StepKind, Sending, Taking, Working, Exporting, Quarantining, Noting
  <2>. QED  BY <2>1 DEF RescueFirst, IsRescue, IsWrite
<1>1. /\ cmds \in Seq(Command) /\ order \in Seq(Job) /\ replies \in Seq(Reply) /\ at # "ended"
      /\ ~IsRescue(NoJob, f) /\ ~IsWrite(NoJob, f)
  BY ReadyFacts DEF Ready, Alive, IsRescue, IsWrite, NoJob
<1>2. ASSUME issued[f] = {}
      PROVE  /\ stored[f] = None /\ slots[f] = Empty /\ ~IsWrite(job, f)
             /\ \A k \in DOMAIN cmds : ~IsWrite(cmds[k], f)
  BY <1>2 DEF Ready, OnTheWay, IdsIssued, WriterInv, WritesInOrder, SlotInOrder, ChannelInOrder
\* Steps of the UI thread: the channel may get a new last command.
<1>3. ASSUME UNCHANGED <<order, job, slots, stored, rescued, dead>>,
             load' = load \/ f # "playlist" \/ boot[f] # "damaged",
             \A k \in DOMAIN cmds' : \/ k \in DOMAIN cmds /\ cmds'[k] = cmds[k]
                                     \/ /\ ~IsRescue(cmds'[k], f)
                                        /\ \A l \in DOMAIN cmds : l < k,
             \A k \in DOMAIN cmds : k \in DOMAIN cmds' /\ cmds'[k] = cmds[k],
             \A k \in DOMAIN cmds' : k \in Nat
      PROVE  InChannel /\ InQueue /\ InJob /\ Waits
  <2>1. \A k, l \in DOMAIN cmds' : k \in DOMAIN cmds /\ l < k => l \in DOMAIN cmds /\ cmds'[l] = cmds[l]
    <3>1. \A k \in DOMAIN cmds : k \in Nat
      BY <1>1
    <3>2. \A k \in DOMAIN cmds, l \in Nat : (\A m \in DOMAIN cmds : m < l) => ~(l < k)
      <4>1. \A a, b \in Nat : ~(a < b /\ b < a)
        OBVIOUS
      <4>. QED  BY <3>1, <4>1
    <3>. QED  BY <1>3, <3>2
  <2>2. InChannel
    BY <1>3, <2>1 DEF RescueFirst
  <2>3. InQueue /\ InJob /\ Waits
    BY <1>3 DEF RescueFirst
  <2>. QED  BY <2>2, <2>3
<1>4. ASSUME NEW c \in Command, Send(c), ~IsRescue(c, f), UNCHANGED <<order, job, slots, stored, rescued, dead, load>>
      PROVE  InChannel /\ InQueue /\ InJob /\ Waits
  <2>1. /\ \A k \in DOMAIN cmds' : \/ k \in DOMAIN cmds /\ cmds'[k] = cmds[k]
                                   \/ cmds'[k] = c /\ \A l \in DOMAIN cmds : l < k
        /\ \A k \in DOMAIN cmds : k \in DOMAIN cmds' /\ cmds'[k] = cmds[k]
        /\ \A k \in DOMAIN cmds' : k \in Nat
    BY <1>1, <1>4, SendFacts
  <2>. QED  BY <1>3, <1>4, <2>1
<1>5. ASSUME NEW g \in File, Sending(g)
      PROVE  InChannel /\ InQueue /\ InJob /\ Waits
  <2>. DEFINE c == Write(g, nextId, mem[g])
  <2>1. /\ c \in Command /\ Send(c) /\ ~IsRescue(c, f)
        /\ UNCHANGED <<order, job, slots, stored, rescued, dead, load>>
    BY <1>5, ReadyFacts, CommandTypes DEF Sending, Sends, SendSnapshot, Ready, TrackerTypeOK, IsRescue, Write
  <2>. HIDE DEF c
  <2>. QED  BY <1>4, <2>1
<1>6. CASE Exporting
  <2>1. /\ Export \in Command /\ Send(Export) /\ ~IsRescue(Export, f)
        /\ UNCHANGED <<order, job, slots, stored, rescued, dead, load>>
    BY <1>6, CommandTypes DEF Exporting, SendOther, Others, IsRescue, Export, NoJob
  <2>. QED  BY <1>4, <2>1
<1>7. CASE Quarantining
  <2>1. /\ Quarantine \in Command /\ Send(Quarantine) /\ IsRescue(Quarantine, "playlist")
        /\ (f # "playlist" => ~IsRescue(Quarantine, f))
        /\ UNCHANGED <<order, job, slots, stored, rescued, dead>>
        /\ load = "loading" /\ load' = "idle" /\ boot["playlist"] = "damaged"
    BY <1>7, CommandTypes DEF Quarantining, SendOther, Others, IsRescue, Quarantine, NoJob
  <2>2. /\ \A k \in DOMAIN cmds' : \/ k \in DOMAIN cmds /\ cmds'[k] = cmds[k]
                                   \/ cmds'[k] = Quarantine /\ \A l \in DOMAIN cmds : l < k
        /\ \A k \in DOMAIN cmds : k \in DOMAIN cmds' /\ cmds'[k] = cmds[k]
        /\ \A k \in DOMAIN cmds' : k \in Nat
        /\ ~dead => \E k \in DOMAIN cmds' : cmds'[k] = Quarantine
    BY <1>1, <2>1, SendFacts
  <2>3. CASE f # "playlist"
    BY <1>3, <2>1, <2>2, <2>3
  <2>4. CASE f = "playlist"
    <3>1. /\ issued[f] = {} /\ \A k \in DOMAIN cmds : ~IsRescue(cmds[k], f)
          /\ \A k \in DOMAIN order : ~IsRescue(order[k], f)
          /\ ~IsRescue(job, f)
      BY <2>1, <2>4 DEF Bans
    <3>2. ~IsWrite(Quarantine, f)
      BY DEF IsWrite, Quarantine, NoJob
    <3>3. /\ stored[f] = None /\ slots[f] = Empty /\ ~IsWrite(job, f)
          /\ \A k \in DOMAIN cmds' : ~IsWrite(cmds'[k], f)
      BY <1>2, <2>2, <3>1, <3>2
    <3>4. InChannel /\ InQueue /\ InJob
      BY <2>1, <2>4, <3>1, <3>3
    <3>5. Asked
      BY <2>1, <2>2, <2>4
    <3>. QED  BY <2>1, <3>3, <3>4, <3>5
  <2>. QED  BY <2>3, <2>4
<1>8. CASE Taking
  <2>1. \A k \in DOMAIN cmds : k \in Nat
    BY <1>1
  <2>. QED  BY <1>3, <1>8, <2>1 DEF Taking, Takes, TakeReply
<1>9. CASE Noting
  <2>1. UNCHANGED <<cmds, order, job, slots, stored, rescued, dead>>
    BY <1>9 DEF Noting, writerVars
  <2>2. load' = load \/ f # "playlist" \/ boot[f] # "damaged"
    BY <1>9 DEF Noting
  <2>3. \A k \in DOMAIN cmds : k \in Nat
    BY <1>1
  <2>. QED  BY <1>3, <2>1, <2>2, <2>3
<1>10. CASE Working
  <2>0. load' = load
    BY <1>10 DEF Working
  <2>1. CASE AcceptWrite
    <3>1. cmds[1].kind = "write" /\ ~IsRescue(cmds[1], f)
      BY <2>1, AcceptFacts DEF IsRescue
    <3>2. InQueue
      <4>1. \A k, l \in DOMAIN order' : IsRescue(order'[k], f) /\ l < k =>
               k \in DOMAIN order /\ order'[k] = order[k] /\ l \in DOMAIN order' /\ (l \in DOMAIN order => order'[l] = order[l])
        BY <2>1, <3>1, AcceptFacts DEF IsRescue
      <4>2. \A k \in DOMAIN order, l \in DOMAIN order' : l < k => l \in DOMAIN order
        BY <1>1
      <4>3. \A k \in DOMAIN order' : IsRescue(order'[k], f) => k \in DOMAIN order /\ order'[k] = order[k]
        BY <2>1, <3>1, AcceptFacts DEF IsRescue
      <4>. QED  BY <2>1, <4>1, <4>2, <4>3, AcceptFacts DEF RescueFirst
    <3>3. InChannel
      <4>1. CASE IsWrite(cmds[1], f)
        <5>1. \A k \in DOMAIN cmds : ~IsRescue(cmds[k], f)
          <6>1. \A k \in DOMAIN cmds : k # 1 => 1 < k
            BY <1>1
          <6>. QED  BY <2>1, <3>1, <4>1, <6>1, AcceptFacts DEF RescueFirst
        <5>. QED  BY <2>1, <5>1, AcceptFacts
      <4>2. CASE ~IsWrite(cmds[1], f)
        <5>1. slots'[f] = slots[f]
          BY <2>1, <3>1, <4>2, AcceptFacts DEF IsWrite
        <5>2. \A k, l \in DOMAIN cmds' : l < k => l + 1 < k + 1
          BY <2>1, AcceptFacts
        <5>. QED  BY <2>1, <5>1, <5>2, AcceptFacts DEF RescueFirst
      <4>. QED  BY <4>1, <4>2
    <3>4. InJob
      BY <2>1, AcceptFacts DEF RescueFirst
    <3>5. Waits
      <4>1. (\E k \in DOMAIN cmds : IsRescue(cmds[k], f)) => \E k \in DOMAIN cmds' : IsRescue(cmds'[k], f)
        BY <2>1, <3>1, AcceptFacts
      <4>2. (\E k \in DOMAIN order : IsRescue(order[k], f)) => \E k \in DOMAIN order' : IsRescue(order'[k], f)
        BY <2>1, AcceptFacts
      <4>. QED  BY <2>0, <2>1, <4>1, <4>2, AcceptFacts DEF RescueFirst
    <3>. QED  BY <3>2, <3>3, <3>4, <3>5
  <2>2. CASE AcceptOther
    <3>1. cmds[1].kind # "write" /\ ~IsWrite(cmds[1], f) /\ slots' = slots
      BY <2>2, AcceptFacts DEF IsWrite
    <3>2. InQueue
      <4>. SUFFICES ASSUME NEW k \in DOMAIN order', IsRescue(order'[k], f)
                    PROVE  /\ boot[f] = "damaged" /\ stored'[f] = None
                           /\ ~IsWrite(job', f)
                           /\ \A l \in DOMAIN order' : l < k => ~IsWrite(order'[l], f)
        OBVIOUS
      <4>1. CASE k \in DOMAIN order /\ order'[k] = order[k]
        <5>1. \A l \in DOMAIN order' : l < k => l \in DOMAIN order /\ order'[l] = order[l]
          <6>1. \A l \in DOMAIN order' : l < k => l \in DOMAIN order
            <7>1. \A l \in DOMAIN order' : l \in Nat
              BY <2>2, AcceptFacts
            <7>3. k \in 1 .. Len(order) /\ DOMAIN order = 1 .. Len(order) /\ Len(order) \in Nat
              BY <1>1, <4>1
            <7>4. \A l \in DOMAIN order' : l >= 1
              BY <2>2, <1>1, AcceptFacts
            <7>. QED  BY <7>1, <7>3, <7>4
          <6>. QED  BY <2>2, <6>1, AcceptFacts
        <5>. QED  BY <2>2, <4>1, <5>1, AcceptFacts DEF RescueFirst
      <4>2. CASE /\ order'[k].kind = cmds[1].kind /\ order'[k].file = cmds[1].file
                 /\ \A l \in DOMAIN order' : l < k => l \in DOMAIN order
        <5>1. IsRescue(cmds[1], f)
          BY <4>2 DEF IsRescue
        <5>2. boot[f] = "damaged" /\ stored[f] = None /\ slots[f] = Empty /\ ~IsWrite(job, f)
          BY <2>2, <5>1, AcceptFacts DEF RescueFirst
        <5>3. \A l \in DOMAIN order : ~IsWrite(order[l], f)
          BY <5>2 DEF Ready, WriterInv, JobsHaveSnapshots, IsWrite
        <5>. QED  BY <2>2, <4>2, <5>2, <5>3, AcceptFacts
      <4>. QED  BY <2>2, <4>1, <4>2, AcceptFacts
    <3>3. InChannel
      <4>1. \A k, l \in DOMAIN cmds' : l < k => l + 1 < k + 1
        BY <2>2, AcceptFacts
      <4>. QED  BY <2>2, <3>1, <4>1, AcceptFacts DEF RescueFirst
    <3>4. InJob
      BY <2>2, AcceptFacts DEF RescueFirst
    <3>5. Waits
      <4>1. (\E k \in DOMAIN cmds : IsRescue(cmds[k], f)) => Asked
        <5>1. IsRescue(cmds[1], f) => \E k \in DOMAIN order' : IsRescue(order'[k], f)
          BY <2>2, <3>1, AcceptFacts DEF IsRescue
        <5>. QED  BY <2>2, <5>1, AcceptFacts
      <4>2. (\E k \in DOMAIN order : IsRescue(order[k], f)) => \E k \in DOMAIN order' : IsRescue(order'[k], f)
        BY <2>2, AcceptFacts
      <4>. QED  BY <2>0, <2>2, <4>1, <4>2, AcceptFacts DEF RescueFirst
    <3>. QED  BY <3>2, <3>3, <3>4, <3>5
  <2>3. CASE StartJob
    <3>. DEFINE j == order[1]
    <3>1. InChannel
      BY <2>3, StartJobFacts
    <3>2. /\ IsWrite(job', f) <=> IsWrite(j, f)
          /\ IsRescue(job', f) <=> IsRescue(j, f)
      BY <2>3, StartJobFacts DEF IsWrite, IsRescue
    <3>3. IsWrite(j, f) => \A k \in DOMAIN order : ~IsRescue(order[k], f)
      <4>1. IsWrite(j, f) => ~IsRescue(j, f)
        BY DEF IsWrite, IsRescue
      <4>2. \A k \in DOMAIN order : k # 1 => 1 < k
        BY <1>1
      <4>. QED  BY <2>3, <4>1, <4>2, StartJobFacts DEF RescueFirst
    <3>4. InQueue
      <4>1. \A k, l \in DOMAIN order' : l < k => l + 1 < k + 1
        BY <2>3, StartJobFacts
      <4>. QED  BY <2>3, <3>2, <3>3, <4>1, StartJobFacts DEF RescueFirst
    <3>5. InJob
      <4>1. IsRescue(j, f) => f \in rescued'
        <5>1. IsRescue(j, f) => j.kind # "write" /\ j.kind # "export" /\ j.file = f
          BY DEF IsRescue
        <5>. QED  BY <2>3, <5>1, StartJobFacts
      <4>. QED  BY <2>3, <3>2, <4>1, StartJobFacts DEF RescueFirst
    <3>6. Waits
      <4>. SUFFICES ASSUME boot[f] = "damaged", f \notin rescued'
                    PROVE  stored'[f] = None /\ ~IsWrite(job', f) /\ Asked
        OBVIOUS
      <4>1. f \notin rescued
        BY <2>3, StartJobFacts
      <4>2. stored[f] = None /\ ~IsRescue(j, f)
        BY <2>3, <3>2, <3>5, <4>1 DEF RescueFirst
      <4>3. \/ f = "playlist" /\ load = "loading"
            \/ \E k \in DOMAIN order : IsRescue(order[k], f)
        <5>1. ~dead /\ cmds = <<>>
          BY <2>3 DEF StartJob
        <5>. QED  BY <4>1, <5>1 DEF RescueFirst
      <4>4. ~IsWrite(j, f)
        <5>1. IsWrite(j, f) => slots[f] # Empty
          BY <2>3, StartJobFacts DEF IsWrite
        <5>2. f = "playlist" /\ load = "loading" => issued[f] = {}
          BY DEF Bans
        <5>. QED  BY <1>2, <3>3, <4>3, <5>1, <5>2
      <4>5. (\E k \in DOMAIN order : IsRescue(order[k], f)) => \E k \in DOMAIN order' : IsRescue(order'[k], f)
        BY <2>3, <4>2, StartJobFacts
      <4>. QED  BY <2>0, <2>3, <3>2, <4>2, <4>3, <4>4, <4>5, StartJobFacts
    <3>. QED  BY <3>1, <3>4, <3>5, <3>6
  <2>4. CASE JobReplaces
    <3>1. UNCHANGED <<cmds, order, slots, rescued, dead, job>>
      BY <2>4 DEF JobReplaces
    <3>2. ~IsWrite(job, f) => stored'[f] = stored[f]
      BY <2>4, StandFacts DEF JobReplaces, IsWrite
    <3>3. IsWrite(job, f) => ~IsRescue(job, f)
      BY DEF IsWrite, IsRescue
    <3>. QED  BY <2>0, <3>1, <3>2, <3>3 DEF RescueFirst
  <2>5. CASE UNCHANGED <<cmds, order, slots, rescued, dead, stored>> /\ job' = NoJob
    BY <1>1, <2>0, <2>5 DEF RescueFirst
  <2>. QED  BY <1>10, <2>1, <2>2, <2>3, <2>4, <2>5, WorksCases DEF Working, JobFails, JobReturns
<1>. QED  BY <1>5, <1>6, <1>7, <1>8, <1>9, <1>10 DEF StepKind

-----------------------------------------------------------------------------
(* The client and the thread stay                                           *)

\* The UI thread keeps its handle and stops nothing, so the thread stays, and
\* a writer that is not there gets no work.
LEMMA AliveKept ==
  ASSUME Ready, StepKind
  PROVE  Alive'
<1>0. cmds \in Seq(Command) /\ replies \in Seq(Reply) /\ nextId \in Nat /\ mem \in [File -> Nat]
  BY ReadyFacts DEF Ready, TrackerTypeOK
<1>1. ASSUME NEW c \in Command, Send(c), c.kind # "stop",
             UNCHANGED <<connected, dead, threadVars>>
      PROVE  Alive'
  <2>1. \A k \in DOMAIN cmds' : (k \in DOMAIN cmds /\ cmds'[k] = cmds[k]) \/ cmds'[k] = c
    BY <1>0, <1>1, SendFacts
  <2>2. \A k \in DOMAIN cmds' : cmds'[k].kind # "stop"
    BY <1>1, <2>1 DEF Ready, Alive
  <2>3. dead => cmds' = cmds
    BY <1>1 DEF Send
  <2>. QED  BY <1>1, <2>2, <2>3 DEF Ready, Alive, threadVars
<1>2. CASE \E g \in File : Sending(g)
  <2>1. PICK g \in File : Sending(g)
    BY <1>2
  <2>2. Write(g, nextId, mem[g]) \in Command /\ Write(g, nextId, mem[g]).kind # "stop"
    BY <1>0, CommandTypes DEF Write
  <2>. QED  BY <1>1, <2>1, <2>2 DEF Sending, Sends, SendSnapshot
<1>3. CASE Exporting \/ Quarantining
  <2>1. /\ Export \in Command /\ Export.kind # "stop"
        /\ Quarantine \in Command /\ Quarantine.kind # "stop"
    BY CommandTypes DEF Others, Export, Quarantine, NoJob
  <2>. QED  BY <1>1, <1>3, <2>1 DEF Exporting, Quarantining, SendOther
<1>4. CASE Taking \/ Noting
  <2>1. UNCHANGED <<cmds, connected, dead, stopping, order, at, job>>
    BY <1>4 DEF Taking, Takes, TakeReply, Noting, writerVars, threadVars
  <2>. QED  BY <2>1 DEF Ready, Alive
<1>5. CASE Working
  <2>1. Works
    BY <1>5 DEF Working
  <2>2. CASE AcceptWrite \/ AcceptOther
    <3>1. ~dead
      BY <1>0, <2>2, AcceptFacts DEF Ready, Alive
    <3>2. \A k \in DOMAIN cmds' : cmds'[k].kind # "stop"
      BY <2>2, AcceptFacts DEF Ready, Alive
    <3>3. at = "accept" /\ UNCHANGED <<connected, dead, stopping, at, job>>
      BY <2>2 DEF AcceptWrite, AcceptOther
    <3>. QED  BY <3>1, <3>2, <3>3 DEF Ready, Alive
  <2>3. CASE StartJob
    <3>1. job'.kind # "none" /\ cmds' = <<>> /\ at' = "doing" /\ UNCHANGED <<dead, connected, stopping>>
      <4>1. order[1].kind # "none"
        BY <2>3, StartJobFacts DEF Job
      <4>. QED  BY <2>3, <4>1, StartJobFacts
    <3>2. ~dead
      BY <2>3 DEF StartJob
    <3>3. connected /\ ~stopping
      BY DEF Ready, Alive
    <3>. QED  BY <3>1, <3>2, <3>3 DEF Alive
  <2>4. CASE JobFails \/ JobReplaces \/ \E ok \in BOOLEAN : JobReturns(ok)
    <3>1. /\ at # "accept" /\ UNCHANGED <<cmds, connected, dead, stopping, order>>
          /\ (job' = job /\ at' = "replaced") \/ (job' = NoJob /\ at' = "accept")
      BY <2>4 DEF JobFails, JobReplaces, JobReturns, channelVars
    <3>. QED  BY <3>1 DEF Ready, Alive
  <2>. QED  BY <2>1, <2>2, <2>3, <2>4, WorksCases
<1>. QED  BY <1>2, <1>3, <1>4, <1>5 DEF StepKind

-----------------------------------------------------------------------------
(* The lists of files                                                       *)

\* A list of files without repetition, and what is in it.
Listed(q) == q \in Seq(File) /\ \A k, l \in DOMAIN q : q[k] = q[l] => k = l
In(f, q) == \E k \in DOMAIN q : q[k] = f

\* One more at the end of a sequence, or not.
LEMMA JoinFacts ==
  ASSUME NEW S, NEW q \in Seq(S), NEW x \in S, NEW a \in BOOLEAN
  PROVE  q \o If(a, x) = IF a THEN Append(q, x) ELSE q
<1>1. q \o <<>> = q
  OBVIOUS
<1>2. q \o <<x>> = Append(q, x)
  OBVIOUS
<1>. QED  BY <1>1, <1>2 DEF If

\* One more file at the end of a list that does not have it.
LEMMA WantedFact ==
  ASSUME NEW q, NEW x \in File, NEW a \in BOOLEAN, NEW r,
         Listed(q), ~In(x, q), r = q \o If(a, x)
  PROVE  Listed(r) /\ \A f \in File : In(f, r) <=> (In(f, q) \/ (a /\ f = x))
<1>1. r = IF a THEN Append(q, x) ELSE q
  BY JoinFacts DEF Listed
<1>2. CASE a
  <2>0. q \in Seq(File) /\ r = Append(q, x)
    BY <1>1, <1>2 DEF Listed
  <2>1. /\ r \in Seq(File)
        /\ \A k \in DOMAIN r : \/ k \in DOMAIN q /\ r[k] = q[k]
                               \/ k \notin DOMAIN q /\ r[k] = x /\ \A l \in DOMAIN q : l < k
        /\ \A k \in DOMAIN q : k \in DOMAIN r /\ r[k] = q[k]
        /\ \E k \in DOMAIN r : r[k] = x
    BY <2>0, AppendFacts
  <2>2. DOMAIN r = DOMAIN q \cup {Len(q) + 1}
    BY <2>0
  <2>3. \A k, l \in DOMAIN r : r[k] = r[l] => k = l
    BY <2>1, <2>2 DEF Listed, In
  <2>4. ASSUME NEW f \in File
        PROVE  In(f, r) <=> In(f, q) \/ f = x
    BY <2>1 DEF In
  <2>. QED  BY <1>2, <2>1, <2>3, <2>4 DEF Listed
<1>3. CASE ~a
  BY <1>1, <1>3
<1>. QED  BY <1>2, <1>3

\* The wanted ones of two files and of three, in the orders the handlers use.
TwoOf(x, a, y, b) == If(a, x) \o If(b, y)
ThreeOf(a, b, c) == TwoOf("playlist", a, "state", b) \o If(c, "settings")

LEMMA TwoWanted ==
  ASSUME NEW x \in File, NEW y \in File, x # y, NEW a \in BOOLEAN, NEW b \in BOOLEAN
  PROVE  /\ Listed(TwoOf(x, a, y, b))
         /\ \A f \in File : In(f, TwoOf(x, a, y, b)) <=> ((a /\ f = x) \/ (b /\ f = y))
<1>1. PICK p, q : p = If(a, x) /\ q = TwoOf(x, a, y, b)
  OBVIOUS
<1>2. /\ Listed(<<>>) /\ \A f \in File : ~In(f, <<>>)
      /\ Listed(<<x>>) /\ \A f \in File : In(f, <<x>>) <=> f = x
  BY DEF Listed, In
<1>3. Listed(p) /\ \A f \in File : In(f, p) <=> (a /\ f = x)
  <2>1. (a /\ p = <<x>>) \/ (~a /\ p = <<>>)
    BY <1>1 DEF If
  <2>. QED  BY <1>2, <2>1
<1>4. ~In(y, p) /\ q = p \o If(b, y)
  BY <1>1, <1>3 DEF TwoOf
<1>5. Listed(q) /\ \A f \in File : In(f, q) <=> (In(f, p) \/ (b /\ f = y))
  BY <1>3, <1>4, WantedFact, Zenon
<1>. QED  BY <1>1, <1>3, <1>5

LEMMA ThreeWanted ==
  ASSUME NEW a \in BOOLEAN, NEW b \in BOOLEAN, NEW c \in BOOLEAN
  PROVE  /\ Listed(ThreeOf(a, b, c))
         /\ \A f \in File : In(f, ThreeOf(a, b, c)) <=> \/ (a /\ f = "playlist")
                                                        \/ (b /\ f = "state")
                                                        \/ (c /\ f = "settings")
<1>1. "playlist" \in File /\ "state" \in File /\ "settings" \in File
  BY DEF File
<1>2. PICK q, r : q = ThreeOf(a, b, c) /\ r = TwoOf("playlist", a, "state", b)
  OBVIOUS
<1>3. Listed(r) /\ \A f \in File : In(f, r) <=> ((a /\ f = "playlist") \/ (b /\ f = "state"))
  BY <1>1, <1>2, TwoWanted
<1>4. ~In("settings", r) /\ q = r \o If(c, "settings")
  BY <1>1, <1>2, <1>3 DEF ThreeOf
<1>5. Listed(q) /\ \A f \in File : In(f, q) <=> (In(f, r) \/ (c /\ f = "settings"))
  <2>1. PICK s \in File : s = "settings"
    BY <1>1
  <2>2. ~In(s, r) /\ q = r \o If(c, s)
    BY <1>4, <2>1
  <2>3. Listed(q) /\ \A f \in File : In(f, q) <=> (In(f, r) \/ (c /\ f = s))
    BY <1>3, <2>2, WantedFact, Zenon
  <2>. QED  BY <2>1, <2>3
<1>. QED  BY <1>2, <1>3, <1>5

-----------------------------------------------------------------------------
(* The steps of Persist                                                     *)

\* What the steps need to know of the state.
LEMMA InvReady == ASSUME IInv  PROVE Ready
BY DEF IInv, Ready

LEMMA StateFacts ==
  ASSUME IInv
  PROVE  /\ mem \in [File -> Nat] /\ outbox \in Seq(File) /\ nextId \in Nat
         /\ ref \in [File -> Nat \cup {None}]
         /\ ui = "sending" <=> outbox # <<>>
         /\ \A f \in File : mem[f] \in Nat /\ inFlight[f] \in Seq(Snapshot) /\ ref[f] \in Nat \cup {None}
         /\ Texts \subseteq Nat /\ Intervals \subseteq Nat \ {0}
         /\ "playlist" \in File /\ "state" \in File /\ "settings" \in File
         /\ connected
<1>. HIDE DEF IInv
<1>1. TrackerTypeOK /\ UiTypeOK /\ Alive /\ Ready
  BY InvReady DEF IInv
<1>. QED  BY <1>1, ReadyFacts, TrackerAssumption DEF TrackerTypeOK, UiTypeOK, Alive, File

\* The UI thread has one file after the other on its list.
LEMMA NextToSend ==
  ASSUME IInv, ui = "sending"
  PROVE  /\ Head(outbox) \in File /\ Head(outbox) = outbox[1] /\ 1 \in DOMAIN outbox
         /\ InOutbox(Head(outbox))
         /\ Tail(outbox) \in Seq(File)
         /\ \A k \in DOMAIN Tail(outbox) : /\ k + 1 \in DOMAIN outbox /\ Tail(outbox)[k] = outbox[k + 1]
                                           /\ k \in Nat /\ k > 0
         /\ \A k \in DOMAIN outbox : k = 1 \/ \E l \in DOMAIN Tail(outbox) : l + 1 = k
<1>1. outbox \in Seq(File) /\ outbox # <<>>
  BY StateFacts
<1>. QED  BY <1>1, TailFacts DEF InOutbox

\* Every step is one of the kinds above.
LEMMA KindOfStep ==
  ASSUME IInv, Next
  PROVE  StepKind
<1>. USE StateFacts
<1>1. ASSUME NEW t \in Texts, NEW u \in BOOLEAN, ChangeState(t, u)
      PROVE  Noting
  <2>1. mem' = [mem EXCEPT !["state"] = t] /\ UNCHANGED <<writerVars, inFlight, ref, boot, load>>
    BY <1>1 DEF ChangeState
  <2>2. mem'["playlist"] = mem["playlist"]
    BY <2>1
  <2>. QED  BY <2>1, <2>2 DEF Noting
<1>2. CASE PlaylistChanged
  <2>1. /\ mem' = [mem EXCEPT !["playlist"] = @ + 1]
        /\ UNCHANGED <<writerVars, inFlight, ref, boot, load>>
    BY <1>2 DEF PlaylistChanged
  <2>2. mem'["playlist"] = mem["playlist"] + 1
    BY <2>1
  <2>. QED  BY <2>1, <2>2 DEF Noting, StepKind
<1>3. CASE ExportPlaylist
  BY <1>3 DEF ExportPlaylist, trackerVars, StepKind, Exporting
<1>4. ASSUME NEW t \in Texts, NEW n \in Intervals, NEW who \in Savers, SaveSettings(t, n, who)
      PROVE  Noting
  <2>1. mem' = [mem EXCEPT !["settings"] = t] /\ UNCHANGED <<writerVars, inFlight, ref, boot, load>>
    BY <1>4 DEF SaveSettings
  <2>2. mem'["playlist"] = mem["playlist"]
    BY <2>1
  <2>. QED  BY <2>1, <2>2 DEF Noting
<1>5. CASE Retry \/ DismissErrors \/ Elapse \/ TickBegin \/ TickEnd \/ ExitEnd
  <2>1. UNCHANGED <<writerVars, mem, inFlight, ref, boot, load>>
    BY <1>5 DEF Retry, DismissErrors, Elapse, TickBegin, TickEnd, ExitEnd, trackerVars, uiVars
  <2>. QED  BY <2>1 DEF Noting, StepKind
<1>6. ASSUME NEW t \in Texts, ExitBegin(t)
      PROVE  Noting
  <2>1. mem' = [mem EXCEPT !["state"] = t] /\ UNCHANGED <<writerVars, inFlight, ref, boot, load>>
    BY <1>6 DEF ExitBegin, LastChange
  <2>2. mem'["playlist"] = mem["playlist"]
    BY <2>1
  <2>. QED  BY <2>1, <2>2 DEF Noting
<1>7. CASE TickLoad
  <2>1. /\ load = "loading" /\ load' = "idle" /\ UNCHANGED <<inFlight, ref, mem, boot>>
        /\ IF boot["playlist"] = "damaged" THEN SendOther(Quarantine) ELSE UNCHANGED writerVars
    BY <1>7 DEF TickLoad, LoadCorrupt
  <2>. QED  BY <2>1 DEF Quarantining, Noting, StepKind
<1>8. CASE TickReply \/ ExitReply
  BY <1>8 DEF TickReply, ExitReply, Takes, Taking, StepKind
<1>9. CASE SendOne
  <2>1. Sending(Head(outbox)) /\ Head(outbox) \in File
    BY <1>9, NextToSend DEF SendOne, Sends, Sending
  <2>. QED  BY <2>1 DEF StepKind
<1>10. CASE WriterStep
  BY <1>10 DEF WriterStep, trackerVars, uiVars, Working, Works, StepKind
<1>. QED  BY <1>1, <1>2, <1>3, <1>4, <1>5, <1>6, <1>7, <1>8, <1>9, <1>10
          DEF Next, UserStep, HandlerStep, StepKind

\* The UI thread uses the writer as any client may.
LEMMA ClientOfWriter ==
  ASSUME IInv, StepKind
  PROVE  [ClientNext]_writerVars
<1>1. ASSUME NEW g \in File, Sending(g)
      PROVE  ClientNext
  BY <1>1, StateFacts DEF Sending, Sends, ClientNext, ClientStep, ClientSends
<1>2. CASE Taking
  BY <1>2, StateFacts DEF Taking, Takes, ClientNext, ClientStep
<1>3. CASE Working
  BY <1>3 DEF Working, Works, ClientNext
<1>4. CASE Exporting \/ Quarantining
  BY <1>4, StateFacts DEF Exporting, Quarantining, ClientNext, ClientStep, ClientSends, Others
<1>5. CASE Noting
  BY <1>5 DEF Noting
<1>. QED  BY <1>1, <1>2, <1>3, <1>4, <1>5 DEF StepKind

\* The copies asked for at start, by the files that do not parse.
LEMMA StartLists ==
  ASSUME NEW b
  PROVE  LET p == BadCopy("settings")
             s == BadCopy("state")
         IN StartCommands(b) = IF "settings" \in DamagedToml(b)
                                 THEN IF "state" \in DamagedToml(b) THEN <<p, s>> ELSE <<p>>
                                 ELSE IF "state" \in DamagedToml(b) THEN <<s>> ELSE <<>>
<1>. DEFINE p == BadCopy("settings")
            s == BadCopy("state")
            v == "settings" \in DamagedToml(b)
            w == "state" \in DamagedToml(b)
<1>1. p \in Command /\ s \in Command /\ w \in BOOLEAN /\ v \in BOOLEAN
  BY CommandTypes DEF Others, Toml
<1>2. StartCommands(b) = IF v THEN <<p>> \o If(w, s) ELSE <<>> \o If(w, s)
  BY DEF StartCommands, If
<1>. HIDE DEF p, s, v, w
<1>3. <<>> \in Seq(Command) /\ <<p>> \in Seq(Command)
  BY <1>1
<1>4. /\ <<>> \o If(w, s) = IF w THEN Append(<<>>, s) ELSE <<>>
      /\ <<p>> \o If(w, s) = IF w THEN Append(<<p>>, s) ELSE <<p>>
  BY <1>1, <1>3, JoinFacts
<1>5. Append(<<>>, s) = <<s>> /\ Append(<<p>>, s) = <<p, s>>
  <2>1. Append(<<>>, s) = <<s>>
    OBVIOUS
  <2>2. PICK a, e : a = Append(<<p>>, s) /\ e = <<p, s>>
    OBVIOUS
  <2>3. a \in Seq(Command) /\ Len(a) = 2 /\ a[1] = p /\ a[2] = s
    BY <1>1, <1>3, <2>2
  <2>4. e \in Seq(Command) /\ Len(e) = 2 /\ e[1] = p /\ e[2] = s
    BY <1>1, <2>2
  <2>5. a = e
    BY <2>3, <2>4
  <2>. QED  BY <2>1, <2>2, <2>5
<1>6. StartCommands(b) = IF v THEN IF w THEN <<p, s>> ELSE <<p>>
                              ELSE IF w THEN <<s>> ELSE <<>>
  BY <1>2, <1>4, <1>5
<1>. QED  BY <1>6 DEF p, s, v, w

\* They are copies of the files that do not parse, one of each.
LEMMA StartCopies ==
  ASSUME NEW b \in [File -> Found]
  PROVE  /\ \A k \in DOMAIN StartCommands(b) :
              LET c == StartCommands(b)[k]
              IN c.kind = "badcopy" /\ c.file \in Toml /\ b[c.file] = "damaged"
         /\ \A f \in Toml : b[f] = "damaged" =>
              \E k \in DOMAIN StartCommands(b) : /\ StartCommands(b)[k].kind = "badcopy"
                                                 /\ StartCommands(b)[k].file = f
<1>. DEFINE p == BadCopy("settings")
            s == BadCopy("state")
<1>1. /\ p.kind = "badcopy" /\ p.file = "settings" /\ s.kind = "badcopy" /\ s.file = "state"
  BY DEF BadCopy, NoJob
<1>2. \A f \in Toml : f \in DamagedToml(b) <=> b[f] = "damaged"
  BY DEF DamagedToml
<1>3. "settings" \in Toml /\ "state" \in Toml /\ \A f \in Toml : f = "settings" \/ f = "state"
  BY DEF Toml
<1>4. StartCommands(b) = IF "settings" \in DamagedToml(b)
                           THEN IF "state" \in DamagedToml(b) THEN <<p, s>> ELSE <<p>>
                           ELSE IF "state" \in DamagedToml(b) THEN <<s>> ELSE <<>>
  BY StartLists
<1>. HIDE DEF p, s
<1>5. CASE "settings" \in DamagedToml(b) /\ "state" \in DamagedToml(b)
  BY <1>1, <1>2, <1>3, <1>4, <1>5
<1>6. CASE "settings" \in DamagedToml(b) /\ "state" \notin DamagedToml(b)
  BY <1>1, <1>2, <1>3, <1>4, <1>6
<1>7. CASE "settings" \notin DamagedToml(b) /\ "state" \in DamagedToml(b)
  BY <1>1, <1>2, <1>3, <1>4, <1>7
<1>8. CASE "settings" \notin DamagedToml(b) /\ "state" \notin DamagedToml(b)
  BY <1>1, <1>2, <1>3, <1>4, <1>8
<1>. QED  BY <1>5, <1>6, <1>7, <1>8

\* A session starts the writer as any client may.
LEMMA ClientAtStart == Init => ClientInit
<1>. SUFFICES ASSUME NEW b \in [File -> Found], NEW d \in BOOLEAN,
                     WriterInit(StartCommands(b), StartDisk(b), d)
              PROVE  ClientInit
  BY DEF Init
<1>1. StartCommands(b) \in StartCmds
  BY StartLists DEF StartCmds
<1>2. StartDisk(b) \in StartDisks
  BY DEF StartDisk, StartDisks
<1>. QED  BY <1>1, <1>2 DEF ClientInit

-----------------------------------------------------------------------------
(* The types of the UI thread                                               *)

\* The tracker's variables keep their types.
LEMMA TrackerTypeKept ==
  ASSUME IInv, Next
  PROVE  TrackerTypeOK'
<1>. USE StateFacts
<1>0. Ready /\ TrackerTypeOK
  BY InvReady DEF IInv
<1>. HIDE DEF IInv
<1>1. /\ Armed(deadline) \in Nat \cup {None} /\ Polled \in Nat \cup {None}
      /\ \A n \in Intervals : Shortened(n) \in Nat \cup {None} /\ n \in Nat \ {0}
      /\ \A t \in Texts : t \in Nat
      /\ deadline > 0 => deadline - 1 \in Nat \cup {None}
  BY <1>0 DEF Armed, Polled, Shortened, Earlier, Due, TrackerTypeOK, None
<1>2. ASSUME NEW t \in Texts, NEW u \in BOOLEAN, ChangeState(t, u)
      PROVE  TrackerTypeOK'
  BY <1>0, <1>1, <1>2 DEF ChangeState, TrackerTypeOK
<1>3. CASE PlaylistChanged
  BY <1>0, <1>1, <1>3 DEF PlaylistChanged, TrackerTypeOK
<1>4. ASSUME NEW t \in Texts, NEW n \in Intervals, NEW who \in Savers, SaveSettings(t, n, who)
      PROVE  TrackerTypeOK'
  BY <1>0, <1>1, <1>4 DEF SaveSettings, TrackerTypeOK
<1>5. CASE ExportPlaylist \/ Retry \/ DismissErrors \/ TickBegin \/ ExitEnd \/ WriterStep
  BY <1>0, <1>5 DEF ExportPlaylist, Retry, DismissErrors, TickBegin, ExitEnd, WriterStep, trackerVars, TrackerTypeOK
<1>6. CASE Elapse \/ TickEnd
  BY <1>0, <1>1, <1>6 DEF Elapse, TickEnd, TrackerTypeOK
<1>7. ASSUME NEW t \in Texts, ExitBegin(t)
      PROVE  TrackerTypeOK'
  <2>1. /\ mem' = [mem EXCEPT !["state"] = t] /\ deadline' \in {deadline, Armed(deadline)}
        /\ UNCHANGED <<interval, ref, stopped, forbidden, inFlight>>
    BY <1>7 DEF ExitBegin, LastChange
  <2>. QED  BY <1>0, <1>1, <2>1 DEF TrackerTypeOK
<1>8. CASE TickLoad
  <2>1. (LoadUnreadable) \in BOOLEAN
    BY DEF LoadUnreadable
  <2>2. forbidden' \in BOOLEAN /\ UNCHANGED <<mem, interval, deadline, ref, stopped, inFlight>>
    BY <1>0, <1>8, <2>1 DEF TickLoad, TrackerTypeOK
  <2>. QED  BY <1>0, <2>2 DEF TrackerTypeOK
<1>9. CASE TickReply \/ ExitReply
  <2>. DEFINE r == Head(replies)
  <2>1. Takes /\ UNCHANGED <<mem, interval, deadline>> /\ forbidden' \in BOOLEAN
    BY <1>0, <1>9 DEF TickReply, ExitReply, Takes, TrackerTypeOK
  <2>2. CASE r.kind \notin AnswerKinds
    <3>1. UNCHANGED <<inFlight, ref, stopped>>
      BY <1>0, <2>1, <2>2, TakesEffect
    <3>. QED  BY <1>0, <2>1, <3>1 DEF TrackerTypeOK
  <2>3. CASE r.kind \in AnswerKinds
    <3>. DEFINE f == r.file
                q == inFlight[f]
                x == IF r.kind # "written" THEN ref[f]
                     ELSE IF f = "playlist" THEN Later(ref[f], q[1].text) ELSE q[1].text
                s == IF r.kind = "superseded" THEN stopped[f] ELSE r.kind = "failed"
    <3>1. /\ f \in File /\ q # <<>> /\ q[1] \in Snapshot
          /\ inFlight' = [inFlight EXCEPT ![f] = Tail(q)]
          /\ ref' = [ref EXCEPT ![f] = x] /\ stopped' = [stopped EXCEPT ![f] = s]
      BY <1>0, <2>1, <2>3, TakesEffect
    <3>2. q[1].text \in Nat /\ Tail(q) \in Seq(Snapshot)
      BY <3>1, TailFacts DEF Snapshot
    <3>3. x \in Nat \cup {None} /\ (f = "playlist" => x \in Nat)
      BY <1>0, <3>1, <3>2 DEF Later, TrackerTypeOK
    <3>4. s \in BOOLEAN
      BY <1>0, <3>1 DEF TrackerTypeOK
    <3>. HIDE DEF x, s, q, f, r
    <3>5. inFlight' \in [File -> Seq(Snapshot)]
      BY <1>0, <3>1, <3>2 DEF TrackerTypeOK
    <3>6. ref' \in [File -> Nat \cup {None}] /\ ref'["playlist"] \in Nat
      BY <1>0, <3>1, <3>3 DEF TrackerTypeOK
    <3>7. stopped' \in [File -> BOOLEAN]
      BY <1>0, <3>1, <3>4 DEF TrackerTypeOK
    <3>. QED  BY <1>0, <2>1, <3>5, <3>6, <3>7 DEF TrackerTypeOK
  <2>. QED  BY <2>2, <2>3
<1>10. CASE SendOne
  <2>. DEFINE f == Head(outbox)
              s == [id |-> nextId, text |-> mem[f]]
  <2>1. f \in File /\ inFlight' = [inFlight EXCEPT ![f] = Append(@, s)]
        /\ UNCHANGED <<mem, interval, deadline, ref, stopped, forbidden>>
    BY <1>10, NextToSend DEF SendOne, Sent
  <2>2. Append(inFlight[f], s) \in Seq(Snapshot)
    BY <2>1, RecordFacts, AppendFacts
  <2>3. inFlight' \in [File -> Seq(Snapshot)]
    BY <1>0, <2>1, <2>2 DEF TrackerTypeOK
  <2>. QED  BY <1>0, <2>1, <2>3 DEF TrackerTypeOK
<1>. QED  BY <1>2, <1>3, <1>4, <1>5, <1>6, <1>7, <1>8, <1>9, <1>10 DEF Next, UserStep, HandlerStep

\* The list of files to send is one without repetition, and it is empty unless
\* the handler is sending.
LEMMA ListKept ==
  ASSUME NEW fs, Listed(fs), SendNext(fs)
  PROVE  /\ Listed(outbox') /\ outbox' = fs
         /\ ui' \in {"idle", "sending", "waiting"}
         /\ ui' = "sending" <=> outbox' # <<>>
BY DEF SendNext

\* The lists the handlers make.
LEMMA RetryList ==
  ASSUME Retry
  PROVE  /\ Listed(outbox') /\ SendNext(outbox')
         /\ \A f \in File : In(f, outbox') <=> (f \in alerts /\ (f = "playlist" => ~forbidden))
<1>. DEFINE a == "playlist" \in alerts /\ PlaylistWritable(FALSE)
            b == "state" \in alerts
            c == "settings" \in alerts
<1>1. a \in BOOLEAN /\ b \in BOOLEAN /\ c \in BOOLEAN
  OBVIOUS
<1>2. SendNext(ThreeOf(a, b, c))
  BY DEF ThreeOf, TwoOf, Retry
<1>3. /\ a <=> ("playlist" \in alerts /\ ~forbidden)
      /\ b <=> "state" \in alerts
      /\ c <=> "settings" \in alerts
  BY DEF PlaylistWritable
<1>. HIDE DEF a, b, c
<1>4. outbox' = ThreeOf(a, b, c) /\ SendNext(outbox')
  BY <1>2 DEF SendNext
<1>5. /\ Listed(outbox')
      /\ \A f \in File : In(f, outbox') <=>
           ((a /\ f = "playlist") \/ (b /\ f = "state") \/ (c /\ f = "settings"))
  BY <1>1, <1>4, ThreeWanted
<1>. QED  BY <1>3, <1>4, <1>5 DEF File

LEMMA ExitList ==
  ASSUME NEW t, ExitBegin(t)
  PROVE  /\ Listed(outbox') /\ SendNext(outbox')
         /\ \A f \in File : In(f, outbox') <=> WrittenAtExit(f, mem')
<1>. DEFINE a == WrittenAtExit("playlist", mem')
            b == WrittenAtExit("state", mem')
            c == WrittenAtExit("settings", mem')
<1>1. a \in BOOLEAN /\ b \in BOOLEAN /\ c \in BOOLEAN
  BY DEF WrittenAtExit, PlaylistDirty, TomlNeedsWrite
<1>2. SendNext(ThreeOf(a, b, c))
  BY DEF ThreeOf, TwoOf, ExitBegin
<1>3. /\ a <=> WrittenAtExit("playlist", mem')
      /\ b <=> WrittenAtExit("state", mem')
      /\ c <=> WrittenAtExit("settings", mem')
  OBVIOUS
<1>. HIDE DEF a, b, c
<1>4. outbox' = ThreeOf(a, b, c) /\ SendNext(outbox')
  BY <1>2 DEF SendNext
<1>5. /\ Listed(outbox')
      /\ \A f \in File : In(f, outbox') <=>
           ((a /\ f = "playlist") \/ (b /\ f = "state") \/ (c /\ f = "settings"))
  BY <1>1, <1>4, ThreeWanted
<1>. QED  BY <1>3, <1>4, <1>5 DEF File

LEMMA TickList ==
  ASSUME TickEnd
  PROVE  /\ Listed(outbox') /\ SendNext(outbox')
         /\ \A f \in File : In(f, outbox') <=> \/ (DueState /\ f = "state")
                                              \/ (DuePlaylist /\ f = "playlist")
<1>. DEFINE a == DueState
            b == DuePlaylist
<1>1. a \in BOOLEAN /\ b \in BOOLEAN
  BY DEF DueState, DuePlaylist
<1>2. SendNext(TwoOf("state", a, "playlist", b))
  BY DEF TwoOf, TickEnd, DueFiles
<1>. HIDE DEF a, b
<1>3. outbox' = TwoOf("state", a, "playlist", b) /\ SendNext(outbox')
  BY <1>2 DEF SendNext
<1>4. /\ Listed(outbox')
      /\ \A f \in File : In(f, outbox') <=>
           ((a /\ f = "state") \/ (b /\ f = "playlist"))
  <2>1. "state" \in File /\ "playlist" \in File /\ "state" # "playlist"
    BY DEF File
  <2>. QED  BY <1>1, <1>3, <2>1, TwoWanted
<1>. QED  BY <1>3, <1>4 DEF a, b

LEMMA SaveList ==
  ASSUME NEW t, NEW n, NEW who, SaveSettings(t, n, who)
  PROVE  /\ Listed(outbox') /\ SendNext(outbox')
         /\ \A f \in File : In(f, outbox') <=> (f = "settings" /\ TomlNeedsWrite("settings", t))
<1>1. /\ TomlNeedsWrite("settings", t) => SendNext(<<"settings">>)
      /\ ~TomlNeedsWrite("settings", t) => SendNext(<<>>)
  BY DEF SaveSettings
<1>2. /\ Listed(<<"settings">>) /\ \A f \in File : In(f, <<"settings">>) <=> f = "settings"
      /\ Listed(<<>>) /\ \A f \in File : ~In(f, <<>>)
  BY DEF Listed, In, File
<1>3. /\ SendNext(outbox')
      /\ TomlNeedsWrite("settings", t) => outbox' = <<"settings">>
      /\ ~TomlNeedsWrite("settings", t) => outbox' = <<>>
  BY <1>1 DEF SendNext
<1>. QED  BY <1>2, <1>3

\* The list without the file that is sent.
LEMMA SendList ==
  ASSUME IInv, SendOne
  PROVE  /\ Listed(outbox') /\ SendNext(outbox')
         /\ \A f \in File : In(f, outbox') <=> (In(f, outbox) /\ f # Head(outbox))
<1>1. outbox' = Tail(outbox) /\ SendNext(outbox') /\ ui = "sending"
  BY DEF SendOne, SendNext
<1>2. Listed(outbox)
  BY DEF IInv, UiTypeOK, Listed
<1>3. /\ outbox' \in Seq(File)
      /\ \A k \in DOMAIN outbox' : /\ k + 1 \in DOMAIN outbox /\ outbox'[k] = outbox[k + 1]
                                   /\ k \in Nat /\ k > 0
      /\ \A k \in DOMAIN outbox : k = 1 \/ \E l \in DOMAIN outbox' : l + 1 = k
      /\ 1 \in DOMAIN outbox /\ Head(outbox) = outbox[1]
  BY <1>1, NextToSend
<1>4. Listed(outbox')
  <2>1. \A k, l \in DOMAIN outbox' : k + 1 = l + 1 => k = l
    BY <1>3
  <2>. QED  BY <1>2, <1>3, <2>1 DEF Listed
<1>5. ASSUME NEW f \in File, In(f, outbox')
      PROVE  In(f, outbox) /\ f # Head(outbox)
  <2>1. PICK k \in DOMAIN outbox' : outbox'[k] = f
    BY <1>5 DEF In
  <2>2. k + 1 \in DOMAIN outbox /\ outbox[k + 1] = f /\ k + 1 # 1
    BY <1>3, <2>1
  <2>. QED  BY <1>2, <1>3, <2>2 DEF In, Listed
<1>6. ASSUME NEW f \in File, In(f, outbox), f # Head(outbox)
      PROVE  In(f, outbox')
  <2>1. PICK k \in DOMAIN outbox : outbox[k] = f /\ k # 1
    BY <1>3, <1>6 DEF In
  <2>2. PICK l \in DOMAIN outbox' : l + 1 = k
    BY <1>3, <2>1
  <2>. QED  BY <1>3, <2>1, <2>2 DEF In
<1>. QED  BY <1>1, <1>4, <1>5, <1>6

\* What one handler leaves for the next ones.
LEMMA UiTypeKept ==
  ASSUME IInv, Next
  PROVE  UiTypeOK'
<1>. USE StateFacts
<1>0. Ready /\ UiTypeOK /\ TrackerTypeOK
  BY InvReady DEF IInv
<1>. HIDE DEF IInv
<1>1. Listed(outbox)
  BY <1>0 DEF UiTypeOK, Listed
<1>2. ASSUME Listed(outbox'), ui' \in {"idle", "draining", "sending", "waiting"},
             ui' = "sending" <=> outbox' # <<>>, phase' \in {"running", "exiting", "done"},
             waiting' \in [File -> Nat \cup {None}], report' \in [File -> Class],
             alerts' \in SUBSET File, load' \in {"loading", "idle"}, boot' = boot,
             dropped' \in SUBSET File, quiet' \in BOOLEAN, saved' \in SUBSET Savers
      PROVE  UiTypeOK'
  BY <1>0, <1>2 DEF UiTypeOK, Listed
<1>3. ASSUME NEW t \in Texts, NEW u \in BOOLEAN, ChangeState(t, u)
      PROVE  UiTypeOK'
  <2>1. /\ UNCHANGED <<outbox, ui, phase, waiting, report, alerts, load, boot, saved>>
        /\ dropped' \in SUBSET File /\ quiet' \in BOOLEAN
    BY <1>0, <1>3 DEF ChangeState, UiTypeOK
  <2>. QED  BY <1>0, <1>1, <1>2, <2>1 DEF UiTypeOK
<1>4. CASE PlaylistChanged \/ ExportPlaylist \/ Elapse \/ DismissErrors \/ WriterStep
  <2>1. /\ UNCHANGED <<outbox, ui, phase, waiting, report, load, boot, quiet, saved>>
        /\ dropped' \in SUBSET File /\ alerts' \in SUBSET File
    BY <1>0, <1>4 DEF PlaylistChanged, ExportPlaylist, Elapse, DismissErrors, WriterStep, uiVars, UiTypeOK
  <2>. QED  BY <1>0, <1>1, <1>2, <2>1 DEF UiTypeOK
<1>5. ASSUME NEW t \in Texts, NEW n \in Intervals, NEW who \in Savers, SaveSettings(t, n, who)
      PROVE  UiTypeOK'
  <2>1. UNCHANGED <<phase, waiting, report, alerts, load, boot, dropped, quiet>> /\ saved' = saved \union {who}
    BY <1>5 DEF SaveSettings
  <2>. QED  BY <1>0, <1>2, <1>5, <2>1, ListKept, SaveList DEF UiTypeOK
<1>6. CASE Retry
  <2>1. UNCHANGED <<phase, waiting, report, alerts, load, boot, quiet, saved>> /\ dropped' \in SUBSET File
    BY <1>0, <1>6 DEF Retry, UiTypeOK
  <2>. QED  BY <1>0, <1>2, <1>6, <2>1, ListKept, RetryList DEF UiTypeOK
<1>7. ASSUME NEW t \in Texts, ExitBegin(t)
      PROVE  UiTypeOK'
  <2>1. /\ UNCHANGED <<alerts, load, boot, saved>> /\ phase' = "exiting"
        /\ dropped' \in SUBSET File /\ quiet' \in BOOLEAN
    BY <1>0, <1>7 DEF ExitBegin, LastChange, UiTypeOK
  <2>2. \A f \in File : inFlight[f] # <<>> => LastInFlight(f) \in Nat
    BY EmptyFacts, IdsFacts DEF LastInFlight, Last
  <2>3. waiting' \in [File -> Nat \cup {None}] /\ report' \in [File -> Class]
    BY <1>7, <2>2 DEF ExitBegin, Class
  <2>4. /\ Listed(outbox') /\ ui' \in {"idle", "sending", "waiting"}
        /\ ui' = "sending" <=> outbox' # <<>>
    BY <1>7, ListKept, ExitList
  <2>5. alerts \in SUBSET File /\ load \in {"loading", "idle"} /\ saved \in SUBSET Savers
    BY <1>0 DEF UiTypeOK
  <2>. QED  BY <1>2, <2>1, <2>3, <2>4, <2>5
<1>8. CASE TickBegin \/ TickLoad
  <2>1. /\ ui = "idle" /\ ui' = "draining" /\ load' \in {load, "idle"}
        /\ UNCHANGED <<outbox, phase, waiting, report, alerts, boot, dropped, quiet, saved>>
    BY <1>8 DEF TickBegin, TickLoad, Idle
  <2>. QED  BY <1>0, <1>1, <1>2, <2>1 DEF UiTypeOK
<1>9. CASE TickReply
  <2>1. Head(replies).file \in File
    BY <1>0, <1>9, TakesEffect DEF TickReply, Takes
  <2>2. /\ UNCHANGED <<ui, outbox, phase, waiting, report, load, boot, dropped, quiet, saved>>
        /\ alerts' \in SUBSET File
    BY <1>0, <1>9, <2>1 DEF TickReply, UiTypeOK
  <2>. QED  BY <1>0, <1>1, <1>2, <2>2 DEF UiTypeOK
<1>10. CASE TickEnd
  <2>2. UNCHANGED <<phase, waiting, report, alerts, load, boot, quiet, saved>> /\ dropped' \in SUBSET File
    BY <1>0, <1>10 DEF TickEnd, DroppedFiles, UiTypeOK
  <2>. QED  BY <1>0, <1>2, <1>10, <2>2, ListKept, TickList DEF UiTypeOK
<1>11. CASE SendOne
  <2>1. UNCHANGED <<phase, report, alerts, load, boot, dropped, quiet, saved>>
    BY <1>11 DEF SendOne
  <2>2. waiting' \in [File -> Nat \cup {None}]
    BY <1>0, <1>11, NextToSend DEF SendOne, UiTypeOK
  <2>. QED  BY <1>0, <1>2, <1>11, <2>1, <2>2, ListKept, SendList DEF UiTypeOK
<1>12. CASE ExitReply
  <2>1. Head(replies) \in Reply /\ Head(replies).file \in File
    BY <1>0, <1>12, TakesEffect DEF ExitReply, Takes
  <2>2. /\ UNCHANGED <<ui, outbox, phase, alerts, load, boot, dropped, quiet, saved>>
        /\ waiting' \in [File -> Nat \cup {None}]
    BY <1>0, <1>12, <2>1 DEF ExitReply, UiTypeOK
  <2>3. report' \in [File -> Class]
    BY <1>0, <1>12, <2>1 DEF ExitReply, UiTypeOK, Class
  <2>. QED  BY <1>0, <1>1, <1>2, <2>2, <2>3 DEF UiTypeOK
<1>13. CASE ExitEnd
  <2>1. /\ ui = "waiting" /\ ui' = "idle" /\ phase' = "done" /\ report' \in [File -> Class]
        /\ UNCHANGED <<outbox, waiting, alerts, load, boot, dropped, quiet, saved>>
    BY <1>0, <1>13 DEF ExitEnd, UiTypeOK, Class
  <2>. QED  BY <1>0, <1>1, <1>2, <2>1 DEF UiTypeOK
<1>. QED  BY <1>3, <1>4, <1>5, <1>6, <1>7, <1>8, <1>9, <1>10, <1>11, <1>12, <1>13
          DEF Next, UserStep, HandlerStep

-----------------------------------------------------------------------------
(* Bans                                                                     *)

\* Ids are given out for files on the list only.
LEMMA IssuedGrows ==
  ASSUME IInv, StepKind, NEW f \in File
  PROVE  /\ issued[f] \subseteq issued'[f]
         /\ issued'[f] = issued[f] \/ In(f, outbox)
         /\ boot' = boot
<1>0. issued \in [File -> SUBSET Nat]
  BY InvReady, ReadyFacts
<1>1. CASE \E g \in File : Sending(g)
  BY <1>0, <1>1 DEF Sending, Sends, SendSnapshot, InOutbox, In
<1>2. CASE Taking \/ Exporting \/ Quarantining \/ Noting
  BY <1>2 DEF Taking, Takes, TakeReply, Exporting, Quarantining, SendOther, Noting, writerVars, historyVars
<1>3. CASE Working
  <2>1. Works
    BY <1>3 DEF Working
  <2>2. issued' = issued
    BY <2>1, WorksCases, InvReady
       DEF AcceptWrite, AcceptOther, StartJob, JobFails, JobReplaces, JobReturns, historyVars
  <2>. QED  BY <1>3, <2>2 DEF Working
<1>. QED  BY <1>1, <1>2, <1>3 DEF StepKind

\* What Bans means for the list of files to send.
Barred(f) == NotWritten(f) \/ (f = "playlist" /\ load = "loading")

LEMMA BarredFacts ==
  ASSUME IInv, NEW f \in File, Barred(f)
  PROVE  /\ issued[f] = {} /\ ~In(f, outbox) /\ f \notin alerts
         /\ f = "playlist" => ~(PlaylistDirty /\ ~forbidden)
         /\ f = "state" => f \in autoForbidden
         /\ f = "settings" => f \in autoForbidden /\ saved = {}
<1>1. Bans /\ TrackerTypeOK /\ UiTypeOK /\ ChangesGrow
  BY DEF IInv
<1>. HIDE DEF IInv
<1>2. issued[f] = {} /\ ~In(f, outbox) /\ f \notin alerts
  BY <1>1 DEF Bans, Barred, In
<1>3. f = "playlist" => ~(PlaylistDirty /\ ~forbidden)
  <2>1. CASE load = "idle"
    BY <1>1, <2>1 DEF Barred, NotWritten, Bans
  <2>2. CASE load = "loading"
    <3>1. mem["playlist"] = 0 /\ ref["playlist"] \in Nat
      BY <1>1, <2>2 DEF Bans, TrackerTypeOK
    <3>. QED  BY <3>1 DEF PlaylistDirty
  <2>. QED  BY <1>1, <2>1, <2>2 DEF UiTypeOK
<1>4. /\ f = "state" => f \in autoForbidden
      /\ f = "settings" => f \in autoForbidden /\ saved = {}
  BY <1>1 DEF Bans, Barred, NotWritten, Toml
<1>. QED  BY <1>2, <1>3, <1>4

\* No handler lists a file that may not be written.
LEMMA BarredStays ==
  ASSUME IInv, Next, NEW f \in File, Barred(f)'
  PROVE  Barred(f) /\ ~In(f, outbox') /\ issued'[f] = {}
<1>. USE StateFacts
<1>. HIDE DEF IInv
<1>1. Barred(f)
  <2>1. boot' = boot
    BY KindOfStep, IssuedGrows
  <2>2. load' = load \/ load' = "idle"
    BY KindOfStep DEF StepKind, Sending, Taking, Working, Exporting, Quarantining, Noting
  <2>3. saved' = saved \/ \E who \in Savers : saved' = saved \union {who}
    BY DEF Next, UserStep, HandlerStep, ChangeState, PlaylistChanged, ExportPlaylist, SaveSettings,
           Retry, DismissErrors, ExitBegin, Elapse, TickBegin, TickLoad, TickReply, TickEnd, SendOne,
           ExitReply, ExitEnd, WriterStep, uiVars
  <2>. QED  BY <2>1, <2>2, <2>3 DEF Barred, NotWritten
<1>2. issued'[f] = {}
  BY <1>1, BarredFacts, IssuedGrows, KindOfStep
<1>3. ~In(f, outbox') \/ outbox' # outbox
  BY <1>1, BarredFacts
<1>4. ASSUME NEW t \in Texts, NEW n \in Intervals, NEW who \in Savers, SaveSettings(t, n, who)
      PROVE  ~In(f, outbox')
  <2>1. saved' # {}
    BY <1>4 DEF SaveSettings
  <2>. QED  BY <1>4, <2>1, SaveList DEF Barred, NotWritten
<1>5. ASSUME Retry  PROVE ~In(f, outbox')
  BY <1>1, <1>5, BarredFacts, RetryList
<1>6. ASSUME TickEnd  PROVE ~In(f, outbox')
  <2>1. f # "settings" /\ In(f, outbox') => (f = "state" /\ DueState) \/ (f = "playlist" /\ DuePlaylist)
    BY <1>6, TickList
  <2>. QED  BY <1>1, <1>6, BarredFacts, TickList DEF DueState, DuePlaylist, PlaylistWritable
<1>7. ASSUME NEW t \in Texts, ExitBegin(t)
      PROVE  ~In(f, outbox')
  BY <1>1, <1>7, BarredFacts, ExitList DEF WrittenAtExit, File
<1>8. ASSUME SendOne  PROVE ~In(f, outbox')
  BY <1>1, <1>8, BarredFacts, SendList
<1>9. ASSUME NEW t \in Texts, NEW u \in BOOLEAN, ChangeState(t, u)
      PROVE  outbox' = outbox
  BY <1>9 DEF ChangeState
<1>10. ASSUME \/ PlaylistChanged \/ ExportPlaylist \/ DismissErrors \/ Elapse \/ TickBegin \/ TickLoad
              \/ TickReply \/ ExitReply \/ ExitEnd \/ WriterStep
       PROVE  outbox' = outbox
  BY <1>10 DEF PlaylistChanged, ExportPlaylist, DismissErrors, Elapse, TickBegin, TickLoad, TickReply,
               ExitReply, ExitEnd, WriterStep, uiVars
<1>11. ~In(f, outbox')
  BY <1>3, <1>4, <1>5, <1>6, <1>7, <1>8, <1>9, <1>10 DEF Next, UserStep, HandlerStep
<1>. QED  BY <1>1, <1>2, <1>11

\* Nothing is asked of the playlist while it is being read.
LEMMA NoRescueYet ==
  ASSUME IInv, StepKind, load' = "loading"
  PROVE  /\ \A k \in DOMAIN cmds' : ~IsRescue(cmds'[k], "playlist")
         /\ \A k \in DOMAIN order' : ~IsRescue(order'[k], "playlist")
         /\ ~IsRescue(job', "playlist")
<1>0. /\ Ready /\ UiTypeOK /\ cmds \in Seq(Command) /\ replies \in Seq(Reply) /\ nextId \in Nat
      /\ mem \in [File -> Nat]
  BY InvReady, ReadyFacts, StateFacts DEF IInv
<1>1. load = "loading"
  BY <1>0 DEF StepKind, Sending, Taking, Working, Exporting, Quarantining, Noting, UiTypeOK
<1>2. /\ \A k \in DOMAIN cmds : ~IsRescue(cmds[k], "playlist")
      /\ \A k \in DOMAIN order : ~IsRescue(order[k], "playlist")
      /\ ~IsRescue(job, "playlist")
  BY <1>1 DEF IInv, Bans
<1>. HIDE DEF IInv
<1>3. ASSUME NEW c \in Command, Send(c), ~IsRescue(c, "playlist"), UNCHANGED <<order, job>>
      PROVE  /\ \A k \in DOMAIN cmds' : ~IsRescue(cmds'[k], "playlist")
             /\ \A k \in DOMAIN order' : ~IsRescue(order'[k], "playlist")
             /\ ~IsRescue(job', "playlist")
  <2>1. \A k \in DOMAIN cmds' : (k \in DOMAIN cmds /\ cmds'[k] = cmds[k]) \/ cmds'[k] = c
    BY <1>0, <1>3, SendFacts
  <2>. QED  BY <1>2, <1>3, <2>1
<1>4. CASE \E g \in File : Sending(g)
  <2>1. PICK g \in File : Sending(g)
    BY <1>4
  <2>2. Write(g, nextId, mem[g]) \in Command /\ ~IsRescue(Write(g, nextId, mem[g]), "playlist")
    BY <1>0, CommandTypes DEF Write, IsRescue
  <2>. QED  BY <1>3, <2>1, <2>2 DEF Sending, Sends, SendSnapshot, threadVars
<1>5. CASE Exporting
  <2>1. Export \in Command /\ ~IsRescue(Export, "playlist")
    BY CommandTypes DEF Others, Export, NoJob, IsRescue
  <2>. QED  BY <1>3, <1>5, <2>1 DEF Exporting, SendOther, threadVars
<1>6. CASE Taking \/ Noting
  <2>1. UNCHANGED <<cmds, order, job>>
    BY <1>6 DEF Taking, Takes, TakeReply, Noting, writerVars, threadVars
  <2>. QED  BY <1>2, <2>1
<1>7. CASE Working
  <2>1. Works
    BY <1>7 DEF Working
  <2>2. CASE AcceptWrite \/ AcceptOther
    <3>1. \A k \in DOMAIN cmds' : ~IsRescue(cmds'[k], "playlist")
      BY <1>0, <1>2, <2>2, AcceptFacts
    <3>2. ~IsRescue(cmds[1], "playlist") /\ job' = job
      BY <1>0, <1>2, <2>2, AcceptFacts
    <3>3. \A k \in DOMAIN order' : \/ k \in DOMAIN order /\ order'[k] = order[k]
                                   \/ order'[k].kind = cmds[1].kind /\ order'[k].file = cmds[1].file
      BY <1>0, <2>2, AcceptFacts
    <3>4. \A k \in DOMAIN order' : ~IsRescue(order'[k], "playlist")
      BY <1>2, <3>2, <3>3 DEF IsRescue
    <3>. QED  BY <1>2, <3>1, <3>2, <3>4
  <2>3. CASE StartJob
    <3>1. /\ cmds' = cmds /\ 1 \in DOMAIN order
          /\ \A k \in DOMAIN order' : k + 1 \in DOMAIN order /\ order'[k] = order[k + 1]
          /\ job'.kind = order[1].kind /\ job'.file = order[1].file
      BY <1>0, <2>3, StartJobFacts
    <3>. QED  BY <1>2, <3>1 DEF IsRescue
  <2>4. CASE JobFails \/ JobReplaces \/ \E ok \in BOOLEAN : JobReturns(ok)
    <3>1. UNCHANGED <<cmds, order>> /\ job' \in {job, NoJob} /\ ~IsRescue(NoJob, "playlist")
      BY <2>4 DEF JobFails, JobReplaces, JobReturns, channelVars, NoJob, IsRescue
    <3>. QED  BY <1>2, <3>1
  <2>. QED  BY <1>0, <2>1, <2>2, <2>3, <2>4, WorksCases
<1>8. ~Quarantining
  BY DEF Quarantining
<1>. QED  BY <1>4, <1>5, <1>6, <1>7, <1>8 DEF StepKind

\* The bans and what they keep away stay.
LEMMA BansKept ==
  ASSUME IInv, Next
  PROVE  Bans'
<1>. USE StateFacts
<1>0. /\ Bans /\ Ready /\ UiTypeOK /\ StepKind /\ boot' = boot
      /\ \A f \in File : issued[f] \subseteq issued'[f]
  BY InvReady, KindOfStep, IssuedGrows DEF IInv
<1>. HIDE DEF IInv
<1>1. autoForbidden' = {f \in Toml : boot'[f] = "unreadable"}
  <2>1. autoForbidden' = autoForbidden
    BY DEF Next, UserStep, HandlerStep, ChangeState, PlaylistChanged, ExportPlaylist, SaveSettings,
           Retry, DismissErrors, ExitBegin, Elapse, TickBegin, TickLoad, TickReply, TickEnd, SendOne,
           ExitReply, ExitEnd, WriterStep, trackerVars
  <2>. QED  BY <1>0, <2>1 DEF Bans
<1>2. load' = "idle" /\ boot'["playlist"] = "unreadable" => forbidden'
  <2>1. CASE TickLoad
    BY <1>0, <2>1 DEF TickLoad, LoadUnreadable
  <2>2. CASE load' = load /\ (forbidden => forbidden')
    BY <1>0, <2>2 DEF Bans
  <2>3. TickLoad \/ (load' = load /\ (forbidden => forbidden'))
    BY DEF Next, UserStep, HandlerStep, ChangeState, PlaylistChanged, ExportPlaylist, SaveSettings,
           Retry, DismissErrors, ExitBegin, Elapse, TickBegin, TickReply, TickEnd, SendOne,
           ExitReply, ExitEnd, WriterStep, trackerVars, uiVars
  <2>. QED  BY <2>1, <2>2, <2>3
<1>3. \A f \in alerts' : issued'[f] # {}
  <2>0. \A f \in alerts : f \in File /\ issued[f] # {} /\ issued'[f] # {}
    <3>1. \A f \in alerts : f \in File /\ issued[f] # {}
      BY <1>0 DEF Bans, UiTypeOK
    <3>. QED  BY <1>0, <3>1
  <2>1. CASE TickReply
    <3>. DEFINE r == Head(replies)
    <3>1. Takes
      BY <2>1 DEF TickReply, Takes
    <3>2. r.file \in File /\ (r.kind \in AnswerKinds => inFlight[r.file] # <<>> /\ inFlight[r.file][1].id = r.id)
      BY <1>0, <3>1, TakesEffect
    <3>3. r.kind = "failed" => issued[r.file] # {}
      <4>1. inFlight[r.file] # <<>> => 1 \in DOMAIN inFlight[r.file]
        BY <3>2, TailFacts
      <4>2. inFlight[r.file] # <<>> => inFlight[r.file][1].id \in issued[r.file]
        BY <1>0, <3>2, <4>1, IdsFacts DEF Ready, OnTheWay, IdsIssued
      <4>. QED  BY <3>2, <4>2 DEF AnswerKinds
    <3>4. \A f \in alerts' : f \in alerts \/ (r.kind = "failed" /\ f = r.file)
      BY <2>1 DEF TickReply
    <3>5. issued[r.file] # {} => issued'[r.file] # {}
      BY <1>0, <3>2
    <3>. QED  BY <2>0, <3>3, <3>4, <3>5
  <2>2. CASE alerts' \subseteq alerts
    BY <2>0, <2>2
  <2>3. TickReply \/ alerts' \subseteq alerts
    BY DEF Next, UserStep, HandlerStep, ChangeState, PlaylistChanged, ExportPlaylist, SaveSettings,
           Retry, DismissErrors, ExitBegin, Elapse, TickBegin, TickLoad, TickEnd, SendOne,
           ExitReply, ExitEnd, WriterStep, uiVars
  <2>. QED  BY <2>1, <2>2, <2>3
<1>4. \A f \in File : Barred(f)' => issued'[f] = {} /\ ~In(f, outbox')
  BY BarredStays
<1>5. load' = "loading" => mem'["playlist"] = 0
  <2>1. load' = "loading" => load = "loading" /\ mem["playlist"] = 0
    BY <1>0 DEF StepKind, Sending, Taking, Working, Exporting, Quarantining, Noting, Bans, UiTypeOK
  <2>2. load = "loading" => mem'["playlist"] = mem["playlist"]
    BY DEF Next, UserStep, HandlerStep, ChangeState, PlaylistChanged, ExportPlaylist, SaveSettings,
           Retry, DismissErrors, ExitBegin, LastChange, Elapse, TickBegin, TickLoad, TickReply, TickEnd, SendOne,
           ExitReply, ExitEnd, WriterStep, trackerVars
  <2>. QED  BY <2>1, <2>2
<1>6. "playlist" \in File
  OBVIOUS
<1>. QED  BY <1>0, <1>1, <1>2, <1>3, <1>4, <1>5, <1>6, NoRescueYet DEF Bans, Barred, In

-----------------------------------------------------------------------------
(* The deadline                                                             *)

\* Nothing that concerns f changes but the deadline, which keeps running.
LEMMA ScheduleStands ==
  ASSUME NEW f \in {"state", "playlist"}, Scheduled(f),
         UNCHANGED <<mem[f], inFlight[f], ref[f], stopped[f], autoForbidden, phase>>,
         forbidden => forbidden', f \in dropped => f \in dropped', quiet' = quiet \/ f # "state",
         deadline # None => deadline' # None, In(f, outbox) => In(f, outbox')
  PROVE  Scheduled(f)'
<1>1. NeedsWrite(f)' <=> NeedsWrite(f)
  BY DEF NeedsWrite, TomlNeedsWrite
<1>2. Banned(f) => Banned(f)'
  BY DEF Banned
<1>3. InOutbox(f) => InOutbox(f)'
  BY DEF In, InOutbox
<1>. QED  BY <1>1, <1>2, <1>3 DEF Scheduled

\* A deadline that runs is a number; the handlers below leave it running.
LEMMA DeadlineFacts ==
  ASSUME TrackerTypeOK
  PROVE  /\ Armed(deadline) # None /\ Armed(deadline) \in Nat
         /\ \A n \in Intervals : deadline # None => Shortened(n) # None
         /\ deadline > 0 => deadline - 1 # None
         /\ ~Due => Polled = deadline
<1>1. /\ deadline \in Nat \cup {None} /\ interval \in Nat
      /\ \A n \in Intervals : n \in Nat
  BY TrackerAssumption DEF TrackerTypeOK
<1>. QED  BY <1>1 DEF Armed, Shortened, Earlier, Due, Polled, None

\* A playlist that needs a write is ahead of what is written.
LEMMA DirtyFacts ==
  ASSUME TrackerTypeOK, ChangesGrow, NeedsWrite("playlist")
  PROVE  PlaylistDirty
<1>. DEFINE q == inFlight["playlist"]
<1>1. /\ mem["playlist"] \in Nat /\ ref["playlist"] \in Nat /\ q \in Seq(Snapshot)
      /\ ref["playlist"] <= mem["playlist"]
  BY DEF TrackerTypeOK, ChangesGrow, File
<1>2. CASE q = <<>>
  BY <1>1, <1>2 DEF NeedsWrite, TomlNeedsWrite, PlaylistDirty
<1>3. CASE q # <<>>
  <2>1. Len(q) \in DOMAIN q
    BY <1>1, <1>3, EmptyFacts
  <2>2. /\ q[Len(q)].text \in Nat /\ q[Len(q)].text <= mem["playlist"]
        /\ ref["playlist"] <= q[Len(q)].text
    BY <1>1, <2>1, IdsFacts DEF ChangesGrow
  <2>3. q[Len(q)].text # mem["playlist"]
    BY <1>3 DEF NeedsWrite, TomlNeedsWrite, Last
  <2>. QED  BY <1>1, <2>2, <2>3 DEF PlaylistDirty
<1>. QED  BY <1>2, <1>3

\* A reply changes what has to be written only when it is a failure.
LEMMA NeedAfterReply ==
  ASSUME IInv, Takes, UNCHANGED mem, NEW f \in File
  PROVE  \/ UNCHANGED <<inFlight[f], ref[f], stopped[f]>> /\ Head(replies).kind \notin AnswerKinds
         \/ UNCHANGED <<inFlight[f], ref[f], stopped[f]>> /\ Head(replies).file # f
         \/ /\ Head(replies).kind \in AnswerKinds /\ Head(replies).file = f
            /\ inFlight[f] # <<>> /\ Head(replies).id = inFlight[f][1].id
            /\ inFlight'[f] = Tail(inFlight[f])
            /\ Tail(inFlight[f]) = <<>> => Head(replies).kind # "superseded"
            /\ Tail(inFlight[f]) # <<>> => /\ Last(inFlight'[f]) = Last(inFlight[f])
                                           /\ NeedsWrite(f)' <=> NeedsWrite(f)
            /\ Tail(inFlight[f]) = <<>> => Last(inFlight[f]) = inFlight[f][1]
            /\ Head(replies).kind = "written" => /\ ref'[f] = inFlight[f][1].text
                                                 /\ stopped'[f] = FALSE
                                                 /\ NeedsWrite(f)' <=> NeedsWrite(f)
            /\ Head(replies).kind # "written" => ref'[f] = ref[f]
            /\ Head(replies).kind = "failed" => stopped'[f]
<1>. DEFINE r == Head(replies)
            q == inFlight[f]
<1>0. /\ Ready /\ inFlight \in [File -> Seq(Snapshot)] /\ ref \in [File -> Nat \cup {None}]
      /\ stopped \in [File -> BOOLEAN] /\ OnTheWay(f) /\ ChangesGrow /\ q \in Seq(Snapshot)
      /\ ref["playlist"] \in Nat
  BY InvReady DEF IInv, TrackerTypeOK
<1>. HIDE DEF IInv
<1>1. CASE r.kind \notin AnswerKinds
  BY <1>0, <1>1, TakesEffect
<1>2. CASE r.kind \in AnswerKinds /\ r.file # f
  BY <1>0, <1>2, TakesEffect
<1>3. CASE r.kind \in AnswerKinds /\ r.file = f
  <2>1. /\ q # <<>> /\ q[1].id = r.id /\ q[1] \in Snapshot /\ OldestFirst(q)
        /\ r = replies[1] /\ 1 \in DOMAIN replies
        /\ inFlight'[f] = Tail(q)
        /\ ref'[f] = IF r.kind # "written" THEN ref[f]
                     ELSE IF f = "playlist" THEN Later(ref[f], q[1].text) ELSE q[1].text
        /\ stopped'[f] = IF r.kind = "superseded" THEN stopped[f] ELSE r.kind = "failed"
    BY <1>0, <1>3, TakesEffect
  <2>2. /\ Tail(q) # <<>> => Last(Tail(q)) = Last(q)
        /\ Tail(q) = <<>> => Last(q) = q[1]
        /\ Ids(Tail(q)) = Ids(q) \ {q[1].id}
    BY <1>0, <2>1, TailOfQueue
  <2>3. r.kind = "superseded" => Tail(q) # <<>>
    <3>1. SUFFICES ASSUME r.kind = "superseded"  PROVE Tail(q) # <<>>
      OBVIOUS
    <3>2. 1 \in Answers(f)
      BY <1>3, <2>1, <3>1 DEF Answers
    <3>3. PICK i \in Ids(q) : replies[1].id < i
      BY <1>0, <2>1, <3>1, <3>2 DEF OnTheWay, NewerFollows
    <3>4. i \in Ids(Tail(q))
      BY <1>0, <2>1, <2>2, <3>3, IdsFacts
    <3>. QED  BY <3>4 DEF Ids
  <2>4. r.kind = "written" => ref'[f] = q[1].text /\ stopped'[f] = FALSE
    <3>1. f = "playlist" => Later(ref[f], q[1].text) = q[1].text
      <4>1. 1 \in DOMAIN q /\ q[1].text \in Nat
        BY <1>0, <2>1, TailFacts, IdsFacts
      <4>2. f = "playlist" => ref[f] <= q[1].text /\ ref[f] \in Nat
        BY <1>0, <4>1 DEF ChangesGrow
      <4>. QED  BY <4>1, <4>2 DEF Later
    <3>. QED  BY <2>1, <3>1
  <2>5. Tail(q) # <<>> => (NeedsWrite(f)' <=> NeedsWrite(f))
    BY <2>1, <2>2 DEF NeedsWrite, TomlNeedsWrite
  <2>6. r.kind = "written" /\ Tail(q) = <<>> => (NeedsWrite(f)' <=> NeedsWrite(f))
    BY <2>1, <2>2, <2>4 DEF NeedsWrite, TomlNeedsWrite
  <2>7. /\ r.kind = "failed" => stopped'[f]
        /\ r.kind # "written" => ref'[f] = ref[f]
    BY <2>1
  <2>8. Tail(q) # <<>> => Last(inFlight'[f]) = Last(inFlight[f])
    BY <2>1, <2>2
  <2>. QED  BY <1>3, <2>1, <2>2, <2>3, <2>4, <2>5, <2>6, <2>7, <2>8
<1>. QED  BY <1>1, <1>2, <1>3

\* What the timer has to write stays on the clock or on its way.
LEMMA ScheduledKept ==
  ASSUME IInv, Next, NEW f \in {"state", "playlist"}
  PROVE  Scheduled(f)'
<1>. USE StateFacts
<1>0. /\ Scheduled(f) /\ TrackerTypeOK /\ UiTypeOK /\ Ready /\ ChangesGrow /\ Bans /\ f \in File
      /\ Ready
  BY InvReady DEF IInv
<1>. HIDE DEF IInv
<1>1. ui # "sending" => ~In(f, outbox)
  BY <1>0 DEF UiTypeOK, In
<1>2. ASSUME NEW t \in Texts, NEW u \in BOOLEAN, ChangeState(t, u)
      PROVE  Scheduled(f)'
  <2>1. /\ mem' = [mem EXCEPT !["state"] = t] /\ ui = "idle"
        /\ deadline' = IF u THEN Armed(deadline) ELSE deadline
        /\ dropped' = IF deadline' = None THEN dropped ELSE dropped \ {"state"}
        /\ quiet' = (deadline' = None)
        /\ UNCHANGED <<ref, stopped, forbidden, autoForbidden, inFlight, outbox, phase>>
    BY <1>2 DEF ChangeState, Idle
  <2>2. CASE f = "state"
    BY <2>1, <2>2 DEF Scheduled
  <2>3. CASE f = "playlist"
    <3>1. mem'[f] = mem[f] /\ (f \in dropped => f \in dropped')
      BY <2>1, <2>3
    <3>2. deadline # None => deadline' # None
      BY <1>0, <2>1, DeadlineFacts
    <3>. QED  BY <1>0, <2>1, <2>3, <3>1, <3>2, ScheduleStands
  <2>. QED  BY <2>2, <2>3
<1>3. CASE PlaylistChanged
  BY <1>0, <1>3, DeadlineFacts DEF PlaylistChanged, Scheduled
<1>4. ASSUME NEW t \in Texts, NEW n \in Intervals, NEW who \in Savers, SaveSettings(t, n, who)
      PROVE  Scheduled(f)'
  <2>1. /\ mem' = [mem EXCEPT !["settings"] = t] /\ ui = "idle"
        /\ deadline' = IF n # interval THEN Shortened(n) ELSE deadline
        /\ UNCHANGED <<ref, stopped, forbidden, autoForbidden, inFlight, phase, dropped, quiet>>
    BY <1>4 DEF SaveSettings, Idle
  <2>2. mem'[f] = mem[f]
    BY <2>1
  <2>3. deadline # None => deadline' # None
    BY <1>0, <2>1, DeadlineFacts
  <2>. QED  BY <1>0, <1>1, <2>1, <2>2, <2>3, ScheduleStands
<1>5. CASE ExportPlaylist \/ TickBegin \/ DismissErrors \/ TickLoad \/ WriterStep
  <2>1. /\ UNCHANGED <<mem, inFlight, ref, stopped, autoForbidden, phase, dropped, quiet, deadline, outbox>>
        /\ (forbidden' = forbidden) \/ (forbidden' = (forbidden \/ LoadUnreadable))
    BY <1>5, Zenon DEF ExportPlaylist, TickBegin, DismissErrors, TickLoad, WriterStep, trackerVars, uiVars
  <2>2. forbidden => forbidden'
    BY <2>1, Zenon
  <2>. QED  BY <1>0, <2>1, <2>2, ScheduleStands
<1>6. CASE Elapse
  <2>1. /\ UNCHANGED <<mem, inFlight, ref, stopped, forbidden, autoForbidden, phase, dropped, quiet, outbox>>
        /\ deadline' # None
    BY <1>0, <1>6, DeadlineFacts DEF Elapse, uiVars
  <2>. QED  BY <1>0, <2>1, ScheduleStands
<1>7. CASE TickReply
  <2>1. /\ Takes /\ UNCHANGED <<mem, autoForbidden, phase, dropped, quiet, deadline, outbox>>
        /\ forbidden => forbidden'
    BY <1>7 DEF TickReply, Takes
  <2>2. CASE UNCHANGED <<inFlight[f], ref[f], stopped[f]>>
    BY <1>0, <2>1, <2>2, ScheduleStands
  <2>3. CASE /\ inFlight[f] # <<>>
             /\ Tail(inFlight[f]) = <<>> => Head(replies).kind # "superseded"
             /\ Head(replies).kind \in AnswerKinds
             /\ inFlight'[f] = Tail(inFlight[f])
             /\ Tail(inFlight[f]) # <<>> => (NeedsWrite(f)' <=> NeedsWrite(f))
             /\ Head(replies).kind = "written" => (NeedsWrite(f)' <=> NeedsWrite(f))
             /\ Head(replies).kind = "failed" => stopped'[f]
    <3>1. SUFFICES ASSUME NeedsWrite(f)', ~Banned(f)', inFlight'[f] = <<>> => ~stopped'[f],
                          phase = "running", f \notin dropped, f = "state" => ~quiet
                   PROVE  deadline # None \/ InOutbox(f)
      BY <2>1 DEF Scheduled, InOutbox
    <3>2. NeedsWrite(f)
      BY <2>3, <3>1 DEF AnswerKinds
    <3>3. ~Banned(f)
      BY <2>1, <3>1 DEF Banned
    <3>. QED  BY <1>0, <2>3, <3>1, <3>2, <3>3 DEF Scheduled
  <2>. QED  BY <1>0, <2>1, <2>2, <2>3, NeedAfterReply
<1>8. CASE TickEnd
  <2>1. /\ UNCHANGED <<mem, inFlight, ref, stopped, forbidden, autoForbidden, phase, quiet>>
        /\ deadline' = Polled /\ dropped' = dropped \cup DroppedFiles /\ ui = "draining"
    BY <1>8 DEF TickEnd
  <2>2. CASE ~Due
    BY <1>0, <1>1, <2>1, <2>2, DeadlineFacts, ScheduleStands
  <2>3. CASE Due
    <3>1. SUFFICES ASSUME NeedsWrite(f), ~Banned(f), f \notin DroppedFiles
                   PROVE  In(f, outbox')
      <4>1. NeedsWrite(f)' <=> NeedsWrite(f)
        BY <2>1 DEF NeedsWrite, TomlNeedsWrite
      <4>2. Banned(f)' <=> Banned(f)
        BY <2>1 DEF Banned
      <4>3. In(f, outbox') => InOutbox(f)'
        BY DEF In, InOutbox
      <4>. QED  BY <2>1, <4>1, <4>2, <4>3 DEF Scheduled
    <3>2. f = "playlist" => PlaylistDirty
      BY <1>0, <3>1, DirtyFacts
    <3>3. ~stopped[f]
      BY <2>3, <3>1, <3>2 DEF DroppedFiles, NeedsWrite
    <3>4. f = "state" => DueState
      BY <2>3, <3>1, <3>3 DEF DueState, Banned, NeedsWrite
    <3>5. f = "playlist" => DuePlaylist
      BY <2>3, <3>1, <3>2, <3>3 DEF DuePlaylist, PlaylistWritable, Banned
    <3>. QED  BY <1>0, <1>8, <3>4, <3>5, TickList
  <2>. QED  BY <2>2, <2>3
<1>9. CASE SendOne
  <2>. DEFINE g == Head(outbox)
              s == [id |-> nextId, text |-> mem[g]]
  <2>1. /\ UNCHANGED <<mem, ref, stopped, forbidden, autoForbidden, phase, quiet, deadline, dropped>>
        /\ inFlight' = [inFlight EXCEPT ![g] = Append(@, s)] /\ g \in File
    BY <1>9, NextToSend DEF SendOne, Sent
  <2>2. CASE f = g
    <3>1. inFlight'[f] = Append(inFlight[f], s) /\ s \in Snapshot /\ s.text = mem[f]
      BY <1>0, <2>1, <2>2, RecordFacts DEF TrackerTypeOK
    <3>. HIDE DEF s, g
    <3>2. inFlight'[f] # <<>> /\ Last(inFlight'[f]) = s
      <4>1. PICK q \in Seq(Snapshot) : q = inFlight[f]
        BY <1>0 DEF TrackerTypeOK
      <4>2. inFlight'[f] = Append(q, s)
        BY <3>1, <4>1
      <4>3. Append(q, s) # <<>> /\ Last(Append(q, s)) = s
        BY <3>1, <4>1 DEF Last
      <4>. QED  BY <4>2, <4>3
    <3>3. ~NeedsWrite(f)'
      BY <2>1, <3>1, <3>2 DEF NeedsWrite, TomlNeedsWrite
    <3>. QED  BY <3>3 DEF Scheduled
  <2>3. CASE f # g
    <3>1. inFlight'[f] = inFlight[f]
      BY <1>0, <2>1, <2>3 DEF TrackerTypeOK
    <3>2. In(f, outbox) => In(f, outbox')
      BY <1>0, <1>9, <2>3, SendList
    <3>. QED  BY <1>0, <2>1, <3>1, <3>2, ScheduleStands
  <2>. QED  BY <2>2, <2>3
<1>10. CASE Retry
  <2>1. /\ UNCHANGED <<mem, inFlight, ref, stopped, forbidden, autoForbidden, phase, quiet, deadline>>
        /\ dropped' = dropped \ alerts /\ ui = "idle"
    BY <1>10 DEF Retry, Idle, trackerVars
  <2>2. CASE f \in alerts
    <3>1. ~Banned(f) => In(f, outbox')
      BY <1>0, <1>10, <2>2, RetryList DEF Banned
    <3>2. Banned(f)' <=> Banned(f)
      BY <2>1 DEF Banned
    <3>. QED  BY <3>1, <3>2 DEF Scheduled, In, InOutbox
  <2>3. CASE f \notin alerts
    BY <1>0, <1>1, <2>1, <2>3, ScheduleStands
  <2>. QED  BY <2>2, <2>3
<1>11. CASE (\E t \in Texts : ExitBegin(t)) \/ ExitReply \/ ExitEnd
  <2>1. phase' # "running"
    BY <1>11 DEF ExitBegin, ExitReply, ExitEnd
  <2>. QED  BY <2>1 DEF Scheduled
<1>. QED  BY <1>2, <1>3, <1>4, <1>5, <1>6, <1>7, <1>8, <1>9, <1>10, <1>11 DEF Next, UserStep, HandlerStep

-----------------------------------------------------------------------------
(* The exit                                                                 *)

\* A file with nothing left to do stays as it was reported.
LEMMA SettledStands ==
  ASSUME NEW f \in File, Settled(f), report'[f] = report[f], Banned(f) => Banned(f)',
         Unchanging(f) => /\ UNCHANGED <<inFlight[f], ref[f], mem[f], stored[f], confirmed[f]>>
                          /\ In(f, outbox') => In(f, outbox)
  PROVE  Settled(f)'
<1>1. Unchanging(f) => Unchanging(f)'
  <2>1. InOutbox(f)' <=> In(f, outbox')
    BY DEF In, InOutbox
  <2>2. InOutbox(f) <=> In(f, outbox)
    BY DEF In, InOutbox
  <2>. QED  BY <2>1, <2>2 DEF Unchanging
<1>. QED  BY <1>1 DEF Settled, Unchanging

\* While the tracker waits for nothing of f the thread writes nothing to f.
LEMMA FileRests ==
  ASSUME IInv, Works, NEW f \in File, inFlight[f] = <<>>
  PROVE  UNCHANGED <<stored[f], confirmed[f]>>
<1>1. Ready /\ IdsIssued(f) /\ Mirror(f) /\ WriterInv
  BY InvReady DEF IInv, OnTheWay
<1>2. ~IsWrite(job, f)
  <2>1. Ids(inFlight[f]) = {}
    BY DEF Ids
  <2>. QED  BY <1>1, <2>1 DEF IdsIssued, Mirror, Unanswered
<1>3. stored \in [File -> Nat \cup {None}] /\ confirmed \in [File -> Nat \cup {None}]
  BY <1>1, StandFacts
<1>4. CASE JobReplaces
  BY <1>2, <1>3, <1>4 DEF JobReplaces, IsWrite
<1>5. CASE \E ok \in BOOLEAN : JobReturns(ok)
  BY <1>2, <1>3, <1>5 DEF JobReturns, IsWrite
<1>6. CASE AcceptWrite \/ AcceptOther \/ StartJob \/ JobFails
  BY <1>6 DEF AcceptWrite, AcceptOther, StartJob, JobFails, historyVars
<1>. QED  BY <1>1, <1>4, <1>5, <1>6, WorksCases

\* The exit begins: every file is to be sent, waited for or settled.
LEMMA ExitBegins ==
  ASSUME IInv, NEW t \in Texts, ExitBegin(t), NEW f \in File
  PROVE  Exit(f)'
<1>. USE StateFacts
<1>1. /\ phase' = "exiting" /\ UNCHANGED <<ref, forbidden, autoForbidden, inFlight>>
      /\ mem' = [mem EXCEPT !["state"] = t]
      /\ waiting'[f] = IF ~WrittenAtExit(f, mem') /\ inFlight[f] # <<>> THEN LastInFlight(f) ELSE None
      /\ report'[f] = IF WrittenAtExit(f, mem') \/ inFlight[f] # <<>> THEN "none"
                      ELSE IF BannedAtExit(f) THEN "forbidden" ELSE "unchanged"
  BY DEF ExitBegin, LastChange
<1>2. SendNext(outbox') /\ (In(f, outbox') <=> WrittenAtExit(f, mem'))
  BY ExitList
<1>3. ui' \in {"sending", "waiting"}
  BY <1>1, <1>2 DEF SendNext
<1>4. (InOutbox(f)' <=> WrittenAtExit(f, mem')) /\ (Banned(f)' <=> Banned(f)) /\ (BannedAtExit(f) <=> Banned(f))
  BY <1>1, <1>2 DEF InOutbox, In, Banned, BannedAtExit
<1>5. /\ WrittenAtExit(f, mem') => ~Banned(f)
      /\ ~WrittenAtExit(f, mem') /\ inFlight[f] # <<>> => (Last(inFlight[f]).text = mem'[f] \/ Banned(f))
      /\ ~WrittenAtExit(f, mem') /\ inFlight[f] = <<>> => (ref[f] = mem'[f] \/ Banned(f))
  <2>1. CASE f = "playlist"
    <3>1. mem'[f] = mem[f] /\ mem[f] \in Nat /\ ref[f] \in Nat /\ ChangesGrow
      BY <1>1, <2>1 DEF IInv, TrackerTypeOK
    <3>2. inFlight[f] # <<>> => LET x == Last(inFlight[f]).text
                                IN x \in Nat /\ ref[f] <= x /\ x <= mem[f]
      <4>1. SUFFICES ASSUME inFlight[f] # <<>>
                     PROVE  LET x == Last(inFlight[f]).text IN x \in Nat /\ ref[f] <= x /\ x <= mem[f]
        OBVIOUS
      <4>2. PICK q \in Seq(Snapshot) : q = inFlight[f]
        OBVIOUS
      <4>3. Len(q) \in DOMAIN q /\ Last(q) = q[Len(q)]
        BY <4>1, <4>2 DEF Last
      <4>4. q[Len(q)].text \in Nat
        BY <4>3, IdsFacts
      <4>. QED  BY <2>1, <3>1, <4>2, <4>3, <4>4 DEF ChangesGrow
    <3>3. ref[f] <= mem[f]
      BY <2>1, <3>1 DEF ChangesGrow
    <3>. QED  BY <2>1, <3>1, <3>2, <3>3 DEF WrittenAtExit, PlaylistDirty, Banned
  <2>2. CASE f # "playlist"
    BY <2>2 DEF WrittenAtExit, TomlNeedsWrite, Banned
  <2>. QED  BY <2>1, <2>2
<1>6. inFlight[f] # <<>> => LastInFlight(f) \in Nat
  <2>1. PICK q \in Seq(Snapshot) : q = inFlight[f]
    OBVIOUS
  <2>2. q # <<>> => Len(q) \in DOMAIN q /\ Last(q) = q[Len(q)]
    BY DEF Last
  <2>. QED  BY <2>1, <2>2, IdsFacts DEF LastInFlight
<1>7. inFlight[f] # <<>> => LastInFlight(f) # None
  BY <1>6 DEF None
<1>8. CASE WrittenAtExit(f, mem')
  BY <1>1, <1>3, <1>4, <1>5, <1>8 DEF Exit, ToSend
<1>9. CASE ~WrittenAtExit(f, mem') /\ inFlight[f] # <<>>
  <2>1. LastInFlight(f)' = LastInFlight(f)
    BY <1>1 DEF LastInFlight
  <2>2. Awaited(f)'
    BY <1>1, <1>4, <1>5, <1>7, <1>9, <2>1 DEF Awaited
  <2>. QED  BY <1>1, <1>3, <2>2 DEF Exit
<1>10. CASE ~WrittenAtExit(f, mem') /\ inFlight[f] = <<>>
  BY <1>1, <1>3, <1>4, <1>5, <1>10 DEF Exit, Settled, Unchanging
<1>. QED  BY <1>8, <1>9, <1>10

\* The exit takes an answer.
LEMMA ExitAnswered ==
  ASSUME IInv, ExitReply, NEW f \in File
  PROVE  Exit(f)'
<1>. USE StateFacts
<1>. DEFINE r == Head(replies)
            q == inFlight[f]
            settles == r.kind \in {"written", "failed"} /\ waiting[r.file] = r.id
<1>1. /\ phase = "exiting" /\ phase' = "exiting" /\ ui = "waiting" /\ ui' = ui /\ Takes
      /\ UNCHANGED <<mem, forbidden, autoForbidden, outbox, stored, confirmed>>
      /\ waiting' = IF settles THEN [waiting EXCEPT ![r.file] = None] ELSE waiting
      /\ report' = IF settles THEN [report EXCEPT ![r.file] = r.kind] ELSE report
  BY DEF ExitReply, Takes, TakeReply, historyVars
<1>2. /\ Ready /\ Exit(f) /\ ReferenceFollows(f) /\ Mirror(f) /\ outbox = <<>>
      /\ waiting \in [File -> Nat \cup {None}] /\ report \in [File -> Class]
  BY <1>1, InvReady DEF IInv, UiTypeOK, OnTheWay
<1>3. r \in Reply /\ r.file \in File /\ r = replies[1] /\ 1 \in DOMAIN replies /\ r.id \in Nat /\ r.id # None
  <2>1. r \in Reply /\ r.file \in File /\ r = replies[1] /\ 1 \in DOMAIN replies
    BY <1>1, <1>2, TakesEffect
  <2>2. r.id \in Nat
    BY <2>1 DEF Reply
  <2>. QED  BY <2>1, <2>2 DEF None
<1>4. ~InOutbox(f) /\ ~InOutbox(f)' /\ outbox' = outbox
  BY <1>1, <1>2 DEF InOutbox
<1>5. Banned(f)' <=> Banned(f)
  BY <1>1 DEF Banned
<1>6. Awaited(f) \/ (waiting[f] = None /\ Settled(f))
  BY <1>1, <1>2, <1>4 DEF Exit, ToSend
<1>7. CASE r.file # f \/ r.kind \notin AnswerKinds
  <2>1. UNCHANGED <<inFlight[f], ref[f], stopped[f]>>
    BY <1>1, <1>3, <1>7, NeedAfterReply
  <2>2. UNCHANGED <<waiting[f], report[f]>>
    BY <1>1, <1>2, <1>3, <1>7 DEF AnswerKinds
  <2>3. Settled(f) => Settled(f)'
    BY <1>1, <1>4, <1>5, <2>1, <2>2, SettledStands DEF In
  <2>4. Awaited(f) => Awaited(f)'
    BY <1>1, <1>4, <1>5, <2>1, <2>2 DEF Awaited, LastInFlight
  <2>. QED  BY <1>1, <1>4, <1>6, <2>2, <2>3, <2>4 DEF Exit
<1>8. CASE r.file = f /\ r.kind \in AnswerKinds
  <2>1. /\ q # <<>> /\ r.id = q[1].id /\ inFlight'[f] = Tail(q)
        /\ Tail(q) = <<>> => r.kind # "superseded" /\ Last(q) = q[1]
        /\ Tail(q) # <<>> => Last(inFlight'[f]) = Last(q)
        /\ r.kind = "written" => ref'[f] = q[1].text
    BY <1>1, <1>8, NeedAfterReply
  <2>2. q \in Seq(Snapshot) /\ OldestFirst(q)
    BY <1>2 DEF Mirror
  <2>3. Tail(q) # <<>> => Last(q).id # r.id
    <3>1. SUFFICES ASSUME Tail(q) # <<>>  PROVE Last(Tail(q)).id # q[1].id
      BY <2>1
    <3>2. PICK p \in Seq(Snapshot) : p = Tail(q)
      BY <2>1, <2>2, TailOfQueue
    <3>3. Len(p) \in DOMAIN p /\ Last(p) = p[Len(p)]
      BY <3>1, <3>2 DEF Last
    <3>4. Last(p).id \in Ids(p)
      BY <3>3 DEF Ids
    <3>. QED  BY <2>1, <2>2, <3>2, <3>4, TailOfQueue
  <2>4. ASSUME waiting[f] = None, Settled(f)
        PROVE  Exit(f)'
    <3>1. ~settles
      BY <1>3, <1>8, <2>4
    <3>2. UNCHANGED <<waiting[f], report[f]>>
      BY <1>1, <3>1
    <3>3. Settled(f)'
      BY <1>5, <2>1, <2>4, <3>2, SettledStands DEF Unchanging
    <3>. QED  BY <1>1, <1>4, <2>4, <3>2, <3>3 DEF Exit
  <2>5. ASSUME Awaited(f), settles
        PROVE  Exit(f)'
    <3>1. Tail(q) = <<>> /\ Last(q) = q[1]
      BY <1>8, <2>1, <2>3, <2>5 DEF Awaited, LastInFlight
    <3>2. waiting'[f] = None /\ report'[f] = r.kind
      BY <1>1, <1>2, <1>8, <2>5
    <3>3. CASE r.kind = "failed"
      BY <1>1, <1>4, <3>2, <3>3 DEF Exit, Settled
    <3>4. CASE r.kind = "written"
      <4>1. 1 \in Written(f)
        BY <1>2, <1>3, <1>8, <3>4, WrittenFacts, ReadyFacts
      <4>2. /\ r.id <= confirmed[f] /\ confirmed[f] <= stored[f]
            /\ stored[f] > r.id => stored[f] \in Ids(q)
        BY <1>2, <1>3, <4>1 DEF ReferenceFollows
      <4>3. Ids(q) = {r.id}
        <5>1. Ids(Tail(q)) = Ids(q) \ {r.id}
          BY <2>1, <2>2, TailOfQueue
        <5>2. Ids(Tail(q)) = {}
          BY <3>1 DEF Ids
        <5>3. r.id \in Ids(q)
          BY <2>1, <2>2 DEF Ids
        <5>. QED  BY <5>1, <5>2, <5>3
      <4>4. stored[f] = confirmed[f] /\ stored[f] # None
        BY <1>2, <1>3, <4>2, <4>3, StandFacts DEF None
      <4>5. Unchanging(f)'
        BY <1>1, <1>4, <1>5, <2>1, <2>5, <3>1, <3>4 DEF Unchanging, Awaited
      <4>. QED  BY <1>1, <1>4, <3>2, <3>4, <4>4, <4>5 DEF Exit, Settled
    <3>. QED  BY <2>5, <3>3, <3>4
  <2>6. ASSUME Awaited(f), ~settles
        PROVE  Exit(f)'
    <3>1. UNCHANGED <<waiting[f], report[f]>>
      BY <1>1, <2>6
    <3>2. Tail(q) # <<>>
      BY <1>8, <2>1, <2>6 DEF Awaited, LastInFlight, AnswerKinds
    <3>3. Awaited(f)'
      BY <1>1, <1>4, <1>5, <2>1, <2>6, <3>1, <3>2 DEF Awaited, LastInFlight
    <3>. QED  BY <1>1, <3>3 DEF Exit
  <2>. QED  BY <1>6, <2>4, <2>5, <2>6
<1>. QED  BY <1>7, <1>8

\* What is appended is last.
LEMMA LastOfAppend ==
  ASSUME NEW S, NEW q \in Seq(S), NEW s \in S
  PROVE  Append(q, s) # <<>> /\ Last(Append(q, s)) = s
BY DEF Last

\* The exit sends one of the files it lists.
LEMMA ExitSends ==
  ASSUME IInv, SendOne, phase = "exiting", NEW f \in File
  PROVE  Exit(f)'
<1>. USE StateFacts
<1>1. PICK g \in File : g = Head(outbox)
  BY NextToSend DEF SendOne
<1>2. PICK s \in Snapshot : s = [id |-> nextId, text |-> mem[g]]
  BY DEF Snapshot
<1>3. /\ UNCHANGED <<mem, ref, forbidden, autoForbidden, report, stored, confirmed>>
      /\ phase' = "exiting" /\ nextId \in Nat
      /\ inFlight' = [inFlight EXCEPT ![g] = Append(@, s)]
      /\ waiting' = [waiting EXCEPT ![g] = nextId]
  BY <1>1, <1>2 DEF SendOne, SendSnapshot, Sent, historyVars
<1>4. /\ Exit(f) /\ inFlight \in [File -> Seq(Snapshot)]
      /\ waiting \in [File -> Nat \cup {None}]
  BY DEF IInv, TrackerTypeOK, UiTypeOK
<1>5. SendNext(outbox') /\ (In(f, outbox') <=> (In(f, outbox) /\ f # g))
  BY <1>1, SendList
<1>6. ui' \in {"sending", "waiting"}
  BY <1>3, <1>5 DEF SendNext
<1>7. (Banned(f)' <=> Banned(f)) /\ (InOutbox(f) <=> In(f, outbox)) /\ (InOutbox(f)' <=> In(f, outbox'))
  BY <1>3 DEF Banned, InOutbox, In
<1>8. CASE f = g
  <2>1. In(f, outbox)
    BY <1>1, <1>7, <1>8, NextToSend DEF SendOne
  <2>2. ToSend(f)
    BY <1>4, <1>7, <2>1 DEF Exit, Awaited
  <2>3. PICK q \in Seq(Snapshot) : q = inFlight[f]
    OBVIOUS
  <2>4. inFlight'[f] = Append(q, s) /\ waiting'[f] = nextId
    BY <1>3, <1>4, <1>8, <2>3
  <2>5. Append(q, s) # <<>> /\ Last(Append(q, s)) = s
    BY LastOfAppend, Zenon
  <2>6. s.id = nextId /\ s.text = mem[f] /\ nextId # None
    BY <1>2, <1>8 DEF None
  <2>7. Awaited(f)'
    BY <1>3, <1>5, <1>7, <1>8, <2>2, <2>4, <2>5, <2>6 DEF Awaited, ToSend, LastInFlight
  <2>. QED  BY <1>3, <1>6, <2>7 DEF Exit
<1>9. CASE f # g
  <2>1. inFlight'[f] = inFlight[f] /\ waiting'[f] = waiting[f] /\ (InOutbox(f)' <=> InOutbox(f))
    BY <1>3, <1>4, <1>5, <1>7, <1>9
  <2>2. Settled(f) => Settled(f)'
    BY <1>3, <1>5, <1>7, <2>1, SettledStands
  <2>3. (Awaited(f) => Awaited(f)') /\ (ToSend(f) => ToSend(f)')
    BY <1>3, <1>7, <2>1 DEF Awaited, ToSend, LastInFlight
  <2>. QED  BY <1>3, <1>4, <1>6, <2>1, <2>2, <2>3 DEF Exit
<1>. QED  BY <1>8, <1>9

\* The exit ends: what is not answered has timed out.
LEMMA ExitIsOver ==
  ASSUME IInv, ExitEnd, NEW f \in File
  PROVE  Exit(f)'
<1>1. /\ phase = "exiting" /\ phase' = "done" /\ ui = "waiting"
      /\ UNCHANGED <<mem, ref, inFlight, forbidden, autoForbidden, outbox, stored, confirmed>>
      /\ report'[f] = IF waiting[f] # None THEN "timed_out" ELSE report[f]
  BY DEF ExitEnd, writerVars, trackerVars
<1>2. Exit(f) /\ outbox = <<>>
  BY <1>1 DEF IInv, UiTypeOK
<1>3. Banned(f)' <=> Banned(f)
  BY <1>1 DEF Banned
<1>4. CASE waiting[f] # None
  BY <1>1, <1>4 DEF Exit, Settled
<1>5. CASE waiting[f] = None
  <2>1. Settled(f)
    BY <1>1, <1>2, <1>5 DEF Exit, ToSend, Awaited, InOutbox
  <2>2. Settled(f)'
    BY <1>1, <1>3, <1>5, <2>1, SettledStands
  <2>. QED  BY <1>1, <2>2 DEF Exit
<1>. QED  BY <1>4, <1>5

\* The thread goes on during the exit and after it.
LEMMA ExitWorks ==
  ASSUME IInv, WriterStep, NEW f \in File
  PROVE  Exit(f)'
<1>1. /\ Works /\ Exit(f)
      /\ UNCHANGED <<mem, ref, inFlight, forbidden, autoForbidden, outbox, phase, ui, waiting, report>>
  BY DEF WriterStep, Works, trackerVars, uiVars, IInv
<1>2. Banned(f)' <=> Banned(f)
  BY <1>1 DEF Banned
<1>3. Settled(f) => Settled(f)'
  BY <1>1, <1>2, FileRests, SettledStands DEF Unchanging
<1>4. (Awaited(f) => Awaited(f)') /\ (ToSend(f) => ToSend(f)') /\ (InOutbox(f)' <=> InOutbox(f))
  BY <1>1, <1>2 DEF Awaited, ToSend, LastInFlight, InOutbox
<1>. QED  BY <1>1, <1>3, <1>4 DEF Exit

\* After the exit nothing is done to a file that was settled.
LEMMA ExitRests ==
  ASSUME IInv, phase = "done", NEW f \in File,
         TickBegin \/ TickReply \/ TickEnd \/ SendOne \/ Elapse
  PROVE  Exit(f)'
<1>. USE StateFacts
<1>0. phase = "done" /\ (forbidden' = forbidden => (forbidden => forbidden'))
  OBVIOUS
<1>1. /\ phase' = "done" /\ UNCHANGED <<mem, report, autoForbidden, stored, confirmed>>
      /\ forbidden => forbidden'
  <2>1. CASE TickReply
    BY <2>1 DEF TickReply, TakeReply, historyVars
  <2>2. CASE TickBegin \/ TickEnd \/ Elapse
    BY <1>0, <2>2, Zenon DEF TickBegin, TickEnd, Elapse, writerVars, trackerVars, uiVars
  <2>3. CASE SendOne
    BY <2>3 DEF SendOne, SendSnapshot
  <2>. QED  BY <2>1, <2>2, <2>3
<1>2. Settled(f) /\ inFlight \in [File -> Seq(Snapshot)]
  BY DEF IInv, Exit, TrackerTypeOK
<1>3. Banned(f) => Banned(f)'
  BY <1>1 DEF Banned
<1>4. SUFFICES ASSUME Unchanging(f)
               PROVE  UNCHANGED <<inFlight[f], ref[f]>> /\ (In(f, outbox') => In(f, outbox))
  BY <1>1, <1>2, <1>3, SettledStands DEF Exit
<1>5. CASE TickBegin \/ Elapse
  BY <1>5 DEF TickBegin, Elapse, trackerVars, uiVars
<1>6. CASE TickReply
  <2>1. Takes /\ mem' = mem /\ outbox' = outbox
    BY <1>6 DEF TickReply, Takes
  <2>. QED  BY <1>4, <2>1, NeedAfterReply DEF Unchanging
<1>7. CASE TickEnd
  <2>1. UNCHANGED <<inFlight, ref>>
    BY <1>7 DEF TickEnd
  <2>2. f = "state" => ~DueState
    BY <1>4 DEF Unchanging, DueState, Banned, TomlNeedsWrite
  <2>3. f = "playlist" => ~DuePlaylist
    BY <1>4 DEF Unchanging, DuePlaylist, PlaylistWritable, Banned, PlaylistDirty
  <2>. QED  BY <1>7, <2>1, <2>2, <2>3, TickList
<1>8. CASE SendOne
  <2>1. /\ Head(outbox) \in File /\ In(Head(outbox), outbox)
        /\ UNCHANGED ref /\ inFlight' = [inFlight EXCEPT ![Head(outbox)] = Append(@, [id |-> nextId, text |-> mem[Head(outbox)]])]
    BY <1>8, NextToSend DEF SendOne, Sent, In, InOutbox
  <2>2. f # Head(outbox)
    BY <1>4, <2>1 DEF Unchanging, In, InOutbox
  <2>3. In(f, outbox') => In(f, outbox)
    BY <1>8, SendList
  <2>. QED  BY <1>2, <2>1, <2>2, <2>3
<1>. QED  BY <1>5, <1>6, <1>7, <1>8

\* What the exit says of f, and waits for, stays right.
LEMMA ExitKept ==
  ASSUME IInv, Next, NEW f \in File
  PROVE  Exit(f)'
<1>1. phase \in {"running", "exiting", "done"} /\ (phase = "exiting" => ui \in {"sending", "waiting"})
  <2>1. Exit(f) /\ UiTypeOK
    BY DEF IInv
  <2>. QED  BY <2>1 DEF Exit, UiTypeOK
<1>2. CASE UserStep(File)
  <2>1. CASE \E t \in Texts : ExitBegin(t)
    BY <2>1, ExitBegins
  <2>2. CASE ~\E t \in Texts : ExitBegin(t)
    <3>1. phase' = "running"
      BY <1>2, <2>2 DEF UserStep, ChangeState, PlaylistChanged, SaveSettings, ExportPlaylist, Retry,
                        DismissErrors, Idle
    <3>. QED  BY <3>1 DEF Exit
  <2>. QED  BY <2>1, <2>2
<1>3. CASE TickLoad
  BY <1>3 DEF TickLoad, Idle, Exit
<1>4. CASE ExitReply
  BY <1>4, ExitAnswered
<1>5. CASE ExitEnd
  BY <1>5, ExitIsOver
<1>6. CASE WriterStep
  BY <1>6, ExitWorks
<1>7. CASE TickBegin \/ TickReply \/ TickEnd \/ SendOne \/ Elapse
  <2>1. phase' = phase
    BY <1>7 DEF TickBegin, TickReply, TickEnd, SendOne, Elapse, uiVars
  <2>2. CASE phase = "running"
    BY <2>1, <2>2 DEF Exit
  <2>3. CASE phase = "done"
    BY <1>7, <2>3, ExitRests
  <2>4. CASE phase = "exiting"
    <3>1. SendOne
      BY <1>1, <1>7, <2>4 DEF TickBegin, TickReply, TickEnd, Elapse
    <3>. QED  BY <2>4, <3>1, ExitSends
  <2>. QED  BY <1>1, <2>2, <2>3, <2>4
<1>. QED  BY <1>2, <1>3, <1>4, <1>5, <1>6, <1>7 DEF Next, HandlerStep

-----------------------------------------------------------------------------
(* The inductive invariant                                                  *)

\* It holds in the types and the writer at the start.
LEMMA StartOfTypes == Init => WriterInv /\ TrackerTypeOK /\ UiTypeOK /\ Alive /\ QuarantineIsPlaylist
<1>. SUFFICES ASSUME Init
              PROVE  WriterInv /\ TrackerTypeOK /\ UiTypeOK /\ Alive /\ QuarantineIsPlaylist
  OBVIOUS
<1>1. WriterInv
  BY ClientAtStart, TypeInit, OrderInit DEF WriterInv
<1>2. PICK b \in [File -> Found], n \in Intervals, d \in BOOLEAN :
        /\ boot = b
        /\ WriterInit(StartCommands(b), StartDisk(b), d)
        /\ TrackerInit(StartRef(b), n, {f \in Toml : b[f] = "unreadable"})
        /\ ui = "idle" /\ outbox = <<>> /\ phase = "running"
        /\ waiting = [f \in File |-> None]
        /\ report = [f \in File |-> "none"]
        /\ alerts = {} /\ load = "loading"
        /\ dropped = {} /\ quiet = TRUE /\ saved = {}
  BY DEF Init
<1>3. TrackerTypeOK
  <2>1. /\ mem = [f \in File |-> 0] /\ interval = n /\ deadline = None /\ ref = StartRef(b)
        /\ stopped = [f \in File |-> FALSE] /\ forbidden = FALSE /\ inFlight = [f \in File |-> <<>>]
    BY <1>2 DEF TrackerInit
  <2>2. ref \in [File -> Nat \cup {None}] /\ ref["playlist"] \in Nat
    BY <2>1 DEF StartRef, File
  <2>3. <<>> \in Seq(Snapshot)
    OBVIOUS
  <2>4. n \in Nat \ {0}
    BY TrackerAssumption
  <2>. QED  BY <2>1, <2>2, <2>3, <2>4 DEF TrackerTypeOK
<1>4. UiTypeOK
  <2>1. <<>> \in Seq(File) /\ DOMAIN <<>> = {}
    OBVIOUS
  <2>2. waiting \in [File -> Nat \cup {None}] /\ report \in [File -> Class]
    BY <1>2 DEF Class
  <2>. QED  BY <1>2, <2>1, <2>2 DEF UiTypeOK
<1>5. \A k \in DOMAIN cmds : cmds[k].kind = "badcopy"
  BY <1>2, StartCopies DEF WriterInit
<1>6. Alive
  BY <1>2, <1>5 DEF Alive, WriterInit, NoJob
<1>7. QuarantineIsPlaylist
  BY <1>2, <1>5 DEF QuarantineIsPlaylist, WriterInit, NoJob
<1>. QED  BY <1>1, <1>3, <1>4, <1>6, <1>7

\* And in each file.
LEMMA StartOfFile ==
  ASSUME Init, NEW f \in File
  PROVE  /\ OnTheWay(f) /\ TextsAgree(f) /\ ReferenceFollows(f)
         /\ RescueFirst(f) /\ OriginalStays(f) /\ Exit(f)
<1>2. PICK b \in [File -> Found], n \in Intervals, d \in BOOLEAN :
        /\ boot = b /\ phase = "running" /\ load = "loading"
        /\ WriterInit(StartCommands(b), StartDisk(b), d)
        /\ TrackerInit(StartRef(b), n, {g \in Toml : b[g] = "unreadable"})
  BY DEF Init
<1>3. /\ inFlight[f] = <<>> /\ replies = <<>> /\ order = <<>> /\ job = NoJob
      /\ slots[f] = Empty /\ issued[f] = {} /\ stored[f] = None /\ confirmed[f] = None
      /\ tried[f] = None /\ rescued = {} /\ nextId = 0 /\ at = "accept" /\ dead = d
      /\ ref[f] = StartRef(boot)[f] /\ disk[f] = StartDisk(boot)[f]
      /\ cmds = IF d THEN <<>> ELSE StartCommands(b)
  BY <1>2 DEF WriterInit, TrackerInit
<1>4. \A k \in DOMAIN cmds : /\ cmds[k].kind = "badcopy" /\ cmds[k].file \in Toml
                             /\ boot[cmds[k].file] = "damaged"
  BY <1>2, <1>3, StartCopies
<1>5. ~IsWrite(job, f) /\ ~IsRescue(job, f) /\ job.kind = "none" /\ \A k \in DOMAIN cmds : ~IsWrite(cmds[k], f)
  BY <1>3, <1>4 DEF IsWrite, IsRescue, NoJob
<1>6. Answers(f) = {} /\ Unanswered(f) = {} /\ Ids(inFlight[f]) = {} /\ Written(f) = {}
  BY <1>3 DEF Answers, Unanswered, Ids, Written
<1>7. OnTheWay(f)
  <2>1. IdsIssued(f) /\ NewerFollows(f) /\ Mirror(f)
    BY <1>3, <1>5, <1>6 DEF IdsIssued, NewerFollows, Mirror, OldestFirst, None
  <2>2. NewestIsTaken(f)
    BY <1>3, <1>5 DEF NewestIsTaken, Queued
  <2>. QED  BY <2>1, <2>2 DEF OnTheWay
<1>8. TextsAgree(f)
  BY <1>3 DEF TextsAgree
<1>9. ReferenceFollows(f)
  BY <1>3, <1>5, <1>6 DEF ReferenceFollows, None
<1>10. OriginalStays(f) /\ Exit(f)
  BY <1>2, <1>3 DEF OriginalStays, Exit
<1>11. RescueFirst(f)
  <2>1. IsRescue(job, f) = FALSE /\ DOMAIN order = {}
    BY <1>3, <1>5
  <2>2. \A k \in DOMAIN cmds : IsRescue(cmds[k], f) => boot[f] = "damaged"
    BY <1>4 DEF IsRescue
  <2>3. boot[f] = "damaged" => \/ dead
                               \/ f = "playlist" /\ load = "loading"
                               \/ \E k \in DOMAIN cmds : IsRescue(cmds[k], f)
    <3>1. f \in Toml \/ f = "playlist"
      BY DEF File, Toml
    <3>2. CASE f = "playlist"
      BY <1>2, <3>2
    <3>3. CASE f \in Toml
      BY <1>2, <1>3, <3>3, StartCopies DEF IsRescue
    <3>. QED  BY <3>1, <3>2, <3>3
  <2>. QED  BY <1>3, <1>5, <2>1, <2>2, <2>3 DEF RescueFirst
<1>. QED  BY <1>7, <1>8, <1>9, <1>10, <1>11

\* The inductive invariant holds at the start.
LEMMA InvAtStart == Init => IInv
<1>. SUFFICES ASSUME Init  PROVE IInv
  OBVIOUS
<1>1. PICK b \in [File -> Found], n \in Intervals, d \in BOOLEAN :
        /\ boot = b /\ phase = "running" /\ load = "loading" /\ quiet = TRUE /\ outbox = <<>> /\ alerts = {}
        /\ WriterInit(StartCommands(b), StartDisk(b), d)
        /\ TrackerInit(StartRef(b), n, {g \in Toml : b[g] = "unreadable"})
  BY DEF Init
<1>2. /\ \A f \in File : issued[f] = {} /\ inFlight[f] = <<>> /\ mem[f] = 0
      /\ order = <<>> /\ job = NoJob /\ "playlist" \in File /\ ref["playlist"] = 0
      /\ autoForbidden = {f \in Toml : boot[f] = "unreadable"}
      /\ cmds = IF d THEN <<>> ELSE StartCommands(b)
  BY <1>1 DEF WriterInit, TrackerInit, StartRef, File
<1>3. Bans
  <2>1. \A k \in DOMAIN cmds : ~IsRescue(cmds[k], "playlist")
    BY <1>1, <1>2, StartCopies DEF IsRescue, Toml
  <2>2. ~IsRescue(job, "playlist")
    BY <1>2 DEF IsRescue, NoJob
  <2>. QED  BY <1>1, <1>2, <2>1, <2>2 DEF Bans
<1>4. ChangesGrow
  BY <1>2 DEF ChangesGrow
<1>5. Scheduled("state") /\ Scheduled("playlist")
  BY <1>1, <1>2 DEF Scheduled, NeedsWrite, TomlNeedsWrite
<1>. QED  BY <1>3, <1>4, <1>5, StartOfTypes, StartOfFile DEF IInv

\* A step that touches neither the channels nor the queues in flight.
LEMMA ChannelsStand ==
  ASSUME UNCHANGED <<writerVars, inFlight, ref, boot>>, NEW f \in File,
         OnTheWay(f), TextsAgree(f), ReferenceFollows(f)
  PROVE  (OnTheWay(f) /\ TextsAgree(f) /\ ReferenceFollows(f))'
<1>1. UNCHANGED <<cmds, replies, slots, job, dead, at, nextId, issued, stored, confirmed, tried, disk, inFlight, ref, boot>>
  BY DEF writerVars
<1>2. UNCHANGED <<Answers(f), Unanswered(f), Ids(inFlight[f]), Written(f)>>
  BY <1>1 DEF Answers, Unanswered, Ids, Written
<1>3. OnTheWay(f)'
  BY <1>1, <1>2 DEF OnTheWay, IdsIssued, NewestIsTaken, NewerFollows, Mirror, OldestFirst, Queued
<1>4. TextsAgree(f)'
  BY <1>1 DEF TextsAgree
<1>5. ReferenceFollows(f)'
  BY <1>1, <1>2 DEF ReferenceFollows
<1>. QED  BY <1>3, <1>4, <1>5

\* Every kind of step keeps each file in step with the writer.
LEMMA FileKept ==
  ASSUME IInv, StepKind, NEW f \in File
  PROVE  (OnTheWay(f) /\ TextsAgree(f) /\ ReferenceFollows(f) /\ RescueFirst(f) /\ OriginalStays(f))'
<1>1. /\ Ready /\ OnTheWay(f) /\ TextsAgree(f) /\ ReferenceFollows(f) /\ RescueFirst(f)
      /\ OriginalStays(f) /\ QuarantineIsPlaylist /\ ChangesGrow /\ Bans
  BY InvReady DEF IInv
<1>2. RescueFirst(f)' /\ OriginalStays(f)'
  BY <1>1, RescueKept, OriginalKept
<1>3. ASSUME NEW g \in File, Sending(g)
      PROVE  (OnTheWay(f) /\ TextsAgree(f) /\ ReferenceFollows(f))'
  <2>1. Sends(g) /\ UNCHANGED <<ref, boot>>
    BY <1>3 DEF Sending
  <2>. QED  BY <1>1, <2>1, OnTheWayKept, TextsKept, ReferenceSends
<1>4. CASE Taking
  <2>1. Takes /\ boot' = boot
    BY <1>4 DEF Taking
  <2>. QED  BY <1>1, <1>2, <2>1, OnTheWayKept, TextsKept, ReferenceTaken
<1>5. CASE Working
  <2>1. Works /\ boot' = boot
    BY <1>5 DEF Working
  <2>. QED  BY <1>1, <1>2, <2>1, OnTheWayKept, TextsKept, ReferenceWorks
<1>6. CASE Exporting \/ Quarantining
  <2>1. SendsOther /\ UNCHANGED <<ref, boot>>
    BY <1>6 DEF Exporting, Quarantining, SendsOther
  <2>. QED  BY <1>1, <1>2, <2>1, OnTheWayKept, TextsKept, ReferenceSends
<1>7. CASE Noting
  BY <1>1, <1>2, <1>7, ChannelsStand DEF Noting
<1>. QED  BY <1>2, <1>3, <1>4, <1>5, <1>6, <1>7 DEF StepKind

\* A step of the program keeps the inductive invariant.
LEMMA InvNext ==
  ASSUME IInv, Next
  PROVE  IInv'
<1>1. StepKind /\ Ready /\ WriterInv /\ ChangesGrow /\ QuarantineIsPlaylist
  BY KindOfStep, InvReady DEF IInv
<1>2. WriterInv'
  BY <1>1, ClientOfWriter, TypeStep, IdsStep, JobsStep, OrderStep DEF WriterInv
<1>3. TrackerTypeOK' /\ UiTypeOK' /\ Bans'
  BY TrackerTypeKept, UiTypeKept, BansKept
<1>4. Alive' /\ ChangesGrow' /\ QuarantineIsPlaylist'
  BY <1>1, AliveKept, ChangesKept, QuarantineKept
<1>5. \A f \in File : (OnTheWay(f) /\ TextsAgree(f) /\ ReferenceFollows(f) /\ RescueFirst(f)
                       /\ OriginalStays(f) /\ Exit(f))'
  BY <1>1, FileKept, ExitKept
<1>6. Scheduled("state")' /\ Scheduled("playlist")'
  BY ScheduledKept
<1>. QED  BY <1>2, <1>3, <1>4, <1>5, <1>6 DEF IInv

\* So does a step of its surroundings.
LEMMA InvStands ==
  ASSUME IInv, UNCHANGED vars
  PROVE  IInv'
<1>1. /\ UNCHANGED <<writerVars, trackerVars, uiVars>>
      /\ WriterInv /\ Alive /\ QuarantineIsPlaylist /\ StepKind
  BY DEF vars, IInv, StepKind, Noting, trackerVars, uiVars, TrackerTypeOK, File
<1>2. WriterInv'
  BY <1>1, TypeStep, IdsStep, JobsStep, OrderStep DEF WriterInv
<1>3. TrackerTypeOK' /\ UiTypeOK'
  BY <1>1 DEF IInv, TrackerTypeOK, UiTypeOK, trackerVars, uiVars
<1>4. Alive' /\ ChangesGrow' /\ QuarantineIsPlaylist'
  BY <1>1, InvReady, AliveKept, ChangesKept, QuarantineKept DEF IInv
<1>5. Bans'
  BY <1>1 DEF IInv, Bans, NotWritten, writerVars, trackerVars, uiVars
<1>6. \A f \in File : Exit(f)'
  BY <1>1 DEF IInv, Exit, ToSend, Awaited, Settled, Unchanging, InOutbox, Banned, LastInFlight,
              writerVars, trackerVars, uiVars
<1>7. Scheduled("state")' /\ Scheduled("playlist")'
  BY <1>1 DEF IInv, Scheduled, NeedsWrite, TomlNeedsWrite, Banned, InOutbox, trackerVars, uiVars
<1>. QED  BY <1>1, <1>2, <1>3, <1>4, <1>5, <1>6, <1>7, FileKept DEF IInv

\* The writer, the tracker and the disk stay in step for ever: the invariant
\* the theorems below are read off.
THEOREM PersistInvariant == Spec => []IInv
<1>1. IInv /\ [Next]_vars => IInv'
  BY InvNext, InvStands
<1>. QED  BY <1>1, InvAtStart, PTL DEF Spec

-----------------------------------------------------------------------------
(* What follows                                                             *)

\* AppCore, its tracker and its exit use the writer as one of the clients that
\* module WriterClient allows, so what is shown of the thread there holds here.
THEOREM PersistIsClient == Spec => ClientSpec
<1>1. IInv /\ [Next]_vars => [ClientNext]_writerVars
  <2>1. ASSUME IInv, Next  PROVE [ClientNext]_writerVars
    BY <2>1, KindOfStep, ClientOfWriter
  <2>2. ASSUME UNCHANGED vars  PROVE [ClientNext]_writerVars
    BY <2>2 DEF vars
  <2>. QED  BY <2>1, <2>2
<1>. QED  BY <1>1, ClientAtStart, PersistInvariant, PTL DEF Spec, ClientSpec

\* So the working files of a session behave as files to which snapshots are
\* written in the order of their ids (SavedFiles).
THEOREM SessionImplementsSavedFiles == Spec => ImplementsSavedFiles
BY PersistIsClient, WriterImplementsSavedFiles, PTL

\* The tracker's in_flight is what the writer has still to answer or has
\* answered unseen, in the order of the answers; and with nothing in flight the
\* job that ran last had the newest snapshot (run_writer's slots and order).
THEOREM TrackerMirrorsWriter == Spec => []InFlightMirrorsWriter
<1>1. IInv => InFlightMirrorsWriter
  <2>. SUFFICES ASSUME IInv, NEW f \in File
                PROVE  /\ Mirror(f)
                       /\ ~dead /\ inFlight[f] = <<>> => \A i \in issued[f] : i <= tried[f]
    BY DEF InFlightMirrorsWriter, Mirror
  <2>1. Mirror(f) /\ NewestIsTaken(f) /\ IdsIssued(f) /\ Ready
    BY InvReady DEF IInv, OnTheWay
  <2>2. SUFFICES ASSUME ~dead, inFlight[f] = <<>>, NEW i \in issued[f], ~(i <= tried[f])
                 PROVE  FALSE
    BY <2>1
  <2>3. PICK j \in Nat : Queued(f, j) /\ i <= j
    BY <2>1, <2>2 DEF NewestIsTaken
  <2>4. j \in issued[f]
    <3>1. /\ slots[f] # Empty => slots[f].id \in issued[f]
          /\ \A k \in DOMAIN cmds : IsWrite(cmds[k], f) => cmds[k].id \in issued[f]
      BY <2>1 DEF Ready, WriterInv, WritesInOrder, SlotInOrder, ChannelInOrder
    <3>. QED  BY <2>3, <3>1 DEF Queued
  <2>5. j \in Unanswered(f)
    BY <2>3, <2>4 DEF Unanswered, Queued
  <2>6. Ids(inFlight[f]) = {}
    BY <2>2 DEF Ids
  <2>. QED  BY <2>1, <2>5, <2>6 DEF Mirror
<1>. QED  BY <1>1, PersistInvariant, PTL

\* With nothing in flight there are no answers to come.
LEMMA NothingUnseen ==
  ASSUME NEW f \in File, Mirror(f), inFlight[f] = <<>>
  PROVE  Answers(f) = {} /\ Unanswered(f) = {}
<1>1. Ids(inFlight[f]) = {}
  BY DEF Ids
<1>. QED  BY <1>1, Zenon DEF Mirror

\* With nothing in flight the reference is what the file holds (on_written and
\* toml_needs_write decide rightly whether to write).
THEOREM ReferenceIsRight == Spec => []ReferenceIsDisk
<1>1. IInv => ReferenceIsDisk
  <2>. SUFFICES ASSUME IInv, NEW f \in File, inFlight[f] = <<>>, stored[f] # None, stored[f] = confirmed[f]
                PROVE  disk[f] = ref[f]
    BY DEF ReferenceIsDisk
  <2>1. Mirror(f) /\ ReferenceFollows(f)
    BY DEF IInv, OnTheWay
  <2>2. Answers(f) = {}
    BY <2>1, NothingUnseen
  <2>. QED  BY <2>1, <2>2 DEF ReferenceFollows, Written
<1>. QED  BY <1>1, PersistInvariant, PTL

\* No change is forgotten by the timer: while one waits the deadline runs
\* (poll_deadline and the due files of a tick).
THEOREM NoChangeIsForgotten == Spec => []DifferenceIsScheduled
<1>1. IInv => DifferenceIsScheduled
  <2>. SUFFICES ASSUME IInv, NEW f \in {"state", "playlist"}, Unsaved(f), f \notin dropped
                PROVE  deadline # None
    BY DEF DifferenceIsScheduled
  <2>1. Scheduled(f) /\ UiTypeOK
    BY DEF IInv
  <2>2. outbox = <<>> /\ phase = "running"
    BY <2>1 DEF Unsaved, Idle, UiTypeOK
  <2>3. NeedsWrite(f)
    BY DEF Unsaved, NeedsWrite, TomlNeedsWrite
  <2>. QED  BY <2>1, <2>2, <2>3 DEF Scheduled, Unsaved, InOutbox
<1>. QED  BY <1>1, PersistInvariant, PTL

\* A file that was not read at start is never written, except the settings
\* once the user saved them or, which И-Р20 rules out, the engine's choice of a
\* device was saved; a damaged one only after its copy or its move to
\* <name>.bad was tried.
THEOREM NoOriginalIsLost == Spec => []OriginalsKept
<1>1. IInv => OriginalsKept
  <2>. SUFFICES ASSUME IInv, NEW f \in File, disk[f] # Original
                PROVE  /\ boot[f] = "unreadable" => f = "settings" /\ ("user" \in saved \/ DeviceSaved)
                       /\ boot[f] = "damaged" => f \in rescued
    BY DEF OriginalsKept
  <2>1. OriginalStays(f) /\ RescueFirst(f) /\ Bans /\ IdsIssued(f)
    BY DEF IInv, OnTheWay
  <2>2. boot[f] \in {"unreadable", "damaged"} => StartDisk(boot)[f] = Original
    BY DEF StartDisk
  <2>3. ASSUME boot[f] = "damaged", f \notin rescued
        PROVE  FALSE
    BY <2>1, <2>2, <2>3 DEF RescueFirst, OriginalStays
  <2>4. ASSUME boot[f] = "unreadable", ~(f = "settings" /\ ("user" \in saved \/ DeviceSaved))
        PROVE  FALSE
    <3>0. saved \subseteq Savers
      BY DEF IInv, UiTypeOK
    <3>2. NotWritten(f)
      BY <2>4, <3>0 DEF NotWritten, DeviceSaved, Savers
    <3>1. stored[f] = None
      BY <2>1, <3>2 DEF Bans, IdsIssued
    <3>. QED  BY <2>1, <2>2, <2>4, <3>1 DEF OriginalStays
  <2>. QED  BY <2>3, <2>4
<1>. QED  BY <1>1, PersistInvariant, PTL

\* What the exit reports of each file is true (classify_unsent and the wait of
\* AppCore::exit).
THEOREM ExitTellsTheTruth == Spec => []ExitReportIsTrue
<1>1. IInv => ExitReportIsTrue
  <2>. SUFFICES ASSUME IInv, phase = "done", NEW f \in File
                PROVE  /\ report[f] # "none"
                       /\ report[f] = "written" => /\ stored[f] = confirmed[f]
                                                   /\ disk[f] = mem[f] \/ Banned(f)
                       /\ report[f] = "unchanged" => \/ disk[f] = mem[f]
                                                     \/ stored[f] # confirmed[f]
                                                     \/ f = "playlist" /\ mem[f] = 0
                       /\ report[f] = "forbidden" => Banned(f)
    BY DEF ExitReportIsTrue
  <2>1. Settled(f) /\ Mirror(f) /\ ReferenceFollows(f) /\ OriginalStays(f) /\ mem[f] \in Nat
    BY DEF IInv, Exit, OnTheWay, TrackerTypeOK
  <2>2. inFlight[f] = <<>> => Written(f) = {}
    BY <2>1, NothingUnseen DEF Written
  <2>3. CASE report[f] = "written"
    BY <2>1, <2>2, <2>3 DEF Settled, Unchanging, ReferenceFollows
  <2>4. CASE report[f] = "unchanged"
    <3>1. inFlight[f] = <<>> /\ ref[f] = mem[f]
      BY <2>1, <2>4 DEF Settled, Unchanging
    <3>2. CASE confirmed[f] # None
      BY <2>1, <2>2, <2>4, <3>1, <3>2 DEF ReferenceFollows
    <3>3. CASE confirmed[f] = None /\ stored[f] = None
      <4>1. ref[f] = StartRef(boot)[f]
        BY <2>1, <3>3 DEF ReferenceFollows
      <4>2. f = "playlist" => mem[f] = 0
        BY <3>1, <4>1 DEF StartRef
      <4>3. f # "playlist" => disk[f] = mem[f]
        <5>1. f # "playlist" => boot[f] = "ok" /\ mem[f] = 0
          BY <2>1, <3>1, <4>1 DEF StartRef, None
        <5>2. f # "playlist" => disk[f] = StartDisk(boot)[f]
          BY <2>1, <3>3 DEF OriginalStays
        <5>. QED  BY <5>1, <5>2 DEF StartDisk
      <4>. QED  BY <2>4, <4>2, <4>3
    <3>4. CASE confirmed[f] = None /\ stored[f] # None
      BY <2>4, <3>4
    <3>. QED  BY <3>2, <3>3, <3>4
  <2>5. CASE report[f] \in {"forbidden", "failed", "timed_out"}
    BY <2>1, <2>5 DEF Settled
  <2>. QED  BY <2>1, <2>3, <2>4, <2>5 DEF Settled
<1>. QED  BY <1>1, PersistInvariant, PTL
-----------------------------------------------------------------------------
(* write_atomic                                                             *)

\* The types, and that no directory lacks its target.
TargetTypes ==
  /\ text \in [Inodes -> Nat \cup {Torn}]
  /\ synced \in SUBSET Inodes
  /\ onMedium \subseteq [target : Inodes, tmp : Inodes \cup {NoInode}]
  /\ dir \in onMedium
  /\ step \in Steps
  /\ call \in Nat /\ returned \in Nat

\* Whatever directory the medium is left with: its target was synced and
\* holds what was confirmed, and the temporary file, which is all that a call
\* writes into, is no directory's target.
SafeOnMedium ==
  \A d \in onMedium : /\ d.target \in synced
                      /\ text[d.target] # Torn
                      /\ text[d.target] >= returned
                      /\ d.tmp # d.target
                      /\ dir.tmp # d.target

\* Where a call is, what it has achieved.
Progress ==
  /\ returned <= call
  /\ step \in {"write_data", "sync_file", "replace"} => dir.tmp # NoInode
  /\ step \in {"sync_file", "replace"} => text[dir.tmp] = call
  /\ step = "replace" => dir.tmp \in synced
  /\ step = "sync_dir" => text[dir.target] = call

TargetInv == TargetTypes /\ SafeOnMedium /\ Progress

-----------------------------------------------------------------------------
\* The constants and the two names.
LEMMA Facts == /\ Inodes \subseteq Nat /\ 1 \in Inodes
               /\ NoInode \notin Inodes /\ Torn \notin Nat
               /\ Names = {"target", "tmp"}
BY AtomicWriteAssumption DEF NoInode, Torn, Names

\* A directory in which only the temporary file changes.
LEMMA DirFacts ==
  ASSUME NEW d \in [target : Inodes, tmp : Inodes \cup {NoInode}],
         NEW i \in Inodes \cup {NoInode}
  PROVE  /\ [d EXCEPT !["tmp"] = i] \in [target : Inodes, tmp : Inodes \cup {NoInode}]
         /\ [d EXCEPT !["tmp"] = i].target = d.target
         /\ [d EXCEPT !["tmp"] = i].tmp = i
         /\ d.target \in Inodes /\ d.tmp \in Inodes \cup {NoInode}
         /\ d["tmp"] = d.tmp /\ d["target"] = d.target
OBVIOUS

LEMMA Initially == AtomicInit => TargetInv
<1>. SUFFICES ASSUME AtomicInit PROVE TargetInv
  OBVIOUS
<1>1. TargetTypes
  BY Facts DEF AtomicInit, TargetTypes, Steps
<1>2. SafeOnMedium /\ Progress
  BY Facts DEF AtomicInit, SafeOnMedium, Progress, NoInode, Torn
<1>. QED  BY <1>1, <1>2 DEF TargetInv

\* Steps that touch no file: they begin, fail or move on.
LEMMA ControlStep ==
  ASSUME TargetInv, UNCHANGED fileVars, Begin \/ CreateDir \/ Killed \/ (Fail /\ step # "idle")
  PROVE  TargetInv'
<1>. USE DEF fileVars, TargetInv
<1>1. TargetTypes' /\ SafeOnMedium'
  BY DEF TargetTypes, SafeOnMedium, Begin, CreateDir, Killed, Fail, Advance, Steps
<1>2. Progress'
  BY DEF TargetTypes, Progress, Begin, CreateDir, Killed, Fail, Advance, Steps
<1>. QED  BY <1>1, <1>2

\* The temporary file is opened: a new inode is in no directory, and the one
\* a killed process left is no target.
LEMMA OpenStep == TargetInv /\ OpenTemp => TargetInv'
<1>. SUFFICES ASSUME TargetInv, OpenTemp, ~(Fail /\ UNCHANGED fileVars) PROVE TargetInv'
  BY ControlStep DEF OpenTemp
<1>1. PICK i \in Inodes :
        /\ IF dir["tmp"] = NoInode THEN Free(i) ELSE i = dir["tmp"]
        /\ text' = [text EXCEPT ![i] = Torn]
        /\ synced' = synced \ {i}
        /\ Directory([dir EXCEPT !["tmp"] = i])
  BY DEF OpenTemp
<1>2. /\ dir \in [target : Inodes, tmp : Inodes \cup {NoInode}]
      /\ step' = "write_data" /\ UNCHANGED <<call, returned>>
  BY DEF OpenTemp, Advance, TargetInv, TargetTypes
<1>3. /\ dir'.target = dir.target /\ dir'.tmp = i
      /\ dir' \in [target : Inodes, tmp : Inodes \cup {NoInode}]
      /\ onMedium' = onMedium \cup {dir'}
  BY <1>1, <1>2, DirFacts DEF Directory
<1>4. \A d \in onMedium : d.target # i
  BY <1>1, <1>2, DirFacts DEF Free, Names, TargetInv, SafeOnMedium, TargetTypes
<1>5. TargetTypes'
  BY <1>1, <1>2, <1>3 DEF TargetInv, TargetTypes, Steps
<1>6. ASSUME NEW d \in onMedium'
      PROVE  d.target \in Inodes /\ d.target # i /\ d.tmp # d.target
             /\ \E e \in onMedium : e.target = d.target
  BY <1>2, <1>3, <1>4, DirFacts DEF TargetInv, SafeOnMedium, TargetTypes
<1>7. SafeOnMedium'
  BY <1>1, <1>2, <1>3, <1>6 DEF TargetInv, SafeOnMedium, TargetTypes
<1>8. Progress'
  BY <1>2, <1>3, Facts DEF TargetInv, Progress
<1>. QED  BY <1>5, <1>7, <1>8 DEF TargetInv

\* Data goes into the temporary file only.
LEMMA WriteStep == TargetInv /\ WriteData => TargetInv'
<1>. SUFFICES ASSUME TargetInv, WriteData, ~(Fail /\ UNCHANGED fileVars) PROVE TargetInv'
  BY ControlStep DEF WriteData, fileVars
<1>1. /\ text' = [text EXCEPT ![dir.tmp] = call] /\ step' = "sync_file"
      /\ UNCHANGED <<synced, dir, onMedium, call, returned>>
      /\ dir.tmp \in Inodes
  BY Facts DEF WriteData, Advance, fileVars, TargetInv, TargetTypes, Progress
<1>2. TargetTypes'
  BY <1>1 DEF TargetInv, TargetTypes, Steps
<1>3. SafeOnMedium'
  BY <1>1 DEF TargetInv, SafeOnMedium, TargetTypes
<1>4. Progress'
  BY <1>1, Facts DEF TargetInv, Progress, TargetTypes
<1>. QED  BY <1>2, <1>3, <1>4 DEF TargetInv

\* The temporary file reaches the medium.
LEMMA SyncFileStep == TargetInv /\ SyncFile => TargetInv'
<1>. SUFFICES ASSUME TargetInv, SyncFile, ~(Fail /\ UNCHANGED fileVars) PROVE TargetInv'
  BY ControlStep DEF SyncFile, fileVars
<1>1. /\ synced' = synced \cup {dir.tmp} /\ step = "sync_file" /\ step' = "replace"
      /\ UNCHANGED <<text, dir, onMedium, call, returned>>
      /\ dir.tmp \in Inodes
  BY Facts DEF SyncFile, Advance, fileVars, TargetInv, TargetTypes, Progress
<1>2. TargetTypes' /\ SafeOnMedium'
  BY <1>1 DEF TargetInv, SafeOnMedium, TargetTypes, Steps
<1>3. Progress'
  BY <1>1 DEF TargetInv, Progress, TargetTypes
<1>. QED  BY <1>2, <1>3 DEF TargetInv

\* The new directory is as safe as the old ones: its target is the synced
\* temporary file with the text of this call.
LEMMA ReplaceStep == TargetInv /\ Replace => TargetInv'
<1>. SUFFICES ASSUME TargetInv, Replace, ~(Fail /\ UNCHANGED fileVars) PROVE TargetInv'
  BY ControlStep DEF Replace, fileVars
<1>1. /\ dir' = [target |-> dir.tmp, tmp |-> NoInode]
      /\ onMedium' = onMedium \cup {dir'}
      /\ step = "replace" /\ step' = "sync_dir"
      /\ UNCHANGED <<text, synced, call, returned>>
  BY DEF Replace, Directory, Advance, fileVars
<1>2. /\ dir.tmp \in Inodes /\ dir.tmp \in synced /\ text[dir.tmp] = call
      /\ call \in Nat /\ returned <= call
  BY <1>1, Facts DEF TargetInv, Progress, TargetTypes
<1>3. TargetTypes'
  BY <1>1, <1>2 DEF TargetInv, TargetTypes, Steps
<1>4. \A d \in onMedium : d.target # NoInode
  BY Facts DEF TargetInv, TargetTypes
<1>5. SafeOnMedium'
  BY <1>1, <1>2, <1>4, Facts DEF TargetInv, SafeOnMedium, TargetTypes
<1>6. Progress'
  BY <1>1, <1>2 DEF TargetInv, Progress
<1>. QED  BY <1>3, <1>5, <1>6 DEF TargetInv

\* Only the directory of the moment is left, and the call is confirmed.
LEMMA SyncDirStep == TargetInv /\ SyncDir => TargetInv'
<1>. SUFFICES ASSUME TargetInv, SyncDir, ~(Fail /\ UNCHANGED fileVars) PROVE TargetInv'
  BY ControlStep DEF SyncDir, fileVars
<1>1. /\ onMedium' = {dir} /\ step = "sync_dir" /\ step' = "idle" /\ returned' = call
      /\ UNCHANGED <<text, synced, dir, call>>
  BY DEF SyncDir, fileVars
<1>2. TargetTypes' /\ Progress'
  BY <1>1 DEF TargetInv, TargetTypes, Progress, Steps
<1>3. SafeOnMedium'
  BY <1>1 DEF TargetInv, SafeOnMedium, Progress, TargetTypes
<1>. QED  BY <1>2, <1>3 DEF TargetInv

LEMMA RemoveStep == TargetInv /\ RemoveTemp => TargetInv'
<1>. SUFFICES ASSUME TargetInv, RemoveTemp PROVE TargetInv'
  OBVIOUS
<1>1. /\ dir' = dir \/ (dir'.target = dir.target /\ dir'.tmp = NoInode
                        /\ dir' \in [target : Inodes, tmp : Inodes \cup {NoInode}])
      /\ onMedium' = onMedium \cup {dir'} /\ step' = "idle"
      /\ UNCHANGED <<text, synced, call, returned>>
  BY DirFacts DEF RemoveTemp, Directory, Advance, TargetInv, TargetTypes
<1>2. \A d \in onMedium : d.target # NoInode
  BY Facts DEF TargetInv, TargetTypes
<1>3. TargetTypes' /\ Progress'
  BY <1>1 DEF TargetInv, TargetTypes, Progress, Steps
<1>4. SafeOnMedium'
  BY <1>1, <1>2 DEF TargetInv, SafeOnMedium, TargetTypes
<1>. QED  BY <1>3, <1>4 DEF TargetInv

\* Power is lost: the directory is one of those on the medium, and what was
\* not synced, which may be torn, is the target of none of them.
LEMMA PowerLossStep == TargetInv /\ PowerLoss => TargetInv'
<1>. SUFFICES ASSUME TargetInv, PowerLoss PROVE TargetInv'
  OBVIOUS
<1>1. PICK d \in onMedium : dir' = d /\ onMedium' = {d}
  BY DEF PowerLoss
<1>2. PICK lost \in SUBSET (Inodes \ synced) :
        text' = [i \in Inodes |-> IF i \in lost THEN Torn ELSE text[i]]
  BY DEF PowerLoss
<1>3. synced' = Inodes /\ step' = "idle" /\ UNCHANGED <<call, returned>>
  BY DEF PowerLoss
<1>4. d.target \in Inodes /\ text'[d.target] = text[d.target]
  BY <1>2 DEF TargetInv, TargetTypes, SafeOnMedium
<1>5. TargetTypes' /\ Progress'
  BY <1>1, <1>2, <1>3 DEF TargetInv, TargetTypes, Progress, Steps
<1>6. SafeOnMedium'
  BY <1>1, <1>3, <1>4 DEF TargetInv, SafeOnMedium
<1>. QED  BY <1>5, <1>6 DEF TargetInv

-----------------------------------------------------------------------------
\* The inductive invariant holds, whatever fails and however often.
THEOREM InductiveInvariant == AtomicSpec => []TargetInv
<1>1. TargetInv /\ [AtomicNext]_atomicVars => TargetInv'
  <2>. SUFFICES ASSUME TargetInv, [AtomicNext]_atomicVars PROVE TargetInv'
    OBVIOUS
  <2>1. CASE UNCHANGED atomicVars
    BY <2>1 DEF TargetInv, TargetTypes, SafeOnMedium, Progress, atomicVars
  <2>2. CASE Begin \/ CreateDir \/ Killed
    BY <2>2, ControlStep DEF Begin, CreateDir, Killed, fileVars
  <2>. QED
    BY <2>1, <2>2, OpenStep, WriteStep, SyncFileStep, ReplaceStep, SyncDirStep,
       RemoveStep, PowerLossStep DEF AtomicNext
<1>. QED  BY <1>1, Initially, PTL DEF AtomicSpec

\* Readers see an old text or a new one at every moment.
THEOREM TargetIsWhole == AtomicSpec => []TargetWhole
<1>1. TargetInv => TargetWhole
  BY DEF TargetInv, TargetTypes, SafeOnMedium, TargetWhole, Read
<1>. QED  BY <1>1, InductiveInvariant, PTL

\* No failure loses a text that was reported as written.
THEOREM ConfirmedTextSurvives == AtomicSpec => []ConfirmedSurvives
<1>1. TargetInv => ConfirmedSurvives
  BY DEF TargetInv, TargetTypes, SafeOnMedium, ConfirmedSurvives, Read
<1>. QED  BY <1>1, InductiveInvariant, PTL
=============================================================================
