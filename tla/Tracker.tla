------------------------------ MODULE Tracker ------------------------------
(***************************************************************************)
(* PersistTracker (persist/tracker.rs): which working files are due, what  *)
(* was sent and not answered, what each file is known to hold.  It runs in *)
(* the UI thread and only decides; module Writer does the writing.         *)
(***************************************************************************)
EXTENDS Writer, SequencesExt

CONSTANTS Texts,      \* the texts a TOML file may take
          Intervals   \* the save intervals N, in units of time

ASSUME TrackerAssumption == /\ Texts \subseteq Nat
                            /\ Intervals \subseteq Nat \ {0}

VARIABLES
  mem,            \* what would be written now: the serialized text of a TOML
                  \* file, change_seq for the playlist
  interval,       \* N
  deadline,       \* time left until the deferred write, None: not running
  ref,            \* FileTrack.reference, or PlaylistTrack.written_seq
  stopped,        \* stopped[f]: writes on the timer are off after an error
  forbidden,      \* the playlist is not written in this session
  autoForbidden,  \* TOML files not written on the timer or at exit
  inFlight        \* inFlight[f]: snapshots sent and not answered, oldest first

trackerVars == <<mem, interval, deadline, ref, stopped, forbidden,
                 autoForbidden, inFlight>>

Earlier(a, b) == IF a < b THEN a ELSE b
Later(a, b) == IF a > b THEN a ELSE b

\* The deadline after a change that starts the count: a running one stays.
Armed(d) == IF d = None THEN interval ELSE d

\* set_interval: a running deadline never moves back.
Shortened(n) == IF deadline = None THEN None ELSE Earlier(deadline, n)

Due == deadline = 0

\* poll_deadline takes an expired deadline away.
Polled == IF Due THEN None ELSE deadline

\* Mutant: snapshots in flight are left out of the comparison.
TomlDiffersFromRef(f, text) == ref[f] # text

\* Mutant: while a snapshot is in flight nothing is due.
TomlSettledAndDiffers(f, text) == inFlight[f] = <<>> /\ ref[f] # text

\* toml_needs_write: the text differs from the last one sent, or from the
\* reference when nothing is in flight.
TomlNeedsWrite(f, text) ==
  IF inFlight[f] # <<>> THEN Last(inFlight[f]).text # text
                        ELSE ref[f] # text

\* playlist_dirty.
PlaylistDirty == mem["playlist"] > ref["playlist"]

\* playlist_writable.
PlaylistWritable(byTimer) == ~forbidden /\ ~(byTimer /\ stopped["playlist"])

\* sent: the snapshot the writer gets next is in flight.
Sent(f) ==
  inFlight' = [inFlight EXCEPT ![f] = Append(@, [id |-> nextId,
                                                 text |-> mem[f]])]

\* Mutant: the oldest snapshot in flight.
FirstInFlight(f) == inFlight[f][1].id

\* last_in_flight, when there is one.
LastInFlight(f) == Last(inFlight[f]).id

\* Whether a queue has an entry with id i.
Holds(q, i) == \E k \in DOMAIN q : q[k].id = i

\* Mutant: the entry with id i itself stays.
PopFrontBefore(q, i) ==
  SubSeq(q, SelectLastInSeq(q, LAMBDA e : e.id < i) + 1, Len(q))

\* pop_front_until: the entries up to and including id i leave the queue.
PopFrontUntil(q, i) ==
  SubSeq(q, SelectLastInSeq(q, LAMBDA e : e.id <= i) + 1, Len(q))

\* remove_id.
RemoveId(q, i) ==
  IF Holds(q, i) THEN RemoveAt(q, SelectInSeq(q, LAMBDA e : e.id = i)) ELSE q

\* Mutant: the reference is what was sent last, not what was written.
RefIsLastSent(f, i) == IF ~Holds(inFlight[f], i) THEN ref[f]
                       ELSE Last(inFlight[f]).text

\* on_written: what was sent under this id is what the file holds now.  The
\* playlist keeps the newest change that was written.
RefAfterWritten(f, i) ==
  IF ~Holds(inFlight[f], i) THEN ref[f]
  ELSE LET t == inFlight[f][SelectInSeq(inFlight[f],
                                        LAMBDA e : e.id = i)].text
       IN IF f = "playlist" THEN Later(ref[f], t) ELSE t

OnWritten(f, i) ==
  /\ ref' = [ref EXCEPT ![f] = RefAfterWritten(f, i)]
  /\ inFlight' = [inFlight EXCEPT ![f] = PopFrontUntil(@, i)]
  /\ stopped' = [stopped EXCEPT ![f] = FALSE]

\* on_failed: the reference and the change number stay, the timer stops.
OnFailed(f, i) ==
  /\ inFlight' = [inFlight EXCEPT ![f] = RemoveId(@, i)]
  /\ stopped' = [stopped EXCEPT ![f] = TRUE]
  /\ UNCHANGED ref

OnSuperseded(f, i) ==
  /\ inFlight' = [inFlight EXCEPT ![f] = RemoveId(@, i)]
  /\ UNCHANGED <<ref, stopped>>

\* on_reply.
OnReply(r) ==
  CASE r.kind = "written"    -> OnWritten(r.file, r.id)
    [] r.kind = "failed"     -> OnFailed(r.file, r.id)
    [] r.kind = "superseded" -> OnSuperseded(r.file, r.id)
    [] OTHER                 -> UNCHANGED <<ref, inFlight, stopped>>

\* PersistTracker::new and the bans from_boot sets.
TrackerInit(startRef, n, banned) ==
  /\ mem = [f \in File |-> 0]
  /\ interval = n
  /\ deadline = None
  /\ ref = startRef
  /\ stopped = [f \in File |-> FALSE]
  /\ forbidden = FALSE
  /\ autoForbidden = banned
  /\ inFlight = [f \in File |-> <<>>]
=============================================================================
