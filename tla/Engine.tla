------------------------------- MODULE Engine -------------------------------
(***************************************************************************)
(* The engine thread in the exclusive modes (engine/run.rs): the lock of   *)
(* the mode's device, the claim it holds, the path opened on the claim,    *)
(* the deferred Open, the point to come back to after a loss, and the      *)
(* service threads that resolve and claim a device.                        *)
(*                                                                         *)
(* The thread runs one handler at a time and a handler calls others, so    *)
(* the engine's fields are one record and every method is an operator from *)
(* the record to the record it leaves.  What a handler cannot know (does a *)
(* thread start, does a track open) is a parameter.                        *)
(***************************************************************************)
EXTENDS DeviceLock, Sequences, FiniteSets

CONSTANTS Numeric,       \* what an outdated id stands for
          CardOf,        \* the card of a device
          RetryAttempts  \* REACQUIRE_RETRY_ATTEMPTS

ASSUME EngineAssumption == /\ RetryAttempts \in Nat \ {0}
                           /\ Numeric \in [DOMAIN Numeric -> Device]
                           /\ DOMAIN Numeric \subseteq Device
                           /\ DOMAIN CardOf = Device

Listed == Device \ DOMAIN Numeric     \* ids the system may list

VARIABLES
  eng,       \* the fields of Engine
  at,        \* where its loop is: recv, poll, drain or done
  internal,  \* InternalMsg on their way to it
  jobs,      \* service threads that have not answered yet
  name,      \* for each card, the attempt that owns its reservation name
  present,   \* the devices that are plugged in
  dirty      \* devices_dirty

vars == <<eng, at, internal, jobs, name, present, dirty>>

\* A DeviceClaim: the attempt that made it and its device.
NoClaim == [a |-> 0, dev |-> NoDevice]
NoResolve == [a |-> 0, in |-> Press("Startup"), mode |-> "none",
              before |-> NotApplicable]
NoPoint == [dev |-> NoDevice, track |-> 0, autoplay |-> FALSE]
NoOpen == [gen |-> 0, autoplay |-> FALSE]

\* Engine::new.  Openings are numbered; a track is named by the number of
\* the opening that first asked for it, and 0 is no track.
NewEngine(opts, catalog) ==
  [mode |-> "Compatible", opts |-> opts, catalog |-> catalog,
   lock |-> NotApplicable,
   claim |-> NoClaim,       \* the claim while no path is open on it
   path |-> NoClaim,        \* the claim inside exclusive_path
   playing |-> FALSE,       \* SessionShared::playing of the path
   signal |-> "running",    \* of its session: running, ended or fault
   attempt |-> 0,           \* claim_attempt
   target |-> NoDevice,     \* claim_device; claim_card is its card
   resolve |-> NoResolve,   \* device_resolve_pending
   resolves |-> 0,          \* device_resolve_attempt
   reacquire |-> NoPoint,
   retry |-> 0,             \* attempts left of reacquire_retry
   deferred |-> NoOpen,     \* deferred_open
   current |-> [gen |-> 0, track |-> 0],
   stopped |-> TRUE,
   spawned |-> {},          \* threads the handler has started
   \* For the properties only:
   asked |-> 0,             \* the last Open
   awaited |-> 0,           \* that Open, until it is answered, dropped or
                            \* forsaken
   quiet |-> FALSE]         \* a device was lost and nothing played since

ClaimJob(a, d) == [kind |-> "claim", a |-> a, dev |-> d, at |-> "reserve"]
ResolveJob(a) == [kind |-> "resolve", a |-> a, dev |-> NoDevice, at |-> "ask"]

\* DeviceCatalog::canonical_hw
Canonical(e, d) == CASE d \in e.catalog -> d
                     [] d \in DOMAIN Numeric \ e.catalog ->
                          IF Numeric[d] \in e.catalog THEN Numeric[d]
                                                      ELSE NoDevice
                     [] OTHER -> NoDevice

ModeDevice(e, m) == IF m \in Exclusive THEN e.opts[m] ELSE NoDevice

\* An event that answers Open g.
Answer(e, g) == [e EXCEPT !.awaited = IF @ = g THEN 0 ELSE @]

\* The deferred Open is dropped without an event.
Undefer(e) == [e EXCEPT !.deferred = NoOpen,
                        !.awaited = IF @ = e.deferred.gen THEN 0 ELSE @]

\* What no event tells the UI: the Open stays in deferred_open and the capture
\* that it waited for was not even started.
Forsake(e) == [e EXCEPT !.awaited = 0]

-----------------------------------------------------------------------------
\* Steps of the lock.

\* ExclusivePath::close and what every caller does with the claim.
ClosePath(e) == IF e.path = NoClaim THEN e
                ELSE [e EXCEPT !.claim = e.path, !.path = NoClaim,
                               !.playing = FALSE, !.signal = "running"]

\* stop_playback
StopPlayback(e) == Undefer([ClosePath(e) EXCEPT !.stopped = TRUE])

\* Mutant: the release keeps the number of the attempt.
ReleaseSameAttempt(e) == Undefer([e EXCEPT !.claim = NoClaim,
                                           !.target = NoDevice])

\* LockEffect::Release
Release(e) == Undefer([e EXCEPT !.attempt = @ + 1, !.claim = NoClaim,
                                !.target = NoDevice])

ForgetReacquire(e) == [e EXCEPT !.reacquire = NoPoint, !.retry = 0]

\* The step proper and what comes before its effects: an outdated device of
\* the settings is replaced, one that was found automatically is stored.
Settle(e, in, m, before, dev, found) ==
  LET d == IF Canonical(e, dev) = NoDevice THEN dev ELSE Canonical(e, dev)
      step == LockStep(before, in, e.mode, d)
      store == /\ m \in Exclusive
               /\ IF found THEN step.fx.acquire # NoDevice ELSE d # dev
  IN [e EXCEPT !.lock = step.lock,
               !.opts = IF store THEN [@ EXCEPT ![m] = d] ELSE @,
               !.mode = IF in.kind = "ModeSelected" THEN m ELSE @]

\* A resolution means nothing once the lock is not waiting.
ForgetResolve(e) == IF e.lock = Acquiring THEN e
                                          ELSE [e EXCEPT !.resolve = NoResolve]

\* lock_input for the result of a capture, which has no effects.
CaptureResult(e, in) ==
  ForgetResolve(Settle(e, in, e.mode, e.lock, ModeDevice(e, e.mode), FALSE))

\* Mutant: a thread that does not start is not reported.
StartClaimSilently(e, dev, sp) ==
  LET n == [e EXCEPT !.attempt = @ + 1]
      d == Canonical(e, dev)
      t == [n EXCEPT !.target = d]
  IN IF d = NoDevice
       THEN CaptureResult(n, CaptureFailed("DeviceDisconnected"))
       ELSE [t EXCEPT !.spawned = IF sp THEN @ \cup {ClaimJob(t.attempt, d)}
                                        ELSE @]

\* start_claim.  sp: the thread starts.
StartClaim(e, dev, sp) ==
  LET n == [e EXCEPT !.attempt = @ + 1]
      d == Canonical(e, dev)
      t == [n EXCEPT !.target = d]
  IN IF d = NoDevice
       THEN CaptureResult(n, CaptureFailed("DeviceDisconnected"))
       ELSE IF sp
         THEN [t EXCEPT !.spawned = @ \cup {ClaimJob(t.attempt, d)}]
         ELSE CaptureResult(t, CaptureFailed("Refused"))

Perform(e, fx, sp) ==
  LET s == IF fx.stop THEN StopPlayback(e) ELSE e
      r == IF fx.release THEN Release(s) ELSE s
      f == IF fx.forget THEN ForgetReacquire(r) ELSE r
  IN IF fx.acquire = NoDevice THEN f ELSE StartClaim(f, fx.acquire, sp)

\* finish_lock_input
FinishLockInput(e, in, m, before, dev, found, sp) ==
  LET d == IF Canonical(e, dev) = NoDevice THEN dev ELSE Canonical(e, dev)
  IN ForgetResolve(Perform(Settle(e, in, m, before, dev, found),
                           LockStep(before, in, e.mode, d).fx, sp))

\* start_device_resolve
StartDeviceResolve(e, in, m, sp) ==
  LET n == [e EXCEPT !.resolves = @ + 1]
      p == [a |-> n.resolves, in |-> in, mode |-> m, before |-> e.lock]
  IN IF sp THEN [n EXCEPT !.lock = Acquiring, !.resolve = p,
                          !.spawned = @ \cup {ResolveJob(n.resolves)}]
           ELSE FinishLockInput([n EXCEPT !.lock = Acquiring], in, m, e.lock,
                                NoDevice, FALSE, sp)

\* lock_input
LockInput(e, in, sp) ==
  LET m == IF in.kind = "ModeSelected" THEN in.mode ELSE e.mode
      needs == \/ in.kind = "ModeSelected" /\ in.mode \in Exclusive
               \/ e.mode \in Exclusive /\ in.kind \in Asking
      blind == LockStep(e.lock, in, e.mode, NoDevice)
      finish == FinishLockInput(e, in, m, e.lock, ModeDevice(e, m), FALSE, sp)
  IN IF ~needs \/ ModeDevice(e, m) # NoDevice THEN finish
     ELSE IF e.resolve # NoResolve THEN e
     ELSE IF blind = Stay(e.lock) THEN finish
     ELSE StartDeviceResolve(e, in, m, sp)

-----------------------------------------------------------------------------
\* Opening a track.

\* open_exclusive for the track t.  ok: caps, plan, source, device and
\* threads are good; in every other case the claim comes back.
OpenExclusive(e, g, t, autoplay, ok) ==
  CASE e.lock = Acquiring ->
         [e EXCEPT !.deferred = [gen |-> g, autoplay |-> autoplay]]
    [] e.lock.kind \notin {"Acquiring", "Held"} -> Answer(e, g)
    [] e.lock.kind = "Held" ->
         LET c == ClosePath(e)
         IN IF c.claim = NoClaim \/ ~ok THEN Answer(c, g)
            ELSE Answer([c EXCEPT !.path = c.claim, !.claim = NoClaim,
                                  !.playing = autoplay,
                                  !.signal = "running",
                                  !.current = [gen |-> g, track |-> t],
                                  !.stopped = FALSE], g)

\* build_reacquire_point
ReacquirePoint(e, d, autoplay) ==
  IF e.current.gen = 0 THEN NoPoint
  ELSE [dev |-> d, track |-> e.current.track, autoplay |-> autoplay]

\* Mutant: the point of a loss remembers that it played.
SavePlayingPoint(e) ==
  IF e.lock.kind # "Held" \/ e.current.gen = 0 THEN e
  ELSE [e EXCEPT !.reacquire = ReacquirePoint(e, e.lock.dev, e.playing)]

\* save_reacquire_point: a loss never resumes by itself.
SaveReacquirePoint(e) ==
  IF e.lock.kind # "Held" \/ e.current.gen = 0 THEN e
  ELSE [e EXCEPT !.reacquire = ReacquirePoint(e, e.lock.dev, FALSE)]

\* save_switch_device_reacquire_point: a change of device goes on playing.
SaveSwitchPoint(e, new) ==
  IF e.lock.kind # "Held" THEN e
  ELSE LET d == IF Canonical(e, new) = NoDevice THEN new ELSE Canonical(e, new)
       IN [e EXCEPT !.reacquire = ReacquirePoint(e, d, e.playing)]

\* reopen_after_reacquire.  probe: the file can still be read.
ReopenAfterReacquire(e, claimed, probe, ok) ==
  IF e.reacquire = NoPoint \/ e.reacquire.dev # claimed THEN e
  ELSE LET n == [e EXCEPT !.reacquire = NoPoint]
           g == e.current.gen
       IN IF probe THEN OpenExclusive(n, g, e.reacquire.track,
                                      e.reacquire.autoplay, ok)
                   ELSE Answer(n, g)

\* The device is lost: by ReservationLost or by a fault of the session.
DeviceLost(e, sp) ==
  LET l == LockInput(SaveReacquirePoint(e), Press("DeviceLost"), sp)
  IN [l EXCEPT !.quiet = @ \/ e.lock.kind = "Held"]

-----------------------------------------------------------------------------
\* Messages of the service threads (handle_internal).

ClaimDone(a, c, r) == [type |-> "ClaimDone", a |-> a, claim |-> c, why |-> r]
ReservationLost(d) == [type |-> "ReservationLost", a |-> 0,
                       claim |-> [NoClaim EXCEPT !.dev = d], why |-> "none"]
ResolveDone(a, d) == [type |-> "DeviceResolveDone", a |-> a,
                      claim |-> [NoClaim EXCEPT !.dev = d], why |-> "none"]

\* The capture has ended well: an Open that came meanwhile goes before the
\* point of a loss.
Captures(e, c, probe, ok) ==
  LET n == CaptureResult([e EXCEPT !.claim = c], Captured(c.dev))
      d == n.deferred
      taken == [n EXCEPT !.deferred = NoOpen]
  IN IF d # NoOpen /\ n.lock.kind = "Held"
       THEN OpenExclusive(ForgetReacquire(taken), d.gen, d.gen, d.autoplay, ok)
       ELSE ReopenAfterReacquire(taken, c.dev, probe, ok)

\* Mutant: the deferred Open is not told of the failure.
FailsMutely(e, r) == CaptureResult([e EXCEPT !.reacquire.autoplay = FALSE],
                                   CaptureFailed(r))

CaptureFails(e, r) ==
  LET n == CaptureResult([e EXCEPT !.reacquire.autoplay = FALSE],
                         CaptureFailed(r))
  IN IF n.deferred = NoOpen THEN n
     ELSE StopPlayback(Answer([n EXCEPT !.deferred = NoOpen], n.deferred.gen))

\* Mutant: the number of the attempt is not compared.
HandleAnyClaim(e, m, probe, ok) ==
  IF e.lock # Acquiring THEN e
  ELSE IF m.claim # NoClaim THEN Captures(e, m.claim, probe, ok)
                            ELSE CaptureFails(e, m.why)

HandleClaimDone(e, m, probe, ok) ==
  CASE m.a # e.attempt \/ e.lock # Acquiring -> e
    [] m.a = e.attempt /\ e.lock = Acquiring ->
         IF m.claim # NoClaim THEN Captures(e, m.claim, probe, ok)
                              ELSE CaptureFails(e, m.why)

HandleReservationLost(e, m, sp) ==
  IF e.target # NoDevice /\ CardOf[m.claim.dev] = CardOf[e.target]
    THEN DeviceLost(e, sp) ELSE e

\* found: the device of the catalogue on the card that was reported.  Without
\* one, or when the thread of the capture does not start, an Open that was
\* deferred meanwhile gets no event (unlike in CaptureFails).
HandleResolveDone(e, m, found, sp) ==
  LET n == FinishLockInput([e EXCEPT !.resolve = NoResolve], e.resolve.in,
                           e.resolve.mode, e.resolve.before, found, TRUE, sp)
  IN IF e.resolve.a = 0 \/ m.a # e.resolve.a THEN e
     ELSE IF n.lock = Acquiring THEN n ELSE Forsake(n)

\* hw_for_sink: a device listed on the card, if there is one.
OnCard(e, d) ==
  LET same == {x \in e.catalog : d # NoDevice /\ CardOf[x] = CardOf[d]}
  IN IF same = {} THEN {NoDevice} ELSE same

Handles(m, sp, probe, ok) ==
  CASE m.type = "ClaimDone" -> {HandleClaimDone(eng, m, probe, ok)}
    [] m.type = "ReservationLost" -> {HandleReservationLost(eng, m, sp)}
    [] m.type = "DeviceResolveDone" ->
         {HandleResolveDone(eng, m, d, sp) : d \in OnCard(eng, m.claim.dev)}

-----------------------------------------------------------------------------
\* Enumerating the devices (refresh_devices).

\* A point waits for its device to come back.
Waits(e) == e.lock = Failed("DeviceDisconnected") /\ e.reacquire # NoPoint

\* note_reacquire_attempt
NoteReacquireAttempt(e) ==
  [e EXCEPT !.retry = IF @ = 0 THEN RetryAttempts - 1 ELSE @ - 1]

\* try_reacquire_reappeared_device
TryReacquire(e, sp) ==
  LET d == Canonical(e, e.reacquire.dev)
  IN IF ~Waits(e) \/ d = NoDevice THEN e
     ELSE LockInput([e EXCEPT !.reacquire.dev = d], DeviceReappeared(d), sp)

\* refresh_devices.  list: what is listed, or no answer at all.
NoListing == {NoDevice}
Listings == {present, NoListing}

RefreshDevices(e, list, sp) ==
  LET changed == list # NoListing /\ list # e.catalog
      n == IF Waits(e) THEN NoteReacquireAttempt(e) ELSE e
      r == IF changed THEN TryReacquire([n EXCEPT !.catalog = list], sp) ELSE n
  IN IF Waits(r) THEN r ELSE [r EXCEPT !.retry = 0]

\* The exclusive part of poll_session: a fault before the end of the track.
PollPath(e, sp) ==
  CASE e.path = NoClaim -> e
    [] e.path # NoClaim /\ e.signal = "fault" -> DeviceLost(e, sp)
    [] e.path # NoClaim /\ e.signal = "ended" -> ClosePath(e)
    [] OTHER -> e

-----------------------------------------------------------------------------
\* Commands (handle).

\* The old path of the Compatible mode: its Player may refuse the file, and
\* the plan may forbid what it has opened.
OpenCompatible(e, g) ==
  { Answer([e EXCEPT !.current = [gen |-> g, track |-> g],
                     !.stopped = FALSE], g),
    Answer([e EXCEPT !.current = [gen |-> 0, track |-> 0],
                     !.stopped = TRUE], g),
    Answer(e, g) }

HandleOpen(e, autoplay, probe, ok) ==
  LET g == e.asked + 1
      n == [e EXCEPT !.asked = g, !.awaited = g, !.quiet = @ /\ ~autoplay]
  IN CASE ~probe -> {Answer(n, g)}
       [] probe /\ e.mode = "Compatible" -> OpenCompatible(n, g)
       [] OTHER -> {OpenExclusive(n, g, g, autoplay, ok)}

HandlePlay(e) == [e EXCEPT !.playing = e.path # NoClaim, !.stopped = FALSE,
                           !.quiet = FALSE]

HandlePause(e) == [e EXCEPT !.playing = FALSE]

\* reopen_exclusive_at_position, for a setting that needs it.
Reopen(e, probe, ok) ==
  IF e.stopped \/ e.path = NoClaim \/ e.current.gen = 0 \/ ~probe THEN e
  ELSE OpenExclusive(e, e.current.gen, e.current.track, e.playing, ok)

\* The device of a mode is chosen in the settings (SwitchDevice).
HandleSetDevice(e, m, d, sp) ==
  LET n == [e EXCEPT !.opts[m] = d]
  IN IF m # e.mode \/ e.stopped \/ d = NoDevice THEN n
     ELSE LockInput(SaveSwitchPoint(n, d), DeviceSelected(d), sp)

HandleSetActiveMode(e, m, sp) ==
  LET l == LockInput(e, ModeSelected(m), sp)
      d == ModeDevice(l, m)
      differ == /\ NoDevice \notin {ModeDevice(l, e.mode), d}
                /\ ModeDevice(l, e.mode) # d
      s == IF differ THEN LockInput(SaveSwitchPoint(l, d), DeviceSelected(d), sp)
                     ELSE l
  IN [s EXCEPT !.mode = m]

\* shutdown, and the drop of Engine when run returns.
HandleShutdown(e) ==
  [ClosePath(e) EXCEPT !.claim = NoClaim, !.resolve = NoResolve,
                       !.current = [gen |-> 0, track |-> 0], !.stopped = TRUE]

-----------------------------------------------------------------------------
\* The loop (run).

\* Attempts whose reservation is alive: a guard releases the name it holds
\* when it is dropped, wherever that happens.
Guards(e, queue, js) ==
  {e.claim.a, e.path.a}
    \cup {queue[i].claim.a : i \in DOMAIN queue}
    \cup {j.a : j \in {x \in js : x.at = "open"}}

Names(e, queue, js) ==
  [c \in DOMAIN name |->
     IF name[c] \in Guards(e, queue, js) THEN name[c] ELSE 0]

\* The engine becomes e, in one handler.
Becomes(e, queue) ==
  /\ eng' = [e EXCEPT !.spawned = {}]
  /\ internal' = queue
  /\ jobs' = jobs \cup e.spawned
  /\ name' = Names(e, queue, jobs \cup e.spawned)

Command(e) == /\ at = "recv" /\ at' = "poll"
              /\ Becomes(e, internal)
              /\ UNCHANGED <<present, dirty>>

OpenTrack == \E autoplay, probe, ok \in BOOLEAN :
               \E e \in HandleOpen(eng, autoplay, probe, ok) : Command(e)
Play == Command(HandlePlay(eng))
Pause == Command(HandlePause(eng))
Stop == Command(StopPlayback(eng))
Lock == \E k \in {"UserClose", "UserOpen", "CaptureAndPlay", "RetryCapture"},
           sp \in BOOLEAN : Command(LockInput(eng, Press(k), sp))
SetDevice == \E m \in Exclusive, d \in Device \cup {NoDevice}, sp \in BOOLEAN :
               /\ d # eng.opts[m]
               /\ Command(HandleSetDevice(eng, m, d, sp))
SetParams == /\ eng.mode \in Exclusive
             /\ \E probe, ok \in BOOLEAN : Command(Reopen(eng, probe, ok))
SetActiveMode == \E m \in Mode \ {eng.mode}, sp \in BOOLEAN :
                   Command(HandleSetActiveMode(eng, m, sp))
Refresh == \E list \in Listings, sp \in BOOLEAN :
             Command(RefreshDevices(eng, list, sp))

\* Nothing came for 20 ms.
Timeout == /\ at = "recv" /\ at' = "poll"
           /\ UNCHANGED <<eng, internal, jobs, name, present, dirty>>

\* Shutdown ends the loop: what is on its way is dropped unread.
Shutdown == /\ at = "recv" /\ at' = "done"
            /\ Becomes(HandleShutdown(eng), <<>>)
            /\ UNCHANGED <<present, dirty>>

\* poll_session.  The timer of the series may be due whenever it is set.
PollSession ==
  /\ at = "poll" /\ at' = "drain"
  /\ \E list \in Listings, sp, due \in BOOLEAN :
       /\ due => ~dirty /\ eng.retry > 0
       /\ LET r == RefreshDevices(eng, list, sp)
              n == IF dirty \/ due THEN r ELSE eng
          IN Becomes(PollPath(n, sp), internal)
  /\ dirty' = FALSE
  /\ UNCHANGED present

\* drain_internal, one message of it, and its end.
Drain ==
  /\ at = "drain"
  /\ \/ /\ internal # <<>>
        /\ \E sp, probe, ok \in BOOLEAN :
             \E e \in Handles(Head(internal), sp, probe, ok) :
               Becomes(e, Tail(internal))
        /\ UNCHANGED at
     \/ /\ internal = <<>> /\ at' = "recv"
        /\ UNCHANGED <<eng, internal, jobs, name>>
  /\ UNCHANGED <<present, dirty>>

-----------------------------------------------------------------------------
\* The service threads.  A message to an engine that is gone is dropped, and
\* what it carries with it.
Reports(j, m) ==
  LET queue == IF at = "done" THEN internal ELSE Append(internal, m)
  IN /\ jobs' = jobs \ {j}
     /\ internal' = queue
     /\ name' = Names(eng, queue, jobs \ {j})

\* reservation::acquire.  Each attempt has a connection of its own: a name
\* held by another attempt is refused like a stranger's.  Another owner may
\* refuse.  (With neither a server nor a bus nothing is reserved, and the
\* attempt goes on as one whose name is never lost.)
Reserve(j) ==
  LET c == CardOf[j.dev]
      on == [j EXCEPT !.at = "open"]
  IN /\ j.kind = "claim" /\ j.at = "reserve"
     /\ \/ /\ name[c] = 0
           /\ jobs' = (jobs \ {j}) \cup {on}
           /\ name' = [name EXCEPT ![c] = j.a]
           /\ UNCHANGED internal
        \/ Reports(j, ClaimDone(j.a, NoClaim, "Refused"))

\* Who has the device open.
Busy(d) == \/ d \in {eng.claim.dev, eng.path.dev}
           \/ \E i \in DOMAIN internal : /\ internal[i].type = "ClaimDone"
                                         /\ internal[i].claim.dev = d

\* open_claimed: the device is waited for up to a second.
OpenDevice(j) ==
  /\ j.kind = "claim" /\ j.at = "open"
  /\ \/ /\ j.dev \in present /\ ~Busy(j.dev)
        /\ Reports(j, ClaimDone(j.a, [a |-> j.a, dev |-> j.dev], "none"))
     \/ /\ j.dev \in present
        /\ Reports(j, ClaimDone(j.a, NoClaim, "Refused"))
     \/ /\ j.dev \notin present
        /\ Reports(j, ClaimDone(j.a, NoClaim, "DeviceDisconnected"))

\* default_sink_card
AskSink(j) == /\ j.kind = "resolve"
              /\ \E d \in Listed \cup {NoDevice} : Reports(j, ResolveDone(j.a, d))

JobStep == /\ \E j \in jobs : Reserve(j) \/ OpenDevice(j) \/ AskSink(j)
           /\ UNCHANGED <<eng, at, present, dirty>>

\* The world: a card comes or goes, with or without the watcher seeing that
\* its nodes are ready; a name is taken away; a session ends or fails.
Plug == \E d \in Listed :
          /\ present' = IF d \in present THEN present \ {d} ELSE present \cup {d}
          /\ dirty' \in {dirty, TRUE}
          /\ UNCHANGED <<eng, at, internal, jobs, name>>

NameLost == \E d \in Listed :
              /\ at # "done" /\ name[CardOf[d]] # 0
              /\ name' = [name EXCEPT ![CardOf[d]] = 0]
              /\ internal' = Append(internal, ReservationLost(d))
              /\ UNCHANGED <<eng, at, jobs, present, dirty>>

Signal == /\ eng.path # NoClaim /\ eng.signal = "running"
          /\ \/ eng.playing /\ eng' = [eng EXCEPT !.signal = "ended"]
             \/ eng' = [eng EXCEPT !.signal = "fault"]
          /\ UNCHANGED <<at, internal, jobs, name, present, dirty>>

-----------------------------------------------------------------------------
EngineInit ==
  /\ \E opts \in [Exclusive -> Device \cup {NoDevice}],
        catalog \in {present, {}} : eng = NewEngine(opts, catalog)
  /\ at = "recv" /\ internal = <<>> /\ jobs = {}
  /\ name = [c \in {CardOf[d] : d \in Device} |-> 0]
  /\ dirty = FALSE

LoopStep == \/ OpenTrack \/ Play \/ Pause \/ Stop \/ Lock \/ SetDevice
            \/ SetParams \/ SetActiveMode \/ Refresh \/ Timeout \/ Shutdown
            \/ PollSession \/ Drain

EngineNext == LoopStep \/ JobStep \/ Plug \/ NameLost \/ Signal

EngineSpec == present \in SUBSET Listed /\ EngineInit /\ [][EngineNext]_vars
-----------------------------------------------------------------------------

\* The lock is Held exactly while one claim is alive, beside the path or
\* inside it, and that claim is the one of the last attempt, for the device
\* the lock names (engine/run.rs: "Held <=> self.claim.is_some()", ADR-01).
Claims == {eng.claim, eng.path} \ {NoClaim}

HeldHasClaim ==
  at # "done" =>
    /\ eng.lock.kind = "Held" <=> Claims # {}
    /\ NoClaim \in {eng.claim, eng.path}
    /\ \A c \in Claims : c = [a |-> eng.attempt, dev |-> eng.lock.dev]
    /\ Claims # {} => eng.target = eng.lock.dev

\* A lock that shows Acquiring is waited for by somebody: the thread that
\* resolves the device, or the thread of the last attempt, is running or its
\* answer is in the channel.  No order of presses, releases and late answers
\* leaves the hourglass with nobody behind it.
Answered(type, a) == \E i \in DOMAIN internal : /\ internal[i].type = type
                                                /\ internal[i].a = a

AcquiringHasWork ==
  at # "done" /\ eng.lock = Acquiring =>
    IF eng.resolve # NoResolve
      THEN \/ \E j \in jobs : j.kind = "resolve" /\ j.a = eng.resolve.a
           \/ Answered("DeviceResolveDone", eng.resolve.a)
      ELSE \/ \E j \in jobs : j.kind = "claim" /\ j.a = eng.attempt
           \/ Answered("ClaimDone", eng.attempt)

\* The last Open is answered by an event, dropped with the lock or by Stop, or
\* it is the deferred one and a capture is still waited for: no capture that
\* succeeds, fails, is repeated or is given up leaves it behind (TZ-20).  The
\* exception is an Open deferred while a device is looked for (HandleResolveDone,
\* Forsake): when none is found, or the capture is refused at once, the code
\* sends nothing about it.  A captured device leaves no Open deferred, and what
\* a loss of the device brings back is the track whose generation the engine
\* names, however often devices and modes changed meanwhile.
OpenIsKept ==
  /\ eng.awaited # 0 => eng.deferred.gen = eng.awaited /\ eng.lock = Acquiring
  /\ eng.deferred # NoOpen => eng.lock.kind # "Held"
  /\ eng.current.gen = eng.current.track

\* After a loss of the device nothing plays until the user says so, though
\* the device may come back and the track be opened again (TZ-126).
NoPlayAfterLoss == eng.quiet => ~eng.playing

\* What the documents say and the code does not keep: the lock is inactive in
\* the Compatible mode only (lock.rs:20, TZ-50), so a chosen exclusive mode
\* captures a device or tells why not (TZ-143, TZ-144).
InactiveIsCompatible ==
  at # "done" /\ eng.lock = NotApplicable => eng.mode = "Compatible"

=============================================================================
