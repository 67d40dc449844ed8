---------------------------- MODULE EngineProofs ----------------------------
(***************************************************************************)
(* Proofs about the engine of the exclusive modes (module Engine), for any *)
(* devices, cards and outdated ids, and for any number of captures,        *)
(* openings, losses and changes of mode.                                   *)
(*                                                                         *)
(* The fields of the engine are one record, so the inductive invariant is  *)
(* a predicate of that record, of the messages on their way to it and of   *)
(* the service threads; the lemmas follow the methods of the engine.       *)
(***************************************************************************)
EXTENDS Engine, TLAPS

DeviceOrNone == Device \cup {NoDevice}

\* The states the lock can be in.
Locks == {NotApplicable, Open, Acquiring} \cup {Held(d) : d \in Device}
           \cup {Failed(r) : r \in Reason}
Idle == {"NotApplicable", "Open"}

ClaimType == [a : Nat, dev : DeviceOrNone]
PointType == [dev : DeviceOrNone, track : Nat, autoplay : BOOLEAN]
OpenType == [gen : Nat, autoplay : BOOLEAN]
ResolveType == [a : Nat, in : Input, mode : Mode \cup {"none"}, before : Locks]

JobType == [kind : {"claim", "resolve"}, a : Nat, dev : DeviceOrNone,
            at : {"reserve", "open", "ask"}]
MessageType == [type : {"ClaimDone", "ReservationLost", "DeviceResolveDone"},
                a : Nat, claim : ClaimType, why : Reason \cup {"none"}]

EngineType ==
  [mode : Mode, opts : [Exclusive -> DeviceOrNone], catalog : SUBSET Device,
   lock : Locks, claim : ClaimType, path : ClaimType, playing : BOOLEAN,
   signal : {"running", "ended", "fault"}, attempt : Nat,
   target : DeviceOrNone, resolve : ResolveType, resolves : Nat,
   reacquire : PointType, retry : Nat, deferred : OpenType,
   current : [gen : Nat, track : Nat], stopped : BOOLEAN,
   spawned : SUBSET JobType, asked : Nat, awaited : Nat, quiet : BOOLEAN]

-----------------------------------------------------------------------------
\* What holds of the record whenever no handler runs.

\* Held has one claim, in one of its two places, from the last attempt.
OneClaim(e) ==
  LET c == [a |-> e.attempt, dev |-> e.lock.dev]
  IN IF e.lock.kind = "Held"
       THEN /\ e.target = e.lock.dev
            /\ \/ e.claim = c /\ e.path = NoClaim
               \/ e.claim = NoClaim /\ e.path = c
       ELSE e.claim = NoClaim /\ e.path = NoClaim

\* The Compatible mode has no device.
NoLockInCompatible(e) == e.mode = "Compatible" => e.lock.kind \in Idle

\* A resolution is waited for, and was asked for without a device.
Resolving(e) ==
  e.resolve # NoResolve =>
    /\ e.lock = Acquiring
    /\ e.resolve.a # 0
    /\ e.resolve.mode \in Mode
    /\ e.resolve.in.kind \in Asking \cup {"ModeSelected"}
    /\ e.resolve.in.kind = "ModeSelected" =>
         e.resolve.mode \in Exclusive /\ e.resolve.in.mode = e.resolve.mode
    /\ e.resolve.before.kind \in Idle \cup {"Failed"}
    /\ e.resolve.before.kind \in Idle => e.reacquire = NoPoint

\* An Open that waits is the deferred one.
Kept(e) ==
  /\ e.awaited # 0 => e.deferred.gen = e.awaited
  /\ e.deferred # NoOpen => e.lock.kind # "Held"

\* And it waits for a capture.
Deferred(e) ==
  /\ e.awaited # 0 => e.deferred.gen = e.awaited /\ e.lock = Acquiring
  /\ e.deferred # NoOpen => e.lock.kind # "Held"

\* The point to come back to is about the current track until a device is
\* captured, and is forgotten with the wish to have one.
PointIsCurrent(e) ==
  /\ e.current.gen = e.current.track
  /\ e.reacquire # NoPoint =>
       /\ e.current.gen # 0
       /\ e.lock.kind \notin Idle
       /\ e.lock.kind # "Held" => e.reacquire.track = e.current.track

\* What is quiet stays quiet: nothing that is kept for later would play.
Silent(e) ==
  /\ e.playing => e.path # NoClaim
  /\ e.quiet => ~e.playing /\ ~e.deferred.autoplay /\ ~e.reacquire.autoplay

Sound(e) == /\ OneClaim(e) /\ Resolving(e) /\ Deferred(e)
            /\ PointIsCurrent(e) /\ Silent(e)

\* Captures are numbered: one of the last number is for the device that the
\* engine waits for.
JobIsNumbered(e, j) ==
  j.kind = "claim" => /\ j.a <= e.attempt
                      /\ j.dev \in Device
                      /\ j.a = e.attempt => j.dev = e.target

MessageIsNumbered(e, m) ==
  m.type = "ClaimDone" =>
    /\ m.a <= e.attempt
    /\ IF m.claim = NoClaim THEN m.why \in Reason
       ELSE /\ m.claim.a = m.a
            /\ m.claim.dev \in Device
            /\ m.a = e.attempt => m.claim.dev = e.target

Numbered(e, queue, js) == /\ \A j \in js : JobIsNumbered(e, j)
                          /\ \A i \in DOMAIN queue : MessageIsNumbered(e, queue[i])

\* Whoever shows Acquiring is waited for.
Worked(e, queue, js) ==
  e.lock = Acquiring =>
    LET kind == IF e.resolve # NoResolve THEN "resolve" ELSE "claim"
        type == IF e.resolve # NoResolve THEN "DeviceResolveDone" ELSE "ClaimDone"
        a == IF e.resolve # NoResolve THEN e.resolve.a ELSE e.attempt
    IN \/ \E j \in js : j.kind = kind /\ j.a = a
       \/ \E i \in DOMAIN queue : queue[i].type = type /\ queue[i].a = a

TypeOK == /\ eng \in EngineType
          /\ at \in {"recv", "poll", "drain", "done"}
          /\ internal \in Seq(MessageType)
          /\ jobs \in SUBSET JobType
          /\ present \in SUBSET Device

\* The inductive invariant.
IInv ==
  /\ TypeOK
  /\ eng.spawned = {}
  /\ IF at = "done"
       THEN /\ eng.path = NoClaim /\ Deferred(eng)
            /\ eng.current.gen = eng.current.track
            /\ eng.quiet => ~eng.playing
       ELSE /\ Sound(eng) /\ NoLockInCompatible(eng)
            /\ Numbered(eng, internal, jobs)
            /\ Worked(eng, internal, jobs)

-----------------------------------------------------------------------------
(* What a step of the lock is.                                             *)

Does(s, lock, drop, forget, acquire) ==
  /\ s.lock = lock
  /\ s.fx.stop = drop /\ s.fx.release = drop
  /\ s.fx.forget = forget /\ s.fx.acquire = acquire

ModeAfter(mode, in) == IF in.kind = "ModeSelected" THEN in.mode ELSE mode

\* The inputs that come with something: the others are pressed.
Legal(in) ==
  /\ in \in Input
  /\ in.kind \notin {"Captured", "CaptureFailed", "Shutdown"}
  /\ in.kind \in {"DeviceSelected", "DeviceReappeared"} => in.dev \in Device
  /\ in.kind = "ModeSelected" => in.mode \in Mode

\* The steps there are, from l.
Stays(l, s) == Does(s, l, FALSE, FALSE, NoDevice)
Leaves(s) == Does(s, NotApplicable, FALSE, FALSE, NoDevice)
HasNone(l, s) == /\ Does(s, Failed("NoDeviceSelected"), FALSE, FALSE, NoDevice)
                 /\ l.kind \in Idle \cup {"Failed"}
Asks(l, in, mode, s) == /\ \E d \in Device : Does(s, Acquiring, FALSE, FALSE, d)
                        /\ l.kind \in Idle \cup {"Failed"}
                        /\ ModeAfter(mode, in) \in Exclusive
LetsGo(l, s) == /\ Does(s, NotApplicable, TRUE, TRUE, NoDevice)
                /\ l.kind \in {"Held", "Acquiring", "Failed"}
Changes(l, in, mode, s) ==
  /\ \E d \in Device : Does(s, Acquiring, TRUE, FALSE, d)
  /\ l.kind = "Held" /\ in.kind = "DeviceSelected"
  /\ ModeAfter(mode, in) \in Exclusive
Opens(l, s) == \/ l.kind = "Held" /\ Does(s, Open, TRUE, TRUE, NoDevice)
               \/ l.kind = "Failed" /\ Does(s, Open, FALSE, TRUE, NoDevice)
IsLost(l, in, s) ==
  /\ Does(s, Failed("DeviceDisconnected"), TRUE, FALSE, NoDevice)
  /\ l.kind = "Held" /\ in.kind = "DeviceLost"

OneOf(l, in, mode, s) ==
  \/ Stays(l, s)
  \/ mode = "Compatible" /\ Leaves(s)
  \/ HasNone(l, s)
  \/ Asks(l, in, mode, s)
  \/ LetsGo(l, s)
  \/ Changes(l, in, mode, s)
  \/ Opens(l, s)
  \/ IsLost(l, in, s)

LEMMA StopReleaseIs ==
  /\ StopRelease \in Effects
  /\ StopRelease.stop /\ StopRelease.release
  /\ ~StopRelease.forget /\ StopRelease.acquire = NoDevice
<1>1. Nothing \in Effects
  BY DEF Nothing, Effects
<1>. QED
  BY <1>1 DEF StopRelease, Nothing, Effects

LEMMA LockIsOneOf ==
  ASSUME NEW l \in Locks
  PROVE  \/ l = NotApplicable /\ l.kind = "NotApplicable"
         \/ l = Open /\ l.kind = "Open"
         \/ l = Acquiring /\ l.kind = "Acquiring"
         \/ l.kind = "Held" /\ l.dev \in Device /\ l = Held(l.dev)
         \/ l.kind = "Failed" /\ l.why \in Reason /\ l = Failed(l.why)
BY DEF Locks, NotApplicable, Open, Acquiring, Held, Failed, Plain

\* lock_step, in a mode where the device may be asked for, makes one of these
\* steps, and in the Compatible mode nothing is left of the lock.
LEMMA StepIsOneOf ==
  ASSUME NEW l \in Locks, NEW in, Legal(in), NEW mode \in Mode,
         NEW dev \in DeviceOrNone,
         mode = "Compatible" => l.kind \in Idle
  PROVE  OneOf(l, in, mode, LockStep(l, in, mode, dev))
<1> DEFINE s == LockStep(l, in, mode, dev)
<1> USE DeviceAssumption
<1>a. CASE mode = "Compatible"
  <2>1. s = CompatibleRow(in, dev)
    BY <1>a DEF LockStep, Legal
  <2>2. CASE in.kind = "ModeSelected" /\ in.mode \in Exclusive
    <3>1. s = AcquireOrFail(dev)
      BY <2>1, <2>2 DEF CompatibleRow
    <3>2. CASE dev = NoDevice
      BY <3>1, <3>2, <1>a DEF AcquireOrFail, Stay, Step, OneOf, HasNone, Does, Nothing
    <3>3. CASE dev # NoDevice
      <4>1. dev \in Device
        BY <3>3 DEF DeviceOrNone
      <4>2. Does(s, Acquiring, FALSE, FALSE, dev)
        BY <3>1, <3>3 DEF AcquireOrFail, Step, Acquire, Does, Nothing
      <4>. QED
        BY <4>1, <4>2, <1>a, <2>2 DEF OneOf, Asks, ModeAfter
    <3>. QED
      BY <3>2, <3>3
  <2>3. CASE ~(in.kind = "ModeSelected" /\ in.mode \in Exclusive)
    <3>1. s = Stay(NotApplicable)
      BY <2>1, <2>3 DEF CompatibleRow
    <3>. QED
      BY <3>1, <1>a DEF OneOf, Leaves, Does, Stay, Step, Nothing
  <2>. QED
    BY <2>2, <2>3
<1>b. CASE mode # "Compatible"
  <2>0. mode \in Exclusive
    BY <1>b DEF Mode
  <2>1. s = ExclusiveRow(l, in, dev)
    BY <1>b DEF LockStep, Legal
  <2>st. s = Stay(l) => OneOf(l, in, mode, s)
    BY DEF OneOf, Stays, Does, Stay, Step, Nothing
  <2>ask. ASSUME s = Ask(l, dev), ModeAfter(mode, in) \in Exclusive
          PROVE  OneOf(l, in, mode, s)
    <3>1. CASE l.kind \notin {"Open", "Failed"}
      BY <3>1, <2>ask, <2>st DEF Ask
    <3>2. CASE l.kind \in {"Open", "Failed"} /\ dev = NoDevice
      BY <3>2, <2>ask DEF Ask, AcquireOrFail, Stay, Step, OneOf, HasNone, Does,
                          Nothing, Idle
    <3>3. CASE l.kind \in {"Open", "Failed"} /\ dev # NoDevice
      <4>1. dev \in Device
        BY <3>3 DEF DeviceOrNone
      <4>2. Does(s, Acquiring, FALSE, FALSE, dev)
        BY <2>ask, <3>3 DEF Ask, AcquireOrFail, Step, Acquire, Does, Nothing
      <4>. QED
        BY <4>1, <4>2, <3>3, <2>ask DEF OneOf, Asks, Idle
    <3>. QED
      BY <3>1, <3>2, <3>3
  <2>2. CASE in.kind = "ModeSelected" /\ in.mode = "Compatible"
    <3>1. s = Leave(l)
      BY <2>1, <2>2 DEF ExclusiveRow, Asking
    <3>2. CASE l.kind \in {"Held", "Acquiring", "Failed"}
      BY <3>1, <3>2, StopReleaseIs DEF Effects, Leave, OneOf, LetsGo, Does, Step
    <3>3. CASE l.kind \notin {"Held", "Acquiring", "Failed"}
      BY <3>1, <3>3, <2>st DEF Leave
    <3>. QED
      BY <3>2, <3>3
  <2>3. CASE in.kind = "ModeSelected" /\ in.mode # "Compatible"
    <3>1. s = Ask(l, dev)
      BY <2>1, <2>3 DEF ExclusiveRow, Asking
    <3>2. ModeAfter(mode, in) \in Exclusive
      BY <2>3 DEF ModeAfter, Legal, Mode
    <3>. QED
      BY <3>1, <3>2, <2>ask
  <2>4. CASE in.kind \in Asking
    <3>1. s = Ask(l, dev)
      BY <2>1, <2>4 DEF ExclusiveRow, Asking
    <3>2. ModeAfter(mode, in) \in Exclusive
      BY <2>4, <2>0 DEF ModeAfter, Asking
    <3>. QED
      BY <3>1, <3>2, <2>ask
  <2>5. CASE in.kind = "DeviceSelected"
    <3>1. s = Change(l, in.dev) /\ in.dev \in Device
      BY <2>1, <2>5 DEF ExclusiveRow, Asking, Legal
    <3>2. CASE l.kind = "Held"
      <4>1. Does(s, Acquiring, TRUE, FALSE, in.dev)
        BY <3>1, <3>2, StopReleaseIs DEF Effects, Change, Does, Step
      <4>. QED
        BY <4>1, <3>1, <3>2, <2>5, <2>0 DEF OneOf, Changes, ModeAfter
    <3>3. CASE l.kind \in {"Open", "Failed"}
      <4>1. Does(s, Acquiring, FALSE, FALSE, in.dev)
        BY <3>1, <3>3 DEF Change, Does, Step, Acquire, Nothing
      <4>. QED
        BY <4>1, <3>1, <3>3, <2>5, <2>0 DEF OneOf, Asks, ModeAfter, Idle
    <3>4. CASE l.kind \notin {"Held", "Open", "Failed"}
      BY <3>1, <3>4, <2>st DEF Change
    <3>. QED
      BY <3>2, <3>3, <3>4
  <2>6. CASE in.kind = "UserOpen"
    <3>1. s = GiveUp(l)
      BY <2>1, <2>6 DEF ExclusiveRow, Asking
    <3>2. CASE l.kind = "Held"
      BY <3>1, <3>2, StopReleaseIs DEF Effects, Failed, GiveUp, OneOf, Opens, Does, Step
    <3>3. CASE l.kind # "Held" /\ l = Failed("DeviceDisconnected")
      BY <3>1, <3>3 DEF GiveUp, OneOf, Opens, Does, Step, Nothing, Failed
    <3>4. CASE l.kind # "Held" /\ l # Failed("DeviceDisconnected")
      BY <3>1, <3>4, <2>st DEF GiveUp
    <3>. QED
      BY <3>2, <3>3, <3>4
  <2>7. CASE in.kind = "DeviceLost"
    <3>1. s = Lose(l)
      BY <2>1, <2>7 DEF ExclusiveRow, Asking
    <3>2. CASE l.kind = "Held"
      BY <3>1, <3>2, <2>7, StopReleaseIs DEF Effects, Lose, OneOf, IsLost, Does, Step
    <3>3. CASE l.kind # "Held"
      BY <3>1, <3>3, <2>st DEF Lose
    <3>. QED
      BY <3>2, <3>3
  <2>8. CASE in.kind = "DeviceReappeared"
    <3>1. s = IF l = Failed("DeviceDisconnected")
                THEN Step(Acquiring, Acquire(in.dev)) ELSE Stay(l)
      BY <2>1, <2>8 DEF ExclusiveRow, Asking
    <3>2. CASE l = Failed("DeviceDisconnected")
      <4>1. Does(s, Acquiring, FALSE, FALSE, in.dev)
        BY <3>1, <3>2 DEF Does, Step, Acquire, Nothing
      <4>2. l.kind = "Failed"
        BY <3>2 DEF Failed
      <4>. QED
        BY <4>1, <4>2, <2>8, <2>0 DEF OneOf, Asks, ModeAfter, Legal
    <3>3. CASE l # Failed("DeviceDisconnected")
      BY <3>1, <3>3, <2>st
    <3>. QED
      BY <3>2, <3>3
  <2>. QED
    BY <2>2, <2>3, <2>4, <2>5, <2>6, <2>7, <2>8 DEF Legal, Input, Asking
<1>. QED
  BY <1>a, <1>b

\* Nothing is left of the lock in the Compatible mode.
LEMMA CompatibleIsIdle ==
  ASSUME NEW l \in Locks, NEW in, Legal(in), NEW mode \in Mode,
         NEW dev \in DeviceOrNone,
         ModeAfter(mode, in) = "Compatible"
  PROVE  LockStep(l, in, mode, dev).lock.kind \in Idle
<1>1. CASE mode = "Compatible"
  <2>1. LockStep(l, in, mode, dev) = Stay(NotApplicable)
    BY <1>1 DEF LockStep, Legal, CompatibleRow, ModeAfter, Exclusive
  <2>. QED
    BY <2>1 DEF Stay, Step, NotApplicable, Plain, Idle
<1>2. CASE mode # "Compatible"
  <2>1. in.kind = "ModeSelected" /\ in.mode = "Compatible"
    BY <1>2 DEF ModeAfter
  <2>2. LockStep(l, in, mode, dev) = Leave(l)
    BY <2>1, <1>2 DEF LockStep, ExclusiveRow, Asking
  <2>. QED
    BY <2>2, LockIsOneOf DEF Leave, Stay, Step, NotApplicable, Plain, Idle
<1>. QED
  BY <1>1, <1>2

-----------------------------------------------------------------------------
(* What the methods do to the fields.                                      *)

\* Fields that no step of the lock touches.
Apart(e, f) == /\ f.catalog = e.catalog /\ f.resolves = e.resolves
               /\ f.current = e.current /\ f.asked = e.asked
               /\ f.quiet = e.quiet

\* The claim and what is played on it.
SamePath(e, f) == /\ f.claim = e.claim /\ f.path = e.path
                  /\ f.playing = e.playing
SameOpen(e, f) == f.deferred = e.deferred /\ f.awaited = e.awaited
SameWork(e, f) == /\ f.attempt = e.attempt /\ f.target = e.target
                  /\ f.spawned = e.spawned
SameLock(e, f) == f.lock = e.lock /\ f.mode = e.mode
SameRest(e, f) == f.reacquire = e.reacquire /\ f.resolve = e.resolve

LEMMA NoneAreTyped ==
  /\ NoClaim \in ClaimType /\ NoPoint \in PointType
  /\ NoOpen \in OpenType /\ NoResolve \in ResolveType
BY DEF NoClaim, NoPoint, NoOpen, NoResolve, ClaimType, PointType, OpenType,
       ResolveType, DeviceOrNone, Input, Press, Mode, Locks

\* ExclusivePath::close moves the claim, if there is a path.
LEMMA ClosePathDoes ==
  ASSUME NEW e \in EngineType
  PROVE  LET f == ClosePath(e)
         IN /\ f \in EngineType
            /\ Apart(e, f) /\ SameOpen(e, f) /\ SameWork(e, f)
            /\ SameLock(e, f) /\ SameRest(e, f)
            /\ f.path = NoClaim
            /\ IF e.path = NoClaim
                 THEN f.claim = e.claim /\ f.playing = e.playing
                 ELSE f.claim = e.path /\ ~f.playing
BY NoneAreTyped DEF ClosePath, EngineType, Apart, SameOpen, SameWork, SameLock,
                    SameRest

LEMMA UndeferDoes ==
  ASSUME NEW e \in EngineType
  PROVE  LET f == Undefer(e)
         IN /\ f \in EngineType
            /\ Apart(e, f) /\ SamePath(e, f) /\ SameWork(e, f)
            /\ SameLock(e, f) /\ SameRest(e, f)
            /\ f.deferred = NoOpen
            /\ f.awaited = IF e.awaited = e.deferred.gen THEN 0 ELSE e.awaited
BY NoneAreTyped DEF Undefer, EngineType, Apart, SamePath, SameWork, SameLock,
                    SameRest

LEMMA StopPlaybackDoes ==
  ASSUME NEW e \in EngineType
  PROVE  LET f == StopPlayback(e)
         IN /\ f \in EngineType
            /\ Apart(e, f) /\ SameWork(e, f) /\ SameLock(e, f) /\ SameRest(e, f)
            /\ f.path = NoClaim
            /\ IF e.path = NoClaim
                 THEN f.claim = e.claim /\ f.playing = e.playing
                 ELSE f.claim = e.path /\ ~f.playing
            /\ f.deferred = NoOpen
            /\ f.awaited = IF e.awaited = e.deferred.gen THEN 0 ELSE e.awaited
<1> DEFINE c == ClosePath(e)
           s == [c EXCEPT !.stopped = TRUE]
<1>1. /\ c \in EngineType
      /\ Apart(e, c) /\ SameOpen(e, c) /\ SameWork(e, c)
      /\ SameLock(e, c) /\ SameRest(e, c)
      /\ c.path = NoClaim
      /\ IF e.path = NoClaim
           THEN c.claim = e.claim /\ c.playing = e.playing
           ELSE c.claim = e.path /\ ~c.playing
  BY ClosePathDoes
<1> HIDE DEF c
<1>2. /\ s \in EngineType
      /\ Apart(c, s) /\ SamePath(c, s) /\ SameOpen(c, s) /\ SameWork(c, s)
      /\ SameLock(c, s) /\ SameRest(c, s)
  BY <1>1 DEF EngineType, Apart, SamePath, SameOpen, SameWork, SameLock, SameRest
<1> HIDE DEF s
<1>3. /\ Undefer(s) \in EngineType
      /\ Apart(s, Undefer(s)) /\ SamePath(s, Undefer(s)) /\ SameWork(s, Undefer(s))
      /\ SameLock(s, Undefer(s)) /\ SameRest(s, Undefer(s))
      /\ Undefer(s).deferred = NoOpen
      /\ Undefer(s).awaited = IF s.awaited = s.deferred.gen THEN 0 ELSE s.awaited
  BY <1>2, UndeferDoes
<1>4. StopPlayback(e) = Undefer(s)
  BY DEF StopPlayback, s, c
<1>. QED
  BY <1>1, <1>2, <1>3, <1>4
     DEF Apart, SamePath, SameOpen, SameWork, SameLock, SameRest

LEMMA ReleaseDoes ==
  ASSUME NEW e \in EngineType
  PROVE  LET f == Release(e)
         IN /\ f \in EngineType
            /\ Apart(e, f) /\ SameLock(e, f) /\ SameRest(e, f)
            /\ f.attempt = e.attempt + 1 /\ f.target = NoDevice
            /\ f.spawned = e.spawned
            /\ f.claim = NoClaim /\ f.path = e.path /\ f.playing = e.playing
            /\ f.deferred = NoOpen
            /\ f.awaited = IF e.awaited = e.deferred.gen THEN 0 ELSE e.awaited
<1> DEFINE r == [e EXCEPT !.attempt = @ + 1, !.claim = NoClaim,
                          !.target = NoDevice]
<1>1. /\ r \in EngineType
      /\ Apart(e, r) /\ SameLock(e, r) /\ SameRest(e, r) /\ SameOpen(e, r)
      /\ r.attempt = e.attempt + 1 /\ r.target = NoDevice
      /\ r.spawned = e.spawned
      /\ r.claim = NoClaim /\ r.path = e.path /\ r.playing = e.playing
  <2>1. e.attempt + 1 \in Nat /\ NoDevice \in DeviceOrNone
    BY DEF EngineType, DeviceOrNone
  <2>2. r \in EngineType
    BY <2>1, NoneAreTyped DEF EngineType
  <2>. QED
    BY <2>2 DEF EngineType, Apart, SameLock, SameRest, SameOpen
<1> HIDE DEF r
<1>2. /\ Undefer(r) \in EngineType
      /\ Apart(r, Undefer(r)) /\ SamePath(r, Undefer(r)) /\ SameWork(r, Undefer(r))
      /\ SameLock(r, Undefer(r)) /\ SameRest(r, Undefer(r))
      /\ Undefer(r).deferred = NoOpen
      /\ Undefer(r).awaited = IF r.awaited = r.deferred.gen THEN 0 ELSE r.awaited
  BY <1>1, UndeferDoes
<1>3. Release(e) = Undefer(r)
  BY DEF Release, r
<1>. QED
  BY <1>1, <1>2, <1>3
     DEF Apart, SamePath, SameOpen, SameWork, SameLock, SameRest

LEMMA ForgetReacquireDoes ==
  ASSUME NEW e \in EngineType
  PROVE  LET f == ForgetReacquire(e)
         IN /\ f \in EngineType
            /\ Apart(e, f) /\ SamePath(e, f) /\ SameOpen(e, f)
            /\ SameWork(e, f) /\ SameLock(e, f)
            /\ f.reacquire = NoPoint /\ f.resolve = e.resolve
BY NoneAreTyped DEF ForgetReacquire, EngineType, Apart, SamePath, SameOpen,
                    SameWork, SameLock

LEMMA ForgetResolveDoes ==
  ASSUME NEW e \in EngineType
  PROVE  LET f == ForgetResolve(e)
         IN /\ f \in EngineType
            /\ Apart(e, f) /\ SamePath(e, f) /\ SameOpen(e, f)
            /\ SameWork(e, f) /\ SameLock(e, f)
            /\ f.reacquire = e.reacquire
            /\ f.resolve = IF e.lock = Acquiring THEN e.resolve ELSE NoResolve
BY NoneAreTyped DEF ForgetResolve, EngineType, Apart, SamePath, SameOpen,
                    SameWork, SameLock

LEMMA AnswerDoes ==
  ASSUME NEW e \in EngineType, NEW g
  PROVE  LET f == Answer(e, g)
         IN /\ f \in EngineType
            /\ Apart(e, f) /\ SamePath(e, f) /\ SameWork(e, f)
            /\ SameLock(e, f) /\ SameRest(e, f)
            /\ f.deferred = e.deferred
            /\ f.awaited = IF e.awaited = g THEN 0 ELSE e.awaited
BY DEF Answer, EngineType, Apart, SamePath, SameWork, SameLock, SameRest

LEMMA CanonicalIsDevice ==
  ASSUME NEW e \in EngineType, NEW d
  PROVE  /\ Canonical(e, d) \in DeviceOrNone
         /\ Canonical(e, d) # NoDevice => Canonical(e, d) \in Device
<1>1. CASE d \in e.catalog
  BY <1>1, DeviceAssumption DEF Canonical, EngineType, DeviceOrNone
<1>2. CASE d \in DOMAIN Numeric \ e.catalog
  BY <1>2, EngineAssumption DEF Canonical, EngineType, DeviceOrNone
<1>3. CASE d \notin e.catalog /\ d \notin DOMAIN Numeric
  BY <1>3 DEF Canonical, DeviceOrNone
<1>. QED
  BY <1>1, <1>2, <1>3

\* The device by the name the catalogue has for it.
Wanted(e, dev) == IF Canonical(e, dev) = NoDevice THEN dev ELSE Canonical(e, dev)

\* The step proper: the lock, the options and the mode.
LEMMA SettleDoes ==
  ASSUME NEW e \in EngineType, NEW in, NEW m \in Mode, NEW before,
         NEW dev \in DeviceOrNone, NEW found \in BOOLEAN,
         LockStep(before, in, e.mode, Wanted(e, dev)).lock \in Locks
  PROVE  LET f == Settle(e, in, m, before, dev, found)
         IN /\ f \in EngineType
            /\ Apart(e, f) /\ SamePath(e, f) /\ SameOpen(e, f)
            /\ SameWork(e, f) /\ SameRest(e, f)
            /\ f.lock = LockStep(before, in, e.mode, Wanted(e, dev)).lock
            /\ f.mode = IF in.kind = "ModeSelected" THEN m ELSE e.mode
<1> DEFINE d == Wanted(e, dev)
           s == LockStep(before, in, e.mode, d)
           store == /\ m \in Exclusive
                    /\ IF found THEN s.fx.acquire # NoDevice ELSE d # dev
           opts == IF store THEN [e.opts EXCEPT ![m] = d] ELSE e.opts
           mode == IF in.kind = "ModeSelected" THEN m ELSE e.mode
<1>1. d \in DeviceOrNone
  BY CanonicalIsDevice DEF Wanted
<1>2. opts \in [Exclusive -> DeviceOrNone]
  BY <1>1 DEF EngineType
<1>3. mode \in Mode
  BY DEF EngineType
<1>4. Settle(e, in, m, before, dev, found) =
        [e EXCEPT !.lock = s.lock, !.opts = opts, !.mode = mode]
  BY DEF Settle, Wanted
<1>l. s.lock \in Locks
  OBVIOUS
<1> HIDE DEF opts, mode, d, s
<1>5. [e EXCEPT !.lock = s.lock, !.opts = opts, !.mode = mode] \in EngineType
  BY <1>2, <1>3, <1>l DEF EngineType
<1>. QED
  BY <1>4, <1>5 DEF EngineType, Apart, SamePath, SameOpen, SameWork, SameRest, mode, s, d

LEMMA ModeDeviceIsTyped ==
  ASSUME NEW e \in EngineType, NEW m \in Mode
  PROVE  ModeDevice(e, m) \in DeviceOrNone
BY DEF ModeDevice, EngineType, DeviceOrNone

\* lock_input with the result of a capture, which decides the lock alone.
LEMMA ResultDecides ==
  ASSUME NEW e \in EngineType, NEW in, in.kind # "ModeSelected",
         NEW l \in Locks,
         \A d : LockStep(e.lock, in, e.mode, d).lock = l
  PROVE  LET f == CaptureResult(e, in)
         IN /\ f \in EngineType
            /\ Apart(e, f) /\ SamePath(e, f) /\ SameOpen(e, f) /\ SameWork(e, f)
            /\ f.mode = e.mode /\ f.lock = l
            /\ f.reacquire = e.reacquire
            /\ f.resolve = IF l = Acquiring THEN e.resolve ELSE NoResolve
<1> DEFINE dev == ModeDevice(e, e.mode)
           s == LockStep(e.lock, in, e.mode, Wanted(e, dev))
           t == Settle(e, in, e.mode, e.lock, dev, FALSE)
<1>1. e.mode \in Mode /\ dev \in DeviceOrNone
  BY ModeDeviceIsTyped DEF EngineType
<1>2. s.lock = l
  OBVIOUS
<1> HIDE DEF dev
<1>3. /\ t \in EngineType
      /\ Apart(e, t) /\ SamePath(e, t) /\ SameOpen(e, t)
      /\ SameWork(e, t) /\ SameRest(e, t)
      /\ t.lock = s.lock
      /\ t.mode = IF in.kind = "ModeSelected" THEN e.mode ELSE e.mode
  <2>1. LockStep(e.lock, in, e.mode, Wanted(e, dev)).lock \in Locks
    BY <1>2
  <2>. QED
    BY <1>1, <2>1, SettleDoes
<1>4. CaptureResult(e, in) = ForgetResolve(t)
  BY DEF CaptureResult, dev
<1> HIDE DEF t, s
<1>. QED
  BY <1>2, <1>3, <1>4, ForgetResolveDoes
     DEF Apart, SamePath, SameOpen, SameWork, SameRest, SameLock

LEMMA CaptureFailedDoes ==
  ASSUME NEW e \in EngineType, e.mode \in Exclusive, e.lock = Acquiring,
         NEW r \in Reason
  PROVE  LET f == CaptureResult(e, CaptureFailed(r))
         IN /\ f \in EngineType
            /\ Apart(e, f) /\ SamePath(e, f) /\ SameOpen(e, f) /\ SameWork(e, f)
            /\ f.mode = e.mode /\ f.lock = Failed(r)
            /\ f.reacquire = e.reacquire /\ f.resolve = NoResolve
<1> DEFINE in == CaptureFailed(r)
<1>1. in.kind = "CaptureFailed" /\ in.why = r
  BY DEF CaptureFailed, Press
<1> HIDE DEF in
<1>2. ASSUME NEW d PROVE LockStep(e.lock, in, e.mode, d).lock = Failed(r)
  BY <1>1 DEF LockStep, ExclusiveRow, Exclusive, Asking, Stay, Step, Acquiring, Plain
<1>3. Failed(r) \in Locks /\ Failed(r) # Acquiring
  BY DEF Locks, Failed, Acquiring, Plain
<1>. QED
  BY <1>1, <1>2, <1>3, ResultDecides DEF in

LEMMA CapturedDoes ==
  ASSUME NEW e \in EngineType, e.mode \in Exclusive, e.lock = Acquiring,
         NEW d \in Device
  PROVE  LET f == CaptureResult(e, Captured(d))
         IN /\ f \in EngineType
            /\ Apart(e, f) /\ SamePath(e, f) /\ SameOpen(e, f) /\ SameWork(e, f)
            /\ f.mode = e.mode /\ f.lock = Held(d)
            /\ f.reacquire = e.reacquire /\ f.resolve = NoResolve
<1> DEFINE in == Captured(d)
<1>1. in.kind = "Captured" /\ in.dev = d
  BY DEF Captured, Press
<1> HIDE DEF in
<1>2. ASSUME NEW x PROVE LockStep(e.lock, in, e.mode, x).lock = Held(d)
  BY <1>1 DEF LockStep, ExclusiveRow, Exclusive, Asking, Stay, Step, Acquiring, Plain
<1>3. Held(d) \in Locks /\ Held(d) # Acquiring
  BY DEF Locks, Held, Acquiring, Plain
<1>. QED
  BY <1>1, <1>2, <1>3, ResultDecides DEF in

\* start_claim: a new attempt, which is on its way or has failed.
Starts(e, f) ==
  \/ /\ f.lock = Acquiring /\ f.resolve = e.resolve
     /\ f.target \in Device
     /\ f.spawned = e.spawned \cup {ClaimJob(f.attempt, f.target)}
  \/ /\ f.lock.kind = "Failed" /\ f.resolve = NoResolve
     /\ f.spawned = e.spawned

LEMMA StartClaimDoes ==
  ASSUME NEW e \in EngineType, e.mode \in Exclusive, e.lock = Acquiring,
         NEW dev, NEW sp \in BOOLEAN
  PROVE  LET f == StartClaim(e, dev, sp)
         IN /\ f \in EngineType
            /\ Apart(e, f) /\ SamePath(e, f) /\ SameOpen(e, f)
            /\ f.mode = e.mode /\ f.reacquire = e.reacquire
            /\ f.attempt = e.attempt + 1
            /\ Starts(e, f)
<1> DEFINE n == [e EXCEPT !.attempt = @ + 1]
           d == Canonical(e, dev)
           t == [n EXCEPT !.target = d]
           j == ClaimJob(t.attempt, d)
           u == [t EXCEPT !.spawned = @ \cup {j}]
<1>0. e.attempt + 1 \in Nat /\ e.attempt \in Nat
  BY DEF EngineType
<1>1. /\ n \in EngineType
      /\ Apart(e, n) /\ SamePath(e, n) /\ SameOpen(e, n) /\ SameLock(e, n)
      /\ SameRest(e, n) /\ n.attempt = e.attempt + 1 /\ n.spawned = e.spawned
  BY <1>0 DEF EngineType, Apart, SamePath, SameOpen, SameLock, SameRest
<1>2. d \in DeviceOrNone /\ (d # NoDevice => d \in Device)
  BY CanonicalIsDevice
<1>s. StartClaim(e, dev, sp) =
        IF d = NoDevice THEN CaptureResult(n, CaptureFailed("DeviceDisconnected"))
        ELSE IF sp THEN u ELSE CaptureResult(t, CaptureFailed("Refused"))
  BY DEF StartClaim
<1> HIDE DEF n, d
<1>3. /\ t \in EngineType
      /\ Apart(n, t) /\ SamePath(n, t) /\ SameOpen(n, t) /\ SameLock(n, t)
      /\ SameRest(n, t) /\ t.attempt = n.attempt /\ t.spawned = n.spawned
      /\ t.target = d
  BY <1>1, <1>2 DEF EngineType, Apart, SamePath, SameOpen, SameLock, SameRest
<1> HIDE DEF t
<1>4. ASSUME NEW f, NEW g \in EngineType, NEW r \in Reason,
             f = CaptureResult(g, CaptureFailed(r)),
             Apart(e, g) /\ SamePath(e, g) /\ SameOpen(e, g) /\ SameLock(e, g),
             SameRest(e, g), g.attempt = e.attempt + 1, g.spawned = e.spawned
      PROVE  /\ f \in EngineType
             /\ Apart(e, f) /\ SamePath(e, f) /\ SameOpen(e, f)
             /\ f.mode = e.mode /\ f.reacquire = e.reacquire
             /\ f.attempt = e.attempt + 1 /\ Starts(e, f)
  <2>1. g.mode \in Exclusive /\ g.lock = Acquiring
    BY <1>4 DEF SameLock
  <2>2. Failed(r).kind = "Failed"
    BY DEF Failed
  <2>3. /\ f \in EngineType
        /\ Apart(g, f) /\ SamePath(g, f) /\ SameOpen(g, f) /\ SameWork(g, f)
        /\ f.mode = g.mode /\ f.lock = Failed(r)
        /\ f.reacquire = g.reacquire /\ f.resolve = NoResolve
    BY <1>4, <2>1, CaptureFailedDoes
  <2>. QED
    BY <1>4, <2>2, <2>3
       DEF Apart, SamePath, SameOpen, SameWork, SameLock, SameRest, Starts
<1>5. CASE d = NoDevice
  BY <1>5, <1>s, <1>1, <1>4 DEF Reason
<1>6. CASE d # NoDevice /\ sp
  <2>1. t.attempt = e.attempt + 1 /\ t.attempt \in Nat /\ d \in Device
    BY <1>6, <1>0, <1>1, <1>2, <1>3
  <2>2. j \in JobType
    BY <2>1 DEF ClaimJob, JobType, DeviceOrNone
  <2> HIDE DEF j
  <2>3. t.spawned \cup {j} \in SUBSET JobType
    BY <1>3, <2>2 DEF EngineType
  <2>4. /\ u \in EngineType
        /\ Apart(t, u) /\ SamePath(t, u) /\ SameOpen(t, u) /\ SameLock(t, u)
        /\ SameRest(t, u) /\ u.attempt = t.attempt /\ u.target = t.target
        /\ u.spawned = t.spawned \cup {j}
    BY <2>3, <1>3 DEF EngineType, Apart, SamePath, SameOpen, SameLock, SameRest
  <2> HIDE DEF u
  <2>5. StartClaim(e, dev, sp) = u
    BY <1>6, <1>s
  <2>6. u.spawned = e.spawned \cup {ClaimJob(u.attempt, u.target)}
    BY <2>4, <1>1, <1>3 DEF j
  <2>7. Starts(e, u)
    BY <2>1, <2>4, <2>6, <1>1, <1>3 DEF Starts, SameLock, SameRest
  <2>. QED
    BY <2>1, <2>4, <2>5, <2>7, <1>1, <1>3
       DEF Apart, SamePath, SameOpen, SameLock, SameRest
<1>7. CASE d # NoDevice /\ ~sp
  <2>1. /\ Apart(e, t) /\ SamePath(e, t) /\ SameOpen(e, t) /\ SameLock(e, t)
        /\ SameRest(e, t) /\ t.attempt = e.attempt + 1 /\ t.spawned = e.spawned
    BY <1>1, <1>3 DEF Apart, SamePath, SameOpen, SameLock, SameRest
  <2>2. StartClaim(e, dev, sp) = CaptureResult(t, CaptureFailed("Refused"))
    BY <1>7, <1>s
  <2>. QED
    BY <2>1, <2>2, <1>3, <1>4 DEF Reason
<1>. QED
  BY <1>5, <1>6, <1>7

\* What stopping and releasing leave.
Drops(e, f) ==
  /\ f.claim = NoClaim /\ f.path = NoClaim /\ ~f.playing
  /\ f.deferred = NoOpen
  /\ f.awaited = IF e.awaited = e.deferred.gen THEN 0 ELSE e.awaited
  /\ f.attempt > e.attempt

Keeps(e, f) == SamePath(e, f) /\ SameOpen(e, f)

LEMMA PerformDoes ==
  ASSUME NEW e \in EngineType, e.playing => e.path # NoClaim,
         NEW drop \in BOOLEAN, NEW forget \in BOOLEAN, NEW acquire,
         NEW fx, fx.stop = drop, fx.release = drop, fx.forget = forget,
         fx.acquire = acquire,
         acquire # NoDevice => e.mode \in Exclusive /\ e.lock = Acquiring,
         NEW sp \in BOOLEAN
  PROVE  LET f == Perform(e, fx, sp)
         IN /\ f \in EngineType /\ Apart(e, f) /\ f.mode = e.mode
            /\ f.reacquire = IF forget THEN NoPoint ELSE e.reacquire
            /\ IF drop THEN Drops(e, f) ELSE Keeps(e, f)
            /\ IF acquire # NoDevice
                 THEN f.attempt > e.attempt /\ Starts(e, f)
                 ELSE /\ SameLock(e, f) /\ f.resolve = e.resolve
                      /\ f.spawned = e.spawned
                      /\ ~drop => SameWork(e, f)
<1> DEFINE s == IF drop THEN StopPlayback(e) ELSE e
           r == IF drop THEN Release(s) ELSE s
           g == IF forget THEN ForgetReacquire(r) ELSE r
           f == IF acquire = NoDevice THEN g ELSE StartClaim(g, acquire, sp)
<1>1. Perform(e, fx, sp) = f
  BY DEF Perform
<1>2. /\ r \in EngineType /\ Apart(e, r) /\ SameLock(e, r) /\ SameRest(e, r)
      /\ r.spawned = e.spawned
      /\ IF drop THEN Drops(e, r) ELSE Keeps(e, r) /\ SameWork(e, r)
  <2>1. CASE ~drop
    BY <2>1 DEF Keeps, Apart, SamePath, SameOpen, SameWork, SameLock, SameRest
  <2>2. CASE drop
    <3> DEFINE p == StopPlayback(e)
               q == Release(p)
    <3>1. /\ p \in EngineType
          /\ Apart(e, p) /\ SameWork(e, p) /\ SameLock(e, p) /\ SameRest(e, p)
          /\ p.path = NoClaim /\ ~p.playing
          /\ p.deferred = NoOpen
          /\ p.awaited = IF e.awaited = e.deferred.gen THEN 0 ELSE e.awaited
      BY StopPlaybackDoes DEF EngineType
    <3> HIDE DEF p
    <3>2. /\ q \in EngineType
          /\ Apart(p, q) /\ SameLock(p, q) /\ SameRest(p, q)
          /\ q.attempt = p.attempt + 1 /\ q.spawned = p.spawned
          /\ q.claim = NoClaim /\ q.path = p.path /\ q.playing = p.playing
          /\ q.deferred = NoOpen
          /\ q.awaited = IF p.awaited = p.deferred.gen THEN 0 ELSE p.awaited
      BY <3>1, ReleaseDoes
    <3>3. r = q
      BY <2>2 DEF p
    <3> HIDE DEF q, r
    <3>4. e.attempt \in Nat /\ q.awaited = p.awaited
      BY <3>1, <3>2 DEF EngineType, NoOpen
    <3>. QED
      BY <2>2, <3>1, <3>2, <3>3, <3>4
         DEF Drops, Apart, SameWork, SameLock, SameRest
  <2>. QED
    BY <2>1, <2>2
<1> HIDE DEF r
<1>3. /\ g \in EngineType /\ Apart(e, g) /\ SameLock(e, g)
      /\ g.resolve = e.resolve
      /\ g.reacquire = IF forget THEN NoPoint ELSE e.reacquire
      /\ g.spawned = e.spawned
      /\ IF drop THEN Drops(e, g) ELSE Keeps(e, g) /\ SameWork(e, g)
  <2>1. CASE ~forget
    BY <2>1, <1>2 DEF SameRest
  <2>2. CASE forget
    <3>1. /\ g \in EngineType
          /\ Apart(r, g) /\ SamePath(r, g) /\ SameOpen(r, g)
          /\ SameWork(r, g) /\ SameLock(r, g)
          /\ g.reacquire = NoPoint /\ g.resolve = r.resolve
      BY <2>2, <1>2, ForgetReacquireDoes
    <3> HIDE DEF g
    <3>. QED
      BY <2>2, <3>1, <1>2
         DEF Drops, Keeps, Apart, SamePath, SameOpen, SameWork, SameLock, SameRest
  <2>. QED
    BY <2>1, <2>2
<1> HIDE DEF g
<1>4. CASE acquire = NoDevice
  <2>1. f = g
    BY <1>4
  <2>. QED
    BY <1>1, <1>3, <1>4, <2>1 DEF SameLock, SameWork
<1>5. CASE acquire # NoDevice
  <2>1. f = StartClaim(g, acquire, sp)
    BY <1>5
  <2>2. g.mode \in Exclusive /\ g.lock = Acquiring
    BY <1>3, <1>5 DEF SameLock
  <2> HIDE DEF f
  <2>3. /\ f \in EngineType
        /\ Apart(g, f) /\ SamePath(g, f) /\ SameOpen(g, f)
        /\ f.mode = g.mode /\ f.reacquire = g.reacquire
        /\ f.attempt = g.attempt + 1
        /\ Starts(g, f)
    BY <2>1, <2>2, <1>3, StartClaimDoes
  <2>4. e.attempt \in Nat /\ g.attempt \in Nat /\ g.attempt >= e.attempt
    BY <1>3 DEF EngineType, Drops, Keeps, SameWork
  <2>5. f.attempt > e.attempt /\ Starts(e, f)
    BY <2>3, <2>4, <1>3 DEF Starts
  <2>6. IF drop THEN Drops(e, f) ELSE Keeps(e, f)
    BY <2>3, <2>5, <1>3 DEF Drops, Keeps, SamePath, SameOpen
  <2>7. f.mode = e.mode /\ Apart(e, f)
    BY <2>3, <1>3 DEF SameLock, Apart
  <2>. QED
    BY <1>1, <1>3, <1>5, <2>3, <2>5, <2>6, <2>7
<1>. QED
  BY <1>4, <1>5

\* The end of lock_input, for the step s that is made.
Finishes(e, s, mode, f) ==
  /\ f \in EngineType /\ Apart(e, f) /\ f.mode = mode
  /\ f.reacquire = IF s.fx.forget THEN NoPoint ELSE e.reacquire
  /\ f.resolve = IF f.lock = Acquiring THEN e.resolve ELSE NoResolve
  /\ IF s.fx.release THEN Drops(e, f) ELSE Keeps(e, f)
  /\ IF s.fx.acquire # NoDevice
       THEN /\ f.attempt > e.attempt
            /\ \/ /\ f.lock = Acquiring /\ f.target \in Device
                  /\ f.spawned = e.spawned \cup {ClaimJob(f.attempt, f.target)}
               \/ f.lock.kind = "Failed" /\ f.spawned = e.spawned
       ELSE /\ f.lock = s.lock /\ f.spawned = e.spawned
            /\ ~s.fx.release => SameWork(e, f)

LEMMA OneOfIsStep ==
  ASSUME NEW l \in Locks, NEW in, NEW mode, NEW s, OneOf(l, in, mode, s)
  PROVE  /\ s.lock \in Locks
         /\ s.fx.stop \in BOOLEAN /\ s.fx.release = s.fx.stop
         /\ s.fx.forget \in BOOLEAN
         /\ s.fx.acquire # NoDevice =>
              s.lock = Acquiring /\ ModeAfter(mode, in) \in Exclusive
<1>1. Reason = {"NoDeviceSelected", "DeviceDisconnected", "Refused"}
  BY DEF Reason
<1>. QED
  BY <1>1 DEF OneOf, Stays, Leaves, HasNone, Asks, LetsGo, Changes, Opens, IsLost,
              Does, Locks

LEMMA FinishLockInputDoes ==
  ASSUME NEW e \in EngineType, e.playing => e.path # NoClaim,
         NEW in, NEW m \in Mode, in.kind = "ModeSelected" => m = in.mode,
         NEW before \in Locks, NEW dev \in DeviceOrNone,
         NEW found \in BOOLEAN, NEW sp \in BOOLEAN,
         NEW s, s = LockStep(before, in, e.mode, Wanted(e, dev)),
         OneOf(before, in, e.mode, s)
  PROVE  Finishes(e, s, ModeAfter(e.mode, in),
                  FinishLockInput(e, in, m, before, dev, found, sp))
<1> DEFINE t == Settle(e, in, m, before, dev, found)
           p == Perform(t, s.fx, sp)
           f == ForgetResolve(p)
<1>0. FinishLockInput(e, in, m, before, dev, found, sp) = f
  BY DEF FinishLockInput, Wanted
<1>1. /\ s.lock \in Locks
      /\ s.fx.stop \in BOOLEAN /\ s.fx.release = s.fx.stop
      /\ s.fx.forget \in BOOLEAN
      /\ s.fx.acquire # NoDevice =>
           s.lock = Acquiring /\ ModeAfter(e.mode, in) \in Exclusive
  BY OneOfIsStep
<1>2. /\ t \in EngineType
      /\ Apart(e, t) /\ SamePath(e, t) /\ SameOpen(e, t)
      /\ SameWork(e, t) /\ SameRest(e, t)
      /\ t.lock = s.lock
      /\ t.mode = ModeAfter(e.mode, in)
  BY <1>1, SettleDoes DEF ModeAfter
<1> HIDE DEF t
<1>3. /\ p \in EngineType /\ Apart(t, p) /\ p.mode = t.mode
      /\ p.reacquire = IF s.fx.forget THEN NoPoint ELSE t.reacquire
      /\ IF s.fx.release THEN Drops(t, p) ELSE Keeps(t, p)
      /\ IF s.fx.acquire # NoDevice
           THEN p.attempt > t.attempt /\ Starts(t, p)
           ELSE /\ SameLock(t, p) /\ p.resolve = t.resolve
                /\ p.spawned = t.spawned
                /\ ~s.fx.release => SameWork(t, p)
  <2>1. t.playing => t.path # NoClaim
    BY <1>2 DEF SamePath
  <2>2. s.fx.acquire # NoDevice => t.mode \in Exclusive /\ t.lock = Acquiring
    BY <1>1, <1>2
  <2>. QED
    BY <1>1, <1>2, <2>1, <2>2, PerformDoes
<1> HIDE DEF p
<1>4. /\ f \in EngineType
      /\ Apart(p, f) /\ SamePath(p, f) /\ SameOpen(p, f)
      /\ SameWork(p, f) /\ SameLock(p, f)
      /\ f.reacquire = p.reacquire
      /\ f.resolve = IF p.lock = Acquiring THEN p.resolve ELSE NoResolve
  BY <1>3, ForgetResolveDoes
<1> HIDE DEF f
<1>5. f.mode = ModeAfter(e.mode, in) /\ Apart(e, f)
  BY <1>2, <1>3, <1>4 DEF Apart, SameLock
<1>6. f.reacquire = IF s.fx.forget THEN NoPoint ELSE e.reacquire
  BY <1>2, <1>3, <1>4 DEF SameRest
<1>7. IF s.fx.release THEN Drops(e, f) ELSE Keeps(e, f)
  BY <1>2, <1>3, <1>4 DEF Drops, Keeps, SamePath, SameOpen, SameWork
<1>8. f.resolve = IF f.lock = Acquiring THEN e.resolve ELSE NoResolve
  BY <1>2, <1>3, <1>4 DEF Starts, SameRest, SameLock, Acquiring, Plain
<1>9. IF s.fx.acquire # NoDevice
        THEN /\ f.attempt > e.attempt
             /\ \/ /\ f.lock = Acquiring /\ f.target \in Device
                   /\ f.spawned = e.spawned \cup {ClaimJob(f.attempt, f.target)}
                \/ f.lock.kind = "Failed" /\ f.spawned = e.spawned
        ELSE /\ f.lock = s.lock /\ f.spawned = e.spawned
             /\ ~s.fx.release => SameWork(e, f)
  BY <1>2, <1>3, <1>4 DEF Starts, SameLock, SameWork
<1>. QED
  BY <1>0, <1>4, <1>5, <1>6, <1>7, <1>8, <1>9 DEF Finishes

-----------------------------------------------------------------------------
(* Every end of lock_input keeps what holds of the engine.                 *)

\* Where the end of lock_input finds the engine: the lock is as it was before,
\* or it shows that the device is being resolved.
Found(e, before) ==
  \/ before = e.lock /\ Resolving(e)
  \/ /\ e.lock = Acquiring /\ e.resolve = NoResolve
     /\ before.kind \in Idle \cup {"Failed"}
     /\ before.kind \in Idle => e.reacquire = NoPoint

\* Before a device is let go for another, or lost, the point was saved.
PointIsSaved(e) ==
  e.reacquire # NoPoint => e.reacquire.track = e.current.track

\* The channel and the threads, those that the handler has started among them.
Channel(queue, js) == queue \in Seq(MessageType) /\ js \in SUBSET JobType
NumberedIn(e, queue, js) == Numbered(e, queue, js \cup e.spawned)
WorkedIn(e, queue, js) == Worked(e, queue, js \cup e.spawned)

LEMMA KindsDiffer ==
  /\ NotApplicable.kind = "NotApplicable" /\ Open.kind = "Open"
  /\ Acquiring.kind = "Acquiring" /\ \A r : Failed(r).kind = "Failed"
  /\ \A d : Held(d).kind = "Held" /\ Held(d).dev = d
BY DEF NotApplicable, Open, Acquiring, Failed, Held, Plain

LEMMA FinishIsSound ==
  ASSUME NEW e \in EngineType, NEW in, NEW mode, NEW before \in Locks,
         NEW s, OneOf(before, in, mode, s),
         NEW after, NEW f, Finishes(e, s, after, f),
         OneClaim(e), Deferred(e), PointIsCurrent(e), Silent(e),
         Found(e, before),
         mode = "Compatible" => before.kind \in Idle,
         in.kind \in {"DeviceLost", "DeviceSelected"} => PointIsSaved(e)
  PROVE  /\ OneClaim(f) /\ Resolving(f) /\ Kept(f) /\ PointIsCurrent(f)
         /\ Silent(f)
         /\ before = e.lock \/ e.awaited = 0 => Deferred(f)
<1>t. f \in EngineType /\ f.lock \in Locks /\ e.lock \in Locks
  BY DEF Finishes, EngineType
<1>k. s.fx.acquire # NoDevice => f.lock.kind \in {"Acquiring", "Failed"}
  BY KindsDiffer DEF Finishes
<1>1. OneClaim(f)
  <2>1. CASE s.fx.release
    <3>1. f.claim = NoClaim /\ f.path = NoClaim
      BY <2>1 DEF Finishes, Drops
    <3>2. f.lock.kind # "Held"
      <4>1. CASE s.fx.acquire # NoDevice
        BY <4>1, <1>k
      <4>2. CASE s.fx.acquire = NoDevice
        <5>1. f.lock = s.lock
          BY <4>2 DEF Finishes
        <5>. QED
          BY <2>1, <5>1, KindsDiffer
             DEF OneOf, Stays, Leaves, HasNone, Asks, LetsGo, Changes, Opens,
                 IsLost, Does
      <4>. QED
        BY <4>1, <4>2
    <3>. QED
      BY <3>1, <3>2 DEF OneClaim
  <2>2. CASE ~s.fx.release
    <3>1. f.claim = e.claim /\ f.path = e.path
      BY <2>2 DEF Finishes, Keeps, SamePath
    <3>2. CASE e.lock.kind = "Held"
      <4>1. before = e.lock
        BY <3>2, KindsDiffer DEF Found
      <4>2. Stays(before, s)
        BY <2>2, <3>2, <4>1 DEF OneOf, Leaves, HasNone, Asks, LetsGo, Changes,
                                Opens, IsLost, Does, Idle
      <4>3. f.lock = e.lock /\ SameWork(e, f)
        BY <4>1, <4>2, <2>2 DEF Stays, Does, Finishes
      <4>. QED
        BY <3>1, <4>3 DEF OneClaim, SameWork
    <3>3. CASE e.lock.kind # "Held"
      <4>1. f.claim = NoClaim /\ f.path = NoClaim
        BY <3>1, <3>3 DEF OneClaim
      <4>2. before.kind # "Held"
        BY <3>3, KindsDiffer DEF Found, Idle
      <4>3. f.lock.kind # "Held"
        <5>1. CASE s.fx.acquire # NoDevice
          BY <5>1, <1>k
        <5>2. CASE s.fx.acquire = NoDevice
          <6>1. f.lock = s.lock
            BY <5>2 DEF Finishes
          <6>. QED
            BY <6>1, <4>2, KindsDiffer
               DEF OneOf, Stays, Leaves, HasNone, Asks, LetsGo, Changes, Opens,
                   IsLost, Does
        <5>. QED
          BY <5>1, <5>2
      <4>. QED
        BY <4>1, <4>3 DEF OneClaim
    <3>. QED
      BY <3>2, <3>3
  <2>. QED
    BY <2>1, <2>2
<1>2. Resolving(f)
  <2>1. CASE f.resolve # NoResolve
    <3>1. f.lock = Acquiring /\ f.resolve = e.resolve /\ e.resolve # NoResolve
      BY <2>1 DEF Finishes
    <3>2. before = e.lock /\ Resolving(e)
      BY <3>1 DEF Found
    <3>3. e.lock = Acquiring
      BY <3>1, <3>2 DEF Resolving
    <3>4. f.reacquire = NoPoint \/ f.reacquire = e.reacquire
      BY DEF Finishes
    <3>. QED
      BY <3>1, <3>2, <3>4 DEF Resolving
  <2>. QED
    BY <2>1 DEF Resolving
<1>3. Kept(f)
  <2>1. CASE s.fx.release
    BY <2>1 DEF Finishes, Drops, Deferred, Kept, NoOpen
  <2>2. CASE ~s.fx.release
    <3>1. f.deferred = e.deferred /\ f.awaited = e.awaited
      BY <2>2 DEF Finishes, Keeps, SameOpen
    <3>2. f.lock.kind = "Held" => e.lock.kind = "Held"
      <4>1. CASE s.fx.acquire # NoDevice
        BY <4>1, <1>k
      <4>2. CASE s.fx.acquire = NoDevice
        <5>1. f.lock = s.lock
          BY <4>2 DEF Finishes
        <5>2. s.lock.kind = "Held" => before.kind = "Held"
          BY KindsDiffer
             DEF OneOf, Stays, Leaves, HasNone, Asks, LetsGo, Changes, Opens,
                 IsLost, Does
        <5>. QED
          BY <5>1, <5>2 DEF Found, Idle
      <4>. QED
        BY <4>1, <4>2
    <3>. QED
      BY <3>1, <3>2 DEF Deferred, Kept
  <2>. QED
    BY <2>1, <2>2
<1>4. PointIsCurrent(f)
  <2>1. f.current = e.current
    BY DEF Finishes, Apart
  <2>2. CASE s.fx.forget
    BY <2>1, <2>2 DEF Finishes, PointIsCurrent
  <2>3. CASE ~s.fx.forget /\ e.reacquire # NoPoint
    <3>1. f.reacquire = e.reacquire
      BY <2>3 DEF Finishes
    <3>2. before.kind \notin Idle /\ e.lock.kind \notin Idle
      BY <2>3 DEF Found, PointIsCurrent
    <3>3. mode # "Compatible"
      BY <3>2
    <3>4. f.lock.kind \notin Idle
      <4>1. CASE s.fx.acquire # NoDevice
        BY <4>1, <1>k DEF Idle
      <4>2. CASE s.fx.acquire = NoDevice
        <5>1. f.lock = s.lock
          BY <4>2 DEF Finishes
        <5>. QED
          BY <5>1, <2>3, <3>2, <3>3, KindsDiffer
             DEF OneOf, Stays, Leaves, HasNone, Asks, LetsGo, Changes, Opens,
                 IsLost, Does, Idle
      <4>. QED
        BY <4>1, <4>2
    <3>5. f.lock.kind # "Held" => e.reacquire.track = e.current.track
      <4>1. CASE e.lock.kind # "Held"
        BY <4>1, <2>3 DEF PointIsCurrent
      <4>2. CASE in.kind \in {"DeviceLost", "DeviceSelected"}
        BY <4>2, <2>3 DEF PointIsSaved
      <4>3. CASE e.lock.kind = "Held" /\ in.kind \notin {"DeviceLost", "DeviceSelected"}
        <5>1. before = e.lock
          BY <4>3, KindsDiffer DEF Found
        <5>2. Stays(before, s)
          BY <4>3, <5>1, <2>3, <3>3
             DEF OneOf, Leaves, HasNone, Asks, LetsGo, Changes, Opens, IsLost,
                 Does, Idle
        <5>3. f.lock = e.lock
          BY <5>1, <5>2 DEF Stays, Does, Finishes
        <5>. QED
          BY <4>3, <5>3
      <4>. QED
        BY <4>1, <4>2, <4>3
    <3>. QED
      BY <2>1, <2>3, <3>1, <3>4, <3>5 DEF PointIsCurrent
  <2>4. CASE ~s.fx.forget /\ e.reacquire = NoPoint
    BY <2>1, <2>4 DEF Finishes, PointIsCurrent
  <2>. QED
    BY <2>2, <2>3, <2>4
<1>5. Silent(f)
  <2>1. f.quiet = e.quiet
    BY DEF Finishes, Apart
  <2>2. f.reacquire = NoPoint \/ f.reacquire = e.reacquire
    BY DEF Finishes
  <2>3. CASE s.fx.release
    <3>1. ~f.playing /\ f.deferred = NoOpen
      BY <2>3 DEF Finishes, Drops
    <3>. QED
      BY <2>1, <2>2, <3>1 DEF Silent, NoOpen, NoPoint
  <2>4. CASE ~s.fx.release
    <3>1. SamePath(e, f) /\ SameOpen(e, f)
      BY <2>4 DEF Finishes, Keeps
    <3>. QED
      BY <2>1, <2>2, <3>1 DEF Silent, NoPoint, SamePath, SameOpen
  <2>. QED
    BY <2>3, <2>4
<1>6. ASSUME before = e.lock \/ e.awaited = 0
      PROVE  Deferred(f)
  <2>1. CASE s.fx.release
    <3>1. f.awaited = 0
      BY <2>1 DEF Finishes, Drops, Deferred
    <3>. QED
      BY <1>3, <3>1 DEF Deferred, Kept
  <2>2. CASE ~s.fx.release
    <3>1. f.awaited = e.awaited
      BY <2>2 DEF Finishes, Keeps, SameOpen
    <3>2. CASE e.awaited = 0
      BY <1>3, <3>1, <3>2 DEF Deferred, Kept
    <3>3. CASE e.awaited # 0
      <4>1. e.lock = Acquiring /\ before = Acquiring
        BY <1>6, <3>3 DEF Deferred
      <4>2. Stays(before, s)
        BY <2>2, <4>1, KindsDiffer
           DEF OneOf, Leaves, HasNone, Asks, LetsGo, Changes, Opens, IsLost, Does,
               Idle
      <4>3. f.lock = Acquiring
        BY <4>1, <4>2 DEF Stays, Does, Finishes
      <4>. QED
        BY <1>3, <4>3 DEF Deferred, Kept
    <3>. QED
      BY <3>2, <3>3
  <2>. QED
    BY <2>1, <2>2
<1>. QED
  BY <1>1, <1>2, <1>3, <1>4, <1>5, <1>6

LEMMA FinishIsNumbered ==
  ASSUME NEW e \in EngineType, NEW s, NEW after, NEW f, Finishes(e, s, after, f),
         NEW queue, NEW js, Channel(queue, js), NumberedIn(e, queue, js)
  PROVE  NumberedIn(f, queue, js)
<1>1. /\ e.attempt \in Nat /\ f.attempt \in Nat
      /\ \/ f.attempt > e.attempt
         \/ f.attempt = e.attempt /\ f.target = e.target
      /\ \/ f.spawned = e.spawned
         \/ /\ f.target \in Device
            /\ f.spawned = e.spawned \cup {ClaimJob(f.attempt, f.target)}
  BY DEF Finishes, EngineType, Drops, SameWork
<1>2. ASSUME NEW j \in js \cup f.spawned
      PROVE  JobIsNumbered(f, j)
  <2>1. CASE j \in js \cup e.spawned
    <3>1. JobIsNumbered(e, j) /\ j.a \in Nat
      BY <2>1 DEF Numbered, NumberedIn, Channel, EngineType, JobType
    <3>. QED
      BY <1>1, <3>1 DEF JobIsNumbered
  <2>2. CASE j \notin js \cup e.spawned
    <3>1. j = ClaimJob(f.attempt, f.target) /\ f.target \in Device
      BY <1>1, <2>2
    <3>. QED
      BY <1>1, <3>1 DEF JobIsNumbered, ClaimJob
  <2>. QED
    BY <2>1, <2>2
<1>3. ASSUME NEW i \in DOMAIN queue
      PROVE  MessageIsNumbered(f, queue[i])
  <2>1. MessageIsNumbered(e, queue[i]) /\ queue[i] \in MessageType
    BY DEF Numbered, NumberedIn, Channel
  <2>2. queue[i].a \in Nat
    BY <2>1 DEF MessageType
  <2>. QED
    BY <1>1, <2>1, <2>2 DEF MessageIsNumbered
<1>. QED
  BY <1>2, <1>3 DEF Numbered, NumberedIn

LEMMA FinishIsWorked ==
  ASSUME NEW e \in EngineType, NEW in, NEW mode, NEW before \in Locks,
         NEW s, OneOf(before, in, mode, s),
         NEW after, NEW f, Finishes(e, s, after, f),
         Found(e, before),
         NEW queue, NEW js,
         before = e.lock => WorkedIn(e, queue, js)
  PROVE  WorkedIn(f, queue, js)
<1> SUFFICES ASSUME f.lock = Acquiring
             PROVE  Worked(f, queue, js \cup f.spawned)
  BY DEF Worked, WorkedIn
<1>0. f.resolve = e.resolve
  BY DEF Finishes
<1>1. CASE s.fx.acquire # NoDevice
  <2>1. before.kind # "Acquiring"
    BY <1>1 DEF OneOf, Stays, Leaves, HasNone, Asks, LetsGo, Changes, Opens,
                IsLost, Does, Idle
  <2>2. f.resolve = NoResolve
    BY <1>0, <2>1, KindsDiffer DEF Found, Resolving
  <2>3. f.spawned = e.spawned \cup {ClaimJob(f.attempt, f.target)}
    BY <1>1, KindsDiffer DEF Finishes
  <2>4. ClaimJob(f.attempt, f.target).kind = "claim"
        /\ ClaimJob(f.attempt, f.target).a = f.attempt
    BY DEF ClaimJob
  <2>. QED
    BY <2>2, <2>3, <2>4 DEF Worked
<1>2. CASE s.fx.acquire = NoDevice
  <2>1. s.lock = Acquiring
    BY <1>2 DEF Finishes
  <2>2. Stays(before, s)
    BY <2>1, <1>2, KindsDiffer, DeviceAssumption
       DEF OneOf, Leaves, HasNone, Asks, LetsGo, Changes, Opens, IsLost, Does
  <2>3. before = Acquiring /\ ~s.fx.release
    BY <2>1, <2>2 DEF Stays, Does
  <2>4. before = e.lock
    BY <2>3, KindsDiffer DEF Found, Idle
  <2>5. SameWork(e, f)
    BY <1>2, <2>3 DEF Finishes
  <2>6. Worked(e, queue, js \cup e.spawned)
    BY <2>4 DEF WorkedIn
  <2>. QED
    BY <1>0, <2>3, <2>4, <2>5, <2>6 DEF Worked, SameWork
<1>. QED
  BY <1>1, <1>2

-----------------------------------------------------------------------------
(* lock_input.                                                             *)

\* What commands leave alone when they are about the lock.
Aside(e, f) == /\ f.catalog = e.catalog /\ f.current = e.current
               /\ f.asked = e.asked /\ f.quiet = e.quiet

\* The whole invariant of the record, with the threads a handler has started.
Good(e, queue, js) == /\ e \in EngineType /\ Sound(e) /\ Channel(queue, js)
                      /\ NumberedIn(e, queue, js) /\ WorkedIn(e, queue, js)

\* All but the Open that is waited for.
Fit(e, queue, js) ==
  /\ e \in EngineType /\ Channel(queue, js)
  /\ OneClaim(e) /\ Resolving(e) /\ PointIsCurrent(e) /\ Silent(e)
  /\ NumberedIn(e, queue, js) /\ WorkedIn(e, queue, js)

LEMMA GoodIsFit ==
  ASSUME NEW e, NEW queue, NEW js
  PROVE  Good(e, queue, js) <=> Fit(e, queue, js) /\ Deferred(e)
BY DEF Good, Fit, Sound

\* Threads and messages are numbered by the attempt alone.
\* A resolution that was asked for shows Acquiring.
Asked(e, in, m) ==
  [e EXCEPT !.resolves = @ + 1, !.lock = Acquiring,
            !.resolve = [a |-> e.resolves + 1, in |-> in, mode |-> m,
                         before |-> e.lock],
            !.spawned = @ \cup {ResolveJob(e.resolves + 1)}]

LEMMA ResolvingIsGood ==
  ASSUME NEW e, NEW queue, NEW js, Good(e, queue, js),
         e.lock.kind \in Idle \cup {"Failed"}, e.resolve = NoResolve,
         NEW in, Legal(in), in.kind \in Asking \cup {"ModeSelected"},
         NEW m \in Mode,
         in.kind = "ModeSelected" => in.mode = m /\ m \in Exclusive
  PROVE  LET f == Asked(e, in, m)
         IN Good(f, queue, js) /\ Aside(e, f) /\ f.mode = e.mode
<1> DEFINE a == e.resolves + 1
           p == [a |-> a, in |-> in, mode |-> m, before |-> e.lock]
           jobsNow == e.spawned \cup {ResolveJob(a)}
           f == Asked(e, in, m)
<1>0. /\ e \in EngineType /\ Sound(e) /\ Channel(queue, js)
      /\ NumberedIn(e, queue, js)
  BY DEF Good
<1>1. a \in Nat /\ a # 0
  BY <1>0 DEF EngineType
<1>2. p \in ResolveType
  BY <1>0, <1>1 DEF ResolveType, EngineType, Legal
<1>3. ResolveJob(a) \in JobType
  BY <1>1 DEF ResolveJob, JobType, DeviceOrNone
<1>4. /\ p # NoResolve /\ p.a = a /\ p.in = in /\ p.mode = m
      /\ p.before = e.lock
  BY <1>1 DEF NoResolve
<1>5. Acquiring \in Locks
  BY DEF Locks
<1>6. jobsNow \in SUBSET JobType
  BY <1>0, <1>3 DEF EngineType
<1>7. f = [e EXCEPT !.resolves = a, !.lock = Acquiring, !.resolve = p,
                    !.spawned = jobsNow]
  BY DEF Asked
<1> HIDE DEF p, a, f
<1>8. jobsNow = e.spawned \cup {ResolveJob(a)}
  OBVIOUS
<1> HIDE DEF jobsNow
<1>10. f \in EngineType
  BY <1>0, <1>1, <1>2, <1>5, <1>6, <1>7 DEF EngineType
<1>11. /\ f.lock = Acquiring /\ f.resolve = p /\ f.spawned = jobsNow
       /\ Aside(e, f) /\ f.mode = e.mode /\ SamePath(e, f)
       /\ SameOpen(e, f) /\ f.attempt = e.attempt /\ f.target = e.target
       /\ f.reacquire = e.reacquire
  BY <1>0, <1>7 DEF EngineType, SamePath, SameOpen, Aside
<1>14. OneClaim(f)
  BY <1>11, <1>0, KindsDiffer DEF Sound, OneClaim, SamePath, Idle
<1>15. Resolving(f)
  <2>1. e.lock.kind \in Idle => e.reacquire = NoPoint
    BY <1>0 DEF Sound, PointIsCurrent
  <2>. QED
    BY <2>1, <1>1, <1>4, <1>11 DEF Resolving
<1>16. Deferred(f)
  BY <1>11, <1>0, KindsDiffer DEF Sound, Deferred, SameOpen
<1>17. PointIsCurrent(f)
  BY <1>11, <1>0, KindsDiffer DEF Sound, PointIsCurrent, Idle, Aside
<1>18. Silent(f)
  BY <1>11, <1>0 DEF Sound, Silent, SamePath, SameOpen, Aside
<1>19. NumberedIn(f, queue, js)
  <2>1. ASSUME NEW j \in js \cup f.spawned PROVE JobIsNumbered(f, j)
    <3>1. j = ResolveJob(a) \/ JobIsNumbered(e, j)
      BY <1>0, <1>8, <1>11 DEF NumberedIn, Numbered
    <3>. QED
      BY <3>1, <1>11 DEF JobIsNumbered, ResolveJob
  <2>2. ASSUME NEW i \in DOMAIN queue PROVE MessageIsNumbered(f, queue[i])
    <3>1. MessageIsNumbered(e, queue[i])
      BY <1>0 DEF NumberedIn, Numbered
    <3>. QED
      BY <3>1, <1>11 DEF MessageIsNumbered
  <2>. QED
    BY <2>1, <2>2 DEF Numbered, NumberedIn
<1>20. WorkedIn(f, queue, js)
  <2>1. ResolveJob(a).kind = "resolve" /\ ResolveJob(a).a = a
    BY DEF ResolveJob
  <2>2. ResolveJob(a) \in js \cup f.spawned
    BY <1>8, <1>11
  <2>. QED
    BY <2>1, <2>2, <1>4, <1>11 DEF Worked, WorkedIn
<1>. QED
  BY <1>0, <1>10, <1>11, <1>14, <1>15, <1>16, <1>17, <1>18, <1>19, <1>20
     DEF Good, Sound, f

\* What finish_lock_input finds, wherever it is called for the input.
Ready(e, in, before, queue, js) ==
  /\ e \in EngineType /\ before \in Locks /\ Channel(queue, js)
  /\ OneClaim(e) /\ Deferred(e) /\ PointIsCurrent(e) /\ Silent(e)
  /\ Found(e, before)
  /\ e.mode = "Compatible" => before.kind \in Idle
  /\ in.kind \in {"DeviceLost", "DeviceSelected"} => PointIsSaved(e)
  /\ NumberedIn(e, queue, js)
  /\ before = e.lock => WorkedIn(e, queue, js)

\* An input with the mode that goes with it.
With(in, m) == /\ Legal(in) /\ m \in Mode
               /\ in.kind = "ModeSelected" => m = in.mode

\* finish_lock_input keeps the invariant, but that an Open may be deferred with
\* nothing to wait for.
LEMMA FinishIsGood ==
  ASSUME NEW e, NEW in, NEW before, NEW queue, NEW js,
         Ready(e, in, before, queue, js), NEW m, With(in, m),
         NEW dev \in DeviceOrNone, NEW found \in BOOLEAN, NEW sp \in BOOLEAN
  PROVE  LET f == FinishLockInput(e, in, m, before, dev, found, sp)
         IN /\ Fit(f, queue, js) /\ Kept(f) /\ Aside(e, f)
            /\ before = e.lock \/ e.awaited = 0 => Good(f, queue, js)
            /\ f.mode = ModeAfter(e.mode, in)
            /\ NoLockInCompatible(f)
            /\ Finishes(e, LockStep(before, in, e.mode, Wanted(e, dev)),
                        ModeAfter(e.mode, in), f)
<1> DEFINE s == LockStep(before, in, e.mode, Wanted(e, dev))
           f == FinishLockInput(e, in, m, before, dev, found, sp)
<1>0. /\ e \in EngineType /\ before \in Locks /\ Channel(queue, js)
      /\ OneClaim(e) /\ Deferred(e) /\ PointIsCurrent(e) /\ Silent(e)
      /\ Found(e, before)
      /\ e.mode = "Compatible" => before.kind \in Idle
      /\ in.kind \in {"DeviceLost", "DeviceSelected"} => PointIsSaved(e)
      /\ NumberedIn(e, queue, js)
      /\ before = e.lock => WorkedIn(e, queue, js)
      /\ Legal(in) /\ m \in Mode /\ (in.kind = "ModeSelected" => m = in.mode)
  BY DEF Ready, With
<1>1. e.mode \in Mode /\ Wanted(e, dev) \in DeviceOrNone
  BY <1>0, CanonicalIsDevice DEF EngineType, Wanted
<1>2. OneOf(before, in, e.mode, s)
  BY <1>0, <1>1, StepIsOneOf
<1>3. ModeAfter(e.mode, in) = "Compatible" => s.lock.kind \in Idle
  BY <1>0, <1>1, CompatibleIsIdle
<1>4. e.playing => e.path # NoClaim
  BY <1>0 DEF Silent
<1> HIDE DEF s, f
<1>5. Finishes(e, s, ModeAfter(e.mode, in), f)
  BY <1>0, <1>2, <1>4, FinishLockInputDoes DEF s, f
<1>6. /\ OneClaim(f) /\ Resolving(f) /\ Kept(f) /\ PointIsCurrent(f) /\ Silent(f)
      /\ before = e.lock \/ e.awaited = 0 => Deferred(f)
  BY <1>0, <1>2, <1>5, FinishIsSound
<1>7. NumberedIn(f, queue, js)
  BY <1>0, <1>5, FinishIsNumbered
<1>8. WorkedIn(f, queue, js)
  BY <1>0, <1>2, <1>5, FinishIsWorked
<1>9. NoLockInCompatible(f)
  <2>1. s.fx.acquire # NoDevice => ModeAfter(e.mode, in) \in Exclusive
    BY <1>0, <1>2, OneOfIsStep
  <2>. QED
    BY <2>1, <1>3, <1>5 DEF NoLockInCompatible, Finishes, Exclusive
<1>10. f \in EngineType /\ Aside(e, f) /\ f.mode = ModeAfter(e.mode, in)
  BY <1>5 DEF Finishes, Apart, Aside
<1>11. Fit(f, queue, js)
  BY <1>0, <1>6, <1>7, <1>8, <1>10 DEF Fit
<1>12. before = e.lock \/ e.awaited = 0 => Good(f, queue, js)
  BY <1>6, <1>11, GoodIsFit
<1>. QED
  BY <1>5, <1>6, <1>9, <1>10, <1>11, <1>12 DEF s, f

\* lock_input keeps the invariant.  Only the choice of an exclusive mode may
\* leave the lock Acquiring before the mode is changed.
LEMMA LockInputIsGood ==
  ASSUME NEW e, NEW queue, NEW js, Good(e, queue, js), NoLockInCompatible(e),
         NEW in, Legal(in), NEW sp \in BOOLEAN,
         in.kind \in {"DeviceLost", "DeviceSelected"} => PointIsSaved(e)
  PROVE  LET f == LockInput(e, in, sp)
         IN /\ Good(f, queue, js) /\ Aside(e, f)
            /\ f.mode \in {e.mode, ModeAfter(e.mode, in)}
            /\ \/ NoLockInCompatible(f)
               \/ in.kind = "ModeSelected" /\ in.mode \in Exclusive
            /\ ModeAfter(e.mode, in) = "Compatible" => f.lock.kind \in Idle
<1> DEFINE m == ModeAfter(e.mode, in)
           needs == \/ in.kind = "ModeSelected" /\ in.mode \in Exclusive
                    \/ e.mode \in Exclusive /\ in.kind \in Asking
           blind == LockStep(e.lock, in, e.mode, NoDevice)
           finish == FinishLockInput(e, in, m, e.lock, ModeDevice(e, m), FALSE, sp)
           f == LockInput(e, in, sp)
<1>0. f = IF ~needs \/ ModeDevice(e, m) # NoDevice THEN finish
          ELSE IF e.resolve # NoResolve THEN e
          ELSE IF blind = Stay(e.lock) THEN finish
          ELSE StartDeviceResolve(e, in, m, sp)
  BY DEF LockInput, ModeAfter
<1>2. /\ e \in EngineType /\ Sound(e) /\ NumberedIn(e, queue, js)
      /\ WorkedIn(e, queue, js) /\ Channel(queue, js)
  BY DEF Good
<1>1. m \in Mode /\ e.mode \in Mode /\ e.lock \in Locks
  BY <1>2 DEF ModeAfter, Legal, EngineType
<1>3. /\ OneClaim(e) /\ Resolving(e) /\ Deferred(e) /\ PointIsCurrent(e)
      /\ Silent(e)
  BY <1>2 DEF Sound
<1>w. With(in, m)
  BY <1>1 DEF With, ModeAfter
<1>m. needs => m \in Exclusive
  BY DEF ModeAfter, Asking
<1>c. e.mode = "Compatible" => e.lock.kind \in Idle
  BY DEF NoLockInCompatible
<1> HIDE DEF f
<1>4. CASE f = finish
  <2>1. Ready(e, in, e.lock, queue, js)
    <3>1. Found(e, e.lock)
      BY <1>3 DEF Found
    <3>. QED
      BY <3>1, <1>1, <1>2, <1>3, <1>c DEF Ready
  <2>4. ModeDevice(e, m) \in DeviceOrNone
    BY <1>1, <1>2, ModeDeviceIsTyped
  <2> DEFINE no == FALSE
             dev == ModeDevice(e, m)
  <2>6. /\ f = FinishLockInput(e, in, m, e.lock, dev, no, sp)
        /\ no \in BOOLEAN /\ dev \in DeviceOrNone
    BY <1>4, <2>4
  <2> HIDE DEF m, no, dev, finish
  <2>5. /\ Good(f, queue, js) /\ Aside(e, f)
        /\ f.mode = ModeAfter(e.mode, in)
        /\ NoLockInCompatible(f)
    BY <1>w, <2>1, <2>6, FinishIsGood
  <2>. QED
    BY <2>5 DEF NoLockInCompatible, f
<1>5. CASE f = e /\ needs
  BY <1>5, <1>m DEF Aside, Exclusive, f
<1>6. CASE /\ needs /\ e.resolve = NoResolve /\ blind # Stay(e.lock)
           /\ f = StartDeviceResolve(e, in, m, sp)
  <2>1. e.lock.kind \in Idle \cup {"Failed"}
    <3>1. CASE e.mode = "Compatible"
      BY <3>1 DEF NoLockInCompatible
    <3>2. CASE e.mode # "Compatible"
      <4>1. blind = Ask(e.lock, NoDevice)
        BY <3>2, <1>6 DEF LockStep, ExclusiveRow, Asking, Exclusive, Legal
      <4>2. e.lock.kind \in {"Open", "Failed"}
        BY <4>1, <1>6 DEF Ask
      <4>. QED
        BY <4>2 DEF Idle
    <3>. QED
      BY <3>1, <3>2
  <2>2. in.kind \in Asking \cup {"ModeSelected"}
    BY <1>6
  <2>3. in.kind = "ModeSelected" => in.mode = m /\ m \in Exclusive
    BY <1>6, <1>m DEF ModeAfter
  <2>4. m \in Exclusive
    BY <1>6, <1>m
  <2>5. CASE sp
    <3>1. f = Asked(e, in, m)
      <4>1. [e EXCEPT !.resolves = e.resolves + 1].resolves = e.resolves + 1
        BY <1>2 DEF EngineType
      <4>. QED
        BY <4>1, <1>6, <2>5 DEF StartDeviceResolve, Asked
    <3>2. Good(f, queue, js) /\ Aside(e, f) /\ f.mode = e.mode
      BY <1>1, <1>6, <2>1, <2>2, <2>3, <3>1, ResolvingIsGood
    <3>3. \/ NoLockInCompatible(f)
          \/ in.kind = "ModeSelected" /\ in.mode \in Exclusive
      BY <3>2, <2>4 DEF NoLockInCompatible, ModeAfter, Exclusive
    <3>. QED
      BY <3>2, <3>3, <2>4 DEF Exclusive, f
  <2>6. CASE ~sp
    <3> DEFINE n == [e EXCEPT !.resolves = @ + 1]
               w == [n EXCEPT !.lock = Acquiring]
    <3>1. f = FinishLockInput(w, in, m, e.lock, NoDevice, FALSE, sp)
      BY <1>6, <2>6 DEF StartDeviceResolve
    <3>2. e.resolves + 1 \in Nat /\ Acquiring \in Locks
      BY <1>2 DEF EngineType, Locks
    <3>3. n \in EngineType /\ SameLock(e, n) /\ SameRest(e, n) /\ SamePath(e, n)
          /\ SameOpen(e, n) /\ SameWork(e, n) /\ Aside(e, n)
      BY <1>2, <3>2 DEF EngineType, SameLock, SameRest, SamePath, SameOpen,
                        SameWork, Aside
    <3> HIDE DEF n
    <3>4. w \in EngineType /\ w.lock = Acquiring /\ w.mode = n.mode
          /\ SameRest(n, w) /\ SamePath(n, w)
          /\ SameOpen(n, w) /\ SameWork(n, w) /\ Aside(n, w)
      BY <3>2, <3>3 DEF EngineType, SameRest, SamePath, SameOpen, SameWork, Aside
    <3> HIDE DEF w
    <3>5. w.mode = e.mode /\ SameRest(e, w) /\ SamePath(e, w) /\ SameOpen(e, w)
          /\ SameWork(e, w) /\ Aside(e, w)
      BY <3>3, <3>4 DEF SameLock, SameRest, SamePath, SameOpen, SameWork, Aside
    <3>6. OneClaim(w)
      BY <1>3, <2>1, <3>4, <3>5, KindsDiffer DEF OneClaim, SamePath, Idle
    <3>7. Deferred(w)
      BY <1>3, <3>4, <3>5, KindsDiffer DEF Deferred, SameOpen
    <3>8. PointIsCurrent(w)
      BY <1>3, <2>1, <3>4, <3>5, KindsDiffer DEF PointIsCurrent, SameRest, Aside, Idle
    <3>9. Silent(w)
      BY <1>3, <3>5 DEF Silent, SamePath, SameOpen, SameRest, Aside
    <3>10. Found(w, e.lock)
      <4>1. e.lock.kind \in Idle => e.reacquire = NoPoint
        BY <1>3 DEF PointIsCurrent
      <4>. QED
        BY <4>1, <1>6, <2>1, <3>4, <3>5 DEF Found, SameRest
    <3>11. NumberedIn(w, queue, js)
      BY <1>2, <3>5 DEF NumberedIn, Numbered, JobIsNumbered, MessageIsNumbered, SameWork
    <3>12. e.lock # w.lock
      BY <2>1, <3>4, KindsDiffer DEF Idle
    <3>13. in.kind \notin {"DeviceLost", "DeviceSelected"} /\ NoDevice \in DeviceOrNone
      BY <2>2 DEF Asking, DeviceOrNone
    <3>14. Ready(w, in, e.lock, queue, js)
      BY <1>1, <1>2, <1>c, <3>4, <3>5, <3>6, <3>7, <3>8, <3>9, <3>10, <3>11,
         <3>12, <3>13 DEF Ready
    <3> DEFINE no == FALSE
    <3>16. f = FinishLockInput(w, in, m, e.lock, NoDevice, no, sp) /\ no \in BOOLEAN
      BY <3>1
    <3> HIDE DEF m, no
    <3>17. w.awaited = 0
      BY <1>3, <2>1, <3>5, KindsDiffer DEF Deferred, SameOpen, Idle
    <3>15. /\ Good(f, queue, js) /\ Aside(w, f)
           /\ f.mode = ModeAfter(w.mode, in)
           /\ NoLockInCompatible(f)
      BY <1>w, <3>13, <3>14, <3>16, <3>17, FinishIsGood
    <3>. QED
      BY <3>5, <3>15 DEF NoLockInCompatible, Aside, f
  <2>. QED
    BY <2>5, <2>6
<1>. QED
  BY <1>0, <1>4, <1>5, <1>6

-----------------------------------------------------------------------------
(* The rest of the handlers.                                               *)

LEMMA SameWorkIsNumbered ==
  ASSUME NEW e, NEW f, NEW queue, NEW js, NumberedIn(e, queue, js),
         SameWork(e, f)
  PROVE  NumberedIn(f, queue, js)
BY DEF NumberedIn, Numbered, JobIsNumbered, MessageIsNumbered, SameWork

\* What is waited for is told by the lock, the resolution and the attempt.
LEMMA SameLockIsWorked ==
  ASSUME NEW e, NEW f, NEW queue, NEW js, WorkedIn(e, queue, js),
         SameWork(e, f), f.lock = e.lock, f.resolve = e.resolve
  PROVE  WorkedIn(f, queue, js)
BY DEF WorkedIn, Worked, SameWork

\* A change of the point to come back to, while nothing is being resolved.
LEMMA PointKeepsGood ==
  ASSUME NEW e, NEW queue, NEW js, Good(e, queue, js), NoLockInCompatible(e),
         e.lock # Acquiring,
         NEW f \in EngineType, Aside(e, f), SamePath(e, f), SameOpen(e, f),
         SameWork(e, f), SameLock(e, f), f.resolve = e.resolve,
         PointIsCurrent(f), f.quiet => ~f.reacquire.autoplay
  PROVE  Good(f, queue, js) /\ NoLockInCompatible(f)
<1>0. Sound(e) /\ Channel(queue, js) /\ NumberedIn(e, queue, js)
      /\ WorkedIn(e, queue, js)
  BY DEF Good
<1>1. OneClaim(f)
  BY <1>0 DEF Sound, OneClaim, SamePath, SameWork, SameLock
<1>2. Resolving(f)
  BY <1>0 DEF Sound, Resolving, SameLock
<1>3. Deferred(f)
  BY <1>0 DEF Sound, Deferred, SameOpen, SameLock
<1>4. Silent(f)
  BY <1>0 DEF Sound, Silent, SamePath, SameOpen, Aside
<1>5. NumberedIn(f, queue, js) /\ WorkedIn(f, queue, js)
  BY <1>0, SameWorkIsNumbered, SameLockIsWorked DEF SameLock
<1>. QED
  BY <1>0, <1>1, <1>2, <1>3, <1>4, <1>5
     DEF Good, Sound, NoLockInCompatible, SameLock

LEMMA SavedWithoutDevice ==
  ASSUME NEW e, PointIsCurrent(e), e.lock.kind # "Held" \/ e.current.gen = 0
  PROVE  PointIsSaved(e)
BY DEF PointIsCurrent, PointIsSaved

\* save_reacquire_point
LEMMA SaveReacquirePointIsGood ==
  ASSUME NEW e, NEW queue, NEW js, Good(e, queue, js), NoLockInCompatible(e)
  PROVE  LET f == SaveReacquirePoint(e)
         IN /\ Good(f, queue, js) /\ NoLockInCompatible(f)
            /\ PointIsSaved(f) /\ f.lock = e.lock /\ f.mode = e.mode
            /\ f.spawned = e.spawned
            /\ e.lock.kind = "Held" => ~f.reacquire.autoplay
<1> DEFINE f == SaveReacquirePoint(e)
<1>0. e \in EngineType /\ PointIsCurrent(e)
  BY DEF Good, Sound
<1>1. CASE e.lock.kind # "Held" \/ e.current.gen = 0
  <2>1. f = e
    BY <1>1 DEF SaveReacquirePoint
  <2>2. PointIsSaved(e)
    BY <1>0, <1>1, SavedWithoutDevice
  <2>3. e.lock.kind = "Held" => ~e.reacquire.autoplay
    BY <1>0, <1>1 DEF PointIsCurrent, NoPoint
  <2>. QED
    BY <2>1, <2>2, <2>3
<1>2. CASE e.lock.kind = "Held" /\ e.current.gen # 0
  <2> DEFINE p == [dev |-> e.lock.dev, track |-> e.current.track,
                   autoplay |-> FALSE]
  <2>1. f = [e EXCEPT !.reacquire = p]
    BY <1>2 DEF SaveReacquirePoint, ReacquirePoint
  <2>2. e.lock.dev \in Device
    BY <1>0, <1>2, LockIsOneOf, KindsDiffer DEF EngineType
  <2>3. p \in PointType /\ p.track = e.current.track /\ ~p.autoplay
    BY <1>0, <2>2 DEF PointType, DeviceOrNone, EngineType
  <2> HIDE DEF f, p
  <2>4. f \in EngineType
    BY <1>0, <2>1, <2>3 DEF EngineType
  <2>5. /\ Aside(e, f) /\ SamePath(e, f) /\ SameOpen(e, f) /\ SameWork(e, f)
        /\ SameLock(e, f) /\ f.resolve = e.resolve /\ f.reacquire = p
    BY <1>0, <2>1 DEF EngineType, Aside, SamePath, SameOpen, SameWork, SameLock
  <2>6. PointIsCurrent(f)
    BY <1>0, <1>2, <2>3, <2>5 DEF PointIsCurrent, Aside, SameLock, Idle
  <2>7. e.lock # Acquiring
    BY <1>2, KindsDiffer
  <2>8. Good(f, queue, js) /\ NoLockInCompatible(f)
    BY <2>3, <2>4, <2>5, <2>6, <2>7, PointKeepsGood
  <2>. QED
    BY <2>3, <2>5, <2>8 DEF PointIsSaved, Aside, SameLock, SameWork, f
<1>. QED
  BY <1>1, <1>2

\* save_switch_device_reacquire_point
LEMMA SaveSwitchPointIsGood ==
  ASSUME NEW e, NEW queue, NEW js, Good(e, queue, js), NoLockInCompatible(e),
         NEW new \in DeviceOrNone
  PROVE  LET f == SaveSwitchPoint(e, new)
         IN /\ Good(f, queue, js) /\ NoLockInCompatible(f) /\ PointIsSaved(f)
            /\ f.mode = e.mode
<1> DEFINE f == SaveSwitchPoint(e, new)
           d == Wanted(e, new)
           p == ReacquirePoint(e, d, e.playing)
<1>0. e \in EngineType /\ PointIsCurrent(e) /\ Silent(e)
  BY DEF Good, Sound
<1>1. CASE e.lock.kind # "Held"
  <2>1. f = e
    BY <1>1 DEF SaveSwitchPoint
  <2>2. PointIsSaved(e)
    BY <1>0, <1>1, SavedWithoutDevice
  <2>. QED
    BY <2>1, <2>2
<1>2. CASE e.lock.kind = "Held"
  <2>1. f = [e EXCEPT !.reacquire = p]
    BY <1>2 DEF SaveSwitchPoint, Wanted
  <2>2. d \in DeviceOrNone
    BY <1>0, CanonicalIsDevice DEF Wanted
  <2> HIDE DEF f, d
  <2>3. /\ p \in PointType
        /\ p # NoPoint => p.track = e.current.track /\ e.current.gen # 0
        /\ e.quiet => ~p.autoplay
    <3>1. CASE e.current.gen = 0
      BY <3>1, NoneAreTyped DEF ReacquirePoint, NoPoint
    <3>2. CASE e.current.gen # 0
      BY <1>0, <2>2, <3>2 DEF ReacquirePoint, PointType, EngineType, Silent
    <3>. QED
      BY <3>1, <3>2
  <2> HIDE DEF p
  <2>4. f \in EngineType
    BY <1>0, <2>1, <2>3 DEF EngineType
  <2>5. /\ Aside(e, f) /\ SamePath(e, f) /\ SameOpen(e, f) /\ SameWork(e, f)
        /\ SameLock(e, f) /\ f.resolve = e.resolve /\ f.reacquire = p
    BY <1>0, <2>1 DEF EngineType, Aside, SamePath, SameOpen, SameWork, SameLock
  <2>6. PointIsCurrent(f)
    BY <1>0, <1>2, <2>3, <2>5 DEF PointIsCurrent, Aside, SameLock, Idle
  <2>7. e.lock # Acquiring /\ (f.quiet => ~f.reacquire.autoplay)
    BY <1>2, <2>3, <2>5, KindsDiffer DEF Aside
  <2>8. Good(f, queue, js) /\ NoLockInCompatible(f)
    BY <2>4, <2>5, <2>6, <2>7, PointKeepsGood
  <2>. QED
    BY <2>3, <2>5, <2>8 DEF PointIsSaved, Aside, SameLock, f
<1>. QED
  BY <1>1, <1>2

\* The lock loses its device: nothing plays and no Open waits.
LEMMA LossStops ==
  ASSUME NEW e, NEW queue, NEW js, Good(e, queue, js), NoLockInCompatible(e),
         PointIsSaved(e), e.lock.kind = "Held", NEW sp \in BOOLEAN
  PROVE  LET f == LockInput(e, Press("DeviceLost"), sp)
         IN ~f.playing /\ f.deferred = NoOpen /\ f.reacquire = e.reacquire
<1> DEFINE in == Press("DeviceLost")
           no == FALSE
           dev == ModeDevice(e, e.mode)
           f == LockInput(e, in, sp)
           s == LockStep(e.lock, in, e.mode, Wanted(e, dev))
<1>0. /\ e \in EngineType /\ Sound(e) /\ NumberedIn(e, queue, js)
      /\ WorkedIn(e, queue, js) /\ Channel(queue, js)
  BY DEF Good
<1>1. in.kind = "DeviceLost" /\ in.mode = "none" /\ in \in Input
  BY DEF Press, Input
<1>2. e.mode \in Mode /\ e.lock \in Locks /\ dev \in DeviceOrNone
  BY <1>0, ModeDeviceIsTyped DEF EngineType
<1>3. e.mode \in Exclusive
  BY <1>2 DEF NoLockInCompatible, Idle, Mode
<1> HIDE DEF in
<1>4. f = FinishLockInput(e, in, e.mode, e.lock, dev, no, sp) /\ no \in BOOLEAN
  BY <1>1 DEF LockInput, Asking
<1>5. s = Lose(e.lock)
  BY <1>1, <1>3 DEF LockStep, ExclusiveRow, Asking, Exclusive
<1>6. s.fx.release /\ ~s.fx.forget
  BY <1>5, StopReleaseIs DEF Lose, Step
<1>7. With(in, e.mode)
  BY <1>1, <1>2 DEF With, Legal
<1>8. Ready(e, in, e.lock, queue, js)
  <2>1. Found(e, e.lock)
    BY <1>0 DEF Found, Sound
  <2>. QED
    BY <2>1, <1>0, <1>2 DEF Ready, Sound, NoLockInCompatible
<1> HIDE DEF f, no, dev
<1>9. Finishes(e, s, ModeAfter(e.mode, in), f)
  BY <1>2, <1>4, <1>7, <1>8, FinishIsGood
<1>. QED
  BY <1>6, <1>9 DEF Finishes, Drops, f, in

\* The engine without what is asked for the properties alone.
SameButQuiet(e, f) ==
  /\ f.current = e.current /\ SamePath(e, f) /\ SameOpen(e, f)
  /\ SameWork(e, f) /\ SameLock(e, f) /\ SameRest(e, f)

\* The loss of the device.
LEMMA DeviceLostIsGood ==
  ASSUME NEW e, NEW queue, NEW js, Good(e, queue, js), NoLockInCompatible(e),
         NEW sp \in BOOLEAN
  PROVE  Good(DeviceLost(e, sp), queue, js) /\ NoLockInCompatible(DeviceLost(e, sp))
<1> DEFINE s == SaveReacquirePoint(e)
           in == Press("DeviceLost")
           l == LockInput(s, in, sp)
           held == e.lock.kind = "Held"
           q == l.quiet \/ held
           f == DeviceLost(e, sp)
<1>1. /\ Good(s, queue, js) /\ NoLockInCompatible(s) /\ PointIsSaved(s)
      /\ s.lock = e.lock /\ (held => ~s.reacquire.autoplay)
  BY SaveReacquirePointIsGood
<1>2. in.kind = "DeviceLost" /\ in.mode = "none" /\ Legal(in)
  BY DEF Press, Input, Legal
<1>3. f = [l EXCEPT !.quiet = q]
  BY DEF DeviceLost
<1> HIDE DEF s
<1>4. held => ~l.playing /\ l.deferred = NoOpen /\ l.reacquire = s.reacquire
  BY <1>1, LossStops
<1> HIDE DEF in
<1>5. Good(l, queue, js) /\ NoLockInCompatible(l)
  BY <1>1, <1>2, LockInputIsGood
<1>6. q \in BOOLEAN
  OBVIOUS
<1> HIDE DEF l, held, f
<1>7. /\ l \in EngineType /\ Sound(l) /\ Channel(queue, js)
      /\ NumberedIn(l, queue, js) /\ WorkedIn(l, queue, js)
  BY <1>5 DEF Good
<1>8. l.quiet \in BOOLEAN /\ (q <=> (l.quiet \/ held))
  BY <1>7 DEF EngineType
<1> HIDE DEF q
<1>9. f \in EngineType
  BY <1>3, <1>6, <1>7 DEF EngineType
<1>10. f.quiet = q /\ SameButQuiet(l, f)
  BY <1>3, <1>7 DEF EngineType, SameButQuiet, SamePath, SameOpen, SameWork, SameLock,
                    SameRest
<1>11. Silent(f)
  <2>1. f.playing => f.path # NoClaim
    BY <1>7, <1>10 DEF Sound, Silent, SameButQuiet, SamePath
  <2>2. CASE held
    BY <2>1, <2>2, <1>1, <1>4, <1>10 DEF Silent, SameButQuiet, SamePath, SameOpen,
                                         SameRest, NoOpen
  <2>3. CASE ~held
    BY <2>1, <2>3, <1>7, <1>8, <1>10 DEF Sound, Silent, SameButQuiet, SamePath,
                                         SameOpen, SameRest
  <2>. QED
    BY <2>2, <2>3
<1>12. OneClaim(f)
  BY <1>7, <1>10 DEF Sound, OneClaim, SameButQuiet, SamePath, SameWork, SameLock
<1>13. Resolving(f)
  BY <1>7, <1>10 DEF Sound, Resolving, SameButQuiet, SameLock, SameRest
<1>14. Deferred(f)
  BY <1>7, <1>10 DEF Sound, Deferred, SameButQuiet, SameLock, SameOpen
<1>15. PointIsCurrent(f)
  BY <1>7, <1>10 DEF Sound, PointIsCurrent, SameButQuiet, SameLock, SameRest
<1>16. NumberedIn(f, queue, js) /\ WorkedIn(f, queue, js)
  BY <1>7, <1>10, SameWorkIsNumbered, SameLockIsWorked
     DEF SameButQuiet, SameLock, SameRest
<1>17. NoLockInCompatible(f)
  BY <1>5, <1>10 DEF NoLockInCompatible, SameButQuiet, SameLock
<1>. QED
  BY <1>7, <1>9, <1>11, <1>12, <1>13, <1>14, <1>15, <1>16, <1>17 DEF Good, Sound, f

\* An engine that differs in nothing that the invariant tells.
LEMMA SameIsGood ==
  ASSUME NEW e, NEW queue, NEW js, Good(e, queue, js), NoLockInCompatible(e),
         NEW f \in EngineType, SameButQuiet(e, f), f.quiet => e.quiet
  PROVE  Good(f, queue, js) /\ NoLockInCompatible(f)
<1>0. Sound(e) /\ Channel(queue, js) /\ NumberedIn(e, queue, js)
      /\ WorkedIn(e, queue, js)
  BY DEF Good
<1>1. OneClaim(f)
  BY <1>0 DEF Sound, OneClaim, SameButQuiet, SamePath, SameWork, SameLock
<1>2. Resolving(f)
  BY <1>0 DEF Sound, Resolving, SameButQuiet, SameLock, SameRest
<1>3. Deferred(f)
  BY <1>0 DEF Sound, Deferred, SameButQuiet, SameLock, SameOpen
<1>4. PointIsCurrent(f)
  BY <1>0 DEF Sound, PointIsCurrent, SameButQuiet, SameLock, SameRest
<1>5. Silent(f)
  BY <1>0 DEF Sound, Silent, SameButQuiet, SamePath, SameOpen, SameRest
<1>6. NumberedIn(f, queue, js) /\ WorkedIn(f, queue, js)
  BY <1>0, SameWorkIsNumbered, SameLockIsWorked
     DEF SameButQuiet, SameLock, SameRest
<1>. QED
  BY <1>0, <1>1, <1>2, <1>3, <1>4, <1>5, <1>6
     DEF Good, Sound, NoLockInCompatible, SameButQuiet, SameLock

-----------------------------------------------------------------------------
(* Opening.                                                                *)

\* A path is closed and its claim is left.
LEMMA ClosePathIsFit ==
  ASSUME NEW e, NEW queue, NEW js, Fit(e, queue, js), NoLockInCompatible(e)
  PROVE  LET f == ClosePath(e)
         IN /\ Fit(f, queue, js) /\ NoLockInCompatible(f) /\ Apart(e, f)
            /\ SameOpen(e, f) /\ SameLock(e, f) /\ SameRest(e, f)
            /\ f.path = NoClaim /\ ~f.playing
<1> DEFINE f == ClosePath(e)
<1>0. /\ e \in EngineType /\ Channel(queue, js)
      /\ OneClaim(e) /\ Resolving(e) /\ PointIsCurrent(e) /\ Silent(e)
      /\ NumberedIn(e, queue, js) /\ WorkedIn(e, queue, js)
  BY DEF Fit
<1>1. /\ f \in EngineType
      /\ Apart(e, f) /\ SameOpen(e, f) /\ SameWork(e, f)
      /\ SameLock(e, f) /\ SameRest(e, f)
      /\ f.path = NoClaim
      /\ IF e.path = NoClaim
           THEN f.claim = e.claim /\ f.playing = e.playing
           ELSE f.claim = e.path /\ ~f.playing
  BY <1>0, ClosePathDoes
<1> HIDE DEF f
<1>2. OneClaim(f)
  BY <1>0, <1>1 DEF OneClaim, SameWork, SameLock
<1>3. Resolving(f)
  BY <1>0, <1>1 DEF Resolving, SameLock, SameRest
<1>4. PointIsCurrent(f)
  BY <1>0, <1>1 DEF PointIsCurrent, SameLock, SameRest, Apart
<1>5. Silent(f) /\ ~f.playing
  BY <1>0, <1>1 DEF Silent, SameRest, SameOpen, Apart
<1>6. NumberedIn(f, queue, js) /\ WorkedIn(f, queue, js)
  BY <1>0, <1>1, SameWorkIsNumbered, SameLockIsWorked DEF SameLock, SameRest
<1>7. NoLockInCompatible(f)
  BY <1>1 DEF NoLockInCompatible, SameLock
<1>. QED
  BY <1>0, <1>1, <1>2, <1>3, <1>4, <1>5, <1>6, <1>7 DEF Fit, f

\* An Open is answered.
LEMMA AnswerIsGood ==
  ASSUME NEW e, NEW queue, NEW js, Fit(e, queue, js), NoLockInCompatible(e),
         NEW g, e.awaited \in {0, g},
         e.deferred # NoOpen => e.lock.kind # "Held"
  PROVE  Good(Answer(e, g), queue, js) /\ NoLockInCompatible(Answer(e, g))
<1> DEFINE f == Answer(e, g)
<1>0. /\ e \in EngineType /\ Channel(queue, js)
      /\ OneClaim(e) /\ Resolving(e) /\ PointIsCurrent(e) /\ Silent(e)
      /\ NumberedIn(e, queue, js) /\ WorkedIn(e, queue, js)
  BY DEF Fit
<1>1. /\ f \in EngineType
      /\ Apart(e, f) /\ SamePath(e, f) /\ SameWork(e, f)
      /\ SameLock(e, f) /\ SameRest(e, f)
      /\ f.deferred = e.deferred /\ f.awaited = 0
  BY <1>0, AnswerDoes
<1> HIDE DEF f
<1>2. OneClaim(f)
  BY <1>0, <1>1 DEF OneClaim, SamePath, SameWork, SameLock
<1>3. Resolving(f)
  BY <1>0, <1>1 DEF Resolving, SameLock, SameRest
<1>4. PointIsCurrent(f)
  BY <1>0, <1>1 DEF PointIsCurrent, SameLock, SameRest, Apart
<1>5. Silent(f)
  BY <1>0, <1>1 DEF Silent, SamePath, SameRest, Apart
<1>6. NumberedIn(f, queue, js) /\ WorkedIn(f, queue, js)
  BY <1>0, <1>1, SameWorkIsNumbered, SameLockIsWorked DEF SameLock, SameRest
<1>7. NoLockInCompatible(f)
  BY <1>1 DEF NoLockInCompatible, SameLock
<1>8. Deferred(f)
  BY <1>1 DEF Deferred, SameLock
<1>. QED
  BY <1>0, <1>1, <1>2, <1>3, <1>4, <1>5, <1>6, <1>7, <1>8 DEF Good, Sound, f

\* What waits is forsaken.
LEMMA ForsakeIsGood ==
  ASSUME NEW e, NEW queue, NEW js, Fit(e, queue, js), NoLockInCompatible(e), Kept(e)
  PROVE  Good(Forsake(e), queue, js) /\ NoLockInCompatible(Forsake(e))
<1>1. Forsake(e) = Answer(e, e.awaited)
  BY DEF Forsake, Answer
<1>2. e.deferred # NoOpen => e.lock.kind # "Held"
  BY DEF Kept
<1>. QED
  BY <1>1, <1>2, AnswerIsGood

\* The Open waits; or the path is opened on the claim.
Later(e, g, autoplay) ==
  [e EXCEPT !.deferred = [gen |-> g, autoplay |-> autoplay]]
OnClaim(c, g, t, autoplay) ==
  [c EXCEPT !.path = c.claim, !.claim = NoClaim, !.playing = autoplay,
            !.signal = "running", !.current = [gen |-> g, track |-> t],
            !.stopped = FALSE]

LEMMA OpenExclusiveIs ==
  ASSUME NEW e, NEW g, NEW t, NEW autoplay, NEW ok
  PROVE  LET f == OpenExclusive(e, g, t, autoplay, ok)
             c == ClosePath(e)
         IN /\ e.lock = Acquiring => f = Later(e, g, autoplay)
            /\ e.lock.kind \notin {"Acquiring", "Held"} => f = Answer(e, g)
            /\ e.lock.kind = "Held" =>
                 f = IF c.claim = NoClaim \/ ~ok THEN Answer(c, g)
                     ELSE Answer(OnClaim(c, g, t, autoplay), g)
<1> DEFINE held == IF ClosePath(e).claim = NoClaim \/ ~ok
                     THEN Answer(ClosePath(e), g)
                     ELSE Answer(OnClaim(ClosePath(e), g, t, autoplay), g)
           asks == Later(e, g, autoplay)
<1>1. OpenExclusive(e, g, t, autoplay, ok) =
        CASE e.lock = Acquiring -> asks
          [] e.lock.kind \notin {"Acquiring", "Held"} -> Answer(e, g)
          [] e.lock.kind = "Held" -> held
  BY DEF OpenExclusive, OnClaim, Later
<1> DEFINE f == OpenExclusive(e, g, t, autoplay, ok)
<1> HIDE DEF held, asks, f
<1>2. /\ e.lock = Acquiring => f = asks
      /\ e.lock.kind \notin {"Acquiring", "Held"} => f = Answer(e, g)
      /\ e.lock.kind = "Held" => f = held
  BY <1>1, KindsDiffer DEF f
<1>. QED
  BY <1>2 DEF held, asks, f

\* open_exclusive for the Open g, the only one that may be awaited.
LEMMA OpenExclusiveIsGood ==
  ASSUME NEW e, NEW queue, NEW js, Fit(e, queue, js), NoLockInCompatible(e),
         NEW g \in Nat, e.awaited \in {0, g},
         e.deferred # NoOpen => e.lock.kind # "Held",
         e.reacquire # NoPoint => g # 0,
         NEW autoplay \in BOOLEAN, e.quiet => ~autoplay, NEW ok \in BOOLEAN
  PROVE  LET f == OpenExclusive(e, g, g, autoplay, ok)
         IN Good(f, queue, js) /\ NoLockInCompatible(f)
<1> DEFINE f == OpenExclusive(e, g, g, autoplay, ok)
<1>0. /\ e \in EngineType /\ Channel(queue, js)
      /\ OneClaim(e) /\ Resolving(e) /\ PointIsCurrent(e) /\ Silent(e)
      /\ NumberedIn(e, queue, js) /\ WorkedIn(e, queue, js)
  BY DEF Fit
<1>1. CASE e.lock = Acquiring
  <2> DEFINE o == [gen |-> g, autoplay |-> autoplay]
  <2>0. f = Later(e, g, autoplay)
    BY <1>1, OpenExclusiveIs
  <2>1. f = [e EXCEPT !.deferred = o]
    BY <2>0 DEF Later
  <2>2. o \in OpenType /\ o.gen = g /\ o.autoplay = autoplay
    BY DEF OpenType
  <2> HIDE DEF o, f
  <2>3. f \in EngineType
    BY <1>0, <2>1, <2>2 DEF EngineType
  <2>4. /\ Apart(e, f) /\ SamePath(e, f) /\ SameWork(e, f) /\ SameLock(e, f)
        /\ SameRest(e, f) /\ f.deferred = o /\ f.awaited = e.awaited
    BY <1>0, <2>1 DEF EngineType, Apart, SamePath, SameWork, SameLock, SameRest
  <2>5. OneClaim(f) /\ Resolving(f) /\ PointIsCurrent(f)
    BY <1>0, <2>4 DEF OneClaim, Resolving, PointIsCurrent, Apart, SamePath, SameWork,
                      SameLock, SameRest
  <2>6. Silent(f)
    BY <1>0, <2>2, <2>4 DEF Silent, Apart, SamePath, SameRest
  <2>7. Deferred(f)
    BY <1>1, <2>2, <2>4, KindsDiffer DEF Deferred, SameLock
  <2>8. NumberedIn(f, queue, js) /\ WorkedIn(f, queue, js)
    BY <1>0, <2>4, SameWorkIsNumbered, SameLockIsWorked DEF SameLock, SameRest
  <2>. QED
    BY <1>0, <2>3, <2>4, <2>5, <2>6, <2>7, <2>8
       DEF Good, Sound, NoLockInCompatible, SameLock, f
<1>2. CASE e.lock.kind \notin {"Acquiring", "Held"}
  <2>1. f = Answer(e, g)
    BY <1>2, OpenExclusiveIs
  <2>. QED
    BY <2>1, AnswerIsGood
<1>3. CASE e.lock.kind = "Held"
  <2> DEFINE c == ClosePath(e)
             u == [gen |-> g, track |-> g]
             w == OnClaim(c, g, g, autoplay)
  <2>1. f = IF c.claim = NoClaim \/ ~ok THEN Answer(c, g) ELSE Answer(w, g)
    BY <1>3, OpenExclusiveIs
  <2>2. /\ Fit(c, queue, js) /\ NoLockInCompatible(c) /\ Apart(e, c)
        /\ SameOpen(e, c) /\ SameLock(e, c) /\ SameRest(e, c)
        /\ c.path = NoClaim /\ ~c.playing
    BY ClosePathIsFit
  <2>3. u \in [gen : Nat, track : Nat] /\ u.gen = g /\ u.track = g
    OBVIOUS
  <2> HIDE DEF c, u, f
  <2>4. c.awaited \in {0, g} /\ c.deferred = NoOpen
    BY <1>3, <2>2 DEF SameOpen
  <2>5. CASE c.claim = NoClaim \/ ~ok
    BY <2>1, <2>2, <2>4, <2>5, AnswerIsGood DEF f
  <2>6. CASE ~(c.claim = NoClaim \/ ~ok)
    <3>0. /\ c \in EngineType /\ Channel(queue, js)
          /\ OneClaim(c) /\ Resolving(c) /\ PointIsCurrent(c) /\ Silent(c)
          /\ NumberedIn(c, queue, js) /\ WorkedIn(c, queue, js)
      BY <2>2 DEF Fit
    <3>u. w = [c EXCEPT !.path = c.claim, !.claim = NoClaim, !.playing = autoplay,
                        !.signal = "running", !.current = u, !.stopped = FALSE]
      BY DEF OnClaim, u
    <3> HIDE DEF w
    <3>1. w \in EngineType
      BY <3>u, <3>0, <2>3, NoneAreTyped DEF EngineType
    <3>2. /\ w.path = c.claim /\ w.claim = NoClaim /\ w.playing = autoplay
          /\ w.current = u /\ SameOpen(c, w) /\ SameWork(c, w) /\ SameLock(c, w)
          /\ SameRest(c, w) /\ w.quiet = c.quiet
      BY <3>0, <3>u DEF EngineType, SameOpen, SameWork, SameLock, SameRest
    <3> HIDE DEF w
    <3>3. OneClaim(w)
      BY <3>0, <3>2, <2>2, <2>6 DEF OneClaim, SameWork, SameLock
    <3>4. Resolving(w)
      BY <3>0, <3>2 DEF Resolving, SameLock, SameRest
    <3>5. PointIsCurrent(w)
      BY <1>3, <2>2, <2>3, <3>0, <3>2 DEF PointIsCurrent, SameLock, SameRest
    <3>6. Silent(w)
      BY <2>2, <2>6, <3>0, <3>2 DEF Silent, SameOpen, SameRest, Apart
    <3>7. NumberedIn(w, queue, js) /\ WorkedIn(w, queue, js)
      BY <3>0, <3>2, SameWorkIsNumbered, SameLockIsWorked DEF SameLock, SameRest
    <3>8. Fit(w, queue, js) /\ NoLockInCompatible(w)
      BY <2>2, <3>0, <3>1, <3>2, <3>3, <3>4, <3>5, <3>6, <3>7
         DEF Fit, NoLockInCompatible, SameLock
    <3>9. w.awaited \in {0, g} /\ w.deferred = NoOpen
      BY <2>4, <3>2 DEF SameOpen
    <3>10. f = Answer(w, g)
      BY <2>1, <2>6
    <3>. QED
      BY <3>8, <3>9, <3>10, AnswerIsGood DEF f
  <2>. QED
    BY <2>5, <2>6
<1>. QED
  BY <1>1, <1>2, <1>3, <1>0, LockIsOneOf DEF EngineType

\* The point to come back to is forgotten.
LEMMA WithoutPointIsFit ==
  ASSUME NEW e, NEW queue, NEW js, Fit(e, queue, js), NoLockInCompatible(e),
         NEW f \in EngineType, Apart(e, f), SamePath(e, f), SameOpen(e, f),
         SameWork(e, f), SameLock(e, f), f.reacquire = NoPoint,
         f.resolve = e.resolve
  PROVE  Fit(f, queue, js) /\ NoLockInCompatible(f)
<1>0. /\ e \in EngineType /\ Channel(queue, js)
      /\ OneClaim(e) /\ Resolving(e) /\ PointIsCurrent(e) /\ Silent(e)
      /\ NumberedIn(e, queue, js) /\ WorkedIn(e, queue, js)
  BY DEF Fit
<1>1. OneClaim(f)
  BY <1>0 DEF OneClaim, SamePath, SameWork, SameLock
<1>2. Resolving(f)
  BY <1>0 DEF Resolving, SameLock
<1>3. PointIsCurrent(f)
  BY <1>0 DEF PointIsCurrent, Apart
<1>4. Silent(f)
  BY <1>0 DEF Silent, Apart, SamePath, SameOpen, NoPoint
<1>5. NumberedIn(f, queue, js) /\ WorkedIn(f, queue, js)
  BY <1>0, SameWorkIsNumbered, SameLockIsWorked DEF SameLock
<1>6. NoLockInCompatible(f)
  BY DEF NoLockInCompatible, SameLock
<1>. QED
  BY <1>0, <1>1, <1>2, <1>3, <1>4, <1>5, <1>6 DEF Fit

\* reopen_after_reacquire, of a device that was captured with no Open waiting.
LEMMA ReopenAfterReacquireIsGood ==
  ASSUME NEW e, NEW queue, NEW js, Fit(e, queue, js), NoLockInCompatible(e),
         PointIsSaved(e), e.lock.kind = "Held", e.deferred = NoOpen,
         e.awaited = 0, NEW dev, NEW probe \in BOOLEAN, NEW ok \in BOOLEAN
  PROVE  LET f == ReopenAfterReacquire(e, dev, probe, ok)
         IN Good(f, queue, js) /\ NoLockInCompatible(f)
<1> DEFINE f == ReopenAfterReacquire(e, dev, probe, ok)
           n == [e EXCEPT !.reacquire = NoPoint]
           g == e.current.gen
           t == e.reacquire.track
           autoplay == e.reacquire.autoplay
<1>0. /\ e \in EngineType /\ PointIsCurrent(e) /\ Silent(e)
  BY DEF Fit
<1>1. CASE e.reacquire = NoPoint \/ e.reacquire.dev # dev
  <2>1. f = e
    BY <1>1 DEF ReopenAfterReacquire
  <2>2. Deferred(e)
    BY DEF Deferred
  <2>. QED
    BY <2>1, <2>2, GoodIsFit
<1>2. CASE ~(e.reacquire = NoPoint \/ e.reacquire.dev # dev)
  <2>1. n.current.gen = g
    BY <1>0 DEF EngineType
  <2>2. f = IF probe THEN OpenExclusive(n, n.current.gen, t, autoplay, ok)
                     ELSE Answer(n, n.current.gen)
    BY <1>2 DEF ReopenAfterReacquire
  <2>3. g \in Nat /\ autoplay \in BOOLEAN /\ (e.quiet => ~autoplay)
    BY <1>0 DEF EngineType, PointType, Silent
  <2>4. t = g
    BY <1>0, <1>2 DEF PointIsSaved, PointIsCurrent
  <2>5. /\ n \in EngineType /\ Apart(e, n) /\ SamePath(e, n) /\ SameOpen(e, n)
        /\ SameWork(e, n) /\ SameLock(e, n) /\ n.reacquire = NoPoint
        /\ n.resolve = e.resolve
    BY <1>0, NoneAreTyped DEF EngineType, Apart, SamePath, SameOpen, SameWork, SameLock
  <2> HIDE DEF n, t, autoplay, f
  <2>6. Fit(n, queue, js) /\ NoLockInCompatible(n)
    BY <2>5, WithoutPointIsFit
  <2>7. n.awaited \in {0, g} /\ n.deferred = NoOpen /\ n.quiet = e.quiet
    BY <2>5 DEF SameOpen, Apart
  <2> HIDE DEF g
  <2>8. f = IF probe THEN OpenExclusive(n, g, g, autoplay, ok) ELSE Answer(n, g)
    BY <2>1, <2>2, <2>4
  <2>9. CASE probe
    BY <2>3, <2>5, <2>6, <2>7, <2>8, <2>9, OpenExclusiveIsGood DEF f
  <2>10. CASE ~probe
    BY <2>6, <2>7, <2>8, <2>10, AnswerIsGood DEF f
  <2>. QED
    BY <2>9, <2>10
<1>. QED
  BY <1>1, <1>2

-----------------------------------------------------------------------------
(* The messages of the service threads.                                    *)

\* The engine when the message that it waited for is taken.
Taken(e, queue, js) ==
  /\ e \in EngineType /\ Sound(e) /\ NoLockInCompatible(e)
  /\ Channel(queue, js) /\ NumberedIn(e, queue, js) /\ e.lock = Acquiring

LEMMA TakenIsExclusive ==
  ASSUME NEW e, NEW queue, NEW js, Taken(e, queue, js)
  PROVE  /\ e.mode \in Exclusive
         /\ e.claim = NoClaim /\ e.path = NoClaim /\ ~e.playing
         /\ PointIsSaved(e)
BY KindsDiffer DEF Taken, Sound, NoLockInCompatible, Idle, OneClaim, Silent,
                   PointIsCurrent, PointIsSaved, EngineType, Mode

LEMMA CapturesIsGood ==
  ASSUME NEW e, NEW queue, NEW js, Taken(e, queue, js), NEW c \in ClaimType,
         c = [a |-> e.attempt, dev |-> e.target], c.dev \in Device,
         NEW probe \in BOOLEAN, NEW ok \in BOOLEAN
  PROVE  LET f == Captures(e, c, probe, ok)
         IN Good(f, queue, js) /\ NoLockInCompatible(f)
<1> DEFINE x == [e EXCEPT !.claim = c]
           n == CaptureResult(x, Captured(c.dev))
           d == e.deferred
           taken == [n EXCEPT !.deferred = NoOpen]
           f == Captures(e, c, probe, ok)
<1>0. /\ e \in EngineType /\ Channel(queue, js) /\ NumberedIn(e, queue, js)
      /\ OneClaim(e) /\ Deferred(e) /\ PointIsCurrent(e) /\ Silent(e)
      /\ e.lock = Acquiring
  BY DEF Taken, Sound
<1>1. /\ e.mode \in Exclusive /\ e.path = NoClaim /\ ~e.playing /\ PointIsSaved(e)
  BY TakenIsExclusive
<1>2. f = IF n.deferred # NoOpen /\ n.lock.kind = "Held"
            THEN OpenExclusive(ForgetReacquire(taken), n.deferred.gen, n.deferred.gen,
                               n.deferred.autoplay, ok)
            ELSE ReopenAfterReacquire(taken, c.dev, probe, ok)
  BY DEF Captures
<1>3. /\ x \in EngineType /\ x.claim = c /\ x.path = e.path
      /\ x.playing = e.playing /\ Apart(e, x) /\ SameOpen(e, x) /\ SameWork(e, x)
      /\ SameLock(e, x) /\ SameRest(e, x)
  BY <1>0 DEF EngineType, Apart, SameOpen, SameWork, SameLock, SameRest
<1> HIDE DEF x
<1>4. /\ n \in EngineType /\ Apart(x, n) /\ SamePath(x, n) /\ SameOpen(x, n)
      /\ SameWork(x, n) /\ n.mode = x.mode /\ n.lock = Held(c.dev)
      /\ n.reacquire = x.reacquire /\ n.resolve = NoResolve
  <2>1. x.mode \in Exclusive /\ x.lock = Acquiring
    BY <1>0, <1>1, <1>3 DEF SameLock
  <2>. QED
    BY <1>3, <2>1, CapturedDoes
<1> HIDE DEF n
<1>5. /\ taken \in EngineType /\ Apart(n, taken) /\ SamePath(n, taken)
      /\ SameWork(n, taken) /\ SameLock(n, taken) /\ SameRest(n, taken)
      /\ taken.deferred = NoOpen /\ taken.awaited = n.awaited
  BY <1>4, NoneAreTyped DEF EngineType, Apart, SamePath, SameWork, SameLock, SameRest
<1> HIDE DEF taken
<1>6. /\ taken.claim = c /\ taken.path = NoClaim /\ ~taken.playing
      /\ Apart(e, taken) /\ SameWork(e, taken) /\ taken.mode = e.mode
      /\ taken.lock = Held(c.dev) /\ taken.reacquire = e.reacquire
      /\ taken.resolve = NoResolve /\ taken.awaited = e.awaited
      /\ n.deferred = d
  BY <1>1, <1>3, <1>4, <1>5 DEF Apart, SamePath, SameOpen, SameWork, SameLock, SameRest
<1>7. Held(c.dev).kind = "Held" /\ Held(c.dev).dev = c.dev
  BY KindsDiffer
<1>8. Fit(taken, queue, js)
  <2>1. OneClaim(taken)
    BY <1>6, <1>7 DEF OneClaim, SameWork
  <2>2. Resolving(taken)
    BY <1>6 DEF Resolving
  <2>3. PointIsCurrent(taken)
    BY <1>0, <1>6, <1>7 DEF PointIsCurrent, Apart, Idle
  <2>4. Silent(taken)
    BY <1>0, <1>5, <1>6 DEF Silent, Apart, NoOpen
  <2>5. NumberedIn(taken, queue, js)
    BY <1>0, <1>6, SameWorkIsNumbered
  <2>6. WorkedIn(taken, queue, js)
    BY <1>6, <1>7, KindsDiffer DEF WorkedIn, Worked
  <2>. QED
    BY <1>0, <1>5, <2>1, <2>2, <2>3, <2>4, <2>5, <2>6 DEF Fit
<1>9. NoLockInCompatible(taken)
  BY <1>1, <1>6 DEF NoLockInCompatible, Exclusive
<1> HIDE DEF d, f
<1>10. CASE d # NoOpen
  <2> DEFINE r == ForgetReacquire(taken)
             g == d.gen
             autoplay == d.autoplay
  <2>1. f = OpenExclusive(r, g, g, autoplay, ok)
    BY <1>2, <1>4, <1>6, <1>7, <1>10
  <2>2. /\ r \in EngineType /\ Apart(taken, r) /\ SamePath(taken, r)
        /\ SameOpen(taken, r) /\ SameWork(taken, r) /\ SameLock(taken, r)
        /\ r.reacquire = NoPoint /\ r.resolve = taken.resolve
    BY <1>5, ForgetReacquireDoes
  <2>3. g \in Nat /\ autoplay \in BOOLEAN /\ (e.quiet => ~autoplay)
    BY <1>0 DEF EngineType, OpenType, Silent, d
  <2>4. e.awaited \in {0, g}
    BY <1>0 DEF Deferred, d
  <2> HIDE DEF r, g, autoplay
  <2>5. Fit(r, queue, js) /\ NoLockInCompatible(r)
    BY <1>8, <1>9, <2>2, WithoutPointIsFit
  <2>6. r.awaited \in {0, g} /\ r.deferred = NoOpen /\ r.quiet = e.quiet
    BY <1>5, <1>6, <2>2, <2>4 DEF SameOpen, Apart
  <2>. QED
    BY <2>1, <2>2, <2>3, <2>5, <2>6, OpenExclusiveIsGood DEF f
<1>11. CASE d = NoOpen
  <2>1. f = ReopenAfterReacquire(taken, c.dev, probe, ok)
    BY <1>2, <1>6, <1>11
  <2>2. taken.awaited = 0
    BY <1>0, <1>6, <1>11 DEF Deferred, NoOpen, d
  <2>3. PointIsSaved(taken) /\ taken.lock.kind = "Held"
    BY <1>1, <1>6, <1>7 DEF PointIsSaved, Apart
  <2>. QED
    BY <1>5, <1>8, <1>9, <2>1, <2>2, <2>3, ReopenAfterReacquireIsGood DEF f
<1>. QED
  BY <1>10, <1>11

LEMMA CaptureFailsIsGood ==
  ASSUME NEW e, NEW queue, NEW js, Taken(e, queue, js), NEW r \in Reason
  PROVE  LET f == CaptureFails(e, r)
         IN Good(f, queue, js) /\ NoLockInCompatible(f)
<1> DEFINE p == [e.reacquire EXCEPT !.autoplay = FALSE]
           x == [e EXCEPT !.reacquire = p]
           n == CaptureResult(x, CaptureFailed(r))
           f == CaptureFails(e, r)
<1>0. /\ e \in EngineType /\ Channel(queue, js) /\ NumberedIn(e, queue, js)
      /\ OneClaim(e) /\ Deferred(e) /\ PointIsCurrent(e) /\ Silent(e)
      /\ e.lock = Acquiring
  BY DEF Taken, Sound
<1>1. /\ e.mode \in Exclusive /\ e.claim = NoClaim /\ e.path = NoClaim
      /\ ~e.playing /\ PointIsSaved(e)
  BY TakenIsExclusive
<1>2. f = IF n.deferred = NoOpen THEN n
          ELSE StopPlayback(Answer([n EXCEPT !.deferred = NoOpen], n.deferred.gen))
  BY DEF CaptureFails
<1>3. /\ p \in PointType /\ ~p.autoplay
      /\ p # NoPoint => e.reacquire # NoPoint /\ p.track = e.reacquire.track
  <2>1. e.reacquire \in PointType
    BY <1>0 DEF EngineType
  <2>2. p \in PointType /\ p.track = e.reacquire.track
    BY <2>1 DEF PointType
  <2>3. p.autoplay = FALSE
    BY <2>1 DEF PointType
  <2>4. [NoPoint EXCEPT !.autoplay = FALSE] = NoPoint
    <3> DEFINE no == FALSE
               none == [dev |-> NoDevice, track |-> 0, autoplay |-> no]
    <3>1. ASSUME NEW b PROVE LET z == [dev |-> NoDevice, track |-> 0, autoplay |-> b]
                             IN [z EXCEPT !.autoplay = b] = z
      OBVIOUS
    <3> HIDE DEF no
    <3>2. [none EXCEPT !.autoplay = no] = none
      BY <3>1
    <3>. QED
      BY <3>2 DEF no, NoPoint
  <2>5. e.reacquire = NoPoint => p = NoPoint
    BY <2>4
  <2> HIDE DEF p
  <2>. QED
    BY <2>2, <2>3, <2>5
<1> HIDE DEF p
<1>4. /\ x \in EngineType /\ x.reacquire = p /\ Apart(e, x) /\ SamePath(e, x)
      /\ SameOpen(e, x) /\ SameWork(e, x) /\ SameLock(e, x)
  BY <1>0, <1>3 DEF EngineType, Apart, SamePath, SameOpen, SameWork, SameLock
<1> HIDE DEF x
<1>5. /\ n \in EngineType /\ Apart(x, n) /\ SamePath(x, n) /\ SameOpen(x, n)
      /\ SameWork(x, n) /\ n.mode = x.mode /\ n.lock = Failed(r)
      /\ n.reacquire = x.reacquire /\ n.resolve = NoResolve
  <2>1. x.mode \in Exclusive /\ x.lock = Acquiring
    BY <1>0, <1>1, <1>4 DEF SameLock
  <2>. QED
    BY <1>4, <2>1, CaptureFailedDoes
<1> HIDE DEF n, f
<1>6. /\ n.claim = NoClaim /\ n.path = NoClaim /\ ~n.playing /\ Apart(e, n)
      /\ SameOpen(e, n) /\ SameWork(e, n) /\ n.mode = e.mode /\ n.reacquire = p
  BY <1>1, <1>4, <1>5 DEF Apart, SamePath, SameOpen, SameWork, SameLock
<1>7. ASSUME NEW h \in EngineType, Apart(e, h), SameWork(e, h),
             h.claim = NoClaim /\ h.path = NoClaim /\ ~h.playing,
             h.mode = e.mode, h.lock = Failed(r), h.reacquire = p,
             h.resolve = NoResolve, Deferred(h),
             h.deferred = NoOpen \/ h.deferred = e.deferred
      PROVE  Good(h, queue, js) /\ NoLockInCompatible(h)
  <2>1. h.lock.kind = "Failed"
    BY <1>7, KindsDiffer
  <2>2. OneClaim(h)
    BY <1>7, <2>1 DEF OneClaim
  <2>3. Resolving(h)
    BY <1>7 DEF Resolving
  <2>4. PointIsCurrent(h)
    BY <1>0, <1>1, <1>3, <1>7, <2>1 DEF PointIsCurrent, PointIsSaved, Apart, Idle
  <2>5. Silent(h)
    BY <1>0, <1>3, <1>7 DEF Silent, Apart, NoOpen
  <2>6. NumberedIn(h, queue, js)
    BY <1>0, <1>7, SameWorkIsNumbered
  <2>7. WorkedIn(h, queue, js)
    BY <2>1, KindsDiffer DEF WorkedIn, Worked
  <2>8. NoLockInCompatible(h)
    BY <1>1, <1>7 DEF NoLockInCompatible, Exclusive
  <2>. QED
    BY <1>0, <1>7, <2>2, <2>3, <2>4, <2>5, <2>6, <2>7, <2>8 DEF Good, Sound
<1>8. CASE n.deferred = NoOpen
  <2>1. f = n
    BY <1>2, <1>8
  <2>2. Deferred(n)
    BY <1>0, <1>6, <1>8 DEF Deferred, SameOpen, NoOpen
  <2>. QED
    BY <1>5, <1>6, <1>7, <1>8, <2>1, <2>2 DEF f
<1>9. CASE n.deferred # NoOpen
  <2> DEFINE u == [n EXCEPT !.deferred = NoOpen]
             g == n.deferred.gen
             v == Answer(u, g)
  <2>1. f = StopPlayback(v)
    BY <1>2, <1>9
  <2>2. /\ u \in EngineType /\ Apart(n, u) /\ SamePath(n, u) /\ SameWork(n, u)
        /\ SameLock(n, u) /\ SameRest(n, u) /\ u.deferred = NoOpen
        /\ u.awaited = n.awaited
    BY <1>5, NoneAreTyped DEF EngineType, Apart, SamePath, SameWork, SameLock, SameRest
  <2> HIDE DEF u, g
  <2>3. /\ v \in EngineType /\ Apart(u, v) /\ SamePath(u, v) /\ SameWork(u, v)
        /\ SameLock(u, v) /\ SameRest(u, v) /\ v.deferred = u.deferred
        /\ v.awaited = IF u.awaited = g THEN 0 ELSE u.awaited
    BY <2>2, AnswerDoes
  <2> HIDE DEF v
  <2>4. /\ f \in EngineType
        /\ Apart(v, f) /\ SameWork(v, f) /\ SameLock(v, f) /\ SameRest(v, f)
        /\ f.path = NoClaim
        /\ IF v.path = NoClaim THEN f.claim = v.claim /\ f.playing = v.playing
                               ELSE f.claim = v.path /\ ~f.playing
        /\ f.deferred = NoOpen
        /\ f.awaited = IF v.awaited = v.deferred.gen THEN 0 ELSE v.awaited
    BY <2>1, <2>3, StopPlaybackDoes
  <2>5. f.awaited = 0
    BY <1>0, <1>6, <2>2, <2>3, <2>4 DEF Deferred, SameOpen, g
  <2>6. Deferred(f)
    BY <2>4, <2>5 DEF Deferred
  <2>7. /\ Apart(e, f) /\ SameWork(e, f) /\ f.claim = NoClaim /\ ~f.playing
        /\ f.mode = e.mode /\ f.lock = Failed(r) /\ f.reacquire = p
        /\ f.resolve = NoResolve
    BY <1>5, <1>6, <2>2, <2>3, <2>4 DEF Apart, SamePath, SameWork, SameLock, SameRest
  <2>. QED
    BY <1>7, <2>4, <2>6, <2>7 DEF f
<1>. QED
  BY <1>8, <1>9

\* The message that the engine waits for.
IsAnswer(e, m) ==
  /\ e.lock = Acquiring
  /\ IF e.resolve # NoResolve
       THEN m.type = "DeviceResolveDone" /\ m.a = e.resolve.a
       ELSE m.type = "ClaimDone" /\ m.a = e.attempt

LEMMA HeadAndTail ==
  ASSUME NEW queue \in Seq(MessageType), queue # <<>>
  PROVE  /\ Head(queue) \in MessageType /\ Head(queue) = queue[1]
         /\ 1 \in DOMAIN queue
         /\ Tail(queue) \in Seq(MessageType)
         /\ \A i \in DOMAIN Tail(queue) :
              i + 1 \in DOMAIN queue /\ Tail(queue)[i] = queue[i + 1]
         /\ \A i \in DOMAIN queue :
              i = 1 \/ (i - 1 \in DOMAIN Tail(queue) /\ Tail(queue)[i - 1] = queue[i])
OBVIOUS

LEMMA TailIsNumbered ==
  ASSUME NEW e, NEW queue \in Seq(MessageType), queue # <<>>, NEW js,
         NumberedIn(e, queue, js)
  PROVE  /\ NumberedIn(e, Tail(queue), js)
         /\ MessageIsNumbered(e, Head(queue))
<1>1. MessageIsNumbered(e, Head(queue))
  BY HeadAndTail DEF NumberedIn, Numbered
<1>2. ASSUME NEW i \in DOMAIN Tail(queue)
      PROVE  MessageIsNumbered(e, Tail(queue)[i])
  BY HeadAndTail DEF NumberedIn, Numbered
<1>. QED
  BY <1>1, <1>2 DEF NumberedIn, Numbered

\* A message that nobody waits for may be dropped.
LEMMA TailIsWorked ==
  ASSUME NEW e, NEW queue \in Seq(MessageType), queue # <<>>, NEW js,
         WorkedIn(e, queue, js), ~IsAnswer(e, Head(queue))
  PROVE  WorkedIn(e, Tail(queue), js)
<1> DEFINE kind == IF e.resolve # NoResolve THEN "resolve" ELSE "claim"
           type == IF e.resolve # NoResolve THEN "DeviceResolveDone" ELSE "ClaimDone"
           a == IF e.resolve # NoResolve THEN e.resolve.a ELSE e.attempt
<1> SUFFICES ASSUME e.lock = Acquiring
             PROVE  \/ \E j \in js \cup e.spawned : j.kind = kind /\ j.a = a
                    \/ \E i \in DOMAIN Tail(queue) :
                         Tail(queue)[i].type = type /\ Tail(queue)[i].a = a
  BY DEF WorkedIn, Worked
<1>1. \/ \E j \in js \cup e.spawned : j.kind = kind /\ j.a = a
      \/ \E i \in DOMAIN queue : queue[i].type = type /\ queue[i].a = a
  BY DEF WorkedIn, Worked
<1>2. ~(Head(queue).type = type /\ Head(queue).a = a)
  BY DEF IsAnswer
<1> HIDE DEF kind, type, a
<1>3. CASE \E i \in DOMAIN queue : queue[i].type = type /\ queue[i].a = a
  <2>1. PICK i \in DOMAIN queue : queue[i].type = type /\ queue[i].a = a
    BY <1>3
  <2>2. i # 1
    BY <2>1, <1>2, HeadAndTail
  <2>3. i - 1 \in DOMAIN Tail(queue) /\ Tail(queue)[i - 1] = queue[i]
    BY <2>2, HeadAndTail
  <2>. QED
    BY <2>1, <2>3
<1>. QED
  BY <1>1, <1>3

LEMMA TailIsGood ==
  ASSUME NEW e, NEW queue, NEW js, Good(e, queue, js), queue # <<>>
  PROVE  /\ NumberedIn(e, Tail(queue), js) /\ Channel(Tail(queue), js)
         /\ MessageIsNumbered(e, Head(queue)) /\ Head(queue) \in MessageType
         /\ ~IsAnswer(e, Head(queue)) => Good(e, Tail(queue), js)
<1>0. /\ e \in EngineType /\ Sound(e) /\ Channel(queue, js)
      /\ NumberedIn(e, queue, js) /\ WorkedIn(e, queue, js)
  BY DEF Good
<1>1. queue \in Seq(MessageType)
  BY <1>0 DEF Channel
<1>2. NumberedIn(e, Tail(queue), js) /\ MessageIsNumbered(e, Head(queue))
  BY <1>0, <1>1, TailIsNumbered
<1>3. Head(queue) \in MessageType /\ Tail(queue) \in Seq(MessageType)
  BY <1>1, HeadAndTail
<1>4. Channel(Tail(queue), js)
  BY <1>0, <1>3 DEF Channel
<1>5. ~IsAnswer(e, Head(queue)) => WorkedIn(e, Tail(queue), js)
  BY <1>0, <1>1, TailIsWorked
<1>. QED
  BY <1>0, <1>2, <1>3, <1>4, <1>5 DEF Good

LEMMA HandleClaimDoneIsGood ==
  ASSUME NEW e, NEW queue, NEW js, Good(e, queue, js), NoLockInCompatible(e),
         queue # <<>>, Head(queue).type = "ClaimDone",
         NEW probe \in BOOLEAN, NEW ok \in BOOLEAN
  PROVE  LET f == HandleClaimDone(e, Head(queue), probe, ok)
         IN Good(f, Tail(queue), js) /\ NoLockInCompatible(f)
<1> DEFINE m == Head(queue)
           f == HandleClaimDone(e, m, probe, ok)
           rest == Tail(queue)
<1>1. /\ NumberedIn(e, rest, js) /\ Channel(rest, js)
      /\ MessageIsNumbered(e, m) /\ m \in MessageType
      /\ ~IsAnswer(e, m) => Good(e, rest, js)
  BY TailIsGood
<1>2. m.type = "ClaimDone" /\ e \in EngineType /\ Sound(e)
  BY DEF Good
<1> HIDE DEF m, rest
<1>3. CASE m.a # e.attempt \/ e.lock # Acquiring
  <2>1. f = e
    BY <1>3 DEF HandleClaimDone
  <2>2. ~IsAnswer(e, m)
    BY <1>2, <1>3 DEF IsAnswer
  <2>. QED
    BY <1>1, <2>1, <2>2 DEF m, rest
<1>4. CASE m.a = e.attempt /\ e.lock = Acquiring
  <2>1. Taken(e, rest, js)
    BY <1>1, <1>2, <1>4 DEF Taken
  <2>2. f = IF m.claim # NoClaim THEN Captures(e, m.claim, probe, ok)
                                 ELSE CaptureFails(e, m.why)
    BY <1>4 DEF HandleClaimDone
  <2> HIDE DEF f
  <2>3. CASE m.claim # NoClaim
    <3>1. /\ m.claim.a = e.attempt /\ m.claim.dev = e.target
          /\ m.claim.dev \in Device /\ m.claim \in ClaimType
      BY <1>1, <1>2, <1>4, <2>3 DEF MessageIsNumbered, MessageType
    <3>2. m.claim = [a |-> e.attempt, dev |-> e.target]
      BY <3>1 DEF ClaimType
    <3>. QED
      BY <2>1, <2>2, <2>3, <3>1, <3>2, CapturesIsGood DEF f, m, rest
  <2>4. CASE m.claim = NoClaim
    <3>1. m.why \in Reason
      BY <1>1, <1>2, <2>4 DEF MessageIsNumbered
    <3>. QED
      BY <2>1, <2>2, <2>4, <3>1, CaptureFailsIsGood DEF f, m, rest
  <2>. QED
    BY <2>3, <2>4
<1>. QED
  BY <1>3, <1>4

LEMMA HandleReservationLostIsGood ==
  ASSUME NEW e, NEW queue, NEW js, Good(e, queue, js), NoLockInCompatible(e),
         queue # <<>>, Head(queue).type = "ReservationLost", NEW sp \in BOOLEAN
  PROVE  LET f == HandleReservationLost(e, Head(queue), sp)
         IN Good(f, Tail(queue), js) /\ NoLockInCompatible(f)
<1> DEFINE f == HandleReservationLost(e, Head(queue), sp)
<1>1. Good(e, Tail(queue), js)
  BY TailIsGood DEF IsAnswer
<1>2. f = DeviceLost(e, sp) \/ f = e
  BY DEF HandleReservationLost
<1>. QED
  BY <1>1, <1>2, DeviceLostIsGood

LEMMA HandleResolveDoneIsGood ==
  ASSUME NEW e, NEW queue, NEW js, Good(e, queue, js), NoLockInCompatible(e),
         queue # <<>>, Head(queue).type = "DeviceResolveDone",
         NEW found \in DeviceOrNone, NEW sp \in BOOLEAN
  PROVE  LET f == HandleResolveDone(e, Head(queue), found, sp)
         IN Good(f, Tail(queue), js) /\ NoLockInCompatible(f)
<1> DEFINE m == Head(queue)
           f == HandleResolveDone(e, m, found, sp)
           rest == Tail(queue)
<1>1. /\ NumberedIn(e, rest, js) /\ Channel(rest, js)
      /\ ~IsAnswer(e, m) => Good(e, rest, js)
  BY TailIsGood
<1>2. /\ m.type = "DeviceResolveDone" /\ e \in EngineType
      /\ OneClaim(e) /\ Resolving(e) /\ Deferred(e) /\ PointIsCurrent(e) /\ Silent(e)
  BY DEF Good, Sound
<1> HIDE DEF m, rest
<1>3. CASE e.resolve.a = 0 \/ m.a # e.resolve.a
  <2>1. f = e
    BY <1>3 DEF HandleResolveDone
  <2>2. ~IsAnswer(e, m)
    BY <1>2, <1>3 DEF IsAnswer, Resolving
  <2>. QED
    BY <1>1, <2>1, <2>2 DEF m, rest
<1>4. CASE ~(e.resolve.a = 0 \/ m.a # e.resolve.a)
  <2> DEFINE in == e.resolve.in
             mode == e.resolve.mode
             before == e.resolve.before
             w == [e EXCEPT !.resolve = NoResolve]
             yes == TRUE
             n == FinishLockInput(w, in, mode, before, found, yes, sp)
  <2>1. f = (IF n.lock = Acquiring THEN n ELSE Forsake(n)) /\ yes \in BOOLEAN
    BY <1>4 DEF HandleResolveDone
  <2>2. e.resolve # NoResolve
    BY <1>4 DEF NoResolve
  <2>3. /\ e.lock = Acquiring /\ mode \in Mode
        /\ in.kind \in Asking \cup {"ModeSelected"}
        /\ (in.kind = "ModeSelected" => mode \in Exclusive /\ in.mode = mode)
        /\ before.kind \in Idle \cup {"Failed"}
        /\ (before.kind \in Idle => e.reacquire = NoPoint)
        /\ before \in Locks /\ in \in Input
    BY <1>2, <2>2 DEF Resolving, EngineType, ResolveType
  <2>4. With(in, mode) /\ in.kind \notin {"DeviceLost", "DeviceSelected"}
    BY <2>3 DEF With, Legal, Asking
  <2>5. /\ w \in EngineType /\ w.resolve = NoResolve /\ Apart(e, w)
        /\ SamePath(e, w) /\ SameOpen(e, w) /\ SameWork(e, w) /\ SameLock(e, w)
        /\ w.reacquire = e.reacquire
    BY <1>2, NoneAreTyped DEF EngineType, Apart, SamePath, SameOpen, SameWork, SameLock
  <2> HIDE DEF w, in, mode, before, yes, f
  <2>n. n = FinishLockInput(w, in, mode, before, found, yes, sp)
    OBVIOUS
  <2> HIDE DEF n
  <2>6. OneClaim(w)
    BY <1>2, <2>5 DEF OneClaim, SamePath, SameWork, SameLock
  <2>7. Deferred(w)
    BY <1>2, <2>5 DEF Deferred, SameOpen, SameLock
  <2>8. PointIsCurrent(w)
    BY <1>2, <2>5 DEF PointIsCurrent, SameLock, Apart
  <2>9. Silent(w)
    BY <1>2, <2>5 DEF Silent, SamePath, SameOpen, Apart
  <2>10. Found(w, before)
    BY <2>3, <2>5 DEF Found, SameLock
  <2>11. NumberedIn(w, rest, js)
    BY <1>1, <2>5, SameWorkIsNumbered
  <2>12. w.mode = "Compatible" => before.kind \in Idle
    BY <2>3, <2>5, KindsDiffer DEF NoLockInCompatible, SameLock, Idle
  <2>13. before # w.lock
    BY <2>3, <2>5, KindsDiffer DEF SameLock, Idle
  <2>14. Ready(w, in, before, rest, js)
    BY <1>1, <2>3, <2>4, <2>5, <2>6, <2>7, <2>8, <2>9, <2>10, <2>11, <2>12, <2>13
       DEF Ready
  <2>15. Fit(n, rest, js) /\ Kept(n) /\ NoLockInCompatible(n)
    BY <2>1, <2>n, <2>4, <2>14, FinishIsGood
  <2>16. CASE n.lock = Acquiring
    <3>1. Deferred(n)
      BY <2>15, <2>16 DEF Kept, Deferred
    <3>. QED
      BY <2>1, <2>15, <2>16, <3>1, GoodIsFit DEF f, m, rest
  <2>17. CASE n.lock # Acquiring
    <3>1. Good(Forsake(n), rest, js) /\ NoLockInCompatible(Forsake(n))
      BY <2>15, ForsakeIsGood
    <3>. QED
      BY <2>1, <2>17, <3>1 DEF f, m, rest
  <2>. QED
    BY <2>16, <2>17
<1>. QED
  BY <1>3, <1>4

LEMMA HandlesIsGood ==
  ASSUME NEW queue, NEW js, Good(eng, queue, js), NoLockInCompatible(eng),
         queue # <<>>, NEW sp \in BOOLEAN, NEW probe \in BOOLEAN, NEW ok \in BOOLEAN,
         NEW e \in Handles(Head(queue), sp, probe, ok)
  PROVE  Good(e, Tail(queue), js) /\ NoLockInCompatible(e)
<1> DEFINE m == Head(queue)
<1>1. m.type \in {"ClaimDone", "ReservationLost", "DeviceResolveDone"}
  BY TailIsGood DEF MessageType
<1>2. CASE m.type = "ClaimDone"
  <2>1. e = HandleClaimDone(eng, m, probe, ok)
    BY <1>2 DEF Handles
  <2>. QED
    BY <1>2, <2>1, HandleClaimDoneIsGood
<1>3. CASE m.type = "ReservationLost"
  <2>1. e = HandleReservationLost(eng, m, sp)
    BY <1>3 DEF Handles
  <2>. QED
    BY <1>3, <2>1, HandleReservationLostIsGood
<1>4. CASE m.type = "DeviceResolveDone"
  <2>1. PICK d \in OnCard(eng, m.claim.dev) : e = HandleResolveDone(eng, m, d, sp)
    BY <1>4 DEF Handles
  <2>2. d \in DeviceOrNone
    <3>1. eng.catalog \subseteq Device
      BY DEF Good, EngineType
    <3>. QED
      BY <2>1, <3>1 DEF OnCard, DeviceOrNone
  <2>. QED
    BY <1>4, <2>1, <2>2, HandleResolveDoneIsGood
<1>. QED
  BY <1>1, <1>2, <1>3, <1>4

-----------------------------------------------------------------------------
(* Enumerating the devices, and the commands.                              *)

LEMMA TryReacquireIsGood ==
  ASSUME NEW e, NEW queue, NEW js, Good(e, queue, js), NoLockInCompatible(e),
         NEW sp \in BOOLEAN
  PROVE  LET f == TryReacquire(e, sp)
         IN Good(f, queue, js) /\ NoLockInCompatible(f)
<1> DEFINE d == Canonical(e, e.reacquire.dev)
           f == TryReacquire(e, sp)
           p == [e.reacquire EXCEPT !.dev = d]
           w == [e EXCEPT !.reacquire = p]
           in == DeviceReappeared(d)
<1>0. e \in EngineType /\ PointIsCurrent(e) /\ Silent(e)
  BY DEF Good, Sound
<1>1. CASE ~Waits(e) \/ d = NoDevice
  BY <1>1 DEF TryReacquire
<1>2. CASE Waits(e) /\ d # NoDevice
  <2>1. f = LockInput(w, in, sp)
    BY <1>2 DEF TryReacquire
  <2>2. d \in Device
    BY <1>0, <1>2, CanonicalIsDevice
  <2>3. in.kind = "DeviceReappeared" /\ Legal(in)
    BY <2>2 DEF DeviceReappeared, Press, Legal, Input
  <2>4. e.reacquire \in PointType
    BY <1>0 DEF EngineType
  <2>5. /\ p \in PointType /\ p.track = e.reacquire.track
        /\ p.autoplay = e.reacquire.autoplay
    BY <2>2, <2>4 DEF PointType, DeviceOrNone
  <2>6. /\ e.lock.kind = "Failed" /\ e.lock # Acquiring /\ e.reacquire # NoPoint
    BY <1>2, KindsDiffer DEF Waits
  <2> HIDE DEF d, p, in, f
  <2>7. w \in EngineType
    BY <1>0, <2>5 DEF EngineType
  <2>8. /\ Aside(e, w) /\ SamePath(e, w) /\ SameOpen(e, w) /\ SameWork(e, w)
        /\ SameLock(e, w) /\ w.resolve = e.resolve /\ w.reacquire = p
    BY <1>0 DEF EngineType, Aside, SamePath, SameOpen, SameWork, SameLock
  <2> HIDE DEF w
  <2>9. PointIsCurrent(w)
    BY <1>0, <2>5, <2>6, <2>8 DEF PointIsCurrent, Aside, SameLock, Idle
  <2>10. w.quiet => ~w.reacquire.autoplay
    BY <1>0, <2>5, <2>8 DEF Silent, Aside
  <2>11. Good(w, queue, js) /\ NoLockInCompatible(w)
    BY <2>6, <2>7, <2>8, <2>9, <2>10, PointKeepsGood
  <2>. QED
    BY <2>1, <2>3, <2>11, LockInputIsGood DEF f
<1>. QED
  BY <1>1, <1>2

LEMMA RefreshIsGood ==
  ASSUME NEW e, NEW queue, NEW js, Good(e, queue, js), NoLockInCompatible(e),
         NEW list, list = NoListing \/ list \in SUBSET Device, NEW sp \in BOOLEAN
  PROVE  LET f == RefreshDevices(e, list, sp)
         IN Good(f, queue, js) /\ NoLockInCompatible(f)
<1> DEFINE changed == list # NoListing /\ list # e.catalog
           t == IF e.retry = 0 THEN RetryAttempts - 1 ELSE e.retry - 1
           n == IF Waits(e) THEN NoteReacquireAttempt(e) ELSE e
           c == [n EXCEPT !.catalog = list]
           r == IF changed THEN TryReacquire(c, sp) ELSE n
           f == RefreshDevices(e, list, sp)
<1>0. e \in EngineType
  BY DEF Good
<1>1. f = IF Waits(r) THEN r ELSE [r EXCEPT !.retry = 0]
  BY DEF RefreshDevices
<1>2. Good(n, queue, js) /\ NoLockInCompatible(n)
  <2>1. CASE Waits(e)
    <3>1. t \in Nat
      BY <1>0, EngineAssumption DEF EngineType
    <3>2. n = [e EXCEPT !.retry = t]
      BY <2>1 DEF NoteReacquireAttempt
    <3> HIDE DEF n, t
    <3>3. n \in EngineType
      BY <1>0, <3>1, <3>2 DEF EngineType
    <3>4. SameButQuiet(e, n) /\ n.quiet = e.quiet
      BY <1>0, <3>2 DEF EngineType, SameButQuiet, SamePath, SameOpen, SameWork,
                        SameLock, SameRest
    <3>. QED
      BY <3>3, <3>4, SameIsGood
  <2>2. CASE ~Waits(e)
    BY <2>2
  <2>. QED
    BY <2>1, <2>2
<1> HIDE DEF n, f
<1>3. Good(r, queue, js) /\ NoLockInCompatible(r)
  <2>1. CASE changed
    <3>0. n \in EngineType /\ list \in SUBSET Device
      BY <1>2, <2>1 DEF Good
    <3>1. c \in EngineType
      BY <3>0 DEF EngineType
    <3>2. SameButQuiet(n, c) /\ c.quiet = n.quiet
      BY <3>0 DEF EngineType, SameButQuiet, SamePath, SameOpen, SameWork, SameLock,
                  SameRest
    <3> HIDE DEF c
    <3>3. Good(c, queue, js) /\ NoLockInCompatible(c)
      BY <1>2, <3>1, <3>2, SameIsGood
    <3>. QED
      BY <2>1, <3>3, TryReacquireIsGood
  <2>2. CASE ~changed
    BY <1>2, <2>2
  <2>. QED
    BY <2>1, <2>2
<1> HIDE DEF r
<1>4. CASE Waits(r)
  BY <1>1, <1>3, <1>4 DEF f
<1>5. CASE ~Waits(r)
  <2>1. f = [r EXCEPT !.retry = 0]
    BY <1>1, <1>5
  <2>2. r \in EngineType
    BY <1>3 DEF Good
  <2>3. f \in EngineType
    BY <2>1, <2>2 DEF EngineType
  <2>4. SameButQuiet(r, f) /\ f.quiet = r.quiet
    BY <2>1, <2>2 DEF EngineType, SameButQuiet, SamePath, SameOpen, SameWork,
                      SameLock, SameRest
  <2>. QED
    BY <1>3, <2>3, <2>4, SameIsGood DEF f
<1>. QED
  BY <1>4, <1>5

LEMMA ClosePathIsGood ==
  ASSUME NEW e, NEW queue, NEW js, Good(e, queue, js), NoLockInCompatible(e)
  PROVE  LET f == ClosePath(e)
         IN Good(f, queue, js) /\ NoLockInCompatible(f)
<1> DEFINE f == ClosePath(e)
<1>1. Fit(e, queue, js) /\ Deferred(e)
  BY GoodIsFit
<1>2. /\ Fit(f, queue, js) /\ NoLockInCompatible(f) /\ Apart(e, f)
      /\ SameOpen(e, f) /\ SameLock(e, f)
  BY <1>1, ClosePathIsFit
<1> HIDE DEF f
<1>3. Deferred(f)
  BY <1>1, <1>2 DEF Deferred, SameOpen, SameLock
<1>. QED
  BY <1>2, <1>3, GoodIsFit DEF f

LEMMA PollPathIsGood ==
  ASSUME NEW e, NEW queue, NEW js, Good(e, queue, js), NoLockInCompatible(e),
         NEW sp \in BOOLEAN
  PROVE  LET f == PollPath(e, sp)
         IN Good(f, queue, js) /\ NoLockInCompatible(f)
<1>1. PollPath(e, sp) \in {e, DeviceLost(e, sp), ClosePath(e)}
  BY DEF PollPath
<1>. QED
  BY <1>1, DeviceLostIsGood, ClosePathIsGood

LEMMA StopIsGood ==
  ASSUME NEW e, NEW queue, NEW js, Good(e, queue, js), NoLockInCompatible(e)
  PROVE  LET f == StopPlayback(e)
         IN Good(f, queue, js) /\ NoLockInCompatible(f)
<1> DEFINE f == StopPlayback(e)
<1>0. /\ e \in EngineType /\ Channel(queue, js) /\ NumberedIn(e, queue, js)
      /\ WorkedIn(e, queue, js) /\ OneClaim(e) /\ Resolving(e) /\ Deferred(e)
      /\ PointIsCurrent(e) /\ Silent(e)
  BY DEF Good, Sound
<1>1. /\ f \in EngineType
      /\ Apart(e, f) /\ SameWork(e, f) /\ SameLock(e, f) /\ SameRest(e, f)
      /\ f.path = NoClaim
      /\ IF e.path = NoClaim
           THEN f.claim = e.claim /\ f.playing = e.playing
           ELSE f.claim = e.path /\ ~f.playing
      /\ f.deferred = NoOpen
      /\ f.awaited = IF e.awaited = e.deferred.gen THEN 0 ELSE e.awaited
  BY <1>0, StopPlaybackDoes
<1> HIDE DEF f
<1>2. OneClaim(f)
  BY <1>0, <1>1 DEF OneClaim, SameWork, SameLock
<1>3. Resolving(f) /\ PointIsCurrent(f)
  BY <1>0, <1>1 DEF Resolving, PointIsCurrent, SameLock, SameRest, Apart
<1>4. Deferred(f)
  BY <1>0, <1>1 DEF Deferred
<1>5. Silent(f)
  BY <1>0, <1>1 DEF Silent, SameRest, Apart, NoOpen
<1>6. NumberedIn(f, queue, js) /\ WorkedIn(f, queue, js)
  BY <1>0, <1>1, SameWorkIsNumbered, SameLockIsWorked DEF SameLock, SameRest
<1>. QED
  BY <1>0, <1>1, <1>2, <1>3, <1>4, <1>5, <1>6
     DEF Good, Sound, NoLockInCompatible, SameLock, f

\* Playing, and pausing, change nothing else that the invariant tells.
LEMMA PlayingIsGood ==
  ASSUME NEW e, NEW queue, NEW js, Good(e, queue, js), NoLockInCompatible(e),
         NEW f \in EngineType, f.current = e.current, f.claim = e.claim,
         f.path = e.path, SameOpen(e, f), SameWork(e, f), SameLock(e, f),
         SameRest(e, f), f.playing => f.path # NoClaim,
         f.quiet => e.quiet /\ ~f.playing
  PROVE  Good(f, queue, js) /\ NoLockInCompatible(f)
<1>0. /\ Channel(queue, js) /\ NumberedIn(e, queue, js)
      /\ WorkedIn(e, queue, js) /\ OneClaim(e) /\ Resolving(e) /\ Deferred(e)
      /\ PointIsCurrent(e) /\ Silent(e)
  BY DEF Good, Sound
<1>1. OneClaim(f)
  BY <1>0 DEF OneClaim, SameWork, SameLock
<1>2. Resolving(f) /\ PointIsCurrent(f)
  BY <1>0 DEF Resolving, PointIsCurrent, SameLock, SameRest
<1>3. Deferred(f)
  BY <1>0 DEF Deferred, SameOpen, SameLock
<1>4. Silent(f)
  BY <1>0 DEF Silent, SameOpen, SameRest
<1>5. NumberedIn(f, queue, js) /\ WorkedIn(f, queue, js)
  BY <1>0, SameWorkIsNumbered, SameLockIsWorked DEF SameLock, SameRest
<1>. QED
  BY <1>0, <1>1, <1>2, <1>3, <1>4, <1>5 DEF Good, Sound, NoLockInCompatible, SameLock

LEMMA HandlePlayIsGood ==
  ASSUME NEW e, NEW queue, NEW js, Good(e, queue, js), NoLockInCompatible(e)
  PROVE  LET f == HandlePlay(e)
         IN Good(f, queue, js) /\ NoLockInCompatible(f)
<1> DEFINE b == e.path # NoClaim
           no == FALSE
           f == [e EXCEPT !.playing = b, !.stopped = no, !.quiet = no]
<1>0. e \in EngineType /\ b \in BOOLEAN /\ no \in BOOLEAN
  BY DEF Good
<1>1. HandlePlay(e) = f
  BY DEF HandlePlay
<1>2. (b <=> e.path # NoClaim) /\ ~no
  OBVIOUS
<1> HIDE DEF b, no
<1>3. f \in EngineType
  BY <1>0 DEF EngineType
<1>4. /\ f.playing = b /\ f.quiet = no /\ f.current = e.current
      /\ f.claim = e.claim /\ f.path = e.path /\ SameOpen(e, f)
      /\ SameWork(e, f) /\ SameLock(e, f) /\ SameRest(e, f)
  BY <1>0 DEF EngineType, SameOpen, SameWork, SameLock, SameRest
<1> HIDE DEF f
<1>. QED
  BY <1>1, <1>2, <1>3, <1>4, PlayingIsGood

LEMMA HandlePauseIsGood ==
  ASSUME NEW e, NEW queue, NEW js, Good(e, queue, js), NoLockInCompatible(e)
  PROVE  LET f == HandlePause(e)
         IN Good(f, queue, js) /\ NoLockInCompatible(f)
<1> DEFINE f == HandlePause(e)
<1>0. e \in EngineType
  BY DEF Good
<1>1. f \in EngineType
  BY <1>0 DEF HandlePause, EngineType
<1>2. /\ ~f.playing /\ f.quiet = e.quiet /\ f.current = e.current
      /\ f.claim = e.claim /\ f.path = e.path /\ SameOpen(e, f)
      /\ SameWork(e, f) /\ SameLock(e, f) /\ SameRest(e, f)
  BY <1>0 DEF HandlePause, EngineType, SameOpen, SameWork, SameLock, SameRest
<1> HIDE DEF f
<1>. QED
  BY <1>1, <1>2, PlayingIsGood DEF f

\* An opening that is fit but for the track the engine names.
LEMMA CurrentIsFit ==
  ASSUME NEW e, NEW queue, NEW js, Fit(e, queue, js), NoLockInCompatible(e),
         e.mode = "Compatible",
         NEW f \in EngineType, f.current.gen = f.current.track,
         SamePath(e, f), SameOpen(e, f), SameWork(e, f), SameLock(e, f),
         SameRest(e, f), f.quiet = e.quiet
  PROVE  Fit(f, queue, js) /\ NoLockInCompatible(f)
<1>0. /\ e \in EngineType /\ Channel(queue, js)
      /\ OneClaim(e) /\ Resolving(e) /\ PointIsCurrent(e) /\ Silent(e)
      /\ NumberedIn(e, queue, js) /\ WorkedIn(e, queue, js)
  BY DEF Fit
<1>1. e.lock.kind \in Idle /\ e.reacquire = NoPoint
  BY <1>0 DEF NoLockInCompatible, PointIsCurrent
<1>2. OneClaim(f) /\ Resolving(f)
  BY <1>0 DEF OneClaim, Resolving, SamePath, SameWork, SameLock, SameRest
<1>3. PointIsCurrent(f)
  BY <1>1 DEF PointIsCurrent, SameRest
<1>4. Silent(f)
  BY <1>0 DEF Silent, SamePath, SameOpen, SameRest
<1>5. NumberedIn(f, queue, js) /\ WorkedIn(f, queue, js)
  BY <1>0, SameWorkIsNumbered, SameLockIsWorked DEF SameLock, SameRest
<1>. QED
  BY <1>0, <1>2, <1>3, <1>4, <1>5 DEF Fit, NoLockInCompatible, SameLock

LEMMA OpenCompatibleIsGood ==
  ASSUME NEW e, NEW queue, NEW js, Fit(e, queue, js), NoLockInCompatible(e),
         e.mode = "Compatible", NEW g \in Nat, e.awaited \in {0, g},
         e.deferred # NoOpen => e.lock.kind # "Held",
         NEW f \in OpenCompatible(e, g)
  PROVE  Good(f, queue, js) /\ NoLockInCompatible(f)
<1> DEFINE u == [gen |-> g, track |-> g]
           z == [gen |-> 0, track |-> 0]
           yes == TRUE
           no == FALSE
           a == [e EXCEPT !.current = u, !.stopped = no]
           b == [e EXCEPT !.current = z, !.stopped = yes]
<1>0. e \in EngineType
  BY DEF Fit
<1>1. f = Answer(a, g) \/ f = Answer(b, g) \/ f = Answer(e, g)
  BY DEF OpenCompatible
<1>2. /\ u \in [gen : Nat, track : Nat] /\ u.gen = u.track
      /\ z \in [gen : Nat, track : Nat] /\ z.gen = z.track
      /\ yes \in BOOLEAN /\ no \in BOOLEAN
  OBVIOUS
<1> HIDE DEF u, z, yes, no
<1>3. a \in EngineType /\ b \in EngineType
  BY <1>0, <1>2 DEF EngineType
<1>4. /\ a.current = u /\ SamePath(e, a) /\ SameOpen(e, a) /\ SameWork(e, a)
      /\ SameLock(e, a) /\ SameRest(e, a) /\ a.quiet = e.quiet
  BY <1>0 DEF EngineType, SamePath, SameOpen, SameWork, SameLock, SameRest
<1>5. /\ b.current = z /\ SamePath(e, b) /\ SameOpen(e, b) /\ SameWork(e, b)
      /\ SameLock(e, b) /\ SameRest(e, b) /\ b.quiet = e.quiet
  BY <1>0 DEF EngineType, SamePath, SameOpen, SameWork, SameLock, SameRest
<1> HIDE DEF a, b
<1>6. ASSUME NEW x \in {a, b}
      PROVE  Good(Answer(x, g), queue, js) /\ NoLockInCompatible(Answer(x, g))
  <2>1. Fit(x, queue, js) /\ NoLockInCompatible(x)
    BY <1>2, <1>3, <1>4, <1>5, CurrentIsFit
  <2>2. x.awaited \in {0, g} /\ (x.deferred # NoOpen => x.lock.kind # "Held")
    BY <1>4, <1>5 DEF SameOpen, SameLock
  <2>. QED
    BY <2>1, <2>2, AnswerIsGood
<1>7. Good(Answer(e, g), queue, js) /\ NoLockInCompatible(Answer(e, g))
  BY AnswerIsGood
<1>. QED
  BY <1>1, <1>6, <1>7

LEMMA HandleOpenIsGood ==
  ASSUME NEW e, NEW queue, NEW js, Good(e, queue, js), NoLockInCompatible(e),
         NEW autoplay \in BOOLEAN, NEW probe \in BOOLEAN, NEW ok \in BOOLEAN,
         NEW f \in HandleOpen(e, autoplay, probe, ok)
  PROVE  Good(f, queue, js) /\ NoLockInCompatible(f)
<1> DEFINE g == e.asked + 1
           q == e.quiet /\ ~autoplay
           n == [e EXCEPT !.asked = g, !.awaited = g, !.quiet = q]
<1>0. /\ e \in EngineType /\ Channel(queue, js) /\ NumberedIn(e, queue, js)
      /\ WorkedIn(e, queue, js) /\ OneClaim(e) /\ Resolving(e) /\ Deferred(e)
      /\ PointIsCurrent(e) /\ Silent(e)
  BY DEF Good, Sound
<1>1. g \in Nat /\ g # 0 /\ q \in BOOLEAN
  BY <1>0 DEF EngineType
<1>2. q => e.quiet /\ ~autoplay
  BY <1>0 DEF EngineType
<1>3. \/ ~probe /\ f \in {Answer(n, g)}
      \/ probe /\ e.mode = "Compatible" /\ f \in OpenCompatible(n, g)
      \/ f \in {OpenExclusive(n, g, g, autoplay, ok)}
  <2> DEFINE nn == [e EXCEPT !.asked = e.asked + 1, !.awaited = e.asked + 1,
                             !.quiet = @ /\ ~autoplay]
             A == Answer(nn, g)
             C == OpenCompatible(nn, g)
             O == OpenExclusive(nn, g, g, autoplay, ok)
  <2>1. n = nn
    OBVIOUS
  <2>2. nn.mode = e.mode
    BY <1>0 DEF EngineType
  <2>3. HandleOpen(e, autoplay, probe, ok) =
          CASE ~probe -> {A}
            [] probe /\ nn.mode = "Compatible" -> C
            [] OTHER -> {O}
    BY DEF HandleOpen
  <2> HIDE DEF nn, A, C, O, n
  <2>4. \/ ~probe /\ f \in {A}
        \/ probe /\ e.mode = "Compatible" /\ f \in C
        \/ f \in {O}
    BY <2>2, <2>3
  <2>. QED
    BY <2>1, <2>4 DEF A, C, O
<1> HIDE DEF g, q
<1>4. n \in EngineType
  BY <1>0, <1>1 DEF EngineType
<1>5. /\ n.awaited = g /\ n.quiet = q /\ n.current = e.current
      /\ n.deferred = e.deferred /\ SamePath(e, n) /\ SameWork(e, n)
      /\ SameLock(e, n) /\ SameRest(e, n)
  BY <1>0 DEF EngineType, SamePath, SameWork, SameLock, SameRest
<1> HIDE DEF n
<1>6. Fit(n, queue, js)
  <2>1. OneClaim(n) /\ Resolving(n)
    BY <1>0, <1>5 DEF OneClaim, Resolving, SamePath, SameWork, SameLock, SameRest
  <2>2. PointIsCurrent(n)
    BY <1>0, <1>5 DEF PointIsCurrent, SameLock, SameRest
  <2>3. Silent(n)
    BY <1>0, <1>2, <1>5 DEF Silent, SamePath, SameRest
  <2>4. NumberedIn(n, queue, js) /\ WorkedIn(n, queue, js)
    BY <1>0, <1>5, SameWorkIsNumbered, SameLockIsWorked DEF SameLock, SameRest
  <2>. QED
    BY <1>0, <1>4, <2>1, <2>2, <2>3, <2>4 DEF Fit
<1>7. NoLockInCompatible(n) /\ n.mode = e.mode
  BY <1>5 DEF NoLockInCompatible, SameLock
<1>8. n.awaited \in {0, g} /\ (n.deferred # NoOpen => n.lock.kind # "Held")
  BY <1>0, <1>5 DEF Deferred, SameLock
<1>9. CASE f \in {Answer(n, g)}
  BY <1>6, <1>7, <1>8, <1>9, AnswerIsGood
<1>10. CASE e.mode = "Compatible" /\ f \in OpenCompatible(n, g)
  BY <1>1, <1>6, <1>7, <1>8, <1>10, OpenCompatibleIsGood
<1>11. CASE f \in {OpenExclusive(n, g, g, autoplay, ok)}
  <2>1. n.quiet => ~autoplay
    BY <1>2, <1>5
  <2>2. f = OpenExclusive(n, g, g, autoplay, ok)
    BY <1>11
  <2>. QED
    BY <1>1, <1>6, <1>7, <1>8, <2>1, <2>2, OpenExclusiveIsGood
<1>. QED
  BY <1>3, <1>9, <1>10, <1>11

LEMMA ReopenIsGood ==
  ASSUME NEW e, NEW queue, NEW js, Good(e, queue, js), NoLockInCompatible(e),
         NEW probe \in BOOLEAN, NEW ok \in BOOLEAN
  PROVE  LET f == Reopen(e, probe, ok)
         IN Good(f, queue, js) /\ NoLockInCompatible(f)
<1> DEFINE f == Reopen(e, probe, ok)
           g == e.current.gen
           b == e.playing
<1>0. Fit(e, queue, js) /\ Deferred(e)
  BY GoodIsFit
<1>1. CASE f = e
  BY <1>1
<1>2. CASE f # e
  <2>1. /\ e.path # NoClaim /\ g # 0
        /\ f = OpenExclusive(e, g, e.current.track, b, ok)
    BY <1>2 DEF Reopen
  <2>2. /\ e \in EngineType /\ OneClaim(e) /\ PointIsCurrent(e) /\ Silent(e)
    BY <1>0 DEF Fit
  <2>3. e.current.track = g /\ g \in Nat /\ b \in BOOLEAN /\ (e.quiet => ~b)
    BY <2>2 DEF PointIsCurrent, EngineType, Silent
  <2>4. e.lock.kind = "Held"
    BY <2>1, <2>2 DEF OneClaim
  <2>5. e.deferred = NoOpen /\ e.awaited \in {0, g}
    BY <1>0, <2>4 DEF Deferred, NoOpen
  <2> HIDE DEF f, g, b
  <2>6. f = OpenExclusive(e, g, g, b, ok)
    BY <2>1, <2>3
  <2>. QED
    BY <1>0, <2>1, <2>3, <2>5, <2>6, OpenExclusiveIsGood DEF f
<1>. QED
  BY <1>1, <1>2

LEMMA SelectedIsLegal ==
  ASSUME NEW d \in Device
  PROVE  DeviceSelected(d).kind = "DeviceSelected" /\ Legal(DeviceSelected(d))
BY DEF DeviceSelected, Press, Legal, Input

\* The switch to another device of the same mode.
LEMMA SwitchIsGood ==
  ASSUME NEW e, NEW queue, NEW js, Good(e, queue, js), NoLockInCompatible(e),
         NEW d \in Device, NEW sp \in BOOLEAN
  PROVE  LET f == LockInput(SaveSwitchPoint(e, d), DeviceSelected(d), sp)
         IN Good(f, queue, js) /\ NoLockInCompatible(f)
<1> DEFINE s == SaveSwitchPoint(e, d)
           in == DeviceSelected(d)
           f == LockInput(s, in, sp)
<1>1. Good(s, queue, js) /\ NoLockInCompatible(s) /\ PointIsSaved(s)
  BY SaveSwitchPointIsGood DEF DeviceOrNone
<1>2. in.kind = "DeviceSelected" /\ Legal(in)
  BY SelectedIsLegal
<1> HIDE DEF s, in
<1>3. Good(f, queue, js) /\ NoLockInCompatible(f)
  BY <1>1, <1>2, LockInputIsGood
<1>. QED
  BY <1>3 DEF s, in

LEMMA HandleSetDeviceIsGood ==
  ASSUME NEW e, NEW queue, NEW js, Good(e, queue, js), NoLockInCompatible(e),
         NEW m \in Exclusive, NEW d \in DeviceOrNone, NEW sp \in BOOLEAN
  PROVE  LET f == HandleSetDevice(e, m, d, sp)
         IN Good(f, queue, js) /\ NoLockInCompatible(f)
<1> DEFINE o == [e.opts EXCEPT ![m] = d]
           n == [e EXCEPT !.opts = o]
           f == HandleSetDevice(e, m, d, sp)
<1>0. e \in EngineType
  BY DEF Good
<1>1. o \in [Exclusive -> DeviceOrNone]
  BY <1>0 DEF EngineType
<1>2. f = n \/ (d # NoDevice
                /\ f = LockInput(SaveSwitchPoint(n, d), DeviceSelected(d), sp))
  BY DEF HandleSetDevice
<1> HIDE DEF o
<1>3. n \in EngineType
  BY <1>0, <1>1 DEF EngineType
<1>4. SameButQuiet(e, n) /\ n.quiet = e.quiet
  BY <1>0 DEF EngineType, SameButQuiet, SamePath, SameOpen, SameWork, SameLock, SameRest
<1> HIDE DEF n, f
<1>5. Good(n, queue, js) /\ NoLockInCompatible(n)
  BY <1>3, <1>4, SameIsGood
<1>6. CASE d # NoDevice /\ f = LockInput(SaveSwitchPoint(n, d), DeviceSelected(d), sp)
  <2>1. d \in Device
    BY <1>6 DEF DeviceOrNone
  <2>. QED
    BY <1>5, <1>6, <2>1, SwitchIsGood DEF f
<1>. QED
  BY <1>2, <1>5, <1>6 DEF f

LEMMA HandleSetActiveModeIsGood ==
  ASSUME NEW e, NEW queue, NEW js, Good(e, queue, js), NoLockInCompatible(e),
         NEW m \in Mode, NEW sp \in BOOLEAN
  PROVE  LET f == HandleSetActiveMode(e, m, sp)
         IN Good(f, queue, js) /\ NoLockInCompatible(f)
<1> DEFINE in == ModeSelected(m)
           l == LockInput(e, in, sp)
           d == ModeDevice(l, m)
           differ == /\ NoDevice \notin {ModeDevice(l, e.mode), d}
                     /\ ModeDevice(l, e.mode) # d
           s == IF differ THEN LockInput(SaveSwitchPoint(l, d), DeviceSelected(d), sp)
                          ELSE l
           f == HandleSetActiveMode(e, m, sp)
<1>0. e.mode \in Mode
  BY DEF Good, EngineType
<1>1. f = [s EXCEPT !.mode = m]
  BY DEF HandleSetActiveMode
<1>2. /\ in.kind = "ModeSelected" /\ in.mode = m /\ Legal(in)
      /\ ModeAfter(e.mode, in) = m
  BY DEF ModeSelected, Press, Legal, Input, ModeAfter
<1> HIDE DEF in, f
<1>3. /\ Good(l, queue, js) /\ l.mode \in {e.mode, m}
      /\ m = "Compatible" => l.lock.kind \in Idle
  BY <1>2, LockInputIsGood
<1> HIDE DEF l
<1>4. Good(s, queue, js) /\ (m = "Compatible" => s.lock.kind \in Idle)
  <2>1. CASE differ
    <3>1. e.mode \in Exclusive /\ m \in Exclusive
      BY <2>1 DEF ModeDevice
    <3>2. NoLockInCompatible(l)
      BY <1>3, <3>1 DEF NoLockInCompatible, Exclusive
    <3>3. d \in Device
      <4>1. l \in EngineType
        BY <1>3 DEF Good
      <4>2. d \in DeviceOrNone
        BY <4>1, ModeDeviceIsTyped
      <4>. QED
        BY <2>1, <4>2 DEF DeviceOrNone
    <3>4. s = LockInput(SaveSwitchPoint(l, d), DeviceSelected(d), sp)
      BY <2>1
    <3> HIDE DEF d, s
    <3>5. Good(s, queue, js)
      BY <1>3, <3>2, <3>3, <3>4, SwitchIsGood
    <3>. QED
      BY <3>1, <3>5 DEF Exclusive
  <2>2. CASE ~differ
    BY <1>3, <2>2
  <2>. QED
    BY <2>1, <2>2
<1> HIDE DEF s
<1>5. /\ s \in EngineType /\ Sound(s) /\ Channel(queue, js)
      /\ NumberedIn(s, queue, js) /\ WorkedIn(s, queue, js)
  BY <1>4 DEF Good
<1>6. f \in EngineType
  BY <1>1, <1>5 DEF EngineType
<1>7. /\ f.mode = m /\ f.lock = s.lock /\ f.current = s.current /\ f.quiet = s.quiet
      /\ SamePath(s, f) /\ SameOpen(s, f) /\ SameWork(s, f) /\ SameRest(s, f)
  BY <1>1, <1>5 DEF EngineType, SamePath, SameOpen, SameWork, SameRest
<1>8. OneClaim(f) /\ Resolving(f)
  BY <1>5, <1>7 DEF Sound, OneClaim, Resolving, SamePath, SameWork, SameRest
<1>9. Deferred(f) /\ PointIsCurrent(f)
  BY <1>5, <1>7 DEF Sound, Deferred, PointIsCurrent, SameOpen, SameRest
<1>10. Silent(f)
  BY <1>5, <1>7 DEF Sound, Silent, SamePath, SameOpen, SameRest
<1>11. NumberedIn(f, queue, js) /\ WorkedIn(f, queue, js)
  BY <1>5, <1>7, SameWorkIsNumbered, SameLockIsWorked DEF SameRest
<1>12. NoLockInCompatible(f)
  BY <1>4, <1>7 DEF NoLockInCompatible
<1>. QED
  BY <1>5, <1>6, <1>8, <1>9, <1>10, <1>11, <1>12 DEF Good, Sound, f

-----------------------------------------------------------------------------
(* The steps of the system.                                                *)

\* What is left when the loop has ended.
Ended(e) == /\ e.path = NoClaim /\ Deferred(e)
            /\ e.current.gen = e.current.track
            /\ e.quiet => ~e.playing

LEMMA ShutdownEnds ==
  ASSUME NEW e, NEW queue, NEW js, Good(e, queue, js), e.spawned = {}
  PROVE  LET f == HandleShutdown(e)
         IN f \in EngineType /\ f.spawned = {} /\ Ended(f)
<1> DEFINE c == ClosePath(e)
           z == [gen |-> 0, track |-> 0]
           f == [c EXCEPT !.claim = NoClaim, !.resolve = NoResolve,
                          !.current = z, !.stopped = TRUE]
<1>0. Fit(e, queue, js) /\ Deferred(e)
  BY GoodIsFit
<1>1. e \in EngineType /\ Silent(e)
  BY <1>0 DEF Fit
<1>2. /\ c \in EngineType /\ Apart(e, c) /\ SameOpen(e, c) /\ SameWork(e, c)
      /\ SameLock(e, c) /\ c.path = NoClaim
      /\ (e.path = NoClaim => c.playing = e.playing)
      /\ (e.path # NoClaim => ~c.playing)
  BY <1>1, ClosePathDoes
<1>3. z \in [gen : Nat, track : Nat] /\ z.gen = z.track
  OBVIOUS
<1>4. HandleShutdown(e) = f
  BY DEF HandleShutdown
<1> HIDE DEF c, z
<1>5. f \in EngineType
  BY <1>2, <1>3, NoneAreTyped DEF EngineType
<1>6. /\ f.path = NoClaim /\ f.playing = c.playing /\ f.quiet = c.quiet
      /\ f.current = z /\ SameOpen(c, f) /\ f.lock = c.lock
      /\ f.spawned = c.spawned
  BY <1>2 DEF EngineType, SameOpen
<1> HIDE DEF f
<1>7. Deferred(f)
  BY <1>0, <1>2, <1>6 DEF Deferred, SameOpen, SameLock
<1>8. ~f.playing
  BY <1>1, <1>2, <1>6 DEF Silent
<1>. QED
  BY <1>2, <1>3, <1>4, <1>5, <1>6, <1>7, <1>8 DEF Ended, SameWork

\* The invariant, with and without the loop.
LEMMA RunningIs ==
  ASSUME IInv, at # "done"
  PROVE  Good(eng, internal, jobs) /\ NoLockInCompatible(eng)
<1>1. jobs \cup eng.spawned = jobs
  BY DEF IInv
<1>2. NumberedIn(eng, internal, jobs) /\ WorkedIn(eng, internal, jobs)
  BY <1>1 DEF IInv, NumberedIn, WorkedIn
<1>. QED
  BY <1>2 DEF IInv, TypeOK, Good, Channel

LEMMA RunningAgain ==
  ASSUME eng' \in EngineType, eng'.spawned = {}, Sound(eng'),
         NoLockInCompatible(eng'), Channel(internal', jobs'),
         Numbered(eng', internal', jobs'), Worked(eng', internal', jobs'),
         at' \in {"recv", "poll", "drain"}, present' \in SUBSET Device
  PROVE  IInv'
<1>1. TypeOK'
  BY DEF TypeOK, Channel
<1>2. at' # "done"
  OBVIOUS
<1>. QED
  BY <1>1, <1>2 DEF IInv, Sound, NoLockInCompatible, Numbered, Worked

LEMMA BecomesKeeps ==
  ASSUME NEW e, NEW queue, Good(e, queue, jobs), NoLockInCompatible(e),
         Becomes(e, queue), at' \in {"recv", "poll", "drain"},
         present \in SUBSET Device, present' = present
  PROVE  IInv'
<1> DEFINE f == [e EXCEPT !.spawned = {}]
           js == jobs \cup e.spawned
<1>0. /\ e \in EngineType /\ Sound(e) /\ Channel(queue, jobs)
      /\ Numbered(e, queue, js) /\ Worked(e, queue, js)
  BY DEF Good, NumberedIn, WorkedIn
<1>1. eng' = f /\ internal' = queue /\ jobs' = js
  BY DEF Becomes
<1>2. js \in SUBSET JobType
  BY <1>0 DEF Channel, EngineType
<1>3. f \in EngineType /\ f.spawned = {}
  BY <1>0 DEF EngineType
<1>4. /\ f.current = e.current /\ SamePath(e, f) /\ SameOpen(e, f)
      /\ f.attempt = e.attempt /\ f.target = e.target
      /\ SameLock(e, f) /\ SameRest(e, f) /\ f.quiet = e.quiet
  BY <1>0 DEF EngineType, SamePath, SameOpen, SameLock, SameRest
<1> HIDE DEF f, js
<1>5. OneClaim(f) /\ Resolving(f)
  BY <1>0, <1>4 DEF Sound, OneClaim, Resolving, SamePath, SameLock, SameRest
<1>6. Deferred(f) /\ PointIsCurrent(f)
  BY <1>0, <1>4 DEF Sound, Deferred, PointIsCurrent, SameOpen, SameLock, SameRest
<1>7. Silent(f)
  BY <1>0, <1>4 DEF Sound, Silent, SamePath, SameOpen, SameRest
<1>8. Numbered(f, queue, js) /\ Worked(f, queue, js)
  BY <1>0, <1>4 DEF Numbered, JobIsNumbered, MessageIsNumbered, Worked, SameLock,
                    SameRest
<1>9. Sound(f) /\ NoLockInCompatible(f) /\ Channel(queue, js)
  BY <1>0, <1>2, <1>4, <1>5, <1>6, <1>7
     DEF Sound, NoLockInCompatible, SameLock, Channel
<1>. QED
  BY <1>1, <1>3, <1>8, <1>9, RunningAgain

LEMMA CommandKeeps ==
  ASSUME IInv, NEW e, Command(e),
         at # "done" => Good(e, internal, jobs) /\ NoLockInCompatible(e)
  PROVE  IInv'
<1>1. /\ at = "recv" /\ at' = "poll" /\ Becomes(e, internal) /\ present' = present
  BY DEF Command
<1>2. present \in SUBSET Device
  BY DEF IInv, TypeOK
<1>. QED
  BY <1>1, <1>2, BecomesKeeps

LEMMA CommandStepKeeps ==
  ASSUME IInv,
         \/ OpenTrack \/ Play \/ Pause \/ Stop \/ Lock \/ SetDevice
         \/ SetParams \/ SetActiveMode \/ Refresh
  PROVE  IInv'
<1>1. at = "recv"
  BY DEF OpenTrack, Play, Pause, Stop, Lock, SetDevice, SetParams, SetActiveMode,
         Refresh, Command
<1>2. Good(eng, internal, jobs) /\ NoLockInCompatible(eng)
  BY <1>1, RunningIs
<1>3. CASE OpenTrack
  <2>1. PICK autoplay \in BOOLEAN, probe \in BOOLEAN, ok \in BOOLEAN :
          \E e \in HandleOpen(eng, autoplay, probe, ok) : Command(e)
    BY <1>3 DEF OpenTrack
  <2>2. PICK e \in HandleOpen(eng, autoplay, probe, ok) : Command(e)
    BY <2>1
  <2>3. Good(e, internal, jobs) /\ NoLockInCompatible(e)
    BY <1>2, HandleOpenIsGood
  <2>. QED
    BY <2>2, <2>3, CommandKeeps
<1>4. CASE Play
  <2>1. Good(HandlePlay(eng), internal, jobs) /\ NoLockInCompatible(HandlePlay(eng))
    BY <1>2, HandlePlayIsGood
  <2>. QED
    BY <1>4, <2>1, CommandKeeps DEF Play
<1>5. CASE Pause
  <2>1. Good(HandlePause(eng), internal, jobs) /\ NoLockInCompatible(HandlePause(eng))
    BY <1>2, HandlePauseIsGood
  <2>. QED
    BY <1>5, <2>1, CommandKeeps DEF Pause
<1>6. CASE Stop
  <2>1. /\ Good(StopPlayback(eng), internal, jobs)
        /\ NoLockInCompatible(StopPlayback(eng))
    BY <1>2, StopIsGood
  <2>. QED
    BY <1>6, <2>1, CommandKeeps DEF Stop
<1>7. CASE Lock
  <2>1. PICK k \in {"UserClose", "UserOpen", "CaptureAndPlay", "RetryCapture"},
             sp \in BOOLEAN : Command(LockInput(eng, Press(k), sp))
    BY <1>7 DEF Lock
  <2> DEFINE in == Press(k)
  <2>2. /\ Legal(in) /\ in.kind \notin {"DeviceLost", "DeviceSelected", "ModeSelected"}
    BY DEF Press, Legal, Input
  <2> DEFINE e == LockInput(eng, in, sp)
  <2>3. Command(e)
    BY <2>1
  <2> HIDE DEF in
  <2>4. Good(e, internal, jobs) /\ NoLockInCompatible(e)
    BY <1>2, <2>2, LockInputIsGood
  <2> HIDE DEF e
  <2>. QED
    BY <2>3, <2>4, CommandKeeps
<1>8. CASE SetDevice
  <2>1. PICK m \in Exclusive, d \in Device \cup {NoDevice}, sp \in BOOLEAN :
          Command(HandleSetDevice(eng, m, d, sp))
    BY <1>8 DEF SetDevice
  <2> DEFINE e == HandleSetDevice(eng, m, d, sp)
  <2>2. Good(e, internal, jobs) /\ NoLockInCompatible(e)
    BY <1>2, HandleSetDeviceIsGood DEF DeviceOrNone
  <2> HIDE DEF e
  <2>. QED
    BY <2>1, <2>2, CommandKeeps DEF e
<1>9. CASE SetParams
  <2>1. PICK probe \in BOOLEAN, ok \in BOOLEAN : Command(Reopen(eng, probe, ok))
    BY <1>9 DEF SetParams
  <2> DEFINE e == Reopen(eng, probe, ok)
  <2>2. Good(e, internal, jobs) /\ NoLockInCompatible(e)
    BY <1>2, ReopenIsGood
  <2> HIDE DEF e
  <2>. QED
    BY <2>1, <2>2, CommandKeeps DEF e
<1>10. CASE SetActiveMode
  <2>1. PICK m \in Mode \ {eng.mode}, sp \in BOOLEAN :
          Command(HandleSetActiveMode(eng, m, sp))
    BY <1>10 DEF SetActiveMode
  <2> DEFINE e == HandleSetActiveMode(eng, m, sp)
  <2>2. Good(e, internal, jobs) /\ NoLockInCompatible(e)
    BY <1>2, HandleSetActiveModeIsGood
  <2> HIDE DEF e
  <2>. QED
    BY <2>1, <2>2, CommandKeeps DEF e
<1>11. CASE Refresh
  <2>1. PICK list \in Listings, sp \in BOOLEAN : Command(RefreshDevices(eng, list, sp))
    BY <1>11 DEF Refresh
  <2> DEFINE e == RefreshDevices(eng, list, sp)
  <2>2. list = NoListing \/ list \in SUBSET Device
    BY DEF Listings, IInv, TypeOK
  <2>3. Good(e, internal, jobs) /\ NoLockInCompatible(e)
    BY <1>2, <2>2, RefreshIsGood
  <2> HIDE DEF e
  <2>. QED
    BY <2>1, <2>3, CommandKeeps DEF e
<1>. QED
  BY <1>3, <1>4, <1>5, <1>6, <1>7, <1>8, <1>9, <1>10, <1>11

LEMMA ShutdownKeeps ==
  ASSUME IInv, Shutdown
  PROVE  IInv'
<1> DEFINE e == HandleShutdown(eng)
           f == [e EXCEPT !.spawned = {}]
<1>1. at = "recv" /\ at' = "done" /\ present' = present
  BY DEF Shutdown
<1>2. Good(eng, internal, jobs) /\ eng.spawned = {}
  BY <1>1, RunningIs DEF IInv
<1>3. e \in EngineType /\ e.spawned = {} /\ Ended(e)
  BY <1>2, ShutdownEnds
<1>4. eng' = f /\ internal' = <<>> /\ jobs' = jobs \cup e.spawned
  BY DEF Shutdown, Becomes
<1> HIDE DEF e
<1>5. f \in EngineType /\ f.spawned = {}
  BY <1>3 DEF EngineType
<1>6. Ended(f)
  BY <1>3 DEF Ended, Deferred, EngineType
<1> HIDE DEF f
<1>7. TypeOK'
  BY <1>1, <1>3, <1>4, <1>5 DEF TypeOK, IInv
<1>8. /\ eng'.path = NoClaim /\ Deferred(eng')
      /\ eng'.current.gen = eng'.current.track
      /\ (eng'.quiet => ~eng'.playing)
  BY <1>4, <1>6 DEF Ended
<1>. QED
  BY <1>1, <1>4, <1>5, <1>7, <1>8 DEF IInv, Deferred

LEMMA PollSessionKeeps ==
  ASSUME IInv, PollSession
  PROVE  IInv'
<1>1. PICK list \in Listings, sp \in BOOLEAN, due \in BOOLEAN :
        LET r == RefreshDevices(eng, list, sp)
            n == IF dirty \/ due THEN r ELSE eng
        IN Becomes(PollPath(n, sp), internal)
  BY DEF PollSession
<1>2. at # "done" /\ at' = "drain" /\ present' = present
  BY DEF PollSession
<1> DEFINE r == RefreshDevices(eng, list, sp)
           n == IF dirty \/ due THEN r ELSE eng
           e == PollPath(n, sp)
<1>3. Good(eng, internal, jobs) /\ NoLockInCompatible(eng)
  BY <1>2, RunningIs
<1>4. (list = NoListing \/ list \in SUBSET Device) /\ present \in SUBSET Device
  BY DEF Listings, IInv, TypeOK
<1>5. Good(r, internal, jobs) /\ NoLockInCompatible(r)
  BY <1>3, <1>4, RefreshIsGood
<1>e. Becomes(e, internal)
  BY <1>1
<1> HIDE DEF r
<1>6. Good(n, internal, jobs) /\ NoLockInCompatible(n)
  BY <1>3, <1>5
<1> HIDE DEF n
<1>7. Good(e, internal, jobs) /\ NoLockInCompatible(e)
  BY <1>6, PollPathIsGood
<1> HIDE DEF e
<1>. QED
  BY <1>2, <1>4, <1>7, <1>e, BecomesKeeps

LEMMA DrainKeeps ==
  ASSUME IInv, Drain
  PROVE  IInv'
<1>1. /\ at = "drain" /\ present' = present /\ present \in SUBSET Device
  BY DEF Drain, IInv, TypeOK
<1>2. Good(eng, internal, jobs) /\ NoLockInCompatible(eng)
  BY <1>1, RunningIs
<1>3. CASE internal # <<>> /\ UNCHANGED at /\
           \E sp, probe, ok \in BOOLEAN :
             \E e \in Handles(Head(internal), sp, probe, ok) :
               Becomes(e, Tail(internal))
  <2>1. PICK sp \in BOOLEAN, probe \in BOOLEAN, ok \in BOOLEAN :
          \E e \in Handles(Head(internal), sp, probe, ok) :
            Becomes(e, Tail(internal))
    BY <1>3
  <2>2. PICK e \in Handles(Head(internal), sp, probe, ok) :
          Becomes(e, Tail(internal))
    BY <2>1
  <2>3. Good(e, Tail(internal), jobs) /\ NoLockInCompatible(e)
    BY <1>2, <1>3, HandlesIsGood
  <2>4. at' = "drain"
    BY <1>1, <1>3
  <2>. QED
    BY <1>1, <2>2, <2>3, <2>4, BecomesKeeps
<1>4. CASE at' = "recv" /\ UNCHANGED <<eng, internal, jobs, name>>
  BY <1>1, <1>4 DEF IInv, TypeOK
<1>. QED
  BY <1>3, <1>4 DEF Drain

\* A thread answers, and what it was waited for is on its way.
LEMMA ReportKeeps ==
  ASSUME IInv, NEW j \in jobs, NEW m, Reports(j, m),
         UNCHANGED <<eng, at, present, dirty>>,
         at # "done" => /\ m \in MessageType /\ MessageIsNumbered(eng, m)
                        /\ m.a = j.a
                        /\ m.type = IF j.kind = "claim" THEN "ClaimDone"
                                                        ELSE "DeviceResolveDone"
  PROVE  IInv'
<1> DEFINE queue == Append(internal, m)
           js == jobs \ {j}
<1>0. TypeOK /\ eng.spawned = {}
  BY DEF IInv
<1>j. j \in JobType /\ js \in SUBSET JobType /\ jobs' = js
  BY <1>0 DEF TypeOK, Reports
<1>1. CASE at = "done"
  <2>1. internal' = internal
    BY <1>1 DEF Reports
  <2>2. TypeOK'
    BY <1>0, <1>j, <2>1 DEF TypeOK
  <2>. QED
    BY <1>0, <1>1, <2>2 DEF IInv
<1>2. CASE at # "done"
  <2>1. internal' = queue
    BY <1>2 DEF Reports
  <2>2. Good(eng, internal, jobs) /\ NoLockInCompatible(eng)
    BY <1>2, RunningIs
  <2>3. /\ Sound(eng) /\ Numbered(eng, internal, jobs)
        /\ Worked(eng, internal, jobs) /\ internal \in Seq(MessageType)
    BY <1>2 DEF IInv, TypeOK
  <2>4. /\ queue \in Seq(MessageType)
        /\ \A i \in DOMAIN internal : i \in DOMAIN queue /\ queue[i] = internal[i]
        /\ \A i \in DOMAIN queue : queue[i] = m \/ (i \in DOMAIN internal
                                                    /\ queue[i] = internal[i])
        /\ \E i \in DOMAIN queue : queue[i] = m
    <3>1. /\ queue \in Seq(MessageType) /\ DOMAIN queue = 1..(Len(internal) + 1)
          /\ DOMAIN internal = 1..Len(internal) /\ Len(internal) \in Nat
      BY <1>2, <2>3
    <3>2. /\ \A i \in 1..Len(internal) : queue[i] = internal[i]
          /\ queue[Len(internal) + 1] = m
      BY <1>2, <2>3
    <3> HIDE DEF queue
    <3>. QED
      BY <3>1, <3>2
  <2> HIDE DEF queue, js
  <2>5. Numbered(eng, queue, js)
    BY <1>2, <2>3, <2>4 DEF Numbered, js
  <2>6. Worked(eng, queue, js)
    <3> DEFINE kind == IF eng.resolve # NoResolve THEN "resolve" ELSE "claim"
               type == IF eng.resolve # NoResolve THEN "DeviceResolveDone"
                                                  ELSE "ClaimDone"
               a == IF eng.resolve # NoResolve THEN eng.resolve.a ELSE eng.attempt
    <3> SUFFICES ASSUME eng.lock = Acquiring
                 PROVE  \/ \E x \in js : x.kind = kind /\ x.a = a
                        \/ \E i \in DOMAIN queue : queue[i].type = type
                                                   /\ queue[i].a = a
      BY DEF Worked
    <3>1. \/ \E x \in jobs : x.kind = kind /\ x.a = a
          \/ \E i \in DOMAIN internal : internal[i].type = type
                                        /\ internal[i].a = a
      BY <2>3 DEF Worked
    <3>2. j.kind = kind => m.type = type
      BY <1>2
    <3> HIDE DEF kind, type, a
    <3>3. CASE \E i \in DOMAIN internal : internal[i].type = type
                                          /\ internal[i].a = a
      BY <2>4, <3>3
    <3>4. CASE \E x \in jobs : x.kind = kind /\ x.a = a
      <4>1. PICK x \in jobs : x.kind = kind /\ x.a = a
        BY <3>4
      <4>2. CASE x = j
        BY <1>2, <2>4, <3>2, <4>1, <4>2
      <4>3. CASE x # j
        BY <4>1, <4>3 DEF js
      <4>. QED
        BY <4>2, <4>3
    <3>. QED
      BY <3>1, <3>3, <3>4
  <2>7. Channel(queue, js) /\ eng \in EngineType /\ present \in SUBSET Device
        /\ at \in {"recv", "poll", "drain"}
    BY <1>0, <1>2, <1>j, <2>4 DEF Channel, TypeOK
  <2>. QED
    BY <1>0, <1>j, <2>1, <2>2, <2>3, <2>5, <2>6, <2>7, RunningAgain
<1>. QED
  BY <1>1, <1>2

LEMMA ClaimDoneIsNumbered ==
  ASSUME NEW j \in JobType, JobIsNumbered(eng, j), j.kind = "claim"
  PROVE  /\ \A r \in Reason :
              /\ ClaimDone(j.a, NoClaim, r) \in MessageType
              /\ MessageIsNumbered(eng, ClaimDone(j.a, NoClaim, r))
         /\ LET m == ClaimDone(j.a, [a |-> j.a, dev |-> j.dev], "none")
            IN m \in MessageType /\ MessageIsNumbered(eng, m)
<1>0. /\ j.a \in Nat /\ j.a <= eng.attempt /\ j.dev \in Device
      /\ (j.a = eng.attempt => j.dev = eng.target)
  BY DEF JobIsNumbered, JobType
<1>1. ASSUME NEW r \in Reason
      PROVE  /\ ClaimDone(j.a, NoClaim, r) \in MessageType
             /\ MessageIsNumbered(eng, ClaimDone(j.a, NoClaim, r))
  BY <1>0, NoneAreTyped DEF ClaimDone, MessageType, MessageIsNumbered
<1>2. LET m == ClaimDone(j.a, [a |-> j.a, dev |-> j.dev], "none")
      IN m \in MessageType /\ MessageIsNumbered(eng, m)
  <2> DEFINE c == [a |-> j.a, dev |-> j.dev]
  <2>1. c \in ClaimType /\ c.a = j.a /\ c.dev = j.dev
    BY <1>0 DEF ClaimType, DeviceOrNone
  <2>2. c # NoClaim
    BY <1>0, DeviceAssumption DEF NoClaim
  <2> HIDE DEF c
  <2>3. ClaimDone(j.a, c, "none") \in MessageType
    BY <1>0, <2>1 DEF ClaimDone, MessageType
  <2>4. MessageIsNumbered(eng, ClaimDone(j.a, c, "none"))
    BY <1>0, <2>1, <2>2 DEF ClaimDone, MessageIsNumbered
  <2>. QED
    BY <2>3, <2>4 DEF c
<1>. QED
  BY <1>1, <1>2

LEMMA JobStepKeeps ==
  ASSUME IInv, JobStep
  PROVE  IInv'
<1>1. PICK j \in jobs : Reserve(j) \/ OpenDevice(j) \/ AskSink(j)
  BY DEF JobStep
<1>2. UNCHANGED <<eng, at, present, dirty>>
  BY DEF JobStep
<1>3. j \in JobType /\ (at # "done" => JobIsNumbered(eng, j))
  BY DEF IInv, TypeOK, Numbered
<1>4. ASSUME j.kind = "claim", NEW r \in Reason, Reports(j, ClaimDone(j.a, NoClaim, r))
      PROVE  IInv'
  <2> DEFINE m == ClaimDone(j.a, NoClaim, r)
  <2>1. m.a = j.a /\ m.type = "ClaimDone"
    BY DEF ClaimDone
  <2>2. at # "done" => m \in MessageType /\ MessageIsNumbered(eng, m)
    BY <1>3, <1>4, ClaimDoneIsNumbered
  <2> HIDE DEF m
  <2>3. Reports(j, m)
    BY <1>4 DEF m
  <2>. QED
    BY <1>2, <1>4, <2>1, <2>2, <2>3, ReportKeeps
<1>5. CASE Reserve(j)
  <2> DEFINE on == [j EXCEPT !.at = "open"]
  <2>1. \/ Reports(j, ClaimDone(j.a, NoClaim, "Refused"))
        \/ jobs' = (jobs \ {j}) \cup {on} /\ internal' = internal
    BY <1>5 DEF Reserve
  <2>2. CASE Reports(j, ClaimDone(j.a, NoClaim, "Refused"))
    BY <1>4, <1>5, <2>2 DEF Reserve, Reason
  <2>3. CASE jobs' = (jobs \ {j}) \cup {on} /\ internal' = internal
    <3>1. /\ on \in JobType /\ on.kind = j.kind /\ on.a = j.a /\ on.dev = j.dev
      BY <1>3 DEF JobType
    <3> HIDE DEF on
    <3>2. TypeOK'
      BY <1>2, <2>3, <3>1 DEF IInv, TypeOK
    <3>3. ASSUME at # "done"
          PROVE  Numbered(eng, internal, jobs') /\ Worked(eng, internal, jobs')
      <4>1. Numbered(eng, internal, jobs) /\ Worked(eng, internal, jobs)
        BY <3>3 DEF IInv
      <4>2. JobIsNumbered(eng, on)
        BY <1>3, <3>1, <3>3 DEF JobIsNumbered
      <4>3. Numbered(eng, internal, jobs')
        BY <2>3, <4>1, <4>2 DEF Numbered
      <4>4. \A x \in jobs : \E y \in jobs' : y.kind = x.kind /\ y.a = x.a
        BY <2>3, <3>1
      <4>5. Worked(eng, internal, jobs')
        BY <4>1, <4>4 DEF Worked
      <4>. QED
        BY <4>3, <4>5
    <3>4. CASE at = "done"
      BY <1>2, <3>2, <3>4 DEF IInv
    <3>5. CASE at # "done"
      <4>1. /\ eng \in EngineType /\ eng.spawned = {} /\ Sound(eng)
            /\ NoLockInCompatible(eng) /\ at \in {"recv", "poll", "drain"}
            /\ present \in SUBSET Device
        BY <3>5 DEF IInv, TypeOK
      <4>2. Channel(internal', jobs')
        BY <3>2 DEF TypeOK, Channel
      <4>. QED
        BY <1>2, <2>3, <3>3, <3>5, <4>1, <4>2, RunningAgain
    <3>. QED
      BY <3>4, <3>5
  <2>. QED
    BY <2>1, <2>2, <2>3
<1>6. CASE OpenDevice(j)
  <2> DEFINE m == ClaimDone(j.a, [a |-> j.a, dev |-> j.dev], "none")
  <2>1. /\ j.kind = "claim"
        /\ \/ Reports(j, m)
           \/ Reports(j, ClaimDone(j.a, NoClaim, "Refused"))
           \/ Reports(j, ClaimDone(j.a, NoClaim, "DeviceDisconnected"))
    BY <1>6 DEF OpenDevice
  <2>2. CASE Reports(j, m)
    <3>1. m.a = j.a /\ m.type = "ClaimDone"
      BY DEF ClaimDone
    <3>2. at # "done" => m \in MessageType /\ MessageIsNumbered(eng, m)
      BY <1>3, <2>1, ClaimDoneIsNumbered
    <3> HIDE DEF m
    <3>. QED
      BY <1>2, <2>1, <2>2, <3>1, <3>2, ReportKeeps
  <2>3. "Refused" \in Reason /\ "DeviceDisconnected" \in Reason
    BY DEF Reason
  <2>. QED
    BY <1>4, <2>1, <2>2, <2>3
<1>7. CASE AskSink(j)
  <2>1. j.kind = "resolve"
    BY <1>7 DEF AskSink
  <2>2. PICK d \in Listed \cup {NoDevice} : Reports(j, ResolveDone(j.a, d))
    BY <1>7 DEF AskSink
  <2> DEFINE m == ResolveDone(j.a, d)
  <2>3. j.a \in Nat /\ d \in DeviceOrNone
    BY <1>3 DEF JobType, Listed, DeviceOrNone
  <2>4. /\ m \in MessageType /\ m.a = j.a /\ m.type = "DeviceResolveDone"
    BY <2>3, NoneAreTyped DEF ResolveDone, MessageType, ClaimType
  <2> HIDE DEF m
  <2>5. MessageIsNumbered(eng, m)
    BY <2>4 DEF MessageIsNumbered
  <2>6. Reports(j, m)
    BY <2>2 DEF m
  <2>. QED
    BY <1>2, <2>1, <2>4, <2>5, <2>6, ReportKeeps
<1>. QED
  BY <1>1, <1>5, <1>6, <1>7

LEMMA NameLostKeeps ==
  ASSUME IInv, NameLost
  PROVE  IInv'
<1>1. PICK d \in Listed : internal' = Append(internal, ReservationLost(d))
  BY DEF NameLost
<1>2. at # "done" /\ UNCHANGED <<eng, at, jobs, present, dirty>>
  BY DEF NameLost
<1> DEFINE m == ReservationLost(d)
<1>3. m \in MessageType /\ m.type = "ReservationLost"
  BY NoneAreTyped DEF ReservationLost, MessageType, ClaimType, Listed, DeviceOrNone
<1>4. internal' = Append(internal, m)
  BY <1>1
<1> HIDE DEF m
<1>5. /\ eng \in EngineType /\ eng.spawned = {} /\ Sound(eng)
      /\ NoLockInCompatible(eng) /\ Numbered(eng, internal, jobs)
      /\ Worked(eng, internal, jobs) /\ internal \in Seq(MessageType)
      /\ jobs \in SUBSET JobType /\ present \in SUBSET Device
      /\ at \in {"recv", "poll", "drain"}
  BY <1>2 DEF IInv, TypeOK
<1> DEFINE queue == Append(internal, m)
<1>6. /\ queue \in Seq(MessageType) /\ DOMAIN queue = 1..(Len(internal) + 1)
      /\ DOMAIN internal = 1..Len(internal) /\ Len(internal) \in Nat
      /\ \A i \in 1..Len(internal) : queue[i] = internal[i]
      /\ queue[Len(internal) + 1] = m
  BY <1>3, <1>5
<1> HIDE DEF queue
<1>7. MessageIsNumbered(eng, m)
  BY <1>3 DEF MessageIsNumbered
<1>8. Numbered(eng, queue, jobs)
  BY <1>5, <1>6, <1>7 DEF Numbered
<1>9. \A i \in DOMAIN internal : i \in DOMAIN queue /\ queue[i] = internal[i]
  BY <1>6
<1>10. Worked(eng, queue, jobs)
  BY <1>5, <1>9 DEF Worked
<1>11. Channel(queue, jobs) /\ internal' = queue
  BY <1>4, <1>5, <1>6 DEF Channel, queue
<1>. QED
  BY <1>2, <1>5, <1>8, <1>10, <1>11, RunningAgain

LEMMA SignalKeeps ==
  ASSUME IInv, Signal
  PROVE  IInv'
<1>1. /\ eng.path # NoClaim /\ UNCHANGED <<at, internal, jobs, name, present, dirty>>
      /\ \E s \in {"ended", "fault"} : eng' = [eng EXCEPT !.signal = s]
  BY DEF Signal
<1>2. at # "done" /\ eng.spawned = {}
  BY <1>1 DEF IInv
<1>3. Good(eng, internal, jobs) /\ NoLockInCompatible(eng)
  BY <1>2, RunningIs
<1>4. PICK s \in {"ended", "fault"} : eng' = [eng EXCEPT !.signal = s]
  BY <1>1
<1> DEFINE f == [eng EXCEPT !.signal = s]
<1>5. eng \in EngineType
  BY <1>3 DEF Good
<1>6. f \in EngineType
  BY <1>5 DEF EngineType
<1>7. SameButQuiet(eng, f) /\ f.quiet = eng.quiet /\ f.spawned = {}
  BY <1>2, <1>5 DEF EngineType, SameButQuiet, SamePath, SameOpen, SameWork, SameLock,
                    SameRest
<1> HIDE DEF f
<1>8. Good(f, internal, jobs) /\ NoLockInCompatible(f)
  BY <1>3, <1>6, <1>7, SameIsGood
<1>9. jobs \cup f.spawned = jobs
  BY <1>7
<1>10. Sound(f) /\ Numbered(f, internal, jobs) /\ Worked(f, internal, jobs)
       /\ Channel(internal, jobs)
  BY <1>8, <1>9 DEF Good, NumberedIn, WorkedIn
<1>11. at \in {"recv", "poll", "drain"} /\ present \in SUBSET Device
  BY <1>2 DEF IInv, TypeOK
<1>12. eng' = f
  BY <1>4 DEF f
<1>. QED
  BY <1>1, <1>6, <1>7, <1>8, <1>10, <1>11, <1>12, RunningAgain

\* What the world does, and a wait, leave the engine as it is.
LEMMA IdleKeeps ==
  ASSUME IInv, Plug \/ Timeout
  PROVE  IInv'
<1>1. CASE Plug
  <2>1. PICK d \in Listed :
          present' = IF d \in present THEN present \ {d} ELSE present \cup {d}
    BY <1>1 DEF Plug
  <2>2. present' \in SUBSET Device
    BY <2>1 DEF IInv, TypeOK, Listed
  <2>. QED
    BY <1>1, <2>2 DEF Plug, IInv, TypeOK
<1>2. CASE Timeout
  <2>1. at # "done" /\ at' # "done" /\ at' \in {"recv", "poll", "drain", "done"}
    BY <1>2 DEF Timeout
  <2>. QED
    BY <1>2, <2>1 DEF Timeout, IInv, TypeOK
<1>. QED
  BY <1>1, <1>2

-----------------------------------------------------------------------------
(* The theorems.                                                           *)

\* A new engine is at rest in the Compatible mode.
LEMMA NewEngineIsSound ==
  ASSUME NEW opts \in [Exclusive -> DeviceOrNone], NEW catalog \in SUBSET Device
  PROVE  LET e == NewEngine(opts, catalog)
         IN /\ e \in EngineType /\ e.spawned = {}
            /\ Sound(e) /\ NoLockInCompatible(e)
            /\ Numbered(e, <<>>, {}) /\ Worked(e, <<>>, {})
<1> DEFINE e == NewEngine(opts, catalog)
<1>1. e \in EngineType
  BY NoneAreTyped DEF NewEngine, EngineType, Mode, Locks, DeviceOrNone
<1>2. /\ e.mode = "Compatible" /\ e.lock = NotApplicable /\ e.claim = NoClaim
      /\ e.path = NoClaim /\ e.resolve = NoResolve /\ e.reacquire = NoPoint
      /\ e.deferred = NoOpen /\ e.current = [gen |-> 0, track |-> 0]
      /\ e.awaited = 0 /\ e.spawned = {} /\ e.playing = FALSE /\ e.quiet = FALSE
  BY DEF NewEngine
<1> HIDE DEF e
<1>3. e.lock.kind = "NotApplicable" /\ e.lock # Acquiring
  BY <1>2, KindsDiffer
<1>4. OneClaim(e) /\ Resolving(e) /\ Deferred(e)
  BY <1>2, <1>3 DEF OneClaim, Resolving, Deferred
<1>5. PointIsCurrent(e)
  BY <1>2 DEF PointIsCurrent
<1>6. Silent(e)
  BY <1>2 DEF Silent
<1>7. NoLockInCompatible(e)
  BY <1>3 DEF NoLockInCompatible, Idle
<1>8. Numbered(e, <<>>, {}) /\ Worked(e, <<>>, {})
  BY <1>3 DEF Numbered, Worked
<1>. QED
  BY <1>1, <1>2, <1>4, <1>5, <1>6, <1>7, <1>8 DEF Sound, e

LEMMA InitIsSound ==
  ASSUME present \in SUBSET Listed, EngineInit
  PROVE  IInv
<1>1. present \in SUBSET Device
  BY DEF Listed
<1>2. PICK opts \in [Exclusive -> DeviceOrNone], catalog \in {present, {}} :
        eng = NewEngine(opts, catalog)
  BY DEF EngineInit, DeviceOrNone
<1>3. catalog \in SUBSET Device
  BY <1>1, <1>2
<1>4. at = "recv" /\ internal = <<>> /\ jobs = {}
  BY DEF EngineInit
<1>5. /\ eng \in EngineType /\ eng.spawned = {}
      /\ Sound(eng) /\ NoLockInCompatible(eng)
      /\ Numbered(eng, internal, jobs) /\ Worked(eng, internal, jobs)
  BY <1>2, <1>3, <1>4, NewEngineIsSound
<1>6. internal \in Seq(MessageType) /\ jobs \in SUBSET JobType
  BY <1>4
<1>. QED
  BY <1>1, <1>4, <1>5, <1>6 DEF IInv, TypeOK

LEMMA NextKeeps ==
  ASSUME IInv, [EngineNext]_vars
  PROVE  IInv'
<1>1. CASE \/ OpenTrack \/ Play \/ Pause \/ Stop \/ Lock \/ SetDevice
           \/ SetParams \/ SetActiveMode \/ Refresh
  BY <1>1, CommandStepKeeps
<1>2. CASE Timeout \/ Plug
  BY <1>2, IdleKeeps
<1>3. CASE Shutdown
  BY <1>3, ShutdownKeeps
<1>4. CASE PollSession
  BY <1>4, PollSessionKeeps
<1>5. CASE Drain
  BY <1>5, DrainKeeps
<1>6. CASE JobStep
  BY <1>6, JobStepKeeps
<1>7. CASE NameLost
  BY <1>7, NameLostKeeps
<1>8. CASE Signal
  BY <1>8, SignalKeeps
<1>9. CASE UNCHANGED vars
  <2>1. UNCHANGED <<eng, at, internal, jobs, present>>
    BY <1>9 DEF vars
  <2>. QED
    BY <2>1 DEF IInv, TypeOK
<1>. QED
  BY <1>1, <1>2, <1>3, <1>4, <1>5, <1>6, <1>7, <1>8, <1>9 DEF EngineNext, LoopStep

\* In every order of commands, answers of the service threads, losses and
\* ends of sessions: the claim is where the lock says, captures are numbered
\* by attempts, and everything that is kept for later (the opening, the point
\* to come back to, the pending resolution) agrees with the lock.
THEOREM EngineInvariant == EngineSpec => []IInv
<1>1. present \in SUBSET Listed /\ EngineInit => IInv
  BY InitIsSound
<1>2. IInv /\ [EngineNext]_vars => IInv'
  BY NextKeeps
<1>. QED
  BY <1>1, <1>2, PTL DEF EngineSpec

\* The lock is Held exactly while one claim is alive, beside the path or
\* inside it; it is that of the last attempt and of the device the lock names
\* (engine/run.rs, ADR-01).  No late answer of a service thread brings a
\* second one.
THEOREM LockIsTheClaim == EngineSpec => []HeldHasClaim
<1>1. ASSUME IInv
      PROVE  HeldHasClaim
  <2>1. SUFFICES ASSUME at # "done"
                 PROVE  HeldHasClaim
    BY DEF HeldHasClaim
  <2>2. OneClaim(eng) /\ eng \in EngineType
    BY <1>1, <2>1 DEF IInv, TypeOK, Sound
  <2> DEFINE c == [a |-> eng.attempt, dev |-> eng.lock.dev]
  <2>3. CASE eng.lock.kind = "Held"
    <3>1. eng.lock \in Locks
      BY <2>2 DEF EngineType
    <3>2. eng.lock.dev \in Device
      BY <2>3, <3>1 DEF Locks, NotApplicable, Open, Acquiring, Plain, Held, Failed
    <3>3. c # NoClaim
      BY <3>2, DeviceAssumption DEF NoClaim
    <3>4. /\ eng.target = eng.lock.dev
          /\ \/ eng.claim = c /\ eng.path = NoClaim
             \/ eng.claim = NoClaim /\ eng.path = c
      BY <2>2, <2>3 DEF OneClaim
    <3>5. Claims = {c}
      BY <3>3, <3>4 DEF Claims
    <3>. QED
      BY <2>3, <3>4, <3>5 DEF HeldHasClaim
  <2>4. CASE eng.lock.kind # "Held"
    <3>1. eng.claim = NoClaim /\ eng.path = NoClaim
      BY <2>2, <2>4 DEF OneClaim
    <3>2. Claims = {}
      BY <3>1 DEF Claims
    <3>. QED
      BY <2>4, <3>1, <3>2 DEF HeldHasClaim
  <2>. QED
    BY <2>3, <2>4
<1>. QED
  BY <1>1, EngineInvariant, PTL

\* A lock that shows Acquiring is waited for: the thread of the resolution or
\* of the last attempt runs, or its answer is in the channel, whatever was
\* pressed, released or answered late meanwhile.
THEOREM HourglassEnds == EngineSpec => []AcquiringHasWork
<1>1. ASSUME IInv
      PROVE  AcquiringHasWork
  <2>1. SUFFICES ASSUME at # "done", eng.lock = Acquiring
                 PROVE  AcquiringHasWork
    BY DEF AcquiringHasWork
  <2>2. Worked(eng, internal, jobs)
    BY <1>1, <2>1 DEF IInv
  <2>3. CASE eng.resolve # NoResolve
    BY <2>1, <2>2, <2>3 DEF Worked, AcquiringHasWork, Answered
  <2>4. CASE eng.resolve = NoResolve
    BY <2>1, <2>2, <2>4 DEF Worked, AcquiringHasWork, Answered
  <2>. QED
    BY <2>3, <2>4
<1>. QED
  BY <1>1, EngineInvariant, PTL

\* An Open that is neither answered nor stopped is the deferred one and waits
\* for a capture, but for one that was deferred while a device was looked for in
\* vain (Forsake); a captured device leaves none deferred, and the generation the
\* engine names is that of the track it would come back to (TZ-20).
THEOREM OpenIsNeverLost == EngineSpec => []OpenIsKept
<1>1. ASSUME IInv
      PROVE  OpenIsKept
  BY <1>1 DEF IInv, Sound, Deferred, PointIsCurrent, OpenIsKept
<1>. QED
  BY <1>1, EngineInvariant, PTL

\* After a loss of the device nothing plays until the user says so: neither
\* an opening kept for later nor the point to come back to would play (TZ-126).
THEOREM LossStaysSilent == EngineSpec => []NoPlayAfterLoss
<1>1. ASSUME IInv
      PROVE  NoPlayAfterLoss
  BY <1>1 DEF IInv, Sound, Silent, NoPlayAfterLoss
<1>. QED
  BY <1>1, EngineInvariant, PTL

=============================================================================
