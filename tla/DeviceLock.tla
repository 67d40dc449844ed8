----------------------------- MODULE DeviceLock -----------------------------
(***************************************************************************)
(* The lock of the mode's device (engine/lock.rs): its states, its inputs  *)
(* and the table lock_step, a pure function of the state, the input, the   *)
(* active mode and the device resolved for it.                             *)
(***************************************************************************)
EXTENDS Naturals

CONSTANT Device    \* ids of exclusive devices, outdated numeric ones included

NoDevice == "no device"

ASSUME DeviceAssumption == NoDevice \notin Device

Exclusive == {"Optimal", "Strict"}
Mode == {"Compatible"} \cup Exclusive

\* Why a capture failed: what the engine tells apart.
Reason == {"NoDeviceSelected", "DeviceDisconnected", "Refused"}

\* LockState.  dev is the captured device, why the reason of a failure.
LockState == [kind : {"NotApplicable", "Open", "Acquiring", "Held", "Failed"},
              dev : Device \cup {NoDevice},
              why : Reason \cup {"none"}]

Plain(k) == [kind |-> k, dev |-> NoDevice, why |-> "none"]
NotApplicable == Plain("NotApplicable")
Open == Plain("Open")
Acquiring == Plain("Acquiring")
Held(d) == [kind |-> "Held", dev |-> d, why |-> "none"]
Failed(r) == [kind |-> "Failed", dev |-> NoDevice, why |-> r]

\* LockInput, with the mode, the device or the reason it carries.
Input == [kind : {"Startup", "ModeSelected", "DeviceSelected", "UserClose",
                  "UserOpen", "CaptureAndPlay", "RetryCapture", "Captured",
                  "CaptureFailed", "DeviceLost", "DeviceReappeared",
                  "Shutdown"},
          mode : Mode \cup {"none"},
          dev : Device \cup {NoDevice},
          why : Reason \cup {"none"}]

Press(k) == [kind |-> k, mode |-> "none", dev |-> NoDevice, why |-> "none"]
ModeSelected(m) == [Press("ModeSelected") EXCEPT !.mode = m]
DeviceSelected(d) == [Press("DeviceSelected") EXCEPT !.dev = d]
DeviceReappeared(d) == [Press("DeviceReappeared") EXCEPT !.dev = d]
Captured(d) == [Press("Captured") EXCEPT !.dev = d]
CaptureFailed(r) == [Press("CaptureFailed") EXCEPT !.why = r]

\* LockEffect: which effects a step has.  Every row of the table that has
\* several lists them in the order of these fields.
Effects == [stop : BOOLEAN, release : BOOLEAN, forget : BOOLEAN,
            acquire : Device \cup {NoDevice}]

Nothing == [stop |-> FALSE, release |-> FALSE, forget |-> FALSE,
            acquire |-> NoDevice]
Acquire(d) == [Nothing EXCEPT !.acquire = d]
StopRelease == [Nothing EXCEPT !.stop = TRUE, !.release = TRUE]

Step(l, fx) == [lock |-> l, fx |-> fx]
Stay(l) == Step(l, Nothing)

\* acquire_or_fail
AcquireOrFail(dev) == IF dev = NoDevice
                        THEN Stay(Failed("NoDeviceSelected"))
                        ELSE Step(Acquiring, Acquire(dev))

\* Inputs that ask for a capture when there is none.
Asking == {"Startup", "UserClose", "CaptureAndPlay", "RetryCapture"}

\* The rows of an exclusive mode, by what the lock does with the device.

Leave(l) ==
  IF l.kind \in {"Held", "Acquiring", "Failed"}
    THEN Step(NotApplicable, [StopRelease EXCEPT !.forget = TRUE])
    ELSE Stay(l)

Ask(l, dev) == IF l.kind \in {"Open", "Failed"} THEN AcquireOrFail(dev)
                                                ELSE Stay(l)

Change(l, d) ==
  CASE l.kind = "Held" -> Step(Acquiring, [StopRelease EXCEPT !.acquire = d])
    [] l.kind \in {"Open", "Failed"} -> Step(Acquiring, Acquire(d))
    [] OTHER -> Stay(l)

GiveUp(l) ==
  CASE l.kind = "Held" -> Step(Open, [StopRelease EXCEPT !.forget = TRUE])
    [] l = Failed("DeviceDisconnected") ->
         Step(Open, [Nothing EXCEPT !.forget = TRUE])
    [] OTHER -> Stay(l)

\* Mutant: the lost device is not let go.
LoseHolding(l) == IF l.kind = "Held"
                    THEN Step(Failed("DeviceDisconnected"), Nothing)
                    ELSE Stay(l)

Lose(l) == IF l.kind = "Held"
             THEN Step(Failed("DeviceDisconnected"), StopRelease)
             ELSE Stay(l)

ExclusiveRow(l, in, dev) ==
  CASE in.kind = "ModeSelected" -> IF in.mode = "Compatible" THEN Leave(l)
                                                             ELSE Ask(l, dev)
    [] in.kind \in Asking -> Ask(l, dev)
    [] in.kind = "DeviceSelected" -> Change(l, in.dev)
    [] in.kind = "Captured" -> IF l.kind = "Acquiring" THEN Stay(Held(in.dev))
                                                       ELSE Stay(l)
    [] in.kind = "CaptureFailed" -> IF l.kind = "Acquiring"
                                      THEN Stay(Failed(in.why)) ELSE Stay(l)
    [] in.kind = "UserOpen" -> GiveUp(l)
    [] in.kind = "DeviceLost" -> Lose(l)
    [] in.kind = "DeviceReappeared" ->
         IF l = Failed("DeviceDisconnected")
           THEN Step(Acquiring, Acquire(in.dev)) ELSE Stay(l)
    [] OTHER -> Stay(l)

\* In the Compatible mode there is no lock, but for the choice of another.
CompatibleRow(in, dev) ==
  IF in.kind = "ModeSelected" /\ in.mode \in Exclusive
    THEN AcquireOrFail(dev) ELSE Stay(NotApplicable)

\* lock_step
LockStep(l, in, mode, dev) ==
  IF in.kind = "Shutdown"
    THEN Step(IF mode = "Compatible" THEN NotApplicable ELSE Open, StopRelease)
    ELSE IF mode = "Compatible" THEN CompatibleRow(in, dev)
                                ELSE ExclusiveRow(l, in, dev)
=============================================================================
