------------------------------ MODULE MCEngine ------------------------------
(* Engine for TLC: a card for each device, and scopes that bound what is    *)
(* asked of the engine and what happens to the devices.                     *)
EXTENDS Engine, TLC

CONSTANT Scopes

VARIABLES scope,  \* the one that was chosen
          events  \* what has happened to devices, names and sessions

mcVars == <<vars, scope, events>>

MCCard == [d \in Device |-> d]
MCNumeric == <<>>

\* A scope.  opts: which modes have a device at the start, and whether it is
\* the same.  attempts: bound on attempts after which no capture is asked
\* for.  opens: bound on Open commands.  events: bound on devices plugged or
\* unplugged, names lost and sessions that end or fail.  without: commands
\* that are left out.
Scope(o, a, n, e, w) ==
  [opts |-> o, attempts |-> a, opens |-> n, events |-> e, without |-> w]

MCScopes ==
  { \* A device is lost and comes back.
    Scope("same", 2, 1, 3, {"Pause", "SetParams", "Refresh", "SetDevice"}),
    \* A device is lost, and the mode is left and chosen again.
    Scope("same", 4, 2, 1, {"Pause", "SetParams", "Refresh", "SetDevice",
                            "Lock"}),
    \* A change of mode is a change of device.
    Scope("two", 3, 2, 1, {"Pause", "SetParams", "Refresh", "SetDevice"}),
    \* Devices are found automatically, or chosen.
    Scope("none", 2, 1, 1, {"Pause", "SetParams", "Refresh"}),
    Scope("none", 3, 1, 0, {"Pause", "SetParams", "Refresh"}),
    Scope("none", 3, 1, 1, {"Pause", "SetParams", "Refresh", "SetDevice"}),
    \* Every command.
    Scope("same", 2, 1, 1, {}) }

Fits(opts, o) ==
  CASE o = "same" -> opts["Optimal"] = opts["Strict"] /\ opts["Strict"] # NoDevice
    [] o = "two" -> /\ opts["Optimal"] # opts["Strict"]
                    /\ NoDevice \notin {opts["Optimal"], opts["Strict"]}
    [] o = "none" -> {opts["Optimal"], opts["Strict"]} = {NoDevice}

MCInit == /\ scope \in Scopes /\ events = 0
          /\ present = Listed /\ EngineInit
          /\ eng.catalog = present /\ Fits(eng.opts, scope.opts)

With(c) == c \notin scope.without
More == eng.attempt + eng.resolves < scope.attempts

MCLoop == \/ OpenTrack /\ eng.asked < scope.opens
          \/ Play \/ Stop \/ Timeout \/ Shutdown \/ PollSession \/ Drain
          \/ With("Pause") /\ Pause
          \/ With("SetParams") /\ SetParams
          \/ With("Refresh") /\ Refresh
          \/ More /\ SetActiveMode
          \/ More /\ With("Lock") /\ Lock
          \/ More /\ With("SetDevice") /\ SetDevice

MCWorld == /\ events < scope.events /\ events' = events + 1
           /\ Plug \/ NameLost \/ Signal

MCNext == /\ \/ (MCLoop \/ JobStep) /\ UNCHANGED events
             \/ MCWorld
          /\ UNCHANGED scope

MCSpec == MCInit /\ [][MCNext]_mcVars

Sym == Permutations(Device)
=============================================================================
