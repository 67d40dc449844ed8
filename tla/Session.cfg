CONSTANTS
  Length = 3
  Capacity = 2
  Packet = 2
  Period = 2
  PrimeFrames = 1
  StartFill = 1
  Align = 1
  Start = 1
  Targets <- MCTargets
SPECIFICATION MCSpec
INVARIANTS
  RingIsCurrent
  PositionIsTrue
  EndedIsComplete
PROPERTIES
  ImplementsListener
  WaitsEnd
CHECK_DEADLOCK FALSE
