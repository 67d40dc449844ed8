CONSTANTS
  Absent = Absent
  Original = Original
  MaxSnapshots = 3
  MaxQueue = 3
  MaxCalls = 3
  Inodes <- MCInodes
SPECIFICATION MCFairSpec
INVARIANTS
  WritesInOrder
  TargetWhole
  ConfirmedSurvives
PROPERTIES
  ImplementsSavedFiles
  EndsWhenLeft
CHECK_DEADLOCK FALSE
