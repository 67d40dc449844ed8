CONSTANTS
  Absent = Absent
  Original = Original
  Texts = {0, 1}
  Intervals = {1, 2}
  Scopes <- LiveScopes
SPECIFICATION MCFairSpec
PROPERTIES
  ExitCompletes
  ChangeReachesDisk
CHECK_DEADLOCK FALSE
