CONSTANTS
  Absent = Absent
  Original = Original
  Texts = {0, 1}
  Intervals = {1, 2}
  Scopes <- SafetyScopes
SPECIFICATION MCSpec
INVARIANTS
  InFlightMirrorsWriter
  ReferenceIsDisk
  DifferenceIsScheduled
  OriginalsKept
  ExitReportIsTrue
CHECK_DEADLOCK FALSE
