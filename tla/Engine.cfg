CONSTANTS
  Device = {d1, d2}
  CardOf <- MCCard
  Numeric <- MCNumeric
  RetryAttempts = 3
  Scopes <- MCScopes
SYMMETRY Sym
SPECIFICATION MCSpec
INVARIANTS
  HeldHasClaim
  AcquiringHasWork
  OpenIsKept
  NoPlayAfterLoss
CHECK_DEADLOCK FALSE
