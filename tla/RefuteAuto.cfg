CONSTANTS
  Device = {d1, d2}
  CardOf <- MCCard
  Numeric <- MCNumeric
  RetryAttempts = 3
  Scopes <- MCScopes
SYMMETRY Sym
SPECIFICATION MCSpec
INVARIANT InactiveIsCompatible
CHECK_DEADLOCK FALSE
