CONSTANTS
  Tracks <- MCTracks
  Length = 1
  Outputs <- MCOutputs
  Fallback <- Hardware
  Sinks = {"sink"}
  Rates = {0, 96000}
  Volumes = {50, 100}
  MaxOpens = 2
  Scopes <- MCScopes
SPECIFICATION MCSpec
INVARIANT
  StreamIsAsSet
PROPERTY
  GoesOnOrIsTold
