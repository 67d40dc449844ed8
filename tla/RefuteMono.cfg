SPECIFICATION MCSpec
CONSTANTS
  Sources <- MCSources
  Devices <- MCDevices
  Streams <- MCStreams
  Options <- MCOptions
  Scopes <- MCScopes
INVARIANT PlannedTrackOpens
