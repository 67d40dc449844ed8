CONSTANTS
  Strings <- MCStrings
  None = None
  Columns <- MCColumns
  Labels <- MCLabels
  Separated <- MCSeparated
  Blank <- MCBlank
  Routed <- MCRouted
  Paths <- MCPaths
  MaxI32 = 1000
  MaxChanges = 2
  Scopes = {"panel", "visualization", "playback", "state"}
  Damages <- MCDamages
  Themes <- MCThemes
  NameLists <- MCNameLists
  Chosen <- MCChosen
  Buffers <- MCBuffers
  Geometries <- MCGeometries
  Dirs <- MCDirs
SPECIFICATION Spec
INVARIANTS
  SurvivesRestart
  DamageIsLocal
  Agreements
