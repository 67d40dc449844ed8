SPECIFICATION MCShellSpec
CONSTANTS
  None = None
  NoRetry = {"noDevice"}
  Files = {"settings", "playlist"}
  Reasons = {"noDevice", "busy"}
  Themes = {"A", "B", "C"}
  Devices = {"d1", "d2"}
  Available = {"Compatible"}
  MaxQueue = 3
  MaxReads = 2
  MaxLoads = 2
  Tracks = {"a", "d"}
  DsdTracks = {"d"}
  Kinds = {"osc", "spec"}
  Looks = {"plain"}
  RamCap = 1
  DiskCap = 1
  Offsets <- MCOffsets
  TrayDeltas <- MCTrayDeltas
  Desktops = {"windows", "macos", "other"}
  StartVolumes = {50}
  Sizes = {"s", "tiny"}
  Tiny = {"tiny"}
  Positions = {"here", "there"}
  Parts = {"messages", "pictures", "cache", "wheel", "geometry"}
  MaxInputs <- MCMaxInputs
  MaxRequests = 3
  MaxClock = 2
INVARIANTS
  EachCauseHasItsWindow
  NothingStuck
  SaveIsWhatWasChosen
  PicturesAreRight
  ScrollingIsFollowed
  GeometryIsTheUsers
CHECK_DEADLOCK FALSE
