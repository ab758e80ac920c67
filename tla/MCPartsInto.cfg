SPECIFICATION PSpec
CONSTANTS
  Caps = {1}
  Keys = {"x", "y"}
  MaxKids = 1
  MaxItems = 1
  Slots = {s1, s2}
  GpuPids = {1, 2}
  Accelerators = 1
  Rooms = {1, 2}
  MaxClock = 1
  MaxOpened = 1
  Leaky = {"child", "buf"}
  MaxLeaked = 1
  Cards = 1
  RmPids = {1}
  MaxPids = 2
  MaxMib = 1
  MaxPct = 1
  Spaces <- MCSpaces
  Huge = 3
  MaxRegions = 7
  Programs <- MCPrograms
  Chunk = 2
  CMDLINE_MAX = 4
  MACOS_ARG_MAX = 10
  MAX_ARGS = 2
  MaxHeight = 10
  MaxTree = 1
  Names = {"main", "g", "h", "ext"}
  Binaries <- MCBinaries
  MAX_DEPTH = 3
  MAX_EVENTS = 14
  INLINED_MIN_BYTES = 4
INVARIANTS
  MiddleCalls
CHECK_DEADLOCK FALSE
