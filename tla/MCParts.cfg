SPECIFICATION PSpec
CONSTANTS
  Caps = {1, 3}
  Keys = {"x", "y"}
  MaxKids = 2
  MaxItems = 5
  Slots = {s1, s2}
  GpuPids = {1, 2}
  Accelerators = 1
  Rooms = {1, 2}
  MaxClock = 2
  MaxOpened = 2
  Leaky = {"child"}
  MaxLeaked = 1
  Cards = 3
  RmPids = {1, 2}
  MaxPids = 2
  MaxMib = 1
  MaxPct = 1
  Spaces <- MCSpaces
  Huge = 3
  MaxRegions = 7
  Programs <- MCPrograms
  Chunk = 2
  CMDLINE_MAX = 4
  MACOS_ARG_MAX = 10
  MAX_ARGS = 2
  MaxHeight = 10
  MaxTree = 6
  Names = {"main", "g", "h", "ext"}
  Binaries <- MCBinaries
  MAX_DEPTH = 3
  MAX_EVENTS = 14
  INLINED_MIN_BYTES = 4
SYMMETRY SlotSymmetry
INVARIANTS
  SeekExact
  LookupExact
  RightsBalanced
  UsageHonest
  TableExact
  FdsOwned
  OneStackPage
  KeptInUse
  ArgsWhole
  FrameFits
  NoNeedlessElision
  MarkerExact
  PeakExact
  FramesStack
  InlinedOwn
CHECK_DEADLOCK FALSE
