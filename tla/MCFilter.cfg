SPECIFICATION CollectSpec
CONSTANTS
  Pid <- Pids4
  Ppids = {0, 1, 2, 3, 4}
  Names <- AllNames
  Inputs <- AllTables
  Helper <- AppHelper
  Shard <- AppShard
  Levels = {0, 2, 3, 4, 10, 50}
  Scans <- MCScans
  Noise = {"chrome"}
  IdleNoise = {"mds"}
  Lean = {"lake"}
  Hops = 4
INVARIANTS
  NearestShown
  DrawnOnce
  Preorder
  ShownExactly
  FoldedOnce
  RowsNamed
PROPERTIES
  Progress
CHECK_DEADLOCK FALSE
