SPECIFICATION Spec
CONSTANTS
  Sandbox = TRUE
  OtherKeys = {"x"}
  MaxKeys = 2
INVARIANTS
  FilterSuffices
  QuitRestores
PROPERTIES
  FramePeriod
  QuitHeard
