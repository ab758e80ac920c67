SPECIFICATION Spec
CONSTANTS
  Sandbox = TRUE
  OtherKeys = {"x"}
  MaxKeys = 1
INVARIANTS
  RestoredOnExit
