SPECIFICATION Spec
CONSTANTS
  Systems = {"linux", "macos"}
  Pids = {1}
  Sec = 2
  Modulus = 3
  Grain = 2
  Rate = 1
  Flaky = TRUE
  MaxTime = 7
  MaxGen = 2
INVARIANTS
  SettledExact
CHECK_DEADLOCK FALSE
