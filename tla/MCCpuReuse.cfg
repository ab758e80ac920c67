SPECIFICATION Spec
CONSTANTS
  Systems = {"linux"}
  Pids = {1}
  Sec = 2
  Modulus = 8
  Grain = 1
  Rate = 1
  Flaky = FALSE
  MaxTime = 4
  MaxGen = 2
INVARIANTS
  ReuseCaught
CHECK_DEADLOCK FALSE
