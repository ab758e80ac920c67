SPECIFICATION LSpec
CONSTANTS
  Systems = {"linux"}
  Pids = {1, 2}
  Sec = 1
  Modulus = 2
  Grain = 1
  Rate = 0
  Flaky = FALSE
  MaxTime = 1
  MaxGen = 2
  Writers = {1}
  Batch = 1
INVARIANTS
  Lockstep
  NotInherited
  Swept
PROPERTY
  LiveLabelsStay
CHECK_DEADLOCK FALSE
