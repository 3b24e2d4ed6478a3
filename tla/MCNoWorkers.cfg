\* No workers, three jobs, two faults.
SPECIFICATION ServerFairSpec
CONSTANTS
  NumPids = 0
  Jobs = {1, 2, 3}
  MinIdle = 2
  MaxIdle = 4
  Second = 1
  Increments = {1, 3}
  Capacity = 2
  MaxFaults = 2
PROPERTIES
  NobodyToWake
CHECK_DEADLOCK FALSE
