\* Two workers, two jobs, pipes of one message, one fault.
SPECIFICATION ServerFairSpec
CONSTANTS
  NumPids = 2
  Jobs = {1, 2}
  MinIdle = 2
  MaxIdle = 4
  Second = 1
  Increments = {1, 3}
  Capacity = 2
  MaxFaults = 1
INVARIANTS
  ServerTypeOK
  EveryWorkerInTurn
  IdlePollStaysOn
  ShutdownComplete
PROPERTIES
  MissedSignalRecovered
  WriteReturns
  ShutdownReturns
  NoOrphans
CHECK_DEADLOCK FALSE
