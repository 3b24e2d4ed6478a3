\* The same under fairness: stopped by one signal or by the death of the server.
SPECIFICATION WorkerFairSpec
CONSTANTS
  w1 = w1
  s1 = s1
  Unlocked = Unlocked
  Workers = {w1}
  NumThreads = 2
  Threads <- ThreadIndexes
  Jobs = {1}
  Stamps = {s1}
  Registered <- AllTypes
  Uncreatable = {}
  Discard <- Discards
  DbFails = FALSE
  MaxWork = 6
  MaxRestarts = 1
  Garbage = {0}
  Signals = {"SIGUSR2"}
  MaxMessages = 2
PROPERTIES
  WakeupServed
  StopEndsProcess
  OrphanExits
CHECK_DEADLOCK FALSE
