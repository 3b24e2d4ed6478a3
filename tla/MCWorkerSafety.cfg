\* One process of two threads, stopped by one signal or by the death of the server.
SPECIFICATION WorkerSpec
CONSTANTS
  w1 = w1
  s1 = s1
  Unlocked = Unlocked
  Workers = {w1}
  NumThreads = 2
  Threads <- ThreadIndexes
  Jobs = {1}
  Stamps = {s1}
  Registered <- AllTypes
  Uncreatable = {}
  Discard <- Discards
  DbFails = FALSE
  MaxWork = 6
  MaxRestarts = 1
  Garbage = {0, 9, 11}
  Signals = {"SIGUSR2"}
  MaxMessages = 2
INVARIANTS
  WorkerTypeOK
  OneThreadWorks
  PendingCovers
  InProgressHasWorker
CHECK_DEADLOCK FALSE
