\* An interrupt from the terminal reaches the worker as well as the server, which then signals it again.
SPECIFICATION WorkerSpec
CONSTANTS
  w1 = w1
  s1 = s1
  Unlocked = Unlocked
  Workers = {w1}
  NumThreads = 2
  Threads <- ThreadIndexes
  Jobs = {1}
  Stamps = {s1}
  Registered <- AllTypes
  Uncreatable = {}
  Discard <- Discards
  DbFails = FALSE
  MaxWork = 6
  MaxRestarts = 1
  Garbage = {0}
  Signals = {"SIGUSR2", "SIGINT"}
  MaxMessages = 2
INVARIANT
  ProcessingInProgress
CHECK_DEADLOCK FALSE
