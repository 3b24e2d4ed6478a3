\* Two workers; no statement fails and no process dies, but either may be told to stop at any time.
SPECIFICATION FairSpec
CONSTANTS
  w1 = w1
  w2 = w2
  t1 = t1
  s1 = s1
  s2 = s2
  Unlocked = Unlocked
  Workers <- TwoWorkers
  Threads <- OneThread
  Jobs = {1, 2}
  Stamps = {s1}
  Registered <- MixedTypes
  Uncreatable = {}
  Discard <- AllDiscard
  DbFails = FALSE
  MaxWork = 2
  MaxRestarts = 0
INVARIANTS
  InProgressHasWorker
  WorkloadCovers
PROPERTIES
  ResultIsFinal
  ClaimedFinishes
  ShutdownEnds
CHECK_DEADLOCK FALSE
