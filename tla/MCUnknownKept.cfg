\* w2 does not know job 2 and does not discard it, w1 knows it; no statement fails and no process dies, but either may be told to stop at any time.
SPECIFICATION BusySpec
CONSTANTS
  w1 = w1
  w2 = w2
  t1 = t1
  s1 = s1
  s2 = s2
  Unlocked = Unlocked
  Workers <- TwoWorkers
  Threads <- OneThread
  Jobs = {2}
  Stamps = {s1, s2}
  Registered <- OnlyW1
  Uncreatable = {}
  Discard <- MixedDiscard
  DbFails = FALSE
  MaxWork = 1
  MaxRestarts = 0
PROPERTY
  EatenByAnother
CHECK_DEADLOCK FALSE
