\* Two workers; any statement may fail, any process may die and one is started anew.
SPECIFICATION Spec
CONSTANTS
  w1 = w1
  w2 = w2
  t1 = t1
  s1 = s1
  s2 = s2
  Unlocked = Unlocked
  Workers <- TwoWorkers
  Threads <- OneThread
  Jobs = {1, 2}
  Stamps = {s1, s2}
  Registered <- MixedTypes
  Uncreatable = {2}
  Discard <- MixedDiscard
  DbFails = TRUE
  MaxWork = 2
  MaxRestarts = 1
SYMMETRY StampSymmetry
INVARIANTS
  TypeOK
  AtMostOnce
  Exclusive
  HeldIsLocked
PROPERTIES
  ImplementsLease
CHECK_DEADLOCK FALSE
