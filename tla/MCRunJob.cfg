\* Commands that write up to four pieces, pipes of one piece.
SPECIFICATION RunJobFairSpec
CONSTANTS
  MaxPieces = 4
  Scripts <- AllScripts
  Capacity = 1
  Stdio = 2
  MaxFd = 6
  MaxOthers = 1
INVARIANTS
  RunJobTypeOK
  OutputComplete
  NoDescriptorLeak
  OthersKeepDescriptors
  NoFalseFailure
  DataProtectsWorker
PROPERTIES
  JobEnds
CHECK_DEADLOCK FALSE
