\* One command that may fail, waited for by libev or by its thread.
SPECIFICATION RunJobSpec
CONSTANTS
  MaxPieces = 1
  Scripts <- AllScripts
  Capacity = 1
  Stdio = 1
  MaxFd = 5
  MaxOthers = 0
INVARIANT
  FailureReported
CHECK_DEADLOCK FALSE
