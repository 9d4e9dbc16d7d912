SPECIFICATION LogSpec
CONSTANTS
  MaxIndex = 2
  MaxTerm = 2
  OORep = FALSE
  Conflicts = TRUE
  CanFail = TRUE
  MaxRestart = 1
  Waiter = {}
  MaxQueue = 2
CONSTRAINT QueueBound
CHECK_DEADLOCK FALSE
INVARIANT AckedIsStored
INVARIANT DiskReachesLog
