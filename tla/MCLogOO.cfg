SPECIFICATION LogSpec
CONSTANTS
  MaxIndex = 3
  MaxTerm = 1
  OORep = TRUE
  Conflicts = FALSE
  CanFail = FALSE
  MaxRestart = 0
  Waiter = {r1}
  MaxQueue = 2
CONSTRAINT QueueBound
CHECK_DEADLOCK FALSE
INVARIANT MemoryIndexed
INVARIANT LastIsContiguous
INVARIANT WaitersAreCurrent
