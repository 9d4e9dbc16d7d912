SPECIFICATION LogSpec
CONSTANTS
  MaxIndex = 3
  MaxTerm = 2
  OORep = FALSE
  Conflicts = FALSE
  CanFail = FALSE
  MaxRestart = 0
  Waiter = {}
  MaxQueue = 2
CONSTRAINT QueueBound
CHECK_DEADLOCK FALSE
INVARIANT ReadsAgree
 
INVARIANT LastIdAnswered
