SPECIFICATION RepSpec
CONSTANTS
  MaxIndex = 3
  MaxOld = 2
  MaxFly = 2
  OO = FALSE
  LookBack = 3
  Depends <- Independent
  CacheSize = 2
  MaxRpc = 4
  MaxFail = 0
  MaxRestart = 0
CHECK_DEADLOCK FALSE
INVARIANT CountedIsPresent
