SPECIFICATION FairRepSpec
CONSTANTS
  MaxIndex = 2
  MaxOld = 1
  MaxFly = 2
  OO = FALSE
  LookBack = 3
  Depends <- Independent
  CacheSize = 2
  MaxRpc = 3
  MaxFail = 0
  MaxRestart = 0
CHECK_DEADLOCK FALSE
PROPERTY Replicated
