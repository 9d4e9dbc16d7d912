SPECIFICATION RepSpec
CONSTANTS
  MaxIndex = 3
  MaxOld = 0
  MaxFly = 2
  OO = TRUE
  LookBack = 3
  Depends <- Alternating
  CacheSize = 2
  MaxRpc = 3
  MaxFail = 1
  MaxRestart = 1
CONSTRAINT OneFault
CHECK_DEADLOCK FALSE
INVARIANT DependenciesFirst
 
INVARIANT AnswerWithinSent
INVARIANT FlyingSizeIsSum
 
PROPERTY RefusedLacks
