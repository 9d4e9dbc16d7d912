CONSTANTS
  Server = {s1, s2, s3}
  Nil = Nil
  Electable = {s1, s2}
  MaxTerm = 3
  MaxIndex = 1
  MaxRestart = 1
  MaxCalls = 2
  MaxAppends = 1
  MaxRestarted = 1
  PlainTerm = 3
SPECIFICATION ElectionSpec
SYMMETRY Symmetry
CONSTRAINT CallBound
CONSTRAINT RestartBound
CONSTRAINT PlainBound
INVARIANT ElectionSafety
INVARIANT NoLeaderConflict
INVARIANT ElectionInv
INVARIANT LeaderKnown
PROPERTY MetaAdvances
CHECK_DEADLOCK FALSE
