CONSTANTS
  Conf = {p1, p2, p3}
  OldConf = {}
  Self = p1
  RpcThread = rpc
  InOrder = TRUE
  MaxIndex = 2
  MaxReign = 2
  MaxTask = 2
  MaxTail = 1
SPECIFICATION FairPipeSpec
INVARIANT AppliedAscends
INVARIANT AppliedIsCommitted
INVARIANT ClosureRunOnce
INVARIANT SuccessMeansDurable
PROPERTY ErrorStopsApplying
PROPERTY CommittedIsApplied
CHECK_DEADLOCK FALSE
