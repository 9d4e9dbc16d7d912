CONSTANTS
  Conf = {p1, p2, p3}
  OldConf = {p1, p2}
  Self = p1
  RpcThread = rpc
  InOrder = TRUE
  MaxIndex = 3
  MaxReign = 2
  MaxTasks = 1
SPECIFICATION Spec
CONSTRAINT QueueBound
INVARIANT InOrderInv
INVARIANT CommittedByQuorum
 
PROPERTY CommittedNeverRetreats
CHECK_DEADLOCK FALSE
