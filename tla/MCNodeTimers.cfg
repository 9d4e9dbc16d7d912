SPECIFICATION FairTimersSpec
CONSTANTS
  Electable = TRUE
  TimerAddFails = TRUE
  MaxMessages = 3
  MaxShutdown = 2
INVARIANT TimersInOrder
INVARIANT TimersFollowState
PROPERTY TimersAreTasks
PROPERTY KeepsTrying
PROPERTY TimersReleased
CHECK_DEADLOCK FALSE
