CONSTANTS
  Capacity = 0
  Undefined = {}
  CallbacksThrow = FALSE
  MaxItems = 3
  MaxDemand = 3
  MaxTransformers = 1
  MaxWip = 5
SPECIFICATION FairSpec
INVARIANTS TypeOK NothingLost TerminalAfterAll NoLostWakeup SubscriberReleased
PROPERTIES Implements AllArrives
CHECK_DEADLOCK FALSE
