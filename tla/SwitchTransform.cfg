CONSTANTS
  UpstreamReenters = TRUE
  ResultLate = TRUE
  HandlerThrows = TRUE
  MaxItems = 4
  MaxRequests = 3
SPECIFICATION MCSpec
INVARIANTS DemandForwarded RequesterAnswered InputInOrder EndOfInputOnce
CHECK_DEADLOCK FALSE
