SPECIFICATION Spec
CONSTANTS Kinds = {"timer", "counter", "meter"} Durations = {0, 2, 3} NanosPerMs = 10
  MaxMeters = 3 MaxUpdates = 2 MaxRequested = 2
CHECK_DEADLOCK FALSE
INVARIANT MaximumIsGreatest
