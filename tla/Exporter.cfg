CONSTANTS
  LazyRemote = TRUE
  MaxStarts = 3
  MaxDemand = 2
SPECIFICATION MCSpec
INVARIANTS TimersSound LastWordCounts
PROPERTIES SnapshotsFlow
CHECK_DEADLOCK FALSE
