SPECIFICATION MetersSpec
CONSTANTS
  MAX_COUNTER_VALUE = 7 MaxEvents = 8 MaxMarked = 12
  Durations = {0, 1, 2, 5} Limit = 3
  MaxCount = 5 MaxMarks = 6 Scale = 60 Percentiles = {1, 5, 10, 13, 19} Parts = 20
  Threshold = 2 MinExp = 8 MaxExp = 6 MaxRandom = 1 MaxTime = 8 MaxIdle = 3 MaxUpdates = 5
  Ids = {1, 2} Priorities = {1, 2, 3, 4}
  Kinds = {"timer", "counter", "meter"} NanosPerMs = 10 MaxMeters = 3 MaxTimed = 2 MaxRequested = 2
INVARIANTS CounterSound FiguresSound
PROPERTIES QueuesSound 
CONSTRAINT Bounded
CHECK_DEADLOCK FALSE
