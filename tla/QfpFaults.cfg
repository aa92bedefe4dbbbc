CONSTANTS
  Capacity = 2
  Undefined = {2}
  CallbacksThrow = TRUE
  MaxItems = 4
  MaxDemand = 3
  MaxTransformers = 1
  MaxWip = 4
SPECIFICATION Spec
INVARIANTS AtMostOneDrain DemandRespected InOrderUndropped
PROPERTIES NoSignalAfterEnd ExceptionIsFinal
CHECK_DEADLOCK FALSE
