SPECIFICATION Spec
CONSTANTS
  StopRow = StopRow
  Executes = {a, b}
  Stops = {h}
  QueueCapacity = 1
  MaxBoots = 0
INVARIANT MarkedBeforeDispatch
CHECK_DEADLOCK FALSE
