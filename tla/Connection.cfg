SPECIFICATION Spec
CONSTANTS
  StopRow = StopRow
  Executes = {a, b}
  Stops = {h, k}
  QueueCapacity = 1
  MaxBoots = 1
SYMMETRY Symmetry
INVARIANTS TypeOK AnswersAreDurable ClosedMeansCleared
CHECK_DEADLOCK FALSE
