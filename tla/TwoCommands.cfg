SPECIFICATION Spec
CONSTANTS
  NoId = NoId
  Executes = {a, b}
  Stops = {h}
  Id <- MCId
  Request <- MCId
  Draft <- MCDraft
  QueueCapacity = 2
  MaxSteps = 1
  MaxRestarts = 1
SYMMETRY Symmetry
INVARIANTS WorkerSurvives EndedMeansQuiet
PROPERTIES StartsInOrder
CHECK_DEADLOCK FALSE
