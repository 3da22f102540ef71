SPECIFICATION Spec
CONSTANTS
  NoId = NoId
  Executes = {a}
  Stops = {h, k}
  Id <- MCId
  Request <- MCId
  Draft <- MCDraft
  QueueCapacity = 2
  MaxSteps = 1
  MaxRestarts = 1
SYMMETRY Symmetry
INVARIANTS ActiveRowsHaveOwners StopTellsTheTruth
CHECK_DEADLOCK FALSE
