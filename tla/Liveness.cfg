SPECIFICATION FairSpec
CONSTANTS
  NoId = NoId
  Executes = {a}
  Stops = {h}
  Id <- MCId
  Request <- MCId
  Draft <- MCDraft
  QueueCapacity = 2
  MaxSteps = 2
  MaxRestarts = 2
INVARIANTS TypeOK
PROPERTIES ActsOnlyWhileRunning CommandsMove StopsAnswer
CHECK_DEADLOCK FALSE
