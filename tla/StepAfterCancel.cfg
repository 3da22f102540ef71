SPECIFICATION Spec
CONSTANTS
  NoId = NoId
  Executes = {a}
  Stops = {h}
  Id <- MCId
  Request <- MCId
  Draft <- MCDraft
  QueueCapacity = 2
  MaxSteps = 2
  MaxRestarts = 1
PROPERTY NoStepAfterCancel
CHECK_DEADLOCK FALSE
