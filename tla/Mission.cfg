SPECIFICATION Spec
CONSTANTS
  NoId = NoId
  Objective = {1, 2, 3}
  First = {1, 2}
  Optional = {}
  Needs <- MCNeeds
  Cost <- MCCost
  Limit = 3
  Submitter = {s1, s2}
  HasPredicates = TRUE
  MaxRebalances = 1
  Usage = {1, 2}
  MaxRestarts = 1
  MaxVersion = 6
  MaxStops = 1
  QueueCapacity = 1
  Id <- MCId
  Request <- MCId
  Draft <- MCDraft
INVARIANTS TypeOK OneChildAtATime CompletedMeansDone ChargedOnce NothingStrands
CHECK_DEADLOCK FALSE
