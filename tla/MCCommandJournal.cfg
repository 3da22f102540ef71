SPECIFICATION JournalSpec
CONSTANTS
  first = first
  retry = retry
  second = second
  halt = halt
  NoId = NoId
  QueueCapacity = 1
  Id <- MCId
  Request <- MCRequest
  Draft <- MCDraft
CONSTRAINT VersionBound
INVARIANTS JournalTypeOK BarrierHolds OneCommandPerRequest QueueWithinCapacity
PROPERTIES KeepsLifecycle
CHECK_DEADLOCK FALSE
