SPECIFICATION FairSpec
CONSTANTS
  MaxGeneration = 2
  Op <- MCOp
  Slot <- MCSlot
  Room <- MCRoom
  None = None
INVARIANTS TypeOK PublicStateIsCurrent HostFollowsSession RoomsDoNotMix UnownedThreadsEnd
PROPERTY CommandsReturn
\* Every command may have been sent and every thread may be gone.
CHECK_DEADLOCK FALSE
