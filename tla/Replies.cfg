SPECIFICATION FairSpec
CONSTANTS
  ordinary = ordinary
  question = question
  superChat = superChat
  console = console
  host = host
  narrator = narrator
  singer = singer
  Nobody = Nobody
  Reply = {ordinary, question, superChat}
  Rank <- MCRank
  Worker = {w1, w2}
  MaxQueue = 1
  Guest = {host}
  GuestRank <- MCGuestRank
  Converses = {host}
  Withdrawable = {host}
  MaxGeneration = 2
INVARIANTS TypeOK LeasesHaveOwners EveryReplyIsCounted NobodySleepsOnWork
PROPERTIES SpokenOnceInOrder SwitchesEnd
CHECK_DEADLOCK FALSE
