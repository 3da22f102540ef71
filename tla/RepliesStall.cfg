SPECIFICATION FairSpec
CONSTANTS
  ordinary = ordinary
  question = question
  superChat = superChat
  console = console
  host = host
  narrator = narrator
  singer = singer
  Nobody = Nobody
  Reply = {ordinary}
  Rank <- MCRank
  Worker = {w1}
  MaxQueue = 1
  Guest = {console}
  GuestRank <- MCGuestRank
  Converses = {console}
  Withdrawable = {}
  MaxGeneration = 1
PROPERTY AdmittedRepliesEnd
CHECK_DEADLOCK FALSE
