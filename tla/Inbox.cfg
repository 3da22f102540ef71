SPECIFICATION FairSpec
CONSTANTS
  Key = {t1, s1}
  Sandbox = {s1}
  Worker = {w1, w2}
  Operator = {o1, o2}
  Timer = timer
  NoKey = NoKey
INVARIANTS TypeOK RunsOnce ToolsRunAsDecided WorkIsRegistered
PROPERTIES EndsAreFinal ApprovalsAreTakenUp
