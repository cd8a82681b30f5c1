\* One machine, every request, two StopVM calls for it.
CONSTANTS
  Vms = {v1}
  Stops = {s1, s2}
  Requests <- AllRequests
  MaxMounts = 2
  Darwin = TRUE

SPECIFICATION FairSpec
CHECK_DEADLOCK FALSE
INVARIANTS
  EnforcedWhileRunning
  FailedStartLeavesNothing
  StopLeavesNothing
  TableComplete
PROPERTY CallsReturn
