CONSTANTS
  UintLimit = 1024
  e1 = e1
  e2 = e2
  Execs <- OneExec
  Requests <- EveryRequest
  MaxTime = 2
SPECIFICATION FairSpec
INVARIANT NoPanic
CHECK_DEADLOCK FALSE
