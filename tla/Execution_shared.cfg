CONSTANTS
  UintLimit = 1024
  e1 = e1
  e2 = e2
  Execs <- TwoExecs
  Requests <- SharedRequests
  MaxTime = 2
SPECIFICATION Spec
INVARIANT FullInv
INVARIANT OneNetwork
INVARIANT KeysRunOnce
PROPERTY OnlySpentGeneratorsRemoved
PROPERTY ClaimSpec
CHECK_DEADLOCK FALSE
