CONSTANTS
  Nodes = 2
  GenerationTime = 1
  StartupTime = 2
  MaxRetries = 2
  RetryPause = 2
  CheckPause = 2
  SlotsPerEpoch = 1
  SecondsPerSlot = 1
  ChainSlotsPerEpoch = 2
  Second = 2
  IntLimit = 64
  MaxTime = 18
SPECIFICATION Spec
INVARIANT TimeOutIsLate
CHECK_DEADLOCK FALSE
