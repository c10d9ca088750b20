CONSTANTS
  UintLimit = 256
  ElTypes <- GethAndErigon
  ClTypes <- LighthouseAndPrysm
  PrefundedKeys = 1
  GethInit = 1
  PerKeyImport = 1
  GethStart = 1
  ErigonInit = 1
  ErigonStart = 1
  NodeInfoRetries <- NodeInfoTries
  NodeInfoPause = 1
  HealthRetries <- HealthTries
  HealthPause <- HealthPauses
  RequestTimeout = 2
  Horizon = 10
SPECIFICATION FairSpec
INVARIANT AvailabilityInv
INVARIANT NotGivenUpEarly
INVARIANT ElWaitBounded
PROPERTY ElWaitsEnd
PROPERTY WaitsEndUnlessHung
CHECK_DEADLOCK FALSE
