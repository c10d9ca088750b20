CONSTANTS
  UintLimit = 1024
  Networks <- AllPairs
  DepositContracts <- TwoContracts
  NodeDirname <- Dirnames
SPECIFICATION Spec
INVARIANT FilesTypeOK
INVARIANT FilesThere
INVARIANT GeneratorInputs
INVARIANT OneSecret
INVARIANT OneGenesis
INVARIANT OwnKeys
INVARIANT TestnetComplete
INVARIANT AddressesOpen
INVARIANT NetworkInv
INVARIANT ContentsInv
CHECK_DEADLOCK FALSE
