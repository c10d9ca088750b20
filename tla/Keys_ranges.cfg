CONSTANTS
  MaxNodes = 5
  UintLimit = 16
SPECIFICATION Spec
INVARIANT KeysInv
INVARIANT NoKeyTwice
INVARIANT KeysMatchGenesis
INVARIANT RangesEndAtTotal
INVARIANT FullUnlessWrapped
CHECK_DEADLOCK FALSE
