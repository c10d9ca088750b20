CONSTANTS
  UintLimit = 256
  Absent = Absent
  Null = Null
  Texts <- SomeTexts
  Documents <- SomeDocuments
SPECIFICATION Spec
INVARIANT EnoughValidators
CHECK_DEADLOCK FALSE
