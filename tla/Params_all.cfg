CONSTANTS
  UintLimit = 256
  Absent = Absent
  Null = Null
  Texts <- SomeTexts
  Documents <- SomeDocuments
SPECIFICATION Spec
INVARIANT ValidationInv
INVARIANT AgreesWithValid
INVARIANT ImagesChosen
INVARIANT EnoughUnlessWrapped
INVARIANT RefusedLate
CHECK_DEADLOCK FALSE
