SPECIFICATION Spec
CONSTANTS
  ByteW = 2
  IndexW = 2
  RangeW = 8
  MaxConditions = 3
  Arrays <- MCArrays
  Contents <- MCContents
  Conditions <- MCConditions
INVARIANTS
  ConstraintsKeepMeaning
  RequiredDecide
  FactorsCombine
  FastAnswersRight
CHECK_DEADLOCK FALSE
