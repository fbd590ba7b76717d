SPECIFICATION Spec
CONSTANTS
  ByteW = 2
  IndexW = 2
  DivW = 4
  RangeW = 8
  MaxSteps = 2
  MaxWidth = 6
  Arrays <- MCArrays
  Contents <- MCContents
  Leaves <- MCLeaves
  Operands <- MCOperands
  Reads <- MCReads
  Ways <- MCWays
  Operations <- MCOperations
INVARIANTS
  CreateKeepsMeaning
  BuildersKeepMeaning
  SolversAgree
  RangesHoldTheValues
CHECK_DEADLOCK FALSE
