SPECIFICATION Spec
CHECK_DEADLOCK FALSE
CONSTANTS
  Assignments = {a, b, c}
  Exprs <- MCExprs
  Canonical <- MCCanonical
  None = None
  MaxEntries = 3
INVARIANTS
  CachesSound
  AnswersRight
