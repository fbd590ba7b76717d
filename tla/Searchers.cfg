SPECIFICATION Spec
CHECK_DEADLOCK FALSE
CONSTANTS
  StateIds = {1, 2, 3, 4}
  None = None
  MaxAdded = 2
  Options <- SoundOptions
INVARIANTS
  NoAssertionFails
  HoldsWhatRuns
  SelectsRunnable
