SPECIFICATION Spec
CHECK_DEADLOCK FALSE
CONSTANTS
  Programs <- MCPrograms
  OsPaths = {"dir"}
  OsEntries <- MCOsEntries
  MaxFds = 4
  Pad = 4
  MaxOff = 6
  MaxCalls = 1
INVARIANTS
  FailuresAreBudgeted
  ScanIsComplete
  SelectAnswersWhatWasAsked
