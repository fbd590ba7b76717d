SPECIFICATION Spec
CONSTANTS
  Inputs = {0, 1, 2, 3}
  PtrW = 16
  ObjSpace = 8
  MaxAlloc = 6
  Programs <- MCPrograms
  BufferSize = 3
  Jobs <- MCJobs
  Module <- MCModule
  ArrayInput <- MCArrayInput
  SmallSize = 2
  HugeSize = 100
INVARIANTS
  OutcomesAgree
  EveryInputEndsOnce
  PathsReadBack
  ReplayFollowsPath
