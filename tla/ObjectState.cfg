SPECIFICATION Spec
CONSTANTS
  Size = 3
  Values = {v0, v1}
  Zero = v0
  NoValue = NoValue
  ExternalCalls = TRUE
INVARIANTS
  CacheInvariants
  ReadsAsWritten
