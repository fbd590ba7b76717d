SPECIFICATION Spec
SYMMETRY Symmetry
CHECK_DEADLOCK FALSE
CONSTANTS
  Spaces = {s1, s2}
  MemoryObjects = {m1, m2}
  ObjectStates = {o1, o2, o3, o4}
  Values = {x, y}
  None = None
  ReallocsLocals = FALSE
  MaxKey = 3
INVARIANTS
  OwnedPrivately
  ResolvedIsCurrent
PROPERTIES
  ImplementsPrivateMemory
