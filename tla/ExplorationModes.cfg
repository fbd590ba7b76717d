\* Seeds replayed only, seeds with every limit, and handlers that go on with an ended state.
SPECIFICATION Spec
SYMMETRY Symmetry
CONSTANTS
  StateIds = {s1, s2, s3}
  NoState = NoState
  Inputs = {a, b, c}
  Seeds = {k1, k2}
  NoLimit = NoLimit
  MaxTargets = 3
  MaxEnds = 2
  Options <- SeedModes
INVARIANTS
  SeedsFollowPaths
  HandlerOwnsItsStates
  BooksAgree
