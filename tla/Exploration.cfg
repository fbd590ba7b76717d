\* Seeds, and no limits but time.  Liveness is checked, so no symmetry.
SPECIFICATION FairSpec
CONSTANTS
  StateIds = {s1, s2, s3}
  NoState = NoState
  Inputs = {a, b, c}
  Seeds = {k1}
  NoLimit = NoLimit
  MaxTargets = 3
  MaxEnds = 2
  Options <- UnlimitedOnly
INVARIANTS
  PathsDisjoint
  NoInputLost
PROPERTIES
  ImplementsPartition
  HaltIsObeyed
