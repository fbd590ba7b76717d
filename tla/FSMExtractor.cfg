SPECIFICATION FairSpec
CONSTANTS
  Root = Root
  Entry = entry
  header0 = header0
  body1 = body1
  body2 = body2
  exit = exit
  Blocks = {entry, header0, body1, body2, exit}
  Graphs <- MCGraphs
  Loads = {load}
  Stores = {store}
  Fields = {state, other}
  StateFields = {state}
INVARIANTS
  DependencesRight
  PairsFound
  DirectionsLead
PROPERTIES
  Ends
