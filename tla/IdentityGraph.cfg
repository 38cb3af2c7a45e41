\* every choice of five links, of which the first three count
SPECIFICATION Spec
CONSTANTS
  Graphs <- MCGraphs
  MaxPicked = 5
  Names <- MCNames
  Handles = {1, 6}
  Limits = {0, 1, 2}
  KeyLimit = 5
  MaxLinks = 3
  None = None
INVARIANTS TypeOK WalkWhole PageHonest SearchComplete
PROPERTIES SearchesAgree WalkEnds
