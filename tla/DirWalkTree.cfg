\* A walk of a tree with a forbidden branch and one that is too deep, under two changes.
SPECIFICATION FairSpec
CONSTANTS
  Nodes <- MCNodes
  Up <- MCUp
  Kind <- MCKind
  Rank <- MCRank
  Private = {"secret"}
  Unseen = {"w"}
  Options <- MCOptions
  Descriptors = 4
  MaxChanges = 2
INVARIANTS
  WalkInvariant
  WalkIsComplete
PROPERTIES
  WalkEnds
CHECK_DEADLOCK FALSE
