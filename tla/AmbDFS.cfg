\* All programs of depth 3 and width 2 or depth 2 and width 3, cut off at 2.
SPECIFICATION FairSpec
CONSTANTS
  Trees <- MCTrees
  MaxDepth = 2
INVARIANTS
  ReplayAgrees
PROPERTIES
  DepthFirst
  Exhaustive
CHECK_DEADLOCK FALSE
