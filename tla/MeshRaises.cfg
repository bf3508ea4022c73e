SPECIFICATION FairMesh
CONSTANTS
  Names = {"a", "b", "c"}
  MaxKeys = 2
  MaxChildren = 2
  MaxCalls = 4
CHECK_DEADLOCK FALSE
INVARIANTS NeverRaises EveryNodeShown
