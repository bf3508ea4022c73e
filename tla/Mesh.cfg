SPECIFICATION FairMesh
CONSTANTS
  Names = {"a", "b", "c"}
  MaxKeys = 2
  MaxChildren = 2
  MaxCalls = 4
INVARIANTS MeshTypeOK RaisesOnCycleOnly TreeIsShown
PROPERTY DrawingEnds
CHECK_DEADLOCK FALSE
