SPECIFICATION FairSpec
CONSTANTS
  Nodes = 2
  Slots = 4
  LineSize = 60
INVARIANT TreeIsHonest
PROPERTIES FrameContiguous NeighboursShown
