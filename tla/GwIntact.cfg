SPECIFICATION Spec
CONSTANTS
  Nodes = 2
  Slots = 3
  LineSize = 256
PROPERTY FramesReachIntact
