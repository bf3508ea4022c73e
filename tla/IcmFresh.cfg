SPECIFICATION Spec
CONSTANTS
  Strap = 105
  DtAddr = 104
INVARIANT ReadIsFresh

