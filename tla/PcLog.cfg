SPECIFICATION Spec
CONSTANTS
  QueueMax = 2
  MaxLines = 3
  OddLines = {0, 2}
  MaxPresses = 2
INVARIANT EveryLineLogged
CHECK_DEADLOCK FALSE
