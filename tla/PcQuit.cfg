SPECIFICATION FairSpec
CONSTANTS
  QueueMax = 2
  MaxLines = 3
  OddLines = {0, 2}
  MaxPresses = 2
PROPERTY QuitKeyStops
CHECK_DEADLOCK FALSE
