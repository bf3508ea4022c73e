SPECIFICATION Spec
CONSTANTS
  QueueMax = 2
  MaxLines = 3
  OddLines = {0, 2}
  MaxPresses = 2
INVARIANT ExportIsHostClock
CHECK_DEADLOCK FALSE
