SPECIFICATION FairSpec
CONSTANTS
  QueueMax = 2
  MaxLines = 3
  OddLines = {0, 2}
  MaxPresses = 2
INVARIANTS NothingVanishes LogIsHistory MarkersLogged
PROPERTY DisplayGoesOn
CHECK_DEADLOCK FALSE
