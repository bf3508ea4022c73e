SPECIFICATION Spec
CONSTANTS
  MaxPolls = 2
  MaxOpen = 2
  UptimeMod = 5
  MaxWindow = 3
INVARIANT QuietTransportInSleep

