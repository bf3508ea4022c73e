SPECIFICATION FairSpec
CONSTANTS
  MaxPolls = 2
  MaxOpen = 2
  UptimeMod = 5
  MaxWindow = 3
INVARIANTS TypeOK MarkersMatchPhase
PROPERTIES ActiveTimeIsElapsed ImuRestsOnGoodBus PushesWhileAttached SleepsAlways
