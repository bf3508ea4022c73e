SPECIFICATION FairSpec
CONSTANTS
  MaxPolls = 2
  MaxOpen = 1
  UptimeMod = 3
  MaxWindow = 2
  Strap = 105
  DtAddr = 104
  Readings = {4095}
  Samples = 2
  Scale = 1
INVARIANTS MarkersMatchPhase SamplesExplained SampleIsWhole
PROPERTIES ImplementsLoop ActiveTimeIsElapsed ImuRestsOnGoodBus CycleGoesOn FramesHeal
