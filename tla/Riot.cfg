SPECIFICATION FairSpec
CONSTANTS
  Fragments = 2
INVARIANTS RadioRests SensorsRest
PROPERTY FramesHeal
