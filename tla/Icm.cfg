SPECIFICATION FairSpec
CONSTANTS
  Strap = 105
  DtAddr = 104
INVARIANTS TypeOK ReadyConfigured BadSampleExplained
PROPERTY ReadyWhenBusHeals
