SPECIFICATION FairSpec
CONSTANTS
  Interval = 6
  Linger = 1
  Reoff = 2
  JoinTimeout = 3
  MaxLatch = 4
INVARIANT FieldsAreReal
