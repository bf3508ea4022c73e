SPECIFICATION FairSpec
CONSTANTS
  Fragments = 2
INVARIANT AlarmMeansDriver
