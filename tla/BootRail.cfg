SPECIFICATION FairBoot
CONSTANTS
  MaxPolls = 2
INVARIANT RailIs3V0
