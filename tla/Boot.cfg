SPECIFICATION FairBoot
CONSTANTS
  MaxPolls = 2
INVARIANTS RailRaised LedShowsRole
PROPERTY BootEnds
