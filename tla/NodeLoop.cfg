SPECIFICATION FairSpec
CONSTANT MaxOwed = 3
INVARIANTS TickServedOnce LedsRest
PROPERTY ReportsFollowRole
