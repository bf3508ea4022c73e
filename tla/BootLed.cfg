SPECIFICATION BootSpec
CONSTANTS
  MaxPolls = 2
INVARIANT EarlyRoleShown
