CONSTANTS
  MaxVisit = 1
  MaxCalls = 1
  MaxOrphans = 1
SPECIFICATION FairSpec
INVARIANT PausedIsSilent
CHECK_DEADLOCK FALSE
