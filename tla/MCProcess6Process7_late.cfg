CONSTANTS
  MaxRuns = 1
  SetupRaces = TRUE
SPECIFICATION FairSpec
PROPERTY NotLockedForever
CHECK_DEADLOCK FALSE
