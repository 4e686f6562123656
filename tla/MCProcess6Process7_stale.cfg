CONSTANTS
  MaxRuns = 2
  SetupRaces = FALSE
SPECIFICATION Spec
INVARIANT InOrder
CHECK_DEADLOCK FALSE
