\* The tester kills the program at any moment and starts it again;
\* or it does not.
CONSTANTS
  MaxRuns = 2
  SetupRaces = FALSE
SPECIFICATION FairSpec
INVARIANT MutualExclusion
PROPERTY BothEnd
\* A mutex whose owner was killed is never free again.
CHECK_DEADLOCK FALSE
