\* Two processes; perhaps the second is not the child of the first, or one of its
\* threads has the tid of the main thread.
CONSTANTS
  Keys <- MCKeys
  Requirements <- MCRequirements
  MaxErrors = 0
SPECIFICATION CheckedSpec
INVARIANTS
  WellNumbered
  HierarchyFaithful
  Threads1Faithful
  Threads2Faithful
  Threads3Faithful
\* The clients stop when everybody has ended.
CHECK_DEADLOCK FALSE
