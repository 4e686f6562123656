\* One run, from an empty system, and nothing holds the second process back
\* while the first sets the object up.
CONSTANTS
  MaxRuns = 1
  SetupRaces = TRUE
SPECIFICATION Spec
INVARIANTS
  InOrder
  OneObject
  NothingLeftBehind
\* A thread whose flag has been reset, or whose partner has crashed, waits for
\* ever: the run "late_setup" shows it.
CHECK_DEADLOCK FALSE
