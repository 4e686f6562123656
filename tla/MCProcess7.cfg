\* T7.4 left out: what only sends messages is there twice anyhow.
CONSTANTS
  Keys <- MCKeys
  MaxErrors = 1
  data <- MCData
  Inner = 2
  Outer = 4
  Others <- MCOthers
  ThreadCount = 4
SPECIFICATION FairSpec
INVARIANTS
  Nested
  NoLostWakeup
  FullThreads1Score
PROPERTY Termination
