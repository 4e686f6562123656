\* A fork may fail, P1 may be killed at any moment.
CONSTANTS
  Procs <- MCProcs
  Root = 1
  children <- MCChildren
  Threads <- MCThreads
  Keys <- MCKeys
  data <- MCData
  MaxErrors = 1
  MaxFailures = 1
  MayBeKilled = TRUE
SPECIFICATION FairSpec
INVARIANTS
  NoErrors
  ParentsEnclose
  ProcessesEnclose
  FullHierarchyScore
PROPERTY EverybodyGoes
