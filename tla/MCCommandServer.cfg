CONSTANTS
  Session <- MCSession
  ShmSize = 200
  WriteOffset = 20
  WriteValue = 9
  Word = 256
  FileSize = 110
  Sections <- MCSections
  Writable = {5, 7, 8, 9}
  Cuts = 1
SPECIFICATION FairSpec
INVARIANTS
  FullScores
  MemorySafe
  
PROPERTIES
  TestsEnd
  A3Ends
CHECK_DEADLOCK FALSE
