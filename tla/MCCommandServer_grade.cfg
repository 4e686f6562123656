CONSTANTS
  Session <- MCSession
  ShmSize = 200
  WriteOffset = 20
  WriteValue = 9
  Word = 256
  FileSize = 110
  Sections <- MCSections
  Writable = {5, 6, 7, 8, 9}
  Cuts = 1
SPECIFICATION Spec
INVARIANT FullGrade
CHECK_DEADLOCK FALSE
