CONSTANTS
  VersionMin = 107
  VersionMax = 144
  SectMin = 3
  SectMax = 4
  SectionTypes <- MCSectionTypes
  FixedSize = 2
  SectionSize = 1
  FindSections = 2
  FindLines = 3
  Zeros = 1
  Variant = 10521
  Draws <- MCDraws
  DirNames <- MCDirNames
  FileNames <- MCFileNames
  CHUNK_SIZE = 8
  LineSize = 2
  Tests = 1
  MaxCrashes = 1
SPECIFICATION FairSpec
INVARIANTS
  FullScore
  NothingOutside
PROPERTY SessionEnds
CHECK_DEADLOCK FALSE
