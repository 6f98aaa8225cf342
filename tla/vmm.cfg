SPECIFICATION Spec
CONSTANTS
  Fan <- MCFan
  Frames <- MCFrames
  Segments <- MCSegments
  HugeCount = 2
  Phys = {40}
  KernelPages = {4}
  UserPages = {1, 2}
  MaxRun = 2
  MaxSpaces = 2
INVARIANTS TablesAccounted GetEntryMatches
PROPERTY ImplementsTranslations
CHECK_DEADLOCK FALSE
