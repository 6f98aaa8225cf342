SPECIFICATION LoaderSpec
CONSTANTS
  PageSize = 2
  LastPage = 4
  Frames <- MCFrames
  Device = 10
  Bases <- MCBases
  MaxSize = 2
  Archives <- MCArchives
  BlockSize = 2
  StackPages = 1
INVARIANTS RangeTiled FramesOnce PageTablesMatch RegionFound CopyHitsBacking
  StartupLoaded
CHECK_DEADLOCK FALSE
