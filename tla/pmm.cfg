SPECIFICATION Spec
CONSTANTS
  PageSize = 2
  BasePage = 2
  MemoryMaps <- MCMemoryMaps
  MaxCount = 2
  MaxOwned = 3
  MaxDrift = 2
INVARIANTS OwnedOnce HandsOutMemory
PROPERTY CountFollowsBitmap
CHECK_DEADLOCK FALSE
