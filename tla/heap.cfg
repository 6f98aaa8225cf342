SPECIFICATION Spec
CONSTANTS
  PageSize = 32
  Frames <- MCFrames
  Sizes <- MCSizes
  MaxTop = 8
INVARIANTS BlocksOwnPages GuardAbove FramesOnce StrayPagesExplained
CHECK_DEADLOCK FALSE
