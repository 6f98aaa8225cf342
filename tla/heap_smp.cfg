SPECIFICATION Spec
CONSTANTS
  cpu0 = cpu0
  cpu1 = cpu1
  frame1 = frame1
  frame2 = frame2
  Cpus <- MCCpus
  PageSize = 32
  Frames <- MCFrames
  Sizes <- MCSizes
  MaxTop = 5
SYMMETRY Symmetry
PROPERTY ImplementsHeap
CHECK_DEADLOCK FALSE
