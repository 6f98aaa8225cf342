SPECIFICATION Spec
CONSTANTS
  cpu0 = cpu0
  cpu1 = cpu1
  t1 = t1
  t2 = t2
  Cpus <- MCCpus
  Threads <- MCThreads
  MaxGroups = 1
  MaxHandles = 1
SYMMETRY Symmetry
INVARIANTS CheckedThenActed DeleteAlone NoObjectLost
CHECK_DEADLOCK FALSE
