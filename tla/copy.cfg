SPECIFICATION CopySpec
CONSTANTS
  cpu0 = cpu0
  cpu1 = cpu1
  Cpus <- MCCpus
  Mappings <- MCMappings
SYMMETRY Symmetry
INVARIANTS CopyReachesOwnPages
CHECK_DEADLOCK FALSE
