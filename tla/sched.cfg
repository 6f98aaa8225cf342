SPECIFICATION FairSpec
CONSTANTS
  NCpus = 2
  NThreads = 1
INVARIANTS
  LeavesClean ProcsFilled OneCpuPerThread
  UserRunsOwnContext SinksFindThread
PROPERTIES
  TimerEnds ScheduledRuns
CHECK_DEADLOCK FALSE
