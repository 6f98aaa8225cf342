SPECIFICATION Spec
CONSTANTS
  Machines <- MCMachines
  Cmdlines <- MCCmdlines
  DefaultMaxCpus = 3
  FirstVec = 4
  EndVec = 12
  VecWidth = 16
  MaxPolls = 2
  Word = 64
  IoSpace = 8
INVARIANTS ArgsRoundTrip IrqsAgree RoutedAsSwizzled BarsMeasured OwnCoreAndStack CountMatches RateAtMostDoubles
PROPERTY SoundMachineBoots
CHECK_DEADLOCK FALSE
