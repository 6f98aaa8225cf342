SPECIFICATION FairSpec
CONSTANT Cpus <- MCCpus
INVARIANT ExclusionUnlessRaced
PROPERTY SomeCpuEnters
