CONSTANTS
  Cores <- MCCores
  MaxParallel = 4
  MinWork = 3
  Program <- MCProgram
SPECIFICATION FairSpec
INVARIANTS
  TypeOK
  InstancesReady
  SlicesPaired
  OutputComplete
PROPERTIES
  Termination
