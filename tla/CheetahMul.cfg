CONSTANTS
  Program <- MCProgram
  Slots = 2
  Batch = 2
  Window = 2
SPECIFICATION FairSpec
INVARIANTS
  ReceivedAsExpected
  ContextsReady
PROPERTY Termination
