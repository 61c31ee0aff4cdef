CONSTANTS
  N = 5
  PreN = 4
  Reserve = 2
  Sizes = {1, 2, 4, 5, 9}
  MaxSpent = 0
  MaxCalls = 3
SPECIFICATION FairSpec
INVARIANTS
  OTsAligned
  MessagesExpected
PROPERTY Termination
