CONSTANTS
  N = 5
  PreN = 4
  Reserve = 2
  Sizes = {1, 2, 3, 4, 5, 7, 9}
  MaxSpent = 8
SPECIFICATION Spec
CHECK_DEADLOCK FALSE
INVARIANTS
  TypeOK
  BufferInBounds
  OTsFresh
