CONSTANTS
  BufferSize = 3
  Batches <- MCBatches
  MaxOps = 3
SPECIFICATION FairSpec
INVARIANTS
  TypeOK
  MessagesExpected
  BytesInOrder
  StreamsDrained
PROPERTIES
  Termination
