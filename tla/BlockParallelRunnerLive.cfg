CONSTANTS
  Party = {alice, bob}
  Thread = {t1, t2}
  NumOps <- LiveNumOps
  Operands <- LiveOperands
  Captured <- LiveCaptured
  SideEffect <- LiveSideEffect
  DbgPrint <- LiveDbgPrint
  FreeOp <- LiveFreeOp
  Interactive <- LiveInteractive
  Returned <- LiveReturned
  MaxSpurious = 0
  NoThread = NoThread
SPECIFICATION FairSpec
PROPERTIES
  Termination
  RefinesFairDataflow
