CONSTANTS
  Party = {alice, bob}
  Thread = {t1, t2}
  NumOps <- MCNumOps
  Operands <- MCOperands
  Captured <- MCCaptured
  SideEffect <- MCSideEffect
  DbgPrint <- MCDbgPrint
  FreeOp <- MCFreeOp
  Interactive <- MCInteractive
  Returned <- MCReturned
  MaxSpurious = 1
  NoThread = NoThread
SPECIFICATION Spec
SYMMETRY ThreadSymmetry
INVARIANTS
  TypeOK
  NoLookupFailure
  SideEffectOrder
  ChannelPairing
  NoLostWakeup
PROPERTY RefinesDataflow
