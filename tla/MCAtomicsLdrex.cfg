CONSTANTS
  Ctx <- McCtx
  Ops <- McOps
  Modulus = 8
  MaxOps = 4
SPECIFICATION Spec
INVARIANTS
  MonitorInv
PROPERTIES
  ImplementsAtomicWord
  EveryCallReturns
CHECK_DEADLOCK FALSE
