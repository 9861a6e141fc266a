CONSTANTS
  Ctx <- ThreeLevels
  Ops <- AllOps
  Modulus = 8
  MaxOps = 3
SPECIFICATION Spec
PROPERTIES
  AtomicUnlessDisturbed
  EveryCallReturns
CHECK_DEADLOCK FALSE
