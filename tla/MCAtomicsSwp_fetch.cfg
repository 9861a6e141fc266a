CONSTANTS
  Ctx <- TwoLevels
  Ops <- Fetches
  Modulus = 8
  MaxOps = 2
SPECIFICATION Spec
PROPERTIES
  ImplementsAtomicWord
CHECK_DEADLOCK FALSE
