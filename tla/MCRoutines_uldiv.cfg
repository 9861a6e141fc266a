CONSTANTS
  W = 2
  Power <- McPower
  Helpers = {"uldivmod"}
  Tails = {}
  ArgBuf = 1
  ArgMax = 1
  TextMax = 1
  MemEnd = 1
  MaxInt = 7
  BufSize = 3
  Tens <- McTens
SPECIFICATION Spec
INVARIANT QuotientAndRemainder
CHECK_DEADLOCK FALSE
