CONSTANTS
  W = 4
  Power <- McPower
  Helpers = {"uidivmod", "idiv", "idivmod"}
  Tails <- McTails
  ArgBuf = 6
  ArgMax = 2
  TextMax = 5
  MemEnd = 5
  MaxInt = 127
  BufSize = 5
  Tens <- McTens
SPECIFICATION Spec
INVARIANTS
  QuotientAndRemainder
  InsideArgBuf
  WordsKept
  CursorAsPosix
  RangeMoved
  InsideBuf
  NumberWritten
PROPERTIES
  RoutineReturns
CHECK_DEADLOCK FALSE
