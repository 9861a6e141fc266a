CONSTANTS
  a = a
  b = b
  c = c
  Mods <- WsMods
  Rwpi = {}
  Sb <- WsStatics
  Rw <- NoSizes
  Ws <- WsSizes
  Image <- NoImage
  Touched <- McTouched
  RmaLo = 64
  RmaHi = 140
  Junk = 9
  NewWord = 5
  MaxDepth = 1
  BadSwis = FALSE
SPECIFICATION Spec
INVARIANTS
  AreaInsideBlock
