CONSTANTS
  a = a
  b = b
  c = c
  Mods <- McMods
  Rwpi <- McRwpi
  Sb <- McSb
  Rw <- McRw
  Ws <- McWs
  Image <- McImage
  Touched <- McTouched
  RmaLo = 64
  RmaHi = 140
  Junk = 9
  NewWord = 5
  MaxDepth = 3
  BadSwis = FALSE
SPECIFICATION Spec
INVARIANTS
  IInv
  StaticBase
  AreaInsideBlock
  HeadersIntact
  NoLeak
PROPERTIES
  OwnWordsOnly
  ImplementsInstances
