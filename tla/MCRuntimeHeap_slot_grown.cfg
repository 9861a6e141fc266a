CONSTANTS
  g = g
  h = h
  k = k
  End = 5
  StackBytes = 32
  ArenaBytes = 32
  MinHeap = 16
  GlobalSlots = 2
  Limits <- McLimits
  EarlyResize = TRUE
  Hashes <- McHashes
  Size <- McSize
  Requests <- McRequests
  ArenaRequests <- McArenaRequests
  MaxLive = 2
  MaxArena = 1
SPECIFICATION Spec
INVARIANTS
  ClearOfStack
CHECK_DEADLOCK FALSE
