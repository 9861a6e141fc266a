CONSTANTS
  Shims <- RuntimeShims
  Homes <- McHomes
SPECIFICATION Spec
INVARIANTS
  IInv
  ArgumentsInPlace
  ResultsDelivered
  CallerRegistersKept
PROPERTIES
  EveryShimReturns
