CONSTANTS
  Inputs <- McInputs
  ImageBase = 32896
  Sizes <- McSizes
  Limit = 100
  Source <- McSource
  Junk = 9
SPECIFICATION LinkersSpec
INVARIANTS
  SectionsApart
  RunsAnywhere
  MeantDefinition
  SidecarAgrees
  LoopInv
  AreaFilled
  StaticsInitialised
  ImageBelowEnd
  ReferencesMeant
PROPERTIES
  Initialises
