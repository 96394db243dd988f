SPECIFICATION Spec
CONSTANTS
  Catalogues <- MCCatalogues
  Threshold = 20
  TakeLimit = 3
INVARIANTS LowIsPlanned
CHECK_DEADLOCK FALSE
