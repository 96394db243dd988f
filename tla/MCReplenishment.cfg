SPECIFICATION Spec
CONSTANTS
  Catalogues <- MCCatalogues
  Threshold = 20
  TakeLimit = 2
INVARIANTS CoversDemand RunsOutFirst
CHECK_DEADLOCK FALSE
