CONSTANTS
  Bits = 4
  TreeKeys = {1, 3, 8, 11, 14}
SPECIFICATION Spec
INVARIANTS
  WellLinked
  Searchable
  BestPriceCached
  NeighboursInOrder
  OnlyExpectedErrors
CHECK_DEADLOCK FALSE
