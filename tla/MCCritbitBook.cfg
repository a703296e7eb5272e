CONSTANTS
  Bits = 3
  Owners = {alice, bob}
  Prices = {1, 3, 6}
  Amounts = {0, 1, 2}
  MaxOrders = 3
SPECIFICATION Spec
INVARIANTS
  LoopGivesShares
PROPERTIES
  ImplementsLevels
  ImplementsOrderBook
VIEW BookView
SYMMETRY OwnerSymmetry
CHECK_DEADLOCK FALSE
