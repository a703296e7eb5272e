CONSTANTS
  UnitRange = 256
  LPFee = 3
  PoolDecimals = 1
  BaseDecimals = 0
  QuoteDecimals = 0
  Reserves <- MCReserves
  Targets <- MCTargets
  Remains <- MCRemains
  Sides = {TRUE, FALSE}
SPECIFICATION Spec
INVARIANTS
  BidStopsAtLevel
  BidComesClose
  FailsOnlyPastReserve
PROPERTIES
  Terminates
CHECK_DEADLOCK FALSE
