CONSTANTS
  UnitRange = 256
  LPFee = 3
  PoolDecimals = 1
  BaseDecimals = 1
  QuoteDecimals = 1
  Reserves <- MCReserves
  Targets <- MCTargets
  Remains <- MCRemains
  Sides = {FALSE}
SPECIFICATION Spec
PROPERTY Terminates
CHECK_DEADLOCK FALSE
