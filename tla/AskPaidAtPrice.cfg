CONSTANTS
  UnitRange = 256
  LPFee = 3
  PoolDecimals = 1
  BaseDecimals = 0
  QuoteDecimals = 0
  Users = {alice, bob}
  PoolAccount = pool
  TickSize = 1
  LotSize = 1
  MintMinLiquidity = 1
  WithdrawalFee = 0
  StartAsk = 4
  Endowment = 30
  OrderPrices = {8, 12, 15}
  OrderQuantities = {1, 3}
  LiquidityAmounts = {10}
  Burns = {}
  Minimums = {0}
  MaxCalls = 3
SPECIFICATION Spec
PROPERTY AskPaidAtPrice
CHECK_DEADLOCK FALSE
