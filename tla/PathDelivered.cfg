SPECIFICATION Spec
CONSTANTS
  Assets <- ThreeAssets
  Native = 0
  FirstAsset = 2
  Users = {alice, bob}
  FeeAccount = fees
  PoolSetupFee = 1
  AccountDeposit = 4
  LpTokenRange = 3
  Endowment = 20
  Offers <- SomeOffers
  MintMinLiquidity = 1
  UnitRange = 256
  LPFee = 3
  PoolDecimals = 0
  BaseDecimals = 0
  QuoteDecimals = 0
  MaxSwapPathLength = 3
  Paths <- SomePaths
  Pairs <- SomePairs
  PoolMetadata <- SomeMetadata
  SwapAmounts = {3}
  Limits <- AnyLimit
  MaxCalls = 5
CHECK_DEADLOCK FALSE
PROPERTY PathDelivered
