SPECIFICATION SysSpec
CONSTANTS
  r1 = r1
  r2 = r2
  b1 = b1
  b2 = b2
  u1 = u1
  NoBatch = NoBatch
  Relayers <- MCRelayers
  BatchIds <- MCBatchIds
  TradeLists <- MCTradeLists
  MAX_RELAYERS = 1
  MAX_SIGNATURES = 2
  TRADE_BATCH_EXPIRY_SECONDS = 0
  MaxTime = 1
  Users <- MCUsers
  Markets <- MCMarkets
  Sizes <- MCSizes
  Prices <- MCPrices
  Marks <- MCMarks
  Leverages <- MCLeverages
  FeeRates <- MCFeeRates
  FundingRates <- MCFundingRates
  MaxTrades = 4
  MaxFunding = 0
  E6 = 200
  U64 = 1000000000
  MAX_LEVERAGE = 100
  MAX_FEE_RATE = 2
  DEFAULT_MAINTENANCE_MARGIN_RATE = 5
  LIQUIDATION_PENALTY_RATE = 2
INVARIANTS
  WholeBatches
  MarginAccounted
PROPERTIES
  MultisigImplemented
CHECK_DEADLOCK FALSE
