SPECIFICATION Spec
CONSTANTS
  u1 = u1
  u2 = u2
  Users <- MCUsers
  Markets <- MCMarkets
  Sizes <- MCSizes
  Prices <- MCPrices
  Marks <- MCMarks
  Leverages <- MCLeverages
  FeeRates <- MCFeeRates
  FundingRates <- MCFundingRates
  MaxTrades = 3
  MaxFunding = 15
  E6 = 200
  U64 = 1000000000
  MAX_LEVERAGE = 100
  MAX_FEE_RATE = 2
  DEFAULT_MAINTENANCE_MARGIN_RATE = 5
  LIQUIDATION_PENALTY_RATE = 2
INVARIANT FeesCollectedAreTaken
CHECK_DEADLOCK FALSE
