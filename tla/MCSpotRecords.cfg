SPECIFICATION Spec
CONSTANTS
  r1 = r1
  r2 = r2
  Relayers <- MCRelayers
  SpotTrades <- MCSpotTrades
  TradeLists <- MCTradeLists
  MaxSequence = 4
  MaxSent = 3
SYMMETRY Symmetry
INVARIANTS
  TypeOK
  RecordedOnce
  RecordsComplete
  NextAddressFree
  TotalsOfRecords
CHECK_DEADLOCK FALSE
