SPECIFICATION Spec
CONSTANTS
  r1 = r1
  r2 = r2
  r3 = r3
  b1 = b1
  b2 = b2
  t1 = t1
  t2 = t2
  Relayers <- MCRelayers
  BatchIds <- MCBatchIds
  Payloads <- MCPayloads
  MAX_RELAYERS = 2
  MAX_SIGNATURES = 2
  TRADE_BATCH_EXPIRY_SECONDS = 1
  MaxTime = 2
INVARIANT QuorumReachable
CHECK_DEADLOCK FALSE
