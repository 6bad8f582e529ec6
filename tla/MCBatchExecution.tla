--------------------------- MODULE MCBatchExecution ---------------------------
(* BatchExecution for one user and market, two relayers and two batch ids.  A *)
(* batch holds a trade of unknown type, an open or increase, and a close that *)
(* is full or, after a direct open, partial; it can fail after any of them.   *)
EXTENDS BatchExecution

CONSTANTS r1, r2, b1, b2, u1

MCRelayers == {r1, r2}
MCBatchIds == {b1, b2}
MCUsers == {u1}
MCMarkets == {0}
MCSizes == {700}
MCPrices == {1000}
MCMarks == {0}
MCLeverages == {50}
MCFeeRates == {2}
MCFundingRates == {0}

Trade(type) ==
    [trade_type |-> type, user |-> u1, market |-> 0, side |-> Long, size |-> 700,
     price |-> 1000, leverage |-> 50, fee_rate |-> 2]

MCTradeLists == {<<Trade("OTHER"), Trade("OPEN"), Trade("CLOSE")>>}
=============================================================================
