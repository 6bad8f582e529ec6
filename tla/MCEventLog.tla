------------------------------ MODULE MCEventLog ------------------------------
(* EventLog for one account: two sizes, so that closes are partial or full, and *)
(* mark prices that leave a penalty to take or a shortfall to cover.            *)
EXTENDS EventLog

CONSTANT u1

MCUsers == {u1}
MCMarkets == {0}
MCSizes == {700, 2000}
MCPrices == {1000}
MCMarks == {0, 5000}
MCLeverages == {1, 50}
MCFeeRates == {2}
MCFundingRates == {3}
=============================================================================
