----------------------------- MODULE MCPerpLedger -----------------------------
(* PerpLedger on small instances, at the scale of 200 units to one: 5 units    *)
(* are the maintenance rate of 2.5%, 2 units the penalty and fee rate of 1%.   *)
(* One instance follows the account of one user through many different trades, *)
(* the other lets two users trade few different ones on two markets.           *)
EXTENDS PerpLedger, TLC

CONSTANTS u1, u2

MCUser == {u1}
MCUsers == {u1, u2}
MCMarket == {0}
MCMarkets == {0, 1}
MCSizes == {0, 700, 2000}
MCFewSizes == {700}
MCPrices == {900, 1000}
MCFewPrices == {1000}
MCLeverages == {1, 50}
MCFewLeverages == {50}
MCMarks == {0, 1000, 5000}
MCFeeRates == {2}
MCFundingRates == {1}
NoFundingRates == {}
Symmetry == Permutations(MCUsers)
=============================================================================
