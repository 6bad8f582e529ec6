----------------------------- MODULE MCSpotRecords -----------------------------
(* SpotRecords with two relayers and two trades, alone and as one batch, up to *)
(* the saturation of the sequence.                                             *)
EXTENDS SpotRecords, TLC

CONSTANTS r1, r2

MCRelayers == {r1, r2}
MCSpotTrades == {[quote_amount |-> 5, fee |-> 1], [quote_amount |-> 7, fee |-> 0]}
MCTradeLists ==
    LET t1 == [quote_amount |-> 5, fee |-> 1]
        t2 == [quote_amount |-> 7, fee |-> 0]
    IN  {<<t1>>, <<t2>>, <<t1, t2>>}
Symmetry == Permutations(MCRelayers)
=============================================================================
