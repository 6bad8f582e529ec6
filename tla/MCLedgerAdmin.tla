---------------------------- MODULE MCLedgerAdmin ----------------------------
(* LedgerAdmin with three keys, two programs and one user on two markets, whose *)
(* margin one vault pools.                                                      *)
EXTENDS LedgerAdmin, TLC

CONSTANTS k1, k2, k3, p1, p2, u1

MCKeys == {k1, k2, k3}
MCPrograms == {p1, p2}
MCUsers == {u1}
MCMarkets == {0, 1}

Symmetric == Permutations(MCKeys) \cup Permutations(MCPrograms)
=============================================================================
