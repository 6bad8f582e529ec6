-------------------------- MODULE MCRelayerMultisig --------------------------
(* RelayerMultisig on a small instance: three keys compete for two relayer    *)
(* slots and two signature slots, two batch ids, two payloads.                *)
EXTENDS RelayerMultisig, TLC

CONSTANTS r1, r2, r3, b1, b2, t1, t2

MCRelayers == {r1, r2, r3}
MCBatchIds == {b1, b2}
MCPayloads == {t1, t2}
Symmetry == Permutations(MCRelayers) \cup Permutations(MCBatchIds) \cup Permutations(MCPayloads)
=============================================================================
