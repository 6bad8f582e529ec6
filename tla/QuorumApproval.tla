---------------------------- MODULE QuorumApproval ----------------------------
(****************************************************************************)
(* What the multisig of the ledger promises: relayers vote for the payload  *)
(* of a proposal, all votes of a proposal are for one payload, a payload    *)
(* takes effect only with as many votes of different relayers as the        *)
(* threshold asks for at that moment, and a proposal takes effect at most   *)
(* once.  Two proposals may be for the same payload.  Clocks, expiry,       *)
(* pauses and the relayer set do not appear: they can only prevent steps.   *)
(****************************************************************************)
EXTENDS Integers, FiniteSets

CONSTANTS Relayers, Proposals, Payloads

VARIABLES
    threshold,  \* votes a payload needs
    votes,      \* per proposal, the set of <<relayer, payload>> votes
    decided     \* per proposal, the set of payloads that took effect

avars == <<threshold, votes, decided>>

Voters(p, x) == {r \in Relayers : <<r, x>> \in votes[p]}

AInit ==
    /\ threshold \in Nat \ {0}
    /\ votes = [p \in Proposals |-> {}]
    /\ decided = [p \in Proposals |-> {}]

SetThreshold ==
    /\ threshold' \in Nat \ {0}
    /\ UNCHANGED <<votes, decided>>

Vote(r, p, x) ==
    /\ decided[p] = {}
    /\ \A v \in votes[p] : v[2] = x /\ v[1] # r
    /\ votes' = [votes EXCEPT ![p] = @ \cup {<<r, x>>}]
    /\ UNCHANGED <<threshold, decided>>

Decide(p, x) ==
    /\ decided[p] = {}
    /\ Cardinality(Voters(p, x)) >= threshold
    /\ decided' = [decided EXCEPT ![p] = {x}]
    /\ UNCHANGED <<threshold, votes>>

ANext ==
    \/ SetThreshold
    \/ \E r \in Relayers, p \in Proposals, x \in Payloads : Vote(r, p, x)
    \/ \E p \in Proposals, x \in Payloads : Decide(p, x)

ASpec == AInit /\ [][ANext]_avars
=============================================================================
