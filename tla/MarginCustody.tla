----------------------------- MODULE MarginCustody -----------------------------
(****************************************************************************)
(* What the ledger promises about the margin the vault holds for positions: *)
(* a unit locked for a position is claimed by it or left over, a claim is   *)
(* released at most once and to nobody else, what is left over stays, and   *)
(* the insurance fund moves only when the whole claim of one position is    *)
(* seized, paying only if its user gets nothing.  Sizes, prices, fees and   *)
(* statistics do not appear: they decide the amounts of steps.              *)
(****************************************************************************)
EXTENDS Integers

CONSTANT Positions

VARIABLES
    held,       \* per position, what the vault holds locked
    claim,      \* per position, what the position may still release
    residue,    \* per position, what is held and claimed by nobody
    balance,    \* what the users can withdraw, all together
    fund        \* the insurance fund

cvars == <<held, claim, residue, balance, fund>>

CInit ==
    /\ held = [id \in Positions |-> 0]
    /\ claim = [id \in Positions |-> 0]
    /\ residue = [id \in Positions |-> 0]
    /\ balance = 0
    /\ fund = 0

\* Users pay for what is locked, a part of which may go unclaimed from the start.
Lock(id, margin, unclaimed) ==
    /\ margin >= 0
    /\ unclaimed >= 0
    /\ held' = [held EXCEPT ![id] = @ + margin + unclaimed]
    /\ claim' = [claim EXCEPT ![id] = @ + margin]
    /\ residue' = [residue EXCEPT ![id] = @ + unclaimed]
    /\ balance' = balance - margin - unclaimed
    /\ fund' = fund

Release(id, amount) ==
    /\ 0 <= amount
    /\ amount <= claim[id]
    /\ held' = [held EXCEPT ![id] = @ - amount]
    /\ claim' = [claim EXCEPT ![id] = @ - amount]
    /\ UNCHANGED residue

\* A settlement may leave users with less than before, by more than was released.
Settle(id, amount) ==
    /\ Release(id, amount)
    /\ fund' = fund
    /\ balance' \in Int

Seize(id) ==
    /\ Release(id, claim[id])
    /\ balance' >= balance
    /\ fund' < fund => balance' = balance

Abandon(id) ==
    /\ claim' = [claim EXCEPT ![id] = 0]
    /\ residue' = [residue EXCEPT ![id] = @ + claim[id]]
    /\ UNCHANGED <<held, balance, fund>>

\* The amounts are read off the step: nothing else limits them.
CNext ==
    \E id \in Positions :
        \/ Lock(id, claim'[id] - claim[id], residue'[id] - residue[id])
        \/ Settle(id, claim[id] - claim'[id])
        \/ Seize(id)
        \/ Abandon(id)

CSpec == CInit /\ [][CNext]_cvars
=============================================================================
