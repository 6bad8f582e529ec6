---------------------------- MODULE AutoDeleverage ----------------------------
(*****************************************************************************)
(* Auto-deleveraging beside the positions of PerpLedger.  TriggerADL is      *)
(* meant for the moment the insurance fund cannot cover a bankruptcy: it     *)
(* looks among the positions it is given for profitable ones on the other    *)
(* side, asks the Fund program to stop redemptions and counts the event; the *)
(* positions themselves are closed elsewhere.                                *)
(*                                                                           *)
(* The profit it looks at is the one stored in the account.                  *)
(*****************************************************************************)
EXTENDS PerpLedgerProofs

CONSTANTS
    Shortfalls,    \* shortfalls an administrator reports
    FundBalances   \* balances the token account of the fund may show

VARIABLES
    total_adl_count,     \* LedgerConfig.total_adl_count
    is_adl_in_progress   \* the flag in the Fund program's InsuranceFundConfig

adlVars == <<total_adl_count, is_adl_in_progress>>

Opposite(side) == IF side = Long THEN Short ELSE Long

\* The filter of the loop over the accounts given.
IsTarget(id, market, side) ==
    /\ id \in DOMAIN position
    /\ id[2] = market
    /\ position[id].side = side
    /\ position[id].unrealized_pnl > 0

AdlInit ==
    /\ Init
    /\ total_adl_count = 0
    /\ is_adl_in_progress = FALSE

TriggerADL(market, shortfall, bankruptSide, balance, given) ==
    /\ ~ledgerConfig.is_paused
    /\ balance < shortfall
    /\ \E id \in given : IsTarget(id, market, Opposite(bankruptSide))
    /\ is_adl_in_progress' = TRUE
    /\ total_adl_count' = total_adl_count + 1
    /\ UNCHANGED vars

AdlNext ==
    \/ Next /\ UNCHANGED adlVars
    \/ \E market \in Markets, shortfall \in Shortfalls, side \in Sides,
          balance \in FundBalances, given \in SUBSET PositionIds :
            TriggerADL(market, shortfall, side, balance, given)

AdlSpec == AdlInit /\ [][AdlNext]_<<vars, adlVars>>

AdlUntouched == total_adl_count = 0 /\ is_adl_in_progress = FALSE

\* Deleveraging cannot be triggered: whatever positions are open and however large
\* their profit at the current price, the stored unrealized_pnl_e6 is zero in all
\* of them, so TriggerADL refuses every set of targets.
THEOREM AdlNeverTriggers == AdlSpec => []AdlUntouched
<1>1. AdlInit => IndInv /\ AdlUntouched
  BY InitInd DEF AdlInit, AdlUntouched
<1>2. ASSUME IndInv, AdlUntouched, [AdlNext]_<<vars, adlVars>>
      PROVE  (IndInv /\ AdlUntouched)'
  <2>1. CASE UNCHANGED <<vars, adlVars>>
    <3>1. IndInv'
      BY <1>2, <2>1, NextInd
    <3>2. QED
      BY <1>2, <2>1, <3>1 DEF adlVars, AdlUntouched
  <2>2. CASE Next /\ UNCHANGED adlVars
    <3>1. IndInv'
      BY <1>2, <2>2, NextInd
    <3>2. QED
      BY <1>2, <2>2, <3>1 DEF adlVars, AdlUntouched
  <2>3. ASSUME NEW market \in Markets, NEW shortfall \in Shortfalls, NEW side \in Sides,
               NEW balance \in FundBalances, NEW given \in SUBSET PositionIds,
               TriggerADL(market, shortfall, side, balance, given)
        PROVE  FALSE
    <3>1. PICK id \in given : IsTarget(id, market, Opposite(side))
      BY <2>3 DEF TriggerADL
    <3>2. id \in DOMAIN position /\ position[id].unrealized_pnl > 0
      BY <3>1 DEF IsTarget
    <3>3. position[id].unrealized_pnl = 0
      BY <1>2, <3>2 DEF IndInv, PositionsSound, SoundPosition
    <3>4. QED
      BY <3>2, <3>3
  <2>4. QED
    BY <1>2, <2>1, <2>2, <2>3 DEF AdlNext
<1>3. IndInv /\ AdlUntouched => AdlUntouched
  OBVIOUS
<1>4. QED
  BY <1>1, <1>2, <1>3, PTL DEF AdlSpec
=============================================================================
