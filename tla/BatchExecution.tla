---------------------------- MODULE BatchExecution ----------------------------
(****************************************************************************)
(* ExecuteTradeBatch as the handler runs it: the executed flag is written,  *)
(* then the trades are applied one after the other to the accounts and, by  *)
(* cross-program calls, to the vault; the first that fails undoes it all.   *)
(* RelayerMultisig and PerpLedger meet here: a batch that has its quorum    *)
(* moves positions, and other instructions move them in between.            *)
(*                                                                          *)
(* The runtime locks the accounts an instruction takes.  Every instruction  *)
(* on positions takes LedgerConfig or a position of its own, and those on   *)
(* the relayer set write RelayerConfig, so none of them runs beside an      *)
(* execution; submissions and confirmations of other batches do.            *)
(****************************************************************************)
EXTENDS PerpLedger, Sequences

CONSTANTS
    Relayers, BatchIds, MAX_RELAYERS, MAX_SIGNATURES, TRADE_BATCH_EXPIRY_SECONDS, MaxTime,
    TradeLists,   \* the trades relayers may want applied as one batch
    NoBatch       \* stands for the batch when none is executing

TradeTypes == {"OPEN", "CLOSE", "OTHER"}

TradeData ==
    [trade_type: TradeTypes, user: Users, market: Markets, side: Sides, size: Sizes,
     price: Prices, leverage: Leverages, fee_rate: FeeRates]

\* A batch id is a 64-bit number.
ASSUME TradeListsAssumption ==
    /\ TradeLists \in SUBSET Seq(TradeData)
    /\ IsFiniteSet(BatchIds)
    /\ NoBatch \notin BatchIds
    /\ TRADE_BATCH_EXPIRY_SECONDS \in Nat

VARIABLES
    relayerConfig, tradeBatch, now, endorsements, executions,  \* of RelayerMultisig
    running,       \* the execution in flight: the account of its approval, its batch
                   \* id, its trades, the next of them
    saved,         \* what the runtime restores should it fail
    directTrades   \* history: opens and closes outside batches

multisig == <<relayerConfig, tradeBatch, now, endorsements, executions>>
sysVars == <<vars, multisig, running, saved, directTrades>>

MS == INSTANCE RelayerMultisig WITH
    Payloads <- TradeLists, isPaused <- ledgerConfig.is_paused

NotRunning == [account |-> NoBatch, batch |-> NoBatch, trades |-> <<>>, next |-> 1]

Idle == running = NotRunning

Accounts ==
    [ledgerConfig |-> ledgerConfig, position |-> position, userStats |-> userStats,
     vaultLocked |-> vaultLocked, vaultAvailable |-> vaultAvailable,
     insurance |-> insurance, stranded |-> stranded, settledFees |-> settledFees,
     unbookedPnl |-> unbookedPnl, unknownTrades |-> unknownTrades]

SysInit ==
    /\ Init
    /\ MS!Init
    /\ running = NotRunning
    /\ saved = <<>>
    /\ directTrades = 0

-----------------------------------------------------------------------------
(* Instructions beside and between executions *)

\* The locks of an execution in flight leave these to other batches.
Submit(r, b, hash) ==
    /\ UNCHANGED <<vars, running, saved, directTrades>>
    /\ MS!SubmitTradeBatch(r, b, hash)

Confirm(r, b, hash) ==
    /\ b # running.account
    /\ UNCHANGED <<vars, running, saved, directTrades>>
    /\ MS!ConfirmTradeBatch(r, b, hash)

ChangeRelayers ==
    /\ Idle
    /\ UNCHANGED <<vars, running, saved, directTrades>>
    /\ \/ \E r \in Relayers : MS!AddRelayer(r)
       \/ \E r \in Relayers : MS!RemoveRelayer(r)
       \/ \E n \in 0..MAX_RELAYERS + 1 : MS!UpdateRequiredSignatures(n)
       \/ MS!Tick

Pause(paused) ==
    /\ Idle
    /\ SetPaused(paused)
    /\ UNCHANGED <<multisig, running, saved, directTrades>>

DirectTrade ==
    /\ Idle
    /\ \/ \E u \in Users, m \in Markets, side \in Sides, size \in Sizes, price \in Prices,
             leverage \in Leverages, feeRate \in FeeRates :
                OpenPosition(u, m, side, size, price, leverage, feeRate)
       \/ \E u \in Users, m \in Markets, size \in Sizes, price \in Prices, feeRate \in FeeRates :
                ClosePosition(u, m, size, price, feeRate)
    /\ directTrades' = directTrades + 1
    /\ UNCHANGED <<multisig, running, saved>>

Maintain ==
    /\ Idle
    /\ \/ \E u \in Users : InitializeUserStats(u)
       \/ \E u \in Users, m \in Markets, mark \in Marks : Liquidate(u, m, mark)
       \/ \E u \in Users, m \in Markets, rate \in FundingRates, price \in Prices :
                SettleFunding(u, m, rate, price)
       \/ \E u \in Users, m \in Markets : AdminResetPosition(u, m)
    /\ UNCHANGED <<multisig, running, saved, directTrades>>

-----------------------------------------------------------------------------
(* The execution *)

\* Up to the write of the flag.  The pause is looked at only after it, below.
\* The batch id is compared with the account through the hash only.
Begin(r, a, b, trades) ==
    /\ Idle
    /\ MS!IsAuthorized(r)
    /\ a \in DOMAIN tradeBatch
    /\ ~MS!IsExpired(a)
    /\ ~tradeBatch[a].executed
    /\ MS!HasEnoughSignatures(a)
    /\ MS!VerifyBatchHash(a, b, trades)
    /\ saved' = Accounts
    /\ tradeBatch' = [tradeBatch EXCEPT ![a].executed = TRUE]
    /\ running' = [account |-> a, batch |-> b, trades |-> trades, next |-> 1]
    /\ UNCHANGED <<vars, relayerConfig, now, endorsements, executions, directTrades>>

ApplyTrade(t) ==
    \/ /\ t.trade_type = "OPEN"
       /\ BatchOpen(t.user, t.market, t.side, t.size, t.price, t.leverage, t.fee_rate)
    \/ /\ t.trade_type = "CLOSE"
       /\ BatchClose(t.user, t.market, t.size, t.price, t.fee_rate)
    \/ /\ t.trade_type \notin {"OPEN", "CLOSE"}
       /\ BatchUnknown(t.user, t.size, t.price)

\* Mutant: a trade that fails is skipped.
RunOrSkipTrade ==
    /\ ~Idle
    /\ running.next <= Len(running.trades)
    /\ ApplyTrade(running.trades[running.next]) \/ UNCHANGED vars
    /\ running' = [running EXCEPT !.next = @ + 1]
    /\ UNCHANGED <<multisig, saved, directTrades>>

\* One turn of the loop.
RunTrade ==
    /\ ~Idle
    /\ running.next <= Len(running.trades)
    /\ ApplyTrade(running.trades[running.next])
    /\ running' = [running EXCEPT !.next = @ + 1]
    /\ UNCHANGED <<multisig, saved, directTrades>>

Commit ==
    /\ ~Idle
    /\ running.next > Len(running.trades)
    /\ ~ledgerConfig.is_paused
    /\ MS!Apply(running.account, running.batch, running.trades)
    /\ running' = NotRunning
    /\ saved' = <<>>
    /\ UNCHANGED <<vars, relayerConfig, tradeBatch, now, endorsements, directTrades>>

\* Mutant: calls to other programs are not undone.
RestoreOwnAccounts ==
    /\ ledgerConfig' = saved.ledgerConfig
    /\ position' = saved.position
    /\ userStats' = saved.userStats
    /\ UNCHANGED <<external, history>>

\* The accounts become what they were at the beginning.
Restore ==
    /\ ledgerConfig' = saved.ledgerConfig
    /\ position' = saved.position
    /\ userStats' = saved.userStats
    /\ vaultLocked' = saved.vaultLocked
    /\ vaultAvailable' = saved.vaultAvailable
    /\ insurance' = saved.insurance
    /\ stranded' = saved.stranded
    /\ settledFees' = saved.settledFees
    /\ unbookedPnl' = saved.unbookedPnl
    /\ unknownTrades' = saved.unknownTrades

\* Mutant: the executed flag survives.
RollbackKeepsFlag ==
    /\ ~Idle
    /\ Restore
    /\ running' = NotRunning
    /\ saved' = <<>>
    /\ UNCHANGED <<multisig, directTrades>>

\* The pause, a trade the checks reject, a call the vault refuses or the compute
\* budget of the transaction can end it at any point.
Rollback ==
    /\ ~Idle
    /\ Restore
    /\ tradeBatch' = [tradeBatch EXCEPT ![running.account].executed = FALSE]
    /\ running' = NotRunning
    /\ saved' = <<>>
    /\ UNCHANGED <<relayerConfig, now, endorsements, executions, directTrades>>

Proceed == RunTrade \/ Commit \/ Rollback

SysNext ==
    \/ \E r \in Relayers, b \in BatchIds, h \in MS!Hashes : Submit(r, b, h)
    \/ \E r \in Relayers, b \in BatchIds, h \in MS!Hashes : Confirm(r, b, h)
    \/ ChangeRelayers
    \/ \E paused \in BOOLEAN : Pause(paused)
    \/ DirectTrade
    \/ Maintain
    \/ \E r \in Relayers, a \in BatchIds, b \in BatchIds, t \in TradeLists : Begin(r, a, b, t)
    \/ Proceed

SysSpec == SysInit /\ [][SysNext]_sysVars

-----------------------------------------------------------------------------
(* Properties *)

\* What everybody else sees of the batch accounts.
VisibleBatches ==
    IF Idle THEN tradeBatch
    ELSE [tradeBatch EXCEPT ![running.account].executed = FALSE]

Visible == INSTANCE RelayerMultisig WITH
    Payloads <- TradeLists, isPaused <- ledgerConfig.is_paused, tradeBatch <- VisibleBatches

\* Flag first, trades one by one, commit or rollback, with other batches signed
\* meanwhile: together they are the one step ExecuteTradeBatch is in
\* RelayerMultisig, or no step, so that its properties hold of the whole system.
MultisigImplemented == Visible!Spec

TradesIn(a) == SumFunction([i \in 1..Len(executions[a]) |-> Len(executions[a][i].trades)])

TradesExecuted == SumFunction([a \in BatchIds |-> TradesIn(a)])

TradesCounted(ledger, unknown) ==
    ledger.total_positions_opened + ledger.total_positions_closed + unknown

\* The books hold the trades of whole batches: every trade counted is one of an
\* executed batch, a direct one, or one of the prefix an execution in flight has
\* applied.
WholeBatches ==
    TradesCounted(ledgerConfig, unknownTrades) = directTrades + TradesExecuted + running.next - 1

-----------------------------------------------------------------------------
(* The inductive invariant WholeBatches rests on *)

\* What the runtime would restore holds whole batches only, and the loop does not
\* run past the end of the trades.
CountInv ==
    /\ directTrades \in Nat
    /\ running.next \in Nat
    /\ executions \in [BatchIds -> Seq(MS!ExecutionRecord)]
    /\ WholeBatches
    /\ ~Idle =>
        /\ running.next <= Len(running.trades) + 1
        /\ TradesCounted(saved.ledgerConfig, saved.unknownTrades) = directTrades + TradesExecuted
=============================================================================
