------------------------------- MODULE EventLog -------------------------------
(*****************************************************************************)
(* What the handlers of PerpLedger write to the transaction log, and what an *)
(* indexer that only reads the log can know: sizes, profit, fees, insurance  *)
(* flows and funding.  Every handler puts its events together by itself,     *)
(* after it has changed the accounts.                                        *)
(*****************************************************************************)
EXTENDS PerpLedger, Sequences

CONSTANT MaxEvents   \* bound on the length of the log

VARIABLE log         \* the events of the transactions that succeeded, in order

PositionEventType ==
    [Opened |-> 0, Increased |-> 1, Decreased |-> 2, Closed |-> 3, Flipped |-> 4,
     Liquidated |-> 5, ADLed |-> 6]

Snapshots == [size: Nat, entry_price: Nat, margin: Nat]

\* Amounts of maker and taker are one here: one of the two is always zero.
TradeEvents ==
    [kind: {"trade"}, sequence: Nat, id: PositionIds, size: Nat, fee: Nat,
     realized_pnl: Int, margin_delta: Int]

PositionEvents ==
    [kind: {"position"}, sequence: Nat, id: PositionIds, event_type: 0..6,
     before: Snapshots, after: Snapshots, size_delta: Int, realized_pnl: Int, fee: Nat,
     related_trade_sequence: Nat]

LiquidationEvents ==
    [kind: {"liquidation"}, sequence: Nat, id: PositionIds, size: Nat, penalty: Nat,
     insurance_payout: Nat, remaining_margin: Nat, realized_pnl: Int]

FundingEvents == [kind: {"funding"}, sequence: {0}, id: PositionIds, payment: Int]

FeeEvents == [kind: {"fee"}, sequence: Nat, id: PositionIds, amount: Nat \ {0}]

InsuranceFundEvents == [kind: {"insurance"}, sequence: Nat, amount: Nat \ {0}]

Events ==
    TradeEvents \cup PositionEvents \cup LiquidationEvents \cup FundingEvents
      \cup FeeEvents \cup InsuranceFundEvents

-----------------------------------------------------------------------------
(* Emitting *)

Emit(events) ==
    /\ Len(log) + Len(events) <= MaxEvents
    /\ log' = log \o events

Snapshot(id) ==
    IF id \in DOMAIN position
    THEN [size |-> position[id].size, entry_price |-> position[id].entry_price,
          margin |-> position[id].margin]
    ELSE [size |-> 0, entry_price |-> 0, margin |-> 0]

\* The event of a handler that reads the account before and after changing it.
PositionEvent(seq, id, type, delta, pnl, fee, related) ==
    [kind |-> "position", sequence |-> seq, id |-> id, event_type |-> type,
     before |-> Snapshot(id), after |-> Snapshot(id)', size_delta |-> delta,
     realized_pnl |-> pnl, fee |-> fee, related_trade_sequence |-> related]

TradeEvent(seq, id, s) ==
    [kind |-> "trade", sequence |-> seq, id |-> id, size |-> s.size, fee |-> s.fee,
     realized_pnl |-> s.realized, margin_delta |-> -s.release]

NextNumber == ledgerConfig.global_sequence

EmitOpened(id, size, fee) ==
    LET type == IF id \in DOMAIN position THEN 1 ELSE 0
    IN  Emit(<<PositionEvent(NextNumber, id, type, size, 0, fee, 0)>>)

\* Mutant: the event of an increase reports the size there is as the change.
EmitBatchOpenedTotal(id, size, price, margin, fee) ==
    LET e == PositionEvent(NextNumber, id, 0, size, 0, fee, NextNumber)
    IN  Emit(<<[e EXCEPT !.size_delta = Snapshot(id)'.size]>>)

\* In a batch the account is not looked at again: before and after an increase
\* the figures are those of the trade alone.
EmitBatchOpened(id, size, price, margin, fee) ==
    LET e == PositionEvent(NextNumber, id, PositionEventType.Opened, size, 0, fee, NextNumber)
    IN  Emit(<<IF id \notin DOMAIN position THEN e
               ELSE [e EXCEPT
                        !.event_type = PositionEventType.Increased,
                        !.before = [size |-> size, entry_price |-> 0, margin |-> margin],
                        !.after = [size |-> size, entry_price |-> price, margin |-> margin]]>>)

\* Mutant: the position event goes by the number of the trade event.
EmitClosedOneNumber(id, s) ==
    LET type == IF IsEmpty(position'[id]) THEN 2 ELSE 3
    IN  Emit(<<PositionEvent(NextNumber + 1, id, type, -s.size, s.realized, s.fee, NextNumber + 1),
               TradeEvent(NextNumber, id, s)>>)

\* Mutant: the position event is linked to itself.
EmitClosedUnlinked(id, s) ==
    LET type == IF IsEmpty(position'[id]) THEN 2 ELSE 3
    IN  Emit(<<PositionEvent(NextNumber, id, type, -s.size, s.realized, s.fee, NextNumber),
               TradeEvent(NextNumber + 1, id, s)>>)

\* The type is a number here, not a name of the enumeration.
EmitClosed(id, s) ==
    LET type == IF IsEmpty(position'[id]) THEN 2 ELSE 3
    IN  Emit(<<PositionEvent(NextNumber, id, type, -s.size, s.realized, s.fee, NextNumber + 1),
               TradeEvent(NextNumber + 1, id, s)>>)

\* The entry price before is read from the account after it was changed.
EmitBatchClosed(id, s) ==
    LET type == IF IsEmpty(position'[id]) THEN PositionEventType.Closed
                ELSE PositionEventType.Decreased
        e == PositionEvent(NextNumber, id, type, -s.size, s.realized, s.fee, NextNumber)
    IN  Emit(<<TradeEvent(NextNumber, id, s),
               [e EXCEPT !.before.entry_price = Snapshot(id)'.entry_price]>>)

\* Mutant: fees of nothing are reported as well.
EmitLiquidatedAlways(id, pnl, r) ==
    LET size == position[id].size
    IN  Emit(<<[kind |-> "liquidation", sequence |-> NextNumber, id |-> id, size |-> size,
                penalty |-> r.penalty, insurance_payout |-> r.shortfall,
                remaining_margin |-> r.remainder, realized_pnl |-> pnl],
               PositionEvent(NextNumber + 1, id, 4, -size, pnl, r.penalty, NextNumber),
               [kind |-> "fee", sequence |-> NextNumber + 2, id |-> id, amount |-> r.penalty],
               [kind |-> "insurance", sequence |-> NextNumber + 3, amount |-> r.penalty]>>)

\* Mutant: a bankruptcy is reported without what the fund paid.
EmitLiquidatedWithoutPayout(id, pnl, r) ==
    LET size == position[id].size
    IN  Emit(<<[kind |-> "liquidation", sequence |-> NextNumber, id |-> id, size |-> size,
                penalty |-> r.penalty, insurance_payout |-> 0,
                remaining_margin |-> r.remainder, realized_pnl |-> pnl],
               PositionEvent(NextNumber + 1, id, 4, -size, pnl, r.penalty, NextNumber)>>
             \o IF r.penalty = 0 THEN <<>>
                ELSE <<[kind |-> "fee", sequence |-> NextNumber + 2, id |-> id,
                        amount |-> r.penalty],
                       [kind |-> "insurance", sequence |-> NextNumber + 3,
                        amount |-> r.penalty]>>)

\* Four numbers are taken, the last two are used if there is a penalty.
EmitLiquidated(id, pnl, r) ==
    LET size == position[id].size
    IN  Emit(<<[kind |-> "liquidation", sequence |-> NextNumber, id |-> id, size |-> size,
                penalty |-> r.penalty, insurance_payout |-> r.shortfall,
                remaining_margin |-> r.remainder, realized_pnl |-> pnl],
               PositionEvent(NextNumber + 1, id, 4, -size, pnl, r.penalty, NextNumber)>>
             \o IF r.penalty = 0 THEN <<>>
                ELSE <<[kind |-> "fee", sequence |-> NextNumber + 2, id |-> id,
                        amount |-> r.penalty],
                       [kind |-> "insurance", sequence |-> NextNumber + 3,
                        amount |-> r.penalty]>>)

EmitFunding(id) ==
    Emit(<<[kind |-> "funding", sequence |-> 0, id |-> id,
            payment |-> position'[id].cumulative_funding - position[id].cumulative_funding]>>)

\* Mutant: a reset is not reported.
EmitNoReset(id) == Emit(<<>>)

EmitReset(id) == Emit(<<PositionEvent(0, id, 5, -position[id].size, 0, 0, 0)>>)

-----------------------------------------------------------------------------
(* The handlers with their events *)

LogInit == Init /\ log = <<>>

LoggedOpen(u, m, side, size, price, leverage, feeRate) ==
    LET id == <<u, m>>
        fee == Fee(size, price, feeRate)
    IN  \/ /\ OpenPosition(u, m, side, size, price, leverage, feeRate)
           /\ EmitOpened(id, size, fee)
        \/ /\ BatchOpen(u, m, side, size, price, leverage, feeRate)
           /\ EmitBatchOpened(id, size, price, RequiredMargin(size, price, leverage), fee)

LoggedClose(u, m, size, price, feeRate) ==
    LET id == <<u, m>>
        s == Settlement(position[id], size, price, feeRate)
    IN  \/ ClosePosition(u, m, size, price, feeRate) /\ EmitClosed(id, s)
        \/ BatchClose(u, m, size, price, feeRate) /\ EmitBatchClosed(id, s)

LoggedLiquidate(u, m, mark) ==
    LET id == <<u, m>>
        p == position[id]
        pnl == UnrealizedPnl(p.side, p.size, p.entry_price, mark)
    IN  Liquidate(u, m, mark) /\ EmitLiquidated(id, pnl, LiquidationResult(p.margin, pnl))

\* An unknown trade takes a number and reports nothing.
Silent ==
    /\ \/ \E u \in Users : InitializeUserStats(u)
       \/ \E u \in Users, size \in Sizes, price \in Prices : BatchUnknown(u, size, price)
       \/ \E paused \in BOOLEAN : SetPaused(paused)
    /\ UNCHANGED log

LogNext ==
    \/ \E u \in Users, m \in Markets, side \in Sides, size \in Sizes, price \in Prices,
          leverage \in Leverages, feeRate \in FeeRates :
            LoggedOpen(u, m, side, size, price, leverage, feeRate)
    \/ \E u \in Users, m \in Markets, size \in Sizes, price \in Prices, feeRate \in FeeRates :
            LoggedClose(u, m, size, price, feeRate)
    \/ \E u \in Users, m \in Markets, mark \in Marks : LoggedLiquidate(u, m, mark)
    \/ \E u \in Users, m \in Markets, rate \in FundingRates, price \in Prices :
            SettleFunding(u, m, rate, price) /\ EmitFunding(<<u, m>>)
    \/ \E u \in Users, m \in Markets : AdminResetPosition(u, m) /\ EmitReset(<<u, m>>)
    \/ Silent

LogSpec == LogInit /\ [][LogNext]_<<vars, log>>

-----------------------------------------------------------------------------
(* Properties: what an indexer can conclude *)

LogTypeOK == log \in Seq(Events)

Of(kind) == {i \in 1..Len(log) : log[i].kind = kind}

About(id, kind) == {i \in Of(kind) : log[i].id = id}

SizeDeltas(id) == [i \in About(id, "position") |-> log[i].size_delta]

Payments(id) == [i \in About(id, "funding") |-> log[i].payment]

\* The changes reported add up to what the account holds: sizes through increases,
\* partial closes, liquidations and resets on both paths, funding through all of
\* them.
DeltasRebuildPositions ==
    \A id \in DOMAIN position :
        /\ SumFunction(SizeDeltas(id)) = position[id].size
        /\ SumFunction(Payments(id)) = position[id].cumulative_funding

ReportedPnls == [i \in Of("position") |-> log[i].realized_pnl]

TradeFees == [i \in {j \in Of("position") : log[j].event_type # 4} |-> log[i].fee]

FundIncome == [i \in Of("insurance") |-> log[i].amount]

FundPayouts == [i \in Of("liquidation") |-> log[i].insurance_payout]

\* The log accounts for the money: profit reported is what UserStats book plus what
\* batch closes leave out of them, fees reported on trades are those counted as
\* collected, and the fund's flow is the income reported to it less the payouts
\* of liquidations.
MoneyReported ==
    /\ SumFunction(ReportedPnls) = SumFunction(RealizedPnls) + unbookedPnl
    /\ SumFunction(TradeFees) = ledgerConfig.total_fees_collected
    /\ SumFunction(FundIncome) - SumFunction(FundPayouts) = insurance

\* Numbers other than 0, which resets and funding carry, never run backwards, and no
\* two events of a kind have the same, so an indexer can order and deduplicate by
\* kind and number.
NumbersIncrease ==
    \A i, j \in 1..Len(log) :
        i < j /\ log[j].sequence # 0 =>
            /\ log[i].sequence <= log[j].sequence
            /\ log[i].kind = log[j].kind => log[i].sequence < log[j].sequence

\* The number a close or liquidation gives as its trade is that of an event of the
\* same position with the same size and profit.
ClosesLinked ==
    \A i \in Of("position") :
        LET e == log[i]
        IN  e.event_type \in {2, 3, 4} =>
                \E j \in About(e.id, "trade") \cup About(e.id, "liquidation") :
                    /\ log[j].sequence = e.related_trade_sequence
                    /\ log[j].size = -e.size_delta
                    /\ log[j].realized_pnl = e.realized_pnl

\* The event of an increase in a batch, recognizable from its empty entry price.
IsApproximate(e) == e.size_delta > 0 /\ e.before.size > 0 /\ e.before.entry_price = 0

LastOf(S) == CHOOSE i \in S : \A j \in S : j <= i

\* The last snapshot of a position is the account, whichever handler wrote it, unless
\* it is of an increase in a batch; the next event of any other sort mends it.
SnapshotsRebuildMost ==
    \A id \in DOMAIN position :
        LET e == log[LastOf(About(id, "position"))]
        IN  IsApproximate(e) \/ e.after = Snapshot(id)

-----------------------------------------------------------------------------
(* The inductive invariant *)

\* Every number in the log has been taken from the ledger.
NumbersTaken ==
    \A i \in 1..Len(log) : log[i].sequence = 0 \/ log[i].sequence < NextNumber

\* The accounts there are, and no others, have been reported.
AccountsReported ==
    /\ DOMAIN position = {log[i].id : i \in Of("position")}
    /\ \A i \in Of("funding") : log[i].id \in DOMAIN position

\* Every account has a last event, and that shows it, approximately or exactly.
LastShown ==
    \A id \in DOMAIN position : \E i \in About(id, "position") :
        /\ \A j \in About(id, "position") : j <= i
        /\ IsApproximate(log[i]) \/ log[i].after = Snapshot(id)

LogInv ==
    /\ LogTypeOK
    /\ NumbersTaken /\ NumbersIncrease
    /\ ClosesLinked
    /\ AccountsReported /\ LastShown /\ DeltasRebuildPositions
    /\ MoneyReported

-----------------------------------------------------------------------------
(* What events.rs says and the handlers do not do *)

\* The last snapshot of a position is the account (doc comment of PositionEvent).
SnapshotsRebuildPositions ==
    \A id \in DOMAIN position : log[LastOf(About(id, "position"))].after = Snapshot(id)
=============================================================================
