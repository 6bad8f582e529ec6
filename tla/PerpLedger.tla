------------------------------ MODULE PerpLedger ------------------------------
(*****************************************************************************)
(* Perpetual positions: opening, increasing, closing, liquidating, funding   *)
(* and resetting them, with the statistics the ledger keeps of it and the    *)
(* cross-program calls it makes to the Vault and Fund programs.  A           *)
(* transaction is one step; a rejected one changes nothing and is no step.   *)
(*                                                                           *)
(* OpenPosition and ClosePosition are the instructions of that name.         *)
(* BatchOpen, BatchClose and BatchUnknown are the three branches of the loop *)
(* body of ExecuteTradeBatch, which settle the same trades in a slightly     *)
(* different way; each is here the step of a batch of one trade.             *)
(*****************************************************************************)
EXTENDS LedgerMath, FiniteSetsExt

CONSTANTS
    Users,          \* wallets with a vault account
    Markets,        \* market indexes
    Sizes,          \* trade sizes, in 1/E6 contracts
    Prices,         \* trade and index prices
    Marks,          \* mark prices a liquidation is asked for at; the code
                    \* accepts any, 0 too
    Leverages,      \* leverages asked for
    FeeRates,       \* fee rates asked for
    FundingRates,   \* funding rates relayers report
    MaxTrades,      \* bound on the trades and liquidations of a behaviour
    MaxFunding      \* bound on |Position.cumulative_funding_e6|

\* A wallet is a 32-byte key, a market index a byte.
ASSUME FiniteAssumption == IsFiniteSet(Users) /\ IsFiniteSet(Markets)

ASSUME InputAssumption ==
    /\ Sizes \in SUBSET (0..U64 - 1)
    /\ Prices \in SUBSET (0..U64 - 1)
    /\ Marks \in SUBSET (0..U64 - 1)
    /\ Leverages \in SUBSET Nat
    /\ FeeRates \in SUBSET Nat
    /\ FundingRates \in SUBSET Int
    /\ MaxTrades \in Nat
    /\ MaxFunding \in Nat

VARIABLES
    ledgerConfig,   \* LedgerConfig account: the counters and is_paused
    position,       \* Position accounts by <<user, market>>, once created
    userStats,      \* UserStats accounts by user, once created
    vaultLocked,    \* Vault program: per position, the part of the user's
                    \* locked_margin_e6 that was locked for it and not released
    vaultAvailable, \* Vault program: net change of users' available_balance_e6
    insurance,      \* Fund program: net flow into the insurance fund
    stranded,       \* history: per position, margin locked in the vault that
                    \* no Position account accounts for
    settledFees,    \* history: fees deducted from users by settlements
    unbookedPnl,    \* history: profit and loss settled by batch closes, which
                    \* do not book it in UserStats
    unknownTrades   \* history: trades of an unknown type, counted as trades

vars == <<ledgerConfig, position, userStats, vaultLocked, vaultAvailable, insurance,
          stranded, settledFees, unbookedPnl, unknownTrades>>

external == <<vaultLocked, vaultAvailable, insurance>>
history == <<stranded, settledFees, unbookedPnl, unknownTrades>>

PositionIds == Users \X Markets

LedgerConfig ==
    [global_sequence: Nat, total_positions_opened: Nat, total_positions_closed: Nat,
     total_volume: Nat, total_fees_collected: Nat, total_liquidations: Nat,
     is_paused: BOOLEAN]

Position ==
    [side: Sides, size: Nat, entry_price: Nat, margin: Nat, leverage: Nat,
     liquidation_price: Nat, unrealized_pnl: Int, cumulative_funding: Int]

UserStats ==
    [total_trades: Nat, total_volume: Nat, total_realized_pnl: Int,
     total_fees_paid: Nat, total_liquidations: Nat]

IsEmpty(p) == p.size = 0

HasPosition(id) == id \in DOMAIN position /\ ~IsEmpty(position[id])

NewUserStats ==
    [total_trades |-> 0, total_volume |-> 0, total_realized_pnl |-> 0,
     total_fees_paid |-> 0, total_liquidations |-> 0]

\* Mutant: an account that exists is created afresh.
RecreatedStats(u) ==
    [v \in DOMAIN userStats \cup {u} |-> IF v # u THEN userStats[v] ELSE NewUserStats]

\* ensure_user_stats_exists: the UserStats table with an account for u.
EnsuredStats(u) ==
    [v \in DOMAIN userStats \cup {u} |->
        IF v \in DOMAIN userStats THEN userStats[v] ELSE NewUserStats]

Init ==
    /\ ledgerConfig =
        [global_sequence |-> 0, total_positions_opened |-> 0,
         total_positions_closed |-> 0, total_volume |-> 0,
         total_fees_collected |-> 0, total_liquidations |-> 0, is_paused |-> FALSE]
    /\ position = [id \in {} |-> {}]
    /\ userStats = [u \in {} |-> {}]
    /\ vaultLocked = [id \in PositionIds |-> 0]
    /\ vaultAvailable = 0
    /\ insurance = 0
    /\ stranded = [id \in PositionIds |-> 0]
    /\ settledFees = 0
    /\ unbookedPnl = 0
    /\ unknownTrades = 0

InitializeUserStats(u) ==
    /\ u \notin DOMAIN userStats
    /\ userStats' = EnsuredStats(u)
    /\ UNCHANGED <<ledgerConfig, position, external, history>>

Trades ==
    ledgerConfig.total_positions_opened + ledgerConfig.total_positions_closed
      + ledgerConfig.total_liquidations + unknownTrades

-----------------------------------------------------------------------------
(* Opening and increasing *)

ValidOpen(id, side, size, price, leverage, feeRate) ==
    /\ size # 0
    /\ price # 0
    /\ leverage \in 1..MAX_LEVERAGE
    /\ feeRate <= MAX_FEE_RATE
    /\ ~ledgerConfig.is_paused
    /\ id \in DOMAIN position => position[id].side = side

NewPosition(side, size, price, leverage, margin) ==
    [side |-> side, size |-> size, entry_price |-> price, margin |-> margin,
     leverage |-> leverage,
     liquidation_price |-> LiquidationPrice(side, price, leverage),
     unrealized_pnl |-> 0, cumulative_funding |-> 0]

\* Mutant: the margin of an increase replaces the one there is.
IncreasedWithNewMargin(p, size, price, margin) ==
    LET entry == AveragedEntry(p.size, p.entry_price, size, price)
    IN  [p EXCEPT !.size = @ + size,
                  !.entry_price = entry,
                  !.margin = margin,
                  !.liquidation_price = LiquidationPrice(p.side, entry, p.leverage)]

\* Mutant: the liquidation price is left as it was.
IncreasedWithOldLiquidationPrice(p, size, price, margin) ==
    [p EXCEPT !.size = @ + size,
              !.entry_price = AveragedEntry(p.size, p.entry_price, size, price),
              !.margin = @ + margin]

\* update_entry_price and the margin: a position keeps the side and leverage it
\* was created with, also when it had been closed in between.
IncreasedPosition(p, size, price, margin) ==
    LET entry == AveragedEntry(p.size, p.entry_price, size, price)
    IN  [p EXCEPT !.size = @ + size,
                  !.entry_price = entry,
                  !.margin = @ + margin,
                  !.liquidation_price = LiquidationPrice(p.side, entry, p.leverage)]

\* The Position account after an open that adds this margin to it.
SetOpened(id, side, size, price, leverage, margin) ==
    position' = [i \in DOMAIN position \cup {id} |->
        IF i # id THEN position[i]
        ELSE IF id \in DOMAIN position
             THEN IncreasedPosition(position[id], size, price, margin)
             ELSE NewPosition(side, size, price, leverage, margin)]

LockMargin(id, amount) ==
    /\ vaultLocked' = [vaultLocked EXCEPT ![id] = @ + amount]
    /\ vaultAvailable' = vaultAvailable - amount

OpenPosition(u, m, side, size, price, leverage, feeRate) ==
    LET id == <<u, m>>
        fee == Fee(size, price, feeRate)
        toLock == RequiredMargin(size, price, leverage) + fee
    IN  /\ ValidOpen(id, side, size, price, leverage, feeRate)
        /\ Trades < MaxTrades
        /\ SetOpened(id, side, size, price, leverage, toLock)
        /\ LockMargin(id, toLock)
        /\ ledgerConfig' = [ledgerConfig EXCEPT
                !.total_positions_opened = @ + 1,
                !.total_volume = @ + Notional(size, price),
                !.total_fees_collected = @ + fee,
                !.global_sequence = @ + 1]
        /\ userStats' = [EnsuredStats(u) EXCEPT
                ![u].total_trades = @ + 1,
                ![u].total_volume = @ + Notional(size, price),
                ![u].total_fees_paid = @ + fee]
        /\ UNCHANGED <<insurance, history>>

\* A batch locks the fee as well but leaves it out of the position's margin, and
\* books trades and volume in UserStats but no fees.
BatchOpen(u, m, side, size, price, leverage, feeRate) ==
    LET id == <<u, m>>
        fee == Fee(size, price, feeRate)
        margin == RequiredMargin(size, price, leverage)
    IN  /\ ValidOpen(id, side, size, price, leverage, feeRate)
        /\ Trades < MaxTrades
        /\ SetOpened(id, side, size, price, leverage, margin)
        /\ LockMargin(id, margin + fee)
        /\ stranded' = [stranded EXCEPT ![id] = @ + fee]
        /\ ledgerConfig' = [ledgerConfig EXCEPT
                !.total_positions_opened = @ + 1,
                !.total_volume = @ + Notional(size, price),
                !.total_fees_collected = @ + fee,
                !.global_sequence = @ + 1]
        /\ userStats' = [EnsuredStats(u) EXCEPT
                ![u].total_trades = @ + 1,
                ![u].total_volume = @ + Notional(size, price)]
        /\ UNCHANGED <<insurance, settledFees, unbookedPnl, unknownTrades>>

-----------------------------------------------------------------------------
(* Closing *)

ValidClose(id, size, price, feeRate) ==
    /\ size # 0
    /\ price # 0
    /\ feeRate <= MAX_FEE_RATE
    /\ ~ledgerConfig.is_paused
    /\ HasPosition(id)

\* Mutant: the entry price is forgotten.
ClearedButEntry(p) ==
    [p EXCEPT !.size = 0, !.margin = 0, !.liquidation_price = 0, !.unrealized_pnl = 0]

Cleared(p) ==
    [p EXCEPT !.size = 0, !.margin = 0, !.entry_price = 0, !.liquidation_price = 0,
              !.unrealized_pnl = 0]

\* Mutant: what a partial close releases is left in the position's margin.
ReducedKeepingMargin(p, closeSize, release) ==
    IF closeSize >= p.size
    THEN Cleared(p)
    ELSE [p EXCEPT !.size = @ - closeSize,
                   !.liquidation_price = LiquidationPrice(p.side, p.entry_price, p.leverage)]

\* A partial close keeps the entry price and recomputes the liquidation price.
ReducedPosition(p, closeSize, release) ==
    IF closeSize >= p.size
    THEN Cleared(p)
    ELSE [p EXCEPT !.size = @ - closeSize,
                   !.margin = @ - release,
                   !.liquidation_price = LiquidationPrice(p.side, p.entry_price, p.leverage)]

\* What a close of at most size contracts at this price settles.
Settlement(p, size, price, feeRate) ==
    LET closeSize == Lesser(size, p.size)
        pnl == UnrealizedPnl(p.side, p.size, p.entry_price, price)
    IN  [size     |-> closeSize,
         release  |-> MarginToRelease(p.margin, closeSize, p.size),
         realized |-> RealizedPnl(pnl, CloseRatio(closeSize, p.size)),
         fee      |-> Fee(closeSize, price, feeRate)]

\* checked_sub_u64 on the margin: a release above the margin is rejected.
SettleClose(id, s) ==
    /\ s.release <= position[id].margin
    /\ position' = [position EXCEPT ![id] = ReducedPosition(@, s.size, s.release)]
    /\ vaultLocked' = [vaultLocked EXCEPT ![id] = @ - s.release]
    /\ vaultAvailable' = vaultAvailable + s.release + s.realized - s.fee
    /\ settledFees' = settledFees + s.fee

ClosePosition(u, m, size, price, feeRate) ==
    LET id == <<u, m>>
        s == Settlement(position[id], size, price, feeRate)
    IN  /\ ValidClose(id, size, price, feeRate)
        /\ Trades < MaxTrades
        /\ SettleClose(id, s)
        /\ ledgerConfig' = [ledgerConfig EXCEPT
                !.total_positions_closed = @ + 1,
                !.total_volume = @ + Notional(s.size, price),
                !.total_fees_collected = @ + s.fee,
                !.global_sequence = @ + 2]
        /\ userStats' =
            IF u \in DOMAIN userStats
            THEN [userStats EXCEPT
                    ![u].total_trades = @ + 1,
                    ![u].total_volume = @ + Notional(s.size, price),
                    ![u].total_realized_pnl = @ + s.realized,
                    ![u].total_fees_paid = @ + s.fee]
            ELSE userStats
        /\ UNCHANGED <<insurance, stranded, unbookedPnl, unknownTrades>>

\* In a batch the volume is that of the size asked for, not of the size closed,
\* and neither profit nor fee is booked in UserStats.
BatchClose(u, m, size, price, feeRate) ==
    LET id == <<u, m>>
        s == Settlement(position[id], size, price, feeRate)
    IN  /\ ValidClose(id, size, price, feeRate)
        /\ Trades < MaxTrades
        /\ SettleClose(id, s)
        /\ unbookedPnl' = unbookedPnl + s.realized
        /\ ledgerConfig' = [ledgerConfig EXCEPT
                !.total_positions_closed = @ + 1,
                !.total_volume = @ + Notional(size, price),
                !.total_fees_collected = @ + s.fee,
                !.global_sequence = @ + 1]
        /\ userStats' = [EnsuredStats(u) EXCEPT
                ![u].total_trades = @ + 1,
                ![u].total_volume = @ + Notional(size, price)]
        /\ UNCHANGED <<insurance, stranded, unknownTrades>>

\* A trade whose type is neither OPEN nor CLOSE is executed as one that moves
\* nothing; its volume and the trade itself are counted.
BatchUnknown(u, size, price) ==
    /\ ~ledgerConfig.is_paused
    /\ Trades < MaxTrades
    /\ unknownTrades' = unknownTrades + 1
    /\ ledgerConfig' = [ledgerConfig EXCEPT
            !.total_volume = @ + Notional(size, price),
            !.global_sequence = @ + 1]
    /\ userStats' = [EnsuredStats(u) EXCEPT
            ![u].total_trades = @ + 1,
            ![u].total_volume = @ + Notional(size, price)]
    /\ UNCHANGED <<position, external, stranded, settledFees, unbookedPnl>>

-----------------------------------------------------------------------------
(* Liquidation, funding, reset, pause *)

\* Allowed while the ledger is paused.
Liquidate(u, m, mark) ==
    LET id == <<u, m>>
        p == position[id]
        pnl == UnrealizedPnl(p.side, p.size, p.entry_price, mark)
        r == LiquidationResult(p.margin, pnl)
    IN  /\ HasPosition(id)
        /\ ShouldLiquidate(p.side, p.liquidation_price, mark)
        /\ Trades < MaxTrades
        /\ position' = [position EXCEPT ![id] = Cleared(@)]
        /\ vaultLocked' = [vaultLocked EXCEPT ![id] = @ - p.margin]
        /\ vaultAvailable' = vaultAvailable + r.remainder
        /\ insurance' = insurance + r.penalty - r.shortfall
        /\ ledgerConfig' = [ledgerConfig EXCEPT
                !.total_liquidations = @ + 1,
                !.global_sequence = @ + 4]
        /\ userStats' =
            IF u \in DOMAIN userStats
            THEN [userStats EXCEPT
                    ![u].total_liquidations = @ + 1,
                    ![u].total_realized_pnl = @ + pnl]
            ELSE userStats
        /\ UNCHANGED history

\* The payment is only recorded; no call to the vault follows, here or later.
SettleFunding(u, m, rate, indexPrice) ==
    LET id == <<u, m>>
        p == position[id]
        payment == MulE6((p.size * indexPrice) \div E6, rate)
        actual == IF p.side = Long THEN payment ELSE -payment
    IN  /\ HasPosition(id)
        /\ p.cumulative_funding + actual \in -MaxFunding..MaxFunding
        /\ position' = [position EXCEPT ![id].cumulative_funding = @ + actual]
        /\ UNCHANGED <<ledgerConfig, userStats, external, history>>

\* The position is zeroed, the margin stays locked in the vault.
AdminResetPosition(u, m) ==
    LET id == <<u, m>>
    IN  /\ id \in DOMAIN position
        /\ position' = [position EXCEPT ![id] = Cleared(@)]
        /\ stranded' = [stranded EXCEPT ![id] = @ + position[id].margin]
        /\ UNCHANGED <<ledgerConfig, userStats, external, settledFees, unbookedPnl, unknownTrades>>

SetPaused(paused) ==
    /\ ledgerConfig' = [ledgerConfig EXCEPT !.is_paused = paused]
    /\ UNCHANGED <<position, userStats, external, history>>

Next ==
    \/ \E u \in Users : InitializeUserStats(u)
    \/ \E u \in Users, m \in Markets, side \in Sides, size \in Sizes, price \in Prices,
          leverage \in Leverages, feeRate \in FeeRates :
            \/ OpenPosition(u, m, side, size, price, leverage, feeRate)
            \/ BatchOpen(u, m, side, size, price, leverage, feeRate)
    \/ \E u \in Users, m \in Markets, size \in Sizes, price \in Prices, feeRate \in FeeRates :
            \/ ClosePosition(u, m, size, price, feeRate)
            \/ BatchClose(u, m, size, price, feeRate)
    \/ \E u \in Users, size \in Sizes, price \in Prices : BatchUnknown(u, size, price)
    \/ \E u \in Users, m \in Markets, mark \in Marks : Liquidate(u, m, mark)
    \/ \E u \in Users, m \in Markets, rate \in FundingRates, price \in Prices :
            SettleFunding(u, m, rate, price)
    \/ \E u \in Users, m \in Markets : AdminResetPosition(u, m)
    \/ \E paused \in BOOLEAN : SetPaused(paused)

Spec == Init /\ [][Next]_vars

-----------------------------------------------------------------------------
(* Properties *)

\* Every account has the shape its Rust type gives it, and no statistic or
\* margin is negative.
TypeOK ==
    /\ ledgerConfig \in LedgerConfig
    /\ DOMAIN position \in SUBSET PositionIds
    /\ position \in [DOMAIN position -> Position]
    /\ DOMAIN userStats \in SUBSET Users
    /\ userStats \in [DOMAIN userStats -> UserStats]
    /\ vaultLocked \in [PositionIds -> Int]
    /\ vaultAvailable \in Int
    /\ insurance \in Int
    /\ stranded \in [PositionIds -> Nat]
    /\ settledFees \in Nat
    /\ unbookedPnl \in Int
    /\ unknownTrades \in Nat

MarginOf(id) == IF id \in DOMAIN position THEN position[id].margin ELSE 0

\* The vault holds, for every position, exactly the margin the position shows plus
\* what batch opens locked as fees and resets left behind: no sequence of
\* increases, partial closes, liquidations and reopenings of the account releases
\* a unit twice or loses track of one.
MarginAccounted ==
    \A id \in PositionIds : vaultLocked[id] = MarginOf(id) + stranded[id]

\* A position is flat in all its figures or in none: what closes, liquidations
\* and resets leave behind cannot be mistaken for an open position, and an open
\* one always has an entry price to compute profit and loss from.
FlatIsClean ==
    \A id \in DOMAIN position :
        LET p == position[id]
        IN  IF IsEmpty(p)
            THEN p.margin = 0 /\ p.entry_price = 0 /\ p.liquidation_price = 0
            ELSE p.entry_price > 0

\* The liquidation price stored in the account, which is all Liquidate looks at,
\* is the one its current side, entry price and leverage give.
LiquidationPriceFresh ==
    \A id \in DOMAIN position :
        LET p == position[id]
        IN  ~IsEmpty(p) => p.liquidation_price = LiquidationPrice(p.side, p.entry_price, p.leverage)

Custody == INSTANCE MarginCustody WITH
    Positions <- PositionIds,
    held <- vaultLocked,
    claim <- [id \in PositionIds |-> MarginOf(id)],
    residue <- stranded,
    balance <- vaultAvailable,
    fund <- insurance

\* The handlers keep the promises of MarginCustody: what each of them adds to or takes
\* from a position's margin is what it locks, releases or abandons in the vault, and
\* only a liquidation moves the insurance fund.
CustodySpec == Custody!CSpec

Volumes == [u \in DOMAIN userStats |-> userStats[u].total_volume]

TradeCounts == [u \in DOMAIN userStats |-> userStats[u].total_trades]

LiquidationCounts == [u \in DOMAIN userStats |-> userStats[u].total_liquidations]

RealizedPnls == [u \in DOMAIN userStats |-> userStats[u].total_realized_pnl]

\* The global statistics are the sums of the users', although each handler
\* updates both by itself and only some create the account they need.
StatsAgree ==
    /\ ledgerConfig.total_volume = SumFunction(Volumes)
    /\ ledgerConfig.total_positions_opened + ledgerConfig.total_positions_closed
      + unknownTrades = SumFunction(TradeCounts)
    /\ ledgerConfig.total_liquidations = SumFunction(LiquidationCounts)

\* The money agrees with the books: what users' vault accounts and the insurance
\* fund gained together is the profit booked in UserStats, plus that of batch
\* closes, less the fees settled.  In particular the three parts of a
\* liquidation add up.
FlowsMatchBooks ==
    vaultAvailable + SumFunction(vaultLocked) + insurance
      = SumFunction(RealizedPnls) + unbookedPnl - settledFees

-----------------------------------------------------------------------------
(* The inductive invariants: IndInv is what the first four properties rest on, *)
(* with BooksInv it is what the last two rest on                               *)

\* What every handler leaves of a position account.
SoundPosition(p) ==
    /\ p \in Position
    /\ p.leverage \in 1..MAX_LEVERAGE
    /\ p.entry_price < U64
    /\ p.unrealized_pnl = 0
    /\ IF IsEmpty(p)
       THEN p.margin = 0 /\ p.entry_price = 0 /\ p.liquidation_price = 0
       ELSE /\ p.entry_price > 0
            /\ p.liquidation_price = LiquidationPrice(p.side, p.entry_price, p.leverage)

PositionsSound == \A id \in DOMAIN position : SoundPosition(position[id])

IndInv == TypeOK /\ MarginAccounted /\ PositionsSound

\* A user with a position account has a statistics account: the handlers that need
\* one and do not create it, ClosePosition and Liquidate, always find it.
StatsCreated == \A id \in DOMAIN position : id[1] \in DOMAIN userStats

BooksInv ==
    /\ IsFiniteSet(DOMAIN userStats)
    /\ StatsCreated
    /\ StatsAgree
    /\ FlowsMatchBooks

-----------------------------------------------------------------------------
(* What the comments and the README say and the code does not do *)

\* An open position's liquidation price is within a unit of the documented
\* entry * (1 - 1/leverage + mmr) for a long, entry * (1 + 1/leverage - mmr) for
\* a short (doc comment of calculate_liquidation_price).
LiquidationPriceAsDocumented ==
    \A id \in DOMAIN position :
        LET p == position[id]
            distance == E6 \div p.leverage - DEFAULT_MAINTENANCE_MARGIN_RATE
            factor == IF p.side = Long THEN E6 - distance ELSE E6 + distance
        IN  ~IsEmpty(p) => p.liquidation_price - (p.entry_price * factor) \div E6 \in -1..1

\* Every fee counted as collected has been deducted from a user or is at least
\* still withheld in the vault (comment at the lock_margin call of OpenPosition).
FeesCollectedAreTaken ==
    ledgerConfig.total_fees_collected
      <= settledFees + SumFunction(vaultLocked)
=============================================================================
