--------------------------- MODULE PerpLedgerProofs ---------------------------
(*****************************************************************************)
(* Theorems about PerpLedger, for any users, markets, inputs, rates and      *)
(* scale, in four parts: facts about the fixed-point arithmetic; the         *)
(* inductive invariant of the accounts and the theorems it gives; PerpLedger *)
(* implements MarginCustody; and the books.  The books are sums over         *)
(* accounts, and each handler changes one account: SumTheorems says what     *)
(* that does to a sum.                                                       *)
(*****************************************************************************)
EXTENDS PerpLedger, SumTheorems

-----------------------------------------------------------------------------
(* Division *)

\* What the quotient of a division by a positive number is.
LEMMA DivFacts ==
    ASSUME NEW a \in Int, NEW b \in Nat \ {0}
    PROVE  /\ a \div b \in Int
           /\ a >= 0 => a \div b \in Nat
           /\ b * (a \div b) <= a
           /\ a < b * (a \div b) + b
  BY Z3

\* Division truncated towards zero is of the sign of the dividend and never larger.
LEMMA TruncDivFacts ==
    ASSUME NEW a \in Int, NEW b \in Nat \ {0}
    PROVE  /\ TruncDiv(a, b) \in Int
           /\ a >= 0 => /\ TruncDiv(a, b) \in Nat
                        /\ b * TruncDiv(a, b) <= a
                        /\ a < b * TruncDiv(a, b) + b
           /\ a <= 0 => TruncDiv(a, b) <= 0
  BY DivFacts DEF TruncDiv

LEMMA AsU64Type ==
    ASSUME NEW n \in Int
    PROVE  AsU64(n) \in Nat /\ (n \in 0..U64 - 1 => AsU64(n) = n)
  BY ScaleAssumption, Z3 DEF AsU64

LEMMA ProductType ==
    ASSUME NEW a \in Nat, NEW b \in Nat
    PROVE  a * b \in Nat
  BY Z3

-----------------------------------------------------------------------------
(* Amounts are never negative *)

LEMMA MulE6Facts ==
    ASSUME NEW a \in Int, NEW b \in Int
    PROVE  /\ MulE6(a, b) \in Int
           /\ a * b >= 0 => MulE6(a, b) \in Nat /\ E6 * MulE6(a, b) <= a * b
           /\ a * b <= 0 => MulE6(a, b) <= 0
<1>1. a * b \in Int
  OBVIOUS
<1>2. QED
  BY <1>1, TruncDivFacts, ScaleAssumption DEF MulE6

LEMMA MulE6OfNats ==
    ASSUME NEW a \in Nat, NEW b \in Nat
    PROVE  MulE6(a, b) \in Nat /\ E6 * MulE6(a, b) <= a * b
<1>1. a * b >= 0
  BY Z3
<1>2. QED
  BY <1>1, MulE6Facts

LEMMA MulE6ByNegative ==
    ASSUME NEW a \in Nat, NEW b \in Int, b <= 0
    PROVE  MulE6(a, b) \in Int /\ MulE6(a, b) <= 0
<1>1. a * b <= 0
  BY Z3
<1>2. QED
  BY <1>1, MulE6Facts

LEMMA NotionalType ==
    ASSUME NEW size \in Nat, NEW price \in Nat
    PROVE  Notional(size, price) \in Nat
<1>1. (size * price) \div E6 \in Nat
  BY ProductType, DivFacts, ScaleAssumption
<1>2. QED
  BY <1>1, AsU64Type DEF Notional

LEMMA RequiredMarginType ==
    ASSUME NEW size \in Nat, NEW price \in Nat, NEW leverage \in Nat \ {0}
    PROVE  RequiredMargin(size, price, leverage) \in Nat
<1>1. (size * price) \div leverage \in Nat
  BY ProductType, DivFacts
<1>2. ((size * price) \div leverage) \div E6 \in Nat
  BY <1>1, DivFacts, ScaleAssumption
<1>3. QED
  BY <1>2, AsU64Type DEF RequiredMargin

LEMMA FeeType ==
    ASSUME NEW size \in Nat, NEW price \in Nat, NEW feeRate \in Nat
    PROVE  Fee(size, price, feeRate) \in Nat
<1>1. size * price * feeRate \in Nat
  BY ProductType
<1>2. E6 * E6 \in Nat \ {0}
  BY ScaleAssumption, Z3
<1>3. (size * price * feeRate) \div (E6 * E6) \in Nat
  BY <1>1, <1>2, DivFacts
<1>4. QED
  BY <1>3, AsU64Type DEF Fee

LEMMA UnrealizedPnlType ==
    ASSUME NEW side \in Sides, NEW size \in Nat, NEW entry \in Nat, NEW mark \in Nat
    PROVE  UnrealizedPnl(side, size, entry, mark) \in Int
<1> DEFINE diff == IF side = Long THEN mark - entry ELSE entry - mark
<1>1. diff \in Int
  OBVIOUS
<1>2. MulE6(diff, size) \in Int
  <2> HIDE DEF diff
  <2>1. QED
    BY <1>1, MulE6Facts
<1>3. QED
  BY <1>2 DEF UnrealizedPnl

LEMMA LiquidationFactorType ==
    ASSUME NEW side \in Sides, NEW leverage \in Nat \ {0}
    PROVE  LiquidationFactor(side, leverage) \in Int
<1>1. DivE6(E6, leverage) \in Int
  <2>1. E6 * E6 \in Int
    BY ScaleAssumption
  <2>2. QED
    BY <2>1, TruncDivFacts DEF DivE6
<1>2. DEFAULT_MAINTENANCE_MARGIN_RATE \in Int
  BY RateAssumption
<1>3. QED
  BY <1>1, <1>2, ScaleAssumption DEF LiquidationFactor

LEMMA LiquidationPriceType ==
    ASSUME NEW side \in Sides, NEW entry \in Nat, NEW leverage \in Nat \ {0}
    PROVE  LiquidationPrice(side, entry, leverage) \in Nat
<1>1. MulE6(entry, LiquidationFactor(side, leverage)) \in Int
  BY LiquidationFactorType, MulE6Facts
<1>2. QED
  BY <1>1 DEF LiquidationPrice

-----------------------------------------------------------------------------
(* Entry price of an increased position *)

\* The average of prices above zero and below 2^64 is above zero and below 2^64, so
\* the cast of update_entry_price to u64 keeps it: an increase cannot produce a
\* position without an entry price.
LEMMA AveragedEntryBounds ==
    ASSUME NEW size \in Nat, NEW entry \in Nat, entry < U64, size > 0 => entry > 0,
           NEW addSize \in Nat \ {0}, NEW addPrice \in 1..U64 - 1
    PROVE  AveragedEntry(size, entry, addSize, addPrice) \in 1..U64 - 1
<1> DEFINE total == size * entry + addSize * addPrice
           n == size + addSize
           avg == total \div n
<1>0. U64 \in Nat \ {0}
  BY ScaleAssumption
<1>1. n \in Nat \ {0} /\ size * entry \in Nat /\ addSize * addPrice \in Nat /\ total \in Nat
  BY <1>0, ProductType
<1>2. total >= n
  <2>1. size * entry >= size
    BY Z3
  <2>2. addSize * addPrice >= addSize
    BY <1>0, Z3
  <2>3. QED
    BY <1>1, <2>1, <2>2
<1>3. total <= n * (U64 - 1)
  <2>1. size * entry <= size * (U64 - 1)
    BY <1>0, Z3
  <2>2. addSize * addPrice <= addSize * (U64 - 1)
    BY <1>0, Z3
  <2>3. n * (U64 - 1) = size * (U64 - 1) + addSize * (U64 - 1)
    BY <1>0, Z3
  <2>4. size * (U64 - 1) \in Int /\ addSize * (U64 - 1) \in Int
    BY <1>0
  <2>5. QED
    BY <1>1, <2>1, <2>2, <2>3, <2>4
<1>4. avg \in Nat /\ n * avg <= total /\ total < n * avg + n
  <2> HIDE DEF total, n
  <2>1. QED
    BY <1>1, DivFacts
<1>5. avg >= 1
  <2>1. avg # 0
    <3>1. avg = 0 => n * avg = 0
      BY <1>1
    <3> HIDE DEF avg, total, n
    <3>2. QED
      BY <1>1, <1>2, <1>4, <3>1
  <2> HIDE DEF avg
  <2>2. QED
    BY <1>4, <2>1
<1>6. avg <= U64 - 1
  <2> HIDE DEF avg, total, n
  <2>1. n * avg <= n * (U64 - 1)
    <3>1. n * avg \in Int /\ n * (U64 - 1) \in Int
      BY <1>0, <1>1, <1>4
    <3>2. QED
      BY <1>1, <1>3, <1>4, <3>1
  <2>2. QED
    BY <1>0, <1>1, <1>4, <2>1, Z3
<1>7. QED
  <2> HIDE DEF avg, total, n
  <2>1. avg \in 1..U64 - 1 /\ AsU64(avg) = avg
    BY <1>0, <1>4, <1>5, <1>6, AsU64Type
  <2>2. AveragedEntry(size, entry, addSize, addPrice) = AsU64(avg)
    BY DEF AveragedEntry, avg, total, n
  <2>3. QED
    BY <2>1, <2>2

-----------------------------------------------------------------------------
(* What a close releases *)

\* A close releases no more than the margin of the position, so the checked
\* subtraction of a partial close never rejects it.
LEMMA ReleaseBounded ==
    ASSUME NEW margin \in Nat, NEW closeSize \in Nat, NEW size \in Nat \ {0}
    PROVE  MarginToRelease(margin, closeSize, size) \in 0..margin
<1>1. CASE closeSize >= size
  BY <1>1 DEF MarginToRelease
<1>2. CASE closeSize < size
  <2> DEFINE ratio == CloseRatio(closeSize, size)
  <2>1. closeSize * E6 \in Nat /\ closeSize * E6 <= size * E6
    BY <1>2, ScaleAssumption, ProductType, Z3
  <2>2. ratio \in Nat /\ size * ratio <= closeSize * E6
    BY <2>1, TruncDivFacts DEF CloseRatio, DivE6
  <2> HIDE DEF ratio
  <2>3. ratio <= E6
    <3>1. size * ratio <= size * E6
      <4>1. size * ratio \in Nat /\ size * E6 \in Nat
        BY <2>2, ProductType, ScaleAssumption
      <4>2. QED
        BY <2>1, <2>2, <4>1
    <3>2. QED
      BY <2>2, <3>1, ScaleAssumption, Z3
  <2>4. margin * ratio \in Nat /\ margin * ratio <= margin * E6
    BY <2>2, <2>3, ScaleAssumption, ProductType, Z3
  <2> DEFINE release == MulE6(margin, ratio)
  <2>5. release \in Nat /\ E6 * release <= margin * ratio
    BY <2>2, MulE6OfNats
  <2> HIDE DEF release
  <2>6. release <= margin
    <3>1. E6 * release <= E6 * margin
      <4>1. E6 * release \in Nat /\ E6 * margin = margin * E6 /\ margin * E6 \in Nat
        BY <2>5, ProductType, ScaleAssumption
      <4>2. QED
        BY <2>4, <2>5, <4>1
    <3>2. QED
      BY <2>5, <3>1, ScaleAssumption, Z3
  <2>7. MarginToRelease(margin, closeSize, size) = release
    BY <1>2 DEF MarginToRelease, release, ratio
  <2>8. QED
    BY <2>5, <2>6, <2>7
<1>3. QED
  BY <1>1, <1>2

-----------------------------------------------------------------------------
(* The split of a liquidated margin *)

\* The three parts of calculate_liquidation_result are never negative and account
\* for the margin and the profit or loss of the position to the last unit: what
\* the user gets back and the insurance fund receives, less what it covers.
THEOREM LiquidationSplit ==
    ASSUME NEW margin \in Nat, NEW pnl \in Int
    PROVE  LET r == LiquidationResult(margin, pnl)
           IN  /\ r.remainder \in Nat /\ r.penalty \in Nat /\ r.shortfall \in Nat
               /\ r.remainder + r.penalty - r.shortfall = margin + pnl
               /\ r.shortfall > 0 => r.remainder = 0 /\ r.penalty = 0
<1> DEFINE total == margin + pnl
           penalty == MulE6(total, LIQUIDATION_PENALTY_RATE)
<1>1. total \in Int /\ penalty \in Int
  BY MulE6Facts, RateAssumption
<1>2. CASE total <= 0
  <2>1. LiquidationResult(margin, pnl) = [remainder |-> 0, penalty |-> 0, shortfall |-> -total]
    BY <1>2 DEF LiquidationResult
  <2>2. QED
    BY <1>1, <1>2, <2>1
<1>3. CASE total > 0
  <2> HIDE DEF total
  <2>1. total * LIQUIDATION_PENALTY_RATE \in Nat
        /\ total * LIQUIDATION_PENALTY_RATE <= total * E6
    BY <1>1, <1>3, RateAssumption, ScaleAssumption, ProductType, Z3
  <2>2. penalty \in Nat /\ E6 * penalty <= total * LIQUIDATION_PENALTY_RATE
    <3>1. total \in Nat /\ LIQUIDATION_PENALTY_RATE \in Nat
      BY <1>1, <1>3, RateAssumption, ScaleAssumption
    <3>2. QED
      BY <3>1, MulE6OfNats
  <2> HIDE DEF penalty
  <2>3. penalty <= total
    <3>1. E6 * penalty <= E6 * total
      <4>1. E6 * penalty \in Int /\ E6 * total = total * E6 /\ total * E6 \in Int
        BY <1>1, <2>2, ScaleAssumption
      <4>2. QED
        BY <2>1, <2>2, <4>1
    <3>2. QED
      BY <1>1, <2>2, <3>1, ScaleAssumption, Z3
  <2>4. LiquidationResult(margin, pnl) =
            [remainder |-> total - penalty, penalty |-> penalty, shortfall |-> 0]
    BY <1>1, <1>3, <2>3 DEF LiquidationResult, total, penalty
  <2>5. margin + pnl = total
    BY DEF total
  <2>6. QED
    BY <1>1, <1>3, <2>2, <2>3, <2>4, <2>5
<1>4. QED
  BY <1>1, <1>2, <1>3

-----------------------------------------------------------------------------
(* The liquidation price of a long *)

\* calculate_liquidation_price scales 1/leverage twice: for every scale of at least
\* twice the highest leverage (10^6 against 100 in the code), the price it computes
\* for a long is below zero and replaced by zero, whatever the entry price.
THEOREM LongLiquidationPriceIsZero ==
    ASSUME NEW entry \in Nat, NEW leverage \in 1..MAX_LEVERAGE, E6 >= 2 * MAX_LEVERAGE
    PROVE  LiquidationPrice(Long, entry, leverage) = 0
<1> DEFINE inv == DivE6(E6, leverage)
           factor == LiquidationFactor(Long, leverage)
<1>0. E6 \in Nat \ {0} /\ MAX_LEVERAGE \in Nat \ {0} /\ leverage \in Nat \ {0}
  BY ScaleAssumption, RateAssumption
<1>1. E6 * E6 \in Nat
  BY <1>0
<1>2. inv \in Int /\ E6 * E6 < leverage * inv + leverage
  BY <1>0, <1>1, TruncDivFacts DEF DivE6
<1>3. inv >= 2 * E6
  <2> HIDE DEF inv
  <2>1. E6 * E6 >= leverage * (2 * E6)
    <3>1. E6 >= 2 * leverage
      BY <1>0
    <3>2. QED
      BY <1>0, <3>1, Z3
  <2>2. leverage * (2 * E6) < leverage * (inv + 1)
    <3>1. leverage * (inv + 1) = leverage * inv + leverage
      BY <1>0, <1>2
    <3>2. leverage * (2 * E6) \in Int /\ leverage * inv \in Int
      BY <1>0, <1>2
    <3>3. QED
      BY <1>0, <1>1, <1>2, <2>1, <3>1, <3>2
  <2>3. 2 * E6 < inv + 1
    BY <1>0, <1>2, <2>2, Z3
  <2>4. QED
    BY <1>0, <1>2, <2>3
<1>4. factor \in Int /\ factor <= 0
  <2>1. factor = E6 - inv + DEFAULT_MAINTENANCE_MARGIN_RATE
    BY DEF LiquidationFactor
  <2>2. DEFAULT_MAINTENANCE_MARGIN_RATE \in Int /\ DEFAULT_MAINTENANCE_MARGIN_RATE <= E6
    BY RateAssumption, ScaleAssumption
  <2> HIDE DEF inv, factor
  <2>3. QED
    BY <1>0, <1>2, <1>3, <2>1, <2>2
<1>5. MulE6(entry, factor) \in Int /\ MulE6(entry, factor) <= 0
  <2> HIDE DEF factor
  <2>1. QED
    BY <1>4, MulE6ByNegative
<1>6. QED
  BY <1>5 DEF LiquidationPrice

-----------------------------------------------------------------------------
(* What the handlers do to a position account *)

LEMMA NewPositionSound ==
    ASSUME NEW side \in Sides, NEW size \in Nat \ {0}, NEW price \in 1..U64 - 1,
           NEW leverage \in 1..MAX_LEVERAGE, NEW margin \in Nat
    PROVE  /\ SoundPosition(NewPosition(side, size, price, leverage, margin))
           /\ NewPosition(side, size, price, leverage, margin).margin = margin
<1>1. leverage \in Nat \ {0} /\ price \in Nat /\ price < U64
  BY RateAssumption, ScaleAssumption
<1>2. LiquidationPrice(side, price, leverage) \in Nat
  BY <1>1, LiquidationPriceType
<1>3. QED
  BY <1>1, <1>2 DEF NewPosition, SoundPosition, Position, IsEmpty

LEMMA IncreasedPositionSound ==
    ASSUME NEW p, SoundPosition(p), NEW size \in Nat \ {0}, NEW price \in 1..U64 - 1,
           NEW margin \in Nat
    PROVE  /\ SoundPosition(IncreasedPosition(p, size, price, margin))
           /\ IncreasedPosition(p, size, price, margin).margin = p.margin + margin
<1> DEFINE entry == AveragedEntry(p.size, p.entry_price, size, price)
<1>1. p \in Position /\ p.leverage \in Nat \ {0}
  BY RateAssumption DEF SoundPosition, Position
<1>2. entry \in 1..U64 - 1
  <2>1. p.size \in Nat /\ p.entry_price \in Nat /\ p.entry_price < U64
    BY DEF SoundPosition, Position
  <2>2. p.size > 0 => p.entry_price > 0
    BY <2>1 DEF SoundPosition, IsEmpty
  <2>3. QED
    BY <2>1, <2>2, AveragedEntryBounds
<1> HIDE DEF entry
<1>3. entry \in Nat /\ entry > 0 /\ entry < U64
  BY <1>2, ScaleAssumption
<1>4. LiquidationPrice(p.side, entry, p.leverage) \in Nat
  BY <1>1, <1>3, LiquidationPriceType DEF Position
<1>5. IncreasedPosition(p, size, price, margin) =
        [p EXCEPT !.size = @ + size, !.entry_price = entry, !.margin = @ + margin,
                  !.liquidation_price = LiquidationPrice(p.side, entry, p.leverage)]
  BY DEF IncreasedPosition, entry
<1>6. p.size + size \in Nat \ {0} /\ p.margin + margin \in Nat
  BY <1>1 DEF Position
<1> DEFINE q == IncreasedPosition(p, size, price, margin)
<1>7. /\ q \in Position /\ q.margin = p.margin + margin /\ q.size \in Nat \ {0}
      /\ q.side = p.side /\ q.leverage = p.leverage /\ q.unrealized_pnl = p.unrealized_pnl
      /\ q.entry_price = entry
      /\ q.liquidation_price = LiquidationPrice(p.side, entry, p.leverage)
  BY <1>1, <1>3, <1>4, <1>5, <1>6 DEF Position
<1> HIDE DEF q
<1>8. SoundPosition(q)
  BY <1>3, <1>7 DEF SoundPosition, IsEmpty
<1>9. QED
  BY <1>7, <1>8 DEF q

LEMMA ClearedSound ==
    ASSUME NEW p, SoundPosition(p)
    PROVE  SoundPosition(Cleared(p)) /\ Cleared(p).margin = 0
<1>1. U64 > 0 /\ p \in Position
  BY ScaleAssumption DEF SoundPosition
<1>2. QED
  BY <1>1 DEF Cleared, SoundPosition, Position, IsEmpty

\* A close takes out of the margin exactly what it releases.
LEMMA ReducedPositionSound ==
    ASSUME NEW p, SoundPosition(p), ~IsEmpty(p), NEW closeSize \in Nat
    PROVE  LET release == MarginToRelease(p.margin, closeSize, p.size)
               q == ReducedPosition(p, closeSize, release)
           IN  /\ release \in Nat
               /\ SoundPosition(q)
               /\ q.margin = p.margin - release
<1> DEFINE release == MarginToRelease(p.margin, closeSize, p.size)
<1>1. p \in Position /\ p.size \in Nat \ {0} /\ p.margin \in Nat /\ p.leverage \in Nat \ {0}
  BY RateAssumption DEF SoundPosition, Position, IsEmpty
<1>2. release \in 0..p.margin
  BY <1>1, ReleaseBounded
<1>3. CASE closeSize >= p.size
  <2>1. release = p.margin
    BY <1>3 DEF MarginToRelease
  <2>2. QED
    BY <1>1, <1>3, <2>1, ClearedSound DEF ReducedPosition
<1>4. CASE closeSize < p.size
  <2> DEFINE price == LiquidationPrice(p.side, p.entry_price, p.leverage)
  <2> HIDE DEF release, price
  <2>1. ReducedPosition(p, closeSize, release) =
            [p EXCEPT !.size = @ - closeSize, !.margin = @ - release,
                      !.liquidation_price = price]
    BY <1>1, <1>4 DEF ReducedPosition, price
  <2>2. p.size - closeSize \in Nat \ {0} /\ p.margin - release \in Nat
    BY <1>1, <1>2, <1>4
  <2>3. price \in Nat
    BY <1>1, LiquidationPriceType DEF Position, price
  <2>4. SoundPosition(ReducedPosition(p, closeSize, release))
    BY <1>1, <2>1, <2>2, <2>3 DEF SoundPosition, Position, IsEmpty, price
  <2>5. ReducedPosition(p, closeSize, release).margin = p.margin - release
    BY <1>1, <2>1 DEF Position
  <2>6. QED
    BY <1>2, <2>4, <2>5 DEF release
<1>5. QED
  BY <1>1, <1>3, <1>4

LEMMA FundedSound ==
    ASSUME NEW p, SoundPosition(p), NEW payment \in Int
    PROVE  LET q == [p EXCEPT !.cumulative_funding = @ + payment]
           IN  SoundPosition(q) /\ q.margin = p.margin
  BY DEF SoundPosition, Position, IsEmpty

-----------------------------------------------------------------------------
(* The two halves of the state: accounts of positions, and books *)

AccountsTyped ==
    /\ DOMAIN position \in SUBSET PositionIds
    /\ position \in [DOMAIN position -> Position]
    /\ vaultLocked \in [PositionIds -> Int]
    /\ stranded \in [PositionIds -> Nat]

BooksTyped ==
    /\ ledgerConfig \in LedgerConfig
    /\ DOMAIN userStats \in SUBSET Users
    /\ userStats \in [DOMAIN userStats -> UserStats]
    /\ vaultAvailable \in Int
    /\ insurance \in Int
    /\ settledFees \in Nat
    /\ unbookedPnl \in Int
    /\ unknownTrades \in Nat

AccountsInv == AccountsTyped /\ MarginAccounted /\ PositionsSound

LEMMA Halves == IndInv <=> AccountsInv /\ BooksTyped
  BY DEF IndInv, TypeOK, AccountsInv, AccountsTyped, BooksTyped

LEMMA HalvesPrimed == AccountsInv' /\ BooksTyped' => IndInv'
  BY DEF IndInv, TypeOK, AccountsInv, AccountsTyped, BooksTyped

\* The account of id becomes q, locked more units are locked in the vault for it,
\* and left more of them are accounted for by no position.
Changed(id, q, locked, left) ==
    /\ SoundPosition(q)
    /\ q.margin = MarginOf(id) + locked - left
    /\ position' = [i \in DOMAIN position \cup {id} |-> IF i = id THEN q ELSE position[i]]
    /\ vaultLocked' = [vaultLocked EXCEPT ![id] = @ + locked]
    /\ stranded' = [stranded EXCEPT ![id] = @ + left]

\* A handler that changes one account keeps the accounts in order if what it adds
\* to the margin is what it locks and does not leave stranded.
LEMMA AccountChanged ==
    ASSUME AccountsInv, NEW id \in PositionIds, NEW q,
           NEW locked \in Int, NEW left \in Nat, Changed(id, q, locked, left)
    PROVE  AccountsInv'
<1> USE DEF Changed
<1>1. AccountsTyped'
  <2>1. q \in Position
    BY DEF SoundPosition
  <2>2. position' \in [DOMAIN position' -> Position] /\ DOMAIN position' \in SUBSET PositionIds
    BY <2>1 DEF AccountsInv, AccountsTyped
  <2>3. vaultLocked' \in [PositionIds -> Int] /\ stranded' \in [PositionIds -> Nat]
    BY DEF AccountsInv, AccountsTyped
  <2>4. QED
    BY <2>2, <2>3 DEF AccountsTyped
<1>2. PositionsSound'
  <2> SUFFICES ASSUME NEW i \in DOMAIN position' PROVE SoundPosition(position'[i])
    BY DEF PositionsSound, SoundPosition, IsEmpty
  <2>1. CASE i = id
    BY <2>1
  <2>2. CASE i # id
    BY <2>2 DEF AccountsInv, PositionsSound
  <2>3. QED
    BY <2>1, <2>2
<1>3. MarginAccounted'
  <2> SUFFICES ASSUME NEW i \in PositionIds
               PROVE  vaultLocked'[i] = MarginOf(i)' + stranded'[i]
    BY DEF MarginAccounted
  <2>1. vaultLocked[i] = MarginOf(i) + stranded[i]
    BY DEF AccountsInv, MarginAccounted
  <2>2. CASE i = id
    <3>1. MarginOf(i)' = q.margin
      BY <2>2 DEF MarginOf
    <3>2. vaultLocked'[i] = vaultLocked[i] + locked /\ stranded'[i] = stranded[i] + left
      BY <2>2 DEF AccountsInv, AccountsTyped
    <3>3. MarginOf(i) \in Int /\ vaultLocked[i] \in Int /\ stranded[i] \in Int
      BY DEF AccountsInv, AccountsTyped, MarginOf, Position
    <3>4. QED
      BY <2>1, <2>2, <3>1, <3>2, <3>3
  <2>3. CASE i # id
    <3>1. MarginOf(i)' = MarginOf(i)
      BY <2>3 DEF MarginOf
    <3>2. vaultLocked'[i] = vaultLocked[i] /\ stranded'[i] = stranded[i]
      BY <2>3 DEF AccountsInv, AccountsTyped
    <3>3. QED
      BY <2>1, <3>1, <3>2
  <2>4. QED
    BY <2>2, <2>3
<1>4. QED
  BY <1>1, <1>2, <1>3 DEF AccountsInv

LEMMA AccountsFramed ==
    AccountsInv /\ UNCHANGED <<position, vaultLocked, stranded>> => AccountsInv'
  BY DEF AccountsInv, AccountsTyped, MarginAccounted, MarginOf, PositionsSound,
     SoundPosition, IsEmpty

\* Adding nothing changes nothing, in the shape AccountChanged asks for.
LEMMA NothingAdded ==
    ASSUME NEW S, NEW f \in [S -> Int], NEW i \in S
    PROVE  f = [f EXCEPT ![i] = @ + 0]
  OBVIOUS

\* The statistics stay of their type when those of one user become new ones.
LEMMA StatsChanged ==
    ASSUME BooksTyped, NEW u \in Users, NEW new \in UserStats,
           userStats' = [EnsuredStats(u) EXCEPT ![u] = new]
    PROVE  DOMAIN userStats' \in SUBSET Users /\ userStats' \in [DOMAIN userStats' -> UserStats]
<1>1. NewUserStats \in UserStats
  BY DEF NewUserStats, UserStats
<1>2. QED
  BY <1>1 DEF BooksTyped, EnsuredStats

LEMMA EnsuredStatsType ==
    ASSUME BooksTyped, NEW u \in Users
    PROVE  /\ u \in DOMAIN EnsuredStats(u)
           /\ EnsuredStats(u)[u] \in UserStats
<1>1. NewUserStats \in UserStats
  BY DEF NewUserStats, UserStats
<1>2. QED
  BY <1>1 DEF BooksTyped, EnsuredStats

-----------------------------------------------------------------------------
(* Opening *)

\* The account of id is sound and has this much margin more.
OpenedTo(id, margin) ==
    \E q : /\ SoundPosition(q)
           /\ q.margin = MarginOf(id) + margin
           /\ position' = [i \in DOMAIN position \cup {id} |-> IF i = id THEN q ELSE position[i]]

LEMMA OpenedAccount ==
    ASSUME AccountsInv, NEW id \in PositionIds, NEW side \in Sides,
           NEW size \in Sizes, NEW price \in Prices, NEW leverage \in Leverages,
           NEW feeRate \in FeeRates, NEW margin \in Nat,
           ValidOpen(id, side, size, price, leverage, feeRate),
           SetOpened(id, side, size, price, leverage, margin)
    PROVE  OpenedTo(id, margin)
<1> DEFINE q == IF id \in DOMAIN position
                THEN IncreasedPosition(position[id], size, price, margin)
                ELSE NewPosition(side, size, price, leverage, margin)
<1>1. size \in Nat \ {0} /\ price \in 1..U64 - 1 /\ leverage \in 1..MAX_LEVERAGE
  BY InputAssumption, ScaleAssumption DEF ValidOpen
<1>2. SoundPosition(q) /\ q.margin = MarginOf(id) + margin
  <2>1. CASE id \in DOMAIN position
    <3>1. SoundPosition(position[id])
      BY <2>1 DEF AccountsInv, PositionsSound
    <3>2. QED
      BY <1>1, <2>1, <3>1, IncreasedPositionSound DEF MarginOf
  <2>2. CASE id \notin DOMAIN position
    BY <1>1, <2>2, NewPositionSound DEF MarginOf
  <2>3. QED
    BY <2>1, <2>2
<1>3. position' = [i \in DOMAIN position \cup {id} |-> IF i = id THEN q ELSE position[i]]
  BY DEF SetOpened
<1>4. QED
  BY <1>2, <1>3 DEF OpenedTo

LEMMA TradeAmounts ==
    ASSUME NEW size \in Sizes, NEW price \in Prices, NEW feeRate \in FeeRates,
           NEW leverage \in Nat \ {0}
    PROVE  /\ Fee(size, price, feeRate) \in Nat
           /\ RequiredMargin(size, price, leverage) \in Nat
           /\ Notional(size, price) \in Nat
<1>1. size \in Nat /\ price \in Nat /\ feeRate \in Nat
  BY InputAssumption, ScaleAssumption
<1>2. QED
  BY <1>1, FeeType, RequiredMarginType, NotionalType

LEMMA OpenPositionInd ==
    ASSUME IndInv, NEW u \in Users, NEW m \in Markets, NEW side \in Sides,
           NEW size \in Sizes, NEW price \in Prices, NEW leverage \in Leverages,
           NEW feeRate \in FeeRates,
           OpenPosition(u, m, side, size, price, leverage, feeRate)
    PROVE  IndInv'
<1> DEFINE id == <<u, m>>
           fee == Fee(size, price, feeRate)
           toLock == RequiredMargin(size, price, leverage) + fee
           volume == Notional(size, price)
           old == EnsuredStats(u)[u]
           new == [old EXCEPT !.total_trades = @ + 1, !.total_volume = @ + volume,
                              !.total_fees_paid = @ + fee]
<1>1. AccountsInv /\ BooksTyped /\ id \in PositionIds
  BY Halves DEF PositionIds
<1>2. ValidOpen(id, side, size, price, leverage, feeRate)
  BY DEF OpenPosition
<1>3. fee \in Nat /\ toLock \in Nat /\ volume \in Nat
  <2>1. leverage \in Nat \ {0}
    BY <1>2, RateAssumption DEF ValidOpen
  <2>2. fee \in Nat /\ RequiredMargin(size, price, leverage) \in Nat /\ volume \in Nat
    BY <2>1, TradeAmounts
  <2> HIDE DEF fee
  <2>3. QED
    BY <2>2
<1>4. PICK q : /\ SoundPosition(q)
               /\ q.margin = MarginOf(id) + toLock
               /\ position' = [i \in DOMAIN position \cup {id} |->
                                  IF i = id THEN q ELSE position[i]]
  <2>1. SetOpened(id, side, size, price, leverage, toLock)
    BY DEF OpenPosition
  <2>2. OpenedTo(id, toLock)
    BY <1>1, <1>2, <1>3, <2>1, OpenedAccount
  <2>3. QED
    BY <2>2 DEF OpenedTo
<1>5. stranded' = [stranded EXCEPT ![id] = @ + 0]
  <2>1. stranded' = stranded /\ stranded \in [PositionIds -> Int]
    BY <1>1 DEF OpenPosition, history, AccountsInv, AccountsTyped
  <2>2. QED
    BY <1>1, <2>1, NothingAdded
<1>6. ledgerConfig' = [ledgerConfig EXCEPT
        !.total_positions_opened = @ + 1, !.total_volume = @ + volume,
        !.total_fees_collected = @ + fee, !.global_sequence = @ + 1]
  BY DEF OpenPosition
<1>7. /\ vaultLocked' = [vaultLocked EXCEPT ![id] = @ + toLock]
      /\ vaultAvailable' = vaultAvailable - toLock
      /\ UNCHANGED <<insurance, settledFees, unbookedPnl, unknownTrades>>
  BY DEF OpenPosition, LockMargin, history
<1>8. old \in UserStats /\ u \in DOMAIN EnsuredStats(u)
  BY <1>1, EnsuredStatsType
<1>9. userStats' = [EnsuredStats(u) EXCEPT ![u] = new]
  BY <1>8 DEF OpenPosition, UserStats
<1> HIDE DEF id, fee, toLock, volume
<1>10. Changed(id, q, toLock, 0)
  <2>1. q.margin = MarginOf(id) + toLock - 0
    BY <1>3, <1>4 DEF SoundPosition, Position
  <2>2. QED
    BY <1>4, <1>5, <1>7, <2>1 DEF Changed
<1>11. AccountsInv'
  BY <1>1, <1>3, <1>10, AccountChanged
<1>12. BooksTyped'
  <2>1. ledgerConfig' \in LedgerConfig
    <3>1. /\ ledgerConfig.total_positions_opened + 1 \in Nat
          /\ ledgerConfig.total_volume + volume \in Nat
          /\ ledgerConfig.total_fees_collected + fee \in Nat
          /\ ledgerConfig.global_sequence + 1 \in Nat
      BY <1>1, <1>3 DEF BooksTyped, LedgerConfig
    <3>2. QED
      BY <1>1, <1>6, <3>1 DEF BooksTyped, LedgerConfig
  <2>2. new \in UserStats
    <3> HIDE DEF old
    <3>1. /\ old.total_trades + 1 \in Nat
          /\ old.total_volume + volume \in Nat
          /\ old.total_fees_paid + fee \in Nat
      BY <1>3, <1>8 DEF UserStats
    <3>2. QED
      BY <1>8, <3>1 DEF UserStats
  <2>3. vaultAvailable' \in Int
    BY <1>1, <1>3, <1>7 DEF BooksTyped
  <2> HIDE DEF new
  <2>4. DOMAIN userStats' \in SUBSET Users /\ userStats' \in [DOMAIN userStats' -> UserStats]
    BY <1>1, <1>9, <2>2, StatsChanged
  <2>5. QED
    BY <1>1, <1>7, <2>1, <2>3, <2>4 DEF BooksTyped
<1>13. QED
  BY <1>11, <1>12, HalvesPrimed

LEMMA BatchOpenInd ==
    ASSUME IndInv, NEW u \in Users, NEW m \in Markets, NEW side \in Sides,
           NEW size \in Sizes, NEW price \in Prices, NEW leverage \in Leverages,
           NEW feeRate \in FeeRates,
           BatchOpen(u, m, side, size, price, leverage, feeRate)
    PROVE  IndInv'
<1> DEFINE id == <<u, m>>
           fee == Fee(size, price, feeRate)
           margin == RequiredMargin(size, price, leverage)
           volume == Notional(size, price)
           old == EnsuredStats(u)[u]
           new == [old EXCEPT !.total_trades = @ + 1, !.total_volume = @ + volume]
<1>1. AccountsInv /\ BooksTyped /\ id \in PositionIds
  BY Halves DEF PositionIds
<1>2. ValidOpen(id, side, size, price, leverage, feeRate)
  BY DEF BatchOpen
<1>3. fee \in Nat /\ margin \in Nat /\ volume \in Nat
  <2>1. leverage \in Nat \ {0}
    BY <1>2, RateAssumption DEF ValidOpen
  <2>2. QED
    BY <2>1, TradeAmounts
<1>4. PICK q : /\ SoundPosition(q)
               /\ q.margin = MarginOf(id) + margin
               /\ position' = [i \in DOMAIN position \cup {id} |->
                                  IF i = id THEN q ELSE position[i]]
  <2>1. SetOpened(id, side, size, price, leverage, margin)
    BY DEF BatchOpen
  <2>2. OpenedTo(id, margin)
    BY <1>1, <1>2, <1>3, <2>1, OpenedAccount
  <2>3. QED
    BY <2>2 DEF OpenedTo
<1>5. ledgerConfig' = [ledgerConfig EXCEPT
        !.total_positions_opened = @ + 1, !.total_volume = @ + volume,
        !.total_fees_collected = @ + fee, !.global_sequence = @ + 1]
  BY DEF BatchOpen
<1>6. /\ vaultLocked' = [vaultLocked EXCEPT ![id] = @ + (margin + fee)]
      /\ stranded' = [stranded EXCEPT ![id] = @ + fee]
      /\ vaultAvailable' = vaultAvailable - (margin + fee)
      /\ UNCHANGED <<insurance, settledFees, unbookedPnl, unknownTrades>>
  BY DEF BatchOpen, LockMargin
<1>7. old \in UserStats /\ u \in DOMAIN EnsuredStats(u)
  BY <1>1, EnsuredStatsType
<1>8. userStats' = [EnsuredStats(u) EXCEPT ![u] = new]
  BY <1>7 DEF BatchOpen, UserStats
<1> HIDE DEF id, fee, margin, volume
<1>9. Changed(id, q, margin + fee, fee)
  <2>1. q.margin = MarginOf(id) + (margin + fee) - fee
    <3>1. MarginOf(id) \in Int
      BY <1>1 DEF AccountsInv, AccountsTyped, MarginOf, Position
    <3>2. QED
      BY <1>3, <1>4, <3>1
  <2>2. QED
    BY <1>4, <1>6, <2>1 DEF Changed
<1>10. AccountsInv'
  <2>1. margin + fee \in Int
    BY <1>3
  <2>2. QED
    BY <1>1, <1>3, <1>9, <2>1, AccountChanged
<1>11. BooksTyped'
  <2>1. ledgerConfig' \in LedgerConfig
    <3>1. /\ ledgerConfig.total_positions_opened + 1 \in Nat
          /\ ledgerConfig.total_volume + volume \in Nat
          /\ ledgerConfig.total_fees_collected + fee \in Nat
          /\ ledgerConfig.global_sequence + 1 \in Nat
      BY <1>1, <1>3 DEF BooksTyped, LedgerConfig
    <3>2. QED
      BY <1>1, <1>5, <3>1 DEF BooksTyped, LedgerConfig
  <2>2. new \in UserStats
    <3> HIDE DEF old
    <3>1. old.total_trades + 1 \in Nat /\ old.total_volume + volume \in Nat
      BY <1>3, <1>7 DEF UserStats
    <3>2. QED
      BY <1>7, <3>1 DEF UserStats
  <2>3. vaultAvailable' \in Int
    BY <1>1, <1>3, <1>6 DEF BooksTyped
  <2> HIDE DEF new
  <2>4. DOMAIN userStats' \in SUBSET Users /\ userStats' \in [DOMAIN userStats' -> UserStats]
    BY <1>1, <1>8, <2>2, StatsChanged
  <2>5. QED
    BY <1>1, <1>6, <2>1, <2>3, <2>4 DEF BooksTyped
<1>12. QED
  BY <1>10, <1>11, HalvesPrimed

-----------------------------------------------------------------------------
(* Closing *)

LEMMA SettlementTypes ==
    ASSUME NEW p \in Position, ~IsEmpty(p), NEW size \in Sizes, NEW price \in Prices,
           NEW feeRate \in FeeRates
    PROVE  LET s == Settlement(p, size, price, feeRate)
           IN  /\ s.size \in Nat
               /\ s.release = MarginToRelease(p.margin, s.size, p.size)
               /\ s.realized \in Int
               /\ s.fee \in Nat
               /\ Notional(s.size, price) \in Nat
<1> DEFINE closeSize == Lesser(size, p.size)
           pnl == UnrealizedPnl(p.side, p.size, p.entry_price, price)
           ratio == CloseRatio(closeSize, p.size)
<1>1. /\ size \in Nat /\ price \in Nat /\ feeRate \in Nat
      /\ p.side \in Sides /\ p.size \in Nat \ {0} /\ p.entry_price \in Nat
  BY InputAssumption, ScaleAssumption DEF Position, IsEmpty
<1>2. closeSize \in Nat
  BY <1>1 DEF Lesser
<1>3. pnl \in Int
  BY <1>1, UnrealizedPnlType
<1>4. ratio \in Int
  <2> HIDE DEF closeSize
  <2>1. closeSize * E6 \in Int
    BY <1>2, ScaleAssumption
  <2>2. QED
    BY <1>1, <2>1, TruncDivFacts DEF CloseRatio, DivE6
<1> HIDE DEF closeSize, pnl, ratio
<1>5. RealizedPnl(pnl, ratio) \in Int
  BY <1>3, <1>4, MulE6Facts DEF RealizedPnl
<1>6. Fee(closeSize, price, feeRate) \in Nat /\ Notional(closeSize, price) \in Nat
  BY <1>1, <1>2, FeeType, NotionalType
<1>7. Settlement(p, size, price, feeRate) =
        [size |-> closeSize, release |-> MarginToRelease(p.margin, closeSize, p.size),
         realized |-> RealizedPnl(pnl, ratio), fee |-> Fee(closeSize, price, feeRate)]
  BY DEF Settlement, closeSize, pnl, ratio
<1>8. QED
  BY <1>2, <1>5, <1>6, <1>7

\* The account after SettleClose, in the shape AccountChanged asks for.
LEMMA ClosedAccount ==
    ASSUME AccountsInv, NEW id \in PositionIds, HasPosition(id), NEW s,
           s.size \in Nat,
           s.release = MarginToRelease(position[id].margin, s.size, position[id].size),
           SettleClose(id, s), stranded' = stranded
    PROVE  s.release \in Nat /\ \E q : Changed(id, q, -s.release, 0)
<1> DEFINE p == position[id]
           q == ReducedPosition(p, s.size, s.release)
<1>1. SoundPosition(p) /\ ~IsEmpty(p) /\ id \in DOMAIN position
  BY DEF AccountsInv, PositionsSound, HasPosition
<1>2. s.release \in Nat /\ SoundPosition(q) /\ q.margin = p.margin - s.release
  BY <1>1, ReducedPositionSound
<1>3. position' = [i \in DOMAIN position \cup {id} |-> IF i = id THEN q ELSE position[i]]
  <2>1. position' = [position EXCEPT ![id] = q]
    BY DEF SettleClose
  <2> HIDE DEF q
  <2>2. QED
    BY <1>1, <2>1 DEF AccountsInv, AccountsTyped
<1> HIDE DEF q
<1>4. vaultLocked' = [vaultLocked EXCEPT ![id] = @ + (-s.release)]
  <2>1. vaultLocked[id] - s.release = vaultLocked[id] + (-s.release)
    BY <1>2 DEF AccountsInv, AccountsTyped
  <2>2. QED
    BY <2>1 DEF SettleClose
<1>5. stranded' = [stranded EXCEPT ![id] = @ + 0]
  BY NothingAdded DEF AccountsInv, AccountsTyped
<1>6. q.margin = MarginOf(id) + (-s.release) - 0
  BY <1>1, <1>2 DEF MarginOf, SoundPosition, Position
<1>7. QED
  BY <1>2, <1>3, <1>4, <1>5, <1>6 DEF Changed

LEMMA ClosePositionInd ==
    ASSUME IndInv, NEW u \in Users, NEW m \in Markets, NEW size \in Sizes,
           NEW price \in Prices, NEW feeRate \in FeeRates,
           ClosePosition(u, m, size, price, feeRate)
    PROVE  IndInv'
<1> DEFINE id == <<u, m>>
           s == Settlement(position[id], size, price, feeRate)
           volume == Notional(s.size, price)
           old == userStats[u]
           new == [old EXCEPT !.total_trades = @ + 1, !.total_volume = @ + volume,
                              !.total_realized_pnl = @ + s.realized,
                              !.total_fees_paid = @ + s.fee]
<1>1. AccountsInv /\ BooksTyped /\ id \in PositionIds
  BY Halves DEF PositionIds
<1>2. HasPosition(id) /\ SettleClose(id, s)
  BY DEF ClosePosition, ValidClose
<1>3. /\ s.size \in Nat /\ s.realized \in Int /\ s.fee \in Nat /\ volume \in Nat
      /\ s.release = MarginToRelease(position[id].margin, s.size, position[id].size)
  <2>1. position[id] \in Position /\ ~IsEmpty(position[id])
    BY <1>1, <1>2 DEF AccountsInv, AccountsTyped, HasPosition
  <2>2. QED
    BY <2>1, SettlementTypes
<1>4. ledgerConfig' = [ledgerConfig EXCEPT
        !.total_positions_closed = @ + 1, !.total_volume = @ + volume,
        !.total_fees_collected = @ + s.fee, !.global_sequence = @ + 2]
  BY DEF ClosePosition
<1>5. UNCHANGED <<insurance, stranded, unbookedPnl, unknownTrades>>
  BY DEF ClosePosition
<1>6. userStats' = IF u \in DOMAIN userStats THEN [userStats EXCEPT ![u] = new] ELSE userStats
  <2>1. u \in DOMAIN userStats => old \in UserStats
    BY <1>1 DEF BooksTyped
  <2>2. QED
    BY <1>1, <2>1 DEF ClosePosition, BooksTyped, UserStats
<1>7. /\ vaultAvailable' = vaultAvailable + s.release + s.realized - s.fee
      /\ settledFees' = settledFees + s.fee
  BY <1>2 DEF SettleClose
<1> HIDE DEF id, s, volume
<1>8. s.release \in Nat /\ \E q : Changed(id, q, -s.release, 0)
  BY <1>1, <1>2, <1>3, <1>5, ClosedAccount
<1>9. AccountsInv'
  <2>1. -s.release \in Int /\ 0 \in Nat
    BY <1>8
  <2>2. QED
    BY <1>1, <1>8, <2>1, AccountChanged
<1>10. BooksTyped'
  <2>1. ledgerConfig' \in LedgerConfig
    <3>1. /\ ledgerConfig.total_positions_closed + 1 \in Nat
          /\ ledgerConfig.total_volume + volume \in Nat
          /\ ledgerConfig.total_fees_collected + s.fee \in Nat
          /\ ledgerConfig.global_sequence + 2 \in Nat
      BY <1>1, <1>3 DEF BooksTyped, LedgerConfig
    <3>2. QED
      BY <1>1, <1>4, <3>1 DEF BooksTyped, LedgerConfig
  <2>2. u \in DOMAIN userStats => new \in UserStats
    <3> SUFFICES ASSUME u \in DOMAIN userStats PROVE new \in UserStats
      OBVIOUS
    <3>1. old \in UserStats
      BY <1>1 DEF BooksTyped
    <3> HIDE DEF old
    <3>2. /\ old.total_trades + 1 \in Nat
          /\ old.total_volume + volume \in Nat
          /\ old.total_realized_pnl + s.realized \in Int
          /\ old.total_fees_paid + s.fee \in Nat
      BY <1>3, <3>1 DEF UserStats
    <3>3. QED
      BY <3>1, <3>2 DEF UserStats
  <2>3. vaultAvailable' \in Int /\ settledFees' \in Nat
    BY <1>1, <1>3, <1>7, <1>8 DEF BooksTyped
  <2> HIDE DEF new
  <2>4. DOMAIN userStats' \in SUBSET Users /\ userStats' \in [DOMAIN userStats' -> UserStats]
    BY <1>1, <1>6, <2>2 DEF BooksTyped
  <2>5. QED
    BY <1>1, <1>5, <2>1, <2>3, <2>4 DEF BooksTyped
<1>11. QED
  BY <1>9, <1>10, HalvesPrimed

LEMMA BatchCloseInd ==
    ASSUME IndInv, NEW u \in Users, NEW m \in Markets, NEW size \in Sizes,
           NEW price \in Prices, NEW feeRate \in FeeRates,
           BatchClose(u, m, size, price, feeRate)
    PROVE  IndInv'
<1> DEFINE id == <<u, m>>
           s == Settlement(position[id], size, price, feeRate)
           volume == Notional(size, price)
           old == EnsuredStats(u)[u]
           new == [old EXCEPT !.total_trades = @ + 1, !.total_volume = @ + volume]
<1>1. AccountsInv /\ BooksTyped /\ id \in PositionIds
  BY Halves DEF PositionIds
<1>2. HasPosition(id) /\ SettleClose(id, s)
  BY DEF BatchClose, ValidClose
<1>3. /\ s.size \in Nat /\ s.realized \in Int /\ s.fee \in Nat
      /\ s.release = MarginToRelease(position[id].margin, s.size, position[id].size)
  <2>1. position[id] \in Position /\ ~IsEmpty(position[id])
    BY <1>1, <1>2 DEF AccountsInv, AccountsTyped, HasPosition
  <2>2. QED
    BY <2>1, SettlementTypes
<1>4. volume \in Nat
  <2>1. 1 \in Nat \ {0}
    OBVIOUS
  <2>2. QED
    BY <2>1, TradeAmounts
<1>5. ledgerConfig' = [ledgerConfig EXCEPT
        !.total_positions_closed = @ + 1, !.total_volume = @ + volume,
        !.total_fees_collected = @ + s.fee, !.global_sequence = @ + 1]
  BY DEF BatchClose
<1>6. /\ UNCHANGED <<insurance, stranded, unknownTrades>>
      /\ unbookedPnl' = unbookedPnl + s.realized
  BY DEF BatchClose
<1>7. old \in UserStats /\ u \in DOMAIN EnsuredStats(u)
  BY <1>1, EnsuredStatsType
<1>8. userStats' = [EnsuredStats(u) EXCEPT ![u] = new]
  BY <1>7 DEF BatchClose, UserStats
<1>9. /\ vaultAvailable' = vaultAvailable + s.release + s.realized - s.fee
      /\ settledFees' = settledFees + s.fee
  BY <1>2 DEF SettleClose
<1> HIDE DEF id, s, volume
<1>10. s.release \in Nat /\ \E q : Changed(id, q, -s.release, 0)
  BY <1>1, <1>2, <1>3, <1>6, ClosedAccount
<1>11. AccountsInv'
  <2>1. -s.release \in Int /\ 0 \in Nat
    BY <1>10
  <2>2. QED
    BY <1>1, <1>10, <2>1, AccountChanged
<1>12. BooksTyped'
  <2>1. ledgerConfig' \in LedgerConfig
    <3>1. /\ ledgerConfig.total_positions_closed + 1 \in Nat
          /\ ledgerConfig.total_volume + volume \in Nat
          /\ ledgerConfig.total_fees_collected + s.fee \in Nat
          /\ ledgerConfig.global_sequence + 1 \in Nat
      BY <1>1, <1>3, <1>4 DEF BooksTyped, LedgerConfig
    <3>2. QED
      BY <1>1, <1>5, <3>1 DEF BooksTyped, LedgerConfig
  <2>2. new \in UserStats
    <3> HIDE DEF old
    <3>1. old.total_trades + 1 \in Nat /\ old.total_volume + volume \in Nat
      BY <1>4, <1>7 DEF UserStats
    <3>2. QED
      BY <1>7, <3>1 DEF UserStats
  <2>3. vaultAvailable' \in Int /\ settledFees' \in Nat /\ unbookedPnl' \in Int
    BY <1>1, <1>3, <1>6, <1>9, <1>10 DEF BooksTyped
  <2> HIDE DEF new
  <2>4. DOMAIN userStats' \in SUBSET Users /\ userStats' \in [DOMAIN userStats' -> UserStats]
    BY <1>1, <1>8, <2>2, StatsChanged
  <2>5. QED
    BY <1>1, <1>6, <2>1, <2>3, <2>4 DEF BooksTyped
<1>13. QED
  BY <1>11, <1>12, HalvesPrimed

-----------------------------------------------------------------------------
(* Unknown trades, liquidation, funding, reset, pause, statistics accounts *)

LEMMA BatchUnknownInd ==
    ASSUME IndInv, NEW u \in Users, NEW size \in Sizes, NEW price \in Prices,
           BatchUnknown(u, size, price)
    PROVE  IndInv'
<1> DEFINE volume == Notional(size, price)
           old == EnsuredStats(u)[u]
           new == [old EXCEPT !.total_trades = @ + 1, !.total_volume = @ + volume]
<1>1. AccountsInv /\ BooksTyped
  BY Halves
<1>2. volume \in Nat
  <2>1. size \in Nat /\ price \in Nat
    BY InputAssumption, ScaleAssumption
  <2>2. QED
    BY <2>1, NotionalType
<1>3. ledgerConfig' = [ledgerConfig EXCEPT !.total_volume = @ + volume, !.global_sequence = @ + 1]
  BY DEF BatchUnknown
<1>4. /\ UNCHANGED <<position, vaultLocked, stranded, vaultAvailable, insurance,
                     settledFees, unbookedPnl>>
      /\ unknownTrades' = unknownTrades + 1
  BY DEF BatchUnknown, external
<1>5. old \in UserStats /\ u \in DOMAIN EnsuredStats(u)
  BY <1>1, EnsuredStatsType
<1>6. userStats' = [EnsuredStats(u) EXCEPT ![u] = new]
  BY <1>5 DEF BatchUnknown, UserStats
<1> HIDE DEF volume
<1>7. BooksTyped'
  <2>1. ledgerConfig' \in LedgerConfig
    <3>1. ledgerConfig.total_volume + volume \in Nat /\ ledgerConfig.global_sequence + 1 \in Nat
      BY <1>1, <1>2 DEF BooksTyped, LedgerConfig
    <3>2. QED
      BY <1>1, <1>3, <3>1 DEF BooksTyped, LedgerConfig
  <2>2. new \in UserStats
    <3> HIDE DEF old
    <3>1. old.total_trades + 1 \in Nat /\ old.total_volume + volume \in Nat
      BY <1>2, <1>5 DEF UserStats
    <3>2. QED
      BY <1>5, <3>1 DEF UserStats
  <2> HIDE DEF new
  <2>3. DOMAIN userStats' \in SUBSET Users /\ userStats' \in [DOMAIN userStats' -> UserStats]
    BY <1>1, <1>6, <2>2, StatsChanged
  <2>4. QED
    BY <1>1, <1>4, <2>1, <2>3 DEF BooksTyped
<1>8. QED
  BY <1>1, <1>4, <1>7, AccountsFramed, HalvesPrimed

LEMMA LiquidateInd ==
    ASSUME IndInv, NEW u \in Users, NEW m \in Markets, NEW mark \in Marks,
           Liquidate(u, m, mark)
    PROVE  IndInv'
<1> DEFINE id == <<u, m>>
           p == position[id]
           pnl == UnrealizedPnl(p.side, p.size, p.entry_price, mark)
           r == LiquidationResult(p.margin, pnl)
           q == Cleared(p)
           old == userStats[u]
           new == [old EXCEPT !.total_liquidations = @ + 1, !.total_realized_pnl = @ + pnl]
<1>1. AccountsInv /\ BooksTyped /\ id \in PositionIds
  BY Halves DEF PositionIds
<1>2. id \in DOMAIN position /\ SoundPosition(p) /\ p \in Position
  BY <1>1 DEF Liquidate, HasPosition, AccountsInv, PositionsSound, SoundPosition
<1>3. p.margin \in Nat /\ pnl \in Int
  <2>1. mark \in Nat
    BY InputAssumption, ScaleAssumption
  <2> HIDE DEF p
  <2>2. p.margin \in Nat /\ p.side \in Sides /\ p.size \in Nat /\ p.entry_price \in Nat
    BY <1>2 DEF Position
  <2>3. QED
    BY <2>1, <2>2, UnrealizedPnlType
<1>4. r.remainder \in Nat /\ r.penalty \in Nat /\ r.shortfall \in Nat
  <2> HIDE DEF p, pnl
  <2>1. QED
    BY <1>3, LiquidationSplit
<1>5. ledgerConfig' = [ledgerConfig EXCEPT !.total_liquidations = @ + 1, !.global_sequence = @ + 4]
  BY DEF Liquidate
<1>6. /\ position' = [position EXCEPT ![id] = q]
      /\ vaultLocked' = [vaultLocked EXCEPT ![id] = @ - p.margin]
      /\ vaultAvailable' = vaultAvailable + r.remainder
      /\ insurance' = insurance + r.penalty - r.shortfall
      /\ UNCHANGED <<stranded, settledFees, unbookedPnl, unknownTrades>>
  BY DEF Liquidate, history
<1>7. userStats' = IF u \in DOMAIN userStats THEN [userStats EXCEPT ![u] = new] ELSE userStats
  <2>1. u \in DOMAIN userStats => old \in UserStats
    BY <1>1 DEF BooksTyped
  <2>2. QED
    BY <1>1, <2>1 DEF Liquidate, BooksTyped, UserStats
<1>8. SoundPosition(q) /\ q.margin = 0
  BY <1>2, ClearedSound
<1>9. MarginOf(id) = p.margin
  BY <1>2 DEF MarginOf
<1> HIDE DEF id, p, pnl, r, q
<1>10. Changed(id, q, -p.margin, 0)
  <2>1. position' = [i \in DOMAIN position \cup {id} |-> IF i = id THEN q ELSE position[i]]
    BY <1>1, <1>2, <1>6 DEF AccountsInv, AccountsTyped
  <2>2. vaultLocked' = [vaultLocked EXCEPT ![id] = @ + (-p.margin)]
    <3>1. vaultLocked[id] - p.margin = vaultLocked[id] + (-p.margin)
      BY <1>1, <1>3 DEF AccountsInv, AccountsTyped
    <3>2. QED
      BY <1>6, <3>1
  <2>3. stranded' = [stranded EXCEPT ![id] = @ + 0]
    BY <1>1, <1>6, NothingAdded DEF AccountsInv, AccountsTyped
  <2>4. q.margin = MarginOf(id) + (-p.margin) - 0
    BY <1>3, <1>8, <1>9
  <2>5. QED
    BY <1>8, <2>1, <2>2, <2>3, <2>4 DEF Changed
<1>11. AccountsInv'
  <2>1. -p.margin \in Int /\ 0 \in Nat
    BY <1>3
  <2>2. QED
    BY <1>1, <1>10, <2>1, AccountChanged
<1>12. BooksTyped'
  <2>1. ledgerConfig' \in LedgerConfig
    <3>1. ledgerConfig.total_liquidations + 1 \in Nat /\ ledgerConfig.global_sequence + 4 \in Nat
      BY <1>1 DEF BooksTyped, LedgerConfig
    <3>2. QED
      BY <1>1, <1>5, <3>1 DEF BooksTyped, LedgerConfig
  <2>2. u \in DOMAIN userStats => new \in UserStats
    <3> SUFFICES ASSUME u \in DOMAIN userStats PROVE new \in UserStats
      OBVIOUS
    <3>1. old \in UserStats
      BY <1>1 DEF BooksTyped
    <3> HIDE DEF old
    <3>2. old.total_liquidations + 1 \in Nat /\ old.total_realized_pnl + pnl \in Int
      BY <1>3, <3>1 DEF UserStats
    <3>3. QED
      BY <3>1, <3>2 DEF UserStats
  <2>3. vaultAvailable' \in Int /\ insurance' \in Int
    BY <1>1, <1>4, <1>6 DEF BooksTyped
  <2> HIDE DEF new
  <2>4. DOMAIN userStats' \in SUBSET Users /\ userStats' \in [DOMAIN userStats' -> UserStats]
    BY <1>1, <1>7, <2>2 DEF BooksTyped
  <2>5. QED
    BY <1>1, <1>6, <2>1, <2>3, <2>4 DEF BooksTyped
<1>13. QED
  BY <1>11, <1>12, HalvesPrimed

LEMMA SettleFundingInd ==
    ASSUME IndInv, NEW u \in Users, NEW m \in Markets, NEW rate \in FundingRates,
           NEW price \in Prices, SettleFunding(u, m, rate, price)
    PROVE  IndInv'
<1> DEFINE id == <<u, m>>
           p == position[id]
           payment == MulE6((p.size * price) \div E6, rate)
           actual == IF p.side = Long THEN payment ELSE -payment
           q == [p EXCEPT !.cumulative_funding = @ + actual]
<1>1. AccountsInv /\ BooksTyped /\ id \in PositionIds
  BY Halves DEF PositionIds
<1>2. id \in DOMAIN position /\ SoundPosition(p)
  BY <1>1 DEF SettleFunding, HasPosition, AccountsInv, PositionsSound
<1>3. actual \in Int
  <2>1. rate \in Int /\ price \in Nat /\ p.size \in Nat
    BY <1>2, InputAssumption, ScaleAssumption DEF SoundPosition, Position
  <2>2. (p.size * price) \div E6 \in Int
    BY <2>1, ProductType, DivFacts, ScaleAssumption
  <2>3. payment \in Int
    BY <2>1, <2>2, MulE6Facts
  <2> HIDE DEF payment
  <2>4. QED
    BY <2>3
<1>4. /\ position' = [position EXCEPT ![id] = q]
      /\ UNCHANGED <<ledgerConfig, userStats, vaultLocked, vaultAvailable, insurance,
                     stranded, settledFees, unbookedPnl, unknownTrades>>
  <2>1. p \in Position
    BY <1>2 DEF SoundPosition
  <2>2. QED
    BY <1>1, <1>2, <2>1 DEF SettleFunding, external, history, AccountsInv, AccountsTyped
<1> HIDE DEF actual
<1>5. SoundPosition(q) /\ q.margin = p.margin
  BY <1>2, <1>3, FundedSound
<1>6. MarginOf(id) = p.margin /\ p.margin \in Nat
  BY <1>2 DEF MarginOf, SoundPosition, Position
<1> HIDE DEF id, p, q
<1>7. Changed(id, q, 0, 0)
  <2>1. position' = [i \in DOMAIN position \cup {id} |-> IF i = id THEN q ELSE position[i]]
    BY <1>1, <1>2, <1>4 DEF AccountsInv, AccountsTyped
  <2>2. /\ vaultLocked' = [vaultLocked EXCEPT ![id] = @ + 0]
        /\ stranded' = [stranded EXCEPT ![id] = @ + 0]
    BY <1>1, <1>4, NothingAdded DEF AccountsInv, AccountsTyped
  <2>3. q.margin = MarginOf(id) + 0 - 0
    BY <1>5, <1>6
  <2>4. QED
    BY <1>5, <2>1, <2>2, <2>3 DEF Changed
<1>8. AccountsInv'
  <2>1. 0 \in Int /\ 0 \in Nat
    OBVIOUS
  <2>2. QED
    BY <1>1, <1>7, <2>1, AccountChanged
<1>9. BooksTyped'
  BY <1>1, <1>4 DEF BooksTyped
<1>10. QED
  BY <1>8, <1>9, HalvesPrimed

LEMMA AdminResetPositionInd ==
    ASSUME IndInv, NEW u \in Users, NEW m \in Markets, AdminResetPosition(u, m)
    PROVE  IndInv'
<1> DEFINE id == <<u, m>>
           p == position[id]
           q == Cleared(p)
<1>1. AccountsInv /\ BooksTyped /\ id \in PositionIds
  BY Halves DEF PositionIds
<1>2. id \in DOMAIN position /\ SoundPosition(p)
  BY <1>1 DEF AdminResetPosition, AccountsInv, PositionsSound
<1>3. /\ position' = [position EXCEPT ![id] = q]
      /\ stranded' = [stranded EXCEPT ![id] = @ + p.margin]
      /\ UNCHANGED <<ledgerConfig, userStats, vaultLocked, vaultAvailable, insurance,
                     settledFees, unbookedPnl, unknownTrades>>
  BY DEF AdminResetPosition, external
<1>4. SoundPosition(q) /\ q.margin = 0
  BY <1>2, ClearedSound
<1>5. MarginOf(id) = p.margin /\ p.margin \in Nat
  BY <1>2 DEF MarginOf, SoundPosition, Position
<1> HIDE DEF id, p, q
<1>6. Changed(id, q, 0, p.margin)
  <2>1. position' = [i \in DOMAIN position \cup {id} |-> IF i = id THEN q ELSE position[i]]
    BY <1>1, <1>2, <1>3 DEF AccountsInv, AccountsTyped
  <2>2. vaultLocked' = [vaultLocked EXCEPT ![id] = @ + 0]
    BY <1>1, <1>3, NothingAdded DEF AccountsInv, AccountsTyped
  <2>3. q.margin = MarginOf(id) + 0 - p.margin
    BY <1>4, <1>5
  <2>4. QED
    BY <1>3, <1>4, <2>1, <2>2, <2>3 DEF Changed
<1>7. AccountsInv'
  <2>1. 0 \in Int
    OBVIOUS
  <2>2. QED
    BY <1>1, <1>5, <1>6, <2>1, AccountChanged
<1>8. BooksTyped'
  BY <1>1, <1>3 DEF BooksTyped
<1>9. QED
  BY <1>7, <1>8, HalvesPrimed

LEMMA InitializeUserStatsInd ==
    ASSUME IndInv, NEW u \in Users, InitializeUserStats(u)
    PROVE  IndInv'
<1>1. AccountsInv /\ BooksTyped
  BY Halves
<1>2. UNCHANGED <<ledgerConfig, position, external, history>>
  BY DEF InitializeUserStats
<1>3. AccountsInv'
  BY <1>1, <1>2, AccountsFramed DEF external, history
<1>4. DOMAIN userStats' \in SUBSET Users /\ userStats' \in [DOMAIN userStats' -> UserStats]
  <2>1. NewUserStats \in UserStats
    BY DEF NewUserStats, UserStats
  <2>2. QED
    BY <1>1, <2>1 DEF InitializeUserStats, EnsuredStats, BooksTyped
<1>5. BooksTyped'
  BY <1>1, <1>2, <1>4 DEF BooksTyped, external, history
<1>6. QED
  BY <1>3, <1>5, HalvesPrimed

LEMMA SetPausedInd ==
    ASSUME IndInv, NEW paused \in BOOLEAN, SetPaused(paused)
    PROVE  IndInv'
<1>1. AccountsInv /\ BooksTyped
  BY Halves
<1>2. UNCHANGED <<position, userStats, external, history>>
  BY DEF SetPaused
<1>3. AccountsInv'
  BY <1>1, <1>2, AccountsFramed DEF external, history
<1>4. ledgerConfig' \in LedgerConfig
  BY <1>1 DEF SetPaused, BooksTyped, LedgerConfig
<1>5. BooksTyped'
  BY <1>1, <1>2, <1>4 DEF BooksTyped, external, history
<1>6. QED
  BY <1>3, <1>5, HalvesPrimed

-----------------------------------------------------------------------------
(* The inductive invariant *)

LEMMA InitInd == Init => IndInv
<1> SUFFICES ASSUME Init PROVE IndInv
  OBVIOUS
<1>1. DOMAIN position = {} /\ DOMAIN userStats = {}
  BY DEF Init
<1>2. TypeOK
  BY <1>1 DEF Init, TypeOK, LedgerConfig
<1>3. MarginAccounted /\ PositionsSound
  BY <1>1 DEF Init, MarginAccounted, MarginOf, PositionsSound
<1>4. QED
  BY <1>2, <1>3 DEF IndInv

LEMMA NextInd == IndInv /\ [Next]_vars => IndInv'
<1> SUFFICES ASSUME IndInv, [Next]_vars PROVE IndInv'
  OBVIOUS
<1>1. CASE \E u \in Users : InitializeUserStats(u)
  BY <1>1, InitializeUserStatsInd
<1>2. CASE \E u \in Users, m \in Markets, side \in Sides, size \in Sizes, price \in Prices,
              leverage \in Leverages, feeRate \in FeeRates :
                OpenPosition(u, m, side, size, price, leverage, feeRate)
  BY <1>2, OpenPositionInd
<1>3. CASE \E u \in Users, m \in Markets, side \in Sides, size \in Sizes, price \in Prices,
              leverage \in Leverages, feeRate \in FeeRates :
                BatchOpen(u, m, side, size, price, leverage, feeRate)
  BY <1>3, BatchOpenInd
<1>4. CASE \E u \in Users, m \in Markets, size \in Sizes, price \in Prices, feeRate \in FeeRates :
                ClosePosition(u, m, size, price, feeRate)
  BY <1>4, ClosePositionInd
<1>5. CASE \E u \in Users, m \in Markets, size \in Sizes, price \in Prices, feeRate \in FeeRates :
                BatchClose(u, m, size, price, feeRate)
  BY <1>5, BatchCloseInd
<1>6. CASE \E u \in Users, size \in Sizes, price \in Prices : BatchUnknown(u, size, price)
  BY <1>6, BatchUnknownInd
<1>7. CASE \E u \in Users, m \in Markets, mark \in Marks : Liquidate(u, m, mark)
  BY <1>7, LiquidateInd
<1>8. CASE \E u \in Users, m \in Markets, rate \in FundingRates, price \in Prices :
                SettleFunding(u, m, rate, price)
  BY <1>8, SettleFundingInd
<1>9. CASE \E u \in Users, m \in Markets : AdminResetPosition(u, m)
  BY <1>9, AdminResetPositionInd
<1>10. CASE \E paused \in BOOLEAN : SetPaused(paused)
  BY <1>10, SetPausedInd
<1>11. CASE UNCHANGED vars
  <2>1. UNCHANGED <<ledgerConfig, position, userStats, vaultLocked, vaultAvailable, insurance,
                    stranded, settledFees, unbookedPnl, unknownTrades>>
    BY <1>11 DEF vars
  <2>2. AccountsInv' /\ BooksTyped'
    BY <2>1, Halves, AccountsFramed DEF BooksTyped
  <2>3. QED
    BY <2>2, HalvesPrimed
<1>12. QED
  BY <1>1, <1>2, <1>3, <1>4, <1>5, <1>6, <1>7, <1>8, <1>9, <1>10, <1>11 DEF Next

-----------------------------------------------------------------------------
(* Theorems *)

\* The inductive invariant holds in every reachable state.
THEOREM Invariance == Spec => []IndInv
<1>1. Init => IndInv
  BY InitInd
<1>2. IndInv /\ [Next]_vars => IndInv'
  BY NextInd
<1>3. QED
  BY <1>1, <1>2, PTL DEF Spec

\* Type correctness of the accounts: no margin, counter or price goes below zero.
THEOREM TypeCorrect == Spec => []TypeOK
<1>1. IndInv => TypeOK
  BY DEF IndInv
<1>2. QED
  BY <1>1, Invariance, PTL

\* The vault holds for a position what the position shows and what was left behind.
THEOREM MarginSafe == Spec => []MarginAccounted
<1>1. IndInv => MarginAccounted
  BY DEF IndInv
<1>2. QED
  BY <1>1, Invariance, PTL

\* A flat position is flat in all its figures, an open one has an entry price.
THEOREM FlatSafe == Spec => []FlatIsClean
<1>1. IndInv => FlatIsClean
  BY DEF IndInv, PositionsSound, SoundPosition, FlatIsClean
<1>2. QED
  BY <1>1, Invariance, PTL

\* The stored liquidation price of an open position is never stale.
THEOREM LiquidationPriceSafe == Spec => []LiquidationPriceFresh
<1>1. IndInv => LiquidationPriceFresh
  BY DEF IndInv, PositionsSound, SoundPosition, LiquidationPriceFresh
<1>2. QED
  BY <1>1, Invariance, PTL

\* No long position is ever liquidated at a mark price above zero.
LongsKeptAboveZero ==
    \A u \in Users, m \in Markets, mark \in Marks :
        Liquidate(u, m, mark) /\ position[<<u, m>>].side = Long => mark = 0

\* With the scale and the leverage limit of the code, and for any other, as long as
\* the scale is at least twice the limit: liquidation of longs is out of reach.
THEOREM LongsNotLiquidated ==
    E6 >= 2 * MAX_LEVERAGE => (Spec => [][LongsKeptAboveZero]_vars)
<1> SUFFICES ASSUME E6 >= 2 * MAX_LEVERAGE PROVE Spec => [][LongsKeptAboveZero]_vars
  OBVIOUS
<1>1. IndInv => LongsKeptAboveZero
  <2> SUFFICES ASSUME IndInv, NEW u \in Users, NEW m \in Markets, NEW mark \in Marks,
                      Liquidate(u, m, mark), position[<<u, m>>].side = Long
               PROVE  mark = 0
    BY DEF LongsKeptAboveZero
  <2> DEFINE p == position[<<u, m>>]
  <2>1. SoundPosition(p) /\ ~IsEmpty(p) /\ mark <= p.liquidation_price
    BY DEF IndInv, PositionsSound, Liquidate, HasPosition, ShouldLiquidate
  <2> HIDE DEF p
  <2>2. p.entry_price \in Nat /\ p.leverage \in 1..MAX_LEVERAGE /\ p.side = Long
    BY <2>1 DEF SoundPosition, Position, p
  <2>3. p.liquidation_price = 0
    BY <2>1, <2>2, LongLiquidationPriceIsZero DEF SoundPosition
  <2>4. mark \in Nat
    BY InputAssumption, ScaleAssumption
  <2>5. QED
    BY <2>1, <2>3, <2>4
<1>2. QED
  BY <1>1, Invariance, PTL

-----------------------------------------------------------------------------
(* PerpLedger implements MarginCustody: the margin of a position is its claim *)

claims == [id \in PositionIds |-> MarginOf(id)]

LEMMA ClaimsType == AccountsInv => claims \in [PositionIds -> Nat]
  BY DEF claims, MarginOf, AccountsInv, AccountsTyped, Position

\* An account replaced by q changes the claim of its position only.
LEMMA ClaimsReplaced ==
    ASSUME AccountsInv, NEW id \in PositionIds, NEW q,
           position' = [i \in DOMAIN position \cup {id} |-> IF i = id THEN q ELSE position[i]]
    PROVE  claims' = [claims EXCEPT ![id] = q.margin]
<1>1. \A i \in PositionIds : MarginOf(i)' = IF i = id THEN q.margin ELSE MarginOf(i)
  BY DEF MarginOf
<1>2. QED
  BY <1>1 DEF claims

LEMMA AccountReplaced ==
    ASSUME AccountsInv, NEW id \in DOMAIN position, NEW q,
           position' = [position EXCEPT ![id] = q]
    PROVE  id \in PositionIds /\ claims' = [claims EXCEPT ![id] = q.margin]
<1>1. id \in PositionIds
  BY DEF AccountsInv, AccountsTyped
<1>2. position' = [i \in DOMAIN position \cup {id} |-> IF i = id THEN q ELSE position[i]]
  BY DEF AccountsInv, AccountsTyped
<1>3. QED
  BY <1>1, <1>2, ClaimsReplaced

-----------------------------------------------------------------------------
(* The steps of MarginCustody, in terms of PerpLedger *)

LEMMA LockStep ==
    ASSUME AccountsInv, NEW id \in PositionIds, NEW margin \in Nat, NEW unclaimed \in Nat,
           vaultLocked' = [vaultLocked EXCEPT ![id] = @ + margin + unclaimed],
           claims' = [claims EXCEPT ![id] = @ + margin],
           stranded' = [stranded EXCEPT ![id] = @ + unclaimed],
           vaultAvailable' = vaultAvailable - margin - unclaimed,
           insurance' = insurance
    PROVE  Custody!CNext
<1>1. claims \in [PositionIds -> Nat] /\ stranded \in [PositionIds -> Nat]
  BY ClaimsType DEF AccountsInv, AccountsTyped
<1>2. claims'[id] - claims[id] = margin /\ stranded'[id] - stranded[id] = unclaimed
  BY <1>1
<1>3. Custody!Lock(id, margin, unclaimed)
  BY DEF Custody!Lock, claims
<1>4. Custody!Lock(id, claims'[id] - claims[id], stranded'[id] - stranded[id])
  BY <1>2, <1>3
<1>5. QED
  BY <1>4 DEF Custody!CNext, claims

LEMMA SettleStep ==
    ASSUME AccountsInv, NEW id \in PositionIds, NEW amount \in 0..MarginOf(id),
           vaultLocked' = [vaultLocked EXCEPT ![id] = @ - amount],
           claims' = [claims EXCEPT ![id] = @ - amount],
           stranded' = stranded,
           vaultAvailable' \in Int,
           insurance' = insurance
    PROVE  Custody!CNext
<1>1. claims \in [PositionIds -> Nat] /\ claims[id] = MarginOf(id)
  BY ClaimsType DEF claims
<1>2. claims[id] - claims'[id] = amount
  BY <1>1
<1>3. Custody!Settle(id, amount)
  BY <1>1 DEF Custody!Settle, Custody!Release, claims
<1>4. Custody!Settle(id, claims[id] - claims'[id])
  BY <1>2, <1>3
<1>5. QED
  BY <1>4 DEF Custody!CNext, claims

LEMMA SeizeStep ==
    ASSUME AccountsInv, NEW id \in PositionIds,
           vaultLocked' = [vaultLocked EXCEPT ![id] = @ - MarginOf(id)],
           claims' = [claims EXCEPT ![id] = 0],
           stranded' = stranded,
           vaultAvailable' >= vaultAvailable,
           insurance' < insurance => vaultAvailable' = vaultAvailable
    PROVE  Custody!CNext
<1>1. claims \in [PositionIds -> Nat] /\ claims[id] = MarginOf(id)
  BY ClaimsType DEF claims
<1>2. claims' = [claims EXCEPT ![id] = @ - claims[id]]
  <2> HIDE DEF claims
  <2>1. claims[id] - claims[id] = 0
    BY <1>1
  <2>2. QED
    BY <2>1
<1>3. vaultLocked' = [vaultLocked EXCEPT ![id] = @ - claims[id]]
  BY <1>1
<1>4. 0 <= claims[id] /\ claims[id] <= claims[id]
  BY <1>1
<1>5. Custody!Release(id, claims[id])
  <2>1. \A n : /\ n = claims[id]
               /\ claims' = [claims EXCEPT ![id] = @ - n]
               /\ vaultLocked' = [vaultLocked EXCEPT ![id] = @ - n]
               /\ 0 <= n /\ n <= claims[id]
               => Custody!Release(id, n)
    BY DEF Custody!Release, claims
  <2>2. QED
    BY <1>2, <1>3, <1>4, <2>1
<1>6. Custody!Seize(id)
  BY <1>5 DEF Custody!Seize, claims
<1>7. QED
  BY <1>6 DEF Custody!CNext

LEMMA AbandonStep ==
    ASSUME AccountsInv, NEW id \in PositionIds,
           claims' = [claims EXCEPT ![id] = 0],
           stranded' = [stranded EXCEPT ![id] = @ + MarginOf(id)],
           UNCHANGED <<vaultLocked, vaultAvailable, insurance>>
    PROVE  Custody!CNext
<1>1. claims[id] = MarginOf(id)
  BY DEF claims
<1>2. Custody!Abandon(id)
  BY <1>1 DEF Custody!Abandon, claims
<1>3. QED
  BY <1>2 DEF Custody!CNext

-----------------------------------------------------------------------------
(* The handlers *)

LEMMA OpenedClaims ==
    ASSUME AccountsInv, NEW id \in PositionIds, NEW margin, OpenedTo(id, margin)
    PROVE  claims' = [claims EXCEPT ![id] = @ + margin]
<1>1. PICK q : /\ q.margin = MarginOf(id) + margin
               /\ position' = [i \in DOMAIN position \cup {id} |->
                                  IF i = id THEN q ELSE position[i]]
  BY DEF OpenedTo
<1>2. claims' = [claims EXCEPT ![id] = q.margin]
  BY <1>1, ClaimsReplaced
<1>3. claims[id] = MarginOf(id)
  BY DEF claims
<1>4. QED
  BY <1>1, <1>2, <1>3

\* Both opens lock a margin and perhaps a part that stays unclaimed.
LEMMA OpenCustody ==
    ASSUME IndInv, NEW u \in Users, NEW m \in Markets, NEW side \in Sides,
           NEW size \in Sizes, NEW price \in Prices, NEW leverage \in Leverages,
           NEW feeRate \in FeeRates,
           \/ OpenPosition(u, m, side, size, price, leverage, feeRate)
           \/ BatchOpen(u, m, side, size, price, leverage, feeRate)
    PROVE  Custody!CNext
<1> DEFINE id == <<u, m>>
           fee == Fee(size, price, feeRate)
           required == RequiredMargin(size, price, leverage)
<1>1. AccountsInv /\ BooksTyped /\ id \in PositionIds
  BY Halves DEF PositionIds
<1>2. ValidOpen(id, side, size, price, leverage, feeRate)
  BY DEF OpenPosition, BatchOpen
<1>3. fee \in Nat /\ required \in Nat
  <2>1. leverage \in Nat \ {0}
    BY <1>2, RateAssumption DEF ValidOpen
  <2>2. QED
    BY <2>1, TradeAmounts
<1>4. CASE OpenPosition(u, m, side, size, price, leverage, feeRate)
  <2>1. /\ SetOpened(id, side, size, price, leverage, required + fee)
        /\ vaultLocked' = [vaultLocked EXCEPT ![id] = @ + (required + fee)]
        /\ vaultAvailable' = vaultAvailable - (required + fee)
        /\ UNCHANGED <<insurance, stranded>>
    BY <1>4 DEF OpenPosition, LockMargin, history
  <2> HIDE DEF id, fee, required
  <2> DEFINE toLock == required + fee
  <2>2. toLock \in Nat
    BY <1>3
  <2>3. claims' = [claims EXCEPT ![id] = @ + toLock]
    BY <1>1, <1>2, <2>1, <2>2, OpenedAccount, OpenedClaims
  <2>4. vaultLocked' = [vaultLocked EXCEPT ![id] = @ + toLock]
        /\ vaultAvailable' = vaultAvailable - toLock
    BY <2>1
  <2> HIDE DEF toLock
  <2>5. stranded' = [stranded EXCEPT ![id] = @ + 0]
    BY <1>1, <2>1, NothingAdded DEF AccountsInv, AccountsTyped
  <2>6. vaultLocked[id] + toLock + 0 = vaultLocked[id] + toLock
        /\ vaultAvailable - toLock - 0 = vaultAvailable - toLock
    BY <1>1, <2>2 DEF AccountsInv, AccountsTyped, BooksTyped
  <2>7. vaultLocked' = [vaultLocked EXCEPT ![id] = @ + toLock + 0]
        /\ vaultAvailable' = vaultAvailable - toLock - 0
    BY <2>4, <2>6
  <2>8. 0 \in Nat
    OBVIOUS
  <2>9. QED
    BY <1>1, <2>1, <2>2, <2>3, <2>5, <2>7, <2>8, LockStep
<1>5. CASE BatchOpen(u, m, side, size, price, leverage, feeRate)
  <2>1. /\ SetOpened(id, side, size, price, leverage, required)
        /\ vaultLocked' = [vaultLocked EXCEPT ![id] = @ + (required + fee)]
        /\ vaultAvailable' = vaultAvailable - (required + fee)
        /\ stranded' = [stranded EXCEPT ![id] = @ + fee]
        /\ UNCHANGED insurance
    BY <1>5 DEF BatchOpen, LockMargin
  <2> HIDE DEF id, fee, required
  <2>2. claims' = [claims EXCEPT ![id] = @ + required]
    BY <1>1, <1>2, <1>3, <2>1, OpenedAccount, OpenedClaims
  <2>3. /\ vaultLocked' = [vaultLocked EXCEPT ![id] = @ + required + fee]
        /\ vaultAvailable' = vaultAvailable - required - fee
    <3>1. vaultLocked[id] + (required + fee) = vaultLocked[id] + required + fee
      BY <1>1, <1>3 DEF AccountsInv, AccountsTyped
    <3>2. vaultAvailable - (required + fee) = vaultAvailable - required - fee
      BY <1>1, <1>3 DEF BooksTyped
    <3>3. QED
      BY <2>1, <3>1, <3>2
  <2>4. QED
    BY <1>1, <1>3, <2>1, <2>2, <2>3, LockStep
<1>6. QED
  BY <1>4, <1>5

\* What a close settles is within the margin of the position.
LEMMA CloseCustody ==
    ASSUME IndInv, NEW u \in Users, NEW m \in Markets, NEW size \in Sizes,
           NEW price \in Prices, NEW feeRate \in FeeRates,
           \/ ClosePosition(u, m, size, price, feeRate)
           \/ BatchClose(u, m, size, price, feeRate)
    PROVE  Custody!CNext
<1> DEFINE id == <<u, m>>
           s == Settlement(position[id], size, price, feeRate)
<1>1. AccountsInv /\ BooksTyped /\ id \in PositionIds
  BY Halves DEF PositionIds
<1>2. /\ HasPosition(id) /\ SettleClose(id, s)
      /\ UNCHANGED <<insurance, stranded>>
  BY DEF ClosePosition, BatchClose, ValidClose
<1>3. /\ s.size \in Nat /\ s.realized \in Int /\ s.fee \in Nat
      /\ s.release = MarginToRelease(position[id].margin, s.size, position[id].size)
  <2>1. position[id] \in Position /\ ~IsEmpty(position[id])
    BY <1>1, <1>2 DEF AccountsInv, AccountsTyped, HasPosition
  <2>2. QED
    BY <2>1, SettlementTypes
<1>4. MarginOf(id) = position[id].margin
  BY <1>2 DEF MarginOf, HasPosition
<1> HIDE DEF id, s
<1>5. PICK q : Changed(id, q, -s.release, 0)
  BY <1>1, <1>2, <1>3, ClosedAccount
<1>6. s.release \in Nat
  BY <1>1, <1>2, <1>3, ClosedAccount
<1>7. MarginOf(id) \in Nat /\ s.release \in 0..MarginOf(id)
  <2>1. MarginOf(id) \in Nat
    BY <1>1, ClaimsType DEF claims
  <2>2. QED
    BY <1>2, <1>4, <1>6, <2>1 DEF SettleClose
<1>8. claims' = [claims EXCEPT ![id] = @ - s.release]
  <2>1. claims' = [claims EXCEPT ![id] = q.margin]
    BY <1>1, <1>5, ClaimsReplaced DEF Changed
  <2>2. q.margin = MarginOf(id) - s.release
    BY <1>5, <1>6, <1>7 DEF Changed
  <2>3. claims[id] = MarginOf(id)
    BY <1>1 DEF claims
  <2>4. QED
    BY <2>1, <2>2, <2>3
<1>9. /\ vaultLocked' = [vaultLocked EXCEPT ![id] = @ - s.release]
      /\ vaultAvailable' \in Int
  BY <1>1, <1>2, <1>3, <1>6 DEF SettleClose, BooksTyped
<1>10. QED
  BY <1>1, <1>2, <1>7, <1>8, <1>9, SettleStep

\* The fund pays for a bankrupt position only, whose user gets nothing.
LEMMA LiquidateCustody ==
    ASSUME IndInv, NEW u \in Users, NEW m \in Markets, NEW mark \in Marks,
           Liquidate(u, m, mark)
    PROVE  Custody!CNext
<1> DEFINE id == <<u, m>>
           p == position[id]
           pnl == UnrealizedPnl(p.side, p.size, p.entry_price, mark)
           r == LiquidationResult(p.margin, pnl)
<1>1. AccountsInv /\ BooksTyped
  BY Halves
<1>2. id \in DOMAIN position /\ SoundPosition(p) /\ p \in Position
  BY <1>1 DEF Liquidate, HasPosition, AccountsInv, PositionsSound, SoundPosition
<1>3. p.margin \in Nat /\ pnl \in Int
  <2>1. mark \in Nat
    BY InputAssumption, ScaleAssumption
  <2> HIDE DEF p
  <2>2. p.margin \in Nat /\ p.side \in Sides /\ p.size \in Nat /\ p.entry_price \in Nat
    BY <1>2 DEF Position
  <2>3. QED
    BY <2>1, <2>2, UnrealizedPnlType
<1>4. /\ r.remainder \in Nat /\ r.penalty \in Nat /\ r.shortfall \in Nat
      /\ r.shortfall > 0 => r.remainder = 0
  <2> HIDE DEF p, pnl
  <2>1. QED
    BY <1>3, LiquidationSplit
<1>5. /\ position' = [position EXCEPT ![id] = Cleared(p)]
      /\ vaultLocked' = [vaultLocked EXCEPT ![id] = @ - p.margin]
      /\ vaultAvailable' = vaultAvailable + r.remainder
      /\ insurance' = insurance + r.penalty - r.shortfall
      /\ UNCHANGED stranded
  BY DEF Liquidate, history
<1>6. Cleared(p).margin = 0 /\ MarginOf(id) = p.margin
  BY <1>2, ClearedSound DEF MarginOf
<1> HIDE DEF id, p, pnl, r
<1>7. id \in PositionIds /\ claims' = [claims EXCEPT ![id] = 0]
  BY <1>1, <1>2, <1>5, <1>6, AccountReplaced
<1>8. /\ vaultAvailable' >= vaultAvailable
      /\ insurance' < insurance => vaultAvailable' = vaultAvailable
  BY <1>1, <1>4, <1>5 DEF BooksTyped
<1>9. QED
  BY <1>1, <1>5, <1>6, <1>7, <1>8, SeizeStep

LEMMA AdminResetCustody ==
    ASSUME IndInv, NEW u \in Users, NEW m \in Markets, AdminResetPosition(u, m)
    PROVE  Custody!CNext
<1> DEFINE id == <<u, m>>
           p == position[id]
<1>1. AccountsInv
  BY Halves
<1>2. id \in DOMAIN position /\ SoundPosition(p)
  BY <1>1 DEF AdminResetPosition, AccountsInv, PositionsSound
<1>3. /\ position' = [position EXCEPT ![id] = Cleared(p)]
      /\ stranded' = [stranded EXCEPT ![id] = @ + p.margin]
      /\ UNCHANGED <<vaultLocked, vaultAvailable, insurance>>
  BY DEF AdminResetPosition, external
<1>4. Cleared(p).margin = 0 /\ MarginOf(id) = p.margin
  BY <1>2, ClearedSound DEF MarginOf
<1> HIDE DEF id, p
<1>5. id \in PositionIds /\ claims' = [claims EXCEPT ![id] = 0]
  BY <1>1, <1>2, <1>3, <1>4, AccountReplaced
<1>6. QED
  BY <1>1, <1>3, <1>4, <1>5, AbandonStep

cvars == <<vaultLocked, claims, stranded, vaultAvailable, insurance>>

LEMMA SettleFundingCustody ==
    ASSUME IndInv, NEW u \in Users, NEW m \in Markets, NEW rate \in FundingRates,
           NEW price \in Prices, SettleFunding(u, m, rate, price)
    PROVE  UNCHANGED cvars
<1> DEFINE id == <<u, m>>
<1>1. AccountsInv
  BY Halves
<1>2. PICK payment : position' = [position EXCEPT ![id].cumulative_funding = @ + payment]
  BY DEF SettleFunding
<1>3. UNCHANGED <<vaultLocked, stranded, vaultAvailable, insurance>>
  BY DEF SettleFunding, external, history
<1>4. DOMAIN position' = DOMAIN position
      /\ \A i \in DOMAIN position : position'[i].margin = position[i].margin
  BY <1>1, <1>2 DEF AccountsInv, AccountsTyped, Position
<1>5. claims' = claims
  BY <1>4 DEF claims, MarginOf
<1>6. QED
  BY <1>3, <1>5 DEF cvars

LEMMA AccountsUntouched ==
    UNCHANGED <<position, vaultLocked, vaultAvailable, insurance, stranded>> => UNCHANGED cvars
  BY DEF cvars, claims, MarginOf

-----------------------------------------------------------------------------
(* The refinement *)

LEMMA CustodyInit == Init => Custody!CInit
<1> SUFFICES ASSUME Init PROVE Custody!CInit
  OBVIOUS
<1>1. \A id \in PositionIds : MarginOf(id) = 0
  BY DEF Init, MarginOf
<1>2. QED
  BY <1>1 DEF Init, Custody!CInit

LEMMA CustodyNext == IndInv /\ [Next]_vars => [Custody!CNext]_(Custody!cvars)
<1> SUFFICES ASSUME IndInv, [Next]_vars PROVE Custody!CNext \/ UNCHANGED cvars
  BY DEF cvars, claims, Custody!cvars
<1>1. CASE \E u \in Users, m \in Markets, side \in Sides, size \in Sizes, price \in Prices,
              leverage \in Leverages, feeRate \in FeeRates :
                \/ OpenPosition(u, m, side, size, price, leverage, feeRate)
                \/ BatchOpen(u, m, side, size, price, leverage, feeRate)
  BY <1>1, OpenCustody
<1>2. CASE \E u \in Users, m \in Markets, size \in Sizes, price \in Prices, feeRate \in FeeRates :
                \/ ClosePosition(u, m, size, price, feeRate)
                \/ BatchClose(u, m, size, price, feeRate)
  BY <1>2, CloseCustody
<1>3. CASE \E u \in Users, m \in Markets, mark \in Marks : Liquidate(u, m, mark)
  BY <1>3, LiquidateCustody
<1>4. CASE \E u \in Users, m \in Markets, rate \in FundingRates, price \in Prices :
                SettleFunding(u, m, rate, price)
  BY <1>4, SettleFundingCustody
<1>5. CASE \E u \in Users, m \in Markets : AdminResetPosition(u, m)
  BY <1>5, AdminResetCustody
<1>6. CASE \/ \E u \in Users : InitializeUserStats(u)
           \/ \E u \in Users, size \in Sizes, price \in Prices : BatchUnknown(u, size, price)
           \/ \E paused \in BOOLEAN : SetPaused(paused)
           \/ UNCHANGED vars
  BY <1>6, AccountsUntouched DEF InitializeUserStats, BatchUnknown, SetPaused, external, history, vars
<1>7. QED
  BY <1>1, <1>2, <1>3, <1>4, <1>5, <1>6 DEF Next

\* The handlers keep the promises of MarginCustody, for any inputs and rates: no claim
\* is released twice or by another position, the insurance fund pays for seized
\* positions only and never together with their users.
THEOREM CustodyRefined == Spec => CustodySpec
<1>1. Init => Custody!CInit
  BY CustodyInit
<1>2. IndInv /\ [Next]_vars => [Custody!CNext]_(Custody!cvars)
  BY CustodyNext
<1>3. QED
  BY <1>1, <1>2, Invariance, PTL DEF Spec, CustodySpec, Custody!CSpec

-----------------------------------------------------------------------------
(* The books: the totals of the statistics, and the money that was moved   *)

\* The statistics of u before a handler that may create them.
Old(u) == EnsuredStats(u)[u]

\* The statistics of u become new; those of the others stay.
StatsSet(u, new) ==
    userStats' = [v \in DOMAIN userStats \cup {u} |-> IF v = u THEN new ELSE userStats[v]]

LEMMA StatsSetEnsured ==
    ASSUME NEW u, NEW new, userStats' = [EnsuredStats(u) EXCEPT ![u] = new]
    PROVE  StatsSet(u, new)
  BY DEF StatsSet, EnsuredStats

LEMMA StatsSetPresent ==
    ASSUME BooksTyped, NEW u \in DOMAIN userStats, NEW new,
           userStats' = [userStats EXCEPT ![u] = new]
    PROVE  StatsSet(u, new) /\ Old(u) = userStats[u]
  BY DEF StatsSet, BooksTyped, Old, EnsuredStats

\* What the totals of the users' statistics change by.
LEMMA StatsMoved ==
    ASSUME BooksTyped, IsFiniteSet(DOMAIN userStats), NEW u \in Users, NEW new \in UserStats,
           StatsSet(u, new)
    PROVE  /\ IsFiniteSet(DOMAIN userStats')
           /\ SumFunction(Volumes)'
                = SumFunction(Volumes) + (new.total_volume - Old(u).total_volume)
           /\ SumFunction(TradeCounts)'
                = SumFunction(TradeCounts) + (new.total_trades - Old(u).total_trades)
           /\ SumFunction(LiquidationCounts)'
                = SumFunction(LiquidationCounts)
                    + (new.total_liquidations - Old(u).total_liquidations)
           /\ SumFunction(RealizedPnls)'
                = SumFunction(RealizedPnls)
                    + (new.total_realized_pnl - Old(u).total_realized_pnl)
<1> DEFINE S == DOMAIN userStats
<1>1. /\ DOMAIN userStats' = S \cup {u}
      /\ userStats'[u] = new
      /\ \A v \in S \ {u} : userStats'[v] = userStats[v]
      /\ \A v \in S : userStats[v] \in UserStats
      /\ \A v \in S \cup {u} : userStats'[v] \in UserStats
  BY DEF StatsSet, BooksTyped
<1>2. /\ u \in S => Old(u) = userStats[u]
      /\ u \notin S => Old(u) = NewUserStats
  BY DEF Old, EnsuredStats
<1>3. IsFiniteSet(DOMAIN userStats')
  BY <1>1, FS_AddElement
<1>4. IsFiniteSet(S)
  OBVIOUS
<1>5. SumFunction(Volumes)' = SumFunction(Volumes) + (new.total_volume - Old(u).total_volume)
  <2> DEFINE f == Volumes
             g == Volumes'
  <2>1. /\ DOMAIN f = S /\ \A v \in S : f[v] = userStats[v].total_volume
        /\ DOMAIN g = S \cup {u} /\ \A v \in S \cup {u} : g[v] = userStats'[v].total_volume
    BY <1>1 DEF Volumes
  <2>2. Updates(f, g, S, u) /\ g[u] = new.total_volume /\ new.total_volume \in Int
    BY <1>1, <1>4, <2>1 DEF UserStats, Updates
  <2>3. /\ u \in S => Old(u).total_volume = f[u]
        /\ u \notin S => Old(u).total_volume = 0
    BY <1>2, <2>1 DEF NewUserStats
  <2> HIDE DEF f, g, S
  <2>4. /\ u \in S => SumFunction(g) = SumFunction(f) + (g[u] - f[u])
        /\ u \notin S => SumFunction(g) = SumFunction(f) + g[u]
    BY <2>2, TableUpdated
  <2>5. SumFunction(g) = SumFunction(f) + (new.total_volume - Old(u).total_volume)
    BY <2>2, <2>3, <2>4
  <2>6. QED
    BY <2>5 DEF f, g
<1>6. SumFunction(TradeCounts)' = SumFunction(TradeCounts) + (new.total_trades - Old(u).total_trades)
  <2> DEFINE f == TradeCounts
             g == TradeCounts'
  <2>1. /\ DOMAIN f = S /\ \A v \in S : f[v] = userStats[v].total_trades
        /\ DOMAIN g = S \cup {u} /\ \A v \in S \cup {u} : g[v] = userStats'[v].total_trades
    BY <1>1 DEF TradeCounts
  <2>2. Updates(f, g, S, u) /\ g[u] = new.total_trades /\ new.total_trades \in Int
    BY <1>1, <1>4, <2>1 DEF UserStats, Updates
  <2>3. /\ u \in S => Old(u).total_trades = f[u]
        /\ u \notin S => Old(u).total_trades = 0
    BY <1>2, <2>1 DEF NewUserStats
  <2> HIDE DEF f, g, S
  <2>4. /\ u \in S => SumFunction(g) = SumFunction(f) + (g[u] - f[u])
        /\ u \notin S => SumFunction(g) = SumFunction(f) + g[u]
    BY <2>2, TableUpdated
  <2>5. SumFunction(g) = SumFunction(f) + (new.total_trades - Old(u).total_trades)
    BY <2>2, <2>3, <2>4
  <2>6. QED
    BY <2>5 DEF f, g
<1>7. SumFunction(LiquidationCounts)' = SumFunction(LiquidationCounts) + (new.total_liquidations - Old(u).total_liquidations)
  <2> DEFINE f == LiquidationCounts
             g == LiquidationCounts'
  <2>1. /\ DOMAIN f = S /\ \A v \in S : f[v] = userStats[v].total_liquidations
        /\ DOMAIN g = S \cup {u} /\ \A v \in S \cup {u} : g[v] = userStats'[v].total_liquidations
    BY <1>1 DEF LiquidationCounts
  <2>2. Updates(f, g, S, u) /\ g[u] = new.total_liquidations /\ new.total_liquidations \in Int
    BY <1>1, <1>4, <2>1 DEF UserStats, Updates
  <2>3. /\ u \in S => Old(u).total_liquidations = f[u]
        /\ u \notin S => Old(u).total_liquidations = 0
    BY <1>2, <2>1 DEF NewUserStats
  <2> HIDE DEF f, g, S
  <2>4. /\ u \in S => SumFunction(g) = SumFunction(f) + (g[u] - f[u])
        /\ u \notin S => SumFunction(g) = SumFunction(f) + g[u]
    BY <2>2, TableUpdated
  <2>5. SumFunction(g) = SumFunction(f) + (new.total_liquidations - Old(u).total_liquidations)
    BY <2>2, <2>3, <2>4
  <2>6. QED
    BY <2>5 DEF f, g
<1>8. SumFunction(RealizedPnls)' = SumFunction(RealizedPnls) + (new.total_realized_pnl - Old(u).total_realized_pnl)
  <2> DEFINE f == RealizedPnls
             g == RealizedPnls'
  <2>1. /\ DOMAIN f = S /\ \A v \in S : f[v] = userStats[v].total_realized_pnl
        /\ DOMAIN g = S \cup {u} /\ \A v \in S \cup {u} : g[v] = userStats'[v].total_realized_pnl
    BY <1>1 DEF RealizedPnls
  <2>2. Updates(f, g, S, u) /\ g[u] = new.total_realized_pnl /\ new.total_realized_pnl \in Int
    BY <1>1, <1>4, <2>1 DEF UserStats, Updates
  <2>3. /\ u \in S => Old(u).total_realized_pnl = f[u]
        /\ u \notin S => Old(u).total_realized_pnl = 0
    BY <1>2, <2>1 DEF NewUserStats
  <2> HIDE DEF f, g, S
  <2>4. /\ u \in S => SumFunction(g) = SumFunction(f) + (g[u] - f[u])
        /\ u \notin S => SumFunction(g) = SumFunction(f) + g[u]
    BY <2>2, TableUpdated
  <2>5. SumFunction(g) = SumFunction(f) + (new.total_realized_pnl - Old(u).total_realized_pnl)
    BY <2>2, <2>3, <2>4
  <2>6. QED
    BY <2>5 DEF f, g
<1>9. QED
  BY <1>3, <1>5, <1>6, <1>7, <1>8

LEMMA PositionIdsFinite == IsFiniteSet(PositionIds)
  BY FiniteAssumption, FS_Product DEF PositionIds

\* The vault holds n units more of margin, of all positions together.
Locked(n) ==
    /\ SumFunction(vaultLocked) \in Int
    /\ SumFunction(vaultLocked)' = SumFunction(vaultLocked) + n

LEMMA VaultKept ==
    ASSUME vaultLocked \in [PositionIds -> Int], vaultLocked' = vaultLocked
    PROVE  Locked(0)
<1>1. SumFunction(vaultLocked) \in Int
  BY PositionIdsFinite, SumIsInt DEF SumFunction
<1>2. SumFunction(vaultLocked)' = SumFunction(vaultLocked)
  OBVIOUS
<1>3. QED
  BY <1>1, <1>2 DEF Locked

LEMMA VaultMoved ==
    ASSUME vaultLocked \in [PositionIds -> Int], NEW id \in PositionIds, NEW n \in Int,
           vaultLocked' = [vaultLocked EXCEPT ![id] = @ + n]
    PROVE  Locked(n)
<1> DEFINE g == vaultLocked'
<1>1. Updates(vaultLocked, g, PositionIds, id) /\ g[id] = vaultLocked[id] + n
  <2>1. /\ DOMAIN g = PositionIds
        /\ g[id] = vaultLocked[id] + n
        /\ \A i \in PositionIds \ {id} : g[i] = vaultLocked[i]
        /\ \A i \in PositionIds : g[i] \in Int
    OBVIOUS
  <2>2. /\ DOMAIN vaultLocked = PositionIds
        /\ \A i \in PositionIds : vaultLocked[i] \in Int
    OBVIOUS
  <2> HIDE DEF g
  <2>3. QED
    BY <2>1, <2>2, PositionIdsFinite DEF Updates
<1>2. SumFunction(vaultLocked) \in Int
  BY PositionIdsFinite, SumIsInt DEF SumFunction
<1>3. vaultLocked[id] \in Int
  OBVIOUS
<1> HIDE DEF g
<1>4. SumFunction(g) = SumFunction(vaultLocked) + (g[id] - vaultLocked[id])
  BY <1>1, TableUpdated
<1>5. SumFunction(g) = SumFunction(vaultLocked) + n
  BY <1>1, <1>2, <1>3, <1>4
<1>6. QED
  BY <1>2, <1>5 DEF g, Locked

LEMMA TotalsAreInt ==
    ASSUME BooksTyped, IsFiniteSet(DOMAIN userStats)
    PROVE  /\ SumFunction(Volumes) \in Int
           /\ SumFunction(TradeCounts) \in Int
           /\ SumFunction(LiquidationCounts) \in Int
           /\ SumFunction(RealizedPnls) \in Int
<1>1. \A u \in DOMAIN userStats : userStats[u] \in UserStats
  BY DEF BooksTyped
<1>2. SumFunction(Volumes) \in Int
  BY <1>1, SumIsInt DEF SumFunction, Volumes, UserStats
<1>3. SumFunction(TradeCounts) \in Int
  BY <1>1, SumIsInt DEF SumFunction, TradeCounts, UserStats
<1>4. SumFunction(LiquidationCounts) \in Int
  BY <1>1, SumIsInt DEF SumFunction, LiquidationCounts, UserStats
<1>5. SumFunction(RealizedPnls) \in Int
  BY <1>1, SumIsInt DEF SumFunction, RealizedPnls, UserStats
<1>6. QED
  BY <1>2, <1>3, <1>4, <1>5

-----------------------------------------------------------------------------
(* What a handler has to do to keep the books in order *)

\* The ledger counts what u's new statistics count more than the old ones.
Counted(u, new) ==
    /\ ledgerConfig'.total_volume
         = ledgerConfig.total_volume + (new.total_volume - Old(u).total_volume)
    /\ ledgerConfig'.total_positions_opened + ledgerConfig'.total_positions_closed
       + unknownTrades'
         = ledgerConfig.total_positions_opened + ledgerConfig.total_positions_closed
           + unknownTrades + (new.total_trades - Old(u).total_trades)
    /\ ledgerConfig'.total_liquidations
         = ledgerConfig.total_liquidations
           + (new.total_liquidations - Old(u).total_liquidations)

\* What flows out of the vault and the fund is the profit u's new statistics show
\* more than the old ones, with what is booked elsewhere.
Balanced(u, new, locked) ==
    vaultAvailable' + locked + insurance'
      = vaultAvailable + insurance
        + (new.total_realized_pnl - Old(u).total_realized_pnl)
        + (unbookedPnl' - unbookedPnl) - (settledFees' - settledFees)

\* Only an account of u is created.
OnlyFor(u) == \A id \in DOMAIN position' : id \in DOMAIN position \/ id[1] = u

LEMMA BooksMoved ==
    ASSUME IndInv, BooksInv, IndInv', NEW u \in Users, NEW new \in UserStats,
           NEW locked \in Int,
           StatsSet(u, new), Locked(locked), Counted(u, new), Balanced(u, new, locked), OnlyFor(u)
    PROVE  BooksInv'
<1>1. BooksTyped /\ BooksTyped' /\ IsFiniteSet(DOMAIN userStats)
  BY Halves DEF BooksInv, IndInv, TypeOK, BooksTyped
<1>2. /\ IsFiniteSet(DOMAIN userStats')
      /\ SumFunction(Volumes)'
           = SumFunction(Volumes) + (new.total_volume - Old(u).total_volume)
      /\ SumFunction(TradeCounts)'
           = SumFunction(TradeCounts) + (new.total_trades - Old(u).total_trades)
      /\ SumFunction(LiquidationCounts)'
           = SumFunction(LiquidationCounts)
               + (new.total_liquidations - Old(u).total_liquidations)
      /\ SumFunction(RealizedPnls)'
           = SumFunction(RealizedPnls)
               + (new.total_realized_pnl - Old(u).total_realized_pnl)
  BY <1>1, StatsMoved
<1>3. StatsCreated'
  BY DEF BooksInv, StatsCreated, StatsSet, OnlyFor
<1>4. StatsAgree'
  BY <1>2 DEF BooksInv, StatsAgree, Counted
<1>5. FlowsMatchBooks'
  <2>1. /\ SumFunction(vaultLocked) \in Int
        /\ SumFunction(vaultLocked)' = SumFunction(vaultLocked) + locked
    BY DEF Locked
  <2>2. SumFunction(RealizedPnls) \in Int
    BY <1>1, TotalsAreInt
  <2>3. /\ vaultAvailable \in Int /\ insurance \in Int /\ unbookedPnl \in Int
        /\ settledFees \in Int
        /\ vaultAvailable' \in Int /\ insurance' \in Int /\ unbookedPnl' \in Int
        /\ settledFees' \in Int
    BY <1>1 DEF BooksTyped
  <2>4. new.total_realized_pnl \in Int /\ Old(u).total_realized_pnl \in Int
    BY <1>1, EnsuredStatsType DEF Old, UserStats
  <2>5. vaultAvailable + SumFunction(vaultLocked) + insurance
          = SumFunction(RealizedPnls) + unbookedPnl - settledFees
    BY DEF BooksInv, FlowsMatchBooks
  <2>6. vaultAvailable' + SumFunction(vaultLocked)' + insurance'
          = SumFunction(RealizedPnls)' + unbookedPnl' - settledFees'
    BY <1>2, <2>1, <2>2, <2>3, <2>4, <2>5 DEF Balanced
  <2>7. QED
    BY <2>6 DEF FlowsMatchBooks
<1>6. QED
  BY <1>2, <1>3, <1>4, <1>5 DEF BooksInv

LEMMA BooksFramed ==
    ASSUME BooksInv,
           UNCHANGED <<userStats, vaultLocked, vaultAvailable, insurance, settledFees,
                       unbookedPnl, unknownTrades>>,
           ledgerConfig' = ledgerConfig
             \/ \E paused : ledgerConfig' = [ledgerConfig EXCEPT !.is_paused = paused],
           ledgerConfig \in LedgerConfig,
           DOMAIN position' = DOMAIN position
    PROVE  BooksInv'
<1>1. /\ ledgerConfig'.total_volume = ledgerConfig.total_volume
      /\ ledgerConfig'.total_positions_opened = ledgerConfig.total_positions_opened
      /\ ledgerConfig'.total_positions_closed = ledgerConfig.total_positions_closed
      /\ ledgerConfig'.total_liquidations = ledgerConfig.total_liquidations
  BY DEF LedgerConfig
<1>2. /\ Volumes' = Volumes /\ TradeCounts' = TradeCounts
      /\ LiquidationCounts' = LiquidationCounts /\ RealizedPnls' = RealizedPnls
  BY DEF Volumes, TradeCounts, LiquidationCounts, RealizedPnls
<1>3. StatsCreated'
  BY DEF BooksInv, StatsCreated
<1>4. StatsAgree'
  BY <1>1, <1>2 DEF BooksInv, StatsAgree
<1>5. FlowsMatchBooks'
  BY <1>2 DEF BooksInv, FlowsMatchBooks
<1>6. QED
  BY <1>3, <1>4, <1>5 DEF BooksInv

\* A lock of margin in the vault.
LEMMA Taken ==
    ASSUME AccountsInv, NEW id \in PositionIds, NEW n \in Nat,
           vaultLocked' = [vaultLocked EXCEPT ![id] = @ + n]
    PROVE  Locked(n) /\ n \in Int
<1>1. n \in Int
  OBVIOUS
<1>2. QED
  BY <1>1, VaultMoved DEF AccountsInv, AccountsTyped

\* A release of margin from the vault.
LEMMA Released ==
    ASSUME AccountsInv, NEW id \in PositionIds, NEW n \in Nat,
           vaultLocked' = [vaultLocked EXCEPT ![id] = @ - n]
    PROVE  Locked(-n) /\ -n \in Int
<1>1. vaultLocked[id] - n = vaultLocked[id] + (-n) /\ -n \in Int
  BY DEF AccountsInv, AccountsTyped
<1>2. QED
  BY <1>1, VaultMoved DEF AccountsInv, AccountsTyped

\* The statistics after a trade of a batch.
LEMMA TradeBooked ==
    ASSUME NEW old \in UserStats, NEW volume \in Nat
    PROVE  LET new == [old EXCEPT !.total_trades = @ + 1, !.total_volume = @ + volume]
           IN  /\ new \in UserStats
               /\ new.total_trades = old.total_trades + 1
               /\ new.total_volume = old.total_volume + volume
               /\ new.total_liquidations = old.total_liquidations
               /\ new.total_realized_pnl = old.total_realized_pnl
<1>1. old.total_trades + 1 \in Nat /\ old.total_volume + volume \in Nat
  BY DEF UserStats
<1>2. QED
  BY <1>1 DEF UserStats

-----------------------------------------------------------------------------
(* The handlers *)

LEMMA OpenPositionBooks ==
    ASSUME IndInv, BooksInv, IndInv', NEW u \in Users, NEW m \in Markets, NEW side \in Sides,
           NEW size \in Sizes, NEW price \in Prices, NEW leverage \in Leverages,
           NEW feeRate \in FeeRates,
           OpenPosition(u, m, side, size, price, leverage, feeRate)
    PROVE  BooksInv'
<1> DEFINE id == <<u, m>>
           fee == Fee(size, price, feeRate)
           toLock == RequiredMargin(size, price, leverage) + fee
           volume == Notional(size, price)
           old == Old(u)
           new == [old EXCEPT !.total_trades = @ + 1, !.total_volume = @ + volume,
                              !.total_fees_paid = @ + fee]
<1>1. AccountsInv /\ BooksTyped /\ id \in PositionIds
  BY Halves DEF PositionIds
<1>2. fee \in Nat /\ toLock \in Nat /\ volume \in Nat
  <2>1. leverage \in Nat \ {0}
    BY RateAssumption DEF OpenPosition, ValidOpen
  <2>2. QED
    BY <2>1, TradeAmounts
<1>3. /\ ledgerConfig' = [ledgerConfig EXCEPT
            !.total_positions_opened = @ + 1, !.total_volume = @ + volume,
            !.total_fees_collected = @ + fee, !.global_sequence = @ + 1]
      /\ vaultLocked' = [vaultLocked EXCEPT ![id] = @ + toLock]
      /\ vaultAvailable' = vaultAvailable - toLock
      /\ UNCHANGED <<insurance, settledFees, unbookedPnl, unknownTrades>>
      /\ OnlyFor(u)
  BY DEF OpenPosition, LockMargin, history, SetOpened, OnlyFor
<1>4. old \in UserStats /\ u \in DOMAIN EnsuredStats(u)
  BY <1>1, EnsuredStatsType DEF Old
<1>5. userStats' = [EnsuredStats(u) EXCEPT ![u] = new]
  BY <1>4 DEF OpenPosition, UserStats, Old
<1> HIDE DEF id, fee, toLock, volume, old
<1>6. /\ new \in UserStats
      /\ new.total_trades = old.total_trades + 1
      /\ new.total_volume = old.total_volume + volume
      /\ new.total_liquidations = old.total_liquidations
      /\ new.total_realized_pnl = old.total_realized_pnl
  <2>1. /\ old.total_trades + 1 \in Nat
        /\ old.total_volume + volume \in Nat
        /\ old.total_fees_paid + fee \in Nat
    BY <1>2, <1>4 DEF UserStats
  <2>2. QED
    BY <1>4, <2>1 DEF UserStats
<1> HIDE DEF new
<1>7. Counted(u, new)
  BY <1>1, <1>2, <1>3, <1>4, <1>6 DEF Counted, BooksTyped, LedgerConfig, UserStats, old
<1>8. Balanced(u, new, toLock)
  BY <1>1, <1>2, <1>3, <1>4, <1>6 DEF Balanced, BooksTyped, UserStats, old
<1>9. StatsSet(u, new)
  BY <1>5, StatsSetEnsured
<1>10. Locked(toLock) /\ toLock \in Int
  BY <1>1, <1>2, <1>3, Taken
<1>11. QED
  BY <1>3, <1>6, <1>7, <1>8, <1>9, <1>10, BooksMoved

LEMMA BatchOpenBooks ==
    ASSUME IndInv, BooksInv, IndInv', NEW u \in Users, NEW m \in Markets, NEW side \in Sides,
           NEW size \in Sizes, NEW price \in Prices, NEW leverage \in Leverages,
           NEW feeRate \in FeeRates,
           BatchOpen(u, m, side, size, price, leverage, feeRate)
    PROVE  BooksInv'
<1> DEFINE id == <<u, m>>
           toLock == RequiredMargin(size, price, leverage) + Fee(size, price, feeRate)
           volume == Notional(size, price)
           old == Old(u)
           new == [old EXCEPT !.total_trades = @ + 1, !.total_volume = @ + volume]
<1>1. AccountsInv /\ BooksTyped /\ id \in PositionIds
  BY Halves DEF PositionIds
<1>2. toLock \in Nat /\ volume \in Nat
  <2>1. leverage \in Nat \ {0}
    BY RateAssumption DEF BatchOpen, ValidOpen
  <2>2. QED
    BY <2>1, TradeAmounts
<1>3. /\ ledgerConfig'.total_positions_opened = ledgerConfig.total_positions_opened + 1
      /\ ledgerConfig'.total_volume = ledgerConfig.total_volume + volume
      /\ ledgerConfig'.total_positions_closed = ledgerConfig.total_positions_closed
      /\ ledgerConfig'.total_liquidations = ledgerConfig.total_liquidations
      /\ vaultLocked' = [vaultLocked EXCEPT ![id] = @ + toLock]
      /\ vaultAvailable' = vaultAvailable - toLock
      /\ UNCHANGED <<insurance, settledFees, unbookedPnl, unknownTrades>>
      /\ OnlyFor(u)
  BY <1>1 DEF BatchOpen, LockMargin, SetOpened, OnlyFor, BooksTyped, LedgerConfig
<1>4. old \in UserStats /\ u \in DOMAIN EnsuredStats(u)
  BY <1>1, EnsuredStatsType DEF Old
<1>5. userStats' = [EnsuredStats(u) EXCEPT ![u] = new]
  BY <1>4 DEF BatchOpen, UserStats, Old
<1> HIDE DEF id, toLock, volume, old
<1>6. /\ new \in UserStats
      /\ new.total_trades = old.total_trades + 1
      /\ new.total_volume = old.total_volume + volume
      /\ new.total_liquidations = old.total_liquidations
      /\ new.total_realized_pnl = old.total_realized_pnl
  BY <1>2, <1>4, TradeBooked
<1> HIDE DEF new
<1>7. Counted(u, new)
  BY <1>1, <1>2, <1>3, <1>4, <1>6 DEF Counted, BooksTyped, LedgerConfig, UserStats, old
<1>8. Balanced(u, new, toLock)
  BY <1>1, <1>2, <1>3, <1>4, <1>6 DEF Balanced, BooksTyped, UserStats, old
<1>9. StatsSet(u, new)
  BY <1>5, StatsSetEnsured
<1>10. Locked(toLock) /\ toLock \in Int
  BY <1>1, <1>2, <1>3, Taken
<1>11. QED
  BY <1>3, <1>6, <1>7, <1>8, <1>9, <1>10, BooksMoved

LEMMA ClosePositionBooks ==
    ASSUME IndInv, BooksInv, IndInv', NEW u \in Users, NEW m \in Markets, NEW size \in Sizes,
           NEW price \in Prices, NEW feeRate \in FeeRates,
           ClosePosition(u, m, size, price, feeRate)
    PROVE  BooksInv'
<1> DEFINE id == <<u, m>>
           s == Settlement(position[id], size, price, feeRate)
           volume == Notional(s.size, price)
           old == userStats[u]
           new == [old EXCEPT !.total_trades = @ + 1, !.total_volume = @ + volume,
                              !.total_realized_pnl = @ + s.realized,
                              !.total_fees_paid = @ + s.fee]
<1>1. AccountsInv /\ BooksTyped /\ id \in PositionIds
  BY Halves DEF PositionIds
<1>2. HasPosition(id) /\ SettleClose(id, s) /\ id \in DOMAIN position
  BY DEF ClosePosition, ValidClose, HasPosition
<1>3. u \in DOMAIN userStats
  BY <1>2 DEF BooksInv, StatsCreated
<1>4. /\ s.size \in Nat /\ s.realized \in Int /\ s.fee \in Nat /\ volume \in Nat
      /\ s.release \in Nat
  <2>1. position[id] \in Position /\ ~IsEmpty(position[id])
    BY <1>1, <1>2 DEF AccountsInv, AccountsTyped, HasPosition
  <2>2. /\ s.size \in Nat /\ s.realized \in Int /\ s.fee \in Nat /\ volume \in Nat
        /\ s.release = MarginToRelease(position[id].margin, s.size, position[id].size)
    BY <2>1, SettlementTypes
  <2>3. stranded' = stranded
    BY DEF ClosePosition
  <2> HIDE DEF s, id, volume
  <2>4. s.release \in Nat
    BY <1>1, <1>2, <2>2, <2>3, ClosedAccount
  <2>5. QED
    BY <2>2, <2>4
<1>5. /\ ledgerConfig'.total_positions_opened = ledgerConfig.total_positions_opened
      /\ ledgerConfig'.total_volume = ledgerConfig.total_volume + volume
      /\ ledgerConfig'.total_positions_closed = ledgerConfig.total_positions_closed + 1
      /\ ledgerConfig'.total_liquidations = ledgerConfig.total_liquidations
      /\ UNCHANGED <<insurance, unbookedPnl, unknownTrades>>
  BY <1>1 DEF ClosePosition, BooksTyped, LedgerConfig
<1>6. old \in UserStats /\ userStats' = [userStats EXCEPT ![u] = new]
  BY <1>1, <1>3 DEF ClosePosition, BooksTyped, UserStats
<1>7. StatsSet(u, new) /\ Old(u) = old
  BY <1>1, <1>3, <1>6, StatsSetPresent
<1>8. /\ vaultLocked' = [vaultLocked EXCEPT ![id] = @ - s.release]
      /\ vaultAvailable' = vaultAvailable + s.release + s.realized - s.fee
      /\ settledFees' = settledFees + s.fee
      /\ DOMAIN position' = DOMAIN position
  BY <1>2 DEF SettleClose
<1> HIDE DEF id, s, volume, old
<1>9. /\ new \in UserStats
      /\ new.total_trades = old.total_trades + 1
      /\ new.total_volume = old.total_volume + volume
      /\ new.total_liquidations = old.total_liquidations
      /\ new.total_realized_pnl = old.total_realized_pnl + s.realized
  <2>1. /\ old.total_trades + 1 \in Nat
        /\ old.total_volume + volume \in Nat
        /\ old.total_realized_pnl + s.realized \in Int
        /\ old.total_fees_paid + s.fee \in Nat
    BY <1>4, <1>6 DEF UserStats
  <2>2. QED
    BY <1>6, <2>1 DEF UserStats
<1> HIDE DEF new
<1>10. Counted(u, new)
  <2>1. /\ old.total_trades \in Int /\ old.total_volume \in Int
        /\ old.total_liquidations \in Int
    BY <1>6 DEF UserStats
  <2>2. /\ ledgerConfig.total_positions_opened \in Int
        /\ ledgerConfig.total_positions_closed \in Int
        /\ ledgerConfig.total_liquidations \in Int
        /\ ledgerConfig.total_volume \in Int
        /\ unknownTrades \in Int
    BY <1>1 DEF BooksTyped, LedgerConfig
  <2>3. /\ new.total_trades - Old(u).total_trades = 1
        /\ new.total_volume - Old(u).total_volume = volume
        /\ new.total_liquidations - Old(u).total_liquidations = 0
    BY <1>4, <1>7, <1>9, <2>1
  <2>4. QED
    BY <1>4, <1>5, <2>2, <2>3 DEF Counted
<1>11. Balanced(u, new, -s.release)
  BY <1>1, <1>4, <1>5, <1>6, <1>7, <1>8, <1>9 DEF Balanced, BooksTyped, UserStats
<1>12. Locked(-s.release) /\ -s.release \in Int
  BY <1>1, <1>4, <1>8, Released
<1>13. OnlyFor(u)
  BY <1>8 DEF OnlyFor
<1>14. QED
  BY <1>7, <1>9, <1>10, <1>11, <1>12, <1>13, BooksMoved

LEMMA BatchCloseBooks ==
    ASSUME IndInv, BooksInv, IndInv', NEW u \in Users, NEW m \in Markets, NEW size \in Sizes,
           NEW price \in Prices, NEW feeRate \in FeeRates,
           BatchClose(u, m, size, price, feeRate)
    PROVE  BooksInv'
<1> DEFINE id == <<u, m>>
           s == Settlement(position[id], size, price, feeRate)
           volume == Notional(size, price)
           old == Old(u)
           new == [old EXCEPT !.total_trades = @ + 1, !.total_volume = @ + volume]
<1>1. AccountsInv /\ BooksTyped /\ id \in PositionIds
  BY Halves DEF PositionIds
<1>2. HasPosition(id) /\ SettleClose(id, s) /\ id \in DOMAIN position
  BY DEF BatchClose, ValidClose, HasPosition
<1>3. /\ s.size \in Nat /\ s.realized \in Int /\ s.fee \in Nat /\ volume \in Nat
      /\ s.release \in Nat
  <2>1. position[id] \in Position /\ ~IsEmpty(position[id])
    BY <1>1, <1>2 DEF AccountsInv, AccountsTyped, HasPosition
  <2>2. /\ s.size \in Nat /\ s.realized \in Int /\ s.fee \in Nat
        /\ s.release = MarginToRelease(position[id].margin, s.size, position[id].size)
    BY <2>1, SettlementTypes
  <2>3. stranded' = stranded
    BY DEF BatchClose
  <2>4. volume \in Nat
    <3>1. size \in Nat /\ price \in Nat
      BY InputAssumption, ScaleAssumption
    <3>2. QED
      BY <3>1, NotionalType
  <2> HIDE DEF s, id, volume
  <2>5. s.release \in Nat
    BY <1>1, <1>2, <2>2, <2>3, ClosedAccount
  <2>6. QED
    BY <2>2, <2>4, <2>5
<1>4. /\ ledgerConfig'.total_positions_opened = ledgerConfig.total_positions_opened
      /\ ledgerConfig'.total_volume = ledgerConfig.total_volume + volume
      /\ ledgerConfig'.total_positions_closed = ledgerConfig.total_positions_closed + 1
      /\ ledgerConfig'.total_liquidations = ledgerConfig.total_liquidations
      /\ UNCHANGED <<insurance, unknownTrades>>
      /\ unbookedPnl' = unbookedPnl + s.realized
  BY <1>1 DEF BatchClose, BooksTyped, LedgerConfig
<1>5. old \in UserStats /\ u \in DOMAIN EnsuredStats(u)
  BY <1>1, EnsuredStatsType DEF Old
<1>6. userStats' = [EnsuredStats(u) EXCEPT ![u] = new]
  BY <1>5 DEF BatchClose, UserStats, Old
<1>7. /\ vaultLocked' = [vaultLocked EXCEPT ![id] = @ - s.release]
      /\ vaultAvailable' = vaultAvailable + s.release + s.realized - s.fee
      /\ settledFees' = settledFees + s.fee
      /\ DOMAIN position' = DOMAIN position
  BY <1>2 DEF SettleClose
<1> HIDE DEF id, s, volume, old
<1>8. /\ new \in UserStats
      /\ new.total_trades = old.total_trades + 1
      /\ new.total_volume = old.total_volume + volume
      /\ new.total_liquidations = old.total_liquidations
      /\ new.total_realized_pnl = old.total_realized_pnl
  BY <1>3, <1>5, TradeBooked
<1> HIDE DEF new
<1>9. Counted(u, new)
  BY <1>1, <1>3, <1>4, <1>5, <1>8 DEF Counted, BooksTyped, LedgerConfig, UserStats, old
<1>10. Balanced(u, new, -s.release)
  BY <1>1, <1>3, <1>4, <1>5, <1>7, <1>8 DEF Balanced, BooksTyped, UserStats, old
<1>11. StatsSet(u, new)
  BY <1>6, StatsSetEnsured
<1>12. Locked(-s.release) /\ -s.release \in Int
  BY <1>1, <1>3, <1>7, Released
<1>13. OnlyFor(u)
  BY <1>7 DEF OnlyFor
<1>14. QED
  BY <1>8, <1>9, <1>10, <1>11, <1>12, <1>13, BooksMoved

LEMMA BatchUnknownBooks ==
    ASSUME IndInv, BooksInv, IndInv', NEW u \in Users, NEW size \in Sizes,
           NEW price \in Prices, BatchUnknown(u, size, price)
    PROVE  BooksInv'
<1> DEFINE volume == Notional(size, price)
           old == Old(u)
           new == [old EXCEPT !.total_trades = @ + 1, !.total_volume = @ + volume]
<1>1. AccountsInv /\ BooksTyped
  BY Halves
<1>2. volume \in Nat
  <2>1. size \in Nat /\ price \in Nat
    BY InputAssumption, ScaleAssumption
  <2>2. QED
    BY <2>1, NotionalType
<1>3. /\ ledgerConfig'.total_positions_opened = ledgerConfig.total_positions_opened
      /\ ledgerConfig'.total_volume = ledgerConfig.total_volume + volume
      /\ ledgerConfig'.total_positions_closed = ledgerConfig.total_positions_closed
      /\ ledgerConfig'.total_liquidations = ledgerConfig.total_liquidations
      /\ UNCHANGED <<position, vaultLocked, vaultAvailable, insurance, settledFees, unbookedPnl>>
      /\ unknownTrades' = unknownTrades + 1
  BY <1>1 DEF BatchUnknown, BooksTyped, LedgerConfig, external
<1>4. old \in UserStats /\ u \in DOMAIN EnsuredStats(u)
  BY <1>1, EnsuredStatsType DEF Old
<1>5. userStats' = [EnsuredStats(u) EXCEPT ![u] = new]
  BY <1>4 DEF BatchUnknown, UserStats, Old
<1> HIDE DEF volume, old
<1>6. /\ new \in UserStats
      /\ new.total_trades = old.total_trades + 1
      /\ new.total_volume = old.total_volume + volume
      /\ new.total_liquidations = old.total_liquidations
      /\ new.total_realized_pnl = old.total_realized_pnl
  BY <1>2, <1>4, TradeBooked
<1> HIDE DEF new
<1>7. Counted(u, new)
  BY <1>1, <1>2, <1>3, <1>4, <1>6 DEF Counted, BooksTyped, LedgerConfig, UserStats, old
<1>8. Balanced(u, new, 0)
  BY <1>1, <1>3, <1>4, <1>6 DEF Balanced, BooksTyped, UserStats, old
<1>9. StatsSet(u, new)
  BY <1>5, StatsSetEnsured
<1>10. Locked(0) /\ 0 \in Int
  BY <1>1, <1>3, VaultKept DEF AccountsInv, AccountsTyped
<1>11. OnlyFor(u)
  BY <1>3 DEF OnlyFor
<1>12. QED
  BY <1>6, <1>7, <1>8, <1>9, <1>10, <1>11, BooksMoved

\* The remainder, the penalty and the shortfall of a liquidation add up to the
\* margin and the profit or loss.
LEMMA LiquidateBooks ==
    ASSUME IndInv, BooksInv, IndInv', NEW u \in Users, NEW m \in Markets, NEW mark \in Marks,
           Liquidate(u, m, mark)
    PROVE  BooksInv'
<1> DEFINE id == <<u, m>>
           p == position[id]
           margin == p.margin
           pnl == UnrealizedPnl(p.side, p.size, p.entry_price, mark)
           r == LiquidationResult(margin, pnl)
           old == userStats[u]
           new == [old EXCEPT !.total_liquidations = @ + 1, !.total_realized_pnl = @ + pnl]
<1>1. AccountsInv /\ BooksTyped /\ id \in PositionIds
  BY Halves DEF PositionIds
<1>2. id \in DOMAIN position /\ p \in Position
  BY <1>1 DEF Liquidate, HasPosition, AccountsInv, AccountsTyped
<1>3. u \in DOMAIN userStats
  BY <1>2 DEF BooksInv, StatsCreated
<1>4. margin \in Nat /\ pnl \in Int
  <2>1. mark \in Nat
    BY InputAssumption, ScaleAssumption
  <2> HIDE DEF p
  <2>2. p.margin \in Nat /\ p.side \in Sides /\ p.size \in Nat /\ p.entry_price \in Nat
    BY <1>2 DEF Position
  <2>3. QED
    BY <2>1, <2>2, UnrealizedPnlType
<1>5. /\ ledgerConfig'.total_positions_opened = ledgerConfig.total_positions_opened
      /\ ledgerConfig'.total_volume = ledgerConfig.total_volume
      /\ ledgerConfig'.total_positions_closed = ledgerConfig.total_positions_closed
      /\ ledgerConfig'.total_liquidations = ledgerConfig.total_liquidations + 1
  BY <1>1 DEF Liquidate, BooksTyped, LedgerConfig
<1>6. /\ DOMAIN position' = DOMAIN position
      /\ vaultLocked' = [vaultLocked EXCEPT ![id] = @ - margin]
      /\ vaultAvailable' = vaultAvailable + r.remainder
      /\ insurance' = insurance + r.penalty - r.shortfall
      /\ UNCHANGED <<settledFees, unbookedPnl, unknownTrades>>
  BY DEF Liquidate, history
<1>7. old \in UserStats /\ userStats' = [userStats EXCEPT ![u] = new]
  BY <1>1, <1>3 DEF Liquidate, BooksTyped, UserStats
<1>8. StatsSet(u, new) /\ Old(u) = old
  BY <1>1, <1>3, <1>7, StatsSetPresent
<1> HIDE DEF id, p, margin, pnl, old
<1>9. /\ r.remainder \in Nat /\ r.penalty \in Nat /\ r.shortfall \in Nat
      /\ r.remainder + r.penalty - r.shortfall = margin + pnl
  BY <1>4, LiquidationSplit
<1> HIDE DEF r
<1>10. /\ new \in UserStats
       /\ new.total_trades = old.total_trades
       /\ new.total_volume = old.total_volume
       /\ new.total_liquidations = old.total_liquidations + 1
       /\ new.total_realized_pnl = old.total_realized_pnl + pnl
  <2>1. old.total_liquidations + 1 \in Nat /\ old.total_realized_pnl + pnl \in Int
    BY <1>4, <1>7 DEF UserStats
  <2>2. QED
    BY <1>7, <2>1 DEF UserStats
<1> HIDE DEF new
<1>11. Counted(u, new)
  BY <1>1, <1>5, <1>6, <1>7, <1>8, <1>10 DEF Counted, BooksTyped, LedgerConfig, UserStats
<1>12. Balanced(u, new, -margin)
  <2>1. old.total_realized_pnl \in Int /\ vaultAvailable \in Int /\ insurance \in Int
    BY <1>1, <1>7 DEF UserStats, BooksTyped
  <2>2. unbookedPnl' - unbookedPnl = 0 /\ settledFees' - settledFees = 0
    BY <1>1, <1>6 DEF BooksTyped
  <2>3. new.total_realized_pnl - Old(u).total_realized_pnl = pnl
    BY <1>4, <1>8, <1>10, <2>1
  <2>4. vaultAvailable' + (-margin) + insurance' = vaultAvailable + insurance + pnl
    <3>1. PICK x, y, z, a, b : /\ x = r.remainder /\ y = r.penalty /\ z = r.shortfall
                               /\ a = vaultAvailable /\ b = insurance
      OBVIOUS
    <3>2. x \in Int /\ y \in Int /\ z \in Int /\ a \in Int /\ b \in Int
          /\ margin \in Int /\ pnl \in Int
      BY <1>4, <1>9, <2>1, <3>1
    <3>3. x + y - z = margin + pnl
      BY <1>9, <3>1
    <3>4. vaultAvailable' = a + x /\ insurance' = b + y - z
      BY <1>6, <3>1
    <3>5. (a + x) + (-margin) + (b + y - z) = a + b + pnl
      BY <3>2, <3>3
    <3>6. QED
      BY <3>1, <3>4, <3>5
  <2>5. vaultAvailable + insurance + pnl = vaultAvailable + insurance + pnl + 0 - 0
    BY <1>4, <2>1
  <2>6. QED
    BY <2>2, <2>3, <2>4, <2>5 DEF Balanced
<1>13. Locked(-margin) /\ -margin \in Int
  BY <1>1, <1>4, <1>6, Released
<1>14. OnlyFor(u)
  BY <1>6 DEF OnlyFor
<1>15. QED
  BY <1>8, <1>10, <1>11, <1>12, <1>13, <1>14, BooksMoved

LEMMA InitializeUserStatsBooks ==
    ASSUME IndInv, BooksInv, IndInv', NEW u \in Users, InitializeUserStats(u)
    PROVE  BooksInv'
<1>1. AccountsInv /\ BooksTyped
  BY Halves
<1>2. StatsSet(u, NewUserStats) /\ Old(u) = NewUserStats /\ NewUserStats \in UserStats
  BY DEF InitializeUserStats, StatsSet, Old, EnsuredStats, NewUserStats, UserStats
<1>3. UNCHANGED <<ledgerConfig, position, vaultLocked, vaultAvailable, insurance,
                  settledFees, unbookedPnl, unknownTrades>>
  BY DEF InitializeUserStats, external, history
<1>4. Counted(u, NewUserStats)
  BY <1>1, <1>2, <1>3 DEF Counted, BooksTyped, LedgerConfig, NewUserStats
<1>5. Balanced(u, NewUserStats, 0)
  BY <1>1, <1>2, <1>3 DEF Balanced, BooksTyped, NewUserStats
<1>6. Locked(0) /\ 0 \in Int
  BY <1>1, <1>3, VaultKept DEF AccountsInv, AccountsTyped
<1>7. OnlyFor(u)
  BY <1>3 DEF OnlyFor
<1>8. QED
  BY <1>2, <1>4, <1>5, <1>6, <1>7, BooksMoved

-----------------------------------------------------------------------------
(* The inductive invariant *)

LEMMA InitBooks == Init => BooksInv
<1> SUFFICES ASSUME Init PROVE BooksInv
  OBVIOUS
<1>1. DOMAIN position = {} /\ DOMAIN userStats = {}
  BY DEF Init
<1>2. /\ SumFunction(Volumes) = 0 /\ SumFunction(TradeCounts) = 0
      /\ SumFunction(LiquidationCounts) = 0 /\ SumFunction(RealizedPnls) = 0
  BY <1>1, SumEmpty DEF SumFunction, Volumes, TradeCounts, LiquidationCounts, RealizedPnls
<1>3. SumFunction(vaultLocked) = 0
  BY PositionIdsFinite, SumZero DEF Init, SumFunction
<1>4. IsFiniteSet(DOMAIN userStats) /\ StatsCreated
  BY <1>1, FS_EmptySet DEF StatsCreated
<1>5. StatsAgree
  BY <1>2 DEF Init, StatsAgree
<1>6. FlowsMatchBooks
  BY <1>2, <1>3 DEF Init, FlowsMatchBooks
<1>7. QED
  BY <1>4, <1>5, <1>6 DEF BooksInv

LEMMA NextBooks == IndInv /\ BooksInv /\ [Next]_vars => BooksInv'
<1> SUFFICES ASSUME IndInv, BooksInv, [Next]_vars PROVE BooksInv'
  OBVIOUS
<1>0. IndInv' /\ ledgerConfig \in LedgerConfig
  BY NextInd DEF IndInv, TypeOK
<1>1. CASE \E u \in Users : InitializeUserStats(u)
  BY <1>0, <1>1, InitializeUserStatsBooks
<1>2. CASE \E u \in Users, m \in Markets, side \in Sides, size \in Sizes, price \in Prices,
              leverage \in Leverages, feeRate \in FeeRates :
                OpenPosition(u, m, side, size, price, leverage, feeRate)
  BY <1>0, <1>2, OpenPositionBooks
<1>3. CASE \E u \in Users, m \in Markets, side \in Sides, size \in Sizes, price \in Prices,
              leverage \in Leverages, feeRate \in FeeRates :
                BatchOpen(u, m, side, size, price, leverage, feeRate)
  BY <1>0, <1>3, BatchOpenBooks
<1>4. CASE \E u \in Users, m \in Markets, size \in Sizes, price \in Prices, feeRate \in FeeRates :
                ClosePosition(u, m, size, price, feeRate)
  BY <1>0, <1>4, ClosePositionBooks
<1>5. CASE \E u \in Users, m \in Markets, size \in Sizes, price \in Prices, feeRate \in FeeRates :
                BatchClose(u, m, size, price, feeRate)
  BY <1>0, <1>5, BatchCloseBooks
<1>6. CASE \E u \in Users, size \in Sizes, price \in Prices : BatchUnknown(u, size, price)
  BY <1>0, <1>6, BatchUnknownBooks
<1>7. CASE \E u \in Users, m \in Markets, mark \in Marks : Liquidate(u, m, mark)
  BY <1>0, <1>7, LiquidateBooks
<1>8. CASE \E u \in Users, m \in Markets, rate \in FundingRates, price \in Prices :
                SettleFunding(u, m, rate, price)
  BY <1>0, <1>8, BooksFramed DEF SettleFunding, external, history
<1>9. CASE \E u \in Users, m \in Markets : AdminResetPosition(u, m)
  BY <1>0, <1>9, BooksFramed DEF AdminResetPosition, external
<1>10. CASE \E paused \in BOOLEAN : SetPaused(paused)
  BY <1>0, <1>10, BooksFramed DEF SetPaused, external, history
<1>11. CASE UNCHANGED vars
  BY <1>0, <1>11, BooksFramed DEF vars
<1>12. QED
  BY <1>1, <1>2, <1>3, <1>4, <1>5, <1>6, <1>7, <1>8, <1>9, <1>10, <1>11 DEF Next

LEMMA BooksInvariance == Spec => []BooksInv
<1>1. Init => BooksInv
  BY InitBooks
<1>2. IndInv /\ BooksInv /\ [Next]_vars => BooksInv'
  BY NextBooks
<1>3. QED
  BY <1>1, <1>2, Invariance, PTL DEF Spec

-----------------------------------------------------------------------------
(* Theorems *)

\* The volume, the trades and the liquidations the ledger counts are the sums of
\* what UserStats counts, whoever creates the accounts and in whatever order.
THEOREM StatsSafe == Spec => []StatsAgree
<1>1. BooksInv => StatsAgree
  BY DEF BooksInv
<1>2. QED
  BY <1>1, BooksInvariance, PTL

\* No handler creates or destroys money: users and the insurance fund together
\* gain the profit that is booked, less the fees that are taken.
THEOREM FlowsSafe == Spec => []FlowsMatchBooks
<1>1. BooksInv => FlowsMatchBooks
  BY DEF BooksInv
<1>2. QED
  BY <1>1, BooksInvariance, PTL
=============================================================================
