------------------------------ MODULE LedgerMath ------------------------------
(*****************************************************************************)
(* The fixed-point arithmetic of the ledger: margins, fees, profit and loss, *)
(* liquidation prices and the split of a liquidated margin.  Amounts are     *)
(* integers in units of 1/E6.                                                *)
(*                                                                           *)
(* E6 is 10^6 in the code; it is a parameter so that the checks can use a    *)
(* scale TLC's integers can multiply in, with the rates scaled alike.        *)
(* Casts of u128 to u64 wrap and are modelled modulo U64; amounts are        *)
(* assumed below 2^63, so that the casts between u64 and i64 keep values.    *)
(*****************************************************************************)
EXTENDS Integers

CONSTANTS
    E6,                               \* 1_000_000
    U64,                              \* 2^64, the first value a u64 cannot hold
    MAX_LEVERAGE,                     \* 100
    MAX_FEE_RATE,                     \* 10_000, i.e. 1%
    DEFAULT_MAINTENANCE_MARGIN_RATE,  \* 25_000, i.e. 2.5%
    LIQUIDATION_PENALTY_RATE          \* 10_000, i.e. 1%

ASSUME ScaleAssumption == E6 \in Nat \ {0} /\ U64 \in Nat \ {0}
ASSUME RateAssumption ==
    /\ MAX_LEVERAGE \in Nat \ {0}
    /\ MAX_FEE_RATE \in 0..E6
    /\ DEFAULT_MAINTENANCE_MARGIN_RATE \in 0..E6
    /\ LIQUIDATION_PENALTY_RATE \in 0..E6

Long == "Long"
Short == "Short"
Sides == {Long, Short}

\* Integer division of Rust: towards zero.
TruncDiv(a, b) == IF a >= 0 THEN a \div b ELSE -((-a) \div b)

AsU64(n) == n % U64

MulE6(a, b) == TruncDiv(a * b, E6)

DivE6(a, b) == TruncDiv(a * E6, b)

Notional(size, price) == AsU64((size * price) \div E6)

RequiredMargin(size, price, leverage) ==
    AsU64(((size * price) \div leverage) \div E6)

Fee(size, price, feeRate) == AsU64((size * price * feeRate) \div (E6 * E6))

UnrealizedPnl(side, size, entry, mark) ==
    MulE6(IF side = Long THEN mark - entry ELSE entry - mark, size)

\* 1 - 1/leverage + mmr for a long, 1 + 1/leverage - mmr for a short.
LiquidationFactor(side, leverage) ==
    IF side = Long
    THEN E6 - DivE6(E6, leverage) + DEFAULT_MAINTENANCE_MARGIN_RATE
    ELSE E6 + DivE6(E6, leverage) - DEFAULT_MAINTENANCE_MARGIN_RATE

\* Mutant: no lower bound.
LiquidationPriceUnbounded(side, entry, leverage) ==
    MulE6(entry, LiquidationFactor(side, leverage))

LiquidationPrice(side, entry, leverage) ==
    LET price == MulE6(entry, LiquidationFactor(side, leverage))
    IN  IF price >= 0 THEN price ELSE 0

ShouldLiquidate(side, liquidationPrice, mark) ==
    IF side = Long THEN mark <= liquidationPrice ELSE mark >= liquidationPrice

AveragedEntry(size, entry, addSize, addPrice) ==
    AsU64((size * entry + addSize * addPrice) \div (size + addSize))

Lesser(a, b) == IF a <= b THEN a ELSE b

\* What closing closeSize of a position of this size and margin pays out: the
\* whole margin for a full close, the truncated proportion otherwise.
CloseRatio(closeSize, size) == DivE6(closeSize, size)

RealizedPnl(pnl, ratio) == MulE6(pnl, ratio)

MarginToRelease(margin, closeSize, size) ==
    IF closeSize >= size THEN margin ELSE MulE6(margin, CloseRatio(closeSize, size))

\* Mutant: the user gets back the penalty as well.
LiquidationResultGenerous(margin, pnl) ==
    LET total == margin + pnl
    IN  IF total <= 0
        THEN [remainder |-> 0, penalty |-> 0, shortfall |-> -total]
        ELSE [remainder |-> total, penalty |-> MulE6(total, LIQUIDATION_PENALTY_RATE),
              shortfall |-> 0]

\* calculate_liquidation_result: (user_remainder, penalty, shortfall).
LiquidationResult(margin, pnl) ==
    LET total == margin + pnl
        penalty == MulE6(total, LIQUIDATION_PENALTY_RATE)
    IN  IF total <= 0
        THEN [remainder |-> 0, penalty |-> 0, shortfall |-> -total]
        ELSE [remainder |-> IF total >= penalty THEN total - penalty ELSE 0,
              penalty |-> penalty, shortfall |-> 0]
=============================================================================
