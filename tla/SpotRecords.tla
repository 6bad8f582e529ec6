------------------------------ MODULE SpotRecords ------------------------------
(*****************************************************************************)
(* Spot trades, recorded one account each at an address derived from the     *)
(* global sequence number the record is to have.  A relayer has to name the  *)
(* addresses in its transaction, so it reads the sequence first; by the time *)
(* the transaction is executed other instructions may have moved it.         *)
(*                                                                           *)
(* A transaction that was sent may be executed late, in any order, again     *)
(* (a relayer that saw no answer signs the same instruction anew) or never.  *)
(*****************************************************************************)
EXTENDS Integers, Sequences, FiniteSetsExt

CONSTANTS
    Relayers,
    SpotTrades,     \* trades, of which only these fields are told apart:
                    \* [quote_amount, fee]
    TradeLists,     \* what one transaction records; an empty list changes nothing
    MaxSequence,    \* u64::MAX, at which the sequence saturates
    MaxSent         \* bound on the transactions of a behaviour

ASSUME SpotAssumption ==
    /\ SpotTrades \in SUBSET [quote_amount: Nat, fee: Nat]
    /\ TradeLists \in SUBSET (Seq(SpotTrades) \ {<<>>})
    /\ MaxSequence \in Nat
    /\ MaxSent \in Nat

VARIABLES
    authorized_relayers,  \* of RelayerConfig
    global_sequence,      \* of LedgerConfig
    total_volume,         \* of LedgerConfig, the part spot trades contribute
    total_fees,           \* likewise
    records,              \* SpotTradeRecord accounts by the sequence in their address
    sent,                 \* transactions relayers have signed
    landed                \* history: those that took effect, in this order

vars == <<authorized_relayers, global_sequence, total_volume, total_fees, records, sent, landed>>

Transactions == [relayer: Relayers, first: 0..MaxSequence, trades: TradeLists]

\* The address a transaction names for its i-th trade.
Address(tx, i) == tx.first + i - 1

Addresses(tx) == {Address(tx, i) : i \in 1..Len(tx.trades)}

Saturated(n) == IF n > MaxSequence THEN MaxSequence ELSE n

\* Mutant: the sequence moves by one, whatever the length of the batch.
SequenceAfterOne(n) == Saturated(global_sequence + IF n = 0 THEN 0 ELSE 1)

\* Mutant: the counter runs over.
SequenceUnsaturated(n) == global_sequence + n

\* What next_sequence returns after n calls.
SequenceAfter(n) == Saturated(global_sequence + n)

Init ==
    /\ authorized_relayers \in SUBSET Relayers \ {{}}
    /\ global_sequence = 0
    /\ total_volume = 0
    /\ total_fees = 0
    /\ records = [s \in {} |-> {}]
    /\ sent = {}
    /\ landed = <<>>

\* A relayer names addresses from the sequence it has read or expects.
Send(tx) ==
    /\ tx \notin sent
    /\ Cardinality(sent) < MaxSent
    /\ sent' = sent \cup {tx}
    /\ UNCHANGED <<authorized_relayers, global_sequence, total_volume, total_fees, records, landed>>

Volume(trades) == SumFunction([i \in 1..Len(trades) |-> trades[i].quote_amount])

\* Mutant: the totals are written before the last trade is added.
FeesButLast(trades) == SumFunction([i \in 1..Len(trades) - 1 |-> trades[i].fee])

Fees(trades) == SumFunction([i \in 1..Len(trades) |-> trades[i].fee])

\* Mutant: an account that exists is written again.
RecordOverTaken(tx) ==
    /\ tx.relayer \in authorized_relayers
    /\ \A i \in 1..Len(tx.trades) : Address(tx, i) = SequenceAfter(i - 1)
    /\ records' = [s \in DOMAIN records \cup Addresses(tx) |->
            IF s \in Addresses(tx) THEN tx.trades[s - tx.first + 1] ELSE records[s]]
    /\ global_sequence' = SequenceAfter(Len(tx.trades))
    /\ total_volume' = total_volume + Volume(tx.trades)
    /\ total_fees' = total_fees + Fees(tx.trades)
    /\ landed' = Append(landed, tx)
    /\ UNCHANGED <<authorized_relayers, sent>>

\* Mutant: the addresses named are not compared with those derived.
RecordAnywhere(tx) ==
    LET derived == {SequenceAfter(i - 1) : i \in 1..Len(tx.trades)}
    IN  /\ tx.relayer \in authorized_relayers
        /\ derived \cap DOMAIN records = {}
        /\ global_sequence + Len(tx.trades) <= MaxSequence
        /\ records' = [s \in DOMAIN records \cup derived |->
                IF s \in derived THEN tx.trades[s - global_sequence + 1] ELSE records[s]]
        /\ global_sequence' = SequenceAfter(Len(tx.trades))
        /\ total_volume' = total_volume + Volume(tx.trades)
        /\ total_fees' = total_fees + Fees(tx.trades)
        /\ landed' = Append(landed, tx)
        /\ UNCHANGED <<authorized_relayers, sent>>

\* Every trade takes the next number; its account must be the one named and must
\* not exist yet, or none of the trades is recorded.
Record(tx) ==
    /\ tx.relayer \in authorized_relayers
    /\ \A i \in 1..Len(tx.trades) : Address(tx, i) = SequenceAfter(i - 1)
    /\ Addresses(tx) \cap DOMAIN records = {}
    /\ records' = [s \in DOMAIN records \cup Addresses(tx) |->
            IF s \in Addresses(tx) THEN tx.trades[s - tx.first + 1] ELSE records[s]]
    /\ global_sequence' = SequenceAfter(Len(tx.trades))
    /\ total_volume' = total_volume + Volume(tx.trades)
    /\ total_fees' = total_fees + Fees(tx.trades)
    /\ landed' = Append(landed, tx)
    /\ UNCHANGED <<authorized_relayers, sent>>

RecordSpotTrade(tx) == Len(tx.trades) = 1 /\ Record(tx)

BatchRecordSpotTrades(tx) == Record(tx)

\* Every other instruction that takes numbers takes one, two or four of them.
TakeNumbers(n) ==
    /\ global_sequence' = SequenceAfter(n)
    /\ UNCHANGED <<authorized_relayers, total_volume, total_fees, records, sent, landed>>

\* AddRelayer and RemoveRelayer, whose limits are the subject of RelayerMultisig.
ChangeRelayers(r) ==
    /\ authorized_relayers' \in {authorized_relayers \cup {r}, authorized_relayers \ {r}}
    /\ UNCHANGED <<global_sequence, total_volume, total_fees, records, sent, landed>>

Next ==
    \/ \E tx \in Transactions : Send(tx)
    \/ \E tx \in sent : RecordSpotTrade(tx)
    \/ \E tx \in sent : BatchRecordSpotTrades(tx)
    \/ \E n \in {1, 2, 4} : TakeNumbers(n)
    \/ \E r \in Relayers : ChangeRelayers(r)

Spec == Init /\ [][Next]_vars

-----------------------------------------------------------------------------
(* Properties *)

\* Every account has the shape its Rust type gives it; of the two totals
\* TotalsOfRecords says more.
TypeOK ==
    /\ authorized_relayers \in SUBSET Relayers
    /\ global_sequence \in 0..MaxSequence
    /\ DOMAIN records \in SUBSET (0..MaxSequence)
    /\ records \in [DOMAIN records -> SpotTrades]
    /\ sent \in SUBSET Transactions
    /\ landed \in Seq(Transactions)

\* However often and in whatever order what was signed is executed, no two
\* executions claim the same address, so an instruction sent again takes effect
\* at most once; this is also so when the sequence has saturated.  A relayer that
\* names later addresses for the same trade sends another instruction, which is
\* recorded as another trade.
RecordedOnce ==
    \A i, j \in 1..Len(landed) :
        i # j => Addresses(landed[i]) \cap Addresses(landed[j]) = {}

\* The records are those of the transactions that took effect, each with all of
\* its trades, in order and at the addresses its relayer named, and they stay.
RecordsComplete ==
    /\ DOMAIN records = UNION {Addresses(landed[i]) : i \in 1..Len(landed)}
    /\ \A i \in 1..Len(landed) :
          LET tx == landed[i]
          IN  \A k \in 1..Len(tx.trades) : records[Address(tx, k)] = tx.trades[k]

\* Until the sequence saturates no record is at or after it: a relayer that names
\* the address of the present sequence is not refused because it is taken, now
\* or after any number of other instructions.
NextAddressFree ==
    global_sequence < MaxSequence => \A s \in DOMAIN records : s < global_sequence

\* The statistics are those of the records, however they came to be recorded.
TotalsOfRecords ==
    /\ total_volume = SumFunction([s \in DOMAIN records |-> records[s].quote_amount])
    /\ total_fees = SumFunction([s \in DOMAIN records |-> records[s].fee])

-----------------------------------------------------------------------------
(* The inductive invariant *)

IndInv == TypeOK /\ RecordedOnce /\ RecordsComplete /\ NextAddressFree
=============================================================================
