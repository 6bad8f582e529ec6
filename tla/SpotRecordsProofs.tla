---------------------------- MODULE SpotRecordsProofs ----------------------------
(* Theorems about SpotRecords, for any relayers and trades, batches of any        *)
(* length, and any number of transactions sent and executed again.                *)
EXTENDS SpotRecords, SumTheorems

\* The addresses of a transaction that is executed are numbers the sequence had
\* not reached, or its last one.
LEMMA RecordedAddresses ==
    ASSUME IndInv, NEW tx \in sent, Record(tx)
    PROVE  /\ tx \in Transactions
           /\ tx.trades \in Seq(SpotTrades) /\ Len(tx.trades) \in Nat \ {0}
           /\ \A s \in Addresses(tx) :
                 /\ s \in 0..MaxSequence
                 /\ s - tx.first + 1 \in 1..Len(tx.trades)
                 /\ global_sequence + Len(tx.trades) < MaxSequence
                      => s < global_sequence + Len(tx.trades)
<1>1. tx \in Transactions
  BY DEF IndInv, TypeOK
<1>2. tx.trades \in Seq(SpotTrades) /\ tx.trades # <<>> /\ tx.first \in 0..MaxSequence
  BY <1>1, SpotAssumption DEF Transactions
<1>3. Len(tx.trades) \in Nat \ {0}
  BY <1>2
<1>4. ASSUME NEW s \in Addresses(tx)
      PROVE  /\ s \in 0..MaxSequence
             /\ s - tx.first + 1 \in 1..Len(tx.trades)
             /\ global_sequence + Len(tx.trades) < MaxSequence
                  => s < global_sequence + Len(tx.trades)
  <2>1. PICK i \in 1..Len(tx.trades) : s = tx.first + i - 1
    BY DEF Addresses, Address
  <2>2. s = Saturated(global_sequence + (i - 1))
    BY <2>1 DEF Record, Address, SequenceAfter
  <2>3. global_sequence \in 0..MaxSequence /\ MaxSequence \in Nat
    BY SpotAssumption DEF IndInv, TypeOK
  <2>4. s - tx.first + 1 = i
    BY <1>2, <2>1
  <2>5. s \in 0..MaxSequence
    BY <1>3, <2>2, <2>3 DEF Saturated
  <2>6. ASSUME global_sequence + Len(tx.trades) < MaxSequence
        PROVE  s < global_sequence + Len(tx.trades)
    BY <1>3, <2>2, <2>3, <2>6 DEF Saturated
  <2>7. QED
    BY <2>4, <2>5, <2>6
<1>5. QED
  BY <1>1, <1>2, <1>3, <1>4

LEMMA RecordInd ==
    ASSUME IndInv, NEW tx \in sent, Record(tx)
    PROVE  IndInv'
<1> DEFINE D == Addresses(tx)
           n == Len(landed)
<1>1. /\ tx \in Transactions
      /\ tx.trades \in Seq(SpotTrades) /\ Len(tx.trades) \in Nat \ {0}
      /\ \A s \in D : /\ s \in 0..MaxSequence
                      /\ s - tx.first + 1 \in 1..Len(tx.trades)
                      /\ global_sequence + Len(tx.trades) < MaxSequence
                           => s < global_sequence + Len(tx.trades)
  BY RecordedAddresses
<1>2. /\ D \cap DOMAIN records = {}
      /\ records' = [s \in DOMAIN records \cup D |->
            IF s \in D THEN tx.trades[s - tx.first + 1] ELSE records[s]]
      /\ global_sequence' = Saturated(global_sequence + Len(tx.trades))
      /\ landed' = Append(landed, tx)
      /\ UNCHANGED <<authorized_relayers, sent>>
  BY DEF Record, SequenceAfter
<1>3. landed \in Seq(Transactions) /\ n \in Nat
  BY DEF IndInv, TypeOK
<1>4. /\ landed' \in Seq(Transactions)
      /\ Len(landed') = n + 1
      /\ landed'[n + 1] = tx
      /\ \A i \in 1..n : landed'[i] = landed[i]
  BY <1>1, <1>2, <1>3
<1>5. \A i \in 1..n : Addresses(landed[i]) \in SUBSET DOMAIN records
  BY DEF IndInv, RecordsComplete
<1>6. global_sequence \in 0..MaxSequence /\ MaxSequence \in Nat
  BY SpotAssumption DEF IndInv, TypeOK
<1> HIDE DEF D, n
<1>7. TypeOK'
  <2>1. global_sequence' \in 0..MaxSequence
    BY <1>1, <1>2, <1>6 DEF Saturated
  <2>2. DOMAIN records' \in SUBSET (0..MaxSequence) /\ records' \in [DOMAIN records' -> SpotTrades]
    BY <1>1, <1>2 DEF IndInv, TypeOK
  <2>3. QED
    BY <1>2, <1>4, <2>1, <2>2 DEF IndInv, TypeOK
<1>8. RecordedOnce'
  <2> SUFFICES ASSUME NEW i \in 1..n + 1, NEW j \in 1..n + 1, i # j
               PROVE  Addresses(landed'[i]) \cap Addresses(landed'[j]) = {}
    BY <1>3, <1>4, SMTT(30) DEF RecordedOnce, Addresses, Address
  <2>1. CASE i \in 1..n /\ j \in 1..n
    <3>1. Addresses(landed[i]) \cap Addresses(landed[j]) = {}
      BY <2>1 DEF IndInv, RecordedOnce, n
    <3>2. QED
      BY <1>4, <2>1, <3>1
  <2>2. CASE i \in 1..n /\ j = n + 1
    BY <1>2, <1>4, <1>5, <2>2 DEF D
  <2>3. CASE i = n + 1 /\ j \in 1..n
    BY <1>2, <1>4, <1>5, <2>3 DEF D
  <2>4. QED
    BY <1>3, <2>1, <2>2, <2>3
<1>9. RecordsComplete'
  <2>1. DOMAIN records' = UNION {Addresses(landed'[i]) : i \in 1..n + 1}
    <3>1. DOMAIN records = UNION {Addresses(landed[i]) : i \in 1..n}
      BY DEF IndInv, RecordsComplete, n
    <3>2. DOMAIN records' = DOMAIN records \cup D
      BY <1>2
    <3>3. 1..n + 1 = (1..n) \cup {n + 1}
      BY <1>3
    <3>4. D = Addresses(landed'[n + 1])
      BY <1>4 DEF D
    <3>5. \A i \in 1..n : Addresses(landed'[i]) = Addresses(landed[i])
      BY <1>4
    <3>6. UNION {Addresses(landed'[i]) : i \in 1..n} = DOMAIN records
      BY <3>1, <3>5
    <3>7. UNION {Addresses(landed'[i]) : i \in 1..n + 1}
            = (UNION {Addresses(landed'[i]) : i \in 1..n}) \cup Addresses(landed'[n + 1])
      BY <3>3
    <3>8. QED
      BY <3>2, <3>4, <3>6, <3>7
  <2>2. ASSUME NEW i \in 1..n + 1, NEW k \in 1..Len(landed'[i].trades)
        PROVE  records'[Address(landed'[i], k)] = landed'[i].trades[k]
    <3>1. CASE i = n + 1
      <4>1. landed'[i] = tx /\ k \in 1..Len(tx.trades)
        BY <1>4, <2>2, <3>1
      <4>2. Address(tx, k) \in D
        BY <4>1 DEF D, Addresses
      <4>3. Address(tx, k) - tx.first + 1 = k
        BY <1>1, <4>1 DEF Address, Transactions
      <4>4. QED
        BY <1>2, <4>1, <4>2, <4>3
    <3>2. CASE i \in 1..n
      <4>1. landed'[i] = landed[i]
        BY <1>4, <3>2
      <4>2. Address(landed[i], k) \in Addresses(landed[i])
        BY <4>1, <2>2 DEF Addresses
      <4>3. Address(landed[i], k) \in DOMAIN records /\ Address(landed[i], k) \notin D
        BY <1>2, <1>5, <3>2, <4>2
      <4>4. records[Address(landed[i], k)] = landed[i].trades[k]
        BY <3>2, <4>1, <2>2 DEF IndInv, RecordsComplete, n
      <4>5. QED
        BY <1>2, <4>1, <4>3, <4>4
    <3>3. QED
      BY <1>3, <3>1, <3>2
  <2>3. QED
    BY <1>4, <2>1, <2>2 DEF RecordsComplete, Addresses, Address
<1>10. NextAddressFree'
  <2> SUFFICES ASSUME global_sequence' < MaxSequence, NEW s \in DOMAIN records'
               PROVE  s < global_sequence'
    BY DEF NextAddressFree
  <2>1. /\ global_sequence' = global_sequence + Len(tx.trades)
        /\ global_sequence < MaxSequence
    BY <1>1, <1>2, <1>6 DEF Saturated
  <2>2. CASE s \in D
    BY <1>1, <2>1, <2>2
  <2>3. CASE s \in DOMAIN records
    <3>1. s < global_sequence /\ s \in Int
      BY <2>1, <2>3 DEF IndInv, NextAddressFree, TypeOK
    <3>2. QED
      BY <1>1, <1>6, <2>1, <3>1
  <2>4. QED
    BY <1>2, <2>2, <2>3
<1>11. QED
  BY <1>7, <1>8, <1>9, <1>10 DEF IndInv

\* The steps that record nothing.
LEMMA OthersInd ==
    ASSUME IndInv, UNCHANGED <<records, landed>>,
           global_sequence' \in global_sequence..MaxSequence,
           authorized_relayers' \in SUBSET Relayers, sent' \in SUBSET Transactions
    PROVE  IndInv'
<1>1. TypeOK'
  BY DEF IndInv, TypeOK
<1>2. RecordedOnce' /\ RecordsComplete'
  BY DEF IndInv, RecordedOnce, RecordsComplete
<1>3. NextAddressFree'
  BY SpotAssumption DEF IndInv, TypeOK, NextAddressFree
<1>4. QED
  BY <1>1, <1>2, <1>3 DEF IndInv

LEMMA NextInd == IndInv /\ [Next]_vars => IndInv'
<1> SUFFICES ASSUME IndInv, [Next]_vars PROVE IndInv'
  OBVIOUS
<1>1. /\ authorized_relayers \in SUBSET Relayers /\ sent \in SUBSET Transactions
      /\ global_sequence \in 0..MaxSequence /\ MaxSequence \in Nat
      /\ global_sequence \in global_sequence..MaxSequence
  BY SpotAssumption DEF IndInv, TypeOK
<1>2. CASE \E tx \in Transactions : Send(tx)
  BY <1>1, <1>2, OthersInd DEF Send
<1>3. CASE \E tx \in sent : RecordSpotTrade(tx) \/ BatchRecordSpotTrades(tx)
  BY <1>3, RecordInd DEF RecordSpotTrade, BatchRecordSpotTrades
<1>4. CASE \E n \in {1, 2, 4} : TakeNumbers(n)
  BY <1>1, <1>4, OthersInd DEF TakeNumbers, SequenceAfter, Saturated
<1>5. CASE \E r \in Relayers : ChangeRelayers(r)
  BY <1>1, <1>5, OthersInd DEF ChangeRelayers
<1>6. CASE UNCHANGED vars
  BY <1>1, <1>6, OthersInd DEF vars
<1>7. QED
  BY <1>2, <1>3, <1>4, <1>5, <1>6 DEF Next

-----------------------------------------------------------------------------
(* The totals *)

\* The column g is the column f, of the addresses S, with the list t recorded at
\* n addresses from first on, which are D.
Extends(f, g, t, S, D, first, n) ==
    /\ IsFiniteSet(S) /\ n \in Nat /\ first \in Int
    /\ D = {first + i - 1 : i \in 1..n} /\ S \cap D = {}
    /\ DOMAIN f = S /\ \A s \in S : f[s] \in Int
    /\ DOMAIN t = 1..n /\ \A i \in 1..n : t[i] \in Int
    /\ DOMAIN g = S \cup D /\ \A s \in S : g[s] = f[s]
    /\ \A i \in 1..n : g[first + i - 1] = t[i]

LEMMA ColumnExtended ==
    ASSUME NEW S, NEW n, NEW first, NEW D, NEW f, NEW t, NEW g,
           Extends(f, g, t, S, D, first, n)
    PROVE  SumFunction(g) = SumFunction(f) + SumFunction(t)
<1> USE DEF Extends
<1> DEFINE at == [i \in 1..n |-> first + i - 1]
           N == 1..n
<1>1. IsFiniteSet(N)
  BY FS_Interval
<1>2. Renames(g, t, N, at, D)
  BY <1>1 DEF Renames
<1>3. IsFiniteSet(D)
  <2>1. at \in Surjection(N, D)
    BY DEF Surjection
  <2>2. QED
    BY <1>1, <2>1, FS_Surjection
<1> HIDE DEF at
<1>4. SumFunctionOnSet(t, N) = SumFunctionOnSet(g, D)
  BY <1>2, TableRenamed
<1>5. SumFunctionOnSet(f, S) = SumFunctionOnSet(g, S)
  BY SumSame
<1>6. \A s \in S \cup D : g[s] \in Int
  <2>1. ASSUME NEW s \in D PROVE g[s] \in Int
    <3>1. PICK i \in 1..n : s = first + i - 1
      OBVIOUS
    <3>2. QED
      BY <3>1
  <2>2. \A s \in S : g[s] \in Int
    OBVIOUS
  <2>3. QED
    BY <2>1, <2>2
<1>7. SumFunctionOnSet(g, S \cup D) = SumFunctionOnSet(g, S) + SumFunctionOnSet(g, D)
  BY <1>3, <1>6, SumUnion
<1>8. QED
  BY <1>4, <1>5, <1>7 DEF SumFunction

LEMMA RecordTotals ==
    ASSUME IndInv, TotalsOfRecords, NEW tx \in sent, Record(tx)
    PROVE  TotalsOfRecords'
<1> DEFINE D == Addresses(tx)
           S == DOMAIN records
           n == Len(tx.trades)
           first == tx.first
<1>1. /\ tx.trades \in Seq(SpotTrades) /\ n \in Nat
      /\ \A s \in D : s - first + 1 \in 1..n
  BY RecordedAddresses
<1>2. first \in Int
  BY RecordedAddresses, SpotAssumption DEF Transactions
<1>3. IsFiniteSet(S)
  <2>1. IsFiniteSet(0..MaxSequence)
    BY SpotAssumption, FS_Interval
  <2>2. QED
    BY <2>1, FS_Subset DEF IndInv, TypeOK
<1>4. D = {first + i - 1 : i \in 1..n} /\ S \cap D = {}
  BY DEF Addresses, Address, Record
<1>5. /\ DOMAIN records' = S \cup D
      /\ \A s \in S : records'[s] = records[s]
      /\ \A i \in 1..n : records'[first + i - 1] = tx.trades[i]
  <2>1. records' = [s \in S \cup D |-> IF s \in D THEN tx.trades[s - first + 1] ELSE records[s]]
    BY DEF Record
  <2>2. \A i \in 1..n : first + i - 1 \in D /\ (first + i - 1) - first + 1 = i
    BY <1>1, <1>2, <1>4
  <2> HIDE DEF D, S, first, n
  <2>3. \A s \in S : s \notin D
    BY <1>4
  <2>4. QED
    BY <2>1, <2>2, <2>3
<1>6. /\ \A s \in S : records[s].quote_amount \in Int /\ records[s].fee \in Int
      /\ \A i \in 1..n : tx.trades[i].quote_amount \in Int /\ tx.trades[i].fee \in Int
  <2>1. \A trade \in SpotTrades : trade.quote_amount \in Int /\ trade.fee \in Int
    BY SpotAssumption
  <2>2. \A s \in S : records[s] \in SpotTrades
    BY DEF IndInv, TypeOK
  <2>3. \A i \in 1..n : tx.trades[i] \in SpotTrades
    BY <1>1
  <2>4. QED
    BY <2>1, <2>2, <2>3
<1>7. SumFunction([s \in DOMAIN records' |-> records'[s].quote_amount])
        = SumFunction([s \in S |-> records[s].quote_amount]) + Volume(tx.trades)
  <2> DEFINE f == [s \in S |-> records[s].quote_amount]
             g == [s \in DOMAIN records' |-> records'[s].quote_amount]
             t == [i \in 1..n |-> tx.trades[i].quote_amount]
  <2>1. /\ DOMAIN f = S /\ \A s \in S : f[s] \in Int
        /\ DOMAIN t = 1..n /\ \A i \in 1..n : t[i] \in Int
        /\ DOMAIN g = S \cup D /\ \A s \in S : g[s] = f[s]
    BY <1>5, <1>6
  <2>2. \A i \in 1..n : g[first + i - 1] = t[i]
    BY <1>4, <1>5
  <2> HIDE DEF f, g, t, D, S, first, n
  <2>3. Extends(f, g, t, S, D, first, n)
    BY <1>1, <1>2, <1>3, <1>4, <2>1, <2>2 DEF Extends
  <2>4. SumFunction(g) = SumFunction(f) + SumFunction(t)
    BY <2>3, ColumnExtended
  <2>5. QED
    BY <2>4 DEF f, g, t, n, Volume
<1>8. SumFunction([s \in DOMAIN records' |-> records'[s].fee])
        = SumFunction([s \in S |-> records[s].fee]) + Fees(tx.trades)
  <2> DEFINE f == [s \in S |-> records[s].fee]
             g == [s \in DOMAIN records' |-> records'[s].fee]
             t == [i \in 1..n |-> tx.trades[i].fee]
  <2>1. /\ DOMAIN f = S /\ \A s \in S : f[s] \in Int
        /\ DOMAIN t = 1..n /\ \A i \in 1..n : t[i] \in Int
        /\ DOMAIN g = S \cup D /\ \A s \in S : g[s] = f[s]
    BY <1>5, <1>6
  <2>2. \A i \in 1..n : g[first + i - 1] = t[i]
    BY <1>4, <1>5
  <2> HIDE DEF f, g, t, D, S, first, n
  <2>3. Extends(f, g, t, S, D, first, n)
    BY <1>1, <1>2, <1>3, <1>4, <2>1, <2>2 DEF Extends
  <2>4. SumFunction(g) = SumFunction(f) + SumFunction(t)
    BY <2>3, ColumnExtended
  <2>5. QED
    BY <2>4 DEF f, g, t, n, Fees
<1>9. QED
  BY <1>7, <1>8 DEF TotalsOfRecords, Record

LEMMA NextTotals == IndInv /\ TotalsOfRecords /\ [Next]_vars => TotalsOfRecords'
<1> SUFFICES ASSUME IndInv, TotalsOfRecords, [Next]_vars PROVE TotalsOfRecords'
  OBVIOUS
<1>1. ASSUME UNCHANGED <<records, total_volume, total_fees>> PROVE TotalsOfRecords'
  BY <1>1 DEF TotalsOfRecords
<1>2. CASE \E tx \in Transactions : Send(tx)
  BY <1>1, <1>2 DEF Send
<1>3. CASE \E tx \in sent : RecordSpotTrade(tx) \/ BatchRecordSpotTrades(tx)
  BY <1>3, RecordTotals DEF RecordSpotTrade, BatchRecordSpotTrades
<1>4. CASE \E n \in {1, 2, 4} : TakeNumbers(n)
  BY <1>1, <1>4 DEF TakeNumbers
<1>5. CASE \E r \in Relayers : ChangeRelayers(r)
  BY <1>1, <1>5 DEF ChangeRelayers
<1>6. CASE UNCHANGED vars
  BY <1>1, <1>6 DEF vars
<1>7. QED
  BY <1>2, <1>3, <1>4, <1>5, <1>6 DEF Next

-----------------------------------------------------------------------------
(* Theorems *)

\* The inductive invariant of the records.
THEOREM SpotInvariance == Spec => []IndInv
<1>1. Init => IndInv
  <2> SUFFICES ASSUME Init PROVE IndInv
    OBVIOUS
  <2>1. TypeOK
    BY SpotAssumption DEF Init, TypeOK
  <2>2. RecordedOnce /\ RecordsComplete /\ NextAddressFree
    BY DEF Init, RecordedOnce, RecordsComplete, NextAddressFree
  <2>3. QED
    BY <2>1, <2>2 DEF IndInv
<1>2. IndInv /\ [Next]_vars => IndInv'
  BY NextInd
<1>3. QED
  BY <1>1, <1>2, PTL DEF Spec

\* An instruction, with the addresses it names, that is sent again, late or out of
\* order is recorded at most once.
THEOREM SpotRetrySafe == Spec => []RecordedOnce
<1>1. IndInv => RecordedOnce
  BY DEF IndInv
<1>2. QED
  BY <1>1, SpotInvariance, PTL

\* Batches are recorded whole, where their relayer said, and for good.
THEOREM SpotRecordsKept == Spec => []RecordsComplete
<1>1. IndInv => RecordsComplete
  BY DEF IndInv
<1>2. QED
  BY <1>1, SpotInvariance, PTL

\* The address of the present sequence is never taken before the counter saturates.
THEOREM SpotAddressFree == Spec => []NextAddressFree
<1>1. IndInv => NextAddressFree
  BY DEF IndInv
<1>2. QED
  BY <1>1, SpotInvariance, PTL

\* Every account has the shape its Rust type gives it, and the sequence never runs over.
THEOREM SpotTypes == Spec => []TypeOK
<1>1. IndInv => TypeOK
  BY DEF IndInv
<1>2. QED
  BY <1>1, SpotInvariance, PTL

\* The volume and the fees the ledger shows are those of the records, whichever
\* transactions were executed, again or late.
THEOREM SpotTotals == Spec => []TotalsOfRecords
<1>1. Init => TotalsOfRecords
  <2> SUFFICES ASSUME Init PROVE TotalsOfRecords
    OBVIOUS
  <2>1. DOMAIN records = {}
    BY DEF Init
  <2>2. SumFunction([s \in DOMAIN records |-> records[s].quote_amount]) = 0
    BY <2>1, SumEmpty DEF SumFunction
  <2>3. SumFunction([s \in DOMAIN records |-> records[s].fee]) = 0
    BY <2>1, SumEmpty DEF SumFunction
  <2>4. QED
    BY <2>2, <2>3 DEF Init, TotalsOfRecords
<1>2. IndInv /\ TotalsOfRecords /\ [Next]_vars => TotalsOfRecords'
  BY NextTotals
<1>3. QED
  BY <1>1, <1>2, SpotInvariance, PTL DEF Spec
=============================================================================
