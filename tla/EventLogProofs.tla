----------------------------- MODULE EventLogProofs -----------------------------
(* Theorems about EventLog, for logs of any length: what an indexer that reads  *)
(* only the log can rely on.                                                     *)
EXTENDS EventLog, PerpLedgerProofs

-----------------------------------------------------------------------------
(* The log grows at its end *)

\* The log has become the log before with these events after it.
Grows(events) ==
    /\ log \in Seq(Events) /\ log' \in Seq(Events) /\ events \in Seq(Events)
    /\ Len(log) \in Nat /\ Len(events) \in Nat
    /\ Len(log') = Len(log) + Len(events)
    /\ \A i \in 1..Len(log) : log'[i] = log[i]
    /\ \A j \in 1..Len(events) : log'[Len(log) + j] = events[j]

LEMMA EmitGrows ==
    ASSUME log \in Seq(Events), NEW events \in Seq(Events), Emit(events)
    PROVE  Grows(events)
<1>1. log' = log \o events
  BY DEF Emit
<1>2. /\ Len(log) \in Nat /\ Len(events) \in Nat
      /\ log \o events \in Seq(Events)
      /\ Len(log \o events) = Len(log) + Len(events)
  OBVIOUS
<1>3. \A i \in 1..Len(log) : (log \o events)[i] = log[i]
  OBVIOUS
<1>4. \A j \in 1..Len(events) : (log \o events)[Len(log) + j] = events[j]
  BY <1>2
<1>5. QED
  BY <1>1, <1>2, <1>3, <1>4 DEF Grows

\* An index of the new log is one of the old or that of a new event.
LEMMA OldOrNew ==
    ASSUME NEW events, Grows(events), NEW i \in 1..Len(log')
    PROVE  \/ i \in 1..Len(log) /\ log'[i] = log[i]
           \/ \E j \in 1..Len(events) : i = Len(log) + j /\ log'[i] = events[j]
<1>1. CASE i \in 1..Len(log)
  BY <1>1 DEF Grows
<1>2. CASE i \notin 1..Len(log)
  <2>1. i - Len(log) \in 1..Len(events) /\ i = Len(log) + (i - Len(log))
    BY <1>2 DEF Grows
  <2>2. QED
    BY <2>1 DEF Grows
<1>3. QED
  BY <1>1, <1>2

\* No event of this kind is new.
LEMMA NoneOf ==
    ASSUME NEW events, Grows(events), NEW kind,
           \A j \in 1..Len(events) : events[j].kind # kind
    PROVE  /\ Of(kind)' = Of(kind)
           /\ \A i \in Of(kind) : i \in 1..Len(log) /\ log'[i] = log[i]
<1>1. ASSUME NEW i \in Of(kind)' PROVE i \in Of(kind)
  <2>1. i \in 1..Len(log') /\ log'[i].kind = kind
    BY DEF Of
  <2>2. CASE i \in 1..Len(log) /\ log'[i] = log[i]
    BY <2>1, <2>2 DEF Of
  <2>3. QED
    BY <2>1, <2>2, OldOrNew
<1>2. \A i \in Of(kind) : i \in 1..Len(log) /\ log'[i] = log[i] /\ i \in Of(kind)'
  BY DEF Of, Grows
<1>3. QED
  BY <1>1, <1>2

\* One event of this kind is new, the k-th.
OnlyAt(events, k, kind) ==
    /\ k \in 1..Len(events)
    /\ \A j \in 1..Len(events) : events[j].kind = kind <=> j = k

LEMMA OneOf ==
    ASSUME NEW events, Grows(events), NEW kind, NEW k, OnlyAt(events, k, kind)
    PROVE  /\ Of(kind)' = Of(kind) \cup {Len(log) + k}
           /\ Len(log) + k \notin Of(kind)
           /\ log'[Len(log) + k] = events[k]
           /\ \A i \in Of(kind) : i \in 1..Len(log) /\ log'[i] = log[i]
<1>1. ASSUME NEW i \in Of(kind)' PROVE i \in Of(kind) \/ i = Len(log) + k
  <2>1. i \in 1..Len(log') /\ log'[i].kind = kind
    BY DEF Of
  <2>2. CASE i \in 1..Len(log) /\ log'[i] = log[i]
    BY <2>1, <2>2 DEF Of
  <2>3. CASE \E j \in 1..Len(events) : i = Len(log) + j /\ log'[i] = events[j]
    BY <2>1, <2>3 DEF OnlyAt
  <2>4. QED
    BY <2>1, <2>2, <2>3, OldOrNew
<1>2. \A i \in Of(kind) : i \in 1..Len(log) /\ log'[i] = log[i] /\ i \in Of(kind)'
  BY DEF Of, Grows
<1>3. Len(log) + k \in Of(kind)' /\ log'[Len(log) + k] = events[k]
  BY DEF Of, Grows, OnlyAt
<1>4. Len(log) + k \notin 1..Len(log)
  BY DEF Grows, OnlyAt
<1>5. QED
  BY <1>1, <1>2, <1>3, <1>4

LEMMA OfKind ==
    ASSUME NEW e \in Events
    PROVE  /\ e.sequence \in Nat
           /\ e.kind = "position" => e \in PositionEvents
           /\ e.kind = "funding" => e \in FundingEvents
           /\ e.kind = "insurance" => e \in InsuranceFundEvents
           /\ e.kind = "liquidation" => e \in LiquidationEvents
           /\ e.kind = "trade" => e \in TradeEvents
<1>1. CASE e \in TradeEvents
  BY <1>1 DEF TradeEvents
<1>2. CASE e \in PositionEvents
  BY <1>2 DEF PositionEvents
<1>3. CASE e \in LiquidationEvents
  BY <1>3 DEF LiquidationEvents
<1>4. CASE e \in FundingEvents
  BY <1>4 DEF FundingEvents
<1>5. CASE e \in FeeEvents
  BY <1>5 DEF FeeEvents
<1>6. CASE e \in InsuranceFundEvents
  BY <1>6 DEF InsuranceFundEvents
<1>7. QED
  BY <1>1, <1>2, <1>3, <1>4, <1>5, <1>6 DEF Events

LEMMA FiniteIndices ==
    ASSUME log \in Seq(Events), NEW kind, NEW S \in SUBSET Of(kind)
    PROVE  IsFiniteSet(S)
<1>1. Len(log) \in Nat
  OBVIOUS
<1>2. IsFiniteSet(1..Len(log)) /\ S \in SUBSET (1..Len(log))
  BY <1>1, FS_Interval DEF Of
<1>3. QED
  BY <1>2, FS_Subset

-----------------------------------------------------------------------------
(* Numbers and links *)

Numbered(events) ==
    /\ NextNumber \in Nat /\ NextNumber' \in Nat /\ NextNumber <= NextNumber'
    /\ \A j \in 1..Len(events) :
          events[j].sequence = 0 \/ events[j].sequence \in NextNumber..NextNumber' - 1
    /\ \A i, j \in 1..Len(events) :
          i < j /\ events[j].sequence # 0 =>
            /\ events[i].sequence <= events[j].sequence
            /\ events[i].kind = events[j].kind => events[i].sequence < events[j].sequence

LEMMA NumbersInd ==
    ASSUME NEW events, Grows(events), Numbered(events), NumbersTaken, NumbersIncrease
    PROVE  NumbersTaken' /\ NumbersIncrease'
<1> DEFINE n == Len(log)
<1>1. \A i \in 1..n : log[i].sequence \in Nat
  BY OfKind DEF Grows
<1>2. \A j \in 1..Len(events) : events[j].sequence \in Nat
  BY OfKind DEF Grows
<1>3. NumbersTaken'
  <2> SUFFICES ASSUME NEW i \in 1..Len(log')
               PROVE  log'[i].sequence = 0 \/ log'[i].sequence < NextNumber'
    BY DEF NumbersTaken, NextNumber
  <2>1. CASE i \in 1..n /\ log'[i] = log[i]
    BY <1>1, <2>1 DEF NumbersTaken, Numbered
  <2>2. CASE \E j \in 1..Len(events) : log'[i] = events[j]
    BY <1>2, <2>2 DEF Numbered
  <2>3. QED
    BY <2>1, <2>2, OldOrNew
<1>4. NumbersIncrease'
  <2> SUFFICES ASSUME NEW i \in 1..Len(log'), NEW j \in 1..Len(log'), i < j,
                      log'[j].sequence # 0
               PROVE  /\ log'[i].sequence <= log'[j].sequence
                      /\ log'[i].kind = log'[j].kind => log'[i].sequence < log'[j].sequence
    BY DEF NumbersIncrease
  <2>1. CASE j \in 1..n
    <3>1. i \in 1..n
      BY <2>1 DEF Grows
    <3>2. log'[i] = log[i] /\ log'[j] = log[j]
      BY <2>1, <3>1 DEF Grows
    <3>3. QED
      BY <2>1, <3>1, <3>2 DEF NumbersIncrease
  <2>2. ASSUME NEW l \in 1..Len(events), j = n + l, log'[j] = events[l]
        PROVE  /\ log'[i].sequence <= log'[j].sequence
               /\ log'[i].kind = log'[j].kind => log'[i].sequence < log'[j].sequence
    <3>1. CASE i \in 1..n /\ log'[i] = log[i]
      <4>1. log[i].sequence = 0 \/ log[i].sequence < NextNumber
        BY <3>1 DEF NumbersTaken
      <4>2. events[l].sequence \in NextNumber..NextNumber' - 1 /\ events[l].sequence # 0
        BY <2>2 DEF Numbered
      <4>3. log[i].sequence < events[l].sequence
        <5>1. log[i].sequence \in Nat /\ events[l].sequence \in Nat
          BY <1>1, <1>2, <3>1
        <5>2. NextNumber \in Nat /\ NextNumber' \in Nat
          BY DEF Numbered
        <5>3. PICK a, b, x, y : /\ a = log[i].sequence /\ b = events[l].sequence
                                /\ x = NextNumber /\ y = NextNumber'
          OBVIOUS
        <5>4. /\ a \in Nat /\ b \in Nat /\ x \in Nat /\ y \in Nat
              /\ a = 0 \/ a < x
              /\ b \in x..y - 1 /\ b # 0
          BY <4>1, <4>2, <5>1, <5>2, <5>3
        <5>5. a < b
          BY <5>4
        <5>6. QED
          BY <5>3, <5>5
      <4>4. QED
        BY <1>1, <1>2, <2>2, <3>1, <4>3
    <3>2. ASSUME NEW k \in 1..Len(events), i = n + k, log'[i] = events[k]
          PROVE  /\ log'[i].sequence <= log'[j].sequence
                 /\ log'[i].kind = log'[j].kind => log'[i].sequence < log'[j].sequence
      <4>1. k < l
        BY <2>2, <3>2 DEF Grows
      <4>2. QED
        BY <2>2, <3>2, <4>1 DEF Numbered
    <3>3. QED
      BY <3>1, <3>2, OldOrNew
  <2>3. QED
    BY <2>1, <2>2, OldOrNew
<1>5. QED
  BY <1>3, <1>4

Linked(events) ==
    \A i \in 1..Len(events) :
        events[i].kind = "position" /\ events[i].event_type \in {2, 3, 4} =>
            \E j \in 1..Len(events) :
                /\ events[j].kind \in {"trade", "liquidation"}
                /\ events[j].id = events[i].id
                /\ events[j].sequence = events[i].related_trade_sequence
                /\ events[j].size = -events[i].size_delta
                /\ events[j].realized_pnl = events[i].realized_pnl

\* There is an event the i-th names as its trade.
HasTrade(i) ==
    \E j \in 1..Len(log) :
        /\ log[j].kind \in {"trade", "liquidation"}
        /\ log[j].id = log[i].id
        /\ log[j].sequence = log[i].related_trade_sequence
        /\ log[j].size = -log[i].size_delta
        /\ log[j].realized_pnl = log[i].realized_pnl

AllLinked ==
    \A i \in 1..Len(log) :
        log[i].kind = "position" /\ log[i].event_type \in {2, 3, 4} => HasTrade(i)

LEMMA LinksRestated == (ClosesLinked <=> AllLinked) /\ (ClosesLinked <=> AllLinked)'
<1>1. ASSUME ClosesLinked PROVE AllLinked
  BY <1>1 DEF ClosesLinked, AllLinked, HasTrade, About, Of
<1>2. ASSUME AllLinked PROVE ClosesLinked
  BY <1>2 DEF ClosesLinked, AllLinked, HasTrade, About, Of
<1>3. ASSUME ClosesLinked' PROVE AllLinked'
  BY <1>3 DEF ClosesLinked, AllLinked, HasTrade, About, Of
<1>4. ASSUME AllLinked' PROVE ClosesLinked'
  BY <1>4 DEF ClosesLinked, AllLinked, HasTrade, About, Of
<1>5. QED
  BY <1>1, <1>2, <1>3, <1>4

LEMMA LinksInd ==
    ASSUME NEW events, Grows(events), Linked(events), ClosesLinked
    PROVE  ClosesLinked'
<1>1. SUFFICES ASSUME NEW i \in 1..Len(log'), log'[i].kind = "position",
                      log'[i].event_type \in {2, 3, 4}
               PROVE  HasTrade(i)'
  BY LinksRestated DEF AllLinked
<1>2. CASE i \in 1..Len(log) /\ log'[i] = log[i]
  <2>1. PICK j \in 1..Len(log) :
            /\ log[j].kind \in {"trade", "liquidation"}
            /\ log[j].id = log[i].id
            /\ log[j].sequence = log[i].related_trade_sequence
            /\ log[j].size = -log[i].size_delta
            /\ log[j].realized_pnl = log[i].realized_pnl
    BY <1>1, <1>2, LinksRestated DEF AllLinked, HasTrade
  <2>2. log'[j] = log[j] /\ j \in 1..Len(log')
    BY DEF Grows
  <2>3. QED
    BY <1>2, <2>1, <2>2 DEF HasTrade
<1>3. ASSUME NEW k \in 1..Len(events), log'[i] = events[k] PROVE HasTrade(i)'
  <2>1. PICK j \in 1..Len(events) :
            /\ events[j].kind \in {"trade", "liquidation"}
            /\ events[j].id = events[k].id
            /\ events[j].sequence = events[k].related_trade_sequence
            /\ events[j].size = -events[k].size_delta
            /\ events[j].realized_pnl = events[k].realized_pnl
    BY <1>1, <1>3 DEF Linked
  <2>2. log'[Len(log) + j] = events[j] /\ Len(log) + j \in 1..Len(log')
    BY DEF Grows
  <2>3. QED
    BY <1>3, <2>1, <2>2 DEF HasTrade
<1>4. QED
  BY <1>2, <1>3, OldOrNew
-----------------------------------------------------------------------------
(* Accounts *)

\* Of these events the k-th is about the position id and none other about any.
PositionLogged(events, k, id) ==
    /\ k \in 1..Len(events)
    /\ \A j \in 1..Len(events) :
          (events[j].kind = "position" <=> j = k) /\ events[j].kind # "funding"
    /\ events[k].id = id

SizeOf(id) == IF id \in DOMAIN position THEN position[id].size ELSE 0

FundingOf(id) == IF id \in DOMAIN position THEN position[id].cumulative_funding ELSE 0

\* The account of id changes as the event e says; no other does.
AccountShown(e, id) ==
    /\ DOMAIN position' = DOMAIN position \cup {id}
    /\ \A i \in DOMAIN position : i # id => position'[i] = position[i]
    /\ IsApproximate(e) \/ e.after = Snapshot(id)'
    /\ position'[id].size = SizeOf(id) + e.size_delta
    /\ position'[id].cumulative_funding = FundingOf(id)

LEMMA AboutGrown ==
    ASSUME NEW events, Grows(events), NEW k, NEW id, PositionLogged(events, k, id)
    PROVE  /\ Of("position")' = Of("position") \cup {Len(log) + k}
           /\ About(id, "position")' = About(id, "position") \cup {Len(log) + k}
           /\ \A i : i # id => About(i, "position")' = About(i, "position")
           /\ Of("funding")' = Of("funding")
           /\ \A i : About(i, "funding")' = About(i, "funding")
           /\ Len(log) + k \notin Of("position")
           /\ log'[Len(log) + k] = events[k]
           /\ \A i \in Of("position") : i \in 1..Len(log) /\ log'[i] = log[i]
           /\ \A i \in Of("funding") : i \in 1..Len(log) /\ log'[i] = log[i]
<1>1. OnlyAt(events, k, "position")
  BY DEF PositionLogged, OnlyAt
<1>2. /\ Of("position")' = Of("position") \cup {Len(log) + k}
      /\ Len(log) + k \notin Of("position")
      /\ log'[Len(log) + k] = events[k]
      /\ \A i \in Of("position") : i \in 1..Len(log) /\ log'[i] = log[i]
  BY <1>1, OneOf
<1>3. \A j \in 1..Len(events) : events[j].kind # "funding"
  BY DEF PositionLogged
<1>4. /\ Of("funding")' = Of("funding")
      /\ \A i \in Of("funding") : i \in 1..Len(log) /\ log'[i] = log[i]
  BY <1>3, NoneOf
<1>5. log'[Len(log) + k].id = id
  BY <1>2 DEF PositionLogged
<1>6. About(id, "position")' = About(id, "position") \cup {Len(log) + k}
  BY <1>2, <1>5 DEF About
<1>7. \A i : i # id => About(i, "position")' = About(i, "position")
  BY <1>2, <1>5 DEF About
<1>8. \A i : About(i, "funding")' = About(i, "funding")
  BY <1>4 DEF About
<1>9. QED
  BY <1>2, <1>4, <1>6, <1>7, <1>8

LEMMA AccountsReportedInd ==
    ASSUME NEW events, Grows(events), NEW k, NEW id, PositionLogged(events, k, id),
           AccountShown(events[k], id), AccountsReported, LastShown
    PROVE  AccountsReported' /\ LastShown'
<1> DEFINE l == Len(log) + k
<1>1. /\ Of("position")' = Of("position") \cup {l}
      /\ About(id, "position")' = About(id, "position") \cup {l}
      /\ \A i : i # id => About(i, "position")' = About(i, "position")
      /\ Of("funding")' = Of("funding")
      /\ log'[l] = events[k]
      /\ \A i \in Of("position") : i \in 1..Len(log) /\ log'[i] = log[i]
      /\ \A i \in Of("funding") : i \in 1..Len(log) /\ log'[i] = log[i]
  BY AboutGrown
<1>2. /\ DOMAIN position' = DOMAIN position \cup {id}
      /\ \A i \in DOMAIN position : i # id => position'[i] = position[i]
      /\ IsApproximate(events[k]) \/ events[k].after = Snapshot(id)'
  BY DEF AccountShown
<1>3. events[k].id = id
  BY DEF PositionLogged
<1>4. \A i \in 1..Len(log) : i <= l
  BY DEF Grows, PositionLogged
<1> HIDE DEF l
<1>5. AccountsReported'
  <2>1. DOMAIN position' = {log'[i].id : i \in Of("position")'}
    BY <1>1, <1>2, <1>3 DEF AccountsReported
  <2>2. \A i \in Of("funding")' : log'[i].id \in DOMAIN position'
    BY <1>1, <1>2 DEF AccountsReported
  <2>3. QED
    BY <2>1, <2>2 DEF AccountsReported
<1>6. LastShown'
  <2> SUFFICES ASSUME NEW i \in DOMAIN position'
               PROVE  \E j \in About(i, "position")' :
                         /\ \A h \in About(i, "position")' : h <= j
                         /\ IsApproximate(log'[j]) \/ log'[j].after = Snapshot(i)'
    BY DEF LastShown, IsApproximate
  <2>1. CASE i = id
    <3>1. \A h \in About(id, "position")' : h <= l
      <4>1. l <= l
        BY DEF l, Grows, PositionLogged
      <4>2. QED
        BY <1>1, <1>4, <4>1 DEF About
    <3>2. QED
      BY <1>1, <1>2, <2>1, <3>1
  <2>2. CASE i # id
    <3>1. i \in DOMAIN position /\ Snapshot(i)' = Snapshot(i)
      BY <1>2, <2>2 DEF Snapshot
    <3>2. PICK j \in About(i, "position") :
                  /\ \A h \in About(i, "position") : h <= j
                  /\ IsApproximate(log[j]) \/ log[j].after = Snapshot(i)
      BY <3>1 DEF LastShown
    <3>3. log'[j] = log[j] /\ About(i, "position")' = About(i, "position")
      BY <1>1, <2>2, <3>2 DEF About
    <3>4. QED
      BY <3>1, <3>2, <3>3
  <2>3. QED
    BY <2>1, <2>2
<1>7. QED
  BY <1>5, <1>6

\* LastShown says what SnapshotsRebuildMost says.
LEMMA LastIsLast == LastShown => SnapshotsRebuildMost
<1> SUFFICES ASSUME LastShown, NEW id \in DOMAIN position
             PROVE  LET e == log[LastOf(About(id, "position"))]
                    IN  IsApproximate(e) \/ e.after = Snapshot(id)
  BY DEF SnapshotsRebuildMost
<1> DEFINE S == About(id, "position")
<1>1. PICK i \in S : /\ \A j \in S : j <= i
                     /\ IsApproximate(log[i]) \/ log[i].after = Snapshot(id)
  BY DEF LastShown
<1>2. S \in SUBSET Int
  BY DEF About, Of
<1> HIDE DEF S
<1>3. LastOf(S) \in S /\ \A j \in S : j <= LastOf(S)
  BY <1>1 DEF LastOf
<1>4. LastOf(S) = i
  <2>1. i <= LastOf(S) /\ LastOf(S) <= i
    BY <1>1, <1>3
  <2>2. i \in Int /\ LastOf(S) \in Int
    BY <1>1, <1>2, <1>3
  <2> DEFINE m == LastOf(S)
  <2> HIDE DEF m
  <2>3. m = i
    BY <2>1, <2>2 DEF m
  <2>4. QED
    BY <2>3 DEF m
<1>5. QED
  BY <1>1, <1>4 DEF S

-----------------------------------------------------------------------------
(* Changes add up *)

\* DeltasRebuildPositions, said of the accounts there are not as well.
DeltasOf(id) ==
    /\ SumFunction(SizeDeltas(id)) = SizeOf(id)
    /\ SumFunction(Payments(id)) = FundingOf(id)

LEMMA DeltasOfAll ==
    ASSUME AccountsReported, DeltasRebuildPositions, NEW id PROVE DeltasOf(id)
<1>1. CASE id \in DOMAIN position
  BY <1>1 DEF DeltasRebuildPositions, DeltasOf, SizeOf, FundingOf
<1>2. CASE id \notin DOMAIN position
  <2>1. About(id, "position") = {} /\ About(id, "funding") = {}
    BY <1>2 DEF AccountsReported, About
  <2>2. DOMAIN SizeDeltas(id) = {} /\ DOMAIN Payments(id) = {}
    BY <2>1 DEF SizeDeltas, Payments
  <2>3. SumFunction(SizeDeltas(id)) = 0 /\ SumFunction(Payments(id)) = 0
    BY <2>2, SumEmpty DEF SumFunction
  <2>4. QED
    BY <1>2, <2>3 DEF DeltasOf, SizeOf, FundingOf
<1>3. QED
  BY <1>1, <1>2

LEMMA PositionColumns ==
    ASSUME log \in Seq(Events), NEW i \in Of("position")
    PROVE  log[i] \in PositionEvents
  BY OfKind DEF Of

LEMMA DeltasInd ==
    ASSUME NEW events, Grows(events), NEW k, NEW id, PositionLogged(events, k, id),
           AccountShown(events[k], id), AccountsReported, DeltasRebuildPositions
    PROVE  DeltasRebuildPositions'
<1> DEFINE l == Len(log) + k
<1>1. /\ About(id, "position")' = About(id, "position") \cup {l}
      /\ \A i : i # id => About(i, "position")' = About(i, "position")
      /\ \A i : About(i, "funding")' = About(i, "funding")
      /\ l \notin Of("position")
      /\ log'[l] = events[k]
      /\ \A i \in Of("position") : i \in 1..Len(log) /\ log'[i] = log[i]
      /\ \A i \in Of("funding") : i \in 1..Len(log) /\ log'[i] = log[i]
  BY AboutGrown
<1>2. SumFunction(SizeDeltas(id))' = SumFunction(SizeDeltas(id)) + events[k].size_delta
  <2> DEFINE f == SizeDeltas(id)
             g == SizeDeltas(id)'
             S == About(id, "position")
  <2>1. S \in SUBSET Of("position") /\ l \notin S
    BY <1>1 DEF About
  <2>2. IsFiniteSet(S)
    BY <2>1, FiniteIndices DEF Grows
  <2>3. \A i \in S : log[i].size_delta \in Int
    BY <2>1, PositionColumns DEF Grows, PositionEvents
  <2>4. events[k].size_delta \in Int
    <3>1. k \in 1..Len(events) /\ events[k].kind = "position"
      BY DEF PositionLogged
    <3>2. events[k] \in Events
      BY <3>1 DEF Grows
    <3>3. QED
      BY <3>1, <3>2, OfKind DEF PositionEvents
  <2>5. DOMAIN f = S /\ \A i \in S : f[i] = log[i].size_delta
    BY DEF SizeDeltas
  <2>6. /\ DOMAIN g = S \cup {l} /\ g[l] = events[k].size_delta
        /\ \A i \in S : g[i] = log[i].size_delta
    BY <1>1, <2>1 DEF SizeDeltas
  <2> HIDE DEF f, g, S, l
  <2>7. Updates(f, g, S, l)
    BY <2>1, <2>2, <2>3, <2>4, <2>5, <2>6 DEF Updates
  <2>8. SumFunction(g) = SumFunction(f) + g[l]
    BY <2>1, <2>7, TableUpdated
  <2>9. QED
    BY <2>6, <2>8 DEF f, g
<1>3. \A i : i # id => SizeDeltas(i)' = SizeDeltas(i)
  BY <1>1 DEF SizeDeltas, About
<1>4. \A i : Payments(i)' = Payments(i)
  BY <1>1 DEF Payments, About
<1>5. \A i : DeltasOf(i)
  BY DeltasOfAll
<1> SUFFICES ASSUME NEW i \in DOMAIN position'
             PROVE  /\ SumFunction(SizeDeltas(i))' = position'[i].size
                    /\ SumFunction(Payments(i))' = position'[i].cumulative_funding
  BY DEF DeltasRebuildPositions
<1>6. CASE i = id
  BY <1>2, <1>4, <1>5, <1>6 DEF AccountShown, DeltasOf
<1>7. CASE i # id
  BY <1>3, <1>4, <1>5, <1>7 DEF AccountShown, DeltasOf, SizeOf, FundingOf
<1>8. QED
  BY <1>6, <1>7

-----------------------------------------------------------------------------
(* Money *)

\* Profit and loss of all users, booked in UserStats or not.
Profit == SumFunction(RealizedPnls) + unbookedPnl

LEMMA ProfitsAreInt ==
    ASSUME IndInv, IndInv', BooksInv, BooksInv'
    PROVE  /\ SumFunction(RealizedPnls) \in Int /\ SumFunction(RealizedPnls)' \in Int
           /\ unbookedPnl \in Int /\ unbookedPnl' \in Int
<1>1. BooksTyped /\ BooksTyped'
  BY DEF IndInv, TypeOK, BooksTyped
<1>2. IsFiniteSet(DOMAIN userStats) /\ IsFiniteSet(DOMAIN userStats')
  BY DEF BooksInv
<1>3. SumFunction(RealizedPnls) \in Int
  BY <1>1, <1>2, TotalsAreInt
<1>4. SumFunction(RealizedPnls)' \in Int
  <2>1. \A u \in DOMAIN userStats' : userStats'[u] \in UserStats
    BY <1>1 DEF BooksTyped
  <2>2. QED
    BY <1>2, <2>1, SumIsInt DEF SumFunction, RealizedPnls, UserStats
<1>5. QED
  BY <1>1, <1>3, <1>4 DEF BooksTyped

\* Terms of a balance before and after a step.
LEMMA TakenOut ==
    ASSUME NEW a \in Int, NEW v \in Int, NEW i \in Int, NEW f \in Int, NEW profit \in Int,
           NEW a2 \in Int, NEW v2, NEW i2 \in Int, NEW f2 \in Int, NEW profit2 \in Int,
           NEW locked \in Int, NEW pnl \in Int,
           v2 = v + locked,
           a + v + i = profit - f, a2 + v2 + i2 = profit2 - f2,
           a2 + locked + i2 + f2 = a + i + f + pnl
    PROVE  profit2 = profit + pnl
  OBVIOUS

\* The profit of a handler is what it takes out of the vault, the fund and the fees:
\* the books balance before and after.
LEMMA ProfitMoved ==
    ASSUME IndInv, IndInv', BooksInv, BooksInv', NEW locked \in Int, Locked(locked),
           NEW pnl \in Int,
           vaultAvailable' + locked + insurance' + settledFees'
             = vaultAvailable + insurance + settledFees + pnl
    PROVE  Profit \in Int /\ Profit' = Profit + pnl
<1> DEFINE sum == SumFunction(RealizedPnls)
           sumAfter == SumFunction(RealizedPnls)'
           vault == SumFunction(vaultLocked)
           vaultAfter == SumFunction(vaultLocked)'
<1>1. /\ sum \in Int /\ sumAfter \in Int /\ unbookedPnl \in Int /\ unbookedPnl' \in Int
  BY ProfitsAreInt
<1>2. vault \in Int /\ vaultAfter = vault + locked
  BY DEF Locked
<1>3. vaultAvailable + vault + insurance = sum + unbookedPnl - settledFees
  BY DEF BooksInv, FlowsMatchBooks
<1>4. vaultAvailable' + vaultAfter + insurance' = sumAfter + unbookedPnl' - settledFees'
  BY DEF BooksInv, FlowsMatchBooks
<1>5. /\ vaultAvailable \in Int /\ insurance \in Int /\ settledFees \in Int
      /\ vaultAvailable' \in Int /\ insurance' \in Int /\ settledFees' \in Int
  BY DEF IndInv, TypeOK
<1>6. Profit = sum + unbookedPnl /\ Profit' = sumAfter + unbookedPnl'
  BY DEF Profit
<1> HIDE DEF sum, sumAfter, vault, vaultAfter
<1>7. Profit \in Int
  BY <1>1, <1>6
<1>8. sumAfter + unbookedPnl' = sum + unbookedPnl + pnl
  <2> DEFINE avail == vaultAvailable'
             fund == insurance'
             fees == settledFees'
             before == sum + unbookedPnl
             after == sumAfter + unbookedPnl'
  <2>1. avail \in Int /\ fund \in Int /\ fees \in Int /\ before \in Int /\ after \in Int
    BY <1>1, <1>5
  <2>2. avail + locked + fund + fees = vaultAvailable + insurance + settledFees + pnl
    OBVIOUS
  <2>3. vaultAvailable + vault + insurance = before - settledFees
    BY <1>1, <1>3, <1>5
  <2>4. avail + vaultAfter + fund = after - fees
    BY <1>1, <1>4, <1>5
  <2> HIDE DEF avail, fund, fees, before, after
  <2>5. after = before + pnl
    BY <1>2, <1>5, <2>1, <2>2, <2>3, <2>4, TakenOut
  <2>6. QED
    BY <2>5 DEF before, after
<1>9. QED
  BY <1>6, <1>7, <1>8

\* The books move as the position event e and the events of the fund say.
MoneyShown(e, income, payout) ==
    /\ Profit \in Int
    /\ Profit' = Profit + e.realized_pnl
    /\ ledgerConfig.total_fees_collected \in Int
    /\ ledgerConfig'.total_fees_collected
         = ledgerConfig.total_fees_collected + (IF e.event_type = 4 THEN 0 ELSE e.fee)
    /\ insurance \in Int
    /\ insurance' = insurance + income - payout

\* What the log says of the fund grows by this much.
FundShown(income, payout) ==
    /\ income \in Int /\ payout \in Int
    /\ SumFunction(FundIncome) \in Int /\ SumFunction(FundPayouts) \in Int
    /\ SumFunction(FundIncome)' = SumFunction(FundIncome) + income
    /\ SumFunction(FundPayouts)' = SumFunction(FundPayouts) + payout

LEMMA FundColumns ==
    ASSUME log \in Seq(Events)
    PROVE  /\ IsFiniteSet(Of("insurance")) /\ IsFiniteSet(Of("liquidation"))
           /\ \A i \in Of("insurance") : log[i].amount \in Int
           /\ \A i \in Of("liquidation") : log[i].insurance_payout \in Int
           /\ SumFunction(FundIncome) \in Int /\ SumFunction(FundPayouts) \in Int
<1>1. IsFiniteSet(Of("insurance")) /\ IsFiniteSet(Of("liquidation"))
  BY FiniteIndices
<1>2. \A i \in Of("insurance") : log[i] \in InsuranceFundEvents
  BY OfKind DEF Of
<1>3. \A i \in Of("liquidation") : log[i] \in LiquidationEvents
  BY OfKind DEF Of
<1>4. /\ \A i \in Of("insurance") : log[i].amount \in Int
      /\ \A i \in Of("liquidation") : log[i].insurance_payout \in Int
  BY <1>2, <1>3 DEF InsuranceFundEvents, LiquidationEvents
<1>5. SumFunction(FundIncome) \in Int
  BY <1>1, <1>4, SumIsInt DEF SumFunction, FundIncome
<1>6. SumFunction(FundPayouts) \in Int
  BY <1>1, <1>4, SumIsInt DEF SumFunction, FundPayouts
<1>7. QED
  BY <1>1, <1>4, <1>5, <1>6

LEMMA IncomeUnmentioned ==
    ASSUME NEW events, Grows(events), \A j \in 1..Len(events) : events[j].kind # "insurance"
    PROVE  SumFunction(FundIncome)' = SumFunction(FundIncome)
<1>1. FundIncome' = FundIncome
  BY NoneOf DEF FundIncome
<1>2. QED
  BY <1>1

LEMMA PayoutsUnmentioned ==
    ASSUME NEW events, Grows(events), \A j \in 1..Len(events) : events[j].kind # "liquidation"
    PROVE  SumFunction(FundPayouts)' = SumFunction(FundPayouts)
<1>1. FundPayouts' = FundPayouts
  BY NoneOf DEF FundPayouts
<1>2. QED
  BY <1>1

LEMMA FundUnmentioned ==
    ASSUME NEW events, Grows(events),
           \A j \in 1..Len(events) : events[j].kind \notin {"insurance", "liquidation"}
    PROVE  FundShown(0, 0)
<1>1. SumFunction(FundIncome) \in Int /\ SumFunction(FundPayouts) \in Int
  BY FundColumns DEF Grows
<1>2. SumFunction(FundIncome)' = SumFunction(FundIncome)
  BY IncomeUnmentioned
<1>3. SumFunction(FundPayouts)' = SumFunction(FundPayouts)
  BY PayoutsUnmentioned
<1> DEFINE income == SumFunction(FundIncome)
           payouts == SumFunction(FundPayouts)
<1>4. income + 0 = income /\ payouts + 0 = payouts
  <2> HIDE DEF income, payouts
  <2>1. income \in Int /\ payouts \in Int
    BY <1>1 DEF income, payouts
  <2>2. QED
    BY <2>1
<1>5. QED
  BY <1>1, <1>2, <1>3, <1>4 DEF FundShown

LEMMA IncomeGrown ==
    ASSUME NEW events, Grows(events), NEW k \in 1..Len(events),
           \A j \in 1..Len(events) : events[j].kind = "insurance" <=> j = k
    PROVE  SumFunction(FundIncome)' = SumFunction(FundIncome) + events[k].amount
<1> DEFINE l == Len(log) + k
           f == FundIncome
           g == FundIncome'
           S == Of("insurance")
<1>1. /\ S' = S \cup {l} /\ l \notin S /\ log'[l] = events[k]
      /\ \A i \in S : log'[i] = log[i]
  <2>1. OnlyAt(events, k, "insurance")
    BY DEF OnlyAt
  <2>2. QED
    BY <2>1, OneOf
<1>2. IsFiniteSet(S) /\ \A i \in S : log[i].amount \in Int
  BY FundColumns DEF Grows
<1>3. events[k].amount \in Int
  <2>1. events[k] \in Events /\ events[k].kind = "insurance"
    BY DEF Grows
  <2>2. QED
    BY <2>1, OfKind DEF InsuranceFundEvents
<1>4. DOMAIN f = S /\ \A i \in S : f[i] = log[i].amount
  BY DEF FundIncome
<1>5. DOMAIN g = S \cup {l} /\ g[l] = events[k].amount /\ \A i \in S : g[i] = log[i].amount
  BY <1>1 DEF FundIncome
<1> HIDE DEF f, g, S, l
<1>6. Updates(f, g, S, l)
  BY <1>1, <1>2, <1>3, <1>4, <1>5 DEF Updates
<1>7. SumFunction(g) = SumFunction(f) + g[l]
  BY <1>1, <1>6, TableUpdated
<1>8. QED
  BY <1>5, <1>7 DEF f, g

LEMMA PayoutsGrown ==
    ASSUME NEW events, Grows(events), NEW k \in 1..Len(events),
           \A j \in 1..Len(events) : events[j].kind = "liquidation" <=> j = k
    PROVE  SumFunction(FundPayouts)' = SumFunction(FundPayouts) + events[k].insurance_payout
<1> DEFINE l == Len(log) + k
           f == FundPayouts
           g == FundPayouts'
           S == Of("liquidation")
<1>1. /\ S' = S \cup {l} /\ l \notin S /\ log'[l] = events[k]
      /\ \A i \in S : log'[i] = log[i]
  <2>1. OnlyAt(events, k, "liquidation")
    BY DEF OnlyAt
  <2>2. QED
    BY <2>1, OneOf
<1>2. IsFiniteSet(S) /\ \A i \in S : log[i].insurance_payout \in Int
  BY FundColumns DEF Grows
<1>3. events[k].insurance_payout \in Int
  <2>1. events[k] \in Events /\ events[k].kind = "liquidation"
    BY DEF Grows
  <2>2. QED
    BY <2>1, OfKind DEF LiquidationEvents
<1>4. DOMAIN f = S /\ \A i \in S : f[i] = log[i].insurance_payout
  BY DEF FundPayouts
<1>5. /\ DOMAIN g = S \cup {l} /\ g[l] = events[k].insurance_payout
      /\ \A i \in S : g[i] = log[i].insurance_payout
  BY <1>1 DEF FundPayouts
<1> HIDE DEF f, g, S, l
<1>6. Updates(f, g, S, l)
  BY <1>1, <1>2, <1>3, <1>4, <1>5 DEF Updates
<1>7. SumFunction(g) = SumFunction(f) + g[l]
  BY <1>1, <1>6, TableUpdated
<1>8. QED
  BY <1>5, <1>7 DEF f, g

LEMMA PnlsGrown ==
    ASSUME NEW events, Grows(events), NEW k, NEW id, PositionLogged(events, k, id)
    PROVE  /\ SumFunction(ReportedPnls) \in Int
           /\ SumFunction(ReportedPnls)' = SumFunction(ReportedPnls) + events[k].realized_pnl
<1> DEFINE l == Len(log) + k
           f == ReportedPnls
           g == ReportedPnls'
           S == Of("position")
<1>1. /\ S' = S \cup {l} /\ l \notin S /\ log'[l] = events[k]
      /\ \A i \in S : log'[i] = log[i]
  BY AboutGrown
<1>2. IsFiniteSet(S) /\ \A i \in S : log[i].realized_pnl \in Int
  BY FiniteIndices, PositionColumns DEF Grows, PositionEvents
<1>3. events[k].realized_pnl \in Int
  <2>1. k \in 1..Len(events) /\ events[k].kind = "position"
    BY DEF PositionLogged
  <2>2. events[k] \in Events
    BY <2>1 DEF Grows
  <2>3. QED
    BY <2>1, <2>2, OfKind DEF PositionEvents
<1>4. DOMAIN f = S /\ \A i \in S : f[i] = log[i].realized_pnl
  BY DEF ReportedPnls
<1>5. /\ DOMAIN g = S \cup {l} /\ g[l] = events[k].realized_pnl
      /\ \A i \in S : g[i] = log[i].realized_pnl
  BY <1>1 DEF ReportedPnls
<1> HIDE DEF f, g, S, l
<1>6. Updates(f, g, S, l)
  BY <1>1, <1>2, <1>3, <1>4, <1>5 DEF Updates
<1>7. SumFunction(g) = SumFunction(f) + g[l]
  BY <1>1, <1>6, TableUpdated
<1>8. SumFunction(f) \in Int
  BY <1>2, <1>4, SumIsInt DEF SumFunction
<1>9. QED
  BY <1>5, <1>7, <1>8 DEF f, g

LEMMA FeesGrown ==
    ASSUME NEW events, Grows(events), NEW k, NEW id, PositionLogged(events, k, id)
    PROVE  /\ SumFunction(TradeFees) \in Int
           /\ SumFunction(TradeFees)'
                = SumFunction(TradeFees)
                    + (IF events[k].event_type = 4 THEN 0 ELSE events[k].fee)
<1> DEFINE l == Len(log) + k
           f == TradeFees
           g == TradeFees'
           S == {i \in Of("position") : log[i].event_type # 4}
           SAfter == {i \in Of("position")' : log'[i].event_type # 4}
<1>1. /\ Of("position")' = Of("position") \cup {l} /\ l \notin Of("position")
      /\ log'[l] = events[k] /\ \A i \in Of("position") : log'[i] = log[i]
  BY AboutGrown
<1>2. IsFiniteSet(S) /\ \A i \in S : log[i].fee \in Int
  <2>1. log \in Seq(Events) /\ S \in SUBSET Of("position")
    BY DEF Grows
  <2>2. \A i \in S : log[i] \in PositionEvents
    BY <2>1, PositionColumns
  <2>3. \A i \in S : log[i].fee \in Int
    BY <2>2 DEF PositionEvents
  <2> HIDE DEF S
  <2>4. QED
    BY <2>1, <2>3, FiniteIndices
<1>3. events[k].fee \in Int
  <2>1. k \in 1..Len(events) /\ events[k].kind = "position"
    BY DEF PositionLogged
  <2>2. events[k] \in Events
    BY <2>1 DEF Grows
  <2>3. QED
    BY <2>1, <2>2, OfKind DEF PositionEvents
<1>4. DOMAIN f = S /\ \A i \in S : f[i] = log[i].fee
  BY DEF TradeFees
<1>5. l \notin S /\ \A i \in S : log'[i] = log[i]
  BY <1>1
<1>6. SumFunction(f) \in Int
  <2> HIDE DEF f, S
  <2>1. QED
    BY <1>2, <1>4, SumIsInt DEF SumFunction
<1>7. CASE events[k].event_type = 4
  <2>1. SAfter = S
    BY <1>1, <1>7
  <2>2. g = f
    BY <1>5, <2>1 DEF TradeFees
  <2> HIDE DEF f, g
  <2>3. SumFunction(g) = SumFunction(f) + 0
    <3> DEFINE total == SumFunction(f)
    <3>1. total \in Int
      BY <1>6
    <3> HIDE DEF total
    <3>2. total = total + 0
      BY <3>1
    <3>3. QED
      BY <2>2, <3>2 DEF total
  <2>4. QED
    BY <1>6, <1>7, <2>3 DEF f, g
<1>8. CASE events[k].event_type # 4
  <2>1. SAfter = S \cup {l}
    BY <1>1, <1>8
  <2>2. DOMAIN g = SAfter /\ \A i \in SAfter : g[i] = log'[i].fee
    BY DEF TradeFees
  <2>3. DOMAIN g = S \cup {l} /\ g[l] = events[k].fee /\ \A i \in S : g[i] = log[i].fee
    BY <1>1, <1>5, <2>1, <2>2
  <2> HIDE DEF f, g, S, l
  <2>4. Updates(f, g, S, l)
    BY <1>2, <1>3, <1>4, <2>3, <1>5 DEF Updates
  <2>5. SumFunction(g) = SumFunction(f) + g[l]
    BY <1>5, <2>4, TableUpdated
  <2>6. QED
    BY <1>6, <1>8, <2>3, <2>5 DEF f, g
<1>9. QED
  BY <1>7, <1>8

LEMMA MoneyInd ==
    ASSUME NEW events, Grows(events), NEW k, NEW id, PositionLogged(events, k, id),
           NEW income, NEW payout, MoneyShown(events[k], income, payout),
           FundShown(income, payout), MoneyReported
    PROVE  MoneyReported'
<1>1. /\ SumFunction(ReportedPnls) \in Int
      /\ SumFunction(ReportedPnls)' = SumFunction(ReportedPnls) + events[k].realized_pnl
  BY PnlsGrown
<1>2. SumFunction(TradeFees)'
        = SumFunction(TradeFees) + (IF events[k].event_type = 4 THEN 0 ELSE events[k].fee)
  BY FeesGrown
<1>3. SumFunction(ReportedPnls)' = Profit'
  BY <1>1 DEF MoneyReported, MoneyShown, Profit
<1>4. SumFunction(TradeFees)' = ledgerConfig'.total_fees_collected
  BY <1>2 DEF MoneyReported, MoneyShown
<1>5. SumFunction(FundIncome)' - SumFunction(FundPayouts)' = insurance'
  <2> DEFINE in == SumFunction(FundIncome)
             out == SumFunction(FundPayouts)
             inAfter == SumFunction(FundIncome)'
             outAfter == SumFunction(FundPayouts)'
  <2>1. /\ in \in Int /\ out \in Int /\ income \in Int /\ payout \in Int
        /\ inAfter = in + income /\ outAfter = out + payout
    BY DEF FundShown
  <2>2. in - out = insurance /\ insurance \in Int /\ insurance' = insurance + income - payout
    BY DEF MoneyReported, MoneyShown
  <2> HIDE DEF in, out, inAfter, outAfter
  <2>3. inAfter - outAfter = insurance'
    BY <2>1, <2>2
  <2>4. QED
    BY <2>3 DEF inAfter, outAfter
<1>6. QED
  BY <1>3, <1>4, <1>5 DEF MoneyReported, Profit

-----------------------------------------------------------------------------
(* What a handler has to report to keep the log in order *)

\* The events are numbered and linked, and the k-th of them says what happens to
\* the account id and to the books.
Reports(events, k, id, income, payout) ==
    /\ Numbered(events)
    /\ Linked(events)
    /\ PositionLogged(events, k, id)
    /\ AccountShown(events[k], id)
    /\ MoneyShown(events[k], income, payout)

LEMMA ReportedInd ==
    ASSUME LogInv, NEW events, Grows(events), NEW k, NEW id, NEW income, NEW payout,
           Reports(events, k, id, income, payout), FundShown(income, payout)
    PROVE  LogInv'
<1>1. /\ Numbered(events) /\ Linked(events) /\ PositionLogged(events, k, id)
      /\ AccountShown(events[k], id) /\ MoneyShown(events[k], income, payout)
  BY DEF Reports
<1>2. LogTypeOK'
  BY DEF Grows, LogTypeOK
<1>3. NumbersTaken' /\ NumbersIncrease'
  BY <1>1, NumbersInd DEF LogInv
<1>4. ClosesLinked'
  BY <1>1, LinksInd DEF LogInv
<1>5. AccountsReported' /\ LastShown'
  BY <1>1, AccountsReportedInd DEF LogInv
<1>6. DeltasRebuildPositions'
  BY <1>1, DeltasInd DEF LogInv
<1>7. MoneyReported'
  BY <1>1, MoneyInd DEF LogInv
<1>8. QED
  BY <1>2, <1>3, <1>4, <1>5, <1>6, <1>7 DEF LogInv

LEMMA EventKinds ==
    /\ TradeEvents \subseteq Events /\ PositionEvents \subseteq Events
    /\ LiquidationEvents \subseteq Events /\ FundingEvents \subseteq Events
    /\ FeeEvents \subseteq Events /\ InsuranceFundEvents \subseteq Events
  BY DEF Events

\* The handlers that report one event, of a position.
LEMMA OneEvent ==
    ASSUME LogInv, NEW e \in PositionEvents, e.event_type \notin {2, 3, 4}, Emit(<<e>>),
           NextNumber \in Nat, NextNumber' \in Nat, NextNumber <= NextNumber',
           e.sequence = 0 \/ e.sequence \in NextNumber..NextNumber' - 1,
           AccountShown(e, e.id), MoneyShown(e, 0, 0)
    PROVE  LogInv'
<1> DEFINE events == <<e>>
<1>1. e \in Events /\ e.kind = "position"
  BY EventKinds DEF PositionEvents
<1>2. events \in Seq(Events) /\ Len(events) = 1 /\ events[1] = e /\ 1..1 = {1}
  BY <1>1
<1> HIDE DEF events
<1>3. Grows(events)
  <2>1. Emit(events) /\ log \in Seq(Events)
    BY DEF events, LogInv, LogTypeOK
  <2>2. QED
    BY <1>2, <2>1, EmitGrows
<1>4. Numbered(events)
  BY <1>2 DEF Numbered
<1>5. Linked(events)
  BY <1>2 DEF Linked
<1>6. PositionLogged(events, 1, e.id)
  BY <1>1, <1>2 DEF PositionLogged
<1>7. Reports(events, 1, e.id, 0, 0)
  BY <1>2, <1>4, <1>5, <1>6 DEF Reports
<1>8. FundShown(0, 0)
  BY <1>1, <1>2, <1>3, FundUnmentioned
<1>9. QED
  BY <1>3, <1>7, <1>8, ReportedInd

\* The event of a position and that of the trade behind it, in either order.
InOrder(e, t, first, second, k) ==
    /\ \/ first = e /\ second = t /\ k = 1
       \/ first = t /\ second = e /\ k = 2
    /\ NextNumber \in Nat /\ NextNumber' \in Nat /\ NextNumber <= NextNumber'
    /\ first.sequence \in NextNumber..NextNumber' - 1
    /\ second.sequence \in NextNumber..NextNumber' - 1
    /\ first.sequence <= second.sequence
    /\ t.id = e.id
    /\ t.sequence = e.related_trade_sequence
    /\ t.size = -e.size_delta
    /\ t.realized_pnl = e.realized_pnl

\* The handlers that report a close and the trade behind it.
LEMMA TwoEvents ==
    ASSUME LogInv, NEW e \in PositionEvents, NEW t \in TradeEvents,
           NEW first, NEW second, NEW k, InOrder(e, t, first, second, k),
           Emit(<<first, second>>), AccountShown(e, e.id), MoneyShown(e, 0, 0)
    PROVE  LogInv'
<1> USE DEF InOrder
<1> DEFINE events == <<first, second>>
<1>1. /\ e \in Events /\ e.kind = "position"
      /\ t \in Events /\ t.kind = "trade"
  BY EventKinds DEF PositionEvents, TradeEvents
<1>2. /\ events \in Seq(Events) /\ Len(events) = 2
      /\ events[1] = first /\ events[2] = second /\ 1..2 = {1, 2}
  <2>1. first \in Events /\ second \in Events
    BY <1>1
  <2>2. QED
    BY <2>1
<1>3. k \in 1..2 /\ events[k] = e
  BY <1>2
<1>4. first.kind # second.kind
  BY <1>1
<1> HIDE DEF events
<1>5. Grows(events)
  <2>1. Emit(events) /\ log \in Seq(Events)
    BY DEF events, LogInv, LogTypeOK
  <2>2. QED
    BY <1>2, <2>1, EmitGrows
<1>6. Numbered(events)
  <2>1. \A i, j \in {1, 2} :
            i < j /\ events[j].sequence # 0 =>
              /\ events[i].sequence <= events[j].sequence
              /\ events[i].kind = events[j].kind => events[i].sequence < events[j].sequence
    BY <1>2, <1>4
  <2>2. QED
    BY <1>2, <2>1 DEF Numbered
<1>7. Linked(events)
  <2> SUFFICES ASSUME NEW i \in {1, 2}, events[i].kind = "position"
               PROVE  \E j \in {1, 2} :
                        /\ events[j].kind \in {"trade", "liquidation"}
                        /\ events[j].id = events[i].id
                        /\ events[j].sequence = events[i].related_trade_sequence
                        /\ events[j].size = -events[i].size_delta
                        /\ events[j].realized_pnl = events[i].realized_pnl
    BY <1>2 DEF Linked
  <2>1. events[i] = e
    BY <1>1, <1>2
  <2>2. \E j \in {1, 2} : events[j] = t
    BY <1>2
  <2>3. QED
    BY <1>1, <2>1, <2>2
<1>8. PositionLogged(events, k, e.id)
  <2>1. \A j \in {1, 2} : (events[j].kind = "position" <=> j = k) /\ events[j].kind # "funding"
    BY <1>1, <1>2
  <2>2. QED
    BY <1>2, <1>3, <2>1 DEF PositionLogged
<1>9. Reports(events, k, e.id, 0, 0)
  BY <1>3, <1>6, <1>7, <1>8 DEF Reports
<1>10. FundShown(0, 0)
  <2>1. \A j \in {1, 2} : events[j].kind \notin {"insurance", "liquidation"}
    BY <1>1, <1>2
  <2>2. QED
    BY <1>2, <1>5, <2>1, FundUnmentioned
<1>11. QED
  BY <1>5, <1>9, <1>10, ReportedInd

-----------------------------------------------------------------------------
(* What the events hold *)

LEMMA SnapshotsTyped ==
    ASSUME IndInv, IndInv', NEW id
    PROVE  Snapshot(id) \in Snapshots /\ Snapshot(id)' \in Snapshots
<1>1. \A i \in DOMAIN position : position[i] \in Position
  BY DEF IndInv, TypeOK
<1>2. \A i \in DOMAIN position' : position'[i] \in Position
  BY DEF IndInv, TypeOK
<1>3. Snapshot(id) \in Snapshots
  BY <1>1 DEF Snapshot, Snapshots, Position
<1>4. Snapshot(id)' \in Snapshots
  BY <1>2 DEF Snapshot, Snapshots, Position
<1>5. QED
  BY <1>3, <1>4

LEMMA PositionEventFields ==
    ASSUME IndInv, IndInv', NEW seq \in Nat, NEW id \in PositionIds, NEW type \in 0..6,
           NEW delta \in Int, NEW pnl \in Int, NEW fee \in Nat, NEW related \in Nat,
           NEW before, NEW after, before = Snapshot(id), after = Snapshot(id)', NEW e,
           e = [kind |-> "position", sequence |-> seq, id |-> id, event_type |-> type,
                before |-> before, after |-> after, size_delta |-> delta,
                realized_pnl |-> pnl, fee |-> fee, related_trade_sequence |-> related]
    PROVE  /\ e \in PositionEvents
           /\ e.sequence = seq /\ e.id = id /\ e.event_type = type
           /\ e.before = before /\ e.after = after
           /\ e.size_delta = delta /\ e.realized_pnl = pnl /\ e.fee = fee
           /\ e.related_trade_sequence = related
<1>1. before \in Snapshots /\ after \in Snapshots
  BY SnapshotsTyped
<1>2. QED
  BY <1>1 DEF PositionEvents

LEMMA NumbersTyped ==
    ASSUME IndInv PROVE NextNumber \in Nat /\ ledgerConfig.total_fees_collected \in Int
  BY DEF IndInv, TypeOK, LedgerConfig, NextNumber

\* What opening does to the account of id.
LEMMA OpenedShown ==
    ASSUME IndInv, NEW id, NEW side, NEW size \in Nat, NEW price, NEW leverage, NEW margin,
           SetOpened(id, side, size, price, leverage, margin)
    PROVE  /\ DOMAIN position' = DOMAIN position \cup {id}
           /\ \A i \in DOMAIN position : i # id => position'[i] = position[i]
           /\ position'[id].size = SizeOf(id) + size
           /\ position'[id].cumulative_funding = FundingOf(id)
<1>1. /\ DOMAIN position' = DOMAIN position \cup {id}
      /\ \A i \in DOMAIN position : i # id => position'[i] = position[i]
  BY DEF SetOpened
<1>2. CASE id \in DOMAIN position
  <2>1. position'[id] = IncreasedPosition(position[id], size, price, margin)
    BY <1>2 DEF SetOpened
  <2>2. position[id] \in Position
    BY <1>2 DEF IndInv, TypeOK
  <2>3. QED
    BY <1>1, <1>2, <2>1, <2>2 DEF IncreasedPosition, SizeOf, FundingOf, Position
<1>3. CASE id \notin DOMAIN position
  <2>1. position'[id] = NewPosition(side, size, price, leverage, margin)
    BY <1>3 DEF SetOpened
  <2>2. QED
    BY <1>1, <1>3, <2>1 DEF NewPosition, SizeOf, FundingOf
<1>4. QED
  BY <1>2, <1>3

\* What a close settles is never more than there is.
LEMMA ClosedShown ==
    ASSUME IndInv, NEW id \in DOMAIN position, NEW s, s.size \in 0..position[id].size,
           SettleClose(id, s)
    PROVE  /\ DOMAIN position' = DOMAIN position \cup {id}
           /\ \A i \in DOMAIN position : i # id => position'[i] = position[i]
           /\ position'[id].size = SizeOf(id) + (-s.size)
           /\ position'[id].cumulative_funding = FundingOf(id)
<1> DEFINE p == position[id]
<1>1. p \in Position
  BY DEF IndInv, TypeOK
<1>2. position' = [position EXCEPT ![id] = ReducedPosition(p, s.size, s.release)]
  BY DEF SettleClose
<1>3. /\ DOMAIN position' = DOMAIN position \cup {id}
      /\ \A i \in DOMAIN position : i # id => position'[i] = position[i]
      /\ position'[id] = ReducedPosition(p, s.size, s.release)
  BY <1>2
<1>4. SizeOf(id) = p.size /\ FundingOf(id) = p.cumulative_funding
  BY DEF SizeOf, FundingOf
<1> HIDE DEF p
<1>5. /\ ReducedPosition(p, s.size, s.release).size = p.size + (-s.size)
      /\ ReducedPosition(p, s.size, s.release).cumulative_funding = p.cumulative_funding
  <2>1. p.size \in Nat /\ s.size \in Nat /\ s.size <= p.size
    BY <1>1 DEF p, Position
  <2>2. CASE s.size >= p.size
    BY <1>1, <2>1, <2>2 DEF ReducedPosition, Cleared, Position
  <2>3. CASE s.size < p.size
    BY <1>1, <2>1, <2>3 DEF ReducedPosition, Position
  <2>4. QED
    BY <2>1, <2>2, <2>3
<1>6. QED
  BY <1>3, <1>4, <1>5

-----------------------------------------------------------------------------
(* The handlers *)

\* What all handlers start from: both invariants of PerpLedger, before and after.
Sound == IndInv /\ IndInv' /\ BooksInv /\ BooksInv'

LEMMA OpenPositionLogged ==
    ASSUME LogInv, Sound, NEW u \in Users, NEW m \in Markets, NEW side \in Sides,
           NEW size \in Sizes, NEW price \in Prices, NEW leverage \in Leverages,
           NEW feeRate \in FeeRates,
           OpenPosition(u, m, side, size, price, leverage, feeRate),
           EmitOpened(<<u, m>>, size, Fee(size, price, feeRate))
    PROVE  LogInv'
<1>0. PICK id : id = <<u, m>>
  OBVIOUS
<1> DEFINE fee == Fee(size, price, feeRate)
           toLock == RequiredMargin(size, price, leverage) + fee
           type == IF id \in DOMAIN position THEN 1 ELSE 0
<1>s. PICK before, after : before = Snapshot(id) /\ after = Snapshot(id)'
  OBVIOUS
<1>e. PICK e : e = [kind |-> "position", sequence |-> NextNumber, id |-> id,
                   event_type |-> type, before |-> before, after |-> after,
                   size_delta |-> size, realized_pnl |-> 0, fee |-> fee,
                   related_trade_sequence |-> 0]
  OBVIOUS
<1>1. /\ IndInv /\ IndInv' /\ BooksInv /\ BooksInv'
      /\ AccountsInv /\ BooksTyped /\ id \in PositionIds
  BY <1>0, Halves DEF PositionIds, Sound
<1>2. size \in Nat /\ fee \in Nat /\ toLock \in Nat
  <2>1. leverage \in Nat \ {0} /\ size \in Nat
    BY RateAssumption, InputAssumption, ScaleAssumption DEF OpenPosition, ValidOpen
  <2>2. QED
    BY <2>1, TradeAmounts
<1>3. /\ ledgerConfig'.total_fees_collected = ledgerConfig.total_fees_collected + fee
      /\ NextNumber' = NextNumber + 1
      /\ vaultLocked' = [vaultLocked EXCEPT ![id] = @ + toLock]
      /\ vaultAvailable' = vaultAvailable - toLock
      /\ UNCHANGED <<insurance, settledFees>>
      /\ SetOpened(id, side, size, price, leverage, toLock)
  BY <1>0, <1>1 DEF OpenPosition, LockMargin, history, BooksTyped, LedgerConfig, NextNumber
<1>4. Emit(<<e>>)
  BY <1>0, <1>s, <1>e DEF EmitOpened, PositionEvent
<1>5. NextNumber \in Nat /\ ledgerConfig.total_fees_collected \in Int
  BY <1>1, NumbersTyped
<1>6. type \in 0..1
  OBVIOUS
<1> HIDE DEF fee, toLock, type
<1>7. /\ e \in PositionEvents /\ e.sequence = NextNumber /\ e.id = id /\ e.event_type = type
      /\ e.after = Snapshot(id)' /\ e.size_delta = size /\ e.realized_pnl = 0 /\ e.fee = fee
  <2>1. type \in 0..6 /\ size \in Int /\ 0 \in Int /\ 0 \in Nat
    BY <1>2, <1>6
  <2>2. QED
    <3> DEFINE n == NextNumber
    <3>1. n \in Nat /\ fee \in Nat /\ id \in PositionIds /\ IndInv /\ IndInv'
      BY <1>1, <1>2, <1>5
    <3> HIDE DEF n
    <3>2. e = [kind |-> "position", sequence |-> n, id |-> id,
              event_type |-> type, before |-> before, after |-> after,
              size_delta |-> size, realized_pnl |-> 0, fee |-> fee,
              related_trade_sequence |-> 0]
      BY <1>e DEF n
    <3>3. before \in Snapshots /\ after \in Snapshots
      BY <1>1, <1>s, SnapshotsTyped
    <3>4. QED
      BY <1>s, <2>1, <3>1, <3>2, <3>3 DEF PositionEvents, n
<1>8. AccountShown(e, e.id)
  BY <1>1, <1>2, <1>3, <1>7, OpenedShown DEF AccountShown
<1>9. MoneyShown(e, 0, 0)
  <2>1. Locked(toLock) /\ toLock \in Int
    BY <1>1, <1>2, <1>3, Taken
  <2>2. Profit \in Int /\ Profit' = Profit + 0
    <3>1. vaultAvailable' + toLock + insurance' + settledFees'
            = vaultAvailable + insurance + settledFees + 0
      BY <1>1, <1>2, <1>3 DEF BooksTyped
    <3>2. QED
      BY <1>1, <2>1, <3>1, ProfitMoved
  <2>3. insurance \in Int /\ insurance' = insurance + 0 - 0
    BY <1>1, <1>3 DEF BooksTyped
  <2>4. QED
    BY <1>3, <1>5, <1>6, <1>7, <2>2, <2>3 DEF MoneyShown
<1>10. QED
  <2>1. e.event_type \notin {2, 3, 4} /\ NextNumber' \in Nat /\ NextNumber <= NextNumber'
        /\ e.sequence \in NextNumber..NextNumber' - 1
    BY <1>3, <1>5, <1>6, <1>7
  <2>2. QED
    BY <1>4, <1>5, <1>7, <1>8, <1>9, <2>1, OneEvent

LEMMA BatchOpenLogged ==
    ASSUME LogInv, Sound, NEW u \in Users, NEW m \in Markets, NEW side \in Sides,
           NEW size \in Sizes, NEW price \in Prices, NEW leverage \in Leverages,
           NEW feeRate \in FeeRates,
           BatchOpen(u, m, side, size, price, leverage, feeRate),
           EmitBatchOpened(<<u, m>>, size, price, RequiredMargin(size, price, leverage),
                           Fee(size, price, feeRate))
    PROVE  LogInv'
<1>0. PICK id : id = <<u, m>>
  OBVIOUS
<1> DEFINE fee == Fee(size, price, feeRate)
           margin == RequiredMargin(size, price, leverage)
           toLock == margin + fee
<1>s. PICK before, after : before = Snapshot(id) /\ after = Snapshot(id)'
  OBVIOUS
<1>d. PICK d : d = [kind |-> "position", sequence |-> NextNumber, id |-> id,
                   event_type |-> 0, before |-> before, after |-> after,
                   size_delta |-> size, realized_pnl |-> 0, fee |-> fee,
                   related_trade_sequence |-> NextNumber]
  OBVIOUS
<1>e. PICK e : e = IF id \notin DOMAIN position THEN d
                   ELSE [d EXCEPT
                           !.event_type = 1,
                           !.before = [size |-> size, entry_price |-> 0, margin |-> margin],
                           !.after = [size |-> size, entry_price |-> price, margin |-> margin]]
  OBVIOUS
<1>1. /\ IndInv /\ IndInv' /\ BooksInv /\ BooksInv'
      /\ AccountsInv /\ BooksTyped /\ id \in PositionIds
  BY <1>0, Halves DEF PositionIds, Sound
<1>2. size \in Nat \ {0} /\ price \in Nat /\ fee \in Nat /\ margin \in Nat
  <2>1. leverage \in Nat \ {0} /\ size \in Nat /\ price \in Nat /\ size # 0
    BY RateAssumption, InputAssumption, ScaleAssumption DEF BatchOpen, ValidOpen
  <2>2. QED
    BY <2>1, TradeAmounts
<1>3. toLock \in Nat
  <2> HIDE DEF fee, margin
  <2>1. QED
    BY <1>2
<1>4. /\ ledgerConfig'.total_fees_collected = ledgerConfig.total_fees_collected + fee
      /\ NextNumber' = NextNumber + 1
      /\ vaultLocked' = [vaultLocked EXCEPT ![id] = @ + toLock]
      /\ vaultAvailable' = vaultAvailable - toLock
      /\ UNCHANGED <<insurance, settledFees>>
      /\ SetOpened(id, side, size, price, leverage, margin)
  BY <1>0, <1>1 DEF BatchOpen, LockMargin, BooksTyped, LedgerConfig, NextNumber
<1>5. Emit(<<e>>)
  BY <1>0, <1>s, <1>d, <1>e DEF EmitBatchOpened, PositionEvent, PositionEventType
<1>6. NextNumber \in Nat /\ ledgerConfig.total_fees_collected \in Int
  BY <1>1, NumbersTyped
<1> HIDE DEF fee, margin, toLock
<1>7. /\ d \in PositionEvents /\ d.sequence = NextNumber /\ d.id = id /\ d.event_type = 0
      /\ d.after = Snapshot(id)' /\ d.size_delta = size /\ d.realized_pnl = 0 /\ d.fee = fee
  <2>1. 0 \in 0..6 /\ size \in Int /\ 0 \in Int
    BY <1>2
  <2>2. QED
    <3> DEFINE n == NextNumber
    <3>1. n \in Nat /\ fee \in Nat /\ id \in PositionIds /\ IndInv /\ IndInv'
      BY <1>1, <1>2, <1>6
    <3> HIDE DEF n
    <3>2. d = [kind |-> "position", sequence |-> n, id |-> id,
              event_type |-> 0, before |-> before, after |-> after,
              size_delta |-> size, realized_pnl |-> 0, fee |-> fee,
              related_trade_sequence |-> n]
      BY <1>d DEF n
    <3>3. before \in Snapshots /\ after \in Snapshots
      BY <1>1, <1>s, SnapshotsTyped
    <3>4. QED
      BY <1>s, <2>1, <3>1, <3>2, <3>3 DEF PositionEvents, n
<1>8. /\ e \in PositionEvents /\ e.sequence = NextNumber /\ e.id = id /\ e.event_type \in 0..1
      /\ e.size_delta = size /\ e.realized_pnl = 0 /\ e.fee = fee
      /\ IsApproximate(e) \/ e.after = Snapshot(id)'
  <2>1. CASE id \notin DOMAIN position
    BY <1>7, <1>e, <2>1
  <2>2. CASE id \in DOMAIN position
    <3> DEFINE shown == [size |-> size, entry_price |-> 0, margin |-> margin]
               left == [size |-> size, entry_price |-> price, margin |-> margin]
    <3>1. shown \in Snapshots /\ left \in Snapshots /\ shown.size = size
          /\ shown.entry_price = 0
      BY <1>2 DEF Snapshots
    <3>2. e = [d EXCEPT !.event_type = 1, !.before = shown, !.after = left]
      BY <1>e, <2>2
    <3> HIDE DEF shown, left
    <3>3. 1 \in 0..6 /\ 1 \in 0..1
      OBVIOUS
    <3>4. e \in PositionEvents
      BY <1>7, <3>1, <3>2, <3>3 DEF PositionEvents
    <3>5. /\ e.sequence = NextNumber /\ e.id = id /\ e.event_type = 1 /\ e.before = shown
          /\ e.size_delta = size /\ e.realized_pnl = 0 /\ e.fee = fee
      BY <1>7, <3>2 DEF PositionEvents
    <3>6. IsApproximate(e)
      BY <1>2, <3>1, <3>5 DEF IsApproximate
    <3>7. QED
      BY <3>3, <3>4, <3>5, <3>6
  <2>3. QED
    BY <2>1, <2>2
<1>9. AccountShown(e, e.id)
  <2>1. size \in Nat
    BY <1>2
  <2>2. QED
    BY <1>1, <1>4, <1>8, <2>1, OpenedShown DEF AccountShown
<1>10. MoneyShown(e, 0, 0)
  <2>1. Locked(toLock) /\ toLock \in Int
    BY <1>1, <1>3, <1>4, Taken
  <2>2. Profit \in Int /\ Profit' = Profit + 0
    <3>1. vaultAvailable' + toLock + insurance' + settledFees'
            = vaultAvailable + insurance + settledFees + 0
      BY <1>1, <1>3, <1>4 DEF BooksTyped
    <3>2. QED
      BY <1>1, <2>1, <3>1, ProfitMoved
  <2>3. insurance \in Int /\ insurance' = insurance + 0 - 0
    BY <1>1, <1>4 DEF BooksTyped
  <2>4. QED
    BY <1>4, <1>6, <1>8, <2>2, <2>3 DEF MoneyShown
<1>11. QED
  <2>1. e.event_type \notin {2, 3, 4} /\ NextNumber' \in Nat /\ NextNumber <= NextNumber'
        /\ e.sequence \in NextNumber..NextNumber' - 1
    BY <1>4, <1>6, <1>8
  <2>2. QED
    BY <1>5, <1>6, <1>8, <1>9, <2>1, <1>10, OneEvent

LEMMA ResetLogged ==
    ASSUME LogInv, Sound, NEW u \in Users, NEW m \in Markets,
           AdminResetPosition(u, m), EmitReset(<<u, m>>)
    PROVE  LogInv'
<1>0. PICK id : id = <<u, m>>
  OBVIOUS
<1> DEFINE p == position[id]
<1>s. PICK before, after : before = Snapshot(id) /\ after = Snapshot(id)'
  OBVIOUS
<1>e. PICK e : e = [kind |-> "position", sequence |-> 0, id |-> id, event_type |-> 5,
                   before |-> before, after |-> after, size_delta |-> -p.size,
                   realized_pnl |-> 0, fee |-> 0, related_trade_sequence |-> 0]
  OBVIOUS
<1>1. /\ IndInv /\ IndInv' /\ BooksInv /\ BooksInv'
      /\ AccountsInv /\ BooksTyped /\ id \in PositionIds
  BY <1>0, Halves DEF PositionIds, Sound
<1>2. /\ id \in DOMAIN position /\ position' = [position EXCEPT ![id] = Cleared(p)]
      /\ UNCHANGED <<ledgerConfig, vaultLocked, vaultAvailable, insurance, settledFees>>
  BY <1>0 DEF AdminResetPosition, external
<1>3. p \in Position /\ p.size \in Nat /\ p.cumulative_funding \in Int
  <2>1. p \in Position
    BY <1>2, <1>1 DEF IndInv, TypeOK
  <2> HIDE DEF p
  <2>2. QED
    BY <2>1 DEF Position
<1>4. Emit(<<e>>)
  BY <1>0, <1>s, <1>e DEF EmitReset, PositionEvent
<1>5. NextNumber \in Nat /\ ledgerConfig.total_fees_collected \in Int /\ NextNumber' = NextNumber
  BY <1>1, <1>2, NumbersTyped DEF NextNumber
<1>6. /\ DOMAIN position' = DOMAIN position \cup {id}
      /\ \A i \in DOMAIN position : i # id => position'[i] = position[i]
      /\ position'[id] = Cleared(p)
  BY <1>2
<1>7. SizeOf(id) = p.size /\ FundingOf(id) = p.cumulative_funding
  BY <1>2 DEF SizeOf, FundingOf
<1> HIDE DEF p
<1>8. /\ e \in PositionEvents /\ e.sequence = 0 /\ e.id = id /\ e.event_type = 5
      /\ e.after = Snapshot(id)' /\ e.size_delta = -p.size /\ e.realized_pnl = 0 /\ e.fee = 0
  <2>1. PICK type, delta, zero : type = 5 /\ delta = -p.size /\ zero = 0
    OBVIOUS
  <2>2. type \in 0..6 /\ delta \in Int /\ zero \in Int /\ zero \in Nat
    BY <1>3, <2>1
  <2>3. e = [kind |-> "position", sequence |-> zero, id |-> id, event_type |-> type,
             before |-> before, after |-> after, size_delta |-> delta,
             realized_pnl |-> zero, fee |-> zero, related_trade_sequence |-> zero]
    BY <1>e, <2>1
  <2>4. before \in Snapshots /\ after \in Snapshots /\ id \in PositionIds
    BY <1>1, <1>s, SnapshotsTyped
  <2>5. e \in PositionEvents
    BY <2>2, <2>3, <2>4 DEF PositionEvents
  <2>6. /\ e.sequence = zero /\ e.id = id /\ e.event_type = type /\ e.after = after
        /\ e.size_delta = delta /\ e.realized_pnl = zero /\ e.fee = zero
    BY <2>3
  <2>7. QED
    BY <1>s, <2>1, <2>5, <2>6
<1>9. AccountShown(e, e.id)
  <2>1. Cleared(p).size = p.size + (-p.size) /\ Cleared(p).cumulative_funding = p.cumulative_funding
    BY <1>3 DEF Cleared, Position
  <2>2. QED
    BY <1>6, <1>7, <1>8, <2>1 DEF AccountShown
<1>10. MoneyShown(e, 0, 0)
  <2>1. Locked(0) /\ 0 \in Int
    BY <1>1, <1>2, VaultKept DEF AccountsInv, AccountsTyped
  <2>2. Profit \in Int /\ Profit' = Profit + 0
    <3>1. vaultAvailable' + 0 + insurance' + settledFees'
            = vaultAvailable + insurance + settledFees + 0
      BY <1>1, <1>2 DEF BooksTyped
    <3>2. QED
      BY <1>1, <2>1, <3>1, ProfitMoved
  <2>3. insurance \in Int /\ insurance' = insurance + 0 - 0
    BY <1>1, <1>2 DEF BooksTyped
  <2>4. QED
    BY <1>2, <1>5, <1>8, <2>2, <2>3 DEF MoneyShown
<1>11. QED
  <2>1. e.event_type \notin {2, 3, 4} /\ NextNumber' \in Nat /\ NextNumber <= NextNumber'
    BY <1>5, <1>8
  <2>2. QED
    BY <1>4, <1>5, <1>8, <1>9, <2>1, <1>10, OneEvent

\* A close on either path settles s; e and t are its events.
Closes(id, s, number, related, type, before, after, e, t) ==
    /\ id \in PositionIds /\ HasPosition(id) /\ SettleClose(id, s)
    /\ UNCHANGED <<stranded, insurance>>
    /\ ledgerConfig'.total_fees_collected = ledgerConfig.total_fees_collected + s.fee
    /\ number \in NextNumber..NextNumber' - 1 /\ related \in NextNumber..NextNumber' - 1
    /\ type \in {2, 3} /\ before \in Snapshots /\ after = Snapshot(id)'
    /\ e = [kind |-> "position", sequence |-> number, id |-> id, event_type |-> type,
            before |-> before, after |-> after, size_delta |-> -s.size,
            realized_pnl |-> s.realized, fee |-> s.fee, related_trade_sequence |-> related]
    /\ t = [kind |-> "trade", sequence |-> related, id |-> id, size |-> s.size,
            fee |-> s.fee, realized_pnl |-> s.realized, margin_delta |-> -s.release]
    /\ \/ number <= related /\ Emit(<<e, t>>)
       \/ related <= number /\ Emit(<<t, e>>)

LEMMA CloseLogged ==
    ASSUME LogInv, Sound, NEW size \in Sizes, NEW price \in Prices, NEW feeRate \in FeeRates,
           NEW id, NEW s, s = Settlement(position[id], size, price, feeRate),
           NEW number, NEW related, NEW type, NEW before, NEW after, NEW e, NEW t,
           Closes(id, s, number, related, type, before, after, e, t)
    PROVE  LogInv'
<1> USE DEF Closes
<1> DEFINE p == position[id]
<1>1. /\ IndInv /\ IndInv' /\ BooksInv /\ BooksInv' /\ AccountsInv /\ BooksTyped
  BY Halves DEF Sound
<1>2. id \in DOMAIN position /\ p \in Position /\ ~IsEmpty(p)
  BY <1>1 DEF HasPosition, IndInv, TypeOK
<1>3. s.size \in Nat /\ s.realized \in Int /\ s.fee \in Nat
      /\ s.release = MarginToRelease(p.margin, s.size, p.size)
  <2> HIDE DEF p
  <2>1. s = Settlement(p, size, price, feeRate)
    BY DEF p
  <2>2. QED
    BY <1>2, <2>1, SettlementTypes
<1>4. s.size <= p.size
  <2>1. s.size = Lesser(size, p.size)
    BY DEF Settlement
  <2>2. size \in Nat
    BY InputAssumption, ScaleAssumption
  <2> HIDE DEF p
  <2>3. p.size \in Nat
    BY <1>2 DEF Position
  <2>4. QED
    BY <2>1, <2>2, <2>3 DEF Lesser
<1>5. s.release \in Nat
  BY <1>1, <1>3, ClosedAccount
<1>6. /\ vaultLocked' = [vaultLocked EXCEPT ![id] = @ - s.release]
      /\ vaultAvailable' = vaultAvailable + s.release + s.realized - s.fee
      /\ settledFees' = settledFees + s.fee
  BY DEF SettleClose
<1>7. NextNumber \in Nat /\ NextNumber' \in Nat /\ ledgerConfig.total_fees_collected \in Int
  BY <1>1, NumbersTyped DEF IndInv, TypeOK, LedgerConfig, NextNumber
<1>8. e \in PositionEvents
  <2>1. after \in Snapshots
    BY <1>1, SnapshotsTyped
  <2>2. /\ number \in Nat /\ related \in Nat /\ type \in 0..6
        /\ -s.size \in Int /\ s.realized \in Int /\ s.fee \in Nat
    BY <1>3, <1>7
  <2>3. QED
    BY <2>1, <2>2 DEF PositionEvents
<1>9. t \in TradeEvents
  <2>1. /\ related \in Nat /\ s.size \in Nat /\ s.realized \in Int /\ s.fee \in Nat
        /\ -s.release \in Int
    BY <1>3, <1>5, <1>7
  <2>2. QED
    BY <2>1 DEF TradeEvents
<1>10. AccountShown(e, e.id)
  <2>1. s.size \in 0..position[id].size
    <3>1. p.size \in Nat
      BY <1>2 DEF Position
    <3>2. QED
      BY <1>3, <1>4, <3>1
  <2>2. /\ DOMAIN position' = DOMAIN position \cup {id}
        /\ \A i \in DOMAIN position : i # id => position'[i] = position[i]
        /\ position'[id].size = SizeOf(id) + (-s.size)
        /\ position'[id].cumulative_funding = FundingOf(id)
    BY <1>1, <1>2, <2>1, ClosedShown
  <2>3. e.id = id /\ e.size_delta = -s.size /\ e.after = Snapshot(id)'
    OBVIOUS
  <2>4. QED
    BY <2>2, <2>3 DEF AccountShown
<1>11. MoneyShown(e, 0, 0)
  <2>1. Locked(-s.release) /\ -s.release \in Int
    BY <1>1, <1>5, <1>6, Released
  <2>2. Profit \in Int /\ Profit' = Profit + s.realized
    <3>1. vaultAvailable' + (-s.release) + insurance' + settledFees'
            = vaultAvailable + insurance + settledFees + s.realized
      <4>1. vaultAvailable \in Int /\ insurance \in Int /\ settledFees \in Int
            /\ insurance' = insurance
        BY <1>1 DEF BooksTyped
      <4>2. QED
        BY <1>3, <1>5, <1>6, <4>1
    <3>2. QED
      BY <1>1, <1>3, <2>1, <3>1, ProfitMoved
  <2>3. insurance \in Int /\ insurance' = insurance + 0 - 0
    BY <1>1 DEF BooksTyped
  <2>4. e.event_type # 4 /\ e.realized_pnl = s.realized /\ e.fee = s.fee
    OBVIOUS
  <2>5. QED
    BY <1>7, <2>2, <2>3, <2>4 DEF MoneyShown
<1>12. /\ t.id = e.id /\ t.sequence = related /\ e.sequence = number
       /\ t.sequence = e.related_trade_sequence
       /\ t.size = -e.size_delta /\ t.realized_pnl = e.realized_pnl
  BY <1>3
<1>13. NextNumber <= NextNumber'
  BY <1>7
<1>14. CASE number <= related /\ Emit(<<e, t>>)
  <2>1. InOrder(e, t, e, t, 1)
    BY <1>7, <1>12, <1>13, <1>14 DEF InOrder
  <2>2. QED
    BY <1>8, <1>9, <1>10, <1>11, <1>14, <2>1, TwoEvents
<1>15. CASE related <= number /\ Emit(<<t, e>>)
  <2>1. InOrder(e, t, t, e, 2)
    BY <1>7, <1>12, <1>13, <1>15 DEF InOrder
  <2>2. QED
    BY <1>8, <1>9, <1>10, <1>11, <1>15, <2>1, TwoEvents
<1>16. QED
  BY <1>14, <1>15

LEMMA ClosePositionLogged ==
    ASSUME LogInv, Sound, NEW u \in Users, NEW m \in Markets, NEW size \in Sizes,
           NEW price \in Prices, NEW feeRate \in FeeRates,
           ClosePosition(u, m, size, price, feeRate),
           EmitClosed(<<u, m>>, Settlement(position[<<u, m>>], size, price, feeRate))
    PROVE  LogInv'
<1>1. PICK id, s, before, after, type :
          /\ id = <<u, m>> /\ s = Settlement(position[id], size, price, feeRate)
          /\ before = Snapshot(id) /\ after = Snapshot(id)'
          /\ type = IF IsEmpty(position'[id]) THEN 2 ELSE 3
  OBVIOUS
<1>2. PICK e, t :
          /\ e = [kind |-> "position", sequence |-> NextNumber, id |-> id,
                  event_type |-> type, before |-> before, after |-> after,
                  size_delta |-> -s.size, realized_pnl |-> s.realized, fee |-> s.fee,
                  related_trade_sequence |-> NextNumber + 1]
          /\ t = [kind |-> "trade", sequence |-> NextNumber + 1, id |-> id, size |-> s.size,
                  fee |-> s.fee, realized_pnl |-> s.realized, margin_delta |-> -s.release]
  OBVIOUS
<1>3. Emit(<<e, t>>)
  BY <1>1, <1>2 DEF EmitClosed, PositionEvent, TradeEvent
<1>4. /\ HasPosition(id) /\ SettleClose(id, s) /\ UNCHANGED <<stranded, insurance>>
      /\ id \in PositionIds
  BY <1>1 DEF ClosePosition, ValidClose, PositionIds
<1>5. /\ ledgerConfig'.total_fees_collected = ledgerConfig.total_fees_collected + s.fee
      /\ NextNumber' = NextNumber + 2
  BY <1>1 DEF ClosePosition, Sound, IndInv, TypeOK, LedgerConfig, NextNumber
<1>6. NextNumber \in Nat
  BY NumbersTyped DEF Sound
<1>7. /\ NextNumber \in NextNumber..NextNumber' - 1
      /\ NextNumber + 1 \in NextNumber..NextNumber' - 1
      /\ NextNumber <= NextNumber + 1
  <2> HIDE DEF NextNumber
  <2>1. QED
    BY <1>5, <1>6
<1>8. before \in Snapshots /\ type \in {2, 3}
  BY <1>1, SnapshotsTyped DEF Sound
<1>9. Closes(id, s, NextNumber, NextNumber + 1, type, before, after, e, t)
  BY <1>1, <1>2, <1>3, <1>4, <1>5, <1>7, <1>8 DEF Closes
<1>10. QED
  BY <1>1, <1>9, CloseLogged

LEMMA BatchCloseLogged ==
    ASSUME LogInv, Sound, NEW u \in Users, NEW m \in Markets, NEW size \in Sizes,
           NEW price \in Prices, NEW feeRate \in FeeRates,
           BatchClose(u, m, size, price, feeRate),
           EmitBatchClosed(<<u, m>>, Settlement(position[<<u, m>>], size, price, feeRate))
    PROVE  LogInv'
<1>1. PICK id, s, old, after, type :
          /\ id = <<u, m>> /\ s = Settlement(position[id], size, price, feeRate)
          /\ old = Snapshot(id) /\ after = Snapshot(id)'
          /\ type = IF IsEmpty(position'[id]) THEN 3 ELSE 2
  OBVIOUS
<1>2. PICK before : before = [old EXCEPT !.entry_price = after.entry_price]
  OBVIOUS
<1>3. PICK e, t :
          /\ e = [kind |-> "position", sequence |-> NextNumber, id |-> id,
                  event_type |-> type, before |-> before, after |-> after,
                  size_delta |-> -s.size, realized_pnl |-> s.realized, fee |-> s.fee,
                  related_trade_sequence |-> NextNumber]
          /\ t = [kind |-> "trade", sequence |-> NextNumber, id |-> id, size |-> s.size,
                  fee |-> s.fee, realized_pnl |-> s.realized, margin_delta |-> -s.release]
  OBVIOUS
<1>4. Emit(<<t, e>>)
  BY <1>1, <1>2, <1>3 DEF EmitBatchClosed, PositionEvent, TradeEvent, PositionEventType
<1>5. /\ HasPosition(id) /\ SettleClose(id, s) /\ UNCHANGED <<stranded, insurance>>
      /\ id \in PositionIds
  BY <1>1 DEF BatchClose, ValidClose, PositionIds
<1>6. /\ ledgerConfig'.total_fees_collected = ledgerConfig.total_fees_collected + s.fee
      /\ NextNumber' = NextNumber + 1
  BY <1>1 DEF BatchClose, Sound, IndInv, TypeOK, LedgerConfig, NextNumber
<1>7. NextNumber \in Nat
  BY NumbersTyped DEF Sound
<1>8. NextNumber \in NextNumber..NextNumber' - 1 /\ NextNumber <= NextNumber
  <2> HIDE DEF NextNumber
  <2>1. QED
    BY <1>6, <1>7
<1>9. before \in Snapshots /\ type \in {2, 3}
  <2>1. old \in Snapshots /\ after \in Snapshots
    BY <1>1, SnapshotsTyped DEF Sound
  <2>2. QED
    BY <1>1, <1>2, <2>1 DEF Snapshots
<1>10. Closes(id, s, NextNumber, NextNumber, type, before, after, e, t)
  BY <1>1, <1>3, <1>4, <1>5, <1>6, <1>8, <1>9 DEF Closes
<1>11. QED
  BY <1>1, <1>10, CloseLogged

\* A liquidation of p settles r; the events are those it reports.
Liquidates(id, p, pnl, r, l, e, f, i, events) ==
    /\ l = [kind |-> "liquidation", sequence |-> NextNumber, id |-> id, size |-> p.size,
            penalty |-> r.penalty, insurance_payout |-> r.shortfall,
            remaining_margin |-> r.remainder, realized_pnl |-> pnl]
    /\ e = [kind |-> "position", sequence |-> NextNumber + 1, id |-> id, event_type |-> 4,
            before |-> Snapshot(id), after |-> Snapshot(id)', size_delta |-> -p.size,
            realized_pnl |-> pnl, fee |-> r.penalty, related_trade_sequence |-> NextNumber]
    /\ f = [kind |-> "fee", sequence |-> NextNumber + 2, id |-> id, amount |-> r.penalty]
    /\ i = [kind |-> "insurance", sequence |-> NextNumber + 3, amount |-> r.penalty]
    /\ events = <<l, e>> \o IF r.penalty = 0 THEN <<>> ELSE <<f, i>>

LEMMA LiquidationEventsTyped ==
    ASSUME IndInv, IndInv', NEW id \in PositionIds, NEW p \in Position, NEW pnl \in Int,
           NEW r, r.penalty \in Nat, r.shortfall \in Nat, r.remainder \in Nat,
           NEW l, NEW e, NEW f, NEW i, NEW events, Liquidates(id, p, pnl, r, l, e, f, i, events)
    PROVE  /\ events \in Seq(Events) /\ Len(events) \in {2, 4}
           /\ Len(events) = 2 <=> r.penalty = 0
           /\ events[1] = l /\ events[2] = e
           /\ Len(events) = 4 => events[3] = f /\ events[4] = i
<1> USE DEF Liquidates
<1>1. p.size \in Nat /\ NextNumber \in Nat
  BY NumbersTyped DEF Position
<1>2. l \in LiquidationEvents
  BY <1>1 DEF LiquidationEvents
<1>3. e \in PositionEvents
  <2>1. Snapshot(id) \in Snapshots /\ Snapshot(id)' \in Snapshots
    BY SnapshotsTyped
  <2>2. PICK before, after : before = Snapshot(id) /\ after = Snapshot(id)'
    OBVIOUS
  <2>3. e = [kind |-> "position", sequence |-> NextNumber + 1, id |-> id, event_type |-> 4,
             before |-> before, after |-> after, size_delta |-> -p.size,
             realized_pnl |-> pnl, fee |-> r.penalty, related_trade_sequence |-> NextNumber]
    BY <2>2
  <2>4. /\ NextNumber + 1 \in Nat /\ 4 \in 0..6 /\ -p.size \in Int
        /\ before \in Snapshots /\ after \in Snapshots
    BY <1>1, <2>1, <2>2
  <2>5. QED
    BY <1>1, <2>3, <2>4 DEF PositionEvents
<1>4. r.penalty # 0 => f \in FeeEvents /\ i \in InsuranceFundEvents
  <2>1. NextNumber + 2 \in Nat /\ NextNumber + 3 \in Nat
    BY <1>1
  <2>2. QED
    BY <2>1 DEF FeeEvents, InsuranceFundEvents
<1>5. l \in Events /\ e \in Events /\ (r.penalty # 0 => f \in Events /\ i \in Events)
  BY <1>2, <1>3, <1>4, EventKinds
<1>6. PICK head, tail : head = <<l, e>> /\ tail = IF r.penalty = 0 THEN <<>> ELSE <<f, i>>
  OBVIOUS
<1>7. events = head \o tail
  BY <1>6
<1>8. head \in Seq(Events) /\ Len(head) = 2 /\ head[1] = l /\ head[2] = e
  BY <1>5, <1>6
<1>9. /\ tail \in Seq(Events)
      /\ r.penalty = 0 => Len(tail) = 0
      /\ r.penalty # 0 => Len(tail) = 2 /\ tail[1] = f /\ tail[2] = i
  <2>1. CASE r.penalty = 0
    BY <1>6, <2>1
  <2>2. CASE r.penalty # 0
    BY <1>5, <1>6, <2>2
  <2>3. QED
    BY <2>1, <2>2
<1>10. /\ events \in Seq(Events) /\ Len(events) = 2 + Len(tail)
       /\ events[1] = l /\ events[2] = e
       /\ Len(tail) = 2 => events[3] = tail[1] /\ events[4] = tail[2]
  <2>1. head \in Seq(Events) /\ tail \in Seq(Events)
    BY <1>8, <1>9
  <2>2. /\ head \o tail \in Seq(Events)
        /\ Len(head \o tail) = Len(head) + Len(tail)
        /\ \A j \in 1..Len(head) : (head \o tail)[j] = head[j]
    BY <2>1
  <2>3. \A j \in 1..Len(tail) : (head \o tail)[Len(head) + j] = tail[j]
    BY <2>1, <2>2
  <2>4. events \in Seq(Events) /\ Len(events) = 2 + Len(tail)
    BY <1>7, <1>8, <2>2
  <2>5. 1 \in 1..Len(head) /\ 2 \in 1..Len(head)
    BY <1>8
  <2>6. events[1] = l /\ events[2] = e
    BY <1>7, <1>8, <2>2, <2>5
  <2>7. ASSUME Len(tail) = 2 PROVE events[3] = tail[1] /\ events[4] = tail[2]
    <3>1. 1 \in 1..Len(tail) /\ 2 \in 1..Len(tail)
      BY <2>7
    <3>2. events[Len(head) + 1] = tail[1] /\ events[Len(head) + 2] = tail[2]
      BY <1>7, <2>3, <3>1
    <3>3. Len(head) + 1 = 3 /\ Len(head) + 2 = 4
      BY <1>8
    <3>4. QED
      BY <3>2, <3>3
  <2>8. QED
    BY <2>4, <2>6, <2>7
<1>11. QED
  BY <1>9, <1>10

LEMMA LiquidateLogged ==
    ASSUME LogInv, Sound, NEW u \in Users, NEW m \in Markets, NEW mark \in Marks,
           LoggedLiquidate(u, m, mark)
    PROVE  LogInv'
<1>1. PICK id, p : id = <<u, m>> /\ p = position[id]
  OBVIOUS
<1>2. PICK pnl : pnl = UnrealizedPnl(p.side, p.size, p.entry_price, mark)
  OBVIOUS
<1>3. PICK r : r = LiquidationResult(p.margin, pnl)
  OBVIOUS
<1>4. PICK l, e, f, i, events : Liquidates(id, p, pnl, r, l, e, f, i, events)
  BY DEF Liquidates
<1>5. Liquidate(u, m, mark) /\ EmitLiquidated(id, pnl, r)
  BY <1>1, <1>2, <1>3 DEF LoggedLiquidate
<1>6. Emit(events)
  BY <1>1, <1>4, <1>5 DEF EmitLiquidated, PositionEvent, Liquidates
<1>7. /\ IndInv /\ IndInv' /\ BooksInv /\ BooksInv'
      /\ AccountsInv /\ BooksTyped /\ id \in PositionIds
  BY <1>1, Halves DEF PositionIds, Sound
<1>8. /\ id \in DOMAIN position /\ position' = [position EXCEPT ![id] = Cleared(p)]
      /\ vaultLocked' = [vaultLocked EXCEPT ![id] = @ - p.margin]
      /\ vaultAvailable' = vaultAvailable + r.remainder
      /\ insurance' = insurance + r.penalty - r.shortfall
      /\ UNCHANGED settledFees
      /\ ledgerConfig'.total_fees_collected = ledgerConfig.total_fees_collected
      /\ NextNumber' = NextNumber + 4
  BY <1>1, <1>2, <1>3, <1>5, <1>7
     DEF Liquidate, HasPosition, history, BooksTyped, LedgerConfig, NextNumber
<1>9. p \in Position /\ p.size \in Nat /\ p.margin \in Nat
  <2>1. p \in Position
    BY <1>1, <1>7, <1>8 DEF IndInv, TypeOK
  <2>2. QED
    BY <2>1 DEF Position
<1>10. pnl \in Int
  <2>1. mark \in Nat
    BY InputAssumption, ScaleAssumption
  <2>2. p.side \in Sides /\ p.size \in Nat /\ p.entry_price \in Nat
    BY <1>9 DEF Position
  <2>3. QED
    BY <1>2, <2>1, <2>2, UnrealizedPnlType
<1>11. /\ r.remainder \in Nat /\ r.penalty \in Nat /\ r.shortfall \in Nat
       /\ r.remainder + r.penalty - r.shortfall = p.margin + pnl
  BY <1>3, <1>9, <1>10, LiquidationSplit
<1>12. /\ events \in Seq(Events) /\ Len(events) \in {2, 4}
       /\ Len(events) = 2 <=> r.penalty = 0
       /\ events[1] = l /\ events[2] = e
       /\ Len(events) = 4 => events[3] = f /\ events[4] = i
  BY <1>4, <1>7, <1>9, <1>10, <1>11, LiquidationEventsTyped
<1>13. NextNumber \in Nat /\ NextNumber' \in Nat /\ ledgerConfig.total_fees_collected \in Int
  <2>1. NextNumber \in Nat /\ ledgerConfig.total_fees_collected \in Int
    BY <1>7, NumbersTyped
  <2> HIDE DEF NextNumber
  <2>2. QED
    BY <1>8, <2>1
<1>14. /\ l.kind = "liquidation" /\ l.sequence = NextNumber /\ l.id = id /\ l.size = p.size
       /\ l.realized_pnl = pnl /\ l.insurance_payout = r.shortfall
       /\ e.kind = "position" /\ e.sequence = NextNumber + 1 /\ e.id = id
       /\ e.event_type = 4 /\ e.after = Snapshot(id)' /\ e.size_delta = -p.size
       /\ e.realized_pnl = pnl /\ e.related_trade_sequence = NextNumber
       /\ f.kind = "fee" /\ f.sequence = NextNumber + 2
       /\ i.kind = "insurance" /\ i.sequence = NextNumber + 3 /\ i.amount = r.penalty
  BY <1>4 DEF Liquidates
<1>15. /\ 1..Len(events) = IF r.penalty = 0 THEN {1, 2} ELSE {1, 2, 3, 4}
       /\ \A j \in 1..Len(events) : j \in {1, 2, 3, 4}
  <2>1. 1..2 = {1, 2} /\ 1..4 = {1, 2, 3, 4}
    OBVIOUS
  <2>2. Len(events) = IF r.penalty = 0 THEN 2 ELSE 4
    BY <1>12
  <2>3. QED
    BY <2>1, <2>2
<1>16. Numbered(events)
  <2>1. \A j \in 1..Len(events) : events[j].sequence = NextNumber + (j - 1) /\ j \in 1..4
    <3> HIDE DEF NextNumber
    <3>1. NextNumber + (1 - 1) = NextNumber /\ NextNumber + (2 - 1) = NextNumber + 1
          /\ NextNumber + (3 - 1) = NextNumber + 2 /\ NextNumber + (4 - 1) = NextNumber + 3
      BY <1>13
    <3>2. events[1].sequence = NextNumber /\ events[2].sequence = NextNumber + 1
      BY <1>12, <1>14
    <3>3. Len(events) = 4 => /\ events[3].sequence = NextNumber + 2
                             /\ events[4].sequence = NextNumber + 3
      BY <1>12, <1>14
    <3> SUFFICES ASSUME NEW j \in 1..Len(events)
                 PROVE  events[j].sequence = NextNumber + (j - 1) /\ j \in 1..4
      OBVIOUS
    <3>4. j \in {1, 2} \/ (Len(events) = 4 /\ j \in {3, 4})
      <4>1. r.penalty = 0 => 1..Len(events) = {1, 2}
        BY <1>15, Zenon
      <4>2. r.penalty # 0 => Len(events) = 4
        BY <1>12
      <4>3. j \in {1, 2, 3, 4}
        BY <1>15
      <4>4. r.penalty = 0 => j \in {1, 2}
        BY <4>1, Zenon
      <4>5. j \in {1, 2} \/ j \in {3, 4}
        BY <4>3
      <4>6. CASE r.penalty = 0
        BY <4>4, <4>6
      <4>7. CASE r.penalty # 0
        BY <4>2, <4>5, <4>7
      <4>8. QED
        BY <4>6, <4>7
    <3>5. CASE j = 1
      BY <3>1, <3>2, <3>5
    <3>6. CASE j = 2
      BY <3>1, <3>2, <3>6
    <3>7. CASE j = 3 /\ Len(events) = 4
      BY <3>1, <3>3, <3>7
    <3>8. CASE j = 4 /\ Len(events) = 4
      BY <3>1, <3>3, <3>8
    <3>9. QED
      BY <3>4, <3>5, <3>6, <3>7, <3>8
  <2>2. NextNumber' = NextNumber + 4
    BY <1>8
  <2> DEFINE n == NextNumber
             n2 == NextNumber'
  <2> HIDE DEF n, n2
  <2>3. n \in Nat /\ n2 = n + 4
    BY <1>13, <2>2 DEF n, n2
  <2>4. \A j \in 1..Len(events) : events[j].sequence = n + (j - 1) /\ j \in 1..4
    BY <2>1 DEF n
  <2>5. \A j \in 1..Len(events) : events[j].sequence \in n..n2 - 1
    BY <2>3, <2>4
  <2>6. \A h, j \in 1..Len(events) : h < j => events[h].sequence < events[j].sequence
                                               /\ events[h].sequence <= events[j].sequence
    BY <2>3, <2>4
  <2>7. n <= n2 /\ n2 \in Nat
    BY <2>3
  <2>8. QED
    BY <2>3, <2>5, <2>6, <2>7 DEF Numbered, n, n2
<1>17. \A j \in 1..Len(events) : (events[j].kind = "position" <=> j = 2) /\ events[j].kind # "funding"
                                 /\ (events[j].kind = "liquidation" <=> j = 1)
                                 /\ (events[j].kind = "insurance" <=> j = 4)
  BY <1>12, <1>14, <1>15
<1>18. Linked(events)
  <2>1. 1 \in 1..Len(events) /\ l.size = -e.size_delta
    BY <1>9, <1>12, <1>14
  <2>2. QED
    BY <1>12, <1>14, <1>17, <2>1 DEF Linked
<1>19. PositionLogged(events, 2, id)
  <2>1. 2 \in 1..Len(events)
    BY <1>12
  <2>2. QED
    BY <1>12, <1>14, <1>17, <2>1 DEF PositionLogged
<1>20. AccountShown(events[2], id)
  <2>1. /\ DOMAIN position' = DOMAIN position \cup {id}
        /\ \A h \in DOMAIN position : h # id => position'[h] = position[h]
        /\ position'[id] = Cleared(p)
    BY <1>8
  <2>2. SizeOf(id) = p.size /\ FundingOf(id) = p.cumulative_funding
    BY <1>1, <1>8 DEF SizeOf, FundingOf
  <2>3. Cleared(p).size = p.size + (-p.size) /\ Cleared(p).cumulative_funding = p.cumulative_funding
    BY <1>9 DEF Cleared, Position
  <2>4. QED
    BY <1>12, <1>14, <2>1, <2>2, <2>3 DEF AccountShown
<1>21. MoneyShown(events[2], r.penalty, r.shortfall)
  <2>1. Locked(-p.margin) /\ -p.margin \in Int
    BY <1>7, <1>8, <1>9, Released
  <2>2. Profit \in Int /\ Profit' = Profit + pnl
    <3>1. vaultAvailable' + (-p.margin) + insurance' + settledFees'
            = vaultAvailable + insurance + settledFees + pnl
      <4>1. vaultAvailable \in Int /\ insurance \in Int /\ settledFees \in Int
            /\ settledFees' = settledFees
        BY <1>7, <1>8 DEF BooksTyped
      <4>2. QED
        BY <1>8, <1>9, <1>10, <1>11, <4>1
    <3>2. QED
      BY <1>7, <1>10, <2>1, <3>1, ProfitMoved
  <2>3. insurance \in Int /\ insurance' = insurance + r.penalty - r.shortfall
    BY <1>7, <1>8 DEF BooksTyped
  <2>4. QED
    BY <1>8, <1>12, <1>13, <1>14, <2>2, <2>3 DEF MoneyShown
<1>22. Grows(events)
  BY <1>6, <1>12, EmitGrows DEF LogInv, LogTypeOK
<1>23. FundShown(r.penalty, r.shortfall)
  <2>1. SumFunction(FundIncome) \in Int /\ SumFunction(FundPayouts) \in Int
    BY <1>22, FundColumns DEF Grows
  <2>2. SumFunction(FundPayouts)' = SumFunction(FundPayouts) + r.shortfall
    <3>1. 1 \in 1..Len(events) /\ events[1].insurance_payout = r.shortfall
      BY <1>12, <1>14
    <3>2. QED
      BY <1>17, <1>22, <3>1, PayoutsGrown
  <2>3. SumFunction(FundIncome)' = SumFunction(FundIncome) + r.penalty
    <3>1. CASE r.penalty = 0
      <4>1. \A j \in 1..Len(events) : events[j].kind # "insurance"
        BY <1>15, <1>17, <3>1
      <4>2. SumFunction(FundIncome)' = SumFunction(FundIncome)
        BY <1>22, <4>1, IncomeUnmentioned
      <4> DEFINE before == SumFunction(FundIncome)
      <4>3. before \in Int
        BY <2>1
      <4> HIDE DEF before
      <4>4. before = before + r.penalty
        BY <3>1, <4>3
      <4>5. QED
        BY <4>2, <4>4 DEF before
    <3>2. CASE r.penalty # 0
      <4>1. 4 \in 1..Len(events) /\ events[4].amount = r.penalty
        BY <1>12, <1>14, <3>2
      <4>2. QED
        BY <1>17, <1>22, <4>1, IncomeGrown
    <3>3. QED
      BY <3>1, <3>2
  <2>4. QED
    BY <1>11, <2>1, <2>2, <2>3 DEF FundShown
<1>24. Reports(events, 2, id, r.penalty, r.shortfall)
  BY <1>16, <1>18, <1>19, <1>20, <1>21 DEF Reports
<1>25. QED
  BY <1>22, <1>23, <1>24, ReportedInd

\* The books stay; statistics that are all zero may have been added.
MoneyKept ==
    /\ Profit' = Profit
    /\ ledgerConfig'.total_fees_collected = ledgerConfig.total_fees_collected
    /\ insurance' = insurance

LEMMA ProfitKept ==
    ASSUME Sound, UNCHANGED <<vaultLocked, vaultAvailable, insurance, settledFees>>
    PROVE  Profit' = Profit
<1>1. /\ IndInv /\ IndInv' /\ BooksInv /\ BooksInv' /\ AccountsInv /\ BooksTyped
  BY Halves DEF Sound
<1>2. Locked(0) /\ 0 \in Int
  BY <1>1, VaultKept DEF AccountsInv, AccountsTyped
<1>3. vaultAvailable' + 0 + insurance' + settledFees'
        = vaultAvailable + insurance + settledFees + 0
  BY <1>1 DEF BooksTyped
<1>4. Profit \in Int /\ Profit' = Profit + 0
  BY <1>1, <1>2, <1>3, ProfitMoved
<1>5. QED
  BY <1>4

\* One event of funding is new, about an account there is.
FundingReported(g, id) ==
    /\ g \in FundingEvents /\ g.id = id /\ id \in DOMAIN position
    /\ DOMAIN position' = DOMAIN position
    /\ \A i \in DOMAIN position :
          Snapshot(i)' = Snapshot(i) /\ position'[i].size = position[i].size
    /\ \A i \in DOMAIN position \ {id} :
          position'[i].cumulative_funding = position[i].cumulative_funding
    /\ position[id].cumulative_funding \in Int
    /\ position'[id].cumulative_funding = position[id].cumulative_funding + g.payment
    /\ NextNumber \in Nat /\ NextNumber' = NextNumber
    /\ MoneyKept

LEMMA FundingGrown ==
    ASSUME LogInv, NEW g, NEW id, FundingReported(g, id), Emit(<<g>>)
    PROVE  /\ Grows(<<g>>)
           /\ \A kind : kind # "funding" => /\ Of(kind)' = Of(kind)
                                            /\ \A i \in Of(kind) : log'[i] = log[i]
           /\ Of("funding")' = Of("funding") \cup {Len(log) + 1}
           /\ Len(log) + 1 \notin Of("funding")
           /\ log'[Len(log) + 1] = g
           /\ \A i \in Of("funding") : log'[i] = log[i]
<1> DEFINE events == <<g>>
<1>1. g \in Events /\ g.kind = "funding"
  BY EventKinds DEF FundingReported, FundingEvents
<1>2. events \in Seq(Events) /\ Len(events) = 1 /\ events[1] = g /\ 1..1 = {1}
  BY <1>1
<1> HIDE DEF events
<1>3. Grows(events)
  <2>1. Emit(events) /\ log \in Seq(Events)
    BY DEF events, LogInv, LogTypeOK
  <2>2. QED
    BY <1>2, <2>1, EmitGrows
<1>4. ASSUME NEW kind, kind # "funding"
      PROVE  Of(kind)' = Of(kind) /\ \A i \in Of(kind) : log'[i] = log[i]
  <2>1. \A j \in 1..Len(events) : j = 1
    BY <1>2
  <2>2. events[1].kind # kind
    BY <1>1, <1>2, <1>4
  <2>3. \A j \in 1..Len(events) : events[j].kind # kind
    BY <2>1, <2>2
  <2>4. QED
    BY <1>3, <2>3, NoneOf
<1>5. /\ Of("funding")' = Of("funding") \cup {Len(log) + 1}
      /\ Len(log) + 1 \notin Of("funding")
      /\ log'[Len(log) + 1] = events[1]
      /\ \A i \in Of("funding") : log'[i] = log[i]
  <2>1. PICK k, kind : k = 1 /\ kind = "funding"
    OBVIOUS
  <2>2. OnlyAt(events, k, kind)
    <3>1. k \in 1..Len(events) /\ \A j \in 1..Len(events) : j = k
      BY <1>2, <2>1
    <3>2. events[k].kind = kind
      BY <1>1, <1>2, <2>1
    <3>3. QED
      BY <3>1, <3>2 DEF OnlyAt
  <2>3. /\ Of(kind)' = Of(kind) \cup {Len(log) + k}
        /\ Len(log) + k \notin Of(kind)
        /\ log'[Len(log) + k] = events[k]
        /\ \A i \in Of(kind) : log'[i] = log[i]
    BY <1>3, <2>2, OneOf
  <2>4. QED
    BY <2>1, <2>3
<1>6. QED
  BY <1>2, <1>3, <1>4, <1>5 DEF events

LEMMA FundingInd ==
    ASSUME LogInv, NEW g, NEW id, FundingReported(g, id), Emit(<<g>>)
    PROVE  LogInv'
<1> DEFINE l == Len(log) + 1
<1>1. /\ Grows(<<g>>)
      /\ Of("position")' = Of("position") /\ \A i \in Of("position") : log'[i] = log[i]
      /\ Of("insurance")' = Of("insurance") /\ \A i \in Of("insurance") : log'[i] = log[i]
      /\ Of("liquidation")' = Of("liquidation")
      /\ \A i \in Of("liquidation") : log'[i] = log[i]
      /\ Of("funding")' = Of("funding") \cup {l} /\ l \notin Of("funding") /\ log'[l] = g
      /\ \A i \in Of("funding") : log'[i] = log[i]
  BY FundingGrown
<1>2. /\ g \in FundingEvents /\ g.id = id /\ id \in DOMAIN position
      /\ DOMAIN position' = DOMAIN position
      /\ \A i \in DOMAIN position :
            Snapshot(i)' = Snapshot(i) /\ position'[i].size = position[i].size
      /\ \A i \in DOMAIN position \ {id} :
            position'[i].cumulative_funding = position[i].cumulative_funding
      /\ position[id].cumulative_funding \in Int
      /\ position'[id].cumulative_funding = position[id].cumulative_funding + g.payment
      /\ NextNumber \in Nat /\ NextNumber' = NextNumber
  BY DEF FundingReported
<1>3. \A i : About(i, "position")' = About(i, "position")
  BY <1>1 DEF About
<1>4. LogTypeOK'
  BY <1>1 DEF Grows, LogTypeOK
<1>5. NumbersTaken' /\ NumbersIncrease'
  <2>1. Len(<<g>>) = 1 /\ <<g>>[1] = g /\ 1..1 = {1} /\ g.sequence = 0
    BY <1>2 DEF FundingEvents
  <2>2. Numbered(<<g>>)
    BY <1>2, <2>1 DEF Numbered
  <2>3. QED
    BY <1>1, <2>2, NumbersInd DEF LogInv
<1>6. ClosesLinked'
  <2>1. Len(<<g>>) = 1 /\ <<g>>[1] = g /\ 1..1 = {1} /\ g.kind = "funding"
    BY <1>2 DEF FundingEvents
  <2>2. Linked(<<g>>)
    BY <2>1 DEF Linked
  <2>3. QED
    BY <1>1, <2>2, LinksInd DEF LogInv
<1>7. AccountsReported'
  <2>1. AccountsReported
    BY DEF LogInv
  <2>2. DOMAIN position' = {log'[i].id : i \in Of("position")'}
    BY <1>1, <1>2, <2>1 DEF AccountsReported
  <2>3. \A i \in Of("funding")' : log'[i].id \in DOMAIN position'
    BY <1>1, <1>2, <2>1 DEF AccountsReported
  <2>4. QED
    BY <2>2, <2>3 DEF AccountsReported
<1>8. LastShown'
  <2> SUFFICES ASSUME NEW i \in DOMAIN position'
               PROVE  \E j \in About(i, "position")' :
                         /\ \A h \in About(i, "position")' : h <= j
                         /\ IsApproximate(log'[j]) \/ log'[j].after = Snapshot(i)'
    BY DEF LastShown, IsApproximate
  <2>1. i \in DOMAIN position /\ Snapshot(i)' = Snapshot(i)
    BY <1>2
  <2>2. PICK j \in About(i, "position") :
                /\ \A h \in About(i, "position") : h <= j
                /\ IsApproximate(log[j]) \/ log[j].after = Snapshot(i)
    BY <2>1 DEF LogInv, LastShown
  <2>3. log'[j] = log[j] /\ About(i, "position")' = About(i, "position")
    BY <1>1, <1>3, <2>2 DEF About
  <2>4. QED
    BY <2>1, <2>2, <2>3
<1>9. \A i : SizeDeltas(i)' = SizeDeltas(i)
  BY <1>1, <1>3 DEF SizeDeltas, About
<1>10. \A i \in DOMAIN position \ {id} : Payments(i)' = Payments(i)
  <2> SUFFICES ASSUME NEW i \in DOMAIN position, i # id PROVE Payments(i)' = Payments(i)
    OBVIOUS
  <2>1. About(i, "funding")' = About(i, "funding")
    BY <1>1, <1>2 DEF About
  <2>2. QED
    BY <1>1, <2>1 DEF Payments, About
<1>11. SumFunction(Payments(id))' = SumFunction(Payments(id)) + g.payment
  <2> DEFINE f == Payments(id)
             h == Payments(id)'
             S == About(id, "funding")
  <2>1. S \in SUBSET Of("funding") /\ log \in Seq(Events)
    BY <1>1 DEF About, Grows
  <2>2. IsFiniteSet(S)
    BY <2>1, FiniteIndices
  <2>3. \A i \in S : log[i] \in FundingEvents
    BY <2>1, OfKind DEF Of
  <2>4. \A i \in S : log[i].payment \in Int
    BY <2>3 DEF FundingEvents
  <2>5. g.payment \in Int
    BY <1>2 DEF FundingEvents
  <2>6. DOMAIN f = S /\ \A i \in S : f[i] = log[i].payment
    BY DEF Payments
  <2>7. About(id, "funding")' = S \cup {l}
    BY <1>1, <1>2 DEF About
  <2>8. DOMAIN h = S \cup {l} /\ h[l] = g.payment /\ \A i \in S : h[i] = log[i].payment
    BY <1>1, <2>1, <2>7 DEF Payments
  <2>9. l \notin S
    BY <1>1, <2>1
  <2> HIDE DEF f, h, S, l
  <2>10. Updates(f, h, S, l)
    BY <2>2, <2>4, <2>5, <2>6, <2>8, <2>9 DEF Updates
  <2>11. SumFunction(h) = SumFunction(f) + h[l]
    BY <2>9, <2>10, TableUpdated
  <2>12. QED
    BY <2>8, <2>11 DEF f, h
<1>12. DeltasRebuildPositions'
  <2> SUFFICES ASSUME NEW i \in DOMAIN position'
               PROVE  /\ SumFunction(SizeDeltas(i))' = position'[i].size
                      /\ SumFunction(Payments(i))' = position'[i].cumulative_funding
    BY DEF DeltasRebuildPositions
  <2>1. /\ i \in DOMAIN position
        /\ SumFunction(SizeDeltas(i)) = position[i].size
        /\ SumFunction(Payments(i)) = position[i].cumulative_funding
    BY <1>2 DEF LogInv, DeltasRebuildPositions
  <2>2. SumFunction(SizeDeltas(i))' = position'[i].size
    BY <1>2, <1>9, <2>1
  <2>3. CASE i = id
    BY <1>2, <1>11, <2>1, <2>2, <2>3
  <2>4. CASE i # id
    BY <1>2, <1>10, <2>1, <2>2, <2>4
  <2>5. QED
    BY <2>3, <2>4
<1>13. MoneyReported'
  <2>1. /\ ReportedPnls' = ReportedPnls /\ FundIncome' = FundIncome
        /\ FundPayouts' = FundPayouts
    BY <1>1 DEF ReportedPnls, FundIncome, FundPayouts
  <2>2. TradeFees' = TradeFees
    BY <1>1 DEF TradeFees
  <2>3. MoneyReported /\ MoneyKept
    BY DEF LogInv, FundingReported
  <2>4. QED
    BY <2>1, <2>2, <2>3 DEF MoneyReported, MoneyKept, Profit
<1>14. QED
  BY <1>4, <1>5, <1>6, <1>7, <1>8, <1>12, <1>13 DEF LogInv

LEMMA SettleFundingLogged ==
    ASSUME LogInv, Sound, NEW u \in Users, NEW m \in Markets, NEW rate \in FundingRates,
           NEW price \in Prices, SettleFunding(u, m, rate, price), EmitFunding(<<u, m>>)
    PROVE  LogInv'
<1>1. PICK id, p, q : id = <<u, m>> /\ p = position[id] /\ q = position'[id]
  OBVIOUS
<1>2. PICK g : g = [kind |-> "funding", sequence |-> 0, id |-> id,
                    payment |-> q.cumulative_funding - p.cumulative_funding]
  OBVIOUS
<1>3. Emit(<<g>>)
  BY <1>1, <1>2 DEF EmitFunding
<1>4. /\ id \in DOMAIN position /\ id \in PositionIds
      /\ \E paid : position' = [position EXCEPT ![id].cumulative_funding = @ + paid]
      /\ UNCHANGED <<ledgerConfig, userStats, vaultLocked, vaultAvailable, insurance,
                     settledFees, unbookedPnl>>
  BY <1>1 DEF SettleFunding, HasPosition, PositionIds, external, history
<1>5. /\ DOMAIN position' = DOMAIN position
      /\ \A i \in DOMAIN position \ {id} : position'[i] = position[i]
      /\ \E paid : q = [p EXCEPT !.cumulative_funding = @ + paid]
  BY <1>1, <1>4
<1>6. p \in Position /\ q \in Position
  BY <1>1, <1>4, <1>5 DEF Sound, IndInv, TypeOK
<1>7. /\ p.cumulative_funding \in Int /\ q.cumulative_funding \in Int
      /\ q.size = p.size /\ q.entry_price = p.entry_price /\ q.margin = p.margin
  BY <1>5, <1>6 DEF Position
<1>8. g \in FundingEvents
  <2>1. q.cumulative_funding - p.cumulative_funding \in Int
    BY <1>7
  <2>2. QED
    BY <1>2, <1>4, <2>1 DEF FundingEvents
<1>9. ASSUME NEW i \in DOMAIN position
      PROVE  /\ Snapshot(i)' = Snapshot(i) /\ position'[i].size = position[i].size
             /\ i # id => position'[i].cumulative_funding = position[i].cumulative_funding
  <2>1. CASE i = id
    BY <1>1, <1>5, <1>7, <2>1 DEF Snapshot
  <2>2. CASE i # id
    BY <1>5, <2>2 DEF Snapshot
  <2>3. QED
    BY <2>1, <2>2
<1>10. MoneyKept
  BY <1>4, ProfitKept DEF MoneyKept
<1>11. NextNumber \in Nat /\ NextNumber' = NextNumber
  BY <1>4, NumbersTyped DEF Sound, NextNumber
<1>12. position'[id].cumulative_funding = position[id].cumulative_funding + g.payment
  <2>1. q.cumulative_funding = p.cumulative_funding + (q.cumulative_funding - p.cumulative_funding)
    BY <1>7
  <2>2. QED
    BY <1>1, <1>2, <2>1
<1>13. FundingReported(g, id)
  BY <1>1, <1>2, <1>4, <1>5, <1>7, <1>8, <1>9, <1>10, <1>11, <1>12 DEF FundingReported
<1>14. QED
  BY <1>3, <1>13, FundingInd

\* Steps that report nothing and leave the accounts of positions alone.
LEMMA QuietInd ==
    ASSUME LogInv, UNCHANGED <<log, position>>, MoneyKept,
           NextNumber \in Nat, NextNumber' \in Nat, NextNumber <= NextNumber'
    PROVE  LogInv'
<1>1. /\ LogTypeOK' /\ NumbersIncrease' /\ ClosesLinked' /\ AccountsReported'
      /\ LastShown' /\ DeltasRebuildPositions'
  <2>1. \A kind : Of(kind)' = Of(kind)
    BY DEF Of
  <2>2. \A id, kind : About(id, kind)' = About(id, kind)
    BY <2>1 DEF About
  <2>3. LogTypeOK' /\ NumbersIncrease' /\ AccountsReported'
    BY <2>1 DEF LogInv, LogTypeOK, NumbersIncrease, AccountsReported
  <2>4. ClosesLinked'
    <3>1. AllLinked'
      BY LinksRestated DEF LogInv, AllLinked, HasTrade
    <3>2. QED
      BY <3>1, LinksRestated
  <2>5. LastShown'
    <3>1. \A id : Snapshot(id)' = Snapshot(id)
      BY DEF Snapshot
    <3>2. QED
      BY <2>2, <3>1 DEF LogInv, LastShown, IsApproximate
  <2>6. DeltasRebuildPositions'
    <3>1. \A id : SizeDeltas(id)' = SizeDeltas(id) /\ Payments(id)' = Payments(id)
      BY <2>2 DEF SizeDeltas, Payments
    <3>2. QED
      BY <3>1 DEF LogInv, DeltasRebuildPositions
  <2>7. QED
    BY <2>3, <2>4, <2>5, <2>6
<1>2. NumbersTaken'
  <2> SUFFICES ASSUME NEW i \in 1..Len(log)
               PROVE  log[i].sequence = 0 \/ log[i].sequence < NextNumber'
    BY DEF NumbersTaken, NextNumber
  <2>1. log[i] \in Events
    BY DEF LogInv, LogTypeOK
  <2>2. log[i].sequence \in Nat /\ (log[i].sequence = 0 \/ log[i].sequence < NextNumber)
    BY <2>1, OfKind DEF LogInv, NumbersTaken
  <2>3. QED
    BY <2>2
<1>3. MoneyReported'
  <2>1. /\ ReportedPnls' = ReportedPnls /\ FundIncome' = FundIncome
        /\ FundPayouts' = FundPayouts /\ TradeFees' = TradeFees
    BY DEF ReportedPnls, FundIncome, FundPayouts, TradeFees, Of
  <2>2. MoneyReported
    BY DEF LogInv
  <2>3. QED
    BY <2>1, <2>2 DEF MoneyReported, MoneyKept, Profit
<1>4. QED
  BY <1>1, <1>2, <1>3 DEF LogInv

LEMMA SilentLogged ==
    ASSUME LogInv, Sound, Silent
    PROVE  LogInv'
<1>1. UNCHANGED <<position, vaultLocked, vaultAvailable, insurance, settledFees>>
  BY DEF Silent, InitializeUserStats, BatchUnknown, SetPaused, external, history
<1>2. ledgerConfig \in LedgerConfig
  BY DEF Sound, IndInv, TypeOK
<1>3. /\ ledgerConfig'.total_fees_collected = ledgerConfig.total_fees_collected
      /\ NextNumber' \in {NextNumber, NextNumber + 1}
  BY <1>2 DEF Silent, InitializeUserStats, BatchUnknown, SetPaused, LedgerConfig, NextNumber
<1>4. NextNumber \in Nat /\ NextNumber' \in Nat /\ NextNumber <= NextNumber'
  <2>1. NextNumber \in Nat
    BY NumbersTyped DEF Sound
  <2> HIDE DEF NextNumber
  <2>2. QED
    BY <1>3, <2>1
<1>5. MoneyKept
  BY <1>1, <1>3, ProfitKept DEF MoneyKept
<1>6. QED
  BY <1>1, <1>4, <1>5, QuietInd DEF Silent

-----------------------------------------------------------------------------
(* The inductive invariant *)

LEMMA LogStepsAreSteps == [LogNext]_<<vars, log>> => [Next]_vars
<1> SUFFICES ASSUME [LogNext]_<<vars, log>> PROVE [Next]_vars
  OBVIOUS
<1>1. CASE \E u \in Users, m \in Markets, side \in Sides, size \in Sizes, price \in Prices,
              leverage \in Leverages, feeRate \in FeeRates :
                LoggedOpen(u, m, side, size, price, leverage, feeRate)
  BY <1>1 DEF LoggedOpen, Next
<1>2. CASE \E u \in Users, m \in Markets, size \in Sizes, price \in Prices, feeRate \in FeeRates :
                LoggedClose(u, m, size, price, feeRate)
  BY <1>2 DEF LoggedClose, Next
<1>3. CASE \E u \in Users, m \in Markets, mark \in Marks : LoggedLiquidate(u, m, mark)
  BY <1>3 DEF LoggedLiquidate, Next
<1>4. CASE \E u \in Users, m \in Markets, rate \in FundingRates, price \in Prices :
                SettleFunding(u, m, rate, price) /\ EmitFunding(<<u, m>>)
  BY <1>4 DEF Next
<1>5. CASE \E u \in Users, m \in Markets : AdminResetPosition(u, m) /\ EmitReset(<<u, m>>)
  BY <1>5 DEF Next
<1>6. CASE Silent
  BY <1>6 DEF Silent, Next
<1>7. CASE UNCHANGED <<vars, log>>
  BY <1>7
<1>8. QED
  BY <1>1, <1>2, <1>3, <1>4, <1>5, <1>6, <1>7 DEF LogNext

LEMMA InitLogged == LogInit => LogInv
<1> SUFFICES ASSUME LogInit PROVE LogInv
  OBVIOUS
<1>1. log = <<>> /\ Len(log) = 0 /\ 1..0 = {} /\ DOMAIN position = {} /\ DOMAIN userStats = {}
  BY DEF LogInit, Init
<1>2. \A kind : Of(kind) = {}
  BY <1>1 DEF Of
<1>3. LogTypeOK
  BY <1>1 DEF LogTypeOK
<1>4. NumbersTaken /\ NumbersIncrease /\ ClosesLinked /\ AccountsReported /\ LastShown
      /\ DeltasRebuildPositions
  BY <1>1, <1>2
     DEF NumbersTaken, NumbersIncrease, ClosesLinked, AccountsReported, LastShown,
         DeltasRebuildPositions
<1>5. MoneyReported
  <2>1. /\ DOMAIN ReportedPnls = {} /\ DOMAIN TradeFees = {} /\ DOMAIN FundIncome = {}
        /\ DOMAIN FundPayouts = {} /\ DOMAIN RealizedPnls = {}
    BY <1>1, <1>2 DEF ReportedPnls, TradeFees, FundIncome, FundPayouts, RealizedPnls
  <2>2. /\ SumFunction(ReportedPnls) = 0 /\ SumFunction(TradeFees) = 0
        /\ SumFunction(FundIncome) = 0 /\ SumFunction(FundPayouts) = 0
        /\ SumFunction(RealizedPnls) = 0
    BY <2>1, SumEmpty DEF SumFunction
  <2>3. ledgerConfig.total_fees_collected = 0 /\ insurance = 0 /\ unbookedPnl = 0
    BY DEF LogInit, Init
  <2>4. QED
    BY <2>2, <2>3 DEF MoneyReported
<1>6. QED
  BY <1>3, <1>4, <1>5 DEF LogInv

LEMMA NextLogged ==
    ASSUME LogInv, IndInv, BooksInv, [LogNext]_<<vars, log>>
    PROVE  LogInv'
<1>1. Sound
  <2>1. [Next]_vars
    BY LogStepsAreSteps
  <2>2. IndInv' /\ BooksInv'
    BY <2>1, NextInd, NextBooks
  <2>3. QED
    BY <2>2 DEF Sound
<1>2. CASE \E u \in Users, m \in Markets, side \in Sides, size \in Sizes, price \in Prices,
              leverage \in Leverages, feeRate \in FeeRates :
                LoggedOpen(u, m, side, size, price, leverage, feeRate)
  BY <1>1, <1>2, OpenPositionLogged, BatchOpenLogged DEF LoggedOpen
<1>3. CASE \E u \in Users, m \in Markets, size \in Sizes, price \in Prices, feeRate \in FeeRates :
                LoggedClose(u, m, size, price, feeRate)
  BY <1>1, <1>3, ClosePositionLogged, BatchCloseLogged DEF LoggedClose
<1>4. CASE \E u \in Users, m \in Markets, mark \in Marks : LoggedLiquidate(u, m, mark)
  BY <1>1, <1>4, LiquidateLogged
<1>5. CASE \E u \in Users, m \in Markets, rate \in FundingRates, price \in Prices :
                SettleFunding(u, m, rate, price) /\ EmitFunding(<<u, m>>)
  BY <1>1, <1>5, SettleFundingLogged
<1>6. CASE \E u \in Users, m \in Markets : AdminResetPosition(u, m) /\ EmitReset(<<u, m>>)
  BY <1>1, <1>6, ResetLogged
<1>7. CASE Silent
  BY <1>1, <1>7, SilentLogged
<1>8. CASE UNCHANGED <<vars, log>>
  <2>1. UNCHANGED <<ledgerConfig, position, insurance, log, userStats, unbookedPnl>>
    BY <1>8 DEF vars
  <2>2. MoneyKept
    BY <2>1 DEF MoneyKept, Profit, RealizedPnls
  <2>3. NextNumber \in Nat /\ NextNumber' = NextNumber
    BY <2>1, NumbersTyped DEF NextNumber
  <2> HIDE DEF NextNumber
  <2>4. NextNumber' \in Nat /\ NextNumber <= NextNumber'
    BY <2>3
  <2>5. QED
    BY <2>1, <2>2, <2>3, <2>4, QuietInd
<1>9. QED
  BY <1>2, <1>3, <1>4, <1>5, <1>6, <1>7, <1>8 DEF LogNext

\* The handlers with their events are the handlers.
LEMMA LogImplements == LogSpec => Spec
<1>1. LogInit => Init
  BY DEF LogInit
<1>2. [LogNext]_<<vars, log>> => [Next]_vars
  BY LogStepsAreSteps
<1>3. QED
  BY <1>1, <1>2, PTL DEF LogSpec, Spec

LEMMA LogInvariance == LogSpec => []LogInv
<1>1. LogInit => LogInv
  BY InitLogged
<1>2. LogInv /\ IndInv /\ BooksInv /\ [LogNext]_<<vars, log>> => LogInv'
  BY NextLogged
<1>3. QED
  BY <1>1, <1>2, LogImplements, Invariance, BooksInvariance, PTL DEF LogSpec

-----------------------------------------------------------------------------
(* Theorems *)

\* Every event has the fields its type declares, of the types it declares.
THEOREM LogTyped == LogSpec => []LogTypeOK
<1>1. LogInv => LogTypeOK
  BY DEF LogInv
<1>2. QED
  BY <1>1, LogInvariance, PTL

\* An indexer can order and deduplicate by kind and number, in a log of any length.
THEOREM NumbersSafe == LogSpec => []NumbersIncrease
<1>1. LogInv => NumbersIncrease
  BY DEF LogInv
<1>2. QED
  BY <1>1, LogInvariance, PTL

\* The trade a close or liquidation names is in the log, with its size and profit.
THEOREM LinksSafe == LogSpec => []ClosesLinked
<1>1. LogInv => ClosesLinked
  BY DEF LogInv
<1>2. QED
  BY <1>1, LogInvariance, PTL

\* The last snapshot of a position is the account, unless it is of an increase in a
\* batch.
THEOREM SnapshotsSafe == LogSpec => []SnapshotsRebuildMost
<1>1. LogInv => SnapshotsRebuildMost
  BY LastIsLast DEF LogInv
<1>2. QED
  BY <1>1, LogInvariance, PTL

\* The changes of size and the payments reported add up to the accounts, on both
\* paths, through liquidations and resets.
THEOREM DeltasSafe == LogSpec => []DeltasRebuildPositions
<1>1. LogInv => DeltasRebuildPositions
  BY DEF LogInv
<1>2. QED
  BY <1>1, LogInvariance, PTL

\* Profit, fees and the flow of the insurance fund can be told from the log alone.
THEOREM MoneySafe == LogSpec => []MoneyReported
<1>1. LogInv => MoneyReported
  BY DEF LogInv
<1>2. QED
  BY <1>1, LogInvariance, PTL
=============================================================================
