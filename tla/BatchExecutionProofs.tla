-------------------------- MODULE BatchExecutionProofs --------------------------
(* Theorems about BatchExecution, for batches of any length: the accounts are in *)
(* order at every moment of an execution and after every rollback, and the       *)
(* interleaved system implements the multisig, in which an execution is one step.*)
EXTENDS BatchExecution, PerpLedgerProofs

-----------------------------------------------------------------------------
(* The invariant *)

\* IndInv of PerpLedger, said of a copy of the accounts.
SoundCopy(a) ==
    /\ a.ledgerConfig \in LedgerConfig
    /\ DOMAIN a.position \in SUBSET PositionIds
    /\ a.position \in [DOMAIN a.position -> Position]
    /\ DOMAIN a.userStats \in SUBSET Users
    /\ a.userStats \in [DOMAIN a.userStats -> UserStats]
    /\ a.vaultLocked \in [PositionIds -> Int]
    /\ a.vaultAvailable \in Int
    /\ a.insurance \in Int
    /\ a.stranded \in [PositionIds -> Nat]
    /\ a.settledFees \in Nat
    /\ a.unbookedPnl \in Int
    /\ a.unknownTrades \in Nat
    /\ \A id \in PositionIds :
          a.vaultLocked[id] =
            (IF id \in DOMAIN a.position THEN a.position[id].margin ELSE 0) + a.stranded[id]
    /\ \A id \in DOMAIN a.position : SoundPosition(a.position[id])

BatchesTyped ==
    /\ now \in Nat
    /\ DOMAIN tradeBatch \in SUBSET BatchIds
    /\ tradeBatch \in [DOMAIN tradeBatch -> MS!BatchRecord]

RunningRecord == [account: BatchIds, batch: BatchIds, trades: TradeLists, next: Nat \ {0}]

\* What was checked before the flag was written stays true until the execution
\* ends, although other batches are submitted and confirmed meanwhile.
RunningInv ==
    ~Idle =>
        LET a == running.account
        IN  /\ running \in RunningRecord
            /\ a \in DOMAIN tradeBatch
            /\ \E r \in Relayers : MS!IsAuthorized(r)
            /\ ~MS!IsExpired(a)
            /\ tradeBatch[a].executed
            /\ MS!HasEnoughSignatures(a)
            /\ MS!VerifyBatchHash(a, running.batch, running.trades)
            /\ SoundCopy(saved)

SysInv == IndInv /\ BatchesTyped /\ RunningInv

-----------------------------------------------------------------------------
(* The accounts *)

LEMMA CopyIsSound == IndInv => SoundCopy(Accounts)
  BY DEF IndInv, TypeOK, MarginAccounted, MarginOf, PositionsSound, SoundCopy, Accounts

LEMMA RestoredAccounts ==
    ASSUME SoundCopy(saved), Restore PROVE IndInv'
<1>1. TypeOK'
  BY DEF SoundCopy, Restore, TypeOK
<1>2. MarginAccounted'
  BY DEF SoundCopy, Restore, MarginAccounted, MarginOf
<1>3. PositionsSound'
  BY DEF SoundCopy, Restore, PositionsSound, SoundPosition, IsEmpty
<1>4. QED
  BY <1>1, <1>2, <1>3 DEF IndInv

\* Each turn of the loop is one of the steps PerpLedger has for it.
LEMMA AppliedTradeIsStep ==
    ASSUME NEW trades \in TradeLists, NEW i \in 1..Len(trades), ApplyTrade(trades[i])
    PROVE  Next
<1> DEFINE t == trades[i]
<1>1. t \in TradeData
  BY TradeListsAssumption
<1>2. /\ t.user \in Users /\ t.market \in Markets /\ t.side \in Sides /\ t.size \in Sizes
      /\ t.price \in Prices /\ t.leverage \in Leverages /\ t.fee_rate \in FeeRates
  BY <1>1 DEF TradeData
<1> HIDE DEF t
<1>3. ApplyTrade(t)
  BY DEF t
<1>4. CASE BatchOpen(t.user, t.market, t.side, t.size, t.price, t.leverage, t.fee_rate)
  BY <1>2, <1>4 DEF Next
<1>5. CASE BatchClose(t.user, t.market, t.size, t.price, t.fee_rate)
  BY <1>2, <1>5 DEF Next
<1>6. CASE BatchUnknown(t.user, t.size, t.price)
  BY <1>2, <1>6 DEF Next
<1>7. QED
  BY <1>3, <1>4, <1>5, <1>6 DEF ApplyTrade

LEMMA RunTradeIsStep == RunningInv /\ RunTrade => Next
<1> SUFFICES ASSUME RunningInv, RunTrade PROVE Next
  OBVIOUS
<1>1. /\ running.trades \in TradeLists /\ running.next \in Nat \ {0}
      /\ running.next <= Len(running.trades)
      /\ ApplyTrade(running.trades[running.next])
  BY DEF RunningInv, RunningRecord, RunTrade
<1>2. Len(running.trades) \in Nat
  BY <1>1, TradeListsAssumption
<1>3. QED
  BY <1>1, <1>2, AppliedTradeIsStep

LEMMA DirectTradeIsStep == DirectTrade => Next
<1>1. CASE \E u \in Users, m \in Markets, side \in Sides, size \in Sizes, price \in Prices,
              leverage \in Leverages, feeRate \in FeeRates :
                OpenPosition(u, m, side, size, price, leverage, feeRate)
  BY <1>1 DEF Next
<1>2. CASE \E u \in Users, m \in Markets, size \in Sizes, price \in Prices, feeRate \in FeeRates :
                ClosePosition(u, m, size, price, feeRate)
  BY <1>2 DEF Next
<1>3. QED
  BY <1>1, <1>2 DEF DirectTrade

LEMMA MaintainIsStep == Maintain => Next
<1>1. CASE \E u \in Users : InitializeUserStats(u)
  BY <1>1 DEF Next
<1>2. CASE \E u \in Users, m \in Markets, mark \in Marks : Liquidate(u, m, mark)
  BY <1>2 DEF Next
<1>3. CASE \E u \in Users, m \in Markets, rate \in FundingRates, price \in Prices :
                SettleFunding(u, m, rate, price)
  BY <1>3 DEF Next
<1>4. CASE \E u \in Users, m \in Markets : AdminResetPosition(u, m)
  BY <1>4 DEF Next
<1>5. QED
  BY <1>1, <1>2, <1>3, <1>4 DEF Maintain

LEMMA AccountsInd == IndInv /\ RunningInv /\ [SysNext]_sysVars => IndInv'
<1> SUFFICES ASSUME IndInv, RunningInv, [SysNext]_sysVars PROVE IndInv'
  OBVIOUS
<1>1. CASE [Next]_vars
  BY <1>1, NextInd
<1>2. CASE Rollback
  BY <1>2, RestoredAccounts DEF RunningInv, Rollback
<1>3. CASE DirectTrade
  BY <1>1, <1>3, DirectTradeIsStep
<1>4. CASE Maintain
  BY <1>1, <1>4, MaintainIsStep
<1>5. CASE RunTrade
  BY <1>1, <1>5, RunTradeIsStep
<1>6. CASE \E paused \in BOOLEAN : Pause(paused)
  BY <1>1, <1>6 DEF Pause, Next
<1>7. CASE \/ \E r \in Relayers, b \in BatchIds, h \in MS!Hashes :
                 Submit(r, b, h) \/ Confirm(r, b, h)
           \/ ChangeRelayers
           \/ \E r \in Relayers, a \in BatchIds, b \in BatchIds, t \in TradeLists : Begin(r, a, b, t)
           \/ Commit
           \/ UNCHANGED sysVars
  <2>1. UNCHANGED vars
    BY <1>7 DEF Submit, Confirm, ChangeRelayers, Begin, Commit, sysVars
  <2>2. QED
    BY <1>1, <2>1
<1>8. QED
  BY <1>2, <1>3, <1>4, <1>5, <1>6, <1>7 DEF SysNext, Proceed

-----------------------------------------------------------------------------
(* The batches *)

LEMMA SubmitKeepsBatches ==
    ASSUME BatchesTyped, RunningInv, NEW r \in Relayers, NEW b \in BatchIds,
           NEW h \in MS!Hashes, Submit(r, b, h)
    PROVE  BatchesTyped' /\ RunningInv'
<1>1. /\ b \notin DOMAIN tradeBatch
      /\ tradeBatch' = [c \in DOMAIN tradeBatch \cup {b} |->
            IF c = b
            THEN [data_hash  |-> h, signatures |-> <<r>>, executed |-> FALSE,
                  created_at |-> now, expires_at |-> now + TRADE_BATCH_EXPIRY_SECONDS]
            ELSE tradeBatch[c]]
      /\ UNCHANGED <<relayerConfig, now, running, saved>>
  BY DEF Submit, MS!SubmitTradeBatch
<1>2. BatchesTyped'
  <2>1. [data_hash  |-> h, signatures |-> <<r>>, executed |-> FALSE,
         created_at |-> now, expires_at |-> now + TRADE_BATCH_EXPIRY_SECONDS] \in MS!BatchRecord
    BY TradeListsAssumption DEF BatchesTyped, MS!BatchRecord
  <2>2. QED
    BY <1>1, <2>1 DEF BatchesTyped
<1>3. RunningInv'
  <2> SUFFICES ASSUME ~Idle' PROVE RunningInv'
    BY DEF RunningInv
  <2>1. ~Idle /\ running.account \in DOMAIN tradeBatch
    BY <1>1 DEF Idle, RunningInv
  <2>2. running.account \in DOMAIN tradeBatch' /\ tradeBatch'[running.account] = tradeBatch[running.account]
    BY <1>1, <2>1
  <2>3. QED
    BY <1>1, <2>1, <2>2 DEF RunningInv, MS!IsAuthorized, MS!IsExpired, MS!HasEnoughSignatures,
       MS!SignatureCount, MS!VerifyBatchHash, MS!DataHash
<1>4. QED
  BY <1>2, <1>3

LEMMA ConfirmKeepsBatches ==
    ASSUME BatchesTyped, RunningInv, NEW r \in Relayers, NEW b \in BatchIds,
           NEW h \in MS!Hashes, Confirm(r, b, h)
    PROVE  BatchesTyped' /\ RunningInv'
<1>1. /\ b # running.account
      /\ b \in DOMAIN tradeBatch
      /\ tradeBatch' = [tradeBatch EXCEPT ![b].signatures = Append(@, r)]
      /\ UNCHANGED <<relayerConfig, now, running, saved>>
  BY DEF Confirm, MS!ConfirmTradeBatch
<1>2. BatchesTyped'
  <2> DEFINE signed == Append(tradeBatch[b].signatures, r)
  <2>1. tradeBatch[b] \in MS!BatchRecord
    BY <1>1 DEF BatchesTyped
  <2>2. signed \in Seq(Relayers)
    BY <2>1 DEF MS!BatchRecord
  <2>3. tradeBatch' = [tradeBatch EXCEPT ![b].signatures = signed]
    BY <1>1
  <2> HIDE DEF signed
  <2>4. [tradeBatch[b] EXCEPT !.signatures = signed] \in MS!BatchRecord
    BY <2>1, <2>2 DEF MS!BatchRecord
  <2>5. QED
    BY <1>1, <2>3, <2>4 DEF BatchesTyped
<1>3. RunningInv'
  <2> SUFFICES ASSUME ~Idle' PROVE RunningInv'
    BY DEF RunningInv
  <2>1. ~Idle /\ running.account \in DOMAIN tradeBatch
    BY <1>1 DEF Idle, RunningInv
  <2>2. running.account \in DOMAIN tradeBatch' /\ tradeBatch'[running.account] = tradeBatch[running.account]
    BY <1>1, <2>1
  <2>3. QED
    BY <1>1, <2>1, <2>2 DEF RunningInv, MS!IsAuthorized, MS!IsExpired, MS!HasEnoughSignatures,
       MS!SignatureCount, MS!VerifyBatchHash, MS!DataHash
<1>4. QED
  BY <1>2, <1>3

LEMMA ChangeRelayersKeepsBatches ==
    BatchesTyped /\ ChangeRelayers => BatchesTyped' /\ RunningInv'
<1> SUFFICES ASSUME BatchesTyped, ChangeRelayers PROVE BatchesTyped' /\ RunningInv'
  OBVIOUS
<1>1. Idle'
  BY DEF ChangeRelayers, Idle
<1>2. tradeBatch' = tradeBatch /\ now' \in Nat
  <2>1. CASE MS!Tick
    BY <2>1 DEF BatchesTyped, MS!Tick
  <2>2. CASE \E r \in Relayers : MS!AddRelayer(r)
    BY <2>2 DEF BatchesTyped, MS!AddRelayer
  <2>3. CASE \E r \in Relayers : MS!RemoveRelayer(r)
    BY <2>3 DEF BatchesTyped, MS!RemoveRelayer
  <2>4. CASE \E n \in 0..MAX_RELAYERS + 1 : MS!UpdateRequiredSignatures(n)
    BY <2>4 DEF BatchesTyped, MS!UpdateRequiredSignatures
  <2>5. QED
    BY <2>1, <2>2, <2>3, <2>4 DEF ChangeRelayers
<1>3. QED
  BY <1>1, <1>2 DEF BatchesTyped, RunningInv

\* The executed flag of a batch that is there is written, by Begin and by Rollback.
LEMMA FlagWritten ==
    ASSUME BatchesTyped, NEW b \in DOMAIN tradeBatch, NEW flag \in BOOLEAN,
           tradeBatch' = [tradeBatch EXCEPT ![b].executed = flag], now' = now
    PROVE  /\ BatchesTyped'
           /\ DOMAIN tradeBatch' = DOMAIN tradeBatch
           /\ tradeBatch'[b] = [tradeBatch[b] EXCEPT !.executed = flag]
           /\ tradeBatch'[b].executed = flag
           /\ tradeBatch'[b].signatures = tradeBatch[b].signatures
           /\ tradeBatch'[b].data_hash = tradeBatch[b].data_hash
           /\ tradeBatch'[b].expires_at = tradeBatch[b].expires_at
<1>1. tradeBatch[b] \in MS!BatchRecord
  BY DEF BatchesTyped
<1>2. [tradeBatch[b] EXCEPT !.executed = flag] \in MS!BatchRecord
  BY <1>1 DEF MS!BatchRecord
<1>3. tradeBatch' = [tradeBatch EXCEPT ![b] = [@ EXCEPT !.executed = flag]]
  OBVIOUS
<1>4. tradeBatch'[b] = [tradeBatch[b] EXCEPT !.executed = flag]
  BY <1>3
<1>5. BatchesTyped'
  BY <1>2, <1>3 DEF BatchesTyped
<1>6. QED
  BY <1>1, <1>3, <1>4, <1>5 DEF MS!BatchRecord

LEMMA BeginKeepsBatches ==
    ASSUME IndInv, BatchesTyped, NEW r \in Relayers, NEW a \in BatchIds,
           NEW b \in BatchIds, NEW trades \in TradeLists, Begin(r, a, b, trades)
    PROVE  BatchesTyped' /\ RunningInv'
<1>1. /\ a \in DOMAIN tradeBatch
      /\ tradeBatch' = [tradeBatch EXCEPT ![a].executed = TRUE]
      /\ saved' = Accounts
      /\ running' = [account |-> a, batch |-> b, trades |-> trades, next |-> 1]
      /\ UNCHANGED <<relayerConfig, now>>
      /\ MS!IsAuthorized(r)
      /\ now <= tradeBatch[a].expires_at \/ ~(now > tradeBatch[a].expires_at)
      /\ Len(tradeBatch[a].signatures) >= relayerConfig.required_signatures
      /\ <<b, trades>> = tradeBatch[a].data_hash
  BY DEF Begin, MS!IsExpired, MS!HasEnoughSignatures, MS!SignatureCount, MS!VerifyBatchHash,
     MS!DataHash
<1>2. /\ BatchesTyped'
      /\ DOMAIN tradeBatch' = DOMAIN tradeBatch
      /\ tradeBatch'[a].executed
      /\ tradeBatch'[a].signatures = tradeBatch[a].signatures
      /\ tradeBatch'[a].data_hash = tradeBatch[a].data_hash
      /\ tradeBatch'[a].expires_at = tradeBatch[a].expires_at
  BY <1>1, FlagWritten
<1>3. ~MS!IsExpired(a)'
  BY <1>1, <1>2 DEF Begin, MS!IsExpired
<1>4. SoundCopy(saved')
  BY <1>1, CopyIsSound
<1>5. /\ running' \in RunningRecord
      /\ running'.account = a /\ running'.batch = b /\ running'.trades = trades
  BY <1>1 DEF RunningRecord
<1>6. /\ MS!IsAuthorized(r)'
      /\ MS!HasEnoughSignatures(a)'
      /\ MS!VerifyBatchHash(a, b, trades)'
  BY <1>1, <1>2 DEF MS!IsAuthorized, MS!HasEnoughSignatures, MS!SignatureCount,
     MS!VerifyBatchHash, MS!DataHash
<1>7. QED
  BY <1>1, <1>2, <1>3, <1>4, <1>5, <1>6 DEF RunningInv, MS!IsExpired, MS!HasEnoughSignatures,
     MS!SignatureCount, MS!VerifyBatchHash, MS!DataHash, SoundCopy

LEMMA RunTradeKeepsBatches ==
    BatchesTyped /\ RunningInv /\ RunTrade => BatchesTyped' /\ RunningInv'
<1> SUFFICES ASSUME BatchesTyped, RunningInv, RunTrade PROVE BatchesTyped' /\ RunningInv'
  OBVIOUS
<1>1. /\ ~Idle
      /\ running' = [running EXCEPT !.next = @ + 1]
      /\ UNCHANGED <<tradeBatch, relayerConfig, now, saved>>
  BY DEF RunTrade, multisig
<1>2. running \in RunningRecord
  BY <1>1 DEF RunningInv
<1>3. /\ running' \in RunningRecord
      /\ running'.account = running.account /\ running'.batch = running.batch
      /\ running'.trades = running.trades
  BY <1>1, <1>2 DEF RunningRecord
<1>4. QED
  BY <1>1, <1>3 DEF BatchesTyped, RunningInv, MS!IsAuthorized, MS!IsExpired,
     MS!HasEnoughSignatures, MS!SignatureCount, MS!VerifyBatchHash, MS!DataHash

LEMMA RollbackKeepsBatches ==
    BatchesTyped /\ RunningInv /\ Rollback => BatchesTyped' /\ RunningInv'
<1> SUFFICES ASSUME BatchesTyped, RunningInv, Rollback PROVE BatchesTyped' /\ RunningInv'
  OBVIOUS
<1>1. /\ running.account \in DOMAIN tradeBatch
      /\ tradeBatch' = [tradeBatch EXCEPT ![running.account].executed = FALSE]
      /\ now' = now
      /\ Idle'
  BY DEF Rollback, RunningInv, Idle
<1>2. BatchesTyped'
  BY <1>1, FlagWritten
<1>3. QED
  BY <1>1, <1>2 DEF RunningInv

LEMMA BatchesInd == SysInv /\ [SysNext]_sysVars => BatchesTyped' /\ RunningInv'
<1> SUFFICES ASSUME SysInv, [SysNext]_sysVars PROVE BatchesTyped' /\ RunningInv'
  OBVIOUS
<1> USE DEF SysInv
<1>1. CASE \E r \in Relayers, b \in BatchIds, h \in MS!Hashes : Submit(r, b, h)
  BY <1>1, SubmitKeepsBatches
<1>2. CASE \E r \in Relayers, b \in BatchIds, h \in MS!Hashes : Confirm(r, b, h)
  BY <1>2, ConfirmKeepsBatches
<1>3. CASE ChangeRelayers
  BY <1>3, ChangeRelayersKeepsBatches
<1>4. CASE \E r \in Relayers, a \in BatchIds, b \in BatchIds, t \in TradeLists : Begin(r, a, b, t)
  BY <1>4, BeginKeepsBatches
<1>5. CASE RunTrade
  BY <1>5, RunTradeKeepsBatches
<1>6. CASE Rollback
  BY <1>6, RollbackKeepsBatches
<1>7. CASE (\E paused \in BOOLEAN : Pause(paused)) \/ DirectTrade \/ Maintain \/ Commit
  <2>1. Idle' /\ UNCHANGED <<tradeBatch, now>>
    BY <1>7 DEF Pause, DirectTrade, Maintain, Commit, multisig, Idle
  <2>2. QED
    BY <2>1 DEF BatchesTyped, RunningInv
<1>8. CASE UNCHANGED sysVars
  BY <1>8 DEF sysVars, multisig, BatchesTyped, RunningInv, Idle, MS!IsAuthorized, MS!IsExpired,
     MS!HasEnoughSignatures, MS!SignatureCount, MS!VerifyBatchHash, MS!DataHash
<1>9. QED
  BY <1>1, <1>2, <1>3, <1>4, <1>5, <1>6, <1>7, <1>8 DEF SysNext, Proceed

-----------------------------------------------------------------------------
(* Theorems *)

LEMMA SysInitInv == SysInit => SysInv
<1> SUFFICES ASSUME SysInit PROVE SysInv
  OBVIOUS
<1>1. IndInv
  BY InitInd DEF SysInit
<1>2. BatchesTyped
  BY DEF SysInit, MS!Init, BatchesTyped
<1>3. RunningInv
  BY DEF SysInit, RunningInv, Idle
<1>4. QED
  BY <1>1, <1>2, <1>3 DEF SysInv

LEMMA SysNextInv == SysInv /\ [SysNext]_sysVars => SysInv'
  BY AccountsInd, BatchesInd DEF SysInv

THEOREM SysInvariance == SysSpec => []SysInv
<1>1. SysInit => SysInv
  BY SysInitInv
<1>2. SysInv /\ [SysNext]_sysVars => SysInv'
  BY SysNextInv
<1>3. QED
  BY <1>1, <1>2, PTL DEF SysSpec

\* The vault holds what the positions show and what was left behind, between
\* any two trades of a batch and after an execution that was undone half-way.
THEOREM MarginSafeInBatches == SysSpec => []MarginAccounted
<1>1. SysInv => MarginAccounted
  BY DEF SysInv, IndInv
<1>2. QED
  BY <1>1, SysInvariance, PTL

-----------------------------------------------------------------------------
(* An execution is one step of the multisig *)

LEMMA VisibleInit == SysInit => Visible!Init
<1> SUFFICES ASSUME SysInit PROVE Visible!Init
  OBVIOUS
<1>1. VisibleBatches = tradeBatch
  BY DEF SysInit, VisibleBatches, Idle
<1>2. ledgerConfig.is_paused = FALSE
  BY DEF SysInit, Init
<1>3. QED
  BY <1>1, <1>2 DEF SysInit, MS!Init, Visible!Init, MS!Slots, Visible!Slots

\* A step that leaves the batches as the others see them can only be a pause.
LEMMA NothingVisible ==
    ASSUME IndInv', VisibleBatches' = VisibleBatches,
           UNCHANGED <<relayerConfig, now, endorsements, executions>>
    PROVE  Visible!Next
<1>1. ledgerConfig'.is_paused \in BOOLEAN
  BY DEF IndInv, TypeOK, LedgerConfig
<1>2. Visible!SetPaused(ledgerConfig'.is_paused)
  BY DEF Visible!SetPaused
<1>3. QED
  BY <1>1, <1>2 DEF Visible!Next

LEMMA VisibleSame ==
    ASSUME RunningInv, UNCHANGED tradeBatch,
           Idle' <=> Idle, ~Idle => running'.account = running.account
    PROVE  VisibleBatches' = VisibleBatches
  BY DEF VisibleBatches

\* Beside an execution the batches differ from what is visible in its own only.
LEMMA VisibleOthers ==
    ASSUME RunningInv, BatchesTyped
    PROVE  /\ DOMAIN VisibleBatches = DOMAIN tradeBatch
           /\ VisibleBatches = [c \in DOMAIN tradeBatch |-> VisibleBatches[c]]
           /\ \A c \in DOMAIN tradeBatch :
                 Idle \/ c # running.account => VisibleBatches[c] = tradeBatch[c]
           /\ \A c \in DOMAIN tradeBatch :
                 /\ VisibleBatches[c].data_hash = tradeBatch[c].data_hash
                 /\ VisibleBatches[c].signatures = tradeBatch[c].signatures
                 /\ VisibleBatches[c].expires_at = tradeBatch[c].expires_at
           /\ ~Idle => /\ VisibleBatches[running.account]
                            = [tradeBatch[running.account] EXCEPT !.executed = FALSE]
                       /\ ~VisibleBatches[running.account].executed
<1>1. CASE Idle
  BY <1>1 DEF VisibleBatches, BatchesTyped
<1>2. CASE ~Idle
  <2> DEFINE a == running.account
             hidden == [tradeBatch[a] EXCEPT !.executed = FALSE]
  <2>1. a \in DOMAIN tradeBatch
    BY <1>2 DEF RunningInv
  <2>2. tradeBatch[a] \in MS!BatchRecord
    BY <2>1 DEF BatchesTyped
  <2>3. VisibleBatches = [tradeBatch EXCEPT ![a] = hidden]
    BY <1>2 DEF VisibleBatches
  <2>4. /\ hidden.data_hash = tradeBatch[a].data_hash
        /\ hidden.signatures = tradeBatch[a].signatures
        /\ hidden.expires_at = tradeBatch[a].expires_at
        /\ hidden.executed = FALSE
    BY <2>2 DEF MS!BatchRecord
  <2> HIDE DEF hidden
  <2>5. /\ DOMAIN VisibleBatches = DOMAIN tradeBatch
        /\ VisibleBatches = [c \in DOMAIN tradeBatch |-> VisibleBatches[c]]
        /\ \A c \in DOMAIN tradeBatch : VisibleBatches[c] = IF c = a THEN hidden ELSE tradeBatch[c]
    BY <2>1, <2>3 DEF BatchesTyped
  <2>6. QED
    BY <1>2, <2>1, <2>4, <2>5 DEF hidden
<1>3. QED
  BY <1>1, <1>2

LEMMA SubmitVisible ==
    ASSUME SysInv, SysInv', NEW r \in Relayers, NEW b \in BatchIds, NEW h \in MS!Hashes,
           Submit(r, b, h)
    PROVE  Visible!Next
<1> DEFINE new == [data_hash  |-> h, signatures |-> <<r>>, executed |-> FALSE,
                   created_at |-> now, expires_at |-> now + TRADE_BATCH_EXPIRY_SECONDS]
<1>1. /\ MS!IsAuthorized(r)
      /\ b \notin DOMAIN tradeBatch
      /\ tradeBatch' = [c \in DOMAIN tradeBatch \cup {b} |-> IF c = b THEN new ELSE tradeBatch[c]]
      /\ endorsements' = endorsements \cup {<<r, b, h>>}
      /\ UNCHANGED <<relayerConfig, now, executions, running, ledgerConfig>>
  BY DEF Submit, MS!SubmitTradeBatch, vars
<1>2. h \in Visible!Hashes /\ Visible!IsAuthorized(r)
  BY <1>1 DEF MS!Hashes, Visible!Hashes, MS!IsAuthorized, Visible!IsAuthorized
<1> HIDE DEF new
<1>3. VisibleBatches' =
        [c \in DOMAIN VisibleBatches \cup {b} |-> IF c = b THEN new ELSE VisibleBatches[c]]
  <2>1. Idle' <=> Idle
    BY <1>1 DEF Idle
  <2>2. CASE Idle
    BY <1>1, <2>1, <2>2 DEF VisibleBatches
  <2>3. CASE ~Idle
    <3>1. running.account \in DOMAIN tradeBatch
      BY <2>3 DEF SysInv, RunningInv
    <3>2. VisibleBatches' = [tradeBatch' EXCEPT ![running.account].executed = FALSE]
      BY <1>1, <2>1, <2>3 DEF VisibleBatches
    <3>3. VisibleBatches = [tradeBatch EXCEPT ![running.account].executed = FALSE]
      BY <2>3 DEF VisibleBatches
    <3>4. tradeBatch'[running.account] = tradeBatch[running.account] /\ running.account # b
      BY <1>1, <3>1
    <3>5. QED
      BY <1>1, <3>1, <3>2, <3>3, <3>4
  <2>4. QED
    BY <2>2, <2>3
<1>4. b \notin DOMAIN VisibleBatches
  BY <1>1, VisibleOthers DEF SysInv
<1>5. Visible!SubmitTradeBatch(r, b, h)
  BY <1>1, <1>2, <1>3, <1>4 DEF Visible!SubmitTradeBatch, new
<1>6. QED
  BY <1>2, <1>5 DEF Visible!Next

LEMMA ConfirmVisible ==
    ASSUME SysInv, SysInv', NEW r \in Relayers, NEW b \in BatchIds, NEW h \in MS!Hashes,
           Confirm(r, b, h)
    PROVE  Visible!Next
<1>1. /\ b # running.account
      /\ b \in DOMAIN tradeBatch
      /\ MS!IsAuthorized(r)
      /\ ~MS!IsExpired(b)
      /\ ~tradeBatch[b].executed
      /\ tradeBatch[b].data_hash = h
      /\ ~MS!HasSigned(r, b)
      /\ MS!SignatureCount(b) < MAX_SIGNATURES
      /\ tradeBatch' = [tradeBatch EXCEPT ![b].signatures = Append(@, r)]
      /\ endorsements' = endorsements \cup {<<r, b, h>>}
      /\ UNCHANGED <<relayerConfig, now, executions, running, ledgerConfig>>
  BY DEF Confirm, MS!ConfirmTradeBatch, vars
<1>2. h \in Visible!Hashes /\ Visible!IsAuthorized(r)
  BY <1>1 DEF MS!Hashes, Visible!Hashes, MS!IsAuthorized, Visible!IsAuthorized
<1>3. b \in DOMAIN VisibleBatches /\ VisibleBatches[b] = tradeBatch[b]
  BY <1>1, VisibleOthers DEF SysInv
<1>4. VisibleBatches' = [VisibleBatches EXCEPT ![b].signatures = Append(@, r)]
  <2>1. Idle' <=> Idle
    BY <1>1 DEF Idle
  <2>2. CASE Idle
    BY <1>1, <2>1, <2>2 DEF VisibleBatches
  <2>3. CASE ~Idle
    <3> DEFINE signed == Append(tradeBatch[b].signatures, r)
               x == running.account
    <3>1. x \in DOMAIN tradeBatch /\ x # b
      BY <1>1, <2>3 DEF SysInv, RunningInv
    <3>2. VisibleBatches' = [tradeBatch' EXCEPT ![x].executed = FALSE]
      BY <1>1, <2>1, <2>3 DEF VisibleBatches
    <3>3. VisibleBatches = [tradeBatch EXCEPT ![x].executed = FALSE]
      BY <2>3 DEF VisibleBatches
    <3>4. tradeBatch' = [tradeBatch EXCEPT ![b].signatures = signed]
      BY <1>1
    <3> HIDE DEF signed, x
    <3>5. VisibleBatches' = [VisibleBatches EXCEPT ![b].signatures = signed]
      BY <1>1, <3>1, <3>2, <3>3, <3>4
    <3>6. QED
      BY <1>3, <3>5 DEF signed
  <2>4. QED
    BY <2>2, <2>3
<1>5. /\ ~Visible!IsExpired(b)
      /\ ~VisibleBatches[b].executed
      /\ VisibleBatches[b].data_hash = h
      /\ ~Visible!HasSigned(r, b)
      /\ Visible!SignatureCount(b) < MAX_SIGNATURES
  BY <1>1, <1>3 DEF MS!IsExpired, Visible!IsExpired, MS!HasSigned, Visible!HasSigned,
     MS!SignatureCount, Visible!SignatureCount
<1>6. Visible!ConfirmTradeBatch(r, b, h)
  BY <1>1, <1>2, <1>3, <1>4, <1>5 DEF Visible!ConfirmTradeBatch
<1>7. QED
  BY <1>2, <1>6 DEF Visible!Next

LEMMA ChangeRelayersVisible == ChangeRelayers => Visible!Next
<1> SUFFICES ASSUME ChangeRelayers PROVE Visible!Next
  OBVIOUS
<1>1. VisibleBatches = tradeBatch /\ VisibleBatches' = tradeBatch'
  BY DEF ChangeRelayers, VisibleBatches, Idle
<1>2. CASE \E r \in Relayers : MS!AddRelayer(r)
  BY <1>1, <1>2 DEF MS!AddRelayer, Visible!AddRelayer, MS!IsAuthorized, Visible!IsAuthorized,
     MS!Slots, Visible!Slots, Visible!Next
<1>3. CASE \E r \in Relayers : MS!RemoveRelayer(r)
  BY <1>1, <1>3 DEF MS!RemoveRelayer, Visible!RemoveRelayer, MS!IsAuthorized,
     Visible!IsAuthorized, Visible!Next
<1>4. CASE \E n \in 0..MAX_RELAYERS + 1 : MS!UpdateRequiredSignatures(n)
  <2>1. MS!RelayerCount = Visible!RelayerCount
    BY DEF MS!RelayerCount, Visible!RelayerCount, MS!Cardinality, Visible!Cardinality
  <2>2. QED
    BY <1>1, <1>4, <2>1 DEF MS!UpdateRequiredSignatures, Visible!UpdateRequiredSignatures,
       Visible!Next
<1>5. CASE MS!Tick
  BY <1>1, <1>5 DEF MS!Tick, Visible!Tick, Visible!Next
<1>6. QED
  BY <1>2, <1>3, <1>4, <1>5 DEF ChangeRelayers

\* What the flag was before it was written is what the others go on seeing.
LEMMA BeginVisible ==
    ASSUME SysInv, SysInv', NEW r \in Relayers, NEW a \in BatchIds, NEW b \in BatchIds,
           NEW t \in TradeLists, Begin(r, a, b, t)
    PROVE  Visible!Next
<1>1. /\ Idle
      /\ a \in DOMAIN tradeBatch
      /\ ~tradeBatch[a].executed
      /\ tradeBatch' = [tradeBatch EXCEPT ![a].executed = TRUE]
      /\ running'.account = a
      /\ UNCHANGED <<relayerConfig, now, endorsements, executions>>
  BY DEF Begin
<1>2. ~Idle'
  BY <1>1, TradeListsAssumption DEF Idle, NotRunning
<1>3. tradeBatch[a] \in MS!BatchRecord
  BY <1>1 DEF SysInv, BatchesTyped
<1>4. VisibleBatches' = [tradeBatch' EXCEPT ![a].executed = FALSE]
  BY <1>1, <1>2 DEF VisibleBatches
<1>5. VisibleBatches' = tradeBatch
  <2> DEFINE old == tradeBatch[a]
             written == [old EXCEPT !.executed = TRUE]
  <2>1. tradeBatch' = [tradeBatch EXCEPT ![a] = written]
    BY <1>1
  <2>2. [written EXCEPT !.executed = FALSE] = old
    BY <1>1, <1>3 DEF MS!BatchRecord
  <2> HIDE DEF old, written
  <2>3. VisibleBatches' = [tradeBatch' EXCEPT ![a] = [written EXCEPT !.executed = FALSE]]
    BY <1>1, <1>4, <2>1 DEF SysInv, BatchesTyped
  <2>4. VisibleBatches' = [tradeBatch EXCEPT ![a] = old]
    BY <1>1, <2>1, <2>2, <2>3 DEF SysInv, BatchesTyped
  <2>5. QED
    BY <1>1, <2>4 DEF SysInv, BatchesTyped, old
<1>6. VisibleBatches = tradeBatch
  BY <1>1 DEF VisibleBatches
<1>7. QED
  BY <1>1, <1>5, <1>6, NothingVisible DEF SysInv

LEMMA RunTradeVisible ==
    ASSUME SysInv, SysInv', RunTrade
    PROVE  Visible!Next
<1>1. /\ ~Idle
      /\ running' = [running EXCEPT !.next = @ + 1]
      /\ UNCHANGED multisig
  BY DEF RunTrade
<1>2. running \in RunningRecord
  BY <1>1 DEF SysInv, RunningInv
<1>3. running'.account = running.account /\ running'.account # NoBatch
  BY <1>1, <1>2, TradeListsAssumption DEF RunningRecord
<1>4. ~Idle'
  BY <1>3 DEF Idle, NotRunning
<1>5. VisibleBatches' = VisibleBatches
  BY <1>1, <1>3, <1>4, VisibleSame DEF multisig, SysInv
<1>6. QED
  BY <1>1, <1>5, NothingVisible DEF multisig, SysInv

\* The commit is the moment at which the others see the execution.
LEMMA CommitVisible ==
    ASSUME SysInv, SysInv', Commit
    PROVE  Visible!Next
<1> DEFINE a == running.account
           b == running.batch
           trades == running.trades
<1>1. /\ ~Idle /\ Idle'
      /\ ~ledgerConfig.is_paused
      /\ MS!Apply(a, b, trades)
      /\ UNCHANGED <<ledgerConfig, relayerConfig, tradeBatch, now, endorsements>>
  BY DEF Commit, Idle, vars
<1>2. /\ a \in BatchIds /\ b \in BatchIds /\ trades \in TradeLists
      /\ a \in DOMAIN tradeBatch
      /\ \E r \in Relayers : MS!IsAuthorized(r)
      /\ ~MS!IsExpired(a)
      /\ tradeBatch[a].executed
      /\ MS!HasEnoughSignatures(a)
      /\ MS!VerifyBatchHash(a, b, trades)
  BY <1>1 DEF SysInv, RunningInv, RunningRecord
<1>3. tradeBatch[a] \in MS!BatchRecord
  BY <1>2 DEF SysInv, BatchesTyped
<1> HIDE DEF a, b, trades
<1>4. VisibleBatches = [tradeBatch EXCEPT ![a].executed = FALSE]
  BY <1>1 DEF VisibleBatches, a
<1>5. VisibleBatches' = tradeBatch
  BY <1>1 DEF VisibleBatches
<1>6. tradeBatch[a] = [tradeBatch[a] EXCEPT !.executed = TRUE]
  BY <1>2, <1>3 DEF MS!BatchRecord
<1>7. VisibleBatches' = [VisibleBatches EXCEPT ![a].executed = TRUE]
  BY <1>2, <1>3, <1>4, <1>5, <1>6 DEF MS!BatchRecord, SysInv, BatchesTyped
<1>8. /\ a \in DOMAIN VisibleBatches
      /\ ~VisibleBatches[a].executed
      /\ VisibleBatches[a].data_hash = tradeBatch[a].data_hash
      /\ VisibleBatches[a].signatures = tradeBatch[a].signatures
      /\ VisibleBatches[a].expires_at = tradeBatch[a].expires_at
  BY <1>1, <1>2, VisibleOthers DEF SysInv, a
<1>9. /\ ~Visible!IsExpired(a)
      /\ Visible!HasEnoughSignatures(a)
      /\ Visible!VerifyBatchHash(a, b, trades)
  BY <1>2, <1>8 DEF MS!IsExpired, Visible!IsExpired, MS!HasEnoughSignatures,
     Visible!HasEnoughSignatures, MS!SignatureCount, Visible!SignatureCount,
     MS!VerifyBatchHash, Visible!VerifyBatchHash, MS!DataHash, Visible!DataHash
<1>10. PICK r \in Relayers : Visible!IsAuthorized(r)
  BY <1>2 DEF MS!IsAuthorized, Visible!IsAuthorized
<1>11. Visible!Apply(a, b, trades)
  BY <1>1 DEF MS!Apply, Visible!Apply
<1>12. Visible!ExecuteTradeBatch(r, a, b, trades)
  BY <1>1, <1>7, <1>8, <1>9, <1>10, <1>11 DEF Visible!ExecuteTradeBatch
<1>13. QED
  BY <1>2, <1>12 DEF Visible!Next

LEMMA RollbackVisible ==
    ASSUME SysInv, SysInv', Rollback
    PROVE  Visible!Next
<1>1. /\ ~Idle /\ Idle'
      /\ tradeBatch' = [tradeBatch EXCEPT ![running.account].executed = FALSE]
      /\ UNCHANGED <<relayerConfig, now, endorsements, executions>>
  BY DEF Rollback, Idle
<1>2. VisibleBatches' = VisibleBatches
  BY <1>1 DEF VisibleBatches
<1>3. QED
  BY <1>1, <1>2, NothingVisible DEF SysInv

LEMMA VisibleStep ==
    SysInv /\ SysInv' /\ [SysNext]_sysVars => [Visible!Next]_(Visible!vars)
<1> SUFFICES ASSUME SysInv, SysInv', [SysNext]_sysVars PROVE [Visible!Next]_(Visible!vars)
  OBVIOUS
<1>1. CASE \E r \in Relayers, b \in BatchIds, h \in MS!Hashes : Submit(r, b, h)
  BY <1>1, SubmitVisible
<1>2. CASE \E r \in Relayers, b \in BatchIds, h \in MS!Hashes : Confirm(r, b, h)
  BY <1>2, ConfirmVisible
<1>3. CASE ChangeRelayers
  BY <1>3, ChangeRelayersVisible
<1>4. CASE \E r \in Relayers, a \in BatchIds, b \in BatchIds, t \in TradeLists : Begin(r, a, b, t)
  BY <1>4, BeginVisible
<1>5. CASE RunTrade
  BY <1>5, RunTradeVisible
<1>6. CASE Commit
  BY <1>6, CommitVisible
<1>7. CASE Rollback
  BY <1>7, RollbackVisible
<1>8. CASE (\E paused \in BOOLEAN : Pause(paused)) \/ DirectTrade \/ Maintain \/ UNCHANGED sysVars
  <2>1. UNCHANGED <<multisig, running>>
    BY <1>8 DEF Pause, DirectTrade, Maintain, sysVars
  <2>2. VisibleBatches' = VisibleBatches
    BY <2>1, VisibleSame DEF multisig, Idle, SysInv
  <2>3. QED
    BY <2>1, <2>2, NothingVisible DEF multisig, SysInv
<1>9. QED
  BY <1>1, <1>2, <1>3, <1>4, <1>5, <1>6, <1>7, <1>8 DEF SysNext, Proceed

\* The system in which executions take many steps, beside other instructions,
\* implements the multisig in which each is one.
THEOREM ExecutionIsOneStep == SysSpec => MultisigImplemented
<1>1. SysInit => Visible!Init
  BY VisibleInit
<1>2. SysInv /\ SysInv' /\ [SysNext]_sysVars => [Visible!Next]_(Visible!vars)
  BY VisibleStep
<1>3. QED
  BY <1>1, <1>2, SysInvariance, PTL DEF SysSpec, MultisigImplemented, Visible!Spec

-----------------------------------------------------------------------------
(* Batches are counted whole *)

TradesNow == TradesCounted(ledgerConfig, unknownTrades)

\* A batch's execution record needs the number of signatures to be one.
ConfigTyped ==
    /\ relayerConfig = [authorized_relayers |-> relayerConfig.authorized_relayers,
                        required_signatures |-> relayerConfig.required_signatures]
    /\ relayerConfig.required_signatures \in Nat

LEMMA TradesNowType == IndInv => TradesNow \in Nat
  BY DEF IndInv, TypeOK, LedgerConfig, TradesNow, TradesCounted

LEMMA AppliedTradeCounts ==
    ASSUME IndInv, NEW t, ApplyTrade(t) PROVE TradesNow' = TradesNow + 1
<1>1. ledgerConfig \in LedgerConfig /\ unknownTrades \in Nat
  BY DEF IndInv, TypeOK
<1>2. CASE BatchOpen(t.user, t.market, t.side, t.size, t.price, t.leverage, t.fee_rate)
  <2>1. /\ ledgerConfig'.total_positions_opened = ledgerConfig.total_positions_opened + 1
        /\ ledgerConfig'.total_positions_closed = ledgerConfig.total_positions_closed
        /\ unknownTrades' = unknownTrades
    BY <1>1, <1>2 DEF BatchOpen, LedgerConfig
  <2>2. QED
    BY <1>1, <2>1 DEF TradesNow, TradesCounted, LedgerConfig
<1>3. CASE BatchClose(t.user, t.market, t.size, t.price, t.fee_rate)
  <2>1. /\ ledgerConfig'.total_positions_opened = ledgerConfig.total_positions_opened
        /\ ledgerConfig'.total_positions_closed = ledgerConfig.total_positions_closed + 1
        /\ unknownTrades' = unknownTrades
    BY <1>1, <1>3 DEF BatchClose, LedgerConfig
  <2>2. QED
    BY <1>1, <2>1 DEF TradesNow, TradesCounted, LedgerConfig
<1>4. CASE BatchUnknown(t.user, t.size, t.price)
  <2>1. /\ ledgerConfig'.total_positions_opened = ledgerConfig.total_positions_opened
        /\ ledgerConfig'.total_positions_closed = ledgerConfig.total_positions_closed
        /\ unknownTrades' = unknownTrades + 1
    BY <1>1, <1>4 DEF BatchUnknown, LedgerConfig
  <2>2. QED
    BY <1>1, <2>1 DEF TradesNow, TradesCounted, LedgerConfig
<1>5. QED
  BY <1>2, <1>3, <1>4 DEF ApplyTrade

LEMMA DirectTradeCounts ==
    ASSUME IndInv, DirectTrade PROVE TradesNow' = TradesNow + 1
<1>1. ledgerConfig \in LedgerConfig /\ unknownTrades \in Nat
  BY DEF IndInv, TypeOK
<1>2. ASSUME NEW u \in Users, NEW m \in Markets, NEW side \in Sides, NEW size \in Sizes,
             NEW price \in Prices, NEW leverage \in Leverages, NEW feeRate \in FeeRates,
             OpenPosition(u, m, side, size, price, leverage, feeRate)
      PROVE  TradesNow' = TradesNow + 1
  <2>1. /\ ledgerConfig'.total_positions_opened = ledgerConfig.total_positions_opened + 1
        /\ ledgerConfig'.total_positions_closed = ledgerConfig.total_positions_closed
        /\ unknownTrades' = unknownTrades
    BY <1>1, <1>2 DEF OpenPosition, LedgerConfig, history
  <2>2. QED
    BY <1>1, <2>1 DEF TradesNow, TradesCounted, LedgerConfig
<1>3. ASSUME NEW u \in Users, NEW m \in Markets, NEW size \in Sizes, NEW price \in Prices,
             NEW feeRate \in FeeRates, ClosePosition(u, m, size, price, feeRate)
      PROVE  TradesNow' = TradesNow + 1
  <2>1. /\ ledgerConfig'.total_positions_opened = ledgerConfig.total_positions_opened
        /\ ledgerConfig'.total_positions_closed = ledgerConfig.total_positions_closed + 1
        /\ unknownTrades' = unknownTrades
    BY <1>1, <1>3 DEF ClosePosition, LedgerConfig
  <2>2. QED
    BY <1>1, <2>1 DEF TradesNow, TradesCounted, LedgerConfig
<1>4. QED
  BY <1>2, <1>3 DEF DirectTrade

\* Liquidations are counted by themselves.
LEMMA OthersCountNothing ==
    ASSUME IndInv, Maintain \/ \E paused \in BOOLEAN : Pause(paused)
    PROVE  TradesNow' = TradesNow
<1>1. ledgerConfig \in LedgerConfig /\ unknownTrades \in Nat
  BY DEF IndInv, TypeOK
<1>2. /\ ledgerConfig'.total_positions_opened = ledgerConfig.total_positions_opened
      /\ ledgerConfig'.total_positions_closed = ledgerConfig.total_positions_closed
      /\ unknownTrades' = unknownTrades
  <2>1. CASE \E u \in Users, m \in Markets, mark \in Marks : Liquidate(u, m, mark)
    BY <1>1, <2>1 DEF Liquidate, LedgerConfig, history
  <2>2. CASE \E u \in Users : InitializeUserStats(u)
    BY <2>2 DEF InitializeUserStats, history
  <2>3. CASE \E u \in Users, m \in Markets, rate \in FundingRates, price \in Prices :
                SettleFunding(u, m, rate, price)
    BY <2>3 DEF SettleFunding, history
  <2>4. CASE \E u \in Users, m \in Markets : AdminResetPosition(u, m)
    BY <2>4 DEF AdminResetPosition
  <2>5. CASE \E paused \in BOOLEAN : Pause(paused)
    BY <1>1, <2>5 DEF Pause, SetPaused, LedgerConfig, history
  <2>6. QED
    BY <2>1, <2>2, <2>3, <2>4, <2>5 DEF Maintain
<1>3. QED
  BY <1>2 DEF TradesNow, TradesCounted

LEMMA ExecutedLengths ==
    ASSUME NEW b \in BatchIds, executions[b] \in Seq(MS!ExecutionRecord)
    PROVE  \A i \in 1..Len(executions[b]) : Len(executions[b][i].trades) \in Nat
<1> TAKE i \in 1..Len(executions[b])
<1>1. executions[b][i] \in MS!ExecutionRecord
  OBVIOUS
<1>2. executions[b][i].trades \in Seq(TradeData)
  BY <1>1, TradeListsAssumption DEF MS!ExecutionRecord
<1>3. QED
  BY <1>2

LEMMA TradesInType ==
    ASSUME NEW b \in BatchIds, executions[b] \in Seq(MS!ExecutionRecord)
    PROVE  TradesIn(b) \in Nat
<1> DEFINE N == 1..Len(executions[b])
           f == [i \in N |-> Len(executions[b][i].trades)]
<1>1. IsFiniteSet(N)
  BY FS_Interval
<1>2. \A i \in N : f[i] \in Nat
  BY ExecutedLengths
<1>3. TradesIn(b) = SumFunctionOnSet(f, N)
  BY DEF TradesIn, SumFunction
<1> HIDE DEF N, f
<1>4. QED
  BY <1>1, <1>2, <1>3, SumIsNat

LEMMA TradesExecutedType ==
    ASSUME executions \in [BatchIds -> Seq(MS!ExecutionRecord)]
    PROVE  TradesExecuted \in Nat
<1> DEFINE f == [b \in BatchIds |-> TradesIn(b)]
<1>1. \A b \in BatchIds : f[b] \in Nat
  BY TradesInType
<1>2. TradesExecuted = SumFunctionOnSet(f, BatchIds)
  BY DEF TradesExecuted, SumFunction
<1> HIDE DEF f
<1>3. QED
  BY <1>1, <1>2, SumIsNat, TradeListsAssumption

\* An execution adds its trades, once, to those of all batches.
LEMMA AppliedOnce ==
    ASSUME executions \in [BatchIds -> Seq(MS!ExecutionRecord)], ConfigTyped, now \in Nat,
           NEW a \in BatchIds, NEW b \in BatchIds, NEW trades \in TradeLists,
           MS!Apply(a, b, trades)
    PROVE  /\ executions' \in [BatchIds -> Seq(MS!ExecutionRecord)]
           /\ TradesExecuted' = TradesExecuted + Len(trades)
<1> DEFINE e == [batch |-> b, trades |-> trades,
                 required |-> relayerConfig.required_signatures, at |-> now]
           n == Len(executions[a])
<1>1. e \in MS!ExecutionRecord
  BY DEF MS!ExecutionRecord, ConfigTyped
<1>2. executions' = [executions EXCEPT ![a] = Append(@, e)]
  BY DEF MS!Apply
<1>3. e.trades = trades
  OBVIOUS
<1>4. Len(trades) \in Nat
  BY TradeListsAssumption
<1> HIDE DEF e
<1>5. executions' \in [BatchIds -> Seq(MS!ExecutionRecord)]
  BY <1>1, <1>2
<1>6. /\ n \in Nat
      /\ executions'[a] = Append(executions[a], e)
      /\ Len(executions'[a]) = n + 1
      /\ executions'[a][n + 1] = e
      /\ \A i \in 1..n : executions'[a][i] = executions[a][i]
  BY <1>1, <1>2
<1>7. TradesIn(a)' = TradesIn(a) + Len(trades)
  <2> DEFINE N == 1..n
             M == 1..n + 1
             f == [i \in N |-> Len(executions[a][i].trades)]
             g == [i \in M |-> Len(executions'[a][i].trades)]
  <2>1. IsFiniteSet(N) /\ M = N \cup {n + 1} /\ n + 1 \notin N
    <3>1. n \in Nat
      BY <1>6
    <3> HIDE DEF n
    <3>2. IsFiniteSet(N)
      BY <3>1, FS_Interval
    <3>3. M = N \cup {n + 1} /\ n + 1 \notin N
      BY <3>1
    <3>4. QED
      BY <3>2, <3>3
  <2>2. \A i \in N : f[i] \in Nat
    BY ExecutedLengths
  <2>3. g[n + 1] = Len(trades) /\ \A i \in N : g[i] = f[i]
    BY <1>3, <1>6
  <2>4. DOMAIN f = N /\ DOMAIN g = M
    OBVIOUS
  <2>5. TradesIn(a) = SumFunction(f) /\ TradesIn(a)' = SumFunction(g)
    BY <1>6 DEF TradesIn
  <2> HIDE DEF f, g, N, M
  <2>6. Updates(f, g, N, n + 1)
    BY <1>4, <2>1, <2>2, <2>3, <2>4 DEF Updates
  <2>7. SumFunction(g) = SumFunction(f) + g[n + 1]
    BY <2>1, <2>6, TableUpdated
  <2>8. QED
    BY <2>3, <2>5, <2>7
<1>8. \A c \in BatchIds \ {a} : TradesIn(c)' = TradesIn(c)
  BY <1>2 DEF TradesIn
<1>9. TradesExecuted' = TradesExecuted + Len(trades)
  <2> DEFINE f == [c \in BatchIds |-> TradesIn(c)]
             g == [c \in BatchIds |-> TradesIn(c)']
  <2>1. \A c \in BatchIds : f[c] \in Nat
    BY TradesInType
  <2>2. g[a] = f[a] + Len(trades) /\ \A c \in BatchIds \ {a} : g[c] = f[c]
    BY <1>7, <1>8
  <2>3. DOMAIN f = BatchIds /\ DOMAIN g = BatchIds
    OBVIOUS
  <2>4. TradesExecuted = SumFunction(f) /\ TradesExecuted' = SumFunction(g)
    BY DEF TradesExecuted
  <2> HIDE DEF f, g
  <2>5. Updates(f, g, BatchIds, a)
    BY <1>4, <2>1, <2>2, <2>3, TradeListsAssumption DEF Updates
  <2>6. SumFunction(g) = SumFunction(f) + (g[a] - f[a])
    BY <2>5, TableUpdated
  <2>7. QED
    BY <1>4, <2>1, <2>2, <2>4, <2>6
<1>10. QED
  BY <1>5, <1>9

LEMMA NothingExecuted ==
    ASSUME executions = [b \in BatchIds |-> <<>>] PROVE TradesExecuted = 0
<1> DEFINE f == [b \in BatchIds |-> TradesIn(b)]
<1>1. ASSUME NEW b \in BatchIds PROVE f[b] = 0
  <2> DEFINE g == [i \in 1..Len(executions[b]) |-> Len(executions[b][i].trades)]
  <2>1. DOMAIN g = {}
    OBVIOUS
  <2>2. TradesIn(b) = SumFunctionOnSet(g, {})
    BY <2>1 DEF TradesIn, SumFunction
  <2> HIDE DEF g
  <2>3. QED
    BY <2>2, SumEmpty
<1>2. TradesExecuted = SumFunctionOnSet(f, BatchIds)
  BY DEF TradesExecuted, SumFunction
<1> HIDE DEF f
<1>3. QED
  BY <1>1, <1>2, SumZero, TradeListsAssumption

LEMMA ConfigInd == ConfigTyped /\ [SysNext]_sysVars => ConfigTyped'
<1> SUFFICES ASSUME ConfigTyped, [SysNext]_sysVars PROVE ConfigTyped'
  OBVIOUS
<1>1. CASE UNCHANGED relayerConfig
  BY <1>1 DEF ConfigTyped
<1>2. CASE \E r \in Relayers : MS!AddRelayer(r)
  BY <1>2 DEF ConfigTyped, MS!AddRelayer
<1>3. CASE \E r \in Relayers : MS!RemoveRelayer(r)
  BY <1>3 DEF ConfigTyped, MS!RemoveRelayer
<1>4. CASE \E n \in 0..MAX_RELAYERS + 1 : MS!UpdateRequiredSignatures(n)
  BY <1>4 DEF ConfigTyped, MS!UpdateRequiredSignatures
<1>5. CASE ChangeRelayers
  BY <1>1, <1>2, <1>3, <1>4, <1>5 DEF ChangeRelayers, MS!Tick
<1>6. QED
  BY <1>1, <1>5 DEF SysNext, Submit, Confirm, MS!SubmitTradeBatch, MS!ConfirmTradeBatch,
     Pause, DirectTrade, Maintain, Begin, Proceed, RunTrade, Commit, Rollback, multisig, sysVars

\* The steps that execute no trade and finish no batch.
LEMMA CountFramed ==
    ASSUME SysInv, CountInv, TradesNow' = TradesNow,
           UNCHANGED <<running, saved, directTrades, executions>>
    PROVE  CountInv'
<1>1. TradesExecuted' = TradesExecuted
  BY DEF TradesExecuted, TradesIn
<1>2. QED
  BY <1>1 DEF CountInv, WholeBatches, TradesNow, Idle

LEMMA BeginCounts ==
    ASSUME SysInv, CountInv, NEW r \in Relayers, NEW a \in BatchIds, NEW b \in BatchIds,
           NEW trades \in TradeLists, Begin(r, a, b, trades)
    PROVE  CountInv'
<1>1. /\ Idle
      /\ saved' = Accounts
      /\ running' = [account |-> a, batch |-> b, trades |-> trades, next |-> 1]
      /\ UNCHANGED <<ledgerConfig, unknownTrades, executions, directTrades>>
  BY DEF Begin, vars
<1>2. TradesExecuted' = TradesExecuted
  BY <1>1 DEF TradesExecuted, TradesIn
<1>3. running.next = 1
  BY <1>1 DEF Idle, NotRunning
<1>4. /\ running'.next = 1 /\ running'.trades = trades
      /\ saved'.ledgerConfig = ledgerConfig /\ saved'.unknownTrades = unknownTrades
  BY <1>1 DEF Accounts
<1>5. Len(trades) \in Nat
  BY TradeListsAssumption
<1>6. TradesNow = directTrades + TradesExecuted
  <2>1. TradesExecuted \in Nat /\ directTrades \in Nat
    BY TradesExecutedType DEF CountInv
  <2>2. QED
    BY <1>3, <2>1 DEF CountInv, WholeBatches, TradesNow
<1>7. WholeBatches'
  <2>1. TradesExecuted \in Nat /\ directTrades \in Nat
    BY TradesExecutedType DEF CountInv
  <2>2. TradesCounted(ledgerConfig, unknownTrades)' = TradesNow
    BY <1>1 DEF TradesNow
  <2>3. QED
    BY <1>1, <1>2, <1>4, <1>6, <2>1, <2>2 DEF WholeBatches
<1>8. TradesCounted(saved'.ledgerConfig, saved'.unknownTrades) = TradesNow
  BY <1>4 DEF TradesNow
<1>9. QED
  BY <1>1, <1>2, <1>4, <1>5, <1>6, <1>7, <1>8 DEF CountInv

LEMMA RunTradeCounts ==
    ASSUME SysInv, CountInv, RunTrade PROVE CountInv'
<1>1. /\ ~Idle
      /\ running.next <= Len(running.trades)
      /\ ApplyTrade(running.trades[running.next])
      /\ running' = [running EXCEPT !.next = @ + 1]
      /\ UNCHANGED <<executions, saved, directTrades>>
  BY DEF RunTrade, multisig
<1>2. running \in RunningRecord
  BY <1>1 DEF SysInv, RunningInv
<1>3. running'.next = running.next + 1 /\ running'.trades = running.trades
  BY <1>1, <1>2
<1>4. TradesNow' = TradesNow + 1
  BY <1>1, AppliedTradeCounts DEF SysInv
<1>5. TradesExecuted' = TradesExecuted
  BY <1>1 DEF TradesExecuted, TradesIn
<1>6. TradesExecuted \in Nat /\ directTrades \in Nat /\ running.next \in Nat
  BY TradesExecutedType DEF CountInv
<1>7. WholeBatches'
  BY <1>1, <1>3, <1>4, <1>5, <1>6 DEF CountInv, WholeBatches, TradesNow
<1>8. Len(running.trades) \in Nat
  BY <1>2, TradeListsAssumption
<1>9. running'.next \in Nat /\ running'.next <= Len(running'.trades) + 1
  BY <1>1, <1>3, <1>6, <1>8
<1>10. QED
  BY <1>1, <1>5, <1>7, <1>9 DEF CountInv

LEMMA CommitCounts ==
    ASSUME SysInv, CountInv, ConfigTyped, Commit PROVE CountInv'
<1> DEFINE trades == running.trades
<1>1. /\ ~Idle /\ Idle'
      /\ running.next > Len(trades)
      /\ MS!Apply(running.account, running.batch, trades)
      /\ running'.next = 1
      /\ UNCHANGED <<ledgerConfig, unknownTrades, directTrades>>
  BY DEF Commit, Idle, vars, NotRunning
<1>2. running.account \in BatchIds /\ running.batch \in BatchIds /\ trades \in TradeLists
  BY <1>1 DEF SysInv, RunningInv, RunningRecord
<1>3. Len(trades) \in Nat /\ running.next = Len(trades) + 1
  BY <1>1, <1>2, TradeListsAssumption DEF CountInv
<1>4. /\ executions' \in [BatchIds -> Seq(MS!ExecutionRecord)]
      /\ TradesExecuted' = TradesExecuted + Len(trades)
  BY <1>1, <1>2, AppliedOnce DEF CountInv, SysInv, BatchesTyped
<1>5. TradesExecuted \in Nat /\ directTrades \in Nat
  BY TradesExecutedType DEF CountInv
<1>6. TradesCounted(ledgerConfig, unknownTrades)' = TradesCounted(ledgerConfig, unknownTrades)
  BY <1>1
<1>7. TradesCounted(ledgerConfig, unknownTrades)
        = directTrades + TradesExecuted + running.next - 1
  BY DEF CountInv, WholeBatches
<1> HIDE DEF trades
<1>8. WholeBatches'
  BY <1>1, <1>3, <1>4, <1>5, <1>6, <1>7 DEF WholeBatches
<1>9. QED
  BY <1>1, <1>4, <1>5, <1>8 DEF CountInv

LEMMA RollbackCounts ==
    ASSUME SysInv, CountInv, Rollback PROVE CountInv'
<1>1. /\ ~Idle /\ Idle'
      /\ ledgerConfig' = saved.ledgerConfig /\ unknownTrades' = saved.unknownTrades
      /\ running'.next = 1
      /\ UNCHANGED <<executions, directTrades>>
  BY DEF Rollback, Restore, Idle, NotRunning
<1>2. TradesExecuted' = TradesExecuted
  BY <1>1 DEF TradesExecuted, TradesIn
<1>3. TradesExecuted \in Nat /\ directTrades \in Nat
  BY TradesExecutedType DEF CountInv
<1>4. TradesCounted(ledgerConfig, unknownTrades)' = directTrades + TradesExecuted
  BY <1>1 DEF CountInv
<1>5. WholeBatches'
  BY <1>1, <1>2, <1>3, <1>4 DEF WholeBatches
<1>6. QED
  BY <1>1, <1>3, <1>5 DEF CountInv

LEMMA CountInd == SysInv /\ ConfigTyped /\ CountInv /\ [SysNext]_sysVars => CountInv'
<1> SUFFICES ASSUME SysInv, ConfigTyped, CountInv, [SysNext]_sysVars PROVE CountInv'
  OBVIOUS
<1>1. CASE \/ \E r \in Relayers, b \in BatchIds, h \in MS!Hashes :
                 Submit(r, b, h) \/ Confirm(r, b, h)
           \/ ChangeRelayers
           \/ UNCHANGED sysVars
  <2>1. UNCHANGED <<ledgerConfig, unknownTrades, running, saved, directTrades, executions>>
    <3>1. CASE \E r \in Relayers, b \in BatchIds, h \in MS!Hashes :
                  Submit(r, b, h) \/ Confirm(r, b, h)
      BY <3>1 DEF Submit, Confirm, MS!SubmitTradeBatch, MS!ConfirmTradeBatch, vars
    <3>2. CASE ChangeRelayers
      BY <3>2 DEF ChangeRelayers, MS!AddRelayer, MS!RemoveRelayer,
         MS!UpdateRequiredSignatures, MS!Tick, vars
    <3>3. CASE UNCHANGED sysVars
      BY <3>3 DEF vars, sysVars, multisig
    <3>4. QED
      BY <1>1, <3>1, <3>2, <3>3
  <2>2. QED
    BY <2>1, CountFramed DEF TradesNow
<1>2. CASE Maintain \/ \E paused \in BOOLEAN : Pause(paused)
  <2>1. UNCHANGED <<running, saved, directTrades, executions>>
    BY <1>2 DEF Maintain, Pause, multisig
  <2>2. QED
    BY <1>2, <2>1, OthersCountNothing, CountFramed DEF SysInv
<1>3. CASE DirectTrade
  <2>1. /\ Idle /\ UNCHANGED <<running, executions>>
        /\ directTrades' = directTrades + 1
    BY <1>3 DEF DirectTrade, multisig
  <2>2. Idle'
    BY <2>1 DEF Idle
  <2>3. TradesNow' = TradesNow + 1
    BY <1>3, DirectTradeCounts DEF SysInv
  <2>4. TradesExecuted' = TradesExecuted
    BY <2>1 DEF TradesExecuted, TradesIn
  <2>5. TradesExecuted \in Nat /\ directTrades \in Nat /\ running.next \in Nat
    BY TradesExecutedType DEF CountInv
  <2>6. WholeBatches'
    BY <2>1, <2>3, <2>4, <2>5 DEF CountInv, WholeBatches, TradesNow
  <2>7. QED
    BY <2>1, <2>2, <2>5, <2>6 DEF CountInv
<1>4. CASE \E r \in Relayers, a \in BatchIds, b \in BatchIds, t \in TradeLists : Begin(r, a, b, t)
  BY <1>4, BeginCounts
<1>5. CASE Proceed
  BY <1>5, RunTradeCounts, CommitCounts, RollbackCounts DEF Proceed
<1>6. QED
  BY <1>1, <1>2, <1>3, <1>4, <1>5 DEF SysNext

\* However executions are interleaved with other instructions, fail half-way and are
\* sent again, the books hold whole batches, each once, besides the direct trades and
\* what the execution in flight has applied so far.
THEOREM BatchesCountedWhole == SysSpec => []WholeBatches
<1>1. SysInit => ConfigTyped /\ CountInv
  <2> SUFFICES ASSUME SysInit PROVE ConfigTyped /\ CountInv
    OBVIOUS
  <2>1. ConfigTyped
    BY DEF SysInit, MS!Init, MS!Slots, ConfigTyped
  <2>2. TradesExecuted = 0
    BY NothingExecuted DEF SysInit, MS!Init
  <2>3. TradesCounted(ledgerConfig, unknownTrades) = 0
    BY DEF SysInit, Init, TradesCounted
  <2>4. Idle /\ running.next = 1 /\ directTrades = 0
    BY DEF SysInit, Idle, NotRunning
  <2>5. executions \in [BatchIds -> Seq(MS!ExecutionRecord)]
    BY DEF SysInit, MS!Init
  <2>6. QED
    BY <2>1, <2>2, <2>3, <2>4, <2>5 DEF CountInv, WholeBatches
<1>2. ConfigTyped /\ [SysNext]_sysVars => ConfigTyped'
  BY ConfigInd
<1>3. SysInv /\ ConfigTyped /\ CountInv /\ [SysNext]_sysVars => CountInv'
  BY CountInd
<1>4. CountInv => WholeBatches
  BY DEF CountInv
<1>5. QED
  BY <1>1, <1>2, <1>3, <1>4, SysInvariance, PTL DEF SysSpec
=============================================================================
