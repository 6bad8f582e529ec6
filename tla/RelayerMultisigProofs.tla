------------------------ MODULE RelayerMultisigProofs ------------------------
(*****************************************************************************)
(* Theorems about RelayerMultisig, for any number of relayers, batches,      *)
(* payloads and any bound on the clock: its inductive invariant, the safety  *)
(* it gives, and that RelayerMultisig implements QuorumApproval, every step  *)
(* of the program being a change of the threshold, a vote, a decision, or    *)
(* invisible to the abstract specification.                                  *)
(*****************************************************************************)
EXTENDS RelayerMultisig, FiniteSetTheorems, TLAPS

-----------------------------------------------------------------------------
(* Counting *)

\* No list occupies more than MAX_RELAYERS slots, so no number of signatures
\* accepted by UpdateRequiredSignatures exceeds MAX_RELAYERS.
LEMMA RelayerCountBounded ==
    ASSUME TypeOK
    PROVE  RelayerCount \in 0..MAX_RELAYERS
<1>1. DOMAIN relayerConfig.authorized_relayers \in SUBSET Slots
  BY DEF TypeOK, RelayerLists
<1>2. IsFiniteSet(Slots) /\ Cardinality(Slots) = MAX_RELAYERS
  BY FS_Interval, CapacityAssumption DEF Slots
<1>3. QED
  BY <1>1, <1>2, FS_Subset, FS_CardinalityType, CapacityAssumption DEF RelayerCount

\* A sequence without repetitions has as many different elements as its length,
\* and so has any finite set that contains them at least that many.
LEMMA DistinctCount ==
    ASSUME NEW S, IsFiniteSet(S), NEW seq \in Seq(S), NEW T \in SUBSET S,
           \A i, j \in 1..Len(seq) : seq[i] = seq[j] => i = j,
           \A i \in 1..Len(seq) : seq[i] \in T
    PROVE  Cardinality(T) >= Len(seq)
<1> DEFINE R == {seq[i] : i \in 1..Len(seq)}
           f == [i \in 1..Len(seq) |-> seq[i]]
<1>1. Len(seq) \in Nat
  OBVIOUS
<1>2. f \in Bijection(1..Len(seq), R)
  <2>1. f \in [1..Len(seq) -> R]
    OBVIOUS
  <2>2. \A a, b \in 1..Len(seq) : f[a] = f[b] => a = b
    OBVIOUS
  <2>3. \A y \in R : \E a \in 1..Len(seq) : f[a] = y
    OBVIOUS
  <2>4. QED
    BY <2>1, <2>2, <2>3 DEF Bijection, Injection, Surjection, IsInjective
<1>3. Cardinality(R) = Len(seq)
  <2>1. ExistsBijection(1..Len(seq), R)
    BY <1>2 DEF ExistsBijection
  <2> HIDE DEF R
  <2>2. QED
    BY <1>1, <2>1, FS_CountingElements
<1>4. R \in SUBSET T
  OBVIOUS
<1>5. IsFiniteSet(T)
  BY FS_Subset
<1>6. Cardinality(R) <= Cardinality(T) /\ Cardinality(T) \in Nat
  <2> HIDE DEF R
  <2>1. QED
    BY <1>4, <1>5, FS_Subset, FS_CardinalityType
<1>7. QED
  BY <1>1, <1>3, <1>6

-----------------------------------------------------------------------------
(* The inductive invariant *)

LEMMA ListIntro ==
    ASSUME NEW S \in SUBSET Slots, NEW f \in [S -> Relayers]
    PROVE  f \in RelayerLists
  BY DEF RelayerLists

LEMMA ListElim ==
    ASSUME NEW list \in RelayerLists
    PROVE  DOMAIN list \in SUBSET Slots /\ list \in [DOMAIN list -> Relayers]
  BY DEF RelayerLists

LEMMA InitInd == Init => IndInv
<1> SUFFICES ASSUME Init PROVE IndInv
  OBVIOUS
<1>1. PICK n \in Slots, q \in Slots :
        /\ q <= n
        /\ \E list \in [1..n -> Relayers] :
            relayerConfig = [authorized_relayers |-> list, required_signatures |-> q]
  BY DEF Init
<1>2. TypeOK
  <2>1. 1..n \in SUBSET Slots
    BY CapacityAssumption DEF Slots
  <2>2. relayerConfig \in [authorized_relayers: RelayerLists, required_signatures: Nat]
    BY <1>1, <2>1, ListIntro, CapacityAssumption DEF Slots
  <2>3. tradeBatch \in [DOMAIN tradeBatch -> BatchRecord] /\ DOMAIN tradeBatch = {}
    BY DEF Init
  <2>4. executions \in [BatchIds -> Seq(ExecutionRecord)]
    BY DEF Init
  <2>5. QED
    BY <2>2, <2>3, <2>4 DEF Init, TypeOK
<1>3. RequiredBounded
  BY <1>1 DEF RequiredBounded, Slots
<1>4. QED
  BY <1>2, <1>3 DEF Init, IndInv, AtMostOnce, ExecutedAsApproved, QuorumEndorsed,
     ExecutedIffApplied, SignaturesDistinct, SignaturesEndorsed, ExecutedInLife

\* The parts of the invariant about batches, their signatures and executions.
BatchInv ==
    /\ AtMostOnce
    /\ ExecutedAsApproved
    /\ QuorumEndorsed
    /\ ExecutedIffApplied
    /\ SignaturesDistinct
    /\ SignaturesEndorsed
    /\ ExecutedInLife

LEMMA BatchInvFramed ==
    BatchInv /\ UNCHANGED <<tradeBatch, endorsements, executions>> => BatchInv'
  BY DEF BatchInv, AtMostOnce, ExecutedAsApproved, QuorumEndorsed, ExecutedIffApplied,
     SignatureCount, SignaturesDistinct, SignaturesEndorsed, ExecutedInLife,
     VerifyBatchHash, DataHash

\* Changes of the relayer set or of the threshold touch no batch.
LEMMA ConfigStepInd ==
    ASSUME IndInv,
           \/ \E r \in Relayers : AddRelayer(r) \/ RemoveRelayer(r)
           \/ \E n \in 0..MAX_RELAYERS + 1 : UpdateRequiredSignatures(n)
    PROVE  IndInv'
<1>1. UNCHANGED <<tradeBatch, isPaused, now, endorsements, executions>>
  BY DEF AddRelayer, RemoveRelayer, UpdateRequiredSignatures
<1>2. BatchInv'
  BY <1>1, BatchInvFramed DEF BatchInv, IndInv
<1>3. /\ relayerConfig' \in [authorized_relayers: RelayerLists, required_signatures: Nat]
      /\ RequiredBounded'
  <2> DEFINE list == relayerConfig.authorized_relayers
  <2>0. relayerConfig \in [authorized_relayers: RelayerLists, required_signatures: Nat]
    BY DEF IndInv, TypeOK
  <2>a. DOMAIN list \in SUBSET Slots /\ list \in [DOMAIN list -> Relayers]
    BY <2>0, ListElim
  <2>1. CASE \E r \in Relayers : AddRelayer(r)
    <3>1. PICK r \in Relayers, i \in Slots \ DOMAIN list :
            relayerConfig' = [relayerConfig EXCEPT !.authorized_relayers =
                [j \in DOMAIN list \cup {i} |-> IF j = i THEN r ELSE list[j]]]
      BY <2>1 DEF AddRelayer
    <3>2. [j \in DOMAIN list \cup {i} |-> IF j = i THEN r ELSE list[j]] \in RelayerLists
      <4> HIDE DEF list
      <4>1. [j \in DOMAIN list \cup {i} |-> IF j = i THEN r ELSE list[j]]
                \in [DOMAIN list \cup {i} -> Relayers]
        BY <2>a
      <4>2. QED
        BY <2>a, <4>1, ListIntro
    <3>3. QED
      BY <2>0, <3>1, <3>2 DEF IndInv, RequiredBounded
  <2>2. CASE \E r \in Relayers : RemoveRelayer(r)
    <3>1. PICK r \in Relayers :
            relayerConfig' = [relayerConfig EXCEPT !.authorized_relayers =
                [i \in {j \in DOMAIN list : list[j] # r} |-> list[i]]]
      BY <2>2 DEF RemoveRelayer
    <3>2. [i \in {j \in DOMAIN list : list[j] # r} |-> list[i]] \in RelayerLists
      <4> HIDE DEF list
      <4>1. [i \in {j \in DOMAIN list : list[j] # r} |-> list[i]]
                \in [{j \in DOMAIN list : list[j] # r} -> Relayers]
        BY <2>a
      <4>2. QED
        BY <2>a, <4>1, ListIntro
    <3>3. QED
      BY <2>0, <3>1, <3>2 DEF IndInv, RequiredBounded
  <2>3. CASE \E n \in 0..MAX_RELAYERS + 1 : UpdateRequiredSignatures(n)
    BY <2>0, <2>3, RelayerCountBounded, CapacityAssumption
       DEF IndInv, UpdateRequiredSignatures, RequiredBounded
  <2>4. QED
    BY <2>1, <2>2, <2>3
<1>4. TypeOK'
  BY <1>1, <1>3 DEF IndInv, TypeOK
<1>5. QED
  BY <1>2, <1>3, <1>4 DEF IndInv, BatchInv

\* Signatures that are added cannot undo a quorum that was there.
LEMMA EndorsementsOnlyGrow ==
    ASSUME QuorumEndorsed, executions' = executions,
           executions \in [BatchIds -> Seq(ExecutionRecord)],
           endorsements \in SUBSET endorsements'
    PROVE  QuorumEndorsed'
<1> SUFFICES ASSUME NEW a \in BatchIds, NEW i \in 1..Len(executions[a])
             PROVE  Cardinality({r \in Relayers :
                        <<r, a, DataHash(executions[a][i].batch, executions[a][i].trades)>>
                          \in endorsements'})
                      >= executions[a][i].required
  BY DEF QuorumEndorsed, DataHash
<1> DEFINE e == executions[a][i]
           old == {r \in Relayers : <<r, a, DataHash(e.batch, e.trades)>> \in endorsements}
           new == {r \in Relayers : <<r, a, DataHash(e.batch, e.trades)>> \in endorsements'}
<1>1. e \in ExecutionRecord
  OBVIOUS
<1>2. e.required \in Nat
  BY <1>1 DEF ExecutionRecord
<1>3. Cardinality(old) >= e.required
  BY DEF QuorumEndorsed
<1>4. old \in SUBSET new /\ new \in SUBSET Relayers
  OBVIOUS
<1> HIDE DEF old, new
<1>5. IsFiniteSet(new)
  BY <1>4, FS_Subset, RelayersAssumption
<1>6. /\ Cardinality(old) <= Cardinality(new)
      /\ Cardinality(old) \in Nat
      /\ Cardinality(new) \in Nat
  BY <1>4, <1>5, FS_Subset, FS_CardinalityType
<1>7. Cardinality(new) >= e.required
  BY <1>2, <1>3, <1>6
<1>8. QED
  BY <1>7 DEF new

\* A submission opens a batch with one endorsed signature and no execution.
LEMMA SubmitInd ==
    ASSUME IndInv, NEW r \in Relayers, NEW b \in BatchIds, NEW h \in Hashes,
           SubmitTradeBatch(r, b, h)
    PROVE  IndInv'
<1> USE DEF SubmitTradeBatch
<1>1. TypeOK /\ BatchInv /\ RequiredBounded
  BY DEF IndInv, BatchInv
<1>2. tradeBatch[b]' = [data_hash |-> h, signatures |-> <<r>>, executed |-> FALSE,
          created_at |-> now, expires_at |-> now + TRADE_BATCH_EXPIRY_SECONDS]
  OBVIOUS
<1>3. \A c \in DOMAIN tradeBatch : c # b /\ tradeBatch[c]' = tradeBatch[c]
  OBVIOUS
<1>4. DOMAIN tradeBatch' = DOMAIN tradeBatch \cup {b}
  OBVIOUS
<1>5. executions[b] = <<>>
  BY <1>1 DEF BatchInv, ExecutedIffApplied
<1>6. TypeOK'
  <2>1. tradeBatch[b]' \in BatchRecord
    BY <1>1, <1>2, TimeAssumption DEF TypeOK, BatchRecord
  <2>2. tradeBatch' \in [DOMAIN tradeBatch' -> BatchRecord]
    BY <1>1, <1>2, <2>1 DEF TypeOK
  <2>3. <<r, b, h>> \in Relayers \X BatchIds \X Hashes
    OBVIOUS
  <2>4. QED
    BY <1>1, <1>4, <2>2, <2>3 DEF TypeOK
<1>7. AtMostOnce'
  BY <1>1 DEF BatchInv, AtMostOnce
<1>7a. ExecutedAsApproved'
  BY <1>1, <1>2, <1>3, <1>4, <1>5 DEF BatchInv, ExecutedAsApproved, VerifyBatchHash, DataHash
<1>8. QuorumEndorsed'
  BY <1>1, EndorsementsOnlyGrow DEF BatchInv, TypeOK
<1>9. ExecutedIffApplied'
  BY <1>1, <1>2, <1>3, <1>4, <1>5 DEF BatchInv, ExecutedIffApplied
<1>10. SignaturesDistinct'
  BY <1>1, <1>2, <1>3, <1>4 DEF BatchInv, SignaturesDistinct, SignatureCount
<1>11. SignaturesEndorsed'
  BY <1>1, <1>2, <1>3, <1>4 DEF BatchInv, SignaturesEndorsed, SignatureCount
<1>12. ExecutedInLife'
  BY <1>1, <1>2, <1>3, <1>4, <1>5 DEF BatchInv, ExecutedInLife
<1>13. RequiredBounded'
  BY <1>1 DEF RequiredBounded
<1>14. QED
  BY <1>6, <1>7, <1>7a, <1>8, <1>9, <1>10, <1>11, <1>12, <1>13 DEF IndInv

\* A confirmation appends one signature, of a relayer that had not signed.
LEMMA ConfirmInd ==
    ASSUME IndInv, NEW r \in Relayers, NEW b \in BatchIds, NEW h \in Hashes,
           ConfirmTradeBatch(r, b, h)
    PROVE  IndInv'
<1> USE DEF ConfirmTradeBatch
<1> DEFINE sigs == tradeBatch[b].signatures
           more == Append(sigs, r)
<1>1. TypeOK /\ BatchInv /\ RequiredBounded
  BY DEF IndInv, BatchInv
<1>2. tradeBatch[b] \in BatchRecord /\ sigs \in Seq(Relayers)
  BY <1>1 DEF TypeOK, BatchRecord
<1>2a. /\ Len(sigs) \in Nat
       /\ Len(more) = Len(sigs) + 1
       /\ \A k \in 1..Len(sigs) : more[k] = sigs[k]
       /\ more[Len(sigs) + 1] = r
  BY <1>2
<1>3. tradeBatch[b]' = [tradeBatch[b] EXCEPT !.signatures = Append(sigs, r)]
  BY <1>1 DEF TypeOK
<1>4. \A c \in DOMAIN tradeBatch : c # b => tradeBatch[c]' = tradeBatch[c]
  BY <1>1 DEF TypeOK
<1>5. DOMAIN tradeBatch' = DOMAIN tradeBatch
  BY <1>1 DEF TypeOK
<1>6. /\ tradeBatch[b]'.signatures = Append(sigs, r)
      /\ tradeBatch[b]'.data_hash = h
      /\ tradeBatch[b].data_hash = h
      /\ tradeBatch[b]'.executed = tradeBatch[b].executed
      /\ tradeBatch[b]'.expires_at = tradeBatch[b].expires_at
  BY <1>2, <1>3 DEF BatchRecord
<1>7. TypeOK'
  <2>1. Append(sigs, r) \in Seq(Relayers)
    BY <1>2
  <2>2. tradeBatch[b]' \in BatchRecord
    BY <1>2, <1>3, <2>1 DEF BatchRecord
  <2>3. tradeBatch' \in [DOMAIN tradeBatch' -> BatchRecord]
    BY <1>1, <1>4, <1>5, <2>2 DEF TypeOK
  <2>4. <<r, b, h>> \in Relayers \X BatchIds \X Hashes
    OBVIOUS
  <2>5. QED
    BY <1>1, <1>5, <2>3, <2>4 DEF TypeOK
<1>8. AtMostOnce'
  BY <1>1 DEF BatchInv, AtMostOnce
<1>8a. ExecutedAsApproved'
  BY <1>1, <1>4, <1>5, <1>6 DEF BatchInv, ExecutedAsApproved, VerifyBatchHash, DataHash
<1>9. QuorumEndorsed'
  BY <1>1, EndorsementsOnlyGrow DEF BatchInv, TypeOK
<1>10. ExecutedIffApplied'
  BY <1>1, <1>4, <1>5, <1>6 DEF BatchInv, ExecutedIffApplied
<1>11. SignaturesDistinct'
  <2> SUFFICES ASSUME NEW c \in DOMAIN tradeBatch,
                      NEW i \in 1..Len(tradeBatch[c]'.signatures),
                      NEW j \in 1..Len(tradeBatch[c]'.signatures),
                      tradeBatch[c]'.signatures[i] = tradeBatch[c]'.signatures[j]
               PROVE  i = j
    BY <1>5 DEF SignaturesDistinct, SignatureCount
  <2>1. CASE c # b
    BY <1>1, <1>4, <2>1 DEF BatchInv, SignaturesDistinct, SignatureCount
  <2>2. CASE c = b
    <3>1. \A k \in 1..Len(sigs) : sigs[k] # r
      BY DEF HasSigned, SignatureCount
    <3>2. \A k, l \in 1..Len(sigs) : sigs[k] = sigs[l] => k = l
      BY <1>1 DEF BatchInv, SignaturesDistinct, SignatureCount
    <3>3. i \in 1..Len(more) /\ j \in 1..Len(more) /\ more[i] = more[j]
      BY <1>6, <2>2
    <3>4. QED
      BY <1>2a, <3>1, <3>2, <3>3
  <2>3. QED
    BY <2>1, <2>2
<1>12. SignaturesEndorsed'
  <2> SUFFICES ASSUME NEW c \in DOMAIN tradeBatch,
                      NEW i \in 1..Len(tradeBatch[c]'.signatures)
               PROVE  <<tradeBatch[c]'.signatures[i], c, tradeBatch[c]'.data_hash>>
                        \in endorsements'
    BY <1>5 DEF SignaturesEndorsed, SignatureCount
  <2>1. CASE c # b
    BY <1>1, <1>4, <2>1 DEF BatchInv, SignaturesEndorsed, SignatureCount
  <2>2. CASE c = b
    <3>1. \A k \in 1..Len(sigs) : <<sigs[k], b, h>> \in endorsements
      BY <1>1, <1>6 DEF BatchInv, SignaturesEndorsed, SignatureCount
    <3>2. i \in 1..Len(more) /\ tradeBatch[c]'.signatures[i] = more[i]
      BY <1>6, <2>2
    <3>3. <<more[i], b, h>> \in endorsements'
      BY <1>2a, <3>1, <3>2
    <3>4. QED
      BY <1>6, <2>2, <3>2, <3>3
  <2>3. QED
    BY <2>1, <2>2
<1>13. ExecutedInLife'
  BY <1>1, <1>4, <1>5, <1>6 DEF BatchInv, ExecutedInLife
<1>14. RequiredBounded'
  BY <1>1 DEF RequiredBounded
<1>15. QED
  BY <1>7, <1>8, <1>8a, <1>9, <1>10, <1>11, <1>12, <1>13, <1>14 DEF IndInv

\* An execution is the first of its account, and the signatures that make it
\* admissible are those of different relayers for the trades it applies.
LEMMA ExecuteInd ==
    ASSUME IndInv, NEW r \in Relayers, NEW a \in BatchIds, NEW b \in BatchIds,
           NEW t \in Payloads, ExecuteTradeBatch(r, a, b, t)
    PROVE  IndInv'
<1> USE DEF ExecuteTradeBatch, Apply
<1> DEFINE sigs == tradeBatch[a].signatures
           exec == [batch |-> b, trades |-> t,
                    required |-> relayerConfig.required_signatures, at |-> now]
<1>1. TypeOK /\ BatchInv /\ RequiredBounded
  BY DEF IndInv, BatchInv
<1>2. tradeBatch[a] \in BatchRecord /\ sigs \in Seq(Relayers)
  BY <1>1 DEF TypeOK, BatchRecord
<1>3. /\ DOMAIN tradeBatch' = DOMAIN tradeBatch
      /\ \A c \in DOMAIN tradeBatch : c # a => tradeBatch[c]' = tradeBatch[c]
      /\ tradeBatch[a]' = [tradeBatch[a] EXCEPT !.executed = TRUE]
  BY <1>1 DEF TypeOK
<1>4. /\ tradeBatch[a]'.executed
      /\ \A c \in DOMAIN tradeBatch :
            /\ tradeBatch[c]'.signatures = tradeBatch[c].signatures
            /\ tradeBatch[c]'.data_hash = tradeBatch[c].data_hash
            /\ tradeBatch[c]'.expires_at = tradeBatch[c].expires_at
  BY <1>1, <1>3 DEF TypeOK, BatchRecord
<1>5. executions[a] = <<>>
  BY <1>1 DEF BatchInv, ExecutedIffApplied
<1>6. exec \in ExecutionRecord
  BY <1>1, CapacityAssumption DEF TypeOK, RequiredBounded, ExecutionRecord
<1>7. /\ executions'[a] = <<exec>>
      /\ \A c \in BatchIds : c # a => executions'[c] = executions[c]
  BY <1>1, <1>5 DEF TypeOK
<1>7a. Len(executions'[a]) = 1 /\ executions'[a][1] = exec
  <2> HIDE DEF exec, ExecuteTradeBatch, Apply
  <2>1. Len(<<exec>>) = 1 /\ <<exec>>[1] = exec
    OBVIOUS
  <2>2. QED
    BY <1>7, <2>1
<1>8. TypeOK'
  <2>1. tradeBatch[a]' \in BatchRecord
    BY <1>2, <1>3 DEF BatchRecord
  <2>2. tradeBatch' \in [DOMAIN tradeBatch' -> BatchRecord]
    BY <1>1, <1>3, <2>1 DEF TypeOK
  <2>3. executions'[a] \in Seq(ExecutionRecord)
    <3> HIDE DEF exec
    <3>1. <<exec>> \in Seq(ExecutionRecord)
      BY <1>6
    <3>2. QED
      BY <1>7, <3>1
  <2>4. executions' \in [BatchIds -> Seq(ExecutionRecord)]
    BY <1>1, <1>7, <2>3 DEF TypeOK
  <2>5. QED
    BY <1>1, <1>3, <2>2, <2>4 DEF TypeOK
<1>9. AtMostOnce'
  BY <1>1, <1>7 DEF BatchInv, AtMostOnce
<1>9a. ExecutedAsApproved'
  <2>1. \A c \in DOMAIN tradeBatch : c # a => \A i \in 1..Len(executions'[c]) :
            DataHash(executions'[c][i].batch, executions'[c][i].trades) = tradeBatch[c].data_hash
    BY <1>1, <1>7 DEF BatchInv, ExecutedAsApproved, VerifyBatchHash, TypeOK
  <2>2. \A i \in 1..Len(executions'[a]) :
            DataHash(executions'[a][i].batch, executions'[a][i].trades) = tradeBatch[a].data_hash
    <3>1. exec.batch = b /\ exec.trades = t /\ DataHash(b, t) = tradeBatch[a].data_hash
      BY DEF VerifyBatchHash
    <3>2. \A i \in 1..Len(executions'[a]) : executions'[a][i] = exec
      <4> HIDE DEF exec, ExecuteTradeBatch, Apply
      <4>1. QED
        BY <1>7a
    <3> HIDE DEF exec
    <3>3. QED
      BY <3>1, <3>2
  <2>3. QED
    BY <1>3, <1>4, <2>1, <2>2 DEF ExecutedAsApproved, VerifyBatchHash, DataHash
<1>10. QuorumEndorsed'
  <2> DEFINE signers == {q \in Relayers : <<q, a, DataHash(b, t)>> \in endorsements}
  <2>1. Cardinality(signers) >= Len(sigs)
    <3>1. \A k \in 1..Len(sigs) : sigs[k] \in signers
      BY <1>1, <1>2 DEF BatchInv, SignaturesEndorsed, SignatureCount, VerifyBatchHash
    <3>2. \A k, l \in 1..Len(sigs) : sigs[k] = sigs[l] => k = l
      BY <1>1 DEF BatchInv, SignaturesDistinct, SignatureCount
    <3>3. signers \in SUBSET Relayers
      OBVIOUS
    <3> HIDE DEF signers, sigs
    <3>4. QED
      BY <1>2, <3>1, <3>2, <3>3, DistinctCount, RelayersAssumption
  <2>2. Cardinality(signers) >= exec.required
    <3>1. Len(sigs) >= relayerConfig.required_signatures
      BY DEF HasEnoughSignatures, SignatureCount
    <3>2. signers \in SUBSET Relayers
      OBVIOUS
    <3> HIDE DEF signers
    <3>3. Cardinality(signers) \in Nat
      BY <3>2, FS_Subset, FS_CardinalityType, RelayersAssumption
    <3>4. Len(sigs) \in Nat /\ relayerConfig.required_signatures \in Nat
      BY <1>1, <1>2 DEF TypeOK
    <3>5. QED
      BY <2>1, <3>1, <3>3, <3>4
  <2>3. \A c \in BatchIds : c # a => \A i \in 1..Len(executions[c]) :
            Cardinality({q \in Relayers :
                <<q, c, DataHash(executions[c][i].batch, executions[c][i].trades)>>
                  \in endorsements})
              >= executions[c][i].required
    BY <1>1 DEF BatchInv, QuorumEndorsed
  <2>4. SUFFICES ASSUME NEW c \in BatchIds, NEW i \in 1..Len(executions'[c])
                 PROVE  Cardinality({q \in Relayers :
                            <<q, c, DataHash(executions'[c][i].batch, executions'[c][i].trades)>>
                              \in endorsements})
                          >= executions'[c][i].required
    BY DEF QuorumEndorsed, DataHash
  <2>5. CASE c # a
    BY <1>7, <2>3, <2>5
  <2>6. CASE c = a
    <3>1. executions'[c][i] = exec
      <4> HIDE DEF exec, ExecuteTradeBatch, Apply
      <4>1. QED
        BY <1>7a, <2>6
    <3>2. /\ executions'[c][i].batch = b
          /\ executions'[c][i].trades = t
          /\ executions'[c][i].required = exec.required
      BY <3>1
    <3> HIDE DEF exec
    <3>3. QED
      BY <2>2, <2>6, <3>2
  <2>7. QED
    BY <2>5, <2>6
<1>11. ExecutedIffApplied'
  <2>1. \A c \in BatchIds : c # a =>
            ((c \in DOMAIN tradeBatch' /\ tradeBatch'[c].executed) <=> executions'[c] # <<>>)
    BY <1>1, <1>3, <1>7 DEF BatchInv, ExecutedIffApplied
  <2>2. a \in DOMAIN tradeBatch' /\ tradeBatch'[a].executed
    BY <1>3, <1>4
  <2>3. executions'[a] # <<>>
    <3> HIDE DEF exec, ExecuteTradeBatch, Apply
    <3>1. QED
      BY <1>7a
  <2>4. QED
    BY <2>1, <2>2, <2>3 DEF ExecutedIffApplied
<1>12. SignaturesDistinct'
  BY <1>1, <1>3, <1>4 DEF BatchInv, SignaturesDistinct, SignatureCount
<1>13. SignaturesEndorsed'
  BY <1>1, <1>3, <1>4 DEF BatchInv, SignaturesEndorsed, SignatureCount
<1>14. ExecutedInLife'
  <2>1. executions'[a][1].at <= tradeBatch'[a].expires_at
    <3>1. now <= tradeBatch[a].expires_at
      BY <1>1, <1>2 DEF IsExpired, TypeOK, BatchRecord
    <3>3. executions'[a][1].at = now
      BY <1>7a
    <3>4. tradeBatch'[a].expires_at = tradeBatch[a].expires_at
      BY <1>4
    <3>5. QED
      BY <3>1, <3>3, <3>4
  <2>2. QED
    BY <1>1, <1>3, <1>4, <1>7, <2>1 DEF BatchInv, ExecutedInLife, TypeOK
<1>15. RequiredBounded'
  BY <1>1 DEF RequiredBounded
<1>16. QED
  BY <1>8, <1>9, <1>9a, <1>10, <1>11, <1>12, <1>13, <1>14, <1>15 DEF IndInv

LEMMA NextInd == IndInv /\ [Next]_vars => IndInv'
<1> SUFFICES ASSUME IndInv, [Next]_vars PROVE IndInv'
  OBVIOUS
<1>1. CASE \E r \in Relayers : AddRelayer(r) \/ RemoveRelayer(r)
  BY <1>1, ConfigStepInd
<1>2. CASE \E n \in 0..MAX_RELAYERS + 1 : UpdateRequiredSignatures(n)
  BY <1>2, ConfigStepInd
<1>3. CASE \E paused \in BOOLEAN : SetPaused(paused)
  <2>1. /\ UNCHANGED <<relayerConfig, tradeBatch, now, endorsements, executions>>
        /\ isPaused' \in BOOLEAN
    BY <1>3 DEF SetPaused
  <2>2. BatchInv' /\ RequiredBounded' /\ TypeOK'
    BY <2>1, BatchInvFramed DEF IndInv, BatchInv, RequiredBounded, TypeOK
  <2>3. QED
    BY <2>2 DEF IndInv, BatchInv
<1>4. CASE \E r \in Relayers, b \in BatchIds, h \in Hashes : SubmitTradeBatch(r, b, h)
  BY <1>4, SubmitInd
<1>5. CASE \E r \in Relayers, b \in BatchIds, h \in Hashes : ConfirmTradeBatch(r, b, h)
  BY <1>5, ConfirmInd
<1>6. CASE \E r \in Relayers, a \in BatchIds, b \in BatchIds, t \in Payloads :
               ExecuteTradeBatch(r, a, b, t)
  BY <1>6, ExecuteInd
<1>7. CASE Tick
  <2>1. /\ UNCHANGED <<relayerConfig, tradeBatch, isPaused, endorsements, executions>>
        /\ now' = now + 1
    BY <1>7 DEF Tick
  <2>2. BatchInv' /\ RequiredBounded' /\ TypeOK'
    BY <2>1, BatchInvFramed DEF IndInv, BatchInv, RequiredBounded, TypeOK
  <2>3. QED
    BY <2>2 DEF IndInv, BatchInv
<1>8. CASE UNCHANGED vars
  <2>1. BatchInv' /\ RequiredBounded' /\ TypeOK'
    BY <1>8, BatchInvFramed DEF vars, IndInv, BatchInv, RequiredBounded, TypeOK
  <2>2. QED
    BY <2>1 DEF IndInv, BatchInv
<1>9. QED
  BY <1>1, <1>2, <1>3, <1>4, <1>5, <1>6, <1>7, <1>8 DEF Next

-----------------------------------------------------------------------------
(* Theorems *)

\* The inductive invariant holds in every reachable state.
THEOREM Invariance == Spec => []IndInv
<1>1. Init => IndInv
  BY InitInd
<1>2. IndInv /\ [Next]_vars => IndInv'
  BY NextInd
<1>3. QED
  BY <1>1, <1>2, PTL DEF Spec

\* Type correctness of the accounts of the multisig.
THEOREM TypeCorrect == Spec => []TypeOK
<1>1. IndInv => TypeOK
  BY DEF IndInv
<1>2. QED
  BY <1>1, Invariance, PTL

\* A batch id is applied at most once, whatever the relayers do, unless they put a
\* hash of it under another id: every account is executed once, and what is
\* executed from an account is what its hash names.
THEOREM ReplaySafe == Spec => []OncePerBatch
<1>1. IndInv => OncePerBatch
  <2> SUFFICES ASSUME IndInv, NEW b \in BatchIds,
                      \A a \in DOMAIN tradeBatch \ {b} : tradeBatch[a].data_hash[1] # b
               PROVE  AppliedAtMostOnce(b)
    BY DEF OncePerBatch
  <2>1. ASSUME NEW a \in BatchIds, NEW i \in 1..Len(executions[a]), executions[a][i].batch = b
        PROVE  a = b /\ i = 1
    <3>1. executions[a] # <<>> /\ Len(executions[a]) \in Nat /\ Len(executions[a]) <= 1
      BY DEF IndInv, TypeOK, AtMostOnce
    <3>2. a \in DOMAIN tradeBatch
      BY <3>1 DEF IndInv, ExecutedIffApplied
    <3>3. tradeBatch[a].data_hash = <<b, executions[a][i].trades>>
      BY <2>1, <3>2 DEF IndInv, ExecutedAsApproved, VerifyBatchHash, DataHash
    <3>4. QED
      BY <3>1, <3>2, <3>3
  <2>2. QED
    BY <2>1 DEF AppliedAtMostOnce
<1>2. QED
  BY <1>1, Invariance, PTL

\* Nothing is applied without the endorsement of the required number of
\* different relayers.
THEOREM QuorumSafe == Spec => []QuorumEndorsed
<1>1. IndInv => QuorumEndorsed
  BY DEF IndInv
<1>2. QED
  BY <1>1, Invariance, PTL

\* The executed flag and the effect of the trades are atomic.
THEOREM ExecutionAtomic == Spec => []ExecutedIffApplied
<1>1. IndInv => ExecutedIffApplied
  BY DEF IndInv
<1>2. QED
  BY <1>1, Invariance, PTL

\* Submitting a batch again after its expiry cannot apply its trades twice.
THEOREM RetrySafe == Spec => []RetryAfterExpirySafe
<1>1. IndInv => RetryAfterExpirySafe
  <2> SUFFICES ASSUME IndInv, NEW b \in DOMAIN tradeBatch, NEW c \in DOMAIN tradeBatch,
                      executions[b] # <<>>,
                      tradeBatch[c].created_at > tradeBatch[b].expires_at
               PROVE  executions[b][1].at < tradeBatch[c].created_at
    BY DEF RetryAfterExpirySafe
  <2>1. executions[b][1].at <= tradeBatch[b].expires_at
    BY DEF IndInv, ExecutedInLife
  <2>2. tradeBatch[b].expires_at \in Nat /\ tradeBatch[c].created_at \in Nat
    BY DEF IndInv, TypeOK, BatchRecord
  <2>3. executions[b][1].at \in Nat
    <3>1. executions[b] \in Seq(ExecutionRecord)
      BY DEF IndInv, TypeOK
    <3>2. executions[b][1] \in ExecutionRecord
      BY <3>1
    <3>3. QED
      BY <3>2 DEF ExecutionRecord
  <2>4. QED
    BY <2>1, <2>2, <2>3
<1>2. QED
  BY <1>1, Invariance, PTL

\* A batch account that is full holds a quorum.
THEOREM CapacitySafe == Spec => []FullBatchHasQuorum
<1>1. IndInv => FullBatchHasQuorum
  BY CapacityAssumption DEF IndInv, RequiredBounded, FullBatchHasQuorum, HasEnoughSignatures
<1>2. QED
  BY <1>1, Invariance, PTL

\* No step rewrites what relayers signed or what became of it.
THEOREM AuditTrail == Spec => AuditTrailKept
<1>1. IndInv /\ [Next]_vars => [\A b \in DOMAIN tradeBatch : BatchFrozen(b)]_vars
  <2> SUFFICES ASSUME IndInv, Next, NEW b \in DOMAIN tradeBatch
               PROVE  BatchFrozen(b)
    OBVIOUS
  <2>0. tradeBatch[b] \in BatchRecord /\ tradeBatch[b].signatures \in Seq(Relayers)
    BY DEF IndInv, TypeOK, BatchRecord
  <2>1. CASE tradeBatch'[b] = tradeBatch[b] /\ b \in DOMAIN tradeBatch'
    BY <2>0, <2>1 DEF BatchFrozen
  <2>2. CASE \E r \in Relayers, c \in BatchIds, h \in Hashes : SubmitTradeBatch(r, c, h)
    BY <2>1, <2>2 DEF SubmitTradeBatch
  <2>3. CASE \E r \in Relayers, c \in BatchIds, h \in Hashes : ConfirmTradeBatch(r, c, h)
    <3>1. PICK r \in Relayers, c \in BatchIds, h \in Hashes : ConfirmTradeBatch(r, c, h)
      BY <2>3
    <3>2. b \in DOMAIN tradeBatch'
      BY <3>1 DEF ConfirmTradeBatch, IndInv, TypeOK
    <3>3. CASE b # c
      <4>1. tradeBatch'[b] = tradeBatch[b]
        BY <3>1, <3>3 DEF ConfirmTradeBatch, IndInv, TypeOK
      <4>2. QED
        BY <2>1, <3>2, <4>1
    <3>4. CASE b = c
      <4> DEFINE sigs == tradeBatch[b].signatures
      <4>1. ~tradeBatch[b].executed
        BY <3>1, <3>4 DEF ConfirmTradeBatch
      <4>2. tradeBatch'[b] = [tradeBatch[b] EXCEPT !.signatures = Append(sigs, r)]
        BY <3>1, <3>4 DEF ConfirmTradeBatch, IndInv, TypeOK
      <4>3. /\ tradeBatch'[b].signatures = Append(sigs, r)
            /\ tradeBatch'[b].data_hash = tradeBatch[b].data_hash
            /\ tradeBatch'[b].created_at = tradeBatch[b].created_at
            /\ tradeBatch'[b].expires_at = tradeBatch[b].expires_at
        BY <2>0, <4>2 DEF BatchRecord
      <4>4. /\ Len(Append(sigs, r)) >= Len(sigs)
            /\ \A k \in 1..Len(sigs) : Append(sigs, r)[k] = sigs[k]
        BY <2>0
      <4>5. QED
        BY <3>2, <4>1, <4>3, <4>4 DEF BatchFrozen
    <3>5. QED
      BY <3>3, <3>4
  <2>4. CASE \E r \in Relayers, c \in BatchIds, d \in BatchIds, t \in Payloads :
                 ExecuteTradeBatch(r, c, d, t)
    <3>1. PICK r \in Relayers, c \in BatchIds, d \in BatchIds, t \in Payloads :
            ExecuteTradeBatch(r, c, d, t)
      BY <2>4
    <3>2. b \in DOMAIN tradeBatch'
      BY <3>1 DEF ExecuteTradeBatch, IndInv, TypeOK
    <3>3. CASE b # c
      <4>1. tradeBatch'[b] = tradeBatch[b]
        BY <3>1, <3>3 DEF ExecuteTradeBatch, IndInv, TypeOK
      <4>2. QED
        BY <2>1, <3>2, <4>1
    <3>4. CASE b = c
      <4>1. ~tradeBatch[b].executed
        BY <3>1, <3>4 DEF ExecuteTradeBatch
      <4>2. tradeBatch'[b] = [tradeBatch[b] EXCEPT !.executed = TRUE]
        BY <3>1, <3>4 DEF ExecuteTradeBatch, IndInv, TypeOK
      <4>3. /\ tradeBatch'[b].signatures = tradeBatch[b].signatures
            /\ tradeBatch'[b].data_hash = tradeBatch[b].data_hash
            /\ tradeBatch'[b].created_at = tradeBatch[b].created_at
            /\ tradeBatch'[b].expires_at = tradeBatch[b].expires_at
        BY <2>0, <4>2 DEF BatchRecord
      <4>4. QED
        BY <2>0, <3>2, <4>1, <4>3 DEF BatchFrozen
    <3>5. QED
      BY <3>3, <3>4
  <2>5. CASE UNCHANGED tradeBatch
    BY <2>1, <2>5
  <2>6. QED
    BY <2>2, <2>3, <2>4, <2>5 DEF Next, AddRelayer, RemoveRelayer,
       UpdateRequiredSignatures, SetPaused, Tick
<1>2. QED
  BY <1>1, Invariance, PTL DEF Spec, AuditTrailKept

-----------------------------------------------------------------------------
(* RelayerMultisig implements QuorumApproval                               *)

Votes == [b \in BatchIds |-> VotesOf(b)]
Decided == [b \in BatchIds |-> AppliedIn(b)]

\* The votes are those the TradeBatch accounts hold, the decisions those applied.
LEMMA VotesFramed == tradeBatch' = tradeBatch => Votes' = Votes
<1> SUFFICES ASSUME tradeBatch' = tradeBatch PROVE Votes' = Votes
  OBVIOUS
<1>1. \A b \in BatchIds : VotesOf(b)' = VotesOf(b)
  BY DEF VotesOf, SignatureCount
<1>2. QED
  BY <1>1 DEF Votes

LEMMA DecidedFramed == executions' = executions => Decided' = Decided
  BY DEF Decided, AppliedIn, DataHash

\* A batch that is not executed has decided nothing.
LEMMA Undecided ==
    ASSUME IndInv, NEW b \in BatchIds, ~(b \in DOMAIN tradeBatch /\ tradeBatch[b].executed)
    PROVE  Decided[b] = {}
<1>1. executions[b] = <<>>
  BY DEF IndInv, ExecutedIffApplied
<1>2. QED
  BY <1>1 DEF Decided, AppliedIn

LEMMA InitRefines == Init => Approval!AInit
<1> SUFFICES ASSUME Init PROVE Approval!AInit
  OBVIOUS
<1>1. relayerConfig.required_signatures \in Nat \ {0}
  <2>1. RequiredBounded
    BY InitInd DEF IndInv
  <2>2. QED
    BY <2>1, CapacityAssumption DEF RequiredBounded
<1>2. \A b \in BatchIds : VotesOf(b) = {} /\ AppliedIn(b) = {}
  BY DEF Init, VotesOf, AppliedIn
<1>3. QED
  BY <1>1, <1>2 DEF Approval!AInit

\* A submission is the first vote of its account.
LEMMA SubmitRefines ==
    ASSUME IndInv, NEW r \in Relayers, NEW b \in BatchIds, NEW h \in Hashes,
           SubmitTradeBatch(r, b, h)
    PROVE  [Approval!ANext]_(Approval!avars)
<1>1. Decided' = Decided /\ relayerConfig' = relayerConfig
  BY DecidedFramed DEF SubmitTradeBatch
<1>2. b \notin DOMAIN tradeBatch /\ VotesOf(b) = {}
  BY DEF SubmitTradeBatch, VotesOf
<1>3. /\ DOMAIN tradeBatch' = DOMAIN tradeBatch \cup {b}
      /\ \A c \in DOMAIN tradeBatch : tradeBatch'[c] = tradeBatch[c]
      /\ tradeBatch'[b].signatures = <<r>>
      /\ tradeBatch'[b].data_hash = h
  BY <1>2 DEF SubmitTradeBatch
<1>4. \A c \in BatchIds : c # b => VotesOf(c)' = VotesOf(c)
  BY <1>2, <1>3 DEF VotesOf, SignatureCount
<1>5. VotesOf(b)' = {<<r, h>>}
  <2>1. VotesOf(b)' = {<<<<r>>[i], h>> : i \in 1..Len(<<r>>)}
    BY <1>3 DEF VotesOf, SignatureCount
  <2>2. Len(<<r>>) = 1 /\ <<r>>[1] = r
    OBVIOUS
  <2>3. QED
    BY <2>1, <2>2
<1>6. Votes' = [Votes EXCEPT ![b] = @ \cup {<<r, h>>}]
  BY <1>2, <1>4, <1>5 DEF Votes
<1>7. Decided[b] = {}
  BY <1>2, Undecided
<1>8. \A v \in Votes[b] : v[2] = h /\ v[1] # r
  BY <1>2 DEF Votes
<1>9. Approval!Vote(r, b, h)
  BY <1>1, <1>6, <1>7, <1>8 DEF Approval!Vote, Votes, Decided
<1>10. QED
  BY <1>9 DEF Approval!ANext

\* A confirmation is one more vote, of a relayer that has not voted yet.
LEMMA ConfirmRefines ==
    ASSUME IndInv, NEW r \in Relayers, NEW b \in BatchIds, NEW h \in Hashes,
           ConfirmTradeBatch(r, b, h)
    PROVE  [Approval!ANext]_(Approval!avars)
<1> DEFINE sigs == tradeBatch[b].signatures
           more == Append(sigs, r)
<1>1. Decided' = Decided /\ relayerConfig' = relayerConfig
  BY DecidedFramed DEF ConfirmTradeBatch
<1>2. /\ b \in DOMAIN tradeBatch
      /\ tradeBatch[b] \in BatchRecord
      /\ sigs \in Seq(Relayers)
      /\ tradeBatch[b].data_hash = h
  BY DEF ConfirmTradeBatch, IndInv, TypeOK, BatchRecord
<1>3. /\ DOMAIN tradeBatch' = DOMAIN tradeBatch
      /\ \A c \in DOMAIN tradeBatch : c # b => tradeBatch'[c] = tradeBatch[c]
      /\ tradeBatch'[b].signatures = more
      /\ tradeBatch'[b].data_hash = h
  BY <1>2 DEF ConfirmTradeBatch, BatchRecord
<1>4. \A c \in BatchIds : c # b => VotesOf(c)' = VotesOf(c)
  BY <1>3 DEF VotesOf, SignatureCount
<1>5. /\ VotesOf(b) = {<<sigs[i], h>> : i \in 1..Len(sigs)}
      /\ VotesOf(b)' = {<<more[i], h>> : i \in 1..Len(more)}
  BY <1>2, <1>3 DEF VotesOf, SignatureCount
<1>6. /\ Len(more) = Len(sigs) + 1
      /\ more[Len(sigs) + 1] = r
      /\ \A i \in 1..Len(sigs) : more[i] = sigs[i]
      /\ Len(sigs) \in Nat
  BY <1>2
<1>7. \A i \in 1..Len(sigs) : sigs[i] # r
  BY DEF ConfirmTradeBatch, HasSigned, SignatureCount
<1> HIDE DEF sigs, more
<1>8. VotesOf(b)' = VotesOf(b) \cup {<<r, h>>}
  BY <1>5, <1>6
<1>9. Votes' = [Votes EXCEPT ![b] = @ \cup {<<r, h>>}]
  BY <1>4, <1>8 DEF Votes
<1>10. Decided[b] = {}
  BY Undecided DEF ConfirmTradeBatch
<1>11. \A v \in Votes[b] : v[2] = h /\ v[1] # r
  BY <1>5, <1>7 DEF Votes
<1>12. Approval!Vote(r, b, h)
  BY <1>1, <1>9, <1>10, <1>11 DEF Approval!Vote, Votes, Decided
<1>13. QED
  BY <1>12 DEF Approval!ANext

\* An execution is a decision of its account: the signatures on it are votes of as
\* many different relayers for the batch id and the trades it applies.
LEMMA ExecuteRefines ==
    ASSUME IndInv, NEW r \in Relayers, NEW a \in BatchIds, NEW b \in BatchIds,
           NEW t \in Payloads, ExecuteTradeBatch(r, a, b, t)
    PROVE  [Approval!ANext]_(Approval!avars)
<1> DEFINE sigs == tradeBatch[a].signatures
           h == DataHash(b, t)
           voters == {q \in Relayers : <<q, h>> \in Votes[a]}
<1>1. /\ a \in DOMAIN tradeBatch
      /\ tradeBatch[a] \in BatchRecord
      /\ sigs \in Seq(Relayers)
      /\ ~tradeBatch[a].executed
      /\ tradeBatch[a].data_hash = h
      /\ h \in Hashes
  BY DEF ExecuteTradeBatch, IndInv, TypeOK, BatchRecord, VerifyBatchHash, DataHash, Hashes
<1>2. Votes' = Votes
  <2>1. /\ DOMAIN tradeBatch' = DOMAIN tradeBatch
        /\ \A c \in DOMAIN tradeBatch :
              /\ tradeBatch'[c].signatures = tradeBatch[c].signatures
              /\ tradeBatch'[c].data_hash = tradeBatch[c].data_hash
    BY <1>1 DEF ExecuteTradeBatch, IndInv, TypeOK, BatchRecord
  <2>2. \A c \in BatchIds : VotesOf(c)' = VotesOf(c)
    BY <2>1 DEF VotesOf, SignatureCount
  <2>3. QED
    BY <2>2 DEF Votes
<1>3. Decided[a] = {} /\ executions[a] = <<>>
  BY <1>1, Undecided DEF IndInv, ExecutedIffApplied
<1>4. Decided' = [Decided EXCEPT ![a] = {h}]
  <2> DEFINE exec == [batch |-> b, trades |-> t,
                      required |-> relayerConfig.required_signatures, at |-> now]
  <2>1. /\ executions'[a] = <<exec>>
        /\ \A c \in BatchIds : c # a => executions'[c] = executions[c]
    BY <1>3 DEF ExecuteTradeBatch, Apply, IndInv, TypeOK
  <2>2. AppliedIn(a)' = {DataHash(<<exec>>[i].batch, <<exec>>[i].trades) : i \in 1..Len(<<exec>>)}
    BY <2>1 DEF AppliedIn, DataHash
  <2>3. Len(<<exec>>) = 1 /\ <<exec>>[1].batch = b /\ <<exec>>[1].trades = t
    OBVIOUS
  <2> HIDE DEF exec
  <2>4. AppliedIn(a)' = {h}
    BY <2>2, <2>3
  <2>5. \A c \in BatchIds : c # a => AppliedIn(c)' = AppliedIn(c)
    BY <2>1 DEF AppliedIn, DataHash
  <2>6. QED
    BY <2>4, <2>5 DEF Decided
<1>5. Cardinality(voters) >= Len(sigs)
  <2>1. \A i \in 1..Len(sigs) : sigs[i] \in voters
    <3>1. Votes[a] = {<<sigs[i], h>> : i \in 1..Len(sigs)}
      BY <1>1 DEF Votes, VotesOf, SignatureCount
    <3>2. \A i \in 1..Len(sigs) : sigs[i] \in Relayers
      BY <1>1
    <3>3. QED
      BY <3>1, <3>2
  <2>2. \A i, j \in 1..Len(sigs) : sigs[i] = sigs[j] => i = j
    BY <1>1 DEF IndInv, SignaturesDistinct, SignatureCount
  <2>3. voters \in SUBSET Relayers
    OBVIOUS
  <2> HIDE DEF voters, sigs
  <2>4. QED
    BY <1>1, <2>1, <2>2, <2>3, DistinctCount, RelayersAssumption
<1>6. Cardinality(voters) >= relayerConfig.required_signatures
  <2>1. Len(sigs) >= relayerConfig.required_signatures
    BY DEF ExecuteTradeBatch, HasEnoughSignatures, SignatureCount
  <2>2. voters \in SUBSET Relayers
    OBVIOUS
  <2> HIDE DEF voters
  <2>3. Cardinality(voters) \in Nat
    BY <2>2, FS_Subset, FS_CardinalityType, RelayersAssumption
  <2>4. Len(sigs) \in Nat /\ relayerConfig.required_signatures \in Nat
    BY <1>1 DEF IndInv, TypeOK
  <2>5. QED
    BY <1>5, <2>1, <2>3, <2>4
<1>7. relayerConfig' = relayerConfig
  BY DEF ExecuteTradeBatch
<1>8. Approval!Decide(a, h)
  <2>1. Approval!Cardinality(voters) = Cardinality(voters)
    BY DEF Approval!Cardinality, Cardinality
  <2>2. Approval!Voters(a, h) = voters
    BY DEF Approval!Voters, Votes
  <2> HIDE DEF voters, h
  <2>3. QED
    BY <1>2, <1>3, <1>4, <1>6, <1>7, <2>1, <2>2 DEF Approval!Decide, Votes, Decided
<1>9. QED
  BY <1>1, <1>8 DEF Approval!ANext

LEMMA StepRefines == IndInv /\ [Next]_vars => [Approval!ANext]_(Approval!avars)
<1> SUFFICES ASSUME IndInv, [Next]_vars PROVE [Approval!ANext]_(Approval!avars)
  OBVIOUS
<1>1. ASSUME UNCHANGED <<tradeBatch, executions>>,
             relayerConfig'.required_signatures = relayerConfig.required_signatures
      PROVE  UNCHANGED Approval!avars
  BY <1>1, VotesFramed, DecidedFramed DEF Approval!avars, Votes, Decided
<1>2. CASE \E r \in Relayers : AddRelayer(r) \/ RemoveRelayer(r)
  BY <1>1, <1>2 DEF AddRelayer, RemoveRelayer, IndInv, TypeOK
<1>3. CASE \E n \in 0..MAX_RELAYERS + 1 : UpdateRequiredSignatures(n)
  <2>1. relayerConfig'.required_signatures \in Nat \ {0}
    BY <1>3, CapacityAssumption DEF UpdateRequiredSignatures, IndInv, TypeOK
  <2>2. Votes' = Votes /\ Decided' = Decided
    BY <1>3, VotesFramed, DecidedFramed DEF UpdateRequiredSignatures
  <2>3. Approval!SetThreshold
    BY <2>1, <2>2 DEF Approval!SetThreshold, Votes, Decided
  <2>4. QED
    BY <2>3 DEF Approval!ANext
<1>4. CASE \E paused \in BOOLEAN : SetPaused(paused)
  BY <1>1, <1>4 DEF SetPaused
<1>5. CASE \E r \in Relayers, b \in BatchIds, h \in Hashes : SubmitTradeBatch(r, b, h)
  BY <1>5, SubmitRefines
<1>6. CASE \E r \in Relayers, b \in BatchIds, h \in Hashes : ConfirmTradeBatch(r, b, h)
  BY <1>6, ConfirmRefines
<1>7. CASE \E r \in Relayers, a \in BatchIds, b \in BatchIds, t \in Payloads :
               ExecuteTradeBatch(r, a, b, t)
  BY <1>7, ExecuteRefines
<1>8. CASE Tick
  BY <1>1, <1>8 DEF Tick
<1>9. CASE UNCHANGED vars
  BY <1>1, <1>9 DEF vars
<1>10. QED
  BY <1>2, <1>3, <1>4, <1>5, <1>6, <1>7, <1>8, <1>9 DEF Next

\* The accounts and instructions of the multisig implement quorum approval: one
\* decision per account, for the batch id and trades its votes are for, by enough
\* voters.
THEOREM Refinement == Spec => ApprovalSpec
<1>1. Init => Approval!AInit
  BY InitRefines
<1>2. IndInv /\ [Next]_vars => [Approval!ANext]_(Approval!avars)
  BY StepRefines
<1>3. QED
  BY <1>1, <1>2, Invariance, PTL DEF Spec, ApprovalSpec, Approval!ASpec
=============================================================================
