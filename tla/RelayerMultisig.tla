---------------------------- MODULE RelayerMultisig ----------------------------
(****************************************************************************)
(* The multi-relayer approval of trade batches: a batch of trades is        *)
(* submitted by one relayer as a hash, confirmed by others, and executed    *)
(* once enough of them have signed.  Every instruction is one transaction:  *)
(* an instruction the program rejects changes nothing, so it is no step.    *)
(*                                                                          *)
(* Data is abstract.  A payload stands for the trades of a batch, SHA-256   *)
(* for an injective pairing of batch id and payload, and the Vec of         *)
(* authorised relayers for a function from occupied slots to keys: the      *)
(* program reads its membership and its length, never its order.            *)
(*                                                                          *)
(* A TradeBatch account is named by the batch id it was submitted under:    *)
(* Submit and Confirm derive its address from that id.  Execute takes any   *)
(* TradeBatch account and a batch id of its own, and ties the two together  *)
(* by the hash alone, so account and batch id are two parameters there.     *)
(****************************************************************************)
EXTENDS Integers, Sequences, FiniteSets

CONSTANTS
    Relayers,                    \* public keys that may ever be relayers
    BatchIds,                    \* batch ids relayers use
    Payloads,                    \* trade lists relayers may want applied
    MAX_RELAYERS,                \* 5 in state.rs
    MAX_SIGNATURES,              \* 5 in state.rs
    TRADE_BATCH_EXPIRY_SECONDS,  \* 60 in state.rs
    MaxTime                      \* bound on the clock, for model checking

ASSUME RelayersAssumption == IsFiniteSet(Relayers)
ASSUME CapacityAssumption ==
    /\ MAX_RELAYERS \in Nat \ {0}
    /\ MAX_SIGNATURES \in Nat
    /\ MAX_RELAYERS <= MAX_SIGNATURES
ASSUME TimeAssumption ==
    /\ TRADE_BATCH_EXPIRY_SECONDS \in Nat
    /\ MaxTime \in Nat

VARIABLES
    relayerConfig,  \* RelayerConfig account
    tradeBatch,     \* TradeBatch accounts, by the batch id they are derived from;
                    \* an id is in the domain once its account has been created
    isPaused,       \* LedgerConfig.is_paused
    now,            \* the Clock sysvar, in seconds
    endorsements,   \* history: <<relayer, account, hash>> of every signature an
                    \* authorised relayer gave in a submission or confirmation
    executions      \* history: per account, the executions that took effect

vars == <<relayerConfig, tradeBatch, isPaused, now, endorsements, executions>>

Slots == 1..MAX_RELAYERS
RelayerLists == UNION {[S -> Relayers] : S \in SUBSET Slots}
Hashes == BatchIds \X Payloads

-----------------------------------------------------------------------------
(* Helpers of RelayerConfig, TradeBatch and utils *)

IsAuthorized(r) ==
    \E i \in DOMAIN relayerConfig.authorized_relayers :
        relayerConfig.authorized_relayers[i] = r

RelayerCount == Cardinality(DOMAIN relayerConfig.authorized_relayers)

SignatureCount(b) == Len(tradeBatch[b].signatures)

\* Mutant: one signature short of the number required is enough.
OneSignatureShort(b) == SignatureCount(b) + 1 >= relayerConfig.required_signatures

HasEnoughSignatures(b) == SignatureCount(b) >= relayerConfig.required_signatures

\* Mutant: a batch lives one second past its expiry.
ExpiredLate(b) == now > tradeBatch[b].expires_at + 1

IsExpired(b) == now > tradeBatch[b].expires_at

HasSigned(r, b) == \E i \in 1..SignatureCount(b) : tradeBatch[b].signatures[i] = r

\* compute_batch_hash covers the batch id as well as the serialized trades.
DataHash(b, trades) == <<b, trades>>

\* Mutant: the comparison stops at the part of the hash that covers the batch id.
VerifyBatchIdOnly(a, b, trades) == DataHash(b, trades)[1] = tradeBatch[a].data_hash[1]

\* Account a holds the hash of these trades under batch id b.
VerifyBatchHash(a, b, trades) == DataHash(b, trades) = tradeBatch[a].data_hash

-----------------------------------------------------------------------------
(* Administration of the relayer set *)

\* Any parameters process_initialize_relayers accepts; it does not look for
\* duplicates in the list.
Init ==
    /\ \E n \in Slots, q \in Slots :
        /\ q <= n
        /\ \E list \in [1..n -> Relayers] :
            relayerConfig = [authorized_relayers |-> list, required_signatures |-> q]
    /\ tradeBatch = [b \in {} |-> {}]
    /\ isPaused = FALSE
    /\ now = 0
    /\ endorsements = {}
    /\ executions = [b \in BatchIds |-> <<>>]

\* Mutant: the limit on the list is off by one.
AddRelayerBeyondLimit(r) ==
    /\ ~IsAuthorized(r)
    /\ \E i \in (1..MAX_RELAYERS + 1) \ DOMAIN relayerConfig.authorized_relayers :
        relayerConfig' = [relayerConfig EXCEPT !.authorized_relayers =
            [j \in DOMAIN @ \cup {i} |-> IF j = i THEN r ELSE @[j]]]
    /\ UNCHANGED <<tradeBatch, isPaused, now, endorsements, executions>>

AddRelayer(r) ==
    /\ ~IsAuthorized(r)
    /\ \E i \in Slots \ DOMAIN relayerConfig.authorized_relayers :
        relayerConfig' = [relayerConfig EXCEPT !.authorized_relayers =
            [j \in DOMAIN @ \cup {i} |-> IF j = i THEN r ELSE @[j]]]
    /\ UNCHANGED <<tradeBatch, isPaused, now, endorsements, executions>>

\* The list shrinks whatever required_signatures is.
RemoveRelayer(r) ==
    /\ IsAuthorized(r)
    /\ relayerConfig' = [relayerConfig EXCEPT !.authorized_relayers =
            [i \in {j \in DOMAIN @ : @[j] # r} |-> @[i]]]
    /\ UNCHANGED <<tradeBatch, isPaused, now, endorsements, executions>>

\* Mutant: the new number is not compared with the relayers there are.
UpdateRequiredUnchecked(n) ==
    /\ n # 0
    /\ relayerConfig' = [relayerConfig EXCEPT !.required_signatures = n]
    /\ UNCHANGED <<tradeBatch, isPaused, now, endorsements, executions>>

UpdateRequiredSignatures(n) ==
    /\ n # 0
    /\ n <= RelayerCount
    /\ relayerConfig' = [relayerConfig EXCEPT !.required_signatures = n]
    /\ UNCHANGED <<tradeBatch, isPaused, now, endorsements, executions>>

SetPaused(paused) ==
    /\ isPaused' = paused
    /\ UNCHANGED <<relayerConfig, tradeBatch, now, endorsements, executions>>

-----------------------------------------------------------------------------
(* The life of a batch *)

\* create_account fails when the account of this batch id exists already.
SubmitTradeBatch(r, b, hash) ==
    /\ IsAuthorized(r)
    /\ b \notin DOMAIN tradeBatch
    /\ tradeBatch' = [c \in DOMAIN tradeBatch \cup {b} |->
            IF c = b
            THEN [data_hash  |-> hash,
                  signatures |-> <<r>>,
                  executed   |-> FALSE,
                  created_at |-> now,
                  expires_at |-> now + TRADE_BATCH_EXPIRY_SECONDS]
            ELSE tradeBatch[c]]
    /\ endorsements' = endorsements \cup {<<r, b, hash>>}
    /\ UNCHANGED <<relayerConfig, isPaused, now, executions>>

\* Mutant: an executed batch can still be signed.
ConfirmExecuted(r, b, hash) ==
    /\ IsAuthorized(r)
    /\ b \in DOMAIN tradeBatch
    /\ ~IsExpired(b)
    /\ tradeBatch[b].data_hash = hash
    /\ ~HasSigned(r, b)
    /\ SignatureCount(b) < MAX_SIGNATURES
    /\ tradeBatch' = [tradeBatch EXCEPT ![b].signatures = Append(@, r)]
    /\ endorsements' = endorsements \cup {<<r, b, hash>>}
    /\ UNCHANGED <<relayerConfig, isPaused, now, executions>>

\* The last guard is the size of the account: TradeBatch::SIZE has
\* room for MAX_SIGNATURES signatures, one more fails to serialize.
ConfirmTradeBatch(r, b, hash) ==
    /\ IsAuthorized(r)
    /\ b \in DOMAIN tradeBatch
    /\ ~IsExpired(b)
    /\ ~tradeBatch[b].executed
    /\ tradeBatch[b].data_hash = hash
    /\ ~HasSigned(r, b)
    /\ SignatureCount(b) < MAX_SIGNATURES
    /\ tradeBatch' = [tradeBatch EXCEPT ![b].signatures = Append(@, r)]
    /\ endorsements' = endorsements \cup {<<r, b, hash>>}
    /\ UNCHANGED <<relayerConfig, isPaused, now, executions>>

\* Applies the trades under batch id b, on the approval of account a.
Apply(a, b, trades) ==
    executions' = [executions EXCEPT ![a] = Append(@,
        [batch |-> b, trades |-> trades,
         required |-> relayerConfig.required_signatures, at |-> now])]

\* Mutant: the executed flag is not looked at.
ExecuteAgain(r, a, b, trades) ==
    /\ IsAuthorized(r)
    /\ a \in DOMAIN tradeBatch
    /\ ~IsExpired(a)
    /\ HasEnoughSignatures(a)
    /\ VerifyBatchHash(a, b, trades)
    /\ ~isPaused
    /\ tradeBatch' = [tradeBatch EXCEPT ![a].executed = TRUE]
    /\ Apply(a, b, trades)
    /\ UNCHANGED <<relayerConfig, isPaused, now, endorsements>>

\* Mutant: the flag of a rejected execution survives it.
ExecuteWithoutRollback(r, a, b, trades) ==
    /\ IsAuthorized(r)
    /\ a \in DOMAIN tradeBatch
    /\ ~IsExpired(a)
    /\ ~tradeBatch[a].executed
    /\ HasEnoughSignatures(a)
    /\ VerifyBatchHash(a, b, trades)
    /\ tradeBatch' = [tradeBatch EXCEPT ![a].executed = TRUE]
    /\ IF isPaused THEN UNCHANGED executions ELSE Apply(a, b, trades)
    /\ UNCHANGED <<relayerConfig, isPaused, now, endorsements>>

\* Account a is neither derived from the batch id b of the instruction nor is its
\* batch_id field read; only the hash it holds is compared with that of b and
\* the trades.  The executed flag is written before the pause check and the
\* trades; when either fails the transaction is rolled back with the flag.  What
\* the trades do is the subject of PerpLedger; here they succeed or the step is
\* not taken.
ExecuteTradeBatch(r, a, b, trades) ==
    /\ IsAuthorized(r)
    /\ a \in DOMAIN tradeBatch
    /\ ~IsExpired(a)
    /\ ~tradeBatch[a].executed
    /\ HasEnoughSignatures(a)
    /\ VerifyBatchHash(a, b, trades)
    /\ ~isPaused
    /\ tradeBatch' = [tradeBatch EXCEPT ![a].executed = TRUE]
    /\ Apply(a, b, trades)
    /\ UNCHANGED <<relayerConfig, isPaused, now, endorsements>>

Tick ==
    /\ now < MaxTime
    /\ now' = now + 1
    /\ UNCHANGED <<relayerConfig, tradeBatch, isPaused, endorsements, executions>>

Next ==
    \/ \E r \in Relayers : AddRelayer(r)
    \/ \E r \in Relayers : RemoveRelayer(r)
    \/ \E n \in 0..MAX_RELAYERS + 1 : UpdateRequiredSignatures(n)
    \/ \E paused \in BOOLEAN : SetPaused(paused)
    \/ \E r \in Relayers, b \in BatchIds, h \in Hashes : SubmitTradeBatch(r, b, h)
    \/ \E r \in Relayers, b \in BatchIds, h \in Hashes : ConfirmTradeBatch(r, b, h)
    \/ \E r \in Relayers, a \in BatchIds, b \in BatchIds, t \in Payloads :
            ExecuteTradeBatch(r, a, b, t)
    \/ Tick

Spec == Init /\ [][Next]_vars

-----------------------------------------------------------------------------
(* Properties *)

BatchRecord ==
    [data_hash: Hashes, signatures: Seq(Relayers), executed: BOOLEAN,
     created_at: Nat, expires_at: Nat]

ExecutionRecord == [batch: BatchIds, trades: Payloads, required: Nat, at: Nat]

\* Every account has the shape its Rust type gives it.
TypeOK ==
    /\ relayerConfig \in [authorized_relayers: RelayerLists, required_signatures: Nat]
    /\ DOMAIN tradeBatch \in SUBSET BatchIds
    /\ tradeBatch \in [DOMAIN tradeBatch -> BatchRecord]
    /\ isPaused \in BOOLEAN
    /\ now \in Nat
    /\ endorsements \in SUBSET (Relayers \X BatchIds \X Hashes)
    /\ executions \in [BatchIds -> Seq(ExecutionRecord)]

\* No two executions, on whatever accounts, apply trades under batch id b.
AppliedAtMostOnce(b) ==
    \A a, c \in BatchIds :
        \A i \in 1..Len(executions[a]), j \in 1..Len(executions[c]) :
            executions[a][i].batch = b /\ executions[c][j].batch = b => a = c /\ i = j

\* No interleaving of submissions, confirmations, executions and changes of the
\* relayer set applies the trades of a batch id twice, provided relayers submit
\* hashes of that id under that id only.
OncePerBatch ==
    \A b \in BatchIds :
        (\A a \in DOMAIN tradeBatch \ {b} : tradeBatch[a].data_hash[1] # b)
            => AppliedAtMostOnce(b)

\* The same without the proviso, which is what the comment at the hash check of
\* ExecuteTradeBatch says the batch id is there for: preventing replays.
BatchAppliedOnce == \A b \in BatchIds : AppliedAtMostOnce(b)

\* Whatever was executed had been endorsed on the account it was executed from, as
\* exactly these trades of exactly this batch id, by as many different relayers
\* as were required at the moment of the execution, each authorised when it
\* signed.
QuorumEndorsed ==
    \A a \in BatchIds : \A i \in 1..Len(executions[a]) :
        LET e == executions[a][i]
            signers == {r \in Relayers :
                           <<r, a, DataHash(e.batch, e.trades)>> \in endorsements}
        IN  Cardinality(signers) >= e.required

\* The executed flag of a batch and the effect of its trades go together: a
\* rejected execution (pause, failing trade) leaves the batch executable.
ExecutedIffApplied ==
    \A b \in BatchIds :
        (b \in DOMAIN tradeBatch /\ tradeBatch[b].executed) <=> executions[b] # <<>>

\* A batch takes effect only within its life, so a relayer that submits a batch
\* again under a new id after the first one has expired cannot see both applied.
RetryAfterExpirySafe ==
    \A b, c \in DOMAIN tradeBatch :
        executions[b] # <<>> /\ tradeBatch[c].created_at > tradeBatch[b].expires_at
            => executions[b][1].at < tradeBatch[c].created_at

\* A batch whose account has no room for another signature is never short of
\* one: relayers that were removed and replaced still fill its slots, but the
\* number required cannot outgrow the account.
FullBatchHasQuorum ==
    \A b \in DOMAIN tradeBatch :
        SignatureCount(b) = MAX_SIGNATURES => HasEnoughSignatures(b)

\* What relayers agreed on is fixed at submission, signatures are only ever
\* appended, and nothing about an executed batch changes again.
BatchFrozen(b) ==
    LET old == tradeBatch[b]  new == tradeBatch'[b]
    IN  /\ b \in DOMAIN tradeBatch'
        /\ new.data_hash = old.data_hash
        /\ new.created_at = old.created_at
        /\ new.expires_at = old.expires_at
        /\ Len(new.signatures) >= Len(old.signatures)
        /\ \A i \in 1..Len(old.signatures) : new.signatures[i] = old.signatures[i]
        /\ old.executed => new = old

AuditTrailKept == [][\A b \in DOMAIN tradeBatch : BatchFrozen(b)]_vars

\* There are always as many relayers as signatures are required, as the checks of
\* InitializeRelayers and UpdateRequiredSignatures ask for.
QuorumReachable == relayerConfig.required_signatures <= RelayerCount

-----------------------------------------------------------------------------
(* The inductive invariant: what the safety properties rest on *)

\* An account is executed at most once.
AtMostOnce == \A a \in BatchIds : Len(executions[a]) <= 1

\* What is executed from an account is what its hash is the hash of.
ExecutedAsApproved ==
    \A a \in DOMAIN tradeBatch : \A i \in 1..Len(executions[a]) :
        VerifyBatchHash(a, executions[a][i].batch, executions[a][i].trades)

\* The signatures of a batch are those of different relayers.
SignaturesDistinct ==
    \A b \in DOMAIN tradeBatch : \A i, j \in 1..SignatureCount(b) :
        tradeBatch[b].signatures[i] = tradeBatch[b].signatures[j] => i = j

\* Each of them was given for the hash the batch holds.
SignaturesEndorsed ==
    \A b \in DOMAIN tradeBatch : \A i \in 1..SignatureCount(b) :
        <<tradeBatch[b].signatures[i], b, tradeBatch[b].data_hash>> \in endorsements

ExecutedInLife ==
    \A b \in DOMAIN tradeBatch :
        executions[b] # <<>> => executions[b][1].at <= tradeBatch[b].expires_at

RequiredBounded == relayerConfig.required_signatures \in 1..MAX_RELAYERS

IndInv ==
    /\ TypeOK
    /\ AtMostOnce
    /\ ExecutedAsApproved
    /\ QuorumEndorsed
    /\ ExecutedIffApplied
    /\ SignaturesDistinct
    /\ SignaturesEndorsed
    /\ ExecutedInLife
    /\ RequiredBounded

-----------------------------------------------------------------------------
(* Refinement of QuorumApproval *)

\* Every TradeBatch account is a proposal; a signature on it is a vote for what
\* the account holds the hash of: a batch id and trades.
VotesOf(a) ==
    IF a \in DOMAIN tradeBatch
    THEN {<<tradeBatch[a].signatures[i], tradeBatch[a].data_hash>> : i \in 1..SignatureCount(a)}
    ELSE {}

AppliedIn(a) ==
    {DataHash(executions[a][i].batch, executions[a][i].trades) : i \in 1..Len(executions[a])}

Approval == INSTANCE QuorumApproval WITH
    Proposals <- BatchIds,
    Payloads  <- Hashes,
    threshold <- relayerConfig.required_signatures,
    votes     <- [a \in BatchIds |-> VotesOf(a)],
    decided   <- [a \in BatchIds |-> AppliedIn(a)]

\* The accounts of the program implement quorum approval.
ApprovalSpec == Approval!ASpec
=============================================================================
