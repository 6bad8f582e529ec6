----------------------------- MODULE LedgerAdmin -----------------------------
(******************************************************************************)
(* The two configuration accounts, who may change them, and what a change of  *)
(* the vault program does to margin that is locked.  Each account is created  *)
(* once, by whoever comes first, and names an admin of its own: UpdateAdmin   *)
(* hands over the ledger only.  The keys of the vault and fund programs can   *)
(* be replaced at any time; every lock and release goes to the vault of the   *)
(* moment, which keeps one amount per user, not per position.                 *)
(*                                                                            *)
(* Trades appear as the margin they lock or release; sizes, prices and fees   *)
(* are those of PerpLedger, batches those of RelayerMultisig.  Pausing, which *)
(* only prevents steps, is left to these modules.                             *)
(******************************************************************************)
EXTENDS Integers, FiniteSetsExt

CONSTANTS
    Keys,           \* wallets: admins and relayers
    Programs,       \* deployed programs, vaults and funds
    Users, Markets,
    MAX_RELAYERS,
    MaxMargin,      \* bound on Position.margin_e6 and on what is unclaimed
    MaxLocked,      \* bound on what one vault holds of a user, either way
    Absent          \* an account that has not been created

LedgerConfig == [admin: Keys, vault_program: Programs, fund_program: Programs]

RelayerConfig ==
    [admin: Keys, required_signatures: 1..MAX_RELAYERS,
     authorized_relayers: {R \in SUBSET Keys : Cardinality(R) <= MAX_RELAYERS}]

\* Keys and programs are 32-byte addresses, a market index is a byte.
ASSUME AdminAssumption ==
    /\ IsFiniteSet(Keys) /\ IsFiniteSet(Programs) /\ IsFiniteSet(Markets)
    /\ MAX_RELAYERS \in Nat \ {0}
    /\ MaxMargin \in Nat
    /\ MaxLocked \in Nat
    /\ Absent \notin LedgerConfig /\ Absent \notin RelayerConfig

VARIABLES
    ledgerConfig,   \* LedgerConfig account
    relayerConfig,  \* RelayerConfig account; the list as a set, duplicates are
                    \* a matter of RelayerMultisig
    margin,         \* Position.margin_e6 by <<user, market>>
    vaultLocked,    \* vault programs: margin locked by <<program, user>>
    unclaimed,      \* history: per user, what is locked in a vault and shown by no
                    \* position: margin of resets and fees of opens in batches
    migrated,       \* history: a vault was replaced that still held margin
    retired         \* keys whose owners sign nothing any more

vars == <<ledgerConfig, relayerConfig, margin, vaultLocked, unclaimed, migrated, retired>>
custody == <<margin, vaultLocked, unclaimed, migrated>>

PositionIds == Users \X Markets

Init ==
    /\ ledgerConfig = Absent
    /\ relayerConfig = Absent
    /\ margin = [id \in PositionIds |-> 0]
    /\ vaultLocked = [vu \in Programs \X Users |-> 0]
    /\ unclaimed = [u \in Users |-> 0]
    /\ migrated = FALSE
    /\ retired = {}

-----------------------------------------------------------------------------
(* Creating and changing the accounts *)

Signs(k) == k \in Keys \ retired

Initialize(by, vault, fund) ==
    /\ Signs(by)
    /\ ledgerConfig = Absent
    /\ ledgerConfig' = [admin |-> by, vault_program |-> vault, fund_program |-> fund]
    /\ UNCHANGED <<relayerConfig, custody, retired>>

InitializeRelayers(by, relayers, required) ==
    /\ Signs(by)
    /\ relayerConfig = Absent
    /\ Cardinality(relayers) <= MAX_RELAYERS
    /\ required \in 1..Cardinality(relayers)
    /\ relayerConfig' = [admin |-> by, authorized_relayers |-> relayers,
                         required_signatures |-> required]
    /\ UNCHANGED <<ledgerConfig, custody, retired>>

AdminOf(config, by) == Signs(by) /\ config # Absent /\ config.admin = by

\* Mutant: the admin is looked up in the ledger's account.
ManagesRelayersOfLedger(by) == AdminOf(ledgerConfig, by) /\ relayerConfig # Absent

\* The instructions on relayers ask for the admin of their own account.
ManagesRelayers(by) == AdminOf(relayerConfig, by)

\* Mutant: the limit is compared after the relayer was added.
AddRelayerAtLimit(by, relayer) ==
    /\ ManagesRelayers(by)
    /\ Cardinality(relayerConfig.authorized_relayers) <= MAX_RELAYERS
    /\ relayerConfig' = [relayerConfig EXCEPT !.authorized_relayers = @ \cup {relayer}]
    /\ UNCHANGED <<ledgerConfig, custody, retired>>

\* A relayer that is listed already is accepted and changes nothing.
AddRelayer(by, relayer) ==
    /\ ManagesRelayers(by)
    /\ Cardinality(relayerConfig.authorized_relayers) < MAX_RELAYERS
    /\ relayerConfig' = [relayerConfig EXCEPT !.authorized_relayers = @ \cup {relayer}]
    /\ UNCHANGED <<ledgerConfig, custody, retired>>

RemoveRelayer(by, relayer) ==
    /\ ManagesRelayers(by)
    /\ relayerConfig' = [relayerConfig EXCEPT !.authorized_relayers = @ \ {relayer}]
    /\ UNCHANGED <<ledgerConfig, custody, retired>>

UpdateRequiredSignatures(by, required) ==
    /\ ManagesRelayers(by)
    /\ required \in 1..Cardinality(relayerConfig.authorized_relayers)
    /\ relayerConfig' = [relayerConfig EXCEPT !.required_signatures = required]
    /\ UNCHANGED <<ledgerConfig, custody, retired>>

UpdateAdmin(by, new) ==
    /\ AdminOf(ledgerConfig, by)
    /\ ledgerConfig' = [ledgerConfig EXCEPT !.admin = new]
    /\ UNCHANGED <<relayerConfig, custody, retired>>

UpdateVaultProgram(by, new) ==
    /\ AdminOf(ledgerConfig, by)
    /\ ledgerConfig' = [ledgerConfig EXCEPT !.vault_program = new]
    /\ migrated' = (migrated \/ \E u \in Users : vaultLocked[<<ledgerConfig.vault_program, u>>] # 0)
    /\ UNCHANGED <<relayerConfig, margin, vaultLocked, unclaimed, retired>>

\* Mutant: the key goes to the field of the vault.
UpdateFundProgramOfVault(by, new) ==
    /\ AdminOf(ledgerConfig, by)
    /\ ledgerConfig' = [ledgerConfig EXCEPT !.vault_program = new]
    /\ UNCHANGED <<relayerConfig, custody, retired>>

UpdateFundProgram(by, new) ==
    /\ AdminOf(ledgerConfig, by)
    /\ ledgerConfig' = [ledgerConfig EXCEPT !.fund_program = new]
    /\ UNCHANGED <<relayerConfig, custody, retired>>

\* The owner of a key that handed over the ledger keeps or loses it.
Retire(k) ==
    /\ ledgerConfig # Absent
    /\ ledgerConfig.admin # k
    /\ retired' = retired \cup {k}
    /\ UNCHANGED <<ledgerConfig, relayerConfig, custody>>

-----------------------------------------------------------------------------
(* Margin *)

\* The call of cpi.rs to the vault of the moment: amount more locked for u.
Locked(u, amount) ==
    LET held == [vaultLocked EXCEPT ![<<ledgerConfig.vault_program, u>>] = @ + amount]
    IN  /\ held[<<ledgerConfig.vault_program, u>>] \in -MaxLocked..MaxLocked
        /\ vaultLocked' = held

\* OpenPosition: what it locks, the fee included, the position shows.
Open(u, m, amount) ==
    /\ ledgerConfig # Absent
    /\ margin[<<u, m>>] + amount <= MaxMargin
    /\ margin' = [margin EXCEPT ![<<u, m>>] = @ + amount]
    /\ Locked(u, amount)
    /\ UNCHANGED <<ledgerConfig, relayerConfig, unclaimed, migrated, retired>>

\* The OPEN branch of a batch: the fee is locked beside the margin and shown by no
\* position, so that no close releases it.
BatchOpen(u, m, amount, fee) ==
    /\ ledgerConfig # Absent
    /\ margin[<<u, m>>] + amount <= MaxMargin
    /\ unclaimed[u] + fee <= MaxMargin
    /\ margin' = [margin EXCEPT ![<<u, m>>] = @ + amount]
    /\ unclaimed' = [unclaimed EXCEPT ![u] = @ + fee]
    /\ Locked(u, amount + fee)
    /\ UNCHANGED <<ledgerConfig, relayerConfig, migrated, retired>>

\* Mutant: the account is cleared whatever part of the margin is released.
ReleaseAndClear(u, m, amount) ==
    /\ ledgerConfig # Absent
    /\ amount \in 1..margin[<<u, m>>]
    /\ margin' = [margin EXCEPT ![<<u, m>>] = 0]
    /\ Locked(u, -amount)
    /\ UNCHANGED <<ledgerConfig, relayerConfig, unclaimed, migrated, retired>>

\* Partial and full closes and liquidations.
Release(u, m, amount) ==
    /\ ledgerConfig # Absent
    /\ amount \in 1..margin[<<u, m>>]
    /\ margin' = [margin EXCEPT ![<<u, m>>] = @ - amount]
    /\ Locked(u, -amount)
    /\ UNCHANGED <<ledgerConfig, relayerConfig, unclaimed, migrated, retired>>

AdminResetPosition(by, u, m) ==
    /\ AdminOf(ledgerConfig, by)
    /\ unclaimed' = [unclaimed EXCEPT ![u] = @ + margin[<<u, m>>]]
    /\ unclaimed'[u] <= MaxMargin
    /\ margin' = [margin EXCEPT ![<<u, m>>] = 0]
    /\ UNCHANGED <<ledgerConfig, relayerConfig, vaultLocked, migrated, retired>>

-----------------------------------------------------------------------------
Next ==
    \/ \E by \in Keys, vault, fund \in Programs : Initialize(by, vault, fund)
    \/ \E by \in Keys, relayers \in SUBSET Keys, required \in 1..Cardinality(Keys) :
            InitializeRelayers(by, relayers, required)
    \/ \E by, relayer \in Keys : AddRelayer(by, relayer) \/ RemoveRelayer(by, relayer)
    \/ \E by \in Keys, required \in 1..Cardinality(Keys) : UpdateRequiredSignatures(by, required)
    \/ \E by, new \in Keys : UpdateAdmin(by, new)
    \/ \E by \in Keys, new \in Programs : UpdateVaultProgram(by, new) \/ UpdateFundProgram(by, new)
    \/ \E k \in Keys : Retire(k)
    \/ \E u \in Users, m \in Markets, amount \in 1..MaxMargin :
            Open(u, m, amount) \/ Release(u, m, amount)
    \/ \E u \in Users, m \in Markets, amount, fee \in 0..MaxMargin : BatchOpen(u, m, amount, fee)
    \/ \E by \in Keys, u \in Users, m \in Markets : AdminResetPosition(by, u, m)

Spec == Init /\ [][Next]_vars

-----------------------------------------------------------------------------
(* Properties *)

TypeOK ==
    /\ ledgerConfig \in LedgerConfig \cup {Absent}
    /\ relayerConfig \in RelayerConfig \cup {Absent}
    /\ margin \in [PositionIds -> 0..MaxMargin]
    /\ vaultLocked \in [Programs \X Users -> -MaxLocked..MaxLocked]
    /\ unclaimed \in [Users -> 0..MaxMargin]
    /\ migrated \in BOOLEAN
    /\ retired \in SUBSET Keys

\* What the user's positions show, resets left behind and opens in batches took as fee.
Claimed(u) == SumFunction([m \in Markets |-> margin[<<u, m>>]]) + unclaimed[u]

\* What all vaults together hold for the user.
Held(u) == SumFunction([v \in Programs |-> vaultLocked[<<v, u>>]])

\* Whatever vaults have been in charge, all vaults together hold for a user what the
\* positions show, resets left behind and opens in batches locked as fee: a change
\* of UpdateVaultProgram moves nothing, and nothing is locked or released twice
\* because of it.
MarginInSomeVault == \A u \in Users : Held(u) = Claimed(u)

\* As long as no vault was replaced that still held margin, the vault in charge can
\* pay back every position in full, and no other vault holds anything.  After
\* such a replacement closes draw on what other positions of the user locked.
VaultCoversUnlessMigrated ==
    ~migrated =>
        \A v \in Programs, u \in Users :
            vaultLocked[<<v, u>>] =
                IF ledgerConfig # Absent /\ ledgerConfig.vault_program = v
                THEN Claimed(u) ELSE 0

\* Once the key that created RelayerConfig signs no more, relayers and required
\* signatures are frozen, whoever the ledger was handed to: a quorum lost by then
\* is lost for good.
HandoverLeavesRelayers ==
    [][relayerConfig # Absent /\ relayerConfig.admin \in retired
         => relayerConfig' = relayerConfig]_vars
=============================================================================
