--------------------------- MODULE LedgerAdminProofs ---------------------------
(*****************************************************************************)
(* Theorems about LedgerAdmin: the configuration accounts stay well formed,  *)
(* the vaults together hold what is claimed of them, and the one in charge   *)
(* holds all of it unless it replaced one that was not empty.                *)
(*****************************************************************************)
EXTENDS LedgerAdmin, SumTheorems

LEMMA ConfigPresent ==
    TypeOK => /\ ledgerConfig # Absent => ledgerConfig \in LedgerConfig
              /\ relayerConfig # Absent => relayerConfig \in RelayerConfig
  BY DEF TypeOK

-----------------------------------------------------------------------------
(* What the handlers do to the sums *)

\* The margin of one position and what is unclaimed of its user change.
LEMMA ClaimMoved ==
    ASSUME TypeOK, TypeOK', NEW u \in Users, NEW m \in Markets, NEW q \in Int,
           margin' = [margin EXCEPT ![<<u, m>>] = q]
    PROVE  /\ Claimed(u)' = Claimed(u) + (q - margin[<<u, m>>]) + (unclaimed'[u] - unclaimed[u])
           /\ \A w \in Users : w # u /\ unclaimed'[w] = unclaimed[w] => Claimed(w)' = Claimed(w)
<1> DEFINE f == [n \in Markets |-> margin[<<u, n>>]]
           g == [n \in Markets |-> margin'[<<u, n>>]]
<1>1. \A w \in Users, n \in Markets :
        /\ margin[<<w, n>>] \in Int
        /\ margin'[<<w, n>>] \in Int
        /\ <<w, n>> # <<u, m>> => margin'[<<w, n>>] = margin[<<w, n>>]
  BY AdminAssumption DEF TypeOK, PositionIds
<1>2. g[m] = q /\ f[m] = margin[<<u, m>>]
  BY DEF TypeOK, PositionIds
<1>3. Updates(f, g, Markets, m)
  <2>1. Markets \cup {m} = Markets
    OBVIOUS
  <2>2. \A n \in Markets : f[n] \in Int /\ g[n] \in Int /\ (n # m => g[n] = f[n])
    BY <1>1
  <2>3. DOMAIN f = Markets /\ DOMAIN g = Markets
    OBVIOUS
  <2> HIDE DEF f, g
  <2>4. QED
    BY <2>1, <2>2, <2>3, AdminAssumption DEF Updates
<1>4. unclaimed[u] \in Int /\ unclaimed'[u] \in Int
  BY AdminAssumption DEF TypeOK
<1>5. Claimed(u) = SumFunction(f) + unclaimed[u] /\ Claimed(u)' = SumFunction(g) + unclaimed'[u]
  BY DEF Claimed
<1>6. Claimed(u)' = Claimed(u) + (q - margin[<<u, m>>]) + (unclaimed'[u] - unclaimed[u])
  <2> HIDE DEF f, g
  <2>1. SumFunction(g) = SumFunction(f) + (g[m] - f[m])
    BY <1>3, TableUpdated
  <2>2. SumFunction(f) \in Int
    BY <1>3, SumIsInt DEF Updates, SumFunction
  <2>3. margin[<<u, m>>] \in Int
    BY <1>1
  <2>4. QED
    BY <1>2, <1>4, <1>5, <2>1, <2>2, <2>3
<1>7. ASSUME NEW w \in Users, w # u, unclaimed'[w] = unclaimed[w]
      PROVE  Claimed(w)' = Claimed(w)
  <2>1. [n \in Markets |-> margin'[<<w, n>>]] = [n \in Markets |-> margin[<<w, n>>]]
    BY <1>1, <1>7
  <2>2. QED
    BY <1>7, <2>1 DEF Claimed
<1>8. QED
  BY <1>6, <1>7

\* What a vault holds for one user changes.
LEMMA HeldMoved ==
    ASSUME TypeOK, TypeOK', NEW v \in Programs, NEW u \in Users, NEW amount \in Int,
           vaultLocked' = [vaultLocked EXCEPT ![<<v, u>>] = @ + amount]
    PROVE  /\ Held(u)' = Held(u) + amount
           /\ \A w \in Users : w # u => Held(w)' = Held(w)
<1> DEFINE f == [p \in Programs |-> vaultLocked[<<p, u>>]]
           g == [p \in Programs |-> vaultLocked'[<<p, u>>]]
<1>1. \A p \in Programs, w \in Users :
        /\ vaultLocked[<<p, w>>] \in Int
        /\ vaultLocked'[<<p, w>>] \in Int
        /\ <<p, w>> # <<v, u>> => vaultLocked'[<<p, w>>] = vaultLocked[<<p, w>>]
  BY AdminAssumption DEF TypeOK
<1>2. g[v] = f[v] + amount
  BY DEF TypeOK
<1>3. Updates(f, g, Programs, v)
  <2>1. Programs \cup {v} = Programs
    OBVIOUS
  <2>2. \A p \in Programs : f[p] \in Int /\ g[p] \in Int /\ (p # v => g[p] = f[p])
    BY <1>1
  <2>3. DOMAIN f = Programs /\ DOMAIN g = Programs
    OBVIOUS
  <2> HIDE DEF f, g
  <2>4. QED
    BY <2>1, <2>2, <2>3, AdminAssumption DEF Updates
<1>4. Held(u) = SumFunction(f) /\ Held(u)' = SumFunction(g)
  BY DEF Held
<1>5. Held(u)' = Held(u) + amount
  <2> HIDE DEF f, g
  <2>1. SumFunction(g) = SumFunction(f) + (g[v] - f[v])
    BY <1>3, TableUpdated
  <2>2. SumFunction(f) \in Int /\ f[v] \in Int
    BY <1>3, SumIsInt DEF Updates, SumFunction
  <2>3. QED
    BY <1>2, <1>4, <2>1, <2>2
<1>6. ASSUME NEW w \in Users, w # u PROVE Held(w)' = Held(w)
  <2>1. [p \in Programs |-> vaultLocked'[<<p, w>>]] = [p \in Programs |-> vaultLocked[<<p, w>>]]
    BY <1>1, <1>6
  <2>2. QED
    BY <2>1 DEF Held
<1>7. QED
  BY <1>5, <1>6

\* Where neither changes the sums stay.
LEMMA SumsKept ==
    ASSUME UNCHANGED <<margin, vaultLocked, unclaimed>>
    PROVE  \A u \in Users : Claimed(u)' = Claimed(u) /\ Held(u)' = Held(u)
  BY DEF Claimed, Held

-----------------------------------------------------------------------------
(* Types *)

LEMMA RelayersTyped ==
    ASSUME TypeOK, relayerConfig # Absent, NEW R \in SUBSET Keys,
           Cardinality(R) <= MAX_RELAYERS,
           relayerConfig' = [relayerConfig EXCEPT !.authorized_relayers = R]
    PROVE  relayerConfig' \in RelayerConfig
  BY ConfigPresent DEF RelayerConfig

LEMMA CardinalityType ==
    ASSUME NEW R \in SUBSET Keys
    PROVE  IsFiniteSet(R) /\ Cardinality(R) \in Nat
<1>1. IsFiniteSet(R)
  BY AdminAssumption, FS_Subset
<1>2. QED
  BY <1>1, FS_CardinalityType

LEMMA NextTyped == TypeOK /\ [Next]_vars => TypeOK'
<1> SUFFICES ASSUME TypeOK, [Next]_vars PROVE TypeOK'
  OBVIOUS
<1>a. relayerConfig # Absent =>
        /\ relayerConfig \in RelayerConfig
        /\ relayerConfig.authorized_relayers \in SUBSET Keys
        /\ Cardinality(relayerConfig.authorized_relayers) <= MAX_RELAYERS
  BY ConfigPresent DEF RelayerConfig
<1>1. ASSUME NEW by \in Keys, NEW vault \in Programs, NEW fund \in Programs,
             Initialize(by, vault, fund)
      PROVE  TypeOK'
  BY <1>1 DEF TypeOK, Initialize, custody, LedgerConfig
<1>2. ASSUME NEW by \in Keys, NEW relayers \in SUBSET Keys, NEW required \in 1..Cardinality(Keys),
             InitializeRelayers(by, relayers, required)
      PROVE  TypeOK'
  <2>1. Cardinality(relayers) \in Nat /\ MAX_RELAYERS \in Nat
    BY CardinalityType, AdminAssumption
  <2>2. required \in 1..MAX_RELAYERS /\ Cardinality(relayers) <= MAX_RELAYERS
    BY <1>2, <2>1 DEF InitializeRelayers
  <2>3. relayerConfig' \in RelayerConfig
    BY <1>2, <2>2 DEF InitializeRelayers, RelayerConfig
  <2>4. QED
    BY <1>2, <2>3 DEF TypeOK, InitializeRelayers, custody
<1>3. ASSUME NEW by \in Keys, NEW relayer \in Keys, AddRelayer(by, relayer)
      PROVE  TypeOK'
  <2> DEFINE R == relayerConfig.authorized_relayers
  <2>1. R \in SUBSET Keys /\ Cardinality(R) < MAX_RELAYERS /\ relayerConfig # Absent
    BY <1>a, <1>3 DEF AddRelayer, ManagesRelayers, AdminOf
  <2>2. R \cup {relayer} \in SUBSET Keys /\ Cardinality(R \cup {relayer}) <= MAX_RELAYERS
    <3> HIDE DEF R
    <3>1. Cardinality(R) \in Nat /\ IsFiniteSet(R) /\ MAX_RELAYERS \in Nat
      BY <2>1, CardinalityType, AdminAssumption
    <3>2. \/ Cardinality(R \cup {relayer}) = Cardinality(R)
          \/ Cardinality(R \cup {relayer}) = Cardinality(R) + 1
      BY <3>1, FS_AddElement
    <3>3. QED
      BY <2>1, <3>1, <3>2
  <2>3. relayerConfig' = [relayerConfig EXCEPT !.authorized_relayers = R \cup {relayer}]
    BY <1>3 DEF AddRelayer
  <2> HIDE DEF R
  <2>4. relayerConfig' \in RelayerConfig
    BY <2>1, <2>2, <2>3, RelayersTyped
  <2>5. QED
    BY <1>3, <2>4 DEF TypeOK, AddRelayer, custody
<1>4. ASSUME NEW by \in Keys, NEW relayer \in Keys, RemoveRelayer(by, relayer)
      PROVE  TypeOK'
  <2> DEFINE R == relayerConfig.authorized_relayers
  <2>1. R \in SUBSET Keys /\ Cardinality(R) <= MAX_RELAYERS /\ relayerConfig # Absent
    BY <1>a, <1>4 DEF RemoveRelayer, ManagesRelayers, AdminOf
  <2>2. R \ {relayer} \in SUBSET Keys /\ Cardinality(R \ {relayer}) <= MAX_RELAYERS
    <3> HIDE DEF R
    <3>1. Cardinality(R) \in Nat /\ IsFiniteSet(R) /\ MAX_RELAYERS \in Nat
      BY <2>1, CardinalityType, AdminAssumption
    <3>2. R \ {relayer} \in SUBSET R
      OBVIOUS
    <3>3. Cardinality(R \ {relayer}) \in Nat /\ Cardinality(R \ {relayer}) <= Cardinality(R)
      BY <2>1, <3>1, <3>2, FS_Subset, CardinalityType
    <3>4. QED
      BY <2>1, <3>1, <3>3
  <2>3. relayerConfig' = [relayerConfig EXCEPT !.authorized_relayers = R \ {relayer}]
    BY <1>4 DEF RemoveRelayer
  <2> HIDE DEF R
  <2>4. relayerConfig' \in RelayerConfig
    BY <2>1, <2>2, <2>3, RelayersTyped
  <2>5. QED
    BY <1>4, <2>4 DEF TypeOK, RemoveRelayer, custody
<1>5. ASSUME NEW by \in Keys, NEW required \in 1..Cardinality(Keys),
             UpdateRequiredSignatures(by, required)
      PROVE  TypeOK'
  <2> DEFINE R == relayerConfig.authorized_relayers
  <2>1. R \in SUBSET Keys /\ Cardinality(R) <= MAX_RELAYERS /\ relayerConfig \in RelayerConfig
    BY <1>a, <1>5 DEF UpdateRequiredSignatures, ManagesRelayers, AdminOf
  <2>2. required \in 1..Cardinality(R)
    BY <1>5 DEF UpdateRequiredSignatures
  <2>3. Cardinality(R) \in Nat /\ MAX_RELAYERS \in Nat
    BY <2>1, CardinalityType, AdminAssumption
  <2>4. required \in 1..MAX_RELAYERS
    <3> HIDE DEF R
    <3>1. QED
      BY <2>1, <2>2, <2>3
  <2>5. relayerConfig' \in RelayerConfig
    BY <1>5, <2>1, <2>4 DEF UpdateRequiredSignatures, RelayerConfig
  <2>6. QED
    BY <1>5, <2>5 DEF TypeOK, UpdateRequiredSignatures, custody
<1>6. ASSUME NEW by \in Keys, NEW new \in Keys, UpdateAdmin(by, new)
      PROVE  TypeOK'
  <2>1. ledgerConfig' \in LedgerConfig
    BY <1>6, ConfigPresent DEF UpdateAdmin, AdminOf, LedgerConfig
  <2>2. QED
    BY <1>6, <2>1 DEF TypeOK, UpdateAdmin, custody
<1>7. ASSUME NEW by \in Keys, NEW new \in Programs, UpdateVaultProgram(by, new)
      PROVE  TypeOK'
  <2>1. ledgerConfig' \in LedgerConfig
    BY <1>7, ConfigPresent DEF UpdateVaultProgram, AdminOf, LedgerConfig
  <2>2. migrated' \in BOOLEAN
    BY <1>7 DEF TypeOK, UpdateVaultProgram
  <2>3. QED
    BY <1>7, <2>1, <2>2 DEF TypeOK, UpdateVaultProgram
<1>8. ASSUME NEW by \in Keys, NEW new \in Programs, UpdateFundProgram(by, new)
      PROVE  TypeOK'
  <2>1. ledgerConfig' \in LedgerConfig
    BY <1>8, ConfigPresent DEF UpdateFundProgram, AdminOf, LedgerConfig
  <2>2. QED
    BY <1>8, <2>1 DEF TypeOK, UpdateFundProgram, custody
<1>9. ASSUME NEW k \in Keys, Retire(k)
      PROVE  TypeOK'
  BY <1>9 DEF TypeOK, Retire, custody
<1>10. ASSUME NEW u \in Users, NEW m \in Markets, NEW amount \in 1..MaxMargin,
              Open(u, m, amount) \/ Release(u, m, amount)
       PROVE  TypeOK'
  <2>1. <<u, m>> \in PositionIds /\ margin[<<u, m>>] \in 0..MaxMargin /\ MaxMargin \in Nat
    BY AdminAssumption DEF TypeOK, PositionIds
  <2>2. ledgerConfig # Absent /\ ledgerConfig.vault_program \in Programs
    BY <1>10, ConfigPresent DEF Open, Release, LedgerConfig
  <2>3. margin' \in [PositionIds -> 0..MaxMargin]
    BY <1>10, <2>1 DEF TypeOK, Open, Release
  <2>4. vaultLocked' \in [Programs \X Users -> -MaxLocked..MaxLocked]
    BY <1>10, <2>2 DEF TypeOK, Open, Release, Locked
  <2>5. UNCHANGED <<ledgerConfig, relayerConfig, unclaimed, migrated, retired>>
    BY <1>10 DEF Open, Release
  <2>6. QED
    BY <2>3, <2>4, <2>5 DEF TypeOK
<1>10a. ASSUME NEW u \in Users, NEW m \in Markets, NEW amount \in 0..MaxMargin,
               NEW fee \in 0..MaxMargin, BatchOpen(u, m, amount, fee)
        PROVE  TypeOK'
  <2>1. /\ <<u, m>> \in PositionIds /\ margin[<<u, m>>] \in 0..MaxMargin
        /\ unclaimed[u] \in 0..MaxMargin
        /\ MaxMargin \in Nat /\ amount \in Nat /\ fee \in Nat
    BY AdminAssumption DEF TypeOK, PositionIds
  <2>2. ledgerConfig # Absent /\ ledgerConfig.vault_program \in Programs
    BY <1>10a, ConfigPresent DEF BatchOpen, LedgerConfig
  <2>3. margin' \in [PositionIds -> 0..MaxMargin]
    <3>1. margin[<<u, m>>] + amount \in 0..MaxMargin
      BY <1>10a, <2>1 DEF BatchOpen
    <3>2. QED
      BY <1>10a, <2>1, <3>1 DEF TypeOK, BatchOpen
  <2>4. unclaimed' \in [Users -> 0..MaxMargin]
    <3>1. unclaimed[u] + fee \in 0..MaxMargin
      BY <1>10a, <2>1 DEF BatchOpen
    <3>2. QED
      BY <1>10a, <3>1 DEF TypeOK, BatchOpen
  <2>5. vaultLocked' \in [Programs \X Users -> -MaxLocked..MaxLocked]
    BY <1>10a, <2>2 DEF TypeOK, BatchOpen, Locked
  <2>6. UNCHANGED <<ledgerConfig, relayerConfig, migrated, retired>>
    BY <1>10a DEF BatchOpen
  <2>7. QED
    BY <2>3, <2>4, <2>5, <2>6 DEF TypeOK
<1>11. ASSUME NEW by \in Keys, NEW u \in Users, NEW m \in Markets, AdminResetPosition(by, u, m)
       PROVE  TypeOK'
  <2>1. <<u, m>> \in PositionIds /\ margin[<<u, m>>] \in 0..MaxMargin /\ MaxMargin \in Nat
        /\ unclaimed[u] \in 0..MaxMargin
    BY AdminAssumption DEF TypeOK, PositionIds
  <2>2. margin' \in [PositionIds -> 0..MaxMargin]
    BY <1>11, <2>1 DEF TypeOK, AdminResetPosition
  <2>3. unclaimed' \in [Users -> 0..MaxMargin]
    <3>1. unclaimed' = [unclaimed EXCEPT ![u] = @ + margin[<<u, m>>]]
          /\ unclaimed'[u] <= MaxMargin
      BY <1>11 DEF AdminResetPosition
    <3>2. unclaimed'[u] = unclaimed[u] + margin[<<u, m>>]
      BY <3>1 DEF TypeOK
    <3>3. unclaimed[u] + margin[<<u, m>>] \in 0..MaxMargin
      BY <2>1, <3>1, <3>2
    <3>4. QED
      BY <3>1, <3>3 DEF TypeOK
  <2>4. QED
    BY <1>11, <2>2, <2>3 DEF TypeOK, AdminResetPosition
<1>12. CASE UNCHANGED vars
  BY <1>12 DEF TypeOK, vars
<1>13. QED
  BY <1>1, <1>2, <1>3, <1>4, <1>5, <1>6, <1>7, <1>8, <1>9, <1>10, <1>10a, <1>11, <1>12 DEF Next

-----------------------------------------------------------------------------
(* The inductive invariant *)

AdminInv == TypeOK /\ MarginInSomeVault /\ VaultCoversUnlessMigrated

LEMMA SumTypes ==
    TypeOK => \A u \in Users : Claimed(u) \in Int /\ Held(u) \in Int
<1> SUFFICES ASSUME TypeOK, NEW u \in Users PROVE Claimed(u) \in Int /\ Held(u) \in Int
  OBVIOUS
<1> DEFINE f == [m \in Markets |-> margin[<<u, m>>]]
           g == [v \in Programs |-> vaultLocked[<<v, u>>]]
<1>1. /\ DOMAIN f = Markets /\ \A m \in Markets : f[m] \in Int
      /\ DOMAIN g = Programs /\ \A v \in Programs : g[v] \in Int
      /\ unclaimed[u] \in Int
  BY AdminAssumption DEF TypeOK, PositionIds
<1>2. Claimed(u) = SumFunction(f) + unclaimed[u] /\ Held(u) = SumFunction(g)
  BY DEF Claimed, Held
<1> HIDE DEF f, g
<1>3. SumFunction(f) \in Int /\ SumFunction(g) \in Int
  BY <1>1, AdminAssumption, SumIsInt DEF SumFunction
<1>4. QED
  BY <1>1, <1>2, <1>3

\* Where all vaults are empty nothing is claimed.
LEMMA NothingHeld ==
    ASSUME MarginInSomeVault, NEW u \in Users,
           \A v \in Programs : vaultLocked[<<v, u>>] = 0
    PROVE  Claimed(u) = 0
<1>1. Held(u) = 0
  BY AdminAssumption, SumZero DEF Held, SumFunction
<1>2. QED
  BY <1>1 DEF MarginInSomeVault

\* A lock or release of d units with the vault of the moment.
Moved(u, d) ==
    /\ ledgerConfig # Absent
    /\ ledgerConfig.vault_program \in Programs
    /\ vaultLocked' = [vaultLocked EXCEPT ![<<ledgerConfig.vault_program, u>>] = @ + d]
    /\ Claimed(u)' = Claimed(u) + d
    /\ \A w \in Users : w # u => Claimed(w)' = Claimed(w)
    /\ UNCHANGED <<ledgerConfig, migrated>>

LEMMA MovedInv ==
    ASSUME AdminInv, TypeOK', NEW u \in Users, NEW d \in Int, Moved(u, d)
    PROVE  AdminInv'
<1> DEFINE v == ledgerConfig.vault_program
<1>1. TypeOK /\ v \in Programs
  BY DEF AdminInv, Moved
<1>2. vaultLocked' = [vaultLocked EXCEPT ![<<v, u>>] = @ + d]
  BY DEF Moved
<1>3. MarginInSomeVault'
  <2>1. Held(u)' = Held(u) + d /\ \A w \in Users : w # u => Held(w)' = Held(w)
    <3> HIDE DEF v
    <3>1. QED
      BY <1>1, <1>2, HeldMoved
  <2>2. QED
    BY <2>1 DEF AdminInv, MarginInSomeVault, Moved
<1>4. VaultCoversUnlessMigrated'
  <2> SUFFICES ASSUME ~migrated, NEW p \in Programs, NEW w \in Users
               PROVE  vaultLocked'[<<p, w>>] = IF v = p THEN Claimed(w)' ELSE 0
    BY DEF VaultCoversUnlessMigrated, Moved
  <2>1. vaultLocked[<<p, w>>] = IF v = p THEN Claimed(w) ELSE 0
    BY DEF AdminInv, VaultCoversUnlessMigrated, Moved
  <2>2. CASE p = v /\ w = u
    <3>1. vaultLocked'[<<p, w>>] = vaultLocked[<<p, w>>] + d
      BY <1>1, <1>2, <2>2 DEF TypeOK
    <3>2. QED
      BY <2>1, <2>2, <3>1 DEF Moved
  <2>3. CASE ~(p = v /\ w = u)
    <3>1. vaultLocked'[<<p, w>>] = vaultLocked[<<p, w>>]
      BY <1>1, <1>2, <2>3 DEF TypeOK
    <3>2. QED
      BY <2>1, <2>3, <3>1 DEF Moved
  <2>4. QED
    BY <2>2, <2>3
<1>5. QED
  BY <1>3, <1>4 DEF AdminInv

\* A step that moves no margin and leaves the vault in charge.
LEMMA KeptInv ==
    ASSUME AdminInv, TypeOK', UNCHANGED <<vaultLocked, migrated>>,
           \A u \in Users : Claimed(u)' = Claimed(u),
           (ledgerConfig # Absent) = (ledgerConfig' # Absent),
           ledgerConfig # Absent => ledgerConfig'.vault_program = ledgerConfig.vault_program
    PROVE  AdminInv'
<1>1. \A u \in Users : Held(u)' = Held(u)
  BY DEF Held
<1>2. MarginInSomeVault'
  BY <1>1 DEF AdminInv, MarginInSomeVault
<1>3. VaultCoversUnlessMigrated'
  BY DEF AdminInv, VaultCoversUnlessMigrated
<1>4. QED
  BY <1>2, <1>3 DEF AdminInv

LEMMA InitializeInv ==
    ASSUME AdminInv, TypeOK', NEW by \in Keys, NEW vault \in Programs, NEW fund \in Programs,
           Initialize(by, vault, fund)
    PROVE  AdminInv'
<1>1. UNCHANGED <<margin, vaultLocked, unclaimed, migrated>> /\ ledgerConfig = Absent
  BY DEF Initialize, custody
<1>2. \A u \in Users : Claimed(u)' = Claimed(u) /\ Held(u)' = Held(u)
  BY <1>1, SumsKept
<1>3. MarginInSomeVault'
  BY <1>2 DEF AdminInv, MarginInSomeVault
<1>4. VaultCoversUnlessMigrated'
  <2> SUFFICES ASSUME ~migrated, NEW v \in Programs, NEW u \in Users
               PROVE  vaultLocked[<<v, u>>] = 0 /\ Claimed(u)' = 0
    BY <1>1 DEF VaultCoversUnlessMigrated
  <2>1. \A p \in Programs : vaultLocked[<<p, u>>] = 0
    BY <1>1 DEF AdminInv, VaultCoversUnlessMigrated
  <2>2. Claimed(u) = 0
    BY <2>1, NothingHeld DEF AdminInv
  <2>3. QED
    BY <1>2, <2>1, <2>2
<1>5. QED
  BY <1>3, <1>4 DEF AdminInv

\* The old vault may go unless it holds something; then no other holds anything, and
\* the new one covers what is claimed, nothing.
LEMMA UpdateVaultProgramInv ==
    ASSUME AdminInv, TypeOK', NEW by \in Keys, NEW new \in Programs,
           UpdateVaultProgram(by, new)
    PROVE  AdminInv'
<1>1. UNCHANGED <<margin, vaultLocked, unclaimed>> /\ ledgerConfig # Absent
  BY DEF UpdateVaultProgram, AdminOf
<1>2. \A u \in Users : Claimed(u)' = Claimed(u) /\ Held(u)' = Held(u)
  BY <1>1, SumsKept
<1>3. MarginInSomeVault'
  BY <1>2 DEF AdminInv, MarginInSomeVault
<1>4. VaultCoversUnlessMigrated'
  <2> SUFFICES ASSUME ~migrated', NEW v \in Programs, NEW u \in Users
               PROVE  vaultLocked[<<v, u>>] = 0 /\ Claimed(u)' = 0
    BY <1>1 DEF VaultCoversUnlessMigrated
  <2>1. ~migrated /\ vaultLocked[<<ledgerConfig.vault_program, u>>] = 0
    BY DEF UpdateVaultProgram
  <2>2. \A p \in Programs : vaultLocked[<<p, u>>] = 0
    BY <2>1 DEF AdminInv, VaultCoversUnlessMigrated
  <2>3. Claimed(u) = 0
    BY <2>2, NothingHeld DEF AdminInv
  <2>4. QED
    BY <1>2, <2>2, <2>3
<1>5. QED
  BY <1>3, <1>4 DEF AdminInv

LEMMA OpenInv ==
    ASSUME AdminInv, TypeOK', NEW u \in Users, NEW m \in Markets, NEW amount \in Int,
           ledgerConfig # Absent,
           margin' = [margin EXCEPT ![<<u, m>>] = margin[<<u, m>>] + amount],
           vaultLocked'
             = [vaultLocked EXCEPT ![<<ledgerConfig.vault_program, u>>] = @ + amount],
           UNCHANGED <<ledgerConfig, relayerConfig, unclaimed, migrated, retired>>
    PROVE  AdminInv'
<1> DEFINE q == margin[<<u, m>>] + amount
<1>1. TypeOK /\ margin[<<u, m>>] \in Int /\ unclaimed[u] \in Int /\ Claimed(u) \in Int
  BY AdminAssumption, SumTypes DEF AdminInv, TypeOK, PositionIds
<1>2. q \in Int /\ q - margin[<<u, m>>] = amount /\ unclaimed'[u] - unclaimed[u] = 0
  BY <1>1
<1>3. margin' = [margin EXCEPT ![<<u, m>>] = q]
  OBVIOUS
<1> HIDE DEF q
<1>4. /\ Claimed(u)' = Claimed(u) + (q - margin[<<u, m>>]) + (unclaimed'[u] - unclaimed[u])
      /\ \A w \in Users : w # u /\ unclaimed'[w] = unclaimed[w] => Claimed(w)' = Claimed(w)
  BY <1>1, <1>2, <1>3, ClaimMoved
<1>5. Claimed(u)' = Claimed(u) + amount /\ \A w \in Users : w # u => Claimed(w)' = Claimed(w)
  BY <1>1, <1>2, <1>4
<1>6. ledgerConfig.vault_program \in Programs
  BY <1>1, ConfigPresent DEF LedgerConfig
<1>7. Moved(u, amount)
  BY <1>5, <1>6 DEF Moved
<1>8. QED
  BY <1>7, MovedInv

\* The fee of an open in a batch is locked and claimed by no position.
LEMMA BatchOpenInv ==
    ASSUME AdminInv, TypeOK', NEW u \in Users, NEW m \in Markets, NEW amount \in 0..MaxMargin,
           NEW fee \in 0..MaxMargin, BatchOpen(u, m, amount, fee)
    PROVE  AdminInv'
<1> DEFINE q == margin[<<u, m>>] + amount
           total == amount + fee
<1>1. /\ TypeOK /\ margin[<<u, m>>] \in Int /\ unclaimed[u] \in Int /\ Claimed(u) \in Int
      /\ amount \in Int /\ fee \in Int
  BY AdminAssumption, SumTypes DEF AdminInv, TypeOK, PositionIds
<1>2. /\ margin' = [margin EXCEPT ![<<u, m>>] = q]
      /\ unclaimed' = [unclaimed EXCEPT ![u] = @ + fee]
      /\ vaultLocked' = [vaultLocked EXCEPT ![<<ledgerConfig.vault_program, u>>] = @ + total]
      /\ ledgerConfig # Absent
      /\ UNCHANGED <<ledgerConfig, migrated>>
  BY DEF BatchOpen, Locked
<1>3. /\ unclaimed'[u] = unclaimed[u] + fee
      /\ \A w \in Users : w # u => unclaimed'[w] = unclaimed[w]
  BY <1>1, <1>2 DEF TypeOK
<1>4. q \in Int /\ q - margin[<<u, m>>] = amount /\ total \in Int /\ total = amount + fee
  BY <1>1
<1>5. unclaimed'[u] - unclaimed[u] = fee
  BY <1>1, <1>3
<1> HIDE DEF q, total
<1>6. /\ Claimed(u)' = Claimed(u) + (q - margin[<<u, m>>]) + (unclaimed'[u] - unclaimed[u])
      /\ \A w \in Users : w # u /\ unclaimed'[w] = unclaimed[w] => Claimed(w)' = Claimed(w)
  BY <1>1, <1>2, <1>4, ClaimMoved
<1>7. Claimed(u)' = Claimed(u) + total /\ \A w \in Users : w # u => Claimed(w)' = Claimed(w)
  BY <1>1, <1>3, <1>4, <1>5, <1>6
<1>8. ledgerConfig.vault_program \in Programs
  BY <1>1, <1>2, ConfigPresent DEF LedgerConfig
<1>9. Moved(u, total)
  BY <1>2, <1>7, <1>8 DEF Moved
<1>10. QED
  BY <1>4, <1>9, MovedInv

\* What a reset takes from the position the user leaves unclaimed.
LEMMA AdminResetPositionInv ==
    ASSUME AdminInv, TypeOK', NEW by \in Keys, NEW u \in Users, NEW m \in Markets,
           AdminResetPosition(by, u, m)
    PROVE  AdminInv'
<1>1. TypeOK /\ margin[<<u, m>>] \in Int /\ unclaimed[u] \in Int /\ Claimed(u) \in Int
  BY AdminAssumption, SumTypes DEF AdminInv, TypeOK, PositionIds
<1>2. /\ margin' = [margin EXCEPT ![<<u, m>>] = 0]
      /\ unclaimed' = [unclaimed EXCEPT ![u] = @ + margin[<<u, m>>]]
      /\ UNCHANGED <<ledgerConfig, vaultLocked, migrated>>
  BY DEF AdminResetPosition
<1>3. /\ unclaimed'[u] = unclaimed[u] + margin[<<u, m>>]
      /\ \A w \in Users : w # u => unclaimed'[w] = unclaimed[w]
  BY <1>1, <1>2 DEF TypeOK
<1>4. /\ Claimed(u)' = Claimed(u) + (0 - margin[<<u, m>>]) + (unclaimed'[u] - unclaimed[u])
      /\ \A w \in Users : w # u /\ unclaimed'[w] = unclaimed[w] => Claimed(w)' = Claimed(w)
  <2>1. 0 \in Int
    OBVIOUS
  <2>2. QED
    BY <1>1, <1>2, <2>1, ClaimMoved
<1>5. Claimed(u)' = Claimed(u)
  BY <1>1, <1>3, <1>4
<1>6. \A w \in Users : Claimed(w)' = Claimed(w)
  BY <1>3, <1>4, <1>5
<1>7. QED
  BY <1>2, <1>6, KeptInv

LEMMA InitInv == Init => AdminInv
<1> SUFFICES ASSUME Init PROVE AdminInv
  OBVIOUS
<1>1. TypeOK
  <2>1. 0 \in 0..MaxMargin /\ 0 \in -MaxLocked..MaxLocked
    BY AdminAssumption
  <2>2. QED
    BY <2>1 DEF Init, TypeOK
<1>2. \A u \in Users : Claimed(u) = 0 /\ Held(u) = 0
  <2> SUFFICES ASSUME NEW u \in Users PROVE Claimed(u) = 0 /\ Held(u) = 0
    OBVIOUS
  <2>1. SumFunction([m \in Markets |-> margin[<<u, m>>]]) = 0
    BY AdminAssumption, SumZero DEF Init, SumFunction, PositionIds
  <2>2. SumFunction([v \in Programs |-> vaultLocked[<<v, u>>]]) = 0
    BY AdminAssumption, SumZero DEF Init, SumFunction
  <2>3. QED
    BY <2>1, <2>2 DEF Init, Claimed, Held
<1>3. MarginInSomeVault
  BY <1>2 DEF MarginInSomeVault
<1>4. VaultCoversUnlessMigrated
  BY DEF Init, VaultCoversUnlessMigrated
<1>5. QED
  BY <1>1, <1>3, <1>4 DEF AdminInv

LEMMA NextInv == AdminInv /\ [Next]_vars => AdminInv'
<1> SUFFICES ASSUME AdminInv, [Next]_vars PROVE AdminInv'
  OBVIOUS
<1>0. TypeOK /\ TypeOK'
  BY NextTyped DEF AdminInv
<1>a. ASSUME UNCHANGED <<ledgerConfig, custody>> PROVE AdminInv'
  <2>1. \A u \in Users : Claimed(u)' = Claimed(u)
    BY <1>a, SumsKept DEF custody
  <2>2. QED
    BY <1>0, <1>a, <2>1, KeptInv DEF custody
<1>1. CASE \E by \in Keys, vault, fund \in Programs : Initialize(by, vault, fund)
  BY <1>0, <1>1, InitializeInv
<1>2. CASE \E by \in Keys, relayers \in SUBSET Keys, required \in 1..Cardinality(Keys) :
              InitializeRelayers(by, relayers, required)
  BY <1>2, <1>a DEF InitializeRelayers
<1>3. CASE \E by, relayer \in Keys : AddRelayer(by, relayer) \/ RemoveRelayer(by, relayer)
  BY <1>3, <1>a DEF AddRelayer, RemoveRelayer
<1>4. CASE \E by \in Keys, required \in 1..Cardinality(Keys) :
              UpdateRequiredSignatures(by, required)
  BY <1>4, <1>a DEF UpdateRequiredSignatures
<1>b. ASSUME UNCHANGED custody, ledgerConfig # Absent, ledgerConfig' # Absent,
             ledgerConfig'.vault_program = ledgerConfig.vault_program
      PROVE  AdminInv'
  <2>1. \A u \in Users : Claimed(u)' = Claimed(u)
    BY <1>b, SumsKept DEF custody
  <2>2. QED
    BY <1>0, <1>b, <2>1, KeptInv DEF custody
<1>5. CASE \E by, new \in Keys : UpdateAdmin(by, new)
  <2>1. PICK by \in Keys, new \in Keys : UpdateAdmin(by, new)
    BY <1>5
  <2>2. ledgerConfig \in LedgerConfig /\ ledgerConfig # Absent
    BY <1>0, <2>1, ConfigPresent DEF UpdateAdmin, AdminOf
  <2>3. /\ ledgerConfig' \in LedgerConfig
        /\ ledgerConfig'.vault_program = ledgerConfig.vault_program
    BY <2>1, <2>2 DEF UpdateAdmin, LedgerConfig
  <2>4. QED
    BY <1>b, <2>1, <2>2, <2>3, AdminAssumption DEF UpdateAdmin
<1>6. CASE \E by \in Keys, new \in Programs : UpdateVaultProgram(by, new)
  BY <1>0, <1>6, UpdateVaultProgramInv
<1>7. CASE \E by \in Keys, new \in Programs : UpdateFundProgram(by, new)
  <2>1. PICK by \in Keys, new \in Programs : UpdateFundProgram(by, new)
    BY <1>7
  <2>2. ledgerConfig \in LedgerConfig /\ ledgerConfig # Absent
    BY <1>0, <2>1, ConfigPresent DEF UpdateFundProgram, AdminOf
  <2>3. /\ ledgerConfig' \in LedgerConfig
        /\ ledgerConfig'.vault_program = ledgerConfig.vault_program
    BY <2>1, <2>2 DEF UpdateFundProgram, LedgerConfig
  <2>4. QED
    BY <1>b, <2>1, <2>2, <2>3, AdminAssumption DEF UpdateFundProgram
<1>8. CASE \E k \in Keys : Retire(k)
  BY <1>8, <1>a DEF Retire
<1>9. CASE \E u \in Users, m \in Markets, amount \in 1..MaxMargin : Open(u, m, amount)
  <2>1. PICK u \in Users, m \in Markets, amount \in 1..MaxMargin : Open(u, m, amount)
    BY <1>9
  <2>2. amount \in Int
    BY AdminAssumption
  <2>3. QED
    BY <1>0, <2>1, <2>2, OpenInv DEF Open, Locked
<1>10. CASE \E u \in Users, m \in Markets, amount \in 1..MaxMargin : Release(u, m, amount)
  <2>1. PICK u \in Users, m \in Markets, amount \in 1..MaxMargin : Release(u, m, amount)
    BY <1>10
  <2>2. -amount \in Int /\ margin[<<u, m>>] - amount = margin[<<u, m>>] + (-amount)
    <3>1. amount \in Int /\ margin[<<u, m>>] \in Int
      BY <1>0, AdminAssumption DEF TypeOK, PositionIds
    <3>2. QED
      BY <3>1
  <2>3. margin' = [margin EXCEPT ![<<u, m>>] = margin[<<u, m>>] + (-amount)]
    BY <2>1, <2>2 DEF Release
  <2>4. QED
    BY <1>0, <2>1, <2>2, <2>3, OpenInv DEF Release, Locked
<1>10a. CASE \E u \in Users, m \in Markets, amount, fee \in 0..MaxMargin :
                BatchOpen(u, m, amount, fee)
  BY <1>0, <1>10a, BatchOpenInv
<1>11. CASE \E by \in Keys, u \in Users, m \in Markets : AdminResetPosition(by, u, m)
  BY <1>0, <1>11, AdminResetPositionInv
<1>12. CASE UNCHANGED vars
  BY <1>12, <1>a DEF vars, custody
<1>13. QED
  BY <1>1, <1>2, <1>3, <1>4, <1>5, <1>6, <1>7, <1>8, <1>9, <1>10, <1>10a, <1>11,
     <1>12 DEF Next

-----------------------------------------------------------------------------
(* Theorems *)

LEMMA Invariance == Spec => []AdminInv
<1>1. Init => AdminInv
  BY InitInv
<1>2. AdminInv /\ [Next]_vars => AdminInv'
  BY NextInv
<1>3. QED
  BY <1>1, <1>2, PTL DEF Spec

\* The configuration accounts are well formed: the required number of signatures and
\* the list of relayers stay within the limits of the account.
THEOREM TypeCorrect == Spec => []TypeOK
<1>1. AdminInv => TypeOK
  BY DEF AdminInv
<1>2. QED
  BY <1>1, Invariance, PTL

\* Whatever vaults UpdateVaultProgram put in charge and when, the vaults hold for
\* every user what the positions show, resets left behind and batch opens took as fee.
THEOREM MarginHeld == Spec => []MarginInSomeVault
<1>1. AdminInv => MarginInSomeVault
  BY DEF AdminInv
<1>2. QED
  BY <1>1, Invariance, PTL

\* The vault in charge covers every position as long as no vault was replaced that
\* held margin.
THEOREM VaultCovers == Spec => []VaultCoversUnlessMigrated
<1>1. AdminInv => VaultCoversUnlessMigrated
  BY DEF AdminInv
<1>2. QED
  BY <1>1, Invariance, PTL

\* When its admin signs no more, RelayerConfig is frozen: the instructions on it ask
\* for the admin it names, and no instruction names another.
THEOREM RelayersFrozen == Spec => HandoverLeavesRelayers
<1>1. [Next]_vars =>
        [relayerConfig # Absent /\ relayerConfig.admin \in retired
           => relayerConfig' = relayerConfig]_vars
  BY DEF Next, vars, custody, Initialize, InitializeRelayers, AddRelayer, RemoveRelayer,
     UpdateRequiredSignatures, UpdateAdmin, UpdateVaultProgram, UpdateFundProgram, Retire,
     Open, BatchOpen, Release, AdminResetPosition, ManagesRelayers, AdminOf, Signs
<1>2. QED
  BY <1>1, PTL DEF Spec, HandoverLeavesRelayers
=============================================================================
