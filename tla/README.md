# Exchange ledger: specification and proofs

TLA+ models of the Solana ledger program in `src/`, model-checked with TLC, and
theorems about them checked with TLAPS. Source lines below are those of the
repository (`src/src/processor.rs` is written `processor.rs`, and so on).

## 1. The system

The program is a set of instruction handlers over accounts. The runtime executes
one instruction as a transaction: either every account change and every
cross-program call (CPI) takes effect or, when the handler returns an error,
none. Transactions that share no writable account run in parallel, so a batch
can be signed while another one executes; inside a handler nothing is
concurrent. What is hard is

- **order**: relayers, administrators, liquidators and users send instructions in
  any order, retry them, and send them late;
- **protocols over several transactions**: submit, confirm and execute a batch,
  while the relayer set, the threshold, the clock and the pause flag move;
- **redundant books**: the same trade is written to a `Position`, to the global
  statistics of `LedgerConfig`, to `UserStats`, and to the Vault and Fund
  programs, by three handlers that each repeat the code;
- **fixed-point arithmetic** with truncation and narrowing casts;
- **rollback**: handlers write accounts before their last check;
- **addresses that depend on state**: a spot trade is recorded at an address
  derived from the global sequence, which the relayer has to guess;
- **reports**: indexers rebuild everything from events that each handler fills in
  by itself, after it has changed the accounts.

### Components

| Component | State | Operations | Source | Status |
|---|---|---|---|---|
| Relayer multisig | `RelayerConfig`, `TradeBatch` by the batch id its account is derived from, the clock | InitializeRelayers, AddRelayer, RemoveRelayer, UpdateRequiredSignatures, SubmitTradeBatch, ConfirmTradeBatch, ExecuteTradeBatch | `state.rs` 142-259, `processor.rs` 275-735, 2249-2323 | modelled |
| Perpetual positions, margin custody | `Position` by user and market, counters of `LedgerConfig` | OpenPosition, ClosePosition, the loop body of ExecuteTradeBatch, Liquidate, SettleFunding, AdminResetPosition | `processor.rs` 737-1817, 2154-2243, 2416-2496 | modelled |
| Arithmetic | none | `mul_e6`, `div_e6`, margin, fee, profit and loss, entry and liquidation price, liquidation split | `utils.rs` 95-115, `cpi.rs` 345-382, `state.rs` 341-419 | modelled |
| User statistics | `UserStats` by user | InitializeUserStats, creation on demand, updates | `processor.rs` 335-470 | modelled |
| Batch execution composed with trades | all of the above, the execution in flight | ExecuteTradeBatch turn by turn, beside and between the other instructions | `processor.rs` 627-1076 | modelled |
| Ledger configuration, administration | `LedgerConfig`, `RelayerConfig` | Initialize, InitializeRelayers, UpdateAdmin, UpdateVaultProgram, UpdateFundProgram, SetPaused, AdminResetPosition and the three instructions on relayers, with their signers | `processor.rs` 210-331, 2249-2496 | modelled |
| Vault and Fund programs | balances of users, insurance fund | called by `cpi.rs` | external | partly: by their effect |
| Auto-deleveraging | `total_adl_count`, a flag of the Fund program | TriggerADL | `processor.rs` 1835-2021 | modelled |
| Spot records | records at addresses derived from the sequence | RecordSpotTrade, BatchRecordSpotTrades | `processor.rs` 2506-2741 | modelled |
| Events | log records with sequence numbers | emitted by every handler | `events.rs` | partly: those of the handlers on positions |
| Order and funding event recording | none | RecordOrderEvents, RecordFundingEvents | `processor.rs` 2747-2833 | not modelled |
| Prediction market and trade record types | declared only | no instruction uses them | `state.rs` 432-490, 550-750 | not modelled |
| Dispatch, account checks, errors | none | | `lib.rs`, `instruction.rs`, `error.rs` | not modelled |

### Interactions

```
 relayers --submit/confirm/execute--> TradeBatch <--reads-- RelayerConfig <-- admin
                                         | trades
 relayer --open/close--> Position <------+      LedgerConfig (counters, paused)
 liquidator --liquidate--> Position --CPI--> Vault: locked and available balances
                                    --CPI--> Fund: penalties, shortfalls
 relayer --record--> SpotTradeRecord at the address of global_sequence
 every handler --events--> transaction log --read--> indexers
```

`ExecuteTradeBatch` is the only place where the multisig and the positions meet.
`OpenPosition`, `ClosePosition`, `Liquidate` and `SettleFunding` do not go through
a batch. The models take the accounts given to an instruction to be the ones its
documentation derives, with one exception: `ExecuteTradeBatch` checks neither the
address nor the `batch_id` field of the TradeBatch account it is given, so there the
account is chosen apart from the batch id of the instruction.

### What makes each component correct

- *Multisig*: a batch is applied at most once, only with the batch id and trades
  that enough different authorised relayers signed on the account it is executed
  from, only within its life; a failed execution leaves it executable; what was
  signed never changes; administration does not lead to a dead end.
- *Positions*: margin is neither released twice nor lost; closed accounts are
  clean and can be reopened; cached prices are fresh; global and user statistics
  agree; money moved by CPI is what the books say.
- *Batch execution*: a batch takes effect as a whole or not at all although flag,
  accounts and the vault are changed one after the other; to everybody else it is
  one step.
- *Spot records*: an instruction, with the addresses it names, is recorded at most
  once however often it is sent, a record is never overwritten, the next address is
  never taken. (The same trade sent with new addresses is another instruction, and
  nothing in the program tells it from another trade.)
- *Events*: what they report adds up to the accounts and to the money; numbers
  order them; references between them resolve.
- *Administration*: what is locked survives a change of the vault; each account
  obeys its own admin.
- *Arithmetic*: parts add up, releases are bounded by margins, documented
  formulas are the implemented ones.

`PROJECT.json` lists the hazards behind these at their lines.

## 2. Modules

| Module | Role |
|---|---|
| `QuorumApproval` | abstract: votes, threshold, decisions |
| `RelayerMultisig` | the multisig; defines the refinement mapping to `QuorumApproval` |
| `RelayerMultisigProofs` | its inductive invariant, safety theorems, and the proof that it implements `QuorumApproval` |
| `LedgerMath` | the arithmetic as operators |
| `SumTheorems` | lemmas on sums over finite sets, for every module that keeps totals |
| `MarginCustody` | abstract: what is held, claimed and left over per position |
| `PerpLedger` | positions, statistics and custody; defines the mapping to `MarginCustody` |
| `PerpLedgerProofs` | in four parts: lemmas and two theorems about `LedgerMath`; the inductive invariant of the accounts and what it gives; the proof that `PerpLedger` implements `MarginCustody`; the books |
| `BatchExecution` | `PerpLedger` and `RelayerMultisig` composed: ExecuteTradeBatch step by step |
| `BatchExecutionProofs` | invariants of the composition, its refinement of `RelayerMultisig`, and the count of whole batches |
| `AutoDeleverage` | TriggerADL beside `PerpLedger`, with its theorem |
| `SpotRecords`, `SpotRecordsProofs` | spot trade records and their theorems |
| `EventLog`, `EventLogProofs` | `PerpLedger` with the events its handlers emit, and what a reader of the log may conclude |
| `LedgerAdmin`, `LedgerAdminProofs` | the configuration accounts, their admins, a change of the vault program, and their theorems |
| `MC...` | instances for TLC |

`BatchExecution`, `AutoDeleverage` and `EventLog` extend `PerpLedger`: its actions
are the conjuncts of theirs, nothing is written twice. `BatchExecution` takes in
`RelayerMultisig` by `INSTANCE`, twice: with the accounts as they are (`MS`), and
with the accounts as others see them (`Visible`).

Operators marked *Mutant* beside a definition are what a plausible bug would make
of it. No specification uses them; putting one in the place of the definition it
stands by makes TLC report the property named with it in `PROJECT.json`, which
shows that the property can fail.

### How state and actions correspond to the code

**A step is a transaction that succeeds.** A guard collects the checks that
return an error, wherever in the handler they stand, because an error undoes all
writes made before. `ExecuteTradeBatch` writes `executed = true` (line 697)
before it tests `is_paused`; in the model both are one step, and the mutant
`ExecuteWithoutRollback` shows what would follow otherwise. `AddRelayer` of a
relayer that is there and `RemoveRelayer` of one that is not succeed without an
effect apart from a timestamp, and are stutters.

**`RelayerMultisig`.** `relayerConfig` is the account, its Vec a function from
occupied slots to keys: the code reads membership and length only, so order and
shifting are abstracted. The initial list may hold duplicates, as
`process_initialize_relayers` does not look for them. `tradeBatch` has a batch id
in its domain once the account derived from it exists. A hash is the pair of batch
id and payload (SHA-256 taken as injective; program id and prefix are constant), and
a relayer may submit any hash under any id. `SubmitTradeBatch` and
`ConfirmTradeBatch` derive the account from the batch id of the instruction, so one
parameter `b` stands for both. `ExecuteTradeBatch(r, a, b, trades)` does not: `a` is
the account it is given, `b` the batch id it names, and only the hash relates them
(`VerifyBatchHash`). `executions` is kept per account, with the batch id of each
execution. `ConfirmTradeBatch` needs room for one more
signature: the code has no check, but the account has space for `MAX_SIGNATURES`
and the serialization of more fails. `endorsements` and `executions` are history:
who signed what while authorised, and what took effect, with the threshold and
the time of that moment.

**`QuorumApproval`.** What the accounts promise: every TradeBatch account is a
proposal, a signature on it is a vote for the batch id and trades its hash stands
for, and it takes effect at most once, with that payload and enough votes. Two
proposals may be for the same payload, as two accounts may.

**`PerpLedger`.** `position` and `userStats` are the accounts that exist.
`vaultLocked`, `vaultAvailable` and `insurance` are what the calls of `cpi.rs`
change in the Vault and Fund programs: locked margin per position, the users'
available balances and the insurance fund as net changes. A call the other
program refuses (balance too low, fund empty) is a transaction that fails, hence
no step. History variables account for what the books of the program do not show:

- `stranded`: batch opens lock the fee but leave it out of `margin_e6` (lines 812
  and 846), resets zero the margin without a call (line 2465); both leave margin
  locked that no position shows;
- `settledFees`: fees the vault was told to deduct;
- `unbookedPnl`: batch closes settle profit and loss and do not add it to
  `UserStats`;
- `unknownTrades`: a batch entry of another type than OPEN and CLOSE moves
  nothing, yet counts as a trade with volume.

Each branch of the batch loop is an action. A batch of several trades is a
sequence of them, which `BatchExecution` makes all-or-nothing.

**`MarginCustody`.** What the vault side of the ledger promises, in four actions:
`Lock`, `Settle`, `Seize` (the whole claim of one position; the only step that
moves the insurance fund, and one that pays out of it only when the user gets
nothing) and `Abandon`. The mapping takes a position's `margin_e6` for its claim,
`vaultLocked` for what is held and `stranded` for what is left over. Two positions
never change in one step, and no step gives back more than was claimed.

**`BatchExecution`.** `Begin` ends with the write of `executed` (line 698), in the
account given, and the trades are executed under the batch id given;
`RunTrade` is one turn of the loop; `Commit` is the end of the handler; `Rollback`
is what the runtime does when the handler fails: `saved` holds the accounts as
they were. It may come at any point, since the pause check, a trade that is not
valid, a refused call or the compute budget can end the transaction anywhere. The
runtime locks the accounts a transaction writes. `LedgerConfig` is written by the
execution and by most instructions; `SettleFunding`, resets and
`InitializeUserStats` are kept apart as well, because they touch positions or
statistics a batch may use. `RelayerConfig` is read by executions, so that changes
of relayers wait. Submissions and confirmations of *other* batches need none of
these and do run in parallel. `Tick` waits too: the handler reads the clock once.

**`AutoDeleverage`.** The guard of `TriggerADL` is that of the handler over any set
of accounts given to it. The flag belongs to the Fund program.

**`SpotRecords`.** A transaction names addresses from a sequence number its relayer
expects (`Send`), is executed later, any number of times or never, and takes
effect only if each address is the one derived from the sequence at that turn and
has no account yet. Other instructions move the sequence (`TakeNumbers`: one, two
or four at a time). `next_sequence` saturates at `u64::MAX`, the constant
`MaxSequence`. A single record and a batch of one differ in the instruction only.
Price, side and market of a trade are not told apart.

**`EventLog`.** `log` is what successful transactions leave in the transaction log
(a failed one leaves nothing an indexer would apply). An event is a record of its
kind with the fields properties speak of; the figures before and after come from
the account where the code reads the account and from the trade where it does not
(`EmitBatchOpened`). Event types are numbers, as in the code.

**`LedgerAdmin`.** `ledgerConfig` and `relayerConfig` are created once, by whoever
comes first, each with its signer as admin. Trades appear as the margin they lock
or release, an arbitrary amount within what `SettleClose` allows. `Open` is the
direct one, whose fee is part of the margin; `BatchOpen` locks the fee beside the
margin (lines 812, 844), and `unclaimed` keeps such fees with what resets leave: the
vault holds them and no position shows them. `vaultLocked`
keeps one amount per vault program and user, as the Vault program's accounts do
in the CPI calls. What the real vault refuses is not in this repository: an amount
may become negative, and `VaultCoversUnlessMigrated` says when it does not.
`Retire` is the owner of a key who stops signing.

**`LedgerMath`.** Rust's truncating division and `as u64` casts are modelled
(`TruncDiv`, `AsU64`). The scale 10^6 is the constant `E6` and the rates are
constants. Checked arithmetic that returns `Overflow` is a transaction that
fails and is not modelled; amounts are assumed below 2^63, where casts between
i64 and u64 keep their value. The guard `release <= margin` in `SettleClose` is
`checked_sub_u64`.

## 3. Runs

| Run | Instance | Question | Result |
|---|---|---|---|
| `MCRelayerMultisig` | 3 keys, 2 relayer and 2 signature slots, 2 batches, 2 payloads, expiry 1 s, 3 instants, symmetry | all safety properties, the audit trail, refinement of `QuorumApproval` | holds; 531 252 states |
| `MCBatchReplay` | the same | is a batch id applied once, as the hash check's comment says | violated: finding 8 |
| `MCQuorumReachable` | the same | can administration put the quorum out of reach | violated: finding 3 |
| `MCPerpLedger` | 1 user, 1 market, 3 sizes, 2 prices, 2 leverages, 3 mark prices, funding; 3 trades | margin, figures, cached price and money of one account; refinement of `MarginCustody` | holds; 149 106 states |
| `MCPerpUsers` | 2 users, 2 markets, 4 trades, one size and price, symmetry | statistics of several users | holds; 72 210 states |
| `MCLiquidationPrice` | as `MCPerpLedger`, 2 users and markets | documented liquidation price | violated: finding 1 |
| `MCFeesTaken` | the same | fees counted are fees taken | violated: finding 2 |
| `MCBatchExecution` | 2 keys for 1 relayer slot, 2 batches of 3 trades, 1 user and market, 4 trades, 2 instants | whole batches, margin inside a batch, refinement of `RelayerMultisig` | holds; 297 904 states |
| `MCSpotRecords` | 2 relayers, 3 transactions of 1 or 2 trades, sequence up to 4, symmetry | recorded once, complete, next address free, totals | holds; 118 372 states |
| `MCEventLog` | 1 user and market, 2 sizes, 2 mark prices, 2 leverages, funding; 3 trades, 6 events | what the log determines | holds; 212 462 states |
| `MCEventSnapshots` | the same | the last snapshot is the account | violated: finding 4 |
| `MCLedgerAdmin` | 3 keys, 2 relayer slots, 2 programs, 1 user, 2 markets, margin and fees up to 2, symmetry | margin and batch fees across vaults, two admins | holds; 46 511 states |

State counts are distinct states found, after symmetry where a run uses it.

**Bounds.** `MaxTime`, `MaxTrades`, `MaxFunding`, `MaxSent`, `MaxEvents`,
`MaxMargin` and `MaxLocked` are the only bounds in guards;
the other constants are parameters of the program or sets of inputs.

*Multisig.* Three keys for two slots is the least at which a relayer that has
signed can be removed and replaced, so that old signatures fill the account.
Two batches let one expire and its payload be submitted again, and let the
account of one hold a hash of the other. Three instants
with an expiry of one second allow execution at the last moment (`now =
expires_at`), one second later (refused) and a resubmission in between.

*Positions.* At the scale of 200 units to one, 5 units are the 2.5% maintenance
rate, 2 units the 1% penalty and fee rate. Sizes 700 and 2000 at prices 900 and
1000 make every division truncate, so a close of 700 out of 2000, 2700 or 1400
leaves rounding behind; size 0 is refused by trades and taken by unknown batch
entries; leverage 1 and 50 put short liquidation prices inside and outside the
reach of mark price 5000; mark price 0 is the only one that liquidates a long and
makes a shortfall. Three trades suffice for open, increase and close, or open,
close and reopen. `U64` of 10^9 is out of reach of the amounts: wraps are covered
by the theorems, which hold for every `U64`, not by the runs.

*Batch execution.* Two keys share one relayer slot, so the second confirmation
comes from a relayer that was not there at the submission. A batch is an unknown
entry, an open and a close: after a direct open the open is an increase and the
close partial. Four trades allow a direct open and a whole batch after it, or a
batch that is rolled back and tried again. The second batch id is submitted and
confirmed while the first executes. `WholeBatches` counts; it would also notice a
trade applied twice.

*Spot records.* Transactions for one trade, the other trade and both, from every
first number: two that overlap in full or in part, and ones that straddle the
saturated sequence, which a capacity of four reaches in two batches.

*Events.* Three trades and six events are an open, an increase and a partial close
with funding and a reset, or a liquidation, which alone emits four. Mark price 0
makes a shortfall for longs, 5000 a penalty for shorts.

*Administration.* Two markets of one user share the amount in the vault, the least
at which a close after a migration can draw on what another position locked.
Three keys leave one that holds no office when two hand over.

Runs with `SYMMETRY` check safety only, and their sets enter no `CHOOSE`.

Runs set `CHECK_DEADLOCK FALSE`: a ledger whose bounded clock or trades are
used up may stop.

**Fairness.** None is assumed and no liveness is claimed. The program schedules
nothing: a batch is confirmed or executed only if somebody sends the instruction, a
position is liquidated only if a liquidator does. That an instruction which was
started ends, with its effect or with none, is the runtime's promise and holds
whatever the handlers do.

### Findings

1. **Liquidation prices** (`state.rs:359`). `div_e6(1_000_000, leverage)` scales
   an already scaled one: 1/leverage comes out 10^6 times too large. Longs get
   max(0, negative) = 0, shorts at least about 10^4 times the entry price. The doc comment
   (`state.rs:355`) and `README.md:526` (`$45,250` for a long at `$50,000`) say
   otherwise. The unit test of `should_liquidate` fills the liquidation price in
   by hand. `LongLiquidationPriceIsZero` proves it for every entry price and
   leverage, `LongsNotLiquidated` that no step of the ledger liquidates a long at
   a mark price above zero.
2. **Opening fees** (`processor.rs:1193`, `1235`). `OpenPosition` counts the fee as
   collected and adds it to the position's margin, which a full close releases to
   the user. The comment at 1251 says the fee is deducted. Through a batch the fee
   stays locked in the vault and no instruction releases or collects it.
3. **Quorum out of reach** (`processor.rs:2291`). `RemoveRelayer` ignores
   `required_signatures`, so the configuration that initialization and
   `UpdateRequiredSignatures` (2313) reject is reached. Duplicates in the initial
   list have the same effect: one key fills two slots and signs once.

4. **Snapshots** (`processor.rs:877`). The event of a batch increase has the figures
   of the trade in its snapshots, before and after. `events.rs:274` promises that
   history can be rebuilt from snapshots. `SnapshotsRebuildMost` checks what does
   hold: every other event carries the account, and a reader can tell the
   approximate ones. `DeltasRebuildPositions` shows a way that always works.
5. **Event types** (`processor.rs:1502`). `ClosePosition` reports a full close as
   Decreased and a partial one as Closed; the batch path does it right.
   Liquidations say Flipped (1747) and resets Liquidated (2479). No run: reading the
   line against `events.rs:260` settles it.
6. **ADL cannot happen** (`processor.rs:1934`). It needs a stored unrealized profit,
   which every handler writes as zero: `AdlNeverTriggers`.
7. **Two admins** (`processor.rs:2361`). `UpdateAdmin` leaves the admin of
   `RelayerConfig` alone. `HandoverLeavesRelayers` states the consequence as a
   property that holds: with the first key gone, the relayers are frozen.
8. **Batch id and account** (`processor.rs:693`). `ExecuteTradeBatch` compares the hash
   of its `batch_id` argument and trades with that of the TradeBatch account it is
   given. It does not derive the account from `batch_id`, as the other two batch
   instructions do (496-502, 578-584), nor read the account's `batch_id`. The comment
   at 691 says that the batch id is hashed to prevent replays. If relayers sign the
   same hash under two ids, both accounts are executed as the batch in the hash.
   `OncePerBatch` states and `ReplaySafe` proves what does hold: a batch id is applied
   once as long as hashes of that id are submitted under that id only.

Noticed while reading, not the subject of a run: `TriggerADL` accepts only the admin
(`processor.rs:1864`), `instruction.rs:194` also allows a relayer; payouts of the
insurance fund emit no `InsuranceFundEvent`, opens no `TradeEvent` (`events.rs:597`,
191); a `FundingEvent` starts its period when it ends (`processor.rs:2233`); funding
is recorded and never settled, although the comment at `processor.rs:2216` leaves it
to the close; `README.md` lets a close of size 0 close everything, the code rejects
it; a closed account keeps side and leverage, so it cannot be reopened on the other
side and its new leverage is not stored.

## 4. Proofs

Assumptions are those the modules name: `RelayersAssumption` (finitely many
keys), `CapacityAssumption` (`MAX_RELAYERS <= MAX_SIGNATURES`, 5 and 5),
`TimeAssumption`, `ScaleAssumption` and `RateAssumption` (positive scale, rates
between 0 and one), `InputAssumption` (sizes, prices and marks are u64 values).
Users, markets, keys, programs and batch ids are taken to be finite sets
(`FiniteAssumption`, `TradeListsAssumption`, `AdminAssumption`): in the code they are
32-byte keys, a byte and a u64. Sums need that; the log and the spot records are
finite by themselves. TLC evaluates all assumptions in the runs.

**Sums.** Totals are written with `SumFunction` of the community modules, which
recurs on subsets through a recursive function. The induction theorems of the
library cannot be used, as they take an operator. `SumTheorems` goes round them with a
smallest counterexample: among the subsets of a finite set for which a statement
fails, put together as a set of sets, there is one none of whose proper subsets
fails (`SmallestSet`, from the well-foundedness of strict inclusion). That gives
existence and uniqueness of the recursion's solution (`IterExists`, `IterUnique`), its
first step (`SumStep`), independence of the order (`SumRemove`), and what the proofs
use: what a sum becomes when one entry of a table changes or is added
(`TableUpdated`), when the table is a union or is renamed (`SumUnion`, `TableRenamed`).

**Multisig.** `OncePerBatch` needs two facts about accounts: an account is executed
at most once (`AtMostOnce`), and with the batch id and trades of its hash only
(`ExecutedAsApproved`), so that, when no other account holds a hash of the id, all
its executions are on one account. `AtMostOnce` needs `ExecutedIffApplied` (a second
execution is stopped by the flag, so the flag must be set whenever something was
applied). `QuorumEndorsed` needs that the signatures of a batch are of different relayers
(`SignaturesDistinct`), since the code compares only their number, and that each
was given for the hash the batch holds (`SignaturesEndorsed`); `DistinctCount`
turns the length of the list into the size of the set of signers. It speaks of
the threshold at the time of the execution because administrators may change it
before and after. `RetryAfterExpirySafe` needs `ExecutedInLife`, and
`FullBatchHasQuorum` needs `RequiredBounded`. Together with `TypeOK` these are
`IndInv`; `InitInd` and `NextInd` (one lemma per kind of step) prove it
inductive. `AuditTrailKept` and the refinement then follow from `IndInv` step by
step: submissions and confirmations on an account map to a `Vote` on that proposal
for the hash signed, executions to `Decide`, changes of the threshold to
`SetThreshold`; the rest stutters.

**Arithmetic.** `DivFacts` and `TruncDivFacts` bound the quotients; from them the
types of all results, `ReleaseBounded` (a partial close never releases more than
the margin, so the checked subtraction cannot fail there), `AveragedEntryBounds`
(the average of two prices lies between them, hence is positive and does not wrap),
`LiquidationSplit` and `LongLiquidationPriceIsZero`.

**Positions.** `MarginAccounted` is inductive only together with the type of the
account (`TypeOK`) and with soundness of every account (`PositionsSound`): an open
position has a positive entry price below 2^64, a leverage in range and a fresh
liquidation price, a closed one is clean. A reopened account goes through
`update_entry_price` with size and entry price 0, and that this yields the new
price is where cleanliness is needed. `IndInv` is the conjunction; the proof has
one lemma per action, and the account part and the statistics part of the
invariant are proved apart (`Halves`). `AccountChanged` says once what a change of
one account has to satisfy.

**Books.** `StatsAgree` and `FlowsMatchBooks` are conjuncts of `BooksInv`, with two facts
they need: finitely many `UserStats` exist, and a user with a position account has
one (`StatsCreated`). The second is why `ClosePosition` and `Liquidate`, which skip
an absent `UserStats`, never do skip one, so that no trade goes unbooked. `BooksMoved`
says what a handler has to do: its ledger counters move by what one user's
statistics move by (`Counted`), and its calls to the vault and the fund by what is
booked as profit and fees. One lemma per handler finds the amounts, for the
liquidation from `LiquidationSplit`. The proof uses `IndInv` for types and bounds.

**Custody.** `CustodyRefined` maps each action to one step of `MarginCustody`.
`ClaimsReplaced` says that replacing one account changes one claim; `LockStep`,
`SettleStep`, `SeizeStep` and `AbandonStep` restate the abstract steps over the
ledger's variables, and one lemma per action finds the amounts: an increase adds
exactly what is locked less what is stranded, a close releases at most the margin
(`ReleaseBounded`), and a liquidation's penalty, remainder and shortfall are not
negative and a shortfall leaves no remainder (`LiquidationSplit`). `IndInv` of
`PerpLedgerProofs` supplies the types and the soundness of accounts.

**Batch execution.** `SysInv` is `IndInv` of `PerpLedger`, the types of the batches,
and `RunningInv`: while an execution is in flight its batch exists, has its flag set
and still passes the checks of `Begin`, its trades are those signed, and the copy in
`saved` satisfies `IndInv` (`SoundCopy`). The last is what makes `Rollback` preserve the
invariant, which is otherwise that of `Next`, step by step (`RunTradeIsStep`, `DirectTradeIsStep`, `MaintainIsStep`).
For `ExecutionIsOneStep` every step is mapped with the flag hidden: `Begin`,
`RunTrade` and `Rollback` change nothing visible, `Commit` is `ExecuteTradeBatch`
with all its guards. These were tested at `Begin` and still hold at `Commit`
because the clock, the relayers and the threshold wait, while other batches may
have been signed meanwhile. The proof covers the safety part of both
specifications; `RelayerMultisig` has no other.

`BatchesCountedWhole` needs `CountInv`: the copy in `saved` holds whole batches and
nothing of the one in flight, so that `Rollback` returns to a state that is right,
and the loop does not pass the end of the list, so that `Commit` adds the length of
what was applied. That each batch adds its trades once only is `MultisigImplemented`
with `AtMostOnce`: an account is executed once.

**Deleveraging.** `AdlNeverTriggers` needs only that `SoundPosition`, a part of
`IndInv`, contains `unrealized_pnl = 0`, and that `TriggerADL` could be the only step
to change anything else.

**Spot records.** `TypeOK`, `RecordedOnce`, `RecordsComplete` and `NextAddressFree` are
inductive together. A transaction that takes effect finds its addresses without
accounts (the guard), so by `RecordsComplete` nobody claimed them: `RecordedOnce`
follows without any assumption on the sequence, at its saturation too. For
`SpotTotals` a batch of records is one extension of the table by as many rows
(`ColumnExtended`): the rows are new by the guard, so the sum grows by the sum over
the transaction, whatever the order of the addresses.

**Administration.** `AdminInv` is `TypeOK` with `MarginInSomeVault` and
`VaultCoversUnlessMigrated`. Opens and releases move one amount in one vault and
one claim alike (`MovedInv`), an open in a batch one amount and the claim with the
fee, a reset leaves what it clears from the position to be claimed; `UpdateVaultProgram` moves nothing, and unless `migrated` is or becomes true
it finds every amount zero, whence every claim is.
`RelayersFrozen` is an action property and needs no invariant: each instruction on
`RelayerConfig` asks for the signature of the admin it names.

**Events.** `EventLog` adds a conjunct to each action of `PerpLedger`, so that
`LogSpec` implements `Spec` (`LogImplements`), and `IndInv` and `BooksInv` hold in it.
`LogInv` has the properties and three facts they rest on. `NumbersTaken`: every
number in the log is below the next one; with it new events are after all old ones,
and `NumbersInd` has to compare only the one to four new events with each other.
`AccountsReported`: an account exists exactly when the log mentions it; a new account
therefore has an empty sum to start from. `LastShown`: the last event of an account
exists and shows it, which is `SnapshotsRebuildMost` without its `CHOOSE`. The general
part says, for any list of events a handler may append, what happens to sums over
the log (`DeltasInd`, `MoneyInd`), to references (`LinksInd`) and to last events
(`ReportedInd`); `OneEvent`, `TwoEvents` and their like bring that to the lists the
handlers emit, and one lemma per handler supplies the figures. For `MoneyReported`
the log is compared with the statistics of one user and the ledger's counters, as
in `BooksMoved`.

| Theorem | States |
|---|---|
| `RelayerMultisigProofs!TypeCorrect`, `ReplaySafe`, `QuorumSafe`, `ExecutionAtomic`, `RetrySafe`, `CapacitySafe`, `AuditTrail` | the properties of run `MCRelayerMultisig` |
| `RelayerMultisigProofs!Refinement` | `Spec => ApprovalSpec` |
| `PerpLedgerProofs!TypeCorrect`, `MarginSafe`, `FlatSafe`, `LiquidationPriceSafe`, `FlowsSafe` | the invariants of run `MCPerpLedger` |
| `PerpLedgerProofs!StatsSafe` | the invariant of run `MCPerpUsers` |
| `PerpLedgerProofs!CustodyRefined` | `Spec => CustodySpec` |
| `PerpLedgerProofs!LiquidationSplit` | the parts of a liquidation add up |
| `PerpLedgerProofs!LongLiquidationPriceIsZero`, `LongsNotLiquidated` | finding 1, for the function and for the whole ledger |
| `BatchExecutionProofs!MarginSafeInBatches`, `ExecutionIsOneStep`, `BatchesCountedWhole` | the properties of run `MCBatchExecution` |
| `AutoDeleverage!AdlNeverTriggers` | finding 6 |
| `SpotRecordsProofs!SpotTypes`, `SpotRetrySafe`, `SpotRecordsKept`, `SpotAddressFree`, `SpotTotals` | the properties of run `MCSpotRecords` |
| `LedgerAdminProofs!TypeCorrect`, `MarginHeld`, `VaultCovers`, `RelayersFrozen` | the properties of run `MCLedgerAdmin` |
| `EventLogProofs!LogTyped`, `NumbersSafe`, `LinksSafe`, `SnapshotsSafe`, `DeltasSafe`, `MoneySafe` | the properties of run `MCEventLog` |

**Only model-checked.** Every property of a passing run has a theorem; there is no
liveness property, which would be out of the prover's reach. The runs that find
a violation are counterexamples; what they refute is proved for every value only
where the table says so (findings 1 and 6). What `SumFunction` returns
is proved from its definition in the community modules; nothing is said of the Java
code TLC may run in its place.

## 5. Not modelled

- *Order and funding event recording* change no account: they check the relayer and
  log what they are given.
- *Prediction market positions, their events and `TradeRecord`* are declared and
  tested for their size; no instruction uses them.
- *Dispatch, deserialization, account and signer checks, error codes*: an
  instruction is taken to get the accounts its documentation derives, but for the
  TradeBatch account of an execution. What happens when it does not, as with a wrong UserStats account whose error is discarded
  (`processor.rs:1026`), is therefore outside.
- *Events* of batches, orders and spot trades repeat the fields of their
  instruction; `ADLEvent` is unreachable; `DepositWithdrawEvent` has no caller.
- *Vault and Fund programs* appear by the effect of the calls in `cpi.rs`. What they
  refuse is in other repositories. `release_margin` and `add_adl_profit` have no
  caller.
- *Overflow*: checked arithmetic that fails is a transaction that fails. Amounts of
  2^63 and more, where casts to i64 change the value, are assumed away.
- *Timestamps* other than the clock of the multisig.

What could come next, in order of use: `StatsAgree` and `FlowsMatchBooks` between the
trades of a batch and after its rollback, which need `BooksInv` of the copy in
`saved`; a bound on what a close in many small steps loses to truncation, checked
over `LedgerMath` and proved per step; a run for funding at the close, once the code
settles it.
