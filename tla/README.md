# Raindex: a verification project in TLA+

Raindex is an on-chain orderbook. Owners deposit ERC20 tokens into numbered
vaults and add orders whose amounts and prices are computed by programs; anybody
may take or clear the orders. Around the contracts the repository has an indexer
(a subgraph), a local SQLite replica with its own sync engine, a client library, a
CLI and a web application. This project models the parts that carry the money
and the state: the contract `RaindexV7` and the arb contracts that use it, the two
indexes of its events, the local replica with its sync engine, scheduler and
producer, and the client that builds takes.

Paths below are relative to the root of the repository.

## 1. Inventory

| Component | State | Operations | Interacts with |
|---|---|---|---|
| `RaindexV7` (`src/concrete/raindex/RaindexV7.sol`) | `sOrders`, `sVaultBalances`, the reentrancy guard | `deposit5`, `withdraw5`, `addOrder5`, `removeOrder4`, `takeOrders5`, `clear4`, `entask3` | ERC20 tokens, the interpreter and store of each order, the taker's `onTakeOrders2` |
| `RaindexV7FlashLender` | none of its own | `flashLoan` (not guarded) | the borrower's `onFlashLoan` |
| Arb contracts (`src/abstract/RaindexV7Arb*.sol`, `RaindexV7FlashBorrower.sol`) | balances and approvals while an arb runs, a task hash | `arb5`, `arb6`, `onTakeOrders2`, `onFlashLoan`, `finalizeArb` | `RaindexV7`, external pools |
| Subgraph (`subgraph/src`) | vaults, orders, trades derived from events | one handler per event | the contract's events |
| Local DB engine (`crates/common/src/local_db/pipeline`) | a SQLite database with a watermark per target | bootstrap, window, gather, apply | RPC nodes, the database |
| Local DB derived tables (`crates/common/src/local_db/query`) | vault deltas, balance changes, running balances, trades | one set of statements per window | the events the engine applies |
| Local DB client runner (`crates/common/src/raindex_client/local_db/pipeline`) | manifests, provisioning flags, failed imports, leadership, backoff | a cycle per network, dump import | the engine, Web Locks, the database worker, remote dumps |
| Local DB producer (`crates/cli/.../local_db/pipeline`) | the published manifest and dumps | one run per schedule | the engine, the file store |
| Take-orders client (`crates/common/src/take_orders`, `raindex_client/take_orders`) | the remaining candidates of one call | select, check approval, simulate, diagnose, rebuild | quotes, an RPC, `takeOrders5` |
| UI transaction store (`packages/ui-components`) | the status of each transaction | execute, wait for receipt and indexing | the node, the indexers |

What is hard here:

- **Calls out of the contract.** A taken order's store and interpreter, the
  taker's callback, a flash-loan borrower and the post tasks all run foreign code
  in the middle of a call. `flashLoan` has no reentrancy guard, so loans nest in
  and around everything else, and during `onTakeOrders2` the contract holds less
  than its vaults promise.
- **Nested reverts.** A call made in a callback may fail and be caught there: it
  must leave no trace, while what surrounds it goes on.
- **Rounding.** Amounts are decimal floats, tokens move in base units. Every
  conversion may lose something and has to lose it in the contract's favour.
- **Vault 0.** It stands for the owner's wallet. In a batch its credits gather in
  a slot shared by all orders of the owner, and are paid out at the end.
- **Order of effects in a batch.** A later order of a batch must see what an
  earlier one wrote to its owner's store.
- **Off chain:** windows that neither skip nor repeat a block, reorganisations
  between two reads, imports that fail half way, two leaders, bounded retries;
  tabs that share a database, its locks and its worker and may be closed at any
  moment; a producer that dies between two files; an RPC whose failure looks like an
  order that reverts.

Correctness, component by component:

- contract: no call creates or loses value; it is solvent between transactions;
  vault 0 is empty at rest; a payout that is due can be made; the guard is held
  by at most one call; a batch keeps the taker's terms; owners' budgets hold;
  nothing but its owner and the owner's live orders lowers a vault;
- arb contracts: whenever no arb runs, their own approvals are taken back and no coin of
  a trade is left; while one runs, nobody gains a right over its coins;
- subgraph and derived tables: the balances and active orders are those of the
  contract, up to the rounding of deposits, and trades replay them;
- local DB: every finalised block up to the watermark is applied exactly once, a
  failing cycle leaves the watermark, and a failing target is retried at a
  bounded rate and eventually catches up; an import never meets rows that are
  there; a stopped tab gives back what it holds;
- producer: what is published is consistent and never goes back;
- take-orders client: calldata it hands out goes through, and orders that fail
  cost the taker nothing but themselves.

## 2. Modules

```
RaindexFloat                 arithmetic of amounts and ratios
  RaindexLedger              vaults, wallets, allowances; pull, push, credit, debit
  RaindexTrades              the arithmetic of a fill and of a clear
    Raindex                  the contract: entry points, windows, reverts
      MCRaindexTake, MCRaindexClear        instances for TLC
      RaindexInvariant       lemmas on the ledger, theorems on the arithmetic,
                             the inductive invariant with one lemma per action
        RaindexProofs        the theorems

LocalDbWindow                which blocks one cycle covers
  LocalDbChain               a chain that grows and reorganises
    LocalDbReplica           what the database promises (abstract)
    LocalDbSync              the clients, step by step; implements LocalDbReplica
      MCLocalDbSync          instances for TLC
      LocalDbSyncProofs      the window, two invariants and the refinement
  LocalDbProducer            runs of the producer, its manifest and dumps
    MCLocalDbProducer        instance for TLC
    LocalDbProducerProofs    the producer's inductive invariant

LocalDbScheduler             tabs: bootstrap, imports, loops, backoff, stopping
  MCLocalDbScheduler         instance for TLC
  LocalDbSchedulerProofs     locks, imports, leaders and backoff
RaindexIndexers              the subgraph and the derived tables beside the contract
  MCRaindexIndexers          instances for TLC
  RaindexIndexersProofs      both indexes replay the contract
RaindexArb                   the arb contracts
  MCRaindexArb               instance for TLC
  RaindexArbProofs           where every approval and every coin belongs
TakeOrdersClient             selection and preflight of a take
  MCTakeOrdersClient         instance for TLC
  TakeOrdersClientProofs     what is handed out goes through, and is the best for a buyer
```

**RaindexFloat.** A non-negative `Float` is a number of quanta (the least digit
kept), a ratio is a fraction; `FloatMul` and `FloatDiv` truncate, as the library
does. Exponents and the width of the coefficient are left out: the code's own
bounds make them unreachable, and an overflow reverts.

**RaindexLedger.** A ledger is a record of `vault` (`sVaultBalances`), `wallet`
(`balanceOf`, in base units), `allow` (allowances given to the contract) and `dust`,
a history variable with what rounding and plain transfers left in the contract.
Each internal function of the contract is an operator with the function's name
from ledger to ledger; `CanX` says that X does not revert. `Unit[t]` quanta make a
base unit of token `t`, so amounts that are no multiple of it convert with loss:
`PullUnits` rounds up, `pushTokens` down.

**RaindexTrades.** `IsTaken` and `TakerIO` are the body of the loop of `takeOrders5`,
`calculateClearStateChange` the function of that name with the two bounties.

**Raindex.** Variables: `ledger`, `live` (`sOrders`), `store` (the interpreter store: what
the orders of an owner have given out), `entered` (the guard), `take` (the memory of
the running `takeOrders5`) and `stack` (the calls that have not returned, each with
what is out on loan and the state it would restore).

| Action | Code |
|---|---|
| `Entask`, `Deposit`, `Withdraw`, `AddOrder`, `RemoveOrder` | the entry point up to its post tasks |
| `PostTask`, `PostReturn` | `LibRaindex.doPost` and the return of the call |
| `TakeBegin` | `takeOrders5` up to its loop |
| `TakeSkip`, `TakeOrder` | one turn of the loop, `handleIO` included |
| `TakeSend` | the minimum check, the push to the taker, the callback |
| `TakePay`, `TakeFlush`, `TakeReturn` | the pull from the taker, one vault 0 push, the return |
| `Clear` | `clear4`; the two `handleIO` calls are the window that follows |
| `FlashLoan`, `FlashRepay` | the two halves of `flashLoan` |
| `Approve`, `Transfer` | ERC20 calls by accounts |
| `Revert` | the innermost call fails, for whatever reason |

In a *window* (between transactions, in a callback, in a handle-IO call, in a post
task or a flash loan) anybody may do anything the guard allows. A check that fails
in the code is an action that is not enabled: the call can then only revert.
`addOrder5` of a live order, `removeOrder4` of a dead one and `clear4` of a dead order
return without a change, which is a stuttering step.

The orders' programs are arbitrary in the code. The model gives each order a set of
results (`Evaluations`) from which every calculation chooses, capped as
`calculateOrderIO` caps it by the output vault; the programs considered also keep a
budget in their owner's store, which is what `BudgetKept` is about.

Abstractions and omissions: token decimals never change (a TOFU mismatch is a
revert); tokens are plain ERC20 (no fee on transfer, no hooks, no rebasing);
signed context, meta documents and events carry no state; `multicall` is a sequence of
calls; gas is the nondeterminism of `Revert`.

**LocalDbWindow.** The function `compute` of `adapters/window.rs`, one operator per local
variable of it, with the names of the code. A watermark of 0 is a target without one.

**LocalDbChain.** The chain as the RPC nodes show it. A block is an order, a `Set` event of
the store that the orders name, or neither; its hash is the chain up to it, so
two blocks have the same hash only if they have the same history. `Reorg` replaces the
head, but never a block that has once had `ReorgDepth` blocks above it (`peak` remembers
the greatest height).

**LocalDbSync.** Variables: `chain`, `peak`, `reorgs`; `db` (watermark with its hash, the events
and the `Set` events of one raindex); `client` (for each tab or process its place in the
run, its leadership guard, what it knows of the manifest, its provisioning flag and
count of failed imports, and the locals of the running cycle); `faults`. Each `await` of
the engine is a boundary between two actions.

| Action | Code |
|---|---|
| `Acquire` | `DefaultLeadership::acquire`: the Web Lock, or the no-op guard |
| `LoadManifest`, `Run` | `ClientRunner::run_with_phase_callback`: the manifest, and whether this target wants its dump |
| `LatestBlock` | `SyncEngine::run` up to the bootstrap |
| `InspectState`, `CheckThreshold`, `ClearRaindexData`, `ImportDump` | `ClientBootstrapAdapter::engine_run` |
| `ImportFail` | a failed import and what the runner makes of it |
| `ComputeWindow` | `WindowPipeline::compute`, and the early return of an empty window |
| `FetchRaindex`, `FetchStores`, `BlockHash` | the reads of the engine, in its order |
| `Persist`, `PersistConflict` | `ApplyPipeline::persist`: one transaction |
| `EngineFail` | any step returns an error |
| `CommitUnknown` | a transaction is committed, its answer is lost |
| `Restart` | the client is closed, which releases its lock, and opened again |

Abstractions and omissions: one target (targets of a network share no row); an
order stands for all events written with a plain `INSERT`, which a second copy makes
fail, and a `Set` event for the rows that are upserted; tokens, derived tables and the
status shown to the user are left out; a download of a manifest or a dump that
fails changes nothing. The dumps come from the producer: `DumpOf` is what its engine
writes up to a final block, and `LocalDbProducer` shows what its manifest says of it. `safe_head` never goes below the deployment block, so a
chain that has less than `Depth` blocks above the deployment has no final block to
read; `ChainAssumption` starts above that.

**LocalDbReplica.** The database at every moment holds exactly the logs of the chain up to
its watermark; that only advances over final blocks, or all data is dropped.

**LocalDbScheduler.** Variables: `mark` (the watermark of each target), `holder` (the Web Locks: one
of the bootstrap, one per network), `session` (the import that the database worker is
running), `tab` and `runner` (the memory of each tab's start and of its loops), `ready`
(`SyncReadiness`).

| Action | Code |
|---|---|
| `SchemaFails`, `Preflight` | `start` up to `has_persisted_targets` |
| `AcquireBootstrap`, `RecheckPopulated`, `AcquireNetworkBootstrap` | the locks of the cohort, and the check after the wait |
| `FindMissing`, `DownloadSeeds` | `provision_missing_targets` up to the import |
| `BeginImport`, `FinishImport` | `import_dumps` in the worker: one transaction for the whole cohort |
| `ProvisioningFails` | any of these fails: each network is left to provision itself |
| `Cancel`, `EndOrphan` | `provision_until_stopped`, and the `ImportSessionGuard` that outlives it |
| `RunLeader`, `RunNotLeader`, `CycleEnds`, `CycleFails`, `LoopStops` | `run_network_loop` |
| `Stop`, `Kill` | `SchedulerHandle::stop`; a closed tab |

A cycle only moves watermarks here; what it writes is `LocalDbSync`'s. Left out: the comparison of
the schema version that resets the database before the loops start, and the events
sent to the page. Network locks are taken to work in this module. When a request for one fails,
`leadership.rs:97` (and `:103` outside a browser) goes on with a guard that locks nothing; `SeedOnce`
and its theorem speak of working locks only, while `LocalDbSync` and the run **lockless** have the
no-op guard. The bootstrap locks have no such fallback (`leadership.rs:114`).

**LocalDbProducer.** Variables: `remote` (the published dumps and manifest), `out` (the files
under `out_root`), `prev` (the entries a run fetched), `job` (one per target), `phase`. A dump is the
watermark it holds; an entry is the end block and the block whose hash it states,
which come from two places: `export.rs` takes the first from the cycle's outcome and the
second from the database. `Start`, `Download`, `RunEngine`, `Export`, `ReadWatermark`, `JobFails`,
`BuildManifest` follow `run` and `run_raindex_job`; `Crash` ends a run anywhere; `UploadDump` and
`UploadManifest` are what the command's README asks of whoever runs it ("Upload the
generated .sql.gz files ... before distributing manifest.yaml"). One producer runs at a time,
and files are uploaded whole. Two things were met on the way that no property is about.
`crates/cli/src/commands/local_db/README.md` says that the manifest is "generated only when every
raindex finishes successfully", while `run` writes one with the previous entries of the
targets that failed (`mod.rs` 181-199), and the model follows the code. And after a cycle on
an RPC that is behind the imported dump, the entry's end block is lower than the block
of its hash.

**RaindexIndexers.** The contract is reduced to its events: `vaults`, `live`, the `log`, and for each event the
state when its operation was over (`after`); `dust` collects what deposits pull above what they
credit, since `DepositV2` carries base units. `sg` is the subgraph (position in the log, balances,
active orders, `ClearTemporaryData`, and whether the decimals of each token are known), with one action per handler; `db` the local DB's derived tables,
written by `SyncWindow` as the statements of one window do, for any cut of the blocks.
Operators have the names of views and tables. The order in which rows of one place of
the log are inserted is not defined by the SQL, so `BalanceChanges` is a set of outcomes.
`Asked` is `getERC20Entity`: the first event that names a token calls its `decimals()`, and a call that
reverts is stored as null for good. `addOrder5` never calls the token, so an order may name one that
has no code yet; what a token of `Mute` answers is left open. `handleDeposit` returns early for a token
without decimals: from then on the contract credits deposits that the subgraph leaves
out, and withdrawals, which carry a Float, are still taken off. `SubgraphAgrees` therefore adds
`LeftOut`, the sum of exactly those deposits. Events are handled once their block is mined.
Left out: the subgraph's records of single events, names of tokens, meta, and vault 0, for
which neither index means a balance. Nonces of one owner are assumed distinct: `fetch_orders`
groups by owner and nonce, and clients draw nonces at random.

**RaindexArb.** Variables: `held` (the contract's balances), `allow` (its unlimited approvals),
`planted` and `orders` (the approvals and the contract's own orders that calls of others' choice
left), `stray` (coins that came in where no arb was going to sweep them), `lost` (what others took during
the sender's arb), `stack` (its open calls) and `saved` (what a revert restores). Every step ends in a call
that leaves the contract; there `Other`, everybody but the sender and the pool it trusts,
may call the callback, open an arb of its own, pull what is approved to it, or send coins.
The generic contracts make a call that their caller chose, as themselves (`LibGenericPoolExchange.sol:46`),
and line 47 takes back only the approval of line 44. So in an exchange of `Other`'s the contract may
approve anybody for any token (`CallApproves`), send any coin (`CallSends`), add an order of its own
to Raindex (`CallAddsOrder`) or start an arb whose sender is itself (`arb` by `Self`), and approvals
and orders outlive the call. The sender's own data name a pool it trusts. Coins of any
kind may come in at any time (`Receives`); only the two tokens of an arb and the native coin are swept
(`LibRaindexArb.sol:19`). `Raindex` is the calls it makes and the tokens it moves, not the module of
that name: what a batch pays is that module's subject. Amounts are units; a pool may pay
nothing, in which case the pull can only revert.

**TakeOrdersClient.** One call of `getTakeOrdersCalldata` after its quotes are in. `req` holds the request and the
world it meets at its block: quotes, orders that revert, orders that share a vault (and so
miss a minimum together), allowances, the taker's balance. Amounts are ticks (`Unit` to a base unit) and
ratios halves, which makes every product exact. Selection is a set of operators with the
code's names; `Select`, `CheckApproval`, `Simulate`, `DiagnoseSingle`, `DiagnoseProbe`, `DiagnoseWhole` are the awaits of
the preflight loop. An RPC may fail a bounded number of times (`MaxFlakes`). Left out: oracles and signed
context (part of a quote), the single-order variant, calldata encoding.

## 3. Runs

The runs **take** and **clear** use a base unit of two quanta and odd amounts, so that
every conversion rounds in some behaviour. They assume no fairness: callers may stop at
any moment, and the properties are safety properties. Deadlock is checked.

**take** (`MCRaindexTake`). Alice has two orders selling dai for eth: one from her vault
into her wallet, one from her wallet into her vault. Tia takes them in a batch that
bounds its input and has a callback, or in one that bounds its output and has none.
Amounts {3}, budget 4, loans of one base unit, `MaxDepth` 2 (a loan inside a batch, a
batch inside a loan, a loan inside a loan). About 1.1 million states. Two orders are
enough for the shared slot, for stale stores and for remaining IO; depth 2 is
enough for a guarded call under and above a loan.

**clear** (`MCRaindexClear`). Two owners with crossing and non-crossing evaluations,
vault and wallet legs on either side, bounties into vaults or wallets, a clearer who
is an owner, one more order of the same owner, an order without a handle-IO source
that cannot be added, plain transfers into the contract, allowances that shrink,
and a post task that resets a store. About 170 thousand states.

Both of these use `VIEW Unsaved`, which drops the saved states from the fingerprint: a revert
leads back to a state that the behaviour has already been in, so two states that
differ only in what they would restore satisfy the same properties. The callers and
the loans of the stack stay in the view.

| Property | Says |
|---|---|
| `TypeOK` | types; in particular no balance and no remaining IO goes negative |
| `BooksBalance` | holdings + loans + what the batch is due = vaults + dust, always |
| `Solvent` | between transactions, holdings cover the vaults ("keeps the orderbook solvent") |
| `VaultZeroEmpty` | no credit stays in a vault 0 slot outside a batch ("always zero at rest") |
| `FlushCovered` | once the taker has paid, no payout can fail ("the orderbook always holds enough") |
| `TakenOrdersLive` | nothing removes an order in the middle of the batch that took it |
| `GuardHeldOnce` | one guarded call at a time; set exactly while there is one |
| `BudgetKept` | same-owner orders of a batch or a clear do not spend a budget twice |
| `TakerTerms` | the whole batch keeps `maximumIO` and `maximumIORatio` |
| `OwnersOnly` | only the owner, or a live order that names the vault, lowers a vault |

**sync** (`MCLocalDbSync`). Two tabs with Web Locks over a chain of three to five blocks,
deployed at block 2, finality depth 1, at most two blocks per cycle, one
reorganisation, two faults, dumps that end at block 3 or 4, threshold 1. About 290
thousand states. Five blocks are enough for a dump, a window that is capped
and one that is not, and for a database too far behind a second dump; two
faults for a commit whose answer is lost followed by a restart; two clients for a change
of leadership in the middle of a run. Deadlock is not checked in the four runs
of `MCLocalDbSync`: the chain is bounded, and a second tab that gets no lock only waits.

Fairness: weak fairness of each client's steps. The scheduler (`runner/scheduler/wasm.rs`)
runs cycle after cycle whatever the last one returned, and an `await` either answers or
fails. Nothing makes the chain grow, and faults are bounded by `MaxFaults`: `CatchesUp` is
about the time after the last one. An import may fail as often as the code lets it
try (`MaxImports`), without any fault.

**shared** (`MCLocalDbSync`). Two clients that both hold the no-op guard, which is what
`leadership.rs` gives natively and where Web Locks fail. They overwrite each other's
watermark, but the database never misses a log: the one that is behind either
fails on an event it would write twice, or moves the watermark back over
blocks that are then read again. About 430 thousand states.

**lockless** (`MCLocalDbSync`, a violation). The same clients do not keep `SingleWriter`:
`apply.rs` says "the caller will ensure single-writer semantics", and the caller's
no-op guard does not.

**continuity** (`MCLocalDbSync`, a violation). A reorganisation one block deeper than the
finality depth: `pipeline/mod.rs` says "producer verifies parent hash continuity vs
stored watermark hash", but no code compares the stored hash, and the next window is
added on top of the replaced block.

| Property | Says |
|---|---|
| `TypeOK` | types; the watermark is a block, failed imports stay within their bound |
| `Faithful` | the database holds exactly the logs of the chain up to its watermark |
| `MarkOnChain` | the hash of the watermark, read after the logs, is that of the chain |
| `StoreSetsComplete` | no `Set` event after the order that named its store is missing |
| `SingleWriter` | a batch is written over the watermark that its window came from |
| `ImplementsReplica` | the clients implement `LocalDbReplica` |
| `CatchesUp` | the database reaches the requested block and stays there (liveness) |
| `NoLogMissed` | even with several writers no log up to the watermark is missing |

**scheduler** (`MCLocalDbScheduler`). Two tabs, two networks, two raindexes on one of them; the database
is empty or holds one raindex of an earlier visit; heads at block 2, two faults, one tab
stopped or closed; an interval of 2 and a ceiling of 3, so that the second failure
meets it. About 220 thousand states. Two networks are what makes a cohort, two tabs what
makes every lock contended, and a raindex that is there already what makes provisioning
partial. Fairness: weak fairness of a tab's provisioning and of each of its loops: tasks of a
page keep being scheduled, downloads time out, lock requests are polled, and the worker expires an
import whose tab is gone. Nothing is assumed of `Stop`, `Kill` or faults. A tab that is stopped
stays so, hence no check for deadlock.

**producer** (`MCLocalDbProducer`). Two raindexes, four blocks, RPCs up to two blocks behind, finality depth 1.
Two targets are enough for a failed job beside a good one; a lag of two is enough for a
cycle that ends below the dump it imported.

**indexers** and **history** (`MCRaindexIndexers`). An order from a vault into a wallet and one from vault to vault, one
owner of which also clears with a bounty into his traded vault; deposits of one and a half base units; two
operations after the funding block and three blocks to cut (the fourth is never mined and stays empty); one
token may fail to tell its decimals. Two operations are
enough for two clears, or a removal and an addition, of one transaction, and for a window that
starts between them. Both are finite in operations and blocks and stop at the end of them, so
deadlock is not checked. **history** is a violation: the changes listed for a vault do not add up
when a clear's bounty goes to a vault that it trades, since the primary key of
`vault_balance_changes` has no `change_type` and the insert ignores conflicts.

**arb** (`MCRaindexArb`). Three tokens, so that one is foreign to every arb, and the native coin; one
unit of each, one stray coin and one approval or order left by a caller at a time, calls two
deep: a callback and an arb opened in it, or an arb and its exchange. Tokens are symmetric.
About 1.8 million states. One unit suffices because the steps ask only whether something is
held; the theorems have no bound.

**takeclient** (`MCTakeOrdersClient`). Every mode over four orders of two Raindexes with three price and four
capacity patterns, every set of reverting orders, allowances and balances that suffice
or not, one failure of the RPC. About 420 thousand states.

| Property | Says |
|---|---|
| `SeedOnce` | a cohort's import never meets a watermark that is there already, where network locks work |
| `LeaderCaughtUp` | a leader reports a chain active only when all its raindexes are at the head |
| `Converges` | tabs that are left end up ready, and what they read complete (liveness) |
| `StopReleases` | a stopped or closed tab gives back locks and worker (liveness) |
| `Paced` | waits under failure never shrink and stay between interval and ceiling |
| `EndNotAhead` | a published entry never says more than its dump holds |
| `PublishedKept` | no target leaves the manifest, no published dump goes back |
| `SubgraphAgrees` | after every event the subgraph is the contract, up to the rounding of deposits and, for a token with null decimals, exactly its deposits |
| `LocalAgrees` | so are the derived tables at the watermark, however windows are cut |
| `TradesReplay` | every take and clear has its trades, with the balances after it |
| `HistoryAddsUp` | a vault's listed changes add up to its balance (violated) |
| `EmptyBetweenUses` | between uses an arb contract approves only what callers' own calls approved (the route processor's nothing) and holds only stray coins |
| `OnlyOwnSteps` | while a sender's arb runs nobody gains a right over its coins that was not there before |
| `ReadyWillSucceed` | calldata handed out does not revert and keeps the request's terms |
| `BestOfHealthy` | it is the best of the orders that do not revert, whatever was diagnosed |

`BestOfHealthy` leaves three cases out, and in each the code does something else: orders that
share a vault can fail together, which costs the whole Raindex; a taker's balance
below the cap, which nothing checks, makes the client drop orders one by one; and a cap of
broken base units lets an allowance pass that the contract's rounded-up pull does not meet.

Every property of a passing run has a mutant, a plausible bug in the code, that breaks it: a pull that
truncates, a slot not reset, a guard that is missing, a stale store, a payment that
is trusted, and so on. They are defined beside the definitions they replace.

## 4. Proofs

### The contract

For all finite sets of accounts and vault ids, all tokens, orders, evaluations,
arguments, base units and any depth of nesting (`LedgerAssumption`,
`RaindexAssumption`), TLAPS checks:

- `TypeCorrect`, `BooksAlwaysBalance`, `AlwaysSolvent`, `VaultZeroAtRest`,
  `TakenOrdersStayLive`, `GuardAlwaysHeldOnce`, `BudgetAlwaysKept`,
  `TakerTermsAlwaysKept`, `FlushAlwaysCovered`: the invariants above;
- `OnlyOwnersLower`: the action property `OwnersOnly`;
- `TakerIOCorrect`: a fill is within the order's maximum and the taker's rest, costs no
  more than the taker's ratio and pays the order its own, up to a quantum;
- `ClearStateCorrect`: each side of a clear is within both maxima and is paid its ratio,
  up to a quantum; `CrossingOrdersClear`: orders whose prices cross never have a
  negative bounty, whatever the sizes and the roundings.

The argument. `BooksBalance` is not inductive: `Revert` brings back an old ledger, and
the loans and the batch that are pending then are those below the call that failed.
`Inductive` (module `RaindexInvariant`) therefore states soundness of a triple (state,
loans, batch) and requires it of the current state *and of every saved state*, each
with the loans and the batch under its frame (`Restorable`). Soundness has four parts:
`Balanced`; `SlotsAccrued` (a credit in a vault 0 slot belongs to an order that is taken
and not yet flushed, which gives `VaultZeroEmpty`); the taken orders are live; the
budgets hold. `Guarded` pins the batch to the one guarded call, so that a frame
pushed above it does not change what is below. Each action has a lemma of its own.

Sums over vaults are cardinalities of piles (`Total`), so that "credit adds q to the
sum" is a fact about finite sets that the provers can use; `RaindexInvariant` shows
it once, and what each ledger operation does to holdings, promises and dust.
`Solvent` follows from `BooksBalance` with nothing lent and no batch running, since dust
is never negative.

`FlushCovered` needs one more part, again of the current and of every saved ledger
(`Flushing`, `Covered`, `RestoresCovered`): the open vault 0 slots of the input token sum to
no more than what the batch has brought in, and once the taker has paid, to no more than
the contract holds; and no code but the batch's runs during the flush. Before the payment
the contract may well hold less, which is why the bound changes with the phase.
`OwnersOnly` follows action by action: most ledger operations lower no vault
(`NoneLower`), the others only the vault they name (`OnlyLower`), and the action that calls
them says whose it is.

### The local DB

`LocalDbSyncProofs` first shows `WindowBounds` (a window that is not empty starts at a new
block and ends within the request and the cap), `WindowProgress` (a target that is behind
never gets an empty window) and the lemma that the safe head of any height seen so
far is `Depth` deep.

Then, for any clients, heights, depth, cap, threshold, dumps, faults and
import attempts: `AlwaysFaithful`, `AlwaysMarkOnChain`, `AlwaysStoreSetsComplete`,
`AlwaysSingleWriter` and `RefinesReplica`. They hold under `Sound`, which is what the
deployment has to provide: every client has Web Locks, reorganisations are no deeper
than the finality depth, and no start override is set. Each of the three is needed:
the runs lockless and continuity show what happens without the first two, and an
override makes the window skip blocks, which is its purpose.

The argument. `Faithful` says nothing of a run in progress, which holds logs, a target and
a hash read at three different moments. `IInv` adds: `ChainOK` and `ClientOK` (types);
`LockOK` (only the holder of the lock is inside a run, and there is at most one);
`Copies` (the database is a copy of the chain up to a final watermark, and so is its
hash); `CyclesOK` (what each client has read so far is what the chain holds now, for a
window that starts right after the current watermark). The chain may move between any
two steps, so the key lemma is that a chain step leaves every block that is `Depth` deep
as it was; everything `IInv` says about logs and hashes is about such blocks (the `Agree`
lemmas). Then each action has a lemma of its own.

Two theorems do without these conditions. `AlwaysTyped` (`TypeOK`) needs none of them: `Typing`
and `Flow` bound a run's reads by the greatest height seen and its imports by
`MaxImports`, which no lock, reorganisation or override disturbs. `NeverMissesALog` (`NoLogMissed`)
is about clients without locks; its condition `FromChain` drops the locks and asks that
there is no dump. `Filled` then says that all logs up to the watermark are there, and
`Builds` that the logs below a client's window were there when it was computed; rows
are never removed where there is no dump to import, so they still are when the
client writes, whatever the others have made of the watermark in between.

### The producer

`LocalDbProducerProofs`, for any targets, heights, lag and finality depth: `ProducerInvariant`,
`ProducerEndNotAhead` and `ProducerPublishedKept`. `EndNotAhead` is about published files, which come from `out`, which
comes from jobs, which start from published files; so `IInv` closes the circle: `PrevCurrent` (the entries a
run fetched are still the published ones), `OutNotBehind` (a dump that a run writes is no older than the one
it would replace), `JobsSound` (a job's watermark is no older than the dump it imported, and
no job's end is past its watermark) and `Ready` (what may be uploaded fits what is published
at every moment of the upload). `PublishedKept` is an action property and follows from the same
invariant. That a cycle never ends past the watermark it leaves is arithmetic on the
window; the mutant that reports the chain's latest block breaks exactly that.

### The scheduler

`LocalDbSchedulerProofs`, for any tabs, networks, raindexes, heads, faults, stops, interval and ceiling:
`TabsCoordinated`, `SeedsMeetNoRow` (`SeedOnce`), `LeadersCaughtUp` and `BackoffPaced` (`Paced`). That an import meets no row
depends on a check made several awaits earlier; the invariant `Coordinated` carries it over
them: a tab that downloads holds the lock of every network whose target it found missing
(`TabOK`), a cycle runs only under its network's lock (`LoopOK`), and the worker runs one
session at a time, also one whose tab is gone. `LoopOK` also says that a leader's targets are at the
head and that a failing loop's delay is `next_cycle_delay_ms` of its failures. The powers of two of the
backoff are numbers of subsets, so that their growth is a fact about finite sets.

### The indexes

`RaindexIndexersProofs`: `SubgraphAlwaysAgrees`, `LocalAlwaysAgrees` and `TradesAlwaysReplay`, for all owners, tokens, vaults, orders
and amounts, any number of operations in a transaction and a block, and any cut of the blocks
into windows. `IndexersAssumption` asks of the contract what it guarantees (bounties of a clear are not negative, an order's
input and output are different tokens) and of clients that the nonces of an owner's orders
are distinct, without which `fetch_orders` merges two orders.

Both indexes run behind the contract, so the invariant is about the whole log. `Replays`: every event
explains the step from the contract's state before it to the state after it, and a `ClearV3` is
directly followed by its `AfterClearV2`. `Follows`: the subgraph, with the deposits that it has left
out (`Whole`), is the contract at its position, the token of every deposit so far has been asked (`Known`), and
`ClearTemporaryData` is there exactly between the two events of a clear. For the local DB: `Ordered` (blocks
never decrease, every take has an earlier `AddOrderV3` of its order), `Tables` (the deltas are those of the rows
up to the watermark, the running balances their sums), `History` (a change that is alone at its
place shows the sum of the deltas up to it, however the place was cut off from those before)
and `Trades` (each side of a take or a clear has one trade). Sums over deltas are differences of two
cardinalities; that the deltas of a prefix of the log sum to the contract's balances is shown by a
smallest counterexample. The joins of the SQL (the first `AfterClearV2` behind a `ClearV3`, the latest order of an
owner and nonce) each have a lemma that they find the row they mean.

### The arb contracts

`RaindexArbProofs`, for any tokens, amounts and nesting: `ArbAlwaysKept`, `AlwaysEmptyBetweenUses` and `AlwaysOnlyOwnSteps`. `Kept` attributes
every approval to an open call that will still revoke it or to a call of a caller's choice (`planted`), and
every coin to an arb that will still sweep it or to the stray ones. `Nested` says that an arb is the innermost
call or has only its own exchange above it, and that the sender's exchange is a call of its pool; `PoolsOnly` and
`LeftBehind` that the route processor's contract makes no call of a caller's choice and leaves nothing;
`SavedAtRest` that a revert leads back to a contract at rest. When no call is open nothing is left to
attribute. `OnlyOwnSteps` follows because a call of another's choice needs an exchange of `Other`'s, which `Nested`
keeps out of the sender's arb: what others can reach then was left before it began.

### The take-orders client

`TakeOrdersClientProofs`: `ReadyAlwaysSucceeds`, for all requests, quotes, reverting orders and failures of the RPC. `Sound` is what
selection promises of a config: legs within the cap, an input that the cap allows for the output (rounding
included), an exact request filled. Simulation is a fold over the candidates from the best
price on, a recursive function over subsets; that it has a solution, and that `Fills` holds of every
subset, is shown by a smallest counterexample, and that a best Raindex exists by a
lexical maximum. The invariant of the loop, `ClientInv`, adds what ties the checks to each other: where a config is
simulated, its Raindex is the one whose allowance was checked last, and that allowance
suffices. A rebuild may change the Raindex, but leads back to the check.

`BuyersGetTheBest` is `BestOfHealthy` for the requests to buy, for all quotes and all sets of reverting orders, if the RPC fails at
most once for no reason (`MaxFlakes <= 1`, as in the run; with more failures in a row a healthy order is condemned,
which is what two tries mean). Two facts carry it. The first is about selection: candidates that got no leg can
leave without changing anything (`SkippedLeave`), and fewer candidates fill no more, and at no better a
worst price (`FewerAreNoBetter`); so a config without reverting orders that is the best of the remaining candidates
is the best of the healthy ones among them (`FewerBuildNoBetter`). The second is the loop's invariant, `BestInv`: only reverting orders are
dropped, so every rebuild has one candidate less and `iteration + Cardinality(remaining)` never exceeds `MaxIterations`; and
a diagnosis always has a cause (`Diagnosis`): a leg that reverts, or a failure of the RPC that
will not come again. `SimulationsTell` says that in the worlds of `BestOfHealthy` a simulation of the whole and the probe of one order
fail for reverting orders only.

### Only model-checked

- `CatchesUp`, `Converges` and `StopReleases`: liveness under fairness.
- `BestOfHealthy` for requests to spend. It does not hold in the model for all numbers: a leg's input and output are
  rounded down to ticks, so an order that is used up can waste a tick and its removal can make the rest fill more. A spend of 12 over
  orders of ratio 3 (halves) and capacities 3 and 20, the first reverting, against a second Raindex that fills 7
  is one example. The amounts of the run are multiples of the unit for which every leg is exact, as
  Floats are up to their precision.
- The three violations (`lockless`, `continuity`, `history`) are counterexamples; nothing is to be proved of them.

What the library's induction theorems cannot give here (they take an operator as a parameter) is
done with the existence of a least element of a set of numbers (`SmallestOf`, from the well-foundedness of <).

## 5. Plan

Done: the contract and its flash lender; the arb contracts; the sync engine with
leadership, manifests, dump imports and their retries; the scheduler; the producer;
the subgraph's and the local DB's derived balances; the take-orders client; and a theorem for
every safety property of a passing run (`BestOfHealthy` for buys only). What is left:

1. `BestOfHealthy` for spends, over quotes for which every leg is exact.
2. That `EndNotAhead` of the producer justifies what `LocalDbSync` assumes of a dump (`DumpOf`), as a
   theorem about the two modules.
3. The subgraph's records of trades and balance changes, and the single-order take.

## 6. Not modelled

- Interpreter words, sub parser, order hashing, deployment suites, generated pointers: constants and
  encodings without state. An order's hash is its identity in every module.
- The retry helper: to its callers it is one read that answers or fails, which every module allows for.
- The UI's transaction store: one promise chain per transaction that shares nothing with another.
- Quote, settings, REST API, JS bindings and GraphQL clients: parsing, formatting and requests
  without protocol state.
- Token metadata, order meta, status events and everything shown to the user.
