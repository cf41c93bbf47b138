# Global Mining Network: TLA+ models and proofs

This directory models the server of Global Mining Network (`server/`, `workers/`), the Windows
launcher's updater (`launcher-windows/`), and the part of the Godot client that keeps a stream
cursor, in TLA+. The modules are checked with TLC on small instances; what matters most is proved
with TLAPS for every value of the constants. `PROJECT.json` maps each definition to the lines it
translates and lists the runs, the mutants, the findings, the hazards and the theorems.

## The system

| Component | State it keeps | Operations | What is hard | What makes it correct |
|---|---|---|---|---|
| Mining runtime (`api/v1/blockchain.py`, `domain/mining`, `domain/blockchain/store.py`, `domain/economy/ledger.py`) | operations and block contributions in memory; runtime events, active block, finalized blocks, ledger in PostgreSQL | start and stop intents, the advance that every read performs, `process_tick`, recovery | handlers run in a thread pool; memory and four database transactions per tick; a crash between any two | work is conserved and credited once; a block is settled once and in order; memory agrees with the durable history |
| Interval slicer, difficulty, reward settlement | boundaries of an operation; none | slices of a window, retarget, reward and pool shares | fractions of seconds, rounding, ties, clamps | what is credited does not depend on when it is asked for; shares add up |
| Network stream (`domain/blockchain/network_stream.py`, `read_models.py`, `client_sessions.py`, `retention.py`, the websocket) | `network_events`, `client_event_checkpoints`, a cursor per connection and per client | publish, page, send, checkpoint, acknowledge, clean up | sequence order is not commit order; page and latest sequence are two reads; lost messages, reconnects, late acknowledgements | no event of a channel is skipped, except, in the code, by an empty first reply; cursors never run ahead of what was sent |
| NPC market, player marketplace, hardware upgrade | stock, inventory, listings, upgrade operations, a balance that is a sum of ledger entries | catalogue read with restock, purchase, list, unlist, trade, upgrade start and poll | SERIALIZABLE transactions that retry beside READ COMMITTED ones; expiry; idempotency keys | nobody is overdrawn, units are conserved, every sale happens at one moment |
| Pools | pools, memberships | create, join, leave, dissolve | check and insert are separate statements without a lock | a player is in one pool, a dissolved pool is empty; the code breaks both when calls overlap |
| Game events and forks | events, branches, scores, reward rows, balance snapshots | activate, contribute, resolve, cancel; a worker resolves expired forks | worker against administrator; read, then write; one bad fork stops a round | a fork is paid once and crowns the right branch; a cancellation restores balances |
| Players | profile row, offline credit, hashrate cache | profile load in four transactions | racing loads, an upgrade in between | no offline second is paid twice |
| Authentication | players, profiles, sessions, token hashes | register, log in, refresh, log out | refresh against logout, racing rotations | an ended session stays ended |
| Leaderboards | four tables that every request truncates and refills | refresh and read, visibility | four transactions of a request among those of others | a hidden player is on no board |
| Support and moderation | tickets, sanctions, appeals | reply, sanction, review of an appeal | two reviewers of the same sanction | what an appeal lifted stays lifted |
| Player stream | subscriptions, a Redis channel, the client's view | full state, then deltas | the state is read before the channel is listened to | the view never goes back |
| Telemetry | memory queue, `telemetry_events` | emit, flush, send with retries | a worker thread, batches that fail, the stop of the process | what was queued is flushed |
| Clean-up | rate limit row or memory window, the worker's back-off | clean-up endpoint, worker loop | clock read before a lock, restarts, failures in a row | the window's limit holds; the worker comes back |
| Genesis, beta migration | records, starting balances, chain; migrated pairs | create, announce, roll back; migrate | read and write are two transactions; a ledger write that fails last | the launch never falls back; a pair of beta and production accounts is paid once, which the code keeps for one life of the process |
| Economy parameters and experiments | versions per process and in tables | set, roll back, assign, promote | processes with memories of their own, statements that fail one by one | a process's versions are those of the tables |
| Content pipeline and validator | versions, reviews, stages; a dependency graph | stage, review, approve, activate, roll back; cycle search | long sequences of legal calls | an active version lists its stage; cycles are found |
| Admin console | configuration, switches, audit log | set, reset, cancel | the time and the commit of concurrent administrators' entries; changes whose audit is a later transaction | the latest entry tells what is in force |
| Windows launcher | downloaded, installed and backed-up files, the recorded version | check, download, verify, apply, roll back | stops between any two files; the channel moves on; deltas | the files of the recorded version are the verified ones |
| Anti-cheat, explorer, monitoring, analyzer, community, client scenes, tools, bot, admin pages | rows, reports, pages | | | see "Not modelled" |

How they interact: an HTTP read or a websocket poll calls `_advance_operation_runtime_once`, which
ticks every registered operation under one process lock. A tick adds work to the active block in
PostgreSQL; when the block is full it is finalized in the same transaction, its rewards are computed
from the contributions in memory, the ledger is posted in two more transactions, and events are
published to the network stream. Market, marketplace, upgrades, events and genesis write the same
ledger; a balance is a sum over it. `Economy` takes rewards as an action `Earn`, `GameEvents` other
ledger entries likewise; `GenesisLaunch` shares the chain with the mining runtime and takes finalized
blocks as an action.

## Modules

| Module | Role |
|---|---|
| `BlockSettlement` | the abstract promise: blocks are finalized one after the other, each posted to the ledger at most once as a pool and then as shares, and announced at most once and after its pool |
| `MiningRuntime`, `MCMiningRuntime` | intents, advance, tick, finalization, settlement, failure, crash and recovery of one server process |
| `MiningRuntime_proof`, `MiningRecovery_proof`, `MiningWork_proof` | its theorems: control, claims and settlement; memory and history; the balance of work |
| `NetworkStream`, `NetworkStream_proof`, `MCNetworkStream` | publishers, websocket handlers, checkpoints, retention and clients |
| `AtomicShop` | the abstract promise of market, marketplace and upgrades: a sale happens at one moment, at which the buyer has the credits and the listing the units |
| `Economy`, `Economy_proof`, `MCEconomy` | the transactions that implement it |
| `MiningPools` | pools and memberships, statement by statement |
| `GameEvents` | activation, contributions, resolution, cancellation, the worker's rounds |
| `Sessions` | registration, login, refresh, logout, expiry |
| `PlayerProfiles` | a profile load and what may overtake it |
| `Leaderboards`, `Moderation`, `PlayerStream` | boards and visibility; tickets, sanctions and appeals; full state and deltas |
| `SettlementRules`, `IntervalSlices` | block reward, its allocation, pool shares and the retarget; the slices a tick credits |
| `Services`, `Services_proof`, `MCServices` | the nine modules above (`MiningPools` to `IntervalSlices`) side by side; their theorems; their instance |
| `Telemetry`, `Maintenance` | the telemetry worker; the clean-up worker and its rate limits |
| `GenesisLaunch`, `BetaMigration` | genesis records over the chain; the migration of beta players |
| `EconomyTuning`, `ContentPipeline`, `ContentValidator` | parameters and experiments; content versions; the search for cycles |
| `AdminConsole`, `LauncherUpdate` | configuration, switches and audit; the updater, file by file |
| `Operations`, `Operations_proof`, `MCOperations` | these nine, and the forks with their worker, side by side; their theorems; their instance |
| `FiniteSums` | lemmas about the sum of a function over a finite set |

The modules that `Services` and `Operations` put together share no variable. A variable `focus`,
chosen initially, says which of them runs; the others stay as they start. So a run explores the
union of their state spaces, not the product, and a temporal property of one module is not weakened
by another: its fairness is stated of the module in focus. `Operations` takes its `focus` from the constant `Parts`.

Modules keep history variables where a property speaks of the past; each is marked "not program
state" where it is declared. A guard reads one only to bound a run (`minted`, `tally.elapsed`) or to let an input
happen once (`fate`), never to decide what the program does.

### MiningRuntime

A thread serves one request at a time. Its `pc` says between which two of its steps it stands; a
step ends at a database commit or at an access to shared memory that another thread can observe.

| Code | Action |
|---|---|
| `start_operation_intent` | `StartIntent` (checks), `StartPersist` (the durable event), `StartRegister` (the dictionary) |
| `stop_operation_intent` | `StopIntent`, `StopPersist`, `StopDelete` |
| the 503 of either | `PersistFails` |
| `_advance_operation_runtime_once` | `AdvanceBegin` (takes the lock, lists the operations), one tick per operation, `AdvanceEnd` |
| `process_tick` | `TickUnregistered`, `TickUpToDate`, `TickRead` then `TickClaim` (the new `last_processed_at`), `WorkAdded` or `BlockFinalized` (`add_work` and the contributions), `PostPool`, `PostShares`, `Announce`, `PublishProgress` |
| an exception of a database call in it | `TickFails`: the lock is released, committed rows stay |
| process restart, `_recover_runtime_operations` | `Crash`, `Recover` |

`operations`, `contributions`, `runtimeLock` and `recovered` are process memory and are lost in a
crash; `events`, `active`, `finalized`, `ledger`, `announced` and `progress` are tables. `credit`
(how often each second of each run of an operation was credited) and `raced` (operations that had
two intents in flight together) are history variables. Work is hashes per second times seconds.

### NetworkStream

A row is its sequence number and carries a topic, which is what a channel filter tells apart.
`Insert` assigns the number, `Commit` makes the row visible. A handler goes through `List`,
`ReadLatest`, `Send` or `SkipEmpty`, `WriteCheckpoint`, and then `TakeAck` or `PollAgain`; `End` is an
eviction, a noticed disconnect, an exception or a server stop. A client has one connection, an inbox
and acknowledgements under way; opening a connection drops the old one, whose handler may go on for
a while. `Refresh` is a snapshot, `ReadMissingCheckpoint` and `Restore` are `GET /checkpoints` without a
row, `RestoreCheckpoint` with one, `PersistCheckpoint` is the `PUT`. Of the history variables of a handler `base` is
the cursor its connection started with, and `jump` the one that an empty first reply moved it to: that
reply's page and its latest sequence are two reads, so rows may lie between them.

### Economy

A request is a transaction: it begins with a snapshot (`BeginPurchase`, `BeginTrade`, `StartUpgrade`)
that makes the checks of the code, and writes when it commits (`CommitPurchase`, `CommitTrade`,
`CommitStart`). Purchases, trades and upgrade starts run SERIALIZABLE. What PostgreSQL must fail is
marked `doomed` by the commit that conflicts with it: a transaction whose locked or written rows have
changed since its snapshot, and one of two that read what the other wrote. `Fails` ends any
transaction, doomed or not, and tries again as the code does (three attempts, fresh checks; two
in the instance). Catalogue reads (`BrowseReads`, `BrowseWrites`: the restock), listings and upgrade
polls (`StatusReads`, `StatusCompletes`) run READ COMMITTED and are doomed by nobody: what they
read may be old when they write. `Stocked` are the items with a limited inventory; of the others the market
sells any number, and no purchase reads or writes their stock. `FindsExpired` closes a listing without giving its units back, and a
replaced hardware's inventory row is deleted whatever it counts (`tally.lost`). `uncounted` holds the
upgrade costs, whose ledger entry type the balance leaves out, and `CommitStart` keeps the two unique
indexes that the check before it does not replace: one running upgrade of a player, one use of a key. A purchase's restock is dated when
the call began, its retries included; the model counts the units due at the snapshot of the attempt.

### The services players meet

* `MiningPools`: `join_pool` is three statements (the pool is active, the player is in no pool, the
  insert); `dissolve` sweeps the members it sees and commits later, holding their rows (`Locked`).
* `GameEvents`: a resolution reads the branches, then writes winner, rewards and status; a
  cancellation reads the balances, then posts the differences. Neither looks at the status again. An
  activation takes a snapshot of the players who have ledger entries; of the others it has none. The
  worker lists the expired forks of a round (`queue`) and resolves them in the order of their ends (`IsNext`); an active fork without two
  branches raises and ends the round, and those behind it wait for the next one, which raises again.
* `Sessions`: a refresh verifies a token in one transaction and rotates it in another, whose UPDATE asks for
  a session that is neither revoked nor expired, but not for the old hash: of two refreshes with one token the
  later wins, and the other client holds a dead one. A registration is three transactions.
* `PlayerProfiles`: a load counts the blocks, writes the progression, reads the state, and writes what
  it computed; the offline window is paid by a compare-and-set of `last_offline_progress_at`.
* `Leaderboards`: a request refreshes the four boards one after the other, each in a transaction that
  begins with TRUNCATE and holds its lock, and then reads the one it was asked for.
* `Moderation`: a review reads the clock, then commits; two reviews of one sanction may commit in
  either order. `PlayerStream`: the full state is read, sent, and only then is the channel subscribed.
* `SettlementRules`: one calculation per behaviour, on whole millionths. `Nearest` allows either
  neighbour where the 28 digits of a Decimal quotient decide a tie. An event's modifier, which nothing validates,
  is any integer in units of one `Scale`-th: the reward is rounded to even after it, and may be below the minimum,
  zero or negative. Of a negative reward the code takes the residual back only from amounts above zero, and
  where there are none its loop does not end; `Returns` leaves those calculations out.
* `IntervalSlices`: boundary events of one operation and the ticks that credit a window slice by slice;
  `Parts` is the number of instants per second. A boundary is filled, as the code fills it, from the
  multiplier and the pause of the last tick (`Filled`); `history` keeps both what was said and what it was taken
  for, and a replay fills what was said anew. A boundary behind `last_processed_at` is late and stays
  out of `history`. `MiningRuntime` keeps whole seconds.

### What operators, workers and the launcher do

* `Telemetry`: the queue, the batch the worker gathers, its one INSERT (`Persist`), and a thread that posts
  the batch whether it was stored or not. `_post_json` swallows every failure, so the first attempt counts
  as sent. The INSERT names a conflict target that is not the primary key, so it stores nothing.
* `Maintenance`: the limiter's row, whose clock was read before the row was locked (`Lags`), or the
  process's own window, lost in a restart; other callers; the worker's sleep and back-off. Its clock
  counts half seconds of age, so it needs no bound, and tells apart what the limiter's cast to whole seconds
  rounds up: a window is over half a second early (`WindowOver`).
* `GenesisLaunch`: create, announce and roll back each read the record in one transaction and write in
  the next, which checks nothing again. `BetaMigration`: under the lock, profile and pair are
  changed in memory, and the ledger transaction comes last and may fail. A balance that the ledger's column
  cannot hold is rejected (`BalanceLimit`). A restart forgets profiles and pairs and keeps the ledger, so the same
  pair can be paid again; a beta account can be migrated to two production accounts at any time. Nothing in
  the repository but its tests makes a `BetaMigrationService`.
* `EconomyTuning`: versions of two processes and the tables, statement by statement, each of which may fail.
  A promotion reads the current values before it takes the lock. An experiment and its cohorts are memory of the process
  that created it, are remembered before their INSERT, which is not tried again, and are lost in a restart.
* `ContentPipeline` is memory of one process; `ContentValidator` is the depth-first search
  itself, one visit per step, over every graph of the instance.
* `AdminConsole`: a configuration change reads the old value, writes (which locks the row), takes the time
  of its audit entry, and commits, in four steps; another administrator may come between any two, as far as the lock
  allows. A switch is in memory and a cancellation is the event service's commit: both are audited in a transaction
  of its own afterwards, which may fail.
* `LauncherUpdate`: a file's content is that of a version, the delta to a version, damaged, or none. A file with a delta is
  downloaded, verified by the delta's checksum and copied over the installed file as the delta it is, as the code
  does. A stop, or an exception (`CutShort`), may fall between any two files; the channel may release a version
  at any time. Two files of one base name in different directories share their place in the download directory
  and in the backup; the instance and the proofs leave such manifests out.

## Runs

| Run | Checks | Instance and why it is enough |
|---|---|---|
| `mining_runtime` | `TypeOK`, `WorkConserved`, `CreditedOncePerLife`, `AttributionBounded`, `MemoryMatchesHistory`, `ProgressMonotone`, `SettlesBlocks` | two threads, two operations, two players, two starts, one stop, one crash, one failed call, clock up to 2. A block needs 3 units and a tick yields 2 or 4: blocks are left open, overflow and carry work over, and a crash falls between any two steps |
| `mining_liveness` | `AdvanceCompletes`, `EveryBlockSettled` | two threads, one operation, one failed call |
| `recovery_credits_again` | violates `RecoveryNeverInventsWork` | see Findings |
| `reward_entry_lost` | violates `RewardEntryCoverage` | see Findings |
| `stream_safety` | `TypeOK`, `OnlyEmptyFirstReplySkips`, `CursorsWereOffered` | one session with two handlers, so that an old connection is served beside the new one; two rows, pages of two rows trimmed to one, and retention of one row, so that rows are hidden behind a page, trimmed from it and deleted under a reader. One message in flight |
| `stream_liveness` | `PageDelivered` | one handler, three rows, pages of two rows trimmed to one |
| `reconnect_loses_events` | violates `ReconnectLosesNothing` | the code's page of four limits |
| `channel_starves` | violates `EveryEventDelivered` | two rows of other topics fill a page of two; with the code's factor it takes four times the limit |
| `economy` | `TypeOK`, `NoOverdraft`, `UnitsConserved`, `SoldWithinSupply`, `StartsOnce`, `AtomicTrades` | three players of whom one only trades, two hardware tiers that one player may climb, one listing, two requests in flight (interchangeable: symmetry), rewards for three units, one unit restocked; the starter is an item without a limit. Any two transactions meet over stock, balance, listing, hardware or operation |
| `services` | `TypeOK`, `ForksAreSettled`, `CancelRestoresBalances`, `EndedStaysEnded`, `OfflineTimePaidOnce`, `HiddenStayHidden`, `LiftedStaysLifted`, `ViewMovesForward`, `RulesHold`, `OnlyFillingBreaksParity` | two of whatever races (requests, loads, staff) over one or two of what they race for; the sizes are at each instance in `MCServices`. The settlement's inputs are chosen so that each clamp, tie and residual occurs, with modifiers below zero, zero, a half, one and above |
| `operations` | `TypeOK`, `CleanupsAreLimited`, `ProcessesAgreeWithTables`, `ContentIsSound`, `ConfigIsAudited`, `RecordedIsInstalled`, `ExpiredForksAreResolved`, `QueuedIsFlushed`, `WorkerComesBack`, `LaunchIsSound` | as above; two forks so that one can hold up the other, three emissions in batches of two, three versions of which one adds a nested file and one drops a file and has a delta; two processes of one thread each and one version beyond the first, which both may insert; balances that round either way, are negative or out of range |
| `polls_lose_work` | violates `ReplayParity` | half seconds, one boundary |

`PageFactor` is 4 in the code (`limit * 4`) and a constant in the model, so that a page can be filled
with few rows; no property depends on its value. `Max...` constants bound clocks, requests, tokens,
crashes, failures, rows, connections and messages in flight; they only cut off behaviours.
`OnlyEmptyFirstReplySkips` is checked with one publisher at a time: sequences are assigned
at INSERT, so with two open inserts a handler can pass a row that becomes visible later.

Deadlock is checked in the runs of `MiningRuntime` and `NetworkStream`: no reachable state is without a
step. In `economy`, `services`, `operations` and `polls_lose_work` it is not: there a call that has nothing left to do
within the bounds (every session created, every calculation made) is the regular end.

Several properties are conditional, because the code keeps the promise only so far, and each says how
far. `OnlyEmptyFirstReplySkips` excepts the rows that an empty first reply jumps over.
`CreditedOncePerLife` bounds how often a second is credited by the number of times the process was started, in
total. `ForksAreSettled`
excepts events that a handler meddled with and work recorded after a resolution had read the branches;
`CancelRestoresBalances` excepts players whose ledger moved between the two halves of a cancellation, and leaves
those without a snapshot as they are. `SoldWithinSupply` excepts a catalogue read that wrote its restock over a
purchase. `OnlyFillingBreaksParity` supposes that every event was taken for what a replay takes it for.
`RecordedIsInstalled` compares with what the manifest's checksums verify, and excepts an apply that was cut short
or rolled back. `LaunchIsSound` holds as long as administrators' calls do not overlap, and lets a pair be paid once
in each life of the process. `CleanupsAreLimited` is about stretches shorter than the window by half a second and
the longest wait, and allows one call less than twice the limit for a row read with an old clock; the limit
itself is kept only by a server that counts in memory. `ExpiredForksAreResolved` excepts a round that raises,
`WorkerComesBack` a worker that an unlisted exception has ended. The exceptions are
reachable in the instances: without its exception each of these fails.

### Fairness

`MiningRuntime`: weak fairness of the steps of a handler that has begun, for every thread: the thread
pool runs it on. Requests, the clock, crashes and failures are not fair. `NetworkStream`: weak fairness
of a handler's loop (the event loop runs it) and of the client reading its socket; strong fairness of
`TakeAck`, because a receive returns a message that has arrived instead of timing out. A connection is
never forced to stay open: the liveness properties allow for its end. `GameEvents`, `Telemetry`: weak
fairness of the worker, a loop that its process runs for as long as it lives; handlers, failures and
stops are not fair. `Maintenance`: weak fairness of the passing of time and of the worker's own
steps. `Economy` and the other modules claim no liveness and assume no fairness.

### Findings

* `recovery_credits_again`: recovery registers an operation as of its start event, so the work credited
  before the restart is credited again (`blockchain.py:146`, against the comment at line 161).
* `reward_entry_lost`: `add_work` finalizes a block in its own transaction; after a crash before the
  posting nothing ever posts its reward, while the sign-off checklist (line 53) requires coverage.
* `reconnect_loses_events`: `GET /checkpoints` without a row answers a cursor behind the first event. The
  property also fails when an empty first reply jumps to a latest sequence read later than its page,
  when a page holds no row of the channel, when a sent message is lost after its checkpoint was
  written, and when rows commit out of sequence order.
* `channel_starves`: an open connection lists the same page for ever once it holds rows of other channels
  only.
* `polls_lose_work`: a slice counts whole seconds (`interval_slicer.py:107`) while
  `last_processed_at` moves to the instant of the tick, so every tick drops its fraction of a second: two
  polls credit less than one over the same history. On whole seconds the cuts alone change nothing
  (`services`), but see the filling of events below.

Met while modelling, without a run of their own. Where a property is named, its module states the promise and says
what breaks it; given to TLC as the invariant or property of the module's instance, it yields a counterexample.

* The cost of an upgrade is posted as `hardware.upgrade.start.v1` (`upgrade_runtime.py:16`), which
  the balance does not count, against "Atomic ledger-backed cost deduction"
  (`docs/client-ui-roadmap-v1.md:206`): `UpgradeCostDeducted` in `Economy`.
* A catalogue read computes the restock from a row it has not locked (`market/service.py:488`) and may
  write it over a purchase, against "no double-sells" (`docs/m2-economy-implementation-tickets.md:140`):
  `NoDoubleSells` in `Economy`.
* Two polls that read the same ripe upgrade both complete it (`upgrade_runtime.py:97`); the later equips it over
  hardware bought since, against "Upgrade completion replay produces same hardware state"
  (`docs/m2-economy-implementation-tickets.md:185`): `CompletionReplays` in `Economy`.
* An empty first page answers the latest sequence, read in a later transaction (`read_models.py:234`); a row
  published in between is never sent on that connection: `NothingSkippedWhileStreaming` in `NetworkStream`.
* What an event leaves unsaid is filled from the state of the last tick (`mining/service.py:137`): a pause at 1
  and a change of hardware at 2 leave the operation paused with a tick between them and running without, even on whole
  seconds, against the slice-1 contract (lines 95, 103-104): `ReplayParity` in `IntervalSlices` with `Parts = 1`.
* Two joins that overlap leave a player in two pools, and one that overlaps a dissolution leaves a member in a
  dissolved pool (`pools/service.py:106-131`): `OnePoolEach` and `DissolvedIsEmpty` in `MiningPools`.
* An audit entry may name an old value that was not in force (`admin/service.py:128`), against "full change
  traceability" (`docs/master-build-plan-v1.md:699`), and a cancellation may have no entry (line 221), against
  "Immutable audit logging for all privileged actions" (`docs/implementation-plan-v1.md:747`):
  `ChangesAreTraceable` and `CancellationsAreAudited` in `AdminConsole`.
* The launcher copies a delta as it is over the installed file (`Updater.cs:207`), against "Implement delta patch
  apply" (`docs/implementation-plan-v1.md:703`), and after an apply that was cut short a rollback records a version
  it has not restored (`Updater.cs:239`), against "Rollback can restore the previous good build" (line 731):
  `DeltasAreApplied` and `RollbackRestoresBuild` in `LauncherUpdate`.
* A rollback that read its record before an announcement archives the announced genesis
  (`genesis/service.py:210`): `AnnouncedIsImmutable` in `GenesisLaunch`.
* A restart forgets which pairs were migrated (`genesis/migration.py:36`): `PairsPaidOnce` in `BetaMigration`.
  A beta account that is migrated to a second production account is another pair (line 47).
* A cohort is remembered although its INSERT failed, which is not tried again (`experiment.py:76-83`).
* An event's `modifier_value` is not validated (`api/v1/events.py:16-22`): a reward may fall below the minimum or
  below zero, and the allocation of a negative one need not end (`reward_settlement.py:69`).
* A listing found expired by a purchase is closed with its units in it (`marketplace/service.py:297`).
* An expired fork without two branches keeps those behind it from being resolved, in every round
  (`events/service.py:458`).
* `ContentPipeline` rolls back to any earlier version without a review (`content/service.py:123`).
* An empty list of subscriptions filters nothing (`stream/encoder.py:109`); nothing calls
  `publish_player_state_change` yet, so `PlayerStream` assumes that changes are published in order.
* `first_response_at` of a ticket is that of the reply that commits first, which need not be the earlier one.
* The launcher restores the backup of a nested file to the root of the installation
  (`launcher-windows/src/Updater.cs`), which is why `RecordedIsInstalled` excepts a rollback.
* `ON CONFLICT (event_id)` in `telemetry/service.py:281` matches no unique index: the primary key is
  `(event_id, timestamp)` (`database/migrations/0016_telemetry_events.sql:17`), so no batch is stored. The branch
  that counts dropped events is never taken, as the queue has no limit.

## Proofs

Every `ASSUME` is evaluated by TLC in a run. `MiningRuntime_proof` proves, from `RuntimeAssumption` alone
(finite bounds are natural numbers, rates and required work are positive, `None` is nobody):

* `TypeCorrect`: `Spec => []TypeOK`
* `CreditedOnce`: `Spec => []CreditedOncePerLife`
* `RuntimeSettlesBlocks`: `Spec => SettlesBlocks`, that is, `MiningRuntime` implements `BlockSettlement`
* `Invariant`: `Spec => []IInv`, on which they rest

`CreditedOncePerLife` is not inductive. A second is credited when a tick adds its work, long after the
tick read where its interval begins, so one has to know that in between nobody else could claim the same
interval. `IInv` adds, part by part:

* `ControlOK`: what each program counter implies. Exactly the holder of the runtime lock is inside an
  advance (`LockOK`), an intent or a tick is there exactly when the thread is serving one (`IntentOK`,
  `TickOK`), the run a tick belongs to has started (`RunOK`), and before recovery everything is quiet
  (`QuietOK`).
* `SidOK`: a run id belongs to one operation: among durable start events, intents in flight, registered
  operations and the tick in progress, the same id means the same operation.
* `ClaimOK`: while a tick has not yet added its work, the object in the dictionary, if it is still the same
  run, has its `last_processed_at` at the start of the tick's interval before the claim and at its end after.
* `CreditOK`: the seconds this life of the process may still credit (those at or after
  `last_processed_at` of a registered run, from the start of the interval of the tick in progress, or of a run
  still to be registered) were credited at most as often as there were restarts.
* `SettleOK`: the ledger and the announcements name finalized blocks only, and for the block being settled
  the program counter says which of its entries are already there.

Only the lock holder ticks, so at most one claim is open; a tick moves `last_processed_at` past its
interval before it credits it; a stop and a second start give the new run another id. `TypeOK` is a part
of `IInv`.

`MiningRecovery_proof` proves `MemoryMatches`: `Spec => []MemoryMatchesHistory`. The property compares what memory
holds of a run with a replay of its durable events, and excepts operations that were raced or have an intent
between its two writes. `HInv` adds to `IInv`:

* `AloneOK`: an operation that was never raced has at most one intent under way.
* `OrderOK`: the durable events of an operation lie in the order of their times, none in the future, and what is
  in flight comes after them. So replaying them by time is replaying them as they were written.
* `HistoryOK`: memory matches the events of every operation without an intent in flight, and for the others
  `IntentMatches` says where the intent stands: before its durable event memory still matches, between the event
  and the dictionary the last start is the intent's own, or every start was stopped.

`MiningWork_proof` proves `WorkIsConserved`, `AttributionIsBounded` and `ProgressIsMonotone` with one
invariant, `WInv`, because each needs the others: `WorkConserved` and `AttributionBounded` themselves, `BackedOK`
(only a run with a durable start is registered, ticked and credited, and at the rate of that event),
`SharesOK` (what a thread is about to share out was work of the block it settles), and `ProgressOK` (the
last published progress is not ahead of the active block). The sums run over operations, runs and players, of which there are any number.

`FiniteSums` has the lemmas for that. The library states induction over finite sets of an operator
that is a parameter, which these provers cannot instantiate; `SubsetInduction` states it of a set of
subsets instead and follows from the well-foundedness of strict inclusion. From it come the existence and
uniqueness of the fold's recursive function, and that a sum may be taken apart at any element or into two
disjoint parts, does not change where the function does not, moves by what one value moves, is linear and
monotonic.

`Economy_proof` proves, from `EconomyAssumption` (what the catalogue and the validation of requests make
sure of), for any number of players, items, listings, keys and requests:

* `TypeCorrect`, `NeverOverdrawn`, `SupplyKept`, `StartedOnce`, `UnitsAreConserved`: the properties of run `economy`
  but one; the last by `FiniteSums`, over all holders and listings of an item
* `TradesAreAtomic`: `Spec => Shop!Spec`, that is, `Economy` implements `AtomicShop`
* `Invariant`: its `IInv` is `PlayersOK`, `StockOK`, `ListingsOK` (types and what a row says about
  itself), `FormedOK` (what a transaction was asked for), `SupplyOK`, `NoOverdraft` and, the heart of it,
  `CurrentOK`: what a transaction that is not doomed has read is still true. `NoOverdraft` alone is
  not inductive: a purchase subtracts what was checked at its snapshot. Each commit either leaves what
  another transaction read as it is or dooms it; the refinement then maps the commit to the atomic
  purchase or trade, and everything else to a stutter, a reward, a listing or an equipping.

`NetworkStream_proof` proves, from `StreamAssumption`:

* `TypeCorrect` and `CursorsOffered`. `IInv` is `Types`, `Links` (the handler a client is connected to serves
  that session's websocket) and `Offers` (every cursor that a handler, a
  message, an acknowledgement, a checkpoint or a client holds was offered to that session).
* `SkipsUnlessOvertaken`: for any number of publishers, on every behaviour on which no two INSERTs are
  open at once, the only rows of the channel that a handler has passed unsent are those its empty first reply
  jumped over. `OnlyFirstRepliesSkip` is the property of run `stream_safety`, for one publisher, who cannot overtake
  himself. `SInv` adds `OpenRowsAhead` (a row
  still to be committed comes after every sequence number that a page, a reply or a cursor has shown) and
  `Delivered`: a page that was read has no gap (`NoGap`) and its reply ends at its last row (`EndsPage`), and up to
  every cursor a handler may be moved to, its client has every stored row of its topic or it is on its
  way (`GivenUpTo`).

`Services_proof` and `Operations_proof` prove properties of the compositions, from `ServicesAssumption` and
`OperationsAssumption`. In each a lemma `Steps` shows that a step of the whole is, for every service, a step
of that service or leaves it alone; each theorem then has an invariant of the one service it is about.

| Theorem | Inductive invariant, and why it is needed |
|---|---|
| `OfflineTimeIsPaidOnce` | `ProfilesInv`: the windows paid add up to `last_offline_progress_at`, a window that was read lies in the past, and the compare-and-set moves the one by what it adds to the other |
| `EndedSessionsStayEnded` | `AccountsInv`: a rotation under way carries a token that was generated, so it cannot match a row that was never given one |
| `LiftedSanctionsStayLifted` | `DeskInv`: a review is stamped with a time that has passed, so whichever commits last leaves a lifted sanction expired |
| `ViewsMoveForward` | `StreamInv`: nothing is newer than the server's state; what a request has read is not older than what the client was shown (`StreamReadsOK`); the deltas in the channel are in the order of the changes and not older than the view (`StreamChannelOK`) |
| `ForksSettle`, `CancellationsRestore` | `ForksInv`: `WinnersOK` (the branch an open resolution will crown has the most work, unless work came after it was read), `DeltasOK` (an open cancellation will set every balance that has not moved to its snapshot), `PaidOK` (a fork that no handler meddled with is paid once when it is completed and waits while it is active), `WorkerOK` (the worker resolves what is in its queue) |
| `HiddenPlayersStayHidden` | `BoardsInv`: `LocksOK` (a transaction that has truncated a board holds its lock) and `SincesOK`: the rows of a board that a request has passed list nobody who was hidden when it was asked and has been since, neither the committed rows nor those another transaction is about to commit |
| `SettlementsAddUp` | None but the property; the work is arithmetic, one lemma per rule. Of a reward that is not negative the residual is half a unit per player at most (`ResidualIsSmall`), so a share, rounded and then moved by a unit, is within a unit and a half of its work, the fewest players that get or lose a unit more exist, and the ranks pick exactly as many (`FirstRanks`); a pool's share is within a unit. The clamped ratio bounds the retarget without an event (`RetargetIsDamped`) |
| `ReplayKeepsParity` | `SlicesInv`, as long as every event so far was filled as a replay fills it (`Agreed`; events are never forgotten, so what agrees after a step agreed before): from `last_processed_at` on, pending boundaries and history are the same; before it, the latest boundary of the history is what multiplier and pause say, and the work credited is that of one window over all of it. `SlicesJoin` cuts a window in two: only the latest boundary of the first part lasts into the second |
| `TypeCorrect` (`Services`) | The invariants above, and for what they leave out: `ProfilesTyped`, `BoardsTyped` (no figure moved more often than there were moves, rows fit their board), `ForksTyped`, `DeskTyped`, `StreamTyped`, `SlicesTyped` |
| `RecordedVersionIsInstalled` | `LauncherInv`: what was verified stays in the download directory (`LauncherDownloadOK`), what was copied is installed (`LauncherCopiedOK`), a rollback runs only after an apply was cut short (`LauncherRollsBack`) |
| `ProcessesAgree` | `TuningInv`: `ThreadsOK` (a thread inserts the version after the latest at most, and has inserted what it will remember) and `VersionsAgree` |
| `ConfigurationIsAudited` | `ConsoleInv`: the property with the types, and `CallOK`: whoever has written but not committed holds the row's lock, and the time of his entry is taken under it and so is later than that of every entry committed before |
| `RateIsLimited` | `CleanupInv`: for the limiter's row `OpenedAgo` (what was let through since its window opened is counted, and of the time `Span` before that, in which one window opened at most, the limit less one was let through) or `Unopened`; for a server's memory `StampsCover` (it holds a stamp of every call it let through). A stretch shorter than the window by half a second and the longest wait then meets two windows at most |
| `LaunchesAreSound` | `LaunchInv`: as long as calls do not overlap, what a create, announce or roll back has checked still holds when it writes, and there is one genesis at most that is not archived (`ChecksHold`); the ledger follows it (`LedgerFollowsGenesis`); the active block is above the finalized ones (`BlocksOrdered`). `MigrationInv`: a profile is what the pairs migrated in this life brought, and a pair has no more ledger entries than there were restarts, and one more if its own succeeded |
| `ContentStaysSound` | `ContentInv`; `ValidatorInv`: the stack is a path of the graph (`StackOK`), there is no cycle among finished items and they lead to finished ones only (`SearchOK`), a cycle found is one (`CycleOK`) |
| `TypeCorrect` (`Operations`) | The invariants above with what they leave out: `LauncherTyped`, `ConsoleTyped` (whatever is written to the configuration is a value that may be), `TuningTyped` (no thread is past the last version), `CleanupTyped` (the worker rests for twice the interval and backoff at most); `ForksTyped`, types alone; the telemetry's types are invariant by themselves |

The assumptions are what the code makes sure of: sets of players, listings, items and the like are finite;
prices, limits, rates and times are natural numbers; a number that the code divides by or
clamps is positive. `MaintenanceAssumption`, for one, takes the limit and the window as positive because the
endpoint passes `max(1, ...)` of the settings (`blockchain.py:661-662`) and the worker's interval and backoff because
`settings.py:39-53` reads at least 30 for either, and `RulesAssumption` bounds pool fees by
10 per cent as `MAX_FEE_PERCENTAGE` does and leaves the modifiers of events any integers. Each is evaluated by TLC in a run. `ReplayKeepsParity` also supposes
`Parts = 1`, times in whole seconds: with finer times parity fails, which run `polls_lose_work` shows.

Some definitions are worded for the proofs, with the same meaning as the code: the worker's queue is a set of which
the next is the earliest by end and id (`IsNext`) instead of a sorted list; `RankedRows` takes the score as a
function; a graph is cyclic when some nonempty set of items each depends on another of the set, which
for finite graphs is a cycle; sums are `SumFunctionOnSet`; the work of a window is the sum over its boundaries,
each of which holds until the next, instead of a walk over the sorted list. Where Python rounds, the model allows
either neighbour that its arithmetic may give: a pool share whose 28 digits fall short of a whole unit (`Floored`),
a retarget at a tie (`Nearest`).

Only model-checked: the liveness properties (`AdvanceCompletes`, `EveryBlockSettled`, `PageDelivered`,
`ExpiredForksAreResolved`, `QueuedIsFlushed`, `WorkerComesBack`), because fairness and ENABLED are out of the
provers' reach. Every invariant and every action property of the passing runs is a theorem.

## Not modelled, and abstractions

* Anti-cheat scores, the explorer, monitoring and `analyzer.py` are queries over stored rows that keep
  no state. Community pages and forum links are static. TOTP is arithmetic on a clock, and
  `account_service.py` holds recovery stubs without storage.
* Tools, bot, admin pages and simulator are release tooling and thin clients. Of the Godot client only the stream
  cursor is modelled, in `NetworkStream`; scenes and user interface are presentation.
* `moderation_offense_history` is read for escalation but nothing writes it, so the model leaves it out. A
  player's percentile on a leaderboard and the averages of the admin dashboard are queries, left out as well.
* Of purchases: unlock conditions are a constant relation, sorting and filtering of the catalogue is left
  out, hardware formulas are rates; reputation rows only make trades wait for each other. The replay of
  an upgrade's idempotency key changes no state.
* `GET /network-events` keeps no state; session revocation of a websocket is not modelled, and
  `get_network_snapshot_contract`, which reads the status and then the latest sequence, is one step.
* A version of the economy parameters has two of the six, one that experiments test and one that they do not; the history
  in memory, which only a process without a database reads, is left out.
* A pair of accounts is never migrated by two requests at once: the lock of the process excludes it, and migration
  in two processes is not modelled.
* Work is whole units and money whole millionths. In `MiningRuntime` the difficulty adjuster may answer any of
  `RequiredWorks`; a multiplier stays 1 there, because nothing in the repository writes a boundary event for a
  runtime operation (`IntervalSlices` has them).
* A tick that overflows more than one block leaves work in the next block that later finalizes without
  being attributed to its player: `AttributionBounded` is one-sided for that reason.
* Hashing is taken to be free of collisions; requests are authenticated and validated.
* The launcher's settings, accounts and window are left out, as are manifests in which two files have one base name.
* An allocation of a negative reward that does not end (see Findings) has no step.

## Plan

1. (done) `BlockSettlement`, `MiningRuntime` and its proofs; `NetworkStream`.
2. (done) `AtomicShop`, `Economy` and its proofs.
3. (done) The services players meet, and what operators, workers and the launcher do.
4. (done) The theorems about memory and work of the mining runtime, the network stream, the units of the
   market, and the safety properties of `Services` and `Operations`.
5. (left) One process is modelled per component, except in `EconomyTuning`: the mining runtime in two processes
   over one database, and `Economy` composed with `MiningRuntime` on one ledger, are the next compositions.
