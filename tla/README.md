# A verification project for RWA Meme Radar

TLA+ models, TLC runs and TLAPS proofs about the parts of this repository in
which concurrency, failure and ordering decide whether the product is right.
Paths are relative to the repository root; `app/` stands for
`server-py/app/`, `collectors/` for `server-py/app/collectors/`.

## 1. The system

RWA Meme Radar shows tokenised stocks and related tokens on several chains. A
FastAPI backend (`server-py/app`) collects market and chain data into a
research store (SQLite in WAL mode, or PostgreSQL behind the same interface),
publishes compact projections of it and streams changes to a Vue application
(`web/src`). An older Node service (`src/server.ts`) and a Solidity registry
(`contracts/PairRegistry.sol`) complete it.

Processes: the query API (`app/main.py`, `app/market_main.py`), the collector
workers (`app/worker.py`, `app/market_worker.py`), one projection worker
(`app/projection_worker.py`), the read-model worker, the storage migration and
recovery workers, and one browser tab per user. They share databases, lock
files and nothing else.

| Component | State | Operations | How it interacts | What is hard |
|---|---|---|---|---|
| Background budget `app/resource_budget.py` | ticket files, permit lock, `admission-state.json`, open threads of a turn | register, poll, admit, run, close | every cold loop of every process | several processes scan and unlink the same directory; cancellation and crashes at every step; priority without starvation |
| Event journal and hub `app/stream_hub.py`, `app/realtime_schema.py` | `realtime_events`, tail cursor, subscriber queues | append in the writer's transaction, tail, fan out, prune, replay | collectors and the projection write; the SSE endpoint reads | replay and live queue overlap, bounded queues, retention under readers |
| SSE endpoint `app/api/stream.py`, browser `web/src/composables/useStream.js` | position of each response, `lastEventId`, page state | replay, serve, checkpoint; connect, apply, reset, reconcile | HTTP snapshot plus stream | a cursor must never pass an event the page has not seen |
| Projection `app/realtime_projection.py`, `app/projection_facts.py` | `change_outbox`, `dashboard_projection`, `projection_dirty`, in-process caches | tick, prune, queue and refresh derived views | reads facts, appends deltas to the journal | build outside the write transaction, caches keyed by what was committed, conditional acknowledgements |
| Read model `app/read_model_worker.py`, `app/projection_query_cache.py` | manifests and bodies in PostgreSQL and Redis, prepared body of a process | capture, commit, cache, heartbeat; answer | bridge writes, query processes read | three copies that fail and age apart |
| Recovery mirror `app/storage_recovery.py` | captured changes, certificates, generation owner, triggers of the SQLite file | prepare, replay, reconcile, verify, restore, abort | PostgreSQL writers go on; an operator switches sides | two databases without a common transaction, crash between any two commits |
| Forward migration `app/storage_migration.py` | source journal, staging, certificates | install, backfill, replay, verify | the same, the other way round | backfill against live writers |
| Research store `app/db.py`, adapters `app/storage_runtime.py` | facts, trades, candles; one connection and its thread per lane | begin, statements, commit, roll back, retry | used by all collectors | cancelled tasks leave calls behind; identities against commit order |
| Detail cache `app/state.py` | parsed facts, load time, generation | reload, invalidate | tailer invalidates, HTTP reads | readers that join a reload in flight |
| Browser dashboard `web/src/stores/dashboard.js` | snapshot, recent deltas | accept snapshot, apply delta, change page | stream and polling | a snapshot arrives among deltas |
| Demand leases `app/demand_leases.py` | pending map, lease table | publish, flush | API writes, collectors read | value replaced during its flush |
| Loops `collectors/scheduler.py`, `app/worker.py` | process lock, task health | start, loop, defer, stop | runs every job | two processes; a loop deferred for ever |
| Chain stream `collectors/chain_stream.py`, pool gap repair | queue, cursors, coverage, rate gate, status row | subscribe, process, replay, backfill, sweep | node, store, journal | reorganisations, lost sockets, several orders of the same event |
| Factory discovery `collectors/factory_discovery.py` | cursor with anchors, events, relations | discover, confirm, match, retract | node, store | cancellation between two writes, orphans |
| Exchange and live market `collectors/exchange_stream.py`, `live_market.py`, `market_streams.py` | sockets, checkpoints, buffers, proofs of ranges | stream, recover, scan, flush, prune | providers, store, journal | gaps, bounded queues, replays of a failed batch |
| Live chart `app/api/live_market.py`, `web/src/utils/live-market-stream.js`, `CandleChart.vue` | market journal, one reader, a queue per chart, the chart's cursor | snapshot, replay, serve, heartbeat, reset | the market worker writes; HTTP snapshot plus stream | the same as for the dashboard, in another journal with another reader |
| Market collectors `collectors/trades.py`, `candles.py`, `live_quotes.py`, `assets.py` | coverage, gaps, bars, quotations and their checkpoints | page, repair, quote, merge | providers, store | an interval claimed complete must be so; a field shows its newest quotation |
| Oracle anchor `collectors/chainlink_anchor.py` | dated rounds of the price feeds | wait, force, read, save | node, store; trades are valued with it | a busy collector must not leave trades without a round |
| Comparison with the pool index `collectors/discovery_coverage.py` | durable scan with its gaps | turn, page, report | index provider, issuer manifest | a report called complete must have heard every token |
| Token comparisons `app/comparison_service.py`, `comparison_alerts.py` | observations, alert state, events | refresh a subject, prune, show | quotes of tokens and references | delayed quotes, sustained conditions, old observations |
| Request ledger `app/request_ledger.py`, `src/okx-client.ts` | daily usage, lanes, rounds | charge, stage, refund | Python and Node share it | quota at its limit, days that change in a request |
| Alerts, mentions, developer access | outbox and budgets; checkpoint and leases; accounts, keys, counters | deliver; poll and look up; admit | Telegram, X, HTTP | retries of what was already done, limits |
| Registry, product read services, Node HTTP, web views | none that another part relies on | query, format | read the stores | - |

What makes each correct, in short: at most one cold turn works at a time and
nobody waits for ever; a page never misses an event below its cursor; a
publication contains everything below the cursors it carries, and what a query
process answers was verified lately; the two database copies differ only where
a pending change says so; no write is half visible; an interval, candle, proof
or certificate that claims completeness is complete; limits hold; loops run.

## 2. The modules

One module per component. An action is one step of the code between two points
where others can act: an `await`, a commit, a lock, a process boundary. The
header of each module says what a data item is abstracted to; `map` in
`PROJECT.json` names the lines of every definition. A definition whose comment
begins with *Mutant* is a changed copy of the one after it; it is no part of
the specification and exists so that one can see each property fail.

Publication side (`MCPublication`):

| Module | Models | State and actions |
|---|---|---|
| `EventStream` | journal, hub, SSE endpoint, browser cursor | a transaction allocates an id and ends (one at a time: `BEGIN IMMEDIATE`, or the trigger `_cliperx_write_order` of `app/storage_schema.py:92-111`); `TailRead` and `Fanout` are two actions since commits and subscriptions fall between; a response is opening, replaying (with the two statements of `replay_page` apart) or live; the browser boots, connects, receives, resets |
| `Projection` | tick, fact cache, outbox retention, derived views | `BeginTick` is the read transaction with its idle path, `CommitTick`/`CommitTape`/`AbortTick`/`CommitUnconfirmed`/`FailTick` the ends of the write transaction; `memory` is the cache with the stamp it belongs to; `refresh_derived` is three actions with a transaction each |
| `ReadModel` | bridge, manifests, query processes | `Capture`, `CommitPostgres`, `CacheRedis`, heartbeat; a request reads Redis or PostgreSQL, fetches and prepares a body, or falls back to storage |
| `DashboardView` | dashboard page of a tab | polls with their start and answer apart, answered by any publication a process still serves (`oldest`), deltas with the bounded replay buffer and its floor, page change, reconnection |
| `DetailCache` | shared snapshot of an API process | reads in one snapshot, publishes under the lock, invalidated in between; the outbox pruned, the database reopened |
| `DemandLeases`, `LatestValue` | lease writer; what it promises | `publish` coalesces, `flush` writes a snapshot of the map in batches, prunes, fails, dies |
| `TelegramAlerts` | scan, outbox, dispatcher | claim, authorise, post (with an unknown outcome), settle; unlink, bind, crash between any two |
| `SocialMentions` | polls, checks, lookups of posts | claims under a lease, one page, facts and checkpoint in one commit |
| `ChartFeed` | market journal, `MarketHub`, stream of a chart, the chart | the reader's task begins, reads and delivers, dies; a stream joins, compares bounds, reads the replay, sends it, serves its queue or a heartbeat, each an await of `market_frames`; the shared database read and the tab |
| `Comparisons` | one subject of a comparison | quotes arrive late or never; a refresh reads, appends, judges and commits; retention; what a reader is shown of the packet |

Collection side (`MCCollection`):

| Module | Models | State and actions |
|---|---|---|
| `StorageMigration` | shadow import SQLite -> PostgreSQL | install, backfill, replay with acknowledgement, certify, barrier; writers and crashes between all of them |
| `StoreWriter` | transactions of the research schema | tasks with their cancellation and retries, gates, the queue of each connection's thread, advisory lock, identities |
| `ChainStream` | swaps live and replayed | subscription, queue, ranges behind a cursor, removals, orphan sweep, confirmation |
| `LiveQueue` | the bounded queue before processing | watched pools in bursts, removals first, a failed event apart |
| `TradeTape` | one decoded swap | raw log, trades, candles, current candle, retraction, elapsed bars, retention |
| `PoolCoverage` | what is claimed of a pool | its backfill from a floor, time coverage, the common lane |
| `ChainRpc` | reads of one chain | paced gate, back-off, endpoint fallback, chain check |
| `ChainStatus` | status row of a stream | coalesced reports, failures carried over |
| `FactoryDiscovery` | creation events | ranges with anchors, rewind, match, retraction, cancelled turns |
| `PoolVerdict` | verdict on a pool of an external index | repair, quarantine and round, each awaited read and write a step |
| `LiveMarket` | recent proofs of hot pools | scan by pages, catalogue refresh, removals |
| `ExchangeStream` | trades of an exchange market | socket, baseline, replay by id behind a marker |
| `MarketWriter` | buffered writer | bounded queue, coalescing, replays of a failed batch, retention by age and by rank |
| `IndexScan` | comparison with the pool index | turns of the chains, durable scan, pages, official manifests, report |

The host (`MCHost`):

| Module | Models | State and actions |
|---|---|---|
| `StorageRecovery` | guarded SQLite standby | prepare, replay with acknowledgement, certify, barrier, promotion and abort; a crash at every seam |
| `CollectorLoops` | collector process and its loops | process lock, rest, deferral with ceiling, confirmation round |
| `AssetQuotes` | quotation rounds of the core and the base lane | slots, batches, calls, merging field by field, samples, checkpoints of a round, delayed answers |
| `OracleAnchor` | dated oracle rounds under backlog | waits for the queue, forced turns, reads, samples kept, the rate a trade is valued with |
| `CandleHistory` | candles live and from history pages | both writers of candles and their fact |
| `TradeHistory` | on-demand trade history | newest page, gaps, coverage, bars |
| `DeveloperAccess` | accounts, sessions, keys, quotas | what a request reads before its transaction may be old in it, by a minute or a day |
| `RequestBudget` | request counters of both runtimes | Python charges in one step, Node awaits the ledger between its steps |

`BackgroundBudget` is checked without an MC module, its configuration names
the jobs and tickets; `MCLiveness` composes six modules for liveness; the runs
of a finding check the module itself.

* `BackgroundBudget`: a job is a loop that calls `background_turn` on one lane.
  `stamped`, `opened`, `locked`, `queued` are the steps of `register()` (name,
  `os.open`, `flock`, `os.replace`), because another process may scan between
  any two of them; `scanning` and `recorded` are the inside of `try_admit`;
  `running` and `closing` the turn and its `finally`. `older` is the order of
  the time stamps in the names. Locks are not variables: the kernel drops a
  `flock` with its process, so a ticket is locked exactly while its owner is
  past `flock`. Pressure is a Boolean chosen at each poll. `bystanders` and
  `passed` are history: what a waiting ticket has seen.
* `StorageRecovery`: one table of rows under hidden rowids on both sides; a row
  is its key and the sequence of the change that wrote it, so equal rows have
  equal content. `Prepare`/`PrepareCommit`, `SnapshotChanges`/`ApplyChanges`/
  `Acknowledge`, `ReadChunk`/`CertifyChunk`, `VerifyBarrier`, `RestoreTriggers`/
  `RecordRestored`, `AbortCleanup`/`AbortFinish` are the operations of
  `RecoveryMirror`, cut where it commits on one side or the other. `Crash`
  loses `job`. `StrayWrite` is an application writing to the SQLite file.

### How the compositions are made

The components of `MCPublication`, `MCCollection`, `MCHost` and `MCLiveness` share no
state and call none of each other's operations in the models: what one needs of
another is in its own module (the cursor of a publication in `EventStream`, the
revision in `DashboardView`). Their product would only multiply interleavings
that cannot meet. So a behaviour picks one component (`part`) and lets the
others stand still, and TLC explores each of them completely, for one check of
many. An invariant of a composition is an implication on `part`.

`EventStream`, `Projection`, `DemandLeases`, `DetailCache`, `ReadModel`,
`Comparisons` and `ChartFeed` are extended by `MCPublication`,
`StorageMigration`, `StoreWriter`, `LiveQueue`, `LiveMarket` and `MarketWriter` by
`MCCollection`, `StorageRecovery` by `MCHost`, so that the theorems and the runs speak of the same definitions; the other components
are instances with their bounds in the `INSTANCE` clause. The assumptions on
constants that the theorems make (and `TapeAssumption` of an instance) are
assumed in these modules, so TLC evaluates them. In the modules that are
extended side by side the initial predicate, next-state relation and type
invariant carry a prefix (`PublicationInit`, `StoreNext`, `ChartSpec`).

The proofs are in modules of their own, `<Module>Proofs` (section 6).

## 3. What is checked

| Run | Instance | Shows |
|---|---|---|
| `budget_safety` | a cold, a maintenance and a priority job, 4 names, streak 2, 1 thread of a turn, 1 fault, symmetry of names, 572,995 states | `WorkUnderPermit`: turns and their threads never overlap. `FairTurns`: bounded bypass, FIFO in a class. `LiveTicketKept` |
| `publication_safety` | ten components, 1,816,301 states | `NoGap` (1 tab, 3 events, queue 1, page 1, tail batch 2, 1 fault), `PublicationSound` (2 publishers, 1 displayed fact, 1 tape, 2 writes, 1 truncation, 1 expiry, 1 fault), `PageConsistent` (1 row, 2 pages, 3 revisions, answers that step back, buffer 2, 1 lost connection), `FreshAfterEvent` and `CaptureExact` (2 facts, 2 writes, 1 reopening, 2 invalidations), `ImplementsLatestValue` (2 keys, batch 1, map of 2, 3 lifetimes, 1 failure), `AnswersVerified` (3 clock units, 1 fault, 1 change), `ComparisonsSound` (3 prices, a reference that may be late, 3 refreshes, 2 observations in a row), `ChartComplete` (2 events, queue 1, replay 1, 1 fault), `AlertsAndMentionsKept` (ids to 4, 2 attempts, limit 1 a day, cooldown 2; 2 posts, 2 days, pages of 1) |
| `collection_safety` | fourteen components, 1,437,764 states | `NoChangeLost` and `NothingMissing` (2 keys, 3 rowids, batches of 2, 2 writes, replacing ones among them, 1 crash), `CertifiedExact` (3 blocks, 1 fork, 1 fault), `CandlesTrue` (3 swaps in 2 periods, bars of 1 and 2), `QueueFair` (2 pools, queue 3, burst 1), `RelationsProved` (4 blocks, 2 reorganisations; 2 turns of the round), `ProofExact` (3 blocks, 2 scans), `GapsKnown` (5 trades, queue 2, 2 faults), `WritesWhole` (2 tasks on a shared connection, 1 on the quote lane, 2 tries, 1 fault), `WriterKeeps` (2 trades, 3 offers, 1 kept, any age, 1 fault), `FeedSound` (4 blocks, 1 fork; 3 kinds of endpoint; 3 reports; 2 official contracts of which one is withdrawn, 2 days) |
| `host_safety` | eight components, 1,540,281 states | `NoChangeLost`, `CertificatesTrue`, `PromotedEqualsPostgres` (2 keys, 3 rowids, batches of 1, 3 writes, 1 stray write, 1 crash), `LoopsAndQuotesSound` (2 processes, 2 chains; 2 assets, one in the core, 3 slots, answers up to 3 slots old, 1 mishap; 2 feeds, 2 rounds, 3 periods, 1 fault), `HistoriesTrue` (4 trades, pages of 2; 5 clock units), `LimitsKept` (accounts: 2 users, 2 keys, 2 threads, 3 minutes in 2 days, 2 admissions, limits of 1; requests: 3 tasks in 2 runtimes, 2 days, 1 round) |
| `liveness` | six components, 70,574 states, no symmetry | `WaiterServed`, `ChangesArrive`, `EveryPageCatchesUp`, `PageCatchesUp`, `LeaseStored`, `StandbyBecomesReady` (1 key, 2 rowids, 2 writes, 1 stray write, 1 crash). The page there loses one connection and does not change |
| `budget_half_published`, `stream_page_race`, `migration_replace`, `chain_cursor`, `exchange_gap`, `trade_cut`, `factory_retract` | the module itself, its smallest instance | each refutes one property, stated by a comment of the code (section 4) |

`TypesOK` is the conjunction of the type invariants (`TypeOK` in `MCHost`; a
property with several parts contains the types of the components it speaks of). Every property of a passing
run fails for at least one plausible bug in a mapped definition (`mutants`).

**Why the bounds are enough.** They are the smallest for which the hard cases
of each component occur; larger ones were tried while the modules were written
(four events: 2.8 million states of the stream alone) and only add states.
Budget: one ticket of each class, a crashed or cancelled predecessor, a name
that is not the scanner's. Stream: a queue that overflows, a replay of several
pages, an event outside the subscription, retention past a disconnected tab.
Projection: two publications in flight and a change after each. Recovery and
migration: a rowid used again, a key that moves, a change to a row in flight, a
certificate with rows on either side. Store: a task cancelled twice whose
successor has begun. Chains: a fork below and above the cursor, a range that
ends at the fork. Histories: more trades than a page, and a gap older than the
page before. Chart: a queue that overflows, a replay that is too long, a cursor
that expires, a reader that dies. Quotations: an answer older than what another
source gave, a lane that is late. Quotas and ledgers: limits of one or two, two
days. Where a
theorem exists (section 6) the bounds do not matter.

**Deadlock.** The budget's run checks it: its jobs go on for ever. The other
configurations say `CHECK_DEADLOCK FALSE` because their writes, ids and clocks
are bounded, and when they are used up nothing is left to do.

**Fairness.** Only what the code repeats for ever or completes by itself is
fair. Budget: a live process finishes its registration, scan and close, a turn ends within
`max_run_s`, its threads within their transport timeouts; a waiter polls every
second and meets the free permit without pressure again and again (strong
fairness, on that one action). Nothing makes a job start. Stream: tailer,
generators and browser retry every failure; a writer transaction ends; the
projection is published at least every `expiry_ms`. Projection: the ticks of
`spawn_loop` and the derived refresh. Page: processes go on to the present
publication (each finishes the earlier one while it prepares the next), polls
begin and are answered, the stream is opened again and delivers. Leases: the flush task. Recovery: the
worker repeats its passes; a replay pass is strongly fair, because
reconciliation alternates with it. No fault, write, retention pass, page change
or operator action is fair.

## 4. Where the code and its comments disagree

Each is the counterexample of a run whose configuration asks for one property.

* `budget_half_published`: `app/resource_budget.py:203-204` says that a
  competing process cannot clean up a half-published request. `_head` examines
  `.pending-` names as well, and the file exists before its owner locks it. A
  scan in that window unlinks it, the owner's `os.replace` fails and the turn
  is lost (the loop tries again). Published tickets are safe (`LiveTicketKept`).
* `stream_page_race`: `app/stream_hub.py:167` says that a large valid backlog
  is never discarded. `replay_page` tests the cursor and selects the rows in
  two statements without a transaction; a retention commit in between removes
  rows the test had found, and the page moves past them. With both reads in one
  transaction (`PruneInPage = FALSE`) `NoGap` holds and is proved.
* `migration_replace`: `app/storage_migration.py:4-6` says that the journal
  covers every insert, update and delete. `INSERT OR REPLACE` deletes the row
  it replaces without its trigger (`recursive_triggers` is off), so a row that
  comes back under another rowid leaves no change for the old one, and
  PostgreSQL may keep it. What holds all the same is checked and proved with
  replacing writers: no row of the source is missing or old in PostgreSQL
  (`NothingMissing`), and every other difference is journalled (`NoChangeLost`).
  `VerdictTrue` itself holds only without them.
* `chain_cursor`: `collectors/chain_stream.py:1793` says that the cursor proves
  contiguous coverage. Its block is compared with the chain at the start of a
  pass; a reorganisation between two ranges of the pass, whose removals were
  lost with the socket, leaves the interval with an orphan or without a swap.
* `exchange_gap`: `collectors/exchange_stream.py:135-136` says that live writes
  cannot advance the lower bound of the replay. The durable marker is written
  when the recovery begins; a socket that ends before that leaves a marker that
  says complete and a newest live trade above the hole.
* `trade_cut`: `collectors/trades.py:117-118` says that after an interruption
  the old checkpoint continues to describe the work. The trades of a full page
  are committed before the gap below them is noted; a round that ends in between
  leaves newer stored trades, from which the next round concludes that nothing
  is missing, and it records the whole interval as watched.
* `factory_retract`: `collectors/factory_discovery.py:564` says that a relation
  from an abandoned block is invalidated even after a restart. Pool and
  relation are written before the event row names them; a turn cancelled in
  between, followed by the orphaning of the block, leaves a verified relation.

## 5. Smaller limits the models make visible

They are cases a property excludes or a condition of it names.

* Budget: a fault between the record of a cold admission and its turn has
  already reset the streak, so cold work can be passed by one more run of
  priority turns per fault than the docstring's "twice"; `FairTurns` has the
  exact bound.
* Stream: with `StampLag > 0` (the legacy publisher stamps `at` before it
  commits, `app/stream_hub.py:140`) retention by age leaves a hole that the
  lowest-id test does not see.
* Projection: after a truncation of the outbox an acknowledgement may erase a
  newer token (comment `app/realtime_projection.py:916-917`), so
  `DerivedNotBehindWhole` speaks of histories without one.
  A truncation that empties the outbox sets the input cursor back to 0, and the
  parsed facts of a process are keyed by that cursor alone
  (`app/realtime_projection.py:462-466`): a process that published at the first
  cursor 0 and then did nothing reuses those facts on its next expiry tick and
  publishes an old body beside the present journal cursor, until the next
  change or forced calibration. `BodyCoversCursors` names this case
  (`row.input > 0 \/ truncations = 0`); it takes two publishers and five
  publications, more than the run has (`MaxExpiry = 1`), and was found when the
  proof failed.
* Page: a process may answer with the previous publication while another served
  the next (`app/realtime_projection.py:716-732`). After a page change has
  cleared buffer and floor the tab accepts such an answer (`web/src/stores/dashboard.js:55-80`)
  and may keep a newer row beside it. `PageConsistent` allows exactly this: a row
  is as of the page's revision or of the later one it was merged at, never older.
* Read model: a process may step back to an earlier publication within the age
  limit (Redis stale, PostgreSQL newer), as `DashboardView` assumes of it;
  `checkedAt` is stamped after the read; after PostgreSQL is restored the
  heartbeat fails until the next publication.
* Pool verdicts: a stream verdict from an old catalogue that crosses a repair
  in flight leaves the pool reorganised and its candidate registered
  (`crossed`).
* Alerts: after a crash with a row still `sending` a second alert can go out in
  the cooldown; the reseed on `cursor > high` is never reached.
* Tape: a bar above the base bar that is watched again within its period goes on
  with its old accumulator, without the trades in between (a hazard no property
  covers).
* Recent proofs: the block at an anchor's height is read once in a scan
  (`collectors/live_market.py:463`) and relied on by every later page of it, and
  a range that is halved has its end read again (498). A reorganisation at or
  below a compared anchor, before the last page has the end of its range read,
  is outside the run and the theorems (`Compared`, `AnchorRace = FALSE`); with it
  `ProofExact` fails, and to close only the gap within one page is not enough
  (TLC finds a violation with two pools and pages of one).
* Exchange: live trades before the first baseline has settled, with an
  interrupted baseline, can leave holes; so can more trades than a page between
  subscription and first page.
* Histories: `trade_cut` has the round cut short after `put_trades`; a cut
  between the candles and their meta fact loses the gap record; a stale row
  stored as confirmed is healed by the next refresh
  (`app/api/candles.py:405-409`). `host_safety` leaves these out with
  `Weather = {}`.
* Mentions: a lookup may store a mention after a check marked the post deleted;
  the mark "read" is committed before the mentions. Two polls of one account at
  once, after a lapsed lease, are not in the model.
* Market writer: retention by age takes trades over 24 hours old whatever their
  rank (`app/market_streams.py:307-322`), so a quiet market may lose all of its
  own; `WriterKeeps` says what it never takes, the newest of the last day.
* Access: `now` is read before the lock, so a late call charges the earlier
  minute.
* Rpc and status: with the socket down a failed read of some kinds does not
  reset the chain check (`collectors/chain_stream.py:503-505`); if writing the
  failure row fails (2195), the replay task ends and nothing starts it before
  the next connection.
* Live chart: four windows in which an attached chart misses an event until it
  loads a snapshot again; `hurt` notes them and `ChartComplete` excludes them.
  (1) The reader's task ends on a read error and another chart's request starts
  it again: it begins behind the newest event (`app/api/live_market.py:315-316`)
  and attached charts hear nothing of what was written meanwhile, since only a
  timeout of 15 s without a frame looks at the task (404). (2) An empty journal
  has no floor, so a cursor of 0 passes as present whatever retention removed
  (378). (3) Bounds and replay are two statements (374, 386); retention in
  between takes rows of the replay. (4) After the timeout the cursor moves to
  the reader's (407), past a frame put into the queue between the two.
* Quotations: kind, discovery mark and the market cap of a price-only sample
  come from a read before the transaction. When the ledger of a lane cannot be
  read, the lane runs at the pace of a slot, and a repeated attempt is not paced:
  `Paced` allows for both by name (`slack`).
* Adapters: a dead server connection is not reopened; a read on a shared
  connection can see another task's uncommitted rows.


## 6. What is proved

`tlapm` checks every theorem below to the last leaf, for every value of the
constants that the named assumption allows (positive sizes of queues, pages and
batches, natural bounds, names that differ; nothing else). The bounds that keep
TLC's state spaces finite (`MaxFaults`, `MaxChanges` and so on) are arbitrary
naturals there, so the theorems hold for any number of faults, writes and ids.

| Module | Theorem | States |
|---|---|---|
| `BackgroundBudgetProofs` | `ExclusiveWork`, `TicketsKept`, `TurnsFair` | `WorkUnderPermit`, `LiveTicketKept`, `FairTurns` |
| | `TypeCorrect`, `PermitHeld` | types; that `permit` and the phases agree |
| `StorageRecoveryProofs` | `ChangesKept`, `CertificatesHold`, `PromotionExact`, `TypeCorrect` | `NoChangeLost`, `CertificatesTrue`, `PromotedEqualsPostgres`, `TypeOK` |
| `StorageMigrationProofs` | `ChangesJournalled`, `BarrierMissesNothing`, `MigrationSafe` | `NoChangeLost`, `NothingMissing`, the invariant of both, with replacing writers |
| | `BarrierExactWithoutReplace` | `VerdictTrue`, only for `Replaces = FALSE` |
| `EventStreamProofs` | `NothingMissed`, `StreamTypes` | `NoGap`, types and queue limits |
| `ProjectionProofs` | `PublicationsSound`, `PublicationInvariant`, `ProjectionTypes` | `PublicationSound`, its invariant, types |
| `ServingProofs` | `CaptureReadsAll`, `FreshData`, `CacheTypes` | `CaptureExact` (of steps), `FreshAfterEvent`, types of the detail cache |
| | `WriterRefined`, `LeasesSeen` | the refinement `ImplementsLatestValue`; `LiveLeaseSeen` |
| | `ChartIsComplete`, `ChartTypes` | `ChartComplete`, types of the live chart |
| | `AnswersAreVerified`, `ModelTypes` | `AnswersVerified`, types of the read model |
| `CollectionProofs` | `PoolsServed`, `QueueTypes` | `QueueFair`, types of the live queue and its limit |
| | `MarketKept`, `MarketTypes` | `WriterKeeps`, types of the market writer |
| | `RecentProofsExact`, `RecentTypes` | `ProofExact` without the anchor race, types of the recent scan |
| `StoreWriterProofs` | `WritesKept` | `WritesWhole` |

None of these properties is inductive. In each module a conjunction of named
parts is, and was model-checked on small instances before it was proved; one
lemma per action, or per group of actions that disturb the same parts, shows
that it is preserved.

* **Budget.** `TicketInv` (a ticket name belongs to one job) and `PermitInv`
  (whoever is scanning, running or closing is `permit`) give exclusive work and
  `LiveTicketKept`. Fairness is about the tickets that wait when a permit is
  taken: `ScanInv` says that such a ticket is still to be listed by the scan or
  its class has found a head, `OrderInv` that who was admitted is the older one
  of its class, `BypassInv` bounds how often a cold ticket was passed by the
  stored streak plus what faults have reset.
* **Recovery.** `StandbyInv` says where the two sides may differ: only in rows
  with a pending change, from the moment the triggers are installed.
  `RangeInv` and `ContentInv` say that a certificate over rows without pending
  change states both contents, through splits and invalidations;
  `PromotionInv` carries this over the crash points of restore and abort.
* **Migration.** The argument is about the rows the journal does not name: a
  write journals what it changes, so what the importer has read of a row whose
  entry is still the one it saw is what the source holds. Keys are unique, so
  its upsert displaces no other such row. Three statements of the program do
  replace rows behind the journal, so the invariant keeps count of what they
  removed unseen (`displaced`, a history): such a row is gone from the source,
  hence the barrier misses nothing even then, and only surplus rows of
  PostgreSQL escape it. The corollary without `REPLACE` has `displaced` empty;
  the run `migration_replace` shows that it needs its condition.
* **Stream.** The invariant follows one tab from its bootstrap to the next: what
  it has shown, what is on the wire, in its queue, in the page of the replay
  being read and still in the journal cover together every event above its
  cursor, unless a reset is on its way. Frames are in ascending order, and
  retention removes ids in order, so an id missing from the journal is
  below every retained one. The theorems assume `StampLag = 0` (events are
  stamped in the transaction that allocates their id, as every current writer
  does) and `PruneInPage = FALSE`, because `stream_page_race` refutes `NoGap`
  without it.
* **Publication.** The outbox is a suffix of the log of changes. Facts kept
  from an earlier publication were captured at the cursor they are filed
  under: a fact that differs from the present one has an entry above it
  (`Captured`). So a capture that reads the entries above the cursor again
  reads everything, and what a tick carries to its write transaction is worth
  its cursors (`Sound`) whatever is written meanwhile, since logs only grow
  (`Onward`, `SoundOnward`). The write transaction replaces only the row the
  tick began with, whose body is that of the last revision, so deltas chain. A
  body newer than what `refresh_derived` has read was captured at a higher
  input cursor, so its token carries a generation that outlives the
  acknowledgement (`TurnInv`). The attempt to prove the property without the
  condition of section 5 failed at exactly that case.
* **Detail cache.** A capture that reuses earlier shards names an outbox
  position at which they were exact and reads each later row again;
  `invalidate` moves the generation, so a reload in flight cannot mark its
  result fresh.
* **Leases.** The flush task refines `LatestValue`, a register per key of which
  the latest value is stored in the end or lapses: every step maps to one of
  its steps or to a stutter. `LeaseInv` says that what a flush holds is not
  newer than the map, and the map not older than the table.
* **Live chart.** `Seen(n)`: every event of the chart up to `n` is drawn. What a
  stream needs lies in two places, the journal up to `high` and the queue behind
  it. `ReplayInv` says of each stage that what is up to `high` is drawn, in the
  page, or not yet removed; `QueueInv` that what the reader has passed
  (`ReadUpTo`) is in the queue or drawn, and that the queue has no hole, so its
  least element is the next one the chart lacks. A full queue is emptied
  together with `closed`, which takes the stream out of both. The proof found
  race (3) of section 5: without it `ReplayInv` is not inductive.
* **Read model.** `Held(m)`: the publication of a copy was in storage at the
  time of verification on the copy, less one read. A publication leaves storage
  at a recorded time and never comes back (`HistoryInv`: what storage held lies
  behind what it holds, in its database or in an earlier one), so `Held` stays
  true while the clock runs and storage is replaced, and it goes with the copy
  through PostgreSQL, Redis and the caches. It has to be made only where the
  bridge stamps: there the captured publication was read at most `SlowRead` ago
  (`CapturedInv`), also when the known manifest is stamped again, because what
  counts as unchanged is equal including the epoch. An answer is a copy whose
  stamp was checked once more after the body was prepared, or storage itself,
  which bounds its age. `FinishRefresh` is the step where the bound rests on the
  second check; the mutant that drops it breaks `AnswersVerified`.
* **Live queue.** `PoolOrder` and `OrderInv`: the events of one pool wait in the
  order of their numbers, behind the one at work or set apart, although the next
  one may be taken from anywhere in the queue; the selection takes the least
  index of its kind, which is the oldest of its pool. `BurstInv`: each time a
  waiting unwatched event is passed over, the burst counts it, so `burst` bounds
  `passed`.
* **Market writer.** Of each of a quote's two clocks the newest accepted time is
  stored or waits in one of the lists (`NewestInv`), and so does every accepted
  trade (`TradesInv`); `PhaseInv` says which list may hold anything at which
  point, `AgeInv` that the pass by age holds nothing of the last day. The pass by
  rank chooses outside the lock, and other writers remove trades meanwhile, so
  each of its transactions reads the boundary again (`Excess`). Coalescing keeps a maximum per clock, and a failed batch is put back
  in front of newer messages without hiding them, because a merge takes the
  later of each clock whatever the order. `WriterKeeps` is then the case in
  which the lists are empty.
* **Recent proofs.** A block stands for its hash, so whoever is canonical now had
  the same ancestors when it was read (`Onward`): a reorganisation may only
  withdraw the premise of what is claimed below an end. Nobody retracts a
  canonical block (`ReplacedInv`, `SweepInv`), so trades of blocks that stay are
  never lost. For a page at work, if the end it read before its logs is
  canonical: its logs are the swaps of its range (`LogsInv`), they became trades
  of the bases selected since the scan began (`VerifiedInv`), and the coverage of
  the proofs it may join holds (`JoinInv`). The last follows from the compared
  anchors (`AnchorInv`), and is the part that the race breaks.
* **Writer.** Only the connection that holds the advisory lock has uncommitted
  rows, and identities are taken under the lock, so rows appear in the order
  of their identities. The gate keeps one task on a connection, but a task
  cancelled twice leaves its last call in the queue of the thread. That call is
  followed by the rollback of the same task, so it never mixes with the
  transaction of a successor; and if it is the commit, it commits the whole
  write of a task that does nothing more.

**Only model-checked.** Liveness (`WaiterServed`, `ChangesArrive`,
`EveryPageCatchesUp`, `PageCatchesUp`, `LeaseStored`, `StandbyBecomesReady`):
the prover handles neither `ENABLED` nor fairness. `PageConsistent`,
`CandlesTrue` and `ComparisonsSound` fold over sequences of data or speak of a
whole history of them, and what a fold computes for every sequence needs
induction over data. `CertifiedExact`, `RelationsProved` and `GapsKnown` are
refuted by runs without their conditions, and no theorem is stated for them.
`HistoriesTrue`, `FeedSound`, `LimitsKept`, `LoopsAndQuotesSound`
and `AlertsAndMentionsKept` have no proofs. Of
the type invariants those in the table are proved (and what the arguments about
migration and store writer need of theirs); the others are checked. For all these the bounds of
section 3 are what one has.

## 7. What is not modelled, and why

* Formatting, wording, layout, REST shapes and the widgets of the web client:
  no state that another part relies on.
* Decoding of logs and prices, decimals, valuation: pure functions of data; the
  models use small numbers where a property tells them apart.
* The text of SQL. A transaction is modelled by what it reads and writes, and
  the isolation of SQLite and PostgreSQL is taken as theirs.
* The registry contract and its deployment, the legacy Node HTTP service, the
  scripts that record or deploy: they have no concurrency of their own.
* Time. Clocks are counters that may advance at any step; two processes share
  one, except where the code compares stamps of different origin (ticket names,
  lease versions), which are ordered freely within what the code allows.
* Several tables at once in the migration and in recovery: their states are
  separate, the sequence barrier is the only thing they share and is modelled
  for one.
* Loss of a server connection in the adapters, catalogues of Alpha and OKX,
  enrichment rounds, the ranking of the quotation core, several charts at once
  (they share the reader and the database read, and nothing else).

## 8. What remains

1. Proofs of invariants without folds: `FailureKept` (`ChainStatus`), the
   request counters of `LimitsKept`.
2. `CertifiedExact` and `GapsKnown` under the conditions that their violating
   runs show to be needed, stated as assumptions on constants.
3. A second publisher with more expiry ticks in `publication_safety`, so that
   the case of section 5 is inside a run rather than inside a proof.
4. The ranges of a backfill after a socket's loss, the valuation of swaps and
   the catalogues of Alpha and OKX.
