# perp-arb: a TLA+ model of the arbitrage engine

This directory holds TLA+ specifications of the cross-exchange perpetual arbitrage program in
`src/`, the TLC configurations that check them, and TLAPS proofs of the properties that matter
most. It was written from the Rust source; `src/docs/arb_requirements.md` is quoted only where
the code disagrees with it.

## 1. The system

    admin API ──> AppContext ──> FileStore (config/persist.rs)      store file
                      │  update_lock
                      └──> RuntimeManager::reload ──> planner
                                  │ new generation
          ┌───────────────────────┼──────────────────────────────┐
    websocket task (tokio)   shard worker (thread)        telemetry thread
    binance / bybit  ──queue──> LocalBook ─> strategies ──queue──> snapshot
                                     └──command queue──┐
                                     ^─────────────────┘
    market rule refresh (tokio) ──ArcSwap──> shard worker

| component | source | state | operations |
|---|---|---|---|
| local depth book | `engine/book.rs` | levels, `has_snapshot`, `last_sequence` | `apply` a snapshot or a delta: applied, stale, waiting, gap |
| Binance task | `gateway/market_ws/binance.rs`, `binance_sync.rs` | per symbol: ready, last sequence, snapshot, pending deltas | read an event, fetch a REST snapshot (await), find the bridge, `try_send` into the shard queue, reconnect |
| Bybit task | `gateway/market_ws/bybit.rs` | per symbol: has snapshot, last sequence | accept or ignore a message, detect a gap, forward, reconnect |
| shard worker | `engine/shard.rs` `ShardRunner` | books, strategies, pending metrics | `select!` over events, commands and the metrics tick |
| strategy | `engine/strategy.rs` | current and pending notional, active orders, order sequence, spreads | `evaluate` (close, then open), `match_depth`, `commit_plan` |
| order preparation | `engine/shard.rs`, `gateway/trade_exec.rs` | none | align to the market rules, reject what is too small |
| runtime manager | `engine/shard.rs` `RuntimeManager` | the registry under an `RwLock`: mailboxes, websocket handles, status | `reload`, `status` |
| configuration store | `config/persist.rs`, `validate.rs`, `crypto.rs` | the store in memory and its file | upsert strategy, toggle, upsert account, open |
| planner | `config/planner.rs` | none | components, shards, connections |
| market rule cache | `market_rules.rs` | watched markets, rule snapshot | hourly and one-shot refresh |
| telemetry | `engine/telemetry.rs` | generation, views, events, published snapshot | load, metrics batches, planned orders, publish tick |
| admin API, web UI, CLI, logging, ids, errors | the rest | none | pass requests on, format |

What is hard in it, and where a unit test would hardly reach, is the list `hazards` of
`PROJECT.json`: two unsynchronised depth sources behind a lossy transport, bounded queues that
are only ever `try_send`-ed to, reconnects while messages of the old connection still wait,
one thread that is both producer and consumer of the command queue, a reload that runs two
generations at once and joins threads under a lock, crashes between the steps of a persisted
update, and ladder arithmetic over long histories of partial opens.

What makes each component correct:

- *depth*: a book that strategies trust is a state the exchange's book really had (for Binance, but
  for deep levels that no snapshot showed and no event changed since);
- *adapter and book*: the adapter finds every gap itself, because the book has no way to ask;
- *strategy*: never more exposure than the ladder and `max_total_notional` allow, never more
  orders than `max_open_orders`, and what is queued is accounted for;
- *matching*: both legs are for one notional, the planned notional never exceeds what was
  asked for, and the orders can fill at once;
- *reload*: whoever looks sees a runtime as whole as it was started, one generation runs at rest, the stored
  strategies take over, queries are answered;
- *store*: valid, loadable, durable, in step with the runtime;
- *planner*: every enabled strategy on exactly one shard that is fed both its books, no market
  shared between shards, every limit kept;
- *rules*: what is cached survives failures and overtaking refreshes, what is wanted arrives;
- *telemetry*: the monitor never goes back within a generation and ends up showing the current one.

## 2. Modules

| module | models | composed of |
|---|---|---|
| `LocalBook` | messages and `LocalBookState::apply`, as operators | |
| `BookReplica` | *abstract*: a replica that stands at some update of the exchange's history, placed there by what a snapshot serves and moved by every level that changes | |
| `BinanceDepth` | exchange, stream, REST, task, queue, worker for one Binance symbol | `LocalBook`; implements `BookReplica` |
| `BybitDepth` | the same for Bybit | `LocalBook`; implements `BookReplica` |
| `Arithmetic` | the minimum and the alignment to a step, as operators | |
| `ShardEngine` | the worker's loop and its strategies | `Arithmetic` |
| `DepthMatch` | `match_depth` and `prepare_plan_for_order`, step by step | `Arithmetic` |
| `RuntimeReload` | `RuntimeManager::reload`, shard threads, websocket tasks, status queries | |
| `DurableConfig` | *abstract*: one valid, durable change at a time | |
| `ConfigStore` | `FileStore`, validation, and the update of `AppContext` | implements `DurableConfig` |
| `RuntimePlanner` | components, packing into shards, connections, and what `from_plan` keeps of a shard, as operators | |
| `MarketRules` | updates that replan the runtime, the watch list, the hourly and the one-shot refreshes | `RuntimePlanner` |
| `Telemetry` | the telemetry queue, its thread and snapshot, the workers and reloads that send to it, the end of the process | |
| `LocalBookProofs` | lemmas on `LocalBook` and on sequences | |
| `BinanceDepthProofs`, `BybitDepthProofs`, `ConfigStoreProofs`, `RuntimeReloadProofs`, `MarketRulesProofs`, `TelemetryProofs` | theorems and proofs | the module of the name |
| `EngineProofs` | theorems and proofs | `ShardEngine`, `DepthMatch` |
| `MC*` | values of the constants for TLC | |

How state and actions correspond to the code, definition by definition, is the `map` of
`PROJECT.json`. The decisions that shape each module:

**LocalBook.** Side and price together are one member of `Level`; a book is a map from levels to
quantities, 0 for absent. That abstracts the sorted arrays (`sort_*`, `binary_search`) to their
content. `Option<u64>` sequences are naturals or `NoSeq`. `Matches` and `Tracks` say in two strengths
that a book is the exchange's.

**BinanceDepth.** `hist[i]` is the exchange's book after update `i`, a history that only the
properties and the exchange itself read. An event carries all levels changed since the last
event (`U` = first id with a change, `pu` = the last event's `u`); with `IdGaps` ids may pass
that change nothing, so that a bridge can start before the snapshot or right after it. An event
can be lost at any time, connected or not. A REST snapshot is of the book at an id at most `MaxLag`
behind, and shows the best `DepthLimit` levels of a side (`Best`; the code asks for
`DEPTH_LIMIT = 1000`, `binance_sync.rs:17`, `:284`). `Better` says which levels are of one side and
which of them has the better price. A level the snapshot left out is missing from the book until
an event reports it, and events report changes only: a level that rests unchanged stays
missing even when the levels before it are gone and it is the best one. `apply` trusts that
book, and so do the strategies. `BookTracksExchange` states what is left: there is one snapshot such
that every level is as the exchange has it, or has not changed since that snapshot and is as it
showed it. That the book simply equals the exchange's is false of the code. The handler is split where others can act in between: the REST await (`fetching`) and
each `try_send` (`sending`). A symbol's neighbours on the connection appear as errors
(`ConnectionLost`) and as the queue places they take (`SendFails` needs no full queue).
`Initialize` keeps the suffix of `pending` above the snapshot's id: sequences increase along
`pending`, because the stream is ordered and what follows is checked by `has_sequence_gap`.

**BybitDepth.** The stream itself carries the snapshot, and is of a book of 1000 levels
(`orderbook.1000`, `bybit.rs:21`): the exchange's book is that one here, its snapshots are whole, and
a trusted book equals it (`BookMatchesExchange`). `intact` says that nothing of the
current connection was lost: the premise of the liveness property.

**ShardEngine.** Between two receives the worker visits the strategies of a market one by one
(`todo`); market rules are replaced by another task in between, hence any plan may be prepared
or rejected. Spreads are abstracted to the number of ladder levels they reach, and an
evaluation's matched and rounded notional to any positive notional up to the desired one. That
abstraction is what `DepthMatch` justifies (`NotionalWithinDesired`). Fills are not in the code,
so `current` stays 0 and no close is ever planned; the close branch is modelled all the same.

**DepthMatch.** Exact arithmetic replaces `f64` and its rounding epsilon: quantities are in
1/`Scale` of a coin, with every price a divisor of `Scale`.

**RuntimeReload.** Handlers hold `update_lock`, so there is one reload at a time; a generation is
a reload. `bootstrap_mailbox` drops the error of a thread that cannot be started (`.ok()`,
`shard.rs:284`) and with it the receiver of the shard's queue; the mailbox and its routes are
registered all the same, and the reload goes on. Such a worker is `unspawned`: its websocket tasks
are spawned, find the queue disconnected at each message and reconnect for ever; the drop
of the mailbox sends to nobody and joins nothing. `RegisteredRuntimeRuns` and `FedQueuesAreRead` name
this exception; without it both would be false of the code. `SendShutdown` and `JoinWorker` are the two halves of `ShardMailbox::drop`, run under
the write lock while the registry is replaced; the websocket handles are dropped (and aborted)
only after all mailboxes, the order of the fields of `RuntimeRegistry`.

**ConfigStore.** An update is the steps accept, truncate the temporary file, write it, rename it,
replace the store in memory, reload and answer. Each may be the last before a crash. Restarts
may use another master key or none. Requests that fail validation change nothing and are not
actions.

**RuntimePlanner.** Strategies and markets are numbers in the order of their ids and keys, so that
sorting is the order of numbers. `Component` is what the code's search visits, defined without a
search: the members of every set that holds the strategy and is closed under sharing a market.
`Packed` is the packing loop, strategy by strategy: a component is packed at its first member, the
one that `Leads` it, which is the order the code sorts components in.
`StrategiesFed`, `MarketsOwned` and `WithinCapacity` say independently of the algorithm what a plan
must be; `MarketRules` checks them after every update, over many sets of enabled strategies.

**MarketRules.** Of a rule only its market matters, of an exchange's answer whether it came: a
failed request, status, body or page all leave the cached rules in `next_rules`. Reading the
watched markets, reading the cached rules, each exchange's answer and the store are steps of
their own, so that refreshes overtake each other and updates at every await. The set `OneShot`
bounds the spawned refreshes in flight.

**Telemetry.** Here too a thread may not start, the telemetry thread (`telemetry.rs:141`) or a
worker, and nobody is told; without the telemetry thread every message is dropped.
A reload has one worker, whose orders and metrics stand for those of all its shards:
shards send independently, and each strategy is on one. Metrics are kept as the count of orders,
so that going back is visible; an event is its place among its worker's `orders`, which the bound
`MaxOrders` limits (`MayPlan`). Stamps are
milliseconds and may be equal. Two properties exclude that case: with equal stamps the messages
of the two generations cannot be told apart by anyone.

## 3. What is checked

| run | bounds | shows |
|---|---|---|
| `binance` | 2 levels of a side, 2 quantities, 5 updates, snapshots of 1 level, lag 2, queue of 2 | type, `BookTracksExchange`, `ForwardedAlwaysApplies`, `StrandedUntilDropped`, refinement of `BookReplica` |
| `stranded` *(violated)* | 4 updates, no lag | `NeverStranded` |
| `bybit` | 2 levels, 3 updates, queue of 2 | type, `BookMatchesExchange`, `ForwardedAlwaysApplies`, `CatchesUp`, refinement |
| `engine` | 2 strategies on one pair in both directions, ladders of 2 and 1 levels, queue of 3 | exposure, order limit, accounting of queued orders, metrics current and flushed |
| `orders` *(violated)* | as `engine` | `OrdersSettle` |
| `match` | prices 1..4, up to 4 levels of 0 or 1 coin, 3 scanned, desired up to 7, two rules | notional within desired, all depth used, orders fillable |
| `reload` | 2 shards, 3 generations, threads that do not start, queue of 2 never quite full | runtime whole, one generation, no orphaned feeds, take-over, queries |
| `reload_stuck` *(violated)* | 1 shard, 2 generations, queue may be full | `StoredStrategiesTakeOver` |
| `exposure` *(violated)* | 1 shard, 2 generations | `PlannedWithinTotal` |
| `config` | 2 accounts, 1 strategy, 2 exchanges, 2 keys, 5 updates | validity, loadability, agreement with the runtime, refinement of `DurableConfig` |
| `rules` | 4 strategies over 5 markets on 2 exchanges, 4 markets per shard, 2 and 1 symbols per connection, 2 updates, 1 one-shot refresh beside the hourly one | every plan sound and within its limits, rules survive failures, rules arrive |
| `telemetry` | 2 catalogs of 1 strategy, 2 reloads, 2 orders, queue of 2, 1 event | published snapshot current, monitor only advances, monitor converges |

*Why the bounds are enough.* A Binance fault needs a snapshot, a bridge, a lost event and one more
event: 4 updates; the fifth lets a resynchronisation follow it. A snapshot of one of two levels leaves out the
deeper one whenever both are there, and two more updates make it the best level of the exchange,
still missing from the book. A queue of two makes "first
message fits, second does not" happen in every hand-over, and is full most of the time. For
Bybit, three updates give seen, next and gap in every order. In `engine` the first strategy's
order limit is odd and its ladder passes `max_total_notional`; a queue of three lets both, one
or none of a pair fit. In `match` four levels against three scanned make the level limit bite.
In `reload` three generations let a second reload meet what the first left. In `config` five
updates create two accounts and a strategy and leave two for changes that could invalidate it.
In `rules` the markets make chains: a component of several strategies that only its middle member
holds together, components that fit a shard together and ones that do not, and shards whose
markets need more than one connection; one market is not listed. Two updates are enough for a
refresh to hold a watch list that is two plans old. In `telemetry` two reloads give the overlap of
generations; one event is the limit, so that the second order already pushes one out; a queue of
two is full in most states, and drops every kind of message.

`CHECK_DEADLOCK FALSE` appears in `match`, a computation that ends, and in `telemetry`, where the
process exits.

*Symmetry* is used where it is sound: ids, exchanges and keys in `config`, which has no liveness
property. The levels of `binance` and `stranded` are ordered by price.

### Fairness

- `BybitDepth`: the task reconnects (`run` loops with a delay), reads its socket, and the worker
  its queue; nothing is assumed of the exchange. `CatchesUp` assumes that a connection stays
  up and loses nothing.
- `ShardEngine`: the thread runs (weak fairness of the visit), and `select!` picks a ready channel
  at random, so a channel that is ready again and again is picked again and again (strong
  fairness of commands and of the tick). Markets owe nothing.
- `RuntimeReload`: threads run; a reader gets the lock if it is free again and again. Users and
  exchanges owe nothing.
- `MarketRules`: the runtime polls its tasks, and every request ends (reqwest sets no overall timeout
  by default: a connection that hangs for ever would end the hourly refresh, which is the
  assumption's price). An exchange that the hourly refresh asks again and again answers again and
  again (strong fairness, per exchange). Updates owe nothing.
- `Telemetry`: threads run, and the telemetry thread's `select!` picks a ready channel at random, so
  that the publish tick and each worker's metrics tick have their turn (strong fairness). Markets,
  users and the end of the process owe nothing.

### Where the code and its documents disagree

1. **A symbol can be stranded** (`stranded`). Once Binance's snapshot is fetched, a lost event
   before the bridge leaves the symbol waiting until the connection ends: the snapshot is kept
   (`binance_sync.rs:123`) and never refetched. `StrandedUntilDropped`, which holds, says that
   nothing else helps.
2. **A reload can hang** (`reload_stuck`). `ShardMailbox::drop` loses the shutdown of a full queue,
   then joins. The gateways that fill the queue are aborted only afterwards, and the write lock
   is held. `reload` shows that all is well as long as the queue has room.
3. **A reload forgets exposure** (`exposure`). Every strategy restarts from an empty state.
4. **Orders never settle** (`orders`). Nothing reduces `active_order_count` or the pending notional,
   so a strategy stops after `max_open_orders / 2` plans.

One observation on `binance` that no document contradicts: a book that is ready and in sequence can
lack a level for as long as that level does not change, and the code has no way to tell; the
documents ask for a snapshot and increments, not for how deep a snapshot has to be.

One on `reload`: after a thread failed to start, the shard's strategies do not run, and neither the
answer to the update nor the status shows it.

Two observations on `match` that no document contradicts: the limit price of a buy is that of the
worst level, so the buy order alone may be worth more than desired (the smaller of the two legs
is what is counted); and deeper levels may have less spread than the best one, which alone is
compared with the ladder.

Two more on `telemetry`, for the same reason no findings but hazards: a load that does not fit the
queue leaves the monitor on the older generation until the next reload; and `Drop` of the hub
joins a thread that never ends if the queue had no room for `Shutdown`.

## 4. What is proved

The proofs hold for every value of the constants that satisfies the named assumptions of the
modules, which TLC evaluates in the runs. Every theorem below but `ComponentsPart` is about the
specification without fairness, and each rests on an inductive invariant, with a lemma per action
that shows it preserved: `IInv` of its module (theorem `Invariance`), and for `DepthMatch` `MatchInv`
and `WalkInv` (`MatchInvariance`, `WalkInvariance`). With them, every invariant and every action
property that a passing run checks, and both abstract specifications, hold for all instances; what
the runs alone say is liveness (section 5).

| module | theorems | states, for all values |
|---|---|---|
| `BinanceDepthProofs` | `TypeCorrectness`, `BookFaithfulness`, `ForwardedApplies`, `ReplicaImplemented`, `StrandedUntilReconnect` | `TypeOK`, `BookTracksExchange`, `ForwardedAlwaysApplies`, `ImplementsReplica`, `StrandedUntilDropped` |
| `BybitDepthProofs` | the first four | of `BybitDepth`, the same but `BookMatchesExchange` |
| `EngineProofs`, the worker | `TypeCorrectness`, `ExposureBound`, `OrdersBound`, `MetricsStayCurrent`, `QueueAccounted` | `TypeOK`, `ExposureWithinLadder`, `OrdersWithinLimit`, `MetricsCurrent`, `QueuedOrdersAccounted` |
| `EngineProofs`, the plan | `MatchTypes`, `NotionalBounded`, `AllDepthMatched`, `PlansFillable` | `MatchTypeOK`, `NotionalWithinDesired`, `MatchesAllDepth`, `OrdersFillable` |
| `ConfigStoreProofs` | `TypeCorrectness`, `ValidityPreserved`, `Restartable`, `RuntimeInStep`, `DurableUpdates` | `TypeOK`, `StoreValid`, `PersistedLoads`, `RuntimeMatchesStore`, `ImplementsDurableConfig` |
| `RuntimeReloadProofs` | `TypeCorrectness`, `RegistryWhole`, `OneGeneration`, `QueuesRead` | `TypeOK`, `RegisteredRuntimeRuns`, `OneGenerationAtRest`, `FedQueuesAreRead` |
| `MarketRulesProofs` | `ComponentsPart`, `TypeCorrectness`, `PlansSound`, `PlansWithinCapacity`, `RulesSurvive` | a fact about the planner; `TypeOK`, `PlanSound`, `PlanWithinCapacity`, `RulesSurviveFailures` |
| `TelemetryProofs` | `TypeCorrectness`, `SnapshotsStayCurrent`, `MonitorAdvances` | `TypeOK`, `SnapshotCurrent`, `MonitorOnlyAdvances` |

Why the invariants need strengthening:

- *Binance.* `BookTracksExchange` is not inductive: whether the next message keeps the book true
  depends on what is queued, which depends on what the synchronizer believes it sent. `IInv` adds,
  along the pipeline: every message anywhere tells the truth about the history, a snapshot about the best
  levels (`AllFaithful`); the
  queue is a chain from the book's sequence (`QueueInSequence`); what the running handler has yet
  to send continues that chain (`OutboxInSequence`); and the synchronizer's last sequence is the
  end of the chain (`SyncInStep`). Dropping a connection keeps the chain, because a new one starts
  with a snapshot, which follows anything. A delta that follows the book takes over every level that
  changed since the book's sequence (`AppliedDeltaSpans`), so that what it leaves alone is as true, or as
  unchanged since the snapshot, as before (`ApplyTracks`). The proofs hold for any `DepthLimit` and any
  relation `Better`.
- *Binance, stranded.* That nothing received later bridges a gap needs `StreamAscends`: what is buffered
  and what is on the wire are one ascending chain, whatever was lost between. An event that starts
  after the snapshot's next id is then followed only by events that start later still. `Initialize`
  may drop what is before the snapshot, but not that event, and a task whose symbol waits does not
  fetch again.
- *Bybit.* The same chain without an outbox; messages are `Honest`: faithful, and a delta is one update
  long, so that the next id is also the id that follows.
- *Engine.* The exposure bound speaks of the best spread so far (`peak`), a commit of the spread of its
  evaluation: `SpreadBelowPeak` relates them, and the assumption that ladders ascend does the rest.
  `QueuedOrdersAccounted` is inductive by itself, since a commit accounts for a pair before either of
  its orders is enqueued and nothing is ever taken off the account; what its proof needs is how the
  sum over a queue changes when an order is appended or taken.
- *Matching.* On each action one leg sells, down the bids, so its last price is its lowest:
  `SoldBelow` says that its whole quantity at that price is worth at most what was matched. Rounding
  only lowers the quantity, and the plan counts the smaller order. `Sorted` and `AtLevels` carry the
  order of the book from one pass to the next.
- *Matching, depth.* `Prefixes` ties the sum to the walk: matched plus what is left of a leg's level is
  the notional of its levels so far. A pass that goes on adds a level on both sides; the loop stops
  at the target or at the end of a book, where the prefix is the whole of it. `Backed` says that up to
  the level of a leg's last price the book holds what the leg has matched, hence the order, which
  rounding only makes smaller.
- *Store.* What each step of an update still has to do is tied to what the file, the temporary file and
  memory hold at that step, so that a crash anywhere leaves one of two whole stores.
- *Reload.* What is running, or was never started, is tied to where the reload is: not yet registered,
  registered with the old one being joined, and the queues a join waits for. Which threads start is
  open in every proof.
- *Rules.* `IInv` is that the plan is `Plan(enabled)`; the rest is about that operator.
  `RulesSurviveFailures` is a step property and needs only that refreshes do not share locals.
- *Plans.* `ComponentsPart` is the reason why shards own their markets: the complement of a closed set
  is closed, because adjacency is symmetric, so two components that meet are one. `PackedWell` says of
  the packing loop, after each strategy, that the shards hold just the components led so far, share
  no market, keep their limit unless they are one component, and that no two neighbours fit
  together. A connection is the markets whose ranks have one quotient by its size: ranks number the
  markets of a shard without a gap, so no chunk is empty or too large.
- *Telemetry.* `SnapshotCurrent` says of the flag `dirty` what every branch of the loop has to keep.
  `MonitorOnlyAdvances` needs the whole way of a message: what a worker sends is news to
  all before it (`News`), messages of one generation are in order in the queue (`Before`), ahead of
  what the hub has received (`Ahead`), and the hub is ahead of the snapshot (`Shown`). A drop only
  takes one of them out. A generation is followed only while its stamp is its own (`Sole`).

*Induction over data.* What a fold or a loop computes is proved without an induction rule, since
the library's take an operator as parameter. A set of naturals that is not empty has a least member
(`WFMin` over `NatLessThanWellFounded`), so a set with zero and every successor holds all naturals
(`NaturalsAll`), and the parts of a finite set are reached from their proper parts: inductions are
over sets, and the induction step is a step of the proof. `SumFunctionOnSet` is unfolded in this way
into the sum over all but one index, then into any order of the indexes (`EngineProofs`); the packing
loop is followed along its strategies, and the ranks of markets along the markets
(`MarketRulesProofs`).

The two refinements of `BookReplica` map `version` to the book's sequence: only the worker's
`HandleEvent` moves the replica, by a snapshot to what it serves (`Served`: the best levels for Binance,
the whole book for Bybit) or by a delta forward along the history; the refinement of `DurableConfig` makes
the rename the moment of the change.

## 5. Only model-checked, not modelled, and planned

*Only model-checked*, because the proof system does not cover fairness: the liveness properties
(`CatchesUp`, the flush, take-over and query properties, `RulesArrive`, `MonitorConverges`). That the
violated properties are violated is TLC's to show as well.

*Not modelled*: JSON, the web pages, the CLI, logging; the cipher; floating-point error; wall-clock
time (so how old a trusted book may be is not stated); power failures that lose what was
written. `TradeExecRuntime`, `route_market_event` and the event kinds `OrderWsRaw`, `AccountWsRaw`,
`PositionWsRaw`, `TimerTick` and `ConfigReload` have no effect or no caller in the code.

*Plan*: step lemmas behind the liveness properties, as far as they are safety: that a query under way
can only wait or be answered, and that no step but a drop takes a message of the current
generation out of the telemetry queue unread.
