# A TLA+ model of the flash-sale system

The repository is a flash-sale ("seckill") backend: a Go HTTP layer, Redis as
the gatekeeper of stock, a C++ engine that decides every sale, and a SQL
database that stores the orders. This directory models the parts in which
concurrency, failures and ordering decide whether the sale is correct. TLC
checks the models on small instances and TLAPS proves theorems about them for
all instances. All paths below are relative to `src/backend/` unless they begin
with `src/`.

## 1. Inventory

### Parts, their state and their operations

| Part | Code | State | Operations |
| --- | --- | --- | --- |
| Redis store | `cache/redis.go` | per SKU: `stock`, set `bought`, sorted set `pending`; the set `seckill:skus` | deduct script, rollback script, ZREM, SADD, query of stale members, `WarmUpInventory` |
| HTTP handler | `handler/seckill.go` `EnqueueHandler` | none of its own (locals of a goroutine), breaker counters | deduct, register the SKU, enqueue, roll back |
| Rollback | `cache/redis.go` `RollbackInventory` | attempt counter | script, retry with backoff, dead letter |
| Engine | `handler/bridge.cpp`, `handler/worker.hpp` | per shard: MPMC queue, dispatcher, SPSC queue, worker with inventory, seen ids, WAL; sold-out flags; result queue; `running`; barrier counter | `EnqueueRequest`, `EnqueueBatch`, `WarmUpEngine`, `PollResult`, `WaitEngineDrained`, `StopEngine` |
| Queues | `handler/mpmc_queue.hpp`, `handler/spsc_queue.hpp` | positions, cells | `try_enqueue`, `try_dequeue`, batches |
| WAL | `handler/wal.hpp` | one file per worker | `Append`; `Recover` (never called) |
| Result pipeline | `handler/seckill.go` `processResultWorker`, `dbWorker`, `cleanupWorker` | `orderChan`, `cleanupChan`, two batches | poll, forward, INSERT, ZREM, roll back |
| Sweeper | `handler/seckill.go` `StartSweeper` | the list it fetched | every 5 s: look stale members up in the orders table, acknowledge or roll back |
| Circuit breaker | `handler/seckill.go:29-38,440-463` | failure count, time of the last failure | open, let through, reset |
| Lifecycle | `main.go` | what outlives a process: Redis keys, orders, WAL files | warm-up, start, shutdown, crash |
| Glue | router, config, db, model, metrics | statistics | - |
| Clients | `tests/`, `benchmark/`, nginx | - | - |
| First engine | `src/engine/src/bridge.cpp`, `worker.hpp` | one queue, one dispatcher with its batch and counters, workers, barrier counter | as the engine, and `EnableCorrectnessCheck`; deprecated (`src/README.md:289`), not built by the backend |
| Order worker | `src/engine/src/order_worker.cpp` | MPMC queue, idempotency table, counters | produce, consume, mark, write, end |
| NATS consumer | `src/engine/src/core_consumer.cpp` | SPSC queue | fetch from a stub, push, pop |

### How they interact

A call enters `EnqueueHandler`, which runs the deduct script. On success the
user is in `bought`, the purchase in `pending`. The handler then calls the
engine through cgo; if the queue is full or the SKU is flagged as sold out it
calls `RollbackInventory`. The dispatcher of the shard moves the request from
the MPMC to the SPSC queue, and the worker decides and answers into the result
queue, which eight goroutines poll. A success goes to `orderChan` (database)
and then to `cleanupChan` (ZREM of the pending member); a refusal goes to
`cleanupChan` and is rolled back in a goroutine of its own. Whatever stays
pending for 30 s is settled by the sweeper of any node. Nodes share Redis and
the database and nothing else; every node has its own engine with the full
inventory.

### What is hard

* Three stores (Redis, the engine's memory and WAL, the orders table) record
  one sale and are never updated together.
* Every Redis call may take effect and lose its reply; rollbacks are retried.
* Sweepers race with each other and with the calls they believe dead.
* Process crashes lose everything in queues, channels and batches, and every
  start of a node sets the stock in Redis again.
* Two bounded channels and two batches lie between an answer and its effects.
* The breaker is two atomics that all calls read and write one after the other.
* The engine spins on bounded queues in three places, and stops and drains
  while producers are still calling.
* The queues are lock-free.

### What makes each part correct

* Redis: no schedule of commands loses or invents stock.
* Reservation: no oversell; one reservation per user; what is rolled back was
  taken by the same purchase; the reservation of a stored order stays; nothing
  is forgotten; everything is settled some day.
* Engine: requests are neither lost nor repeated nor overtaken; inventory, WAL,
  `sold_total` and answers agree; the sold-out flag is never wrong; drain and
  stop mean what they say and come back.
* Queues: bounded FIFOs, cells never shared by two threads.
* Pipeline: every answer has its effect, once, the order before its
  acknowledgement; full channels delay and never block for ever.
* Lifecycle: restarts sell no more than the warm-ups put on the shelf, a user has
  at most one order more than deletions of the bought set, every order is in a WAL.
* Breaker: an open breaker shields Redis; a healthy Redis closes it.
* Order worker: the workers end and leave nothing accepted behind.
* First engine: a drain and a stop see everything admitted before them; the
  dispatcher's counters tell the truth.

## 2. Modules

| Module | What it is |
| --- | --- |
| `Redis` | the keys and every command the backend runs on them |
| `Reservation` | EXTENDS `Redis`: the life of a reservation across handler, engine answer, database, cleanup, sweepers, with faults |
| `Sale` | abstract specification: take off the shelf, then put back or sell |
| `Pipeline` | result workers, `orderChan`, `cleanupChan`, batches, end of the process |
| `Delivery` | abstract specification of the pipeline: each answer has its effects once |
| `Lifecycle` | EXTENDS `Redis`: nodes that start, warm up, serve, sweep, die, over what outlives them |
| `CircuitBreaker` | the two atomics of the breaker, calls, a clock, Redis going and coming |
| `Engine` | the C++ engine, queues as atomic FIFOs |
| `Serving` | abstract specification of the engine: per shard a line of accepted requests and one server |
| `SpscQueue`, `MpmcQueue` | the two queues, one step per memory access |
| `BoundedFifo` | abstract specification of both queues |
| `OrderWorker` | EXTENDS `MpmcQueue`: the program `order_worker.cpp` over the queue's own steps |
| `LegacyEngine` | the first engine of `src/engine/src` |
| `MCReservation`, `MCPipeline`, `MCLifecycle`, `MCEngine`, `MCOrderWorker`, `MCLegacyEngine` | small instances for TLC |
| `ReservationProofs` (with those of `Redis` and `CircuitBreaker`), `PipelineProofs`, `LifecycleProofs`, `EngineProofs`, `SpscProofs`, `OrderWorkerProofs`, `LegacyProofs` | theorems and proofs |
| `Sums` | lemmas about sums over finite sets, for the proofs |

Definitions named `X_Suffix`, preceded by a comment "Mutant", are deliberately
wrong forms of `X`. No specification uses them. They record, for each property,
a plausible bug that the property detects when `X` is replaced by it.

### Redis

A Lua script is one step. Scores of the pending set are reduced to `fresh` and
`stale` (older than the 30 s of the sweeper's query). The dead letter list and
the `done:` keys are only ever written and are left out. `RedisSpec` lets any
command run at any time with any purchase: it is what Redis may see from any
number of clients. `WarmUpInventory` is in `Lifecycle`; here the keys start as it
leaves them.

### Reservation

A *call* is one HTTP request; a *purchase* is the record that the member string
`sku:user:qty:reqID` spells, so two calls can carry the same purchase. `pc[c]`
follows a call through `EnqueueHandler` and the engine. `rolling[w]` is the
purchase that the goroutine `w` (a handler, a goroutine of the cleanup worker, a
sweeper) reverts in `RollbackInventory`. `toCommit` and `toAck` stand for
`orderChan` and `cleanupChan` with the batches behind them. `holder` and `sold`
are history variables.

The engine is a black box that sells, refuses or drops: it drops a request whose
id it has processed and, without a trace, the ids it keeps for itself (`Reserved`:
0 is a warm-up request, the largest 64-bit value a barrier, ids above 18e18 are
benchmark requests whose success the result workers skip).

Faults are chosen by the constant `Faults`:

* `redis` - a command is lost, or it takes effect and its reply is lost. The
  client library sends again by itself (external; go-redis retries three times
  by default), so a deduction may run twice and a rollback any number of times.
* `db` - a statement fails. The code ignores the error of the INSERT.
* `slow` - a live call takes more than 30 s, so that its member turns stale while
  it is still being worked on.
* `crash` - the process serving a call dies. The crash of a process that serves
  several calls is several such steps. Sweepers survive, as those of the other
  nodes do; the restart of a node, which resets Redis, is in `Lifecycle`.

### Pipeline

A result worker is at `poll`, at the send to `orderChan` or at the send to
`cleanupChan`, and holds the result in between; a send is enabled while the channel
has room, which is what blocking means. `dbWorker` and `cleanupWorker` receive into
a batch and flush it when it is full or the ticker fires, so a flush is possible
whenever the batch is not empty. Channels and batches are sets: several workers
feed them, no property depends on the order, and the INSERT and the ZREM of a batch
are single statements. `Inserted` is `ON CONFLICT DO NOTHING`: of two rows with one
id exactly one is in the table. `inserts`, `acks` and `reverts` count effects and
are history. Faults: `db` (the INSERT fails and its error is ignored), `redis` (any
ZREM of the pipeline, or a rollback with all its retries, fails), `exit` (the
process ends; `Exit` is both the return of `main` after `StopConsumer` and a crash,
because neither waits for the pipeline). `shutdownChan` is never closed and
`orderChan` neither; the branches for them are dead code and left out.

### Lifecycle

A start is the list of commands of the `WarmUpInventory` calls, run one by one next
to the other node's traffic, then the construction of the engine with its full
inventory and no seen ids, on the WAL file it finds. `servedBy` is the node a
purchase goes to. The steps of a purchase are those that touch what outlives the
process; the finer ones are in `Reservation`. A WAL record is two halves, so that a
short write (`disk`) leaves one behind and `Recovered` reads what follows askew, as
`WalLogger::Recover` would. `torn`, `sets`, `cleared` and `net` are history; `torn` has the
purchases whose record was cut, lost, or written off a boundary.

Each node in `Sweepers` (in the code: all of them) runs the loop of `StartSweeper` step by
step: fetch the stale members of a SKU (`Sweep`), look one up in the orders table
(`SweepCheck`), then acknowledge it (`SweepAck`) or roll it back (`SweepBack`). Calls,
warm-ups and the sweepers of other nodes come in between, so a list may be older than
a restart. `RollbackInventory` is one script here, or, with the fault `resend`, one that
runs again as often as it likes; the attempts are counted in `Reservation`. With the fault
`slow` a member may turn stale while its purchase is still worked on.

`Crash` is the death of a process. What `write()` has taken is in the page cache and
stays; the sweeper's list, like every queue, is gone. The end of the machine is another
matter: `handler/wal.hpp:38-40` says of the record that it "survives application crash
(kill -9), but not OS crash/power loss", and nobody calls `Fsync`, while
`src/README.md:18` promises data integrity "even after `kill -9` or power failure". The
model makes no claim about the latter.

### CircuitBreaker

One step per access of `redisFailureCount` and `redisLastFailure`. Times are ages in
whole seconds, cut off at `RedisCircuitDuration`, and the count is cut off one above
the threshold, since nothing distinguishes larger values. A failing call adds to the
count, reads the clock and stores what it read in three steps; seconds may pass between
them.

### OrderWorker

The steps inside `try_enqueue` and `try_dequeue` are those of `MpmcQueue`; `phase` is
where a worker is in its loop: first try, look at `producers_done`, last try, mark,
write. The source names a queue class that the repository does not contain
(`VyukovMPMCQueue`, "or your own queue"); the header it includes, `mpmc_queue.hpp`
beside it, is the same file as the backend's.

### LegacyEngine

`buffer` is the dispatcher's batch, `fanTo` the worker it gives the barrier to next,
`check` the correctness counters. A push to a full worker queue waits while
`running`, and gives the request up otherwise (`dropped`). Every SKU of the model has
an inventory and a flag; other SKUs are answered with status 0 and touch neither.
What is as in `Engine` (`is_processing_`, WAL, `sold_total`) is left out, and so is a
caller that uses the id of a barrier (`LegacyAssumption`); `Engine` has it.

### Engine

`mq`, `hand`, `sq`, `batch` are the places a request goes through. The control
states of dispatcher and worker split at every read and write of shared state:
test of `running`, pop, push; poll, test of `running_`, second poll,
`is_processing_` up, process, WAL, answer, `is_processing_` down. The SKUs of a
shard have their inventory in one worker, so `inventory` is a function of the
SKU alone. `admitted`, `finished`, `replied` and `mark` are history variables.

A request is an order, a warm-up request (id 0), a benchmark request (an id above
18e18) or of kind `max`: a client's request with the largest 64-bit value as its id.
`EnqueueRequest` refuses no id, and `strconv.ParseUint` returns that value, with an error
the handler does not look at, for every number out of range. The worker takes such a
request for a barrier: it counts it and gives no answer (`IsBarrier`). Whether there are
any is decided by the instance (`FalseBarriers`).

`Enqueue` may take a queue for full with one cell still free: that is what the
MPMC queue does while the dispatcher is copying a cell (`LooksFull`). The other
anomaly of that queue, a false "empty" (`MpmcQueue_empty.cfg`), only makes a dispatcher or a
result worker come back later, which they may do in this model at any time. The
time stamps, the monitor thread, the correctness counters (their pointers are
null in every worker) and the getters are left out. `IsEngineIdle` is read in one
instant, which is more than the code does; even so its promise fails.

A second `InitEngine` is not modelled: the program calls it once.

`Serving` is what the engine's callers may rely on, without queues and threads. Its
`line` is everything between admission and decision (`Path`, without the request that is
decided), `serving` the result between decision and result queue, `results` and `told`
are the result queue and what Go has polled. Whatever the dispatchers and workers do
in between is a stutter. A stop is not visible in it: the lines just stand still.
`TooMany` is an operator constant, instantiated with the limit of `IsDuplicate`: as a
cardinality of a set it would keep the finiteness of that set in every proof. The
engine of `Reservation`, `Pipeline` and `Lifecycle` is this server, with less said about
it: it answers a request at most once, drops known and reserved ids without an answer,
and is free to sell or refuse.

### Queues

`SpscQueue` copies cells one by one between the load of the other side's index and
the store of its own. Single operations are batches of one item. `MpmcQueue` takes
one step per load, compare-exchange, copy and store, with spurious failures of the
weak exchange. Both take the steps in one global order. The code's acquire/release
pairs justify that: a thread only touches a cell after an acquire load that
reads the release store made after the last use of that cell. Both implement
`BoundedFifo`; for the MPMC queue an item is in the queue from the producer's
successful exchange to the consumer's.

## 3. Runs

Every run names its bounds in its `.cfg`. Deadlock checking is off where the
system may come to rest: all calls made, the engine stopped, all items sent.

| Run | Instance | Shows |
| --- | --- | --- |
| `reservation_faults` | one user buying one item twice, two items, all faults, one of the ids reserved | `StockConserved`, `NoForgottenReservation`, `SweeperAcksOnlySold` |
| `reservation_crash` | two users, quantities 2, 1 and 1 for two items, one call sent twice, one id used by both users, crashes | `OrdersStayReserved`, `NoOversell`, `RollbackPairsWithDeduct`, the refinement `ImplementsSale`, liveness `StaleIsCleared` |
| `reservation_settle` | two users, three purchases, slow calls, a swallowed id | liveness `ReservationSettles` |
| `pipeline` | two sales with one id, a refusal, an unknown SKU, a benchmark; 2 workers, channels of 1, batches of 2, all faults | `NothingVanishes`, `AckedIsOnItsWay`, the refinement `ImplementsDelivery`, liveness `EveryResultSettles` |
| `lifecycle` | 2 nodes, one of which sweeps, 2 starts in all, one SKU with 2 items, a user who comes three times and uses an id twice, lost commands, short writes | `StockBoundedByWarmUps`, `OneOrderPerClearing`, `OrdersAreLogged` |
| `breaker` | 3 callers, threshold 5, 5 seconds | `OpenShields`, liveness `BreakerRecovers` |
| `engine` | 2 shards, queues of 1 and 2. Either 4 requests (one id with two quantities, 5 items wanted by 2, 3 and 3, one call through `EnqueueBatch`, one request with the id of a barrier) and a stop at any time, or two callers of `WaitEngineDrained` next to an order or a warm-up request | `FlagImpliesEmpty`, `WalAccountsForInventory`, `ReportedIsLogged`, `FifoConservation`, `SoldOncePerId`, `DrainedMeansProcessed`, `StopFinishesDispatched`, the refinement `ImplementsServing` |
| `engine_live` | 2 shards, all queues of capacity 1, the result queue too. Either 3 orders, two of them with one id, and a request with the id of a barrier; or an order, a benchmark request and a stop; or an order, a drain and a stop | liveness `DrainReturns`, `QueuedIsAnswered`, `StopReturns` |
| `spsc` | ring of 3, batches up to 3, 8 items | `NoSharedCell`, `ImplementsFifo`, liveness `EveryItemArrives` |
| `order_worker` | 2 producers, 2 workers, 2 cells, 2 calls each, one repeated id | `ExclusiveCell`, `ReadsItsItem`, `ImplementsFifo`, `AcceptedIsConsumed`, liveness `WorkersFinish` |
| `legacy_engine` | 3 requests (two in a batch, one id again), 2 workers, batches of 2, queues of 1 and 2, a drain, stop at any time, a filter of one id | `DrainedMeansProcessed`, `StopProcessesAdmitted`, `GapsAreRejections` |

The two runs of the engine take several *casts* (`MixtureCasts`, `BusyCasts` in `MCEngine`):
sets of callers, and within each of them everything interleaves, while callers of
different casts do not meet. Nobody has to call, so these are behaviours of the engine, and
the action constraint that selects them takes away no step that fairness asks for. In the
drain casts the second caller either finds the guard taken or comes after the first and
resets the counter; the request with the id of a barrier is in another cast, because with
it `DrainedMeansProcessed` is false. The theorems have everybody at once.

`lifecycle` has one sweeper, no slow calls and no rollback that is sent again because
`OneOrderPerClearing` is false otherwise (`RollbacksRunOnce`). The two other properties do
not need that; `MCLifecycle_faults.cfg` checks them with both nodes sweeping and rollbacks
sent again (by hand, as those of the next section; TLC finds no error), and their theorems
have every fault.

Why the bounds are enough for the hazards: two purchases of one user with
different quantities are what any confusion of purchases needs; a third, by
another user, makes two users compete for the same items. Two attempts instead of
three for a rollback give a first, a last and a repeated one. Capacities of 1 and 2
make every queue full and empty and every ring wrap. Two shards show that workers
are stopped one after the other and that a drain needs all of them. Eight
items wrap the SPSC ring of four cells twice, and batches fall on every offset. Two
items of each of two producers wrap the MPMC queue of two cells. With channels of
one, each sender of the pipeline blocks behind the other; batches of two are full,
half full and mixed. Two starts are a restart of one node, or a node that joins
while the other serves; the proofs cover any number. Two answers for a result queue of
one make a worker wait for Go, and the queues behind it fill. Three callers of the breaker
are one that fails, one that succeeds and one that is past the check when it opens.

### What the code does not keep

Each of these configurations checks one statement of the repository's documents or
comments (with one exception, marked) and finds a behaviour of the code that contradicts it. The first is a run of
`PROJECT.json`; the others are checked by hand, with
`tlc -config MCReservation_bad_retry.cfg MCReservation.tla` and so on.

| Configuration | Statement | What happens |
| --- | --- | --- |
| `MCReservation_bad_sweepers` | `src/README.md:88` "0 Oversold" | two sweepers roll one stale member back; the second one reverts the next purchase with the wrong quantity |
| `MCReservation_bad_sweepcheck` | `handler/seckill.go:650` "Check if order actually exists in DB before rolling back!" | the order arrives between the check and the rollback |
| `MCReservation_bad_lostsale` | `src/README.md:18` "ensures data integrity even after `kill -9`" | a crash after the ZREM and before the INSERT: no order, no pending member, the reservation stays |
| `MCReservation_bad_retry` | `cache/redis.go:78` "strict pair: only rollback if user was in set" | a rollback sent again after a lost reply takes back a later purchase of the user |
| `MCReservation_bad_zombie` | `handler/seckill.go:608` "checks for stale pending requests and rolls them back" | a member whose user has left the bought set is never removed |
| `MCReservation_bad_sharedid` | `handler/seckill.go:661` "Order exists in DB! It was a success" | the order found is another user's, under the same id |
| `MCPipeline_bad_exit` | `src/README.md:17` "ensures all in-flight requests are processed and persisted" | main returns while results, orders and batches are in memory |
| `MCPipeline_bad_db` | `src/README.md:17` "Zero Data Loss" | a failed INSERT loses a batch whose sales Redis has been told of |
| `MCEngine_bad_stop` | `src/README.md:17` "all in-flight requests are processed" | the dispatchers leave their queues behind |
| `MCEngine_bad_spin` | `EveryDrainReturns`, which no document promises: `handler/bridge.cpp:325-330` spins without a look at `running` | a drain called around a stop spins on a full queue that nobody empties any more |
| `MCEngine_bad_idle` | `handler/bridge.h:78` "completely idle" | a request in the dispatcher's hand is not seen |
| `MCEngine_bad_walorder` | `src/README.md:182` "Every inventory decrement is appended to a file (`O_APPEND`) before memory update" | the worker decrements at `handler/worker.hpp:281` and appends at `:293`; in between the log lacks a sale |
| `MCEngine_bad_barrier` | `handler/bridge.h:53` "Wait until engine is fully drained" | a client's request with the largest 64-bit id is counted as a barrier, and the drain returns too early |
| `MCEngine_bad_repeat` | `src/README.md:169` "for repeated `request_id`s" | the filter forgets all ids when it is full |
| `MCLegacyEngine_bad_drop` | `src/engine/src/bridge.cpp:115` "Let's spin for now to ensure delivery" | after the stop a request for a full worker queue is given up |
| `MpmcQueue_empty` | `handler/mpmc_queue.hpp:71` "false if queue is empty" | a slow producer hides the items behind it |

Others need no configuration of their own. TLC shows each of them when the property is the
only invariant of the configuration named:

| Property, put into | Statement | What happens |
| --- | --- | --- |
| `StateIsReplayed`, `MCLifecycle_faults.cfg` | `src/README.md:183` "the engine replays the WAL to reconstruct the exact in-memory state" | a restarted engine has the full inventory |
| `NothingOversold`, `MCLifecycle_faults.cfg` | `src/README.md:88` "0 Oversold" | a restart puts sold items on the shelf again |
| `RecordsAreWhole`, `MCLifecycle_faults.cfg` | `handler/wal.hpp:70` "Read all records from the file" | after a short write the records behind it are read askew |
| `EveryDrainBlocks`, `MCEngine_mix.cfg` | `handler/bridge.h:57` "Blocks until all requests <= seq are processed" | a concurrent caller returns at once |
| `WalAccountsForInventory`, `MCEngine_mix.cfg` with `WalMayFail = TRUE` | `src/README.md:182` "Every inventory decrement is appended" | a failed write is ignored |
| `FiveFailuresOpen`, `CircuitBreaker.cfg` | `src/README.md:167` "If Redis fails 5 times consecutively" | the code tests `> 5`: five failures leave the breaker closed |

These explain the preconditions of the passing runs and the hypotheses of the theorems:
`NoOversell`, `RollbackPairsWithDeduct`, `OrdersStayReserved` and `ImplementsSale` hold
with crashes, failing INSERTs and one sweeper (section 4: `Calm`), and fail as soon as
replies are lost, calls are slow or a second node sweeps. `OneOrderPerClearing` needs
rollbacks that run once and for a purchase that is over (`RollbacksRunOnce`): of two that
give the same purchase back the second takes the user's next reservation, and what is given
back too early may still be sold. `SoldOncePerId` needs a filter
that is never cleared (`FewIds`), and `DrainedMeansProcessed` clients that leave the id of
the barriers alone (`NoFalseBarriers`). `WalAccountsForInventory` allows each worker the one
sale it has deducted and not yet written. `NothingVanishes` and `AckedIsOnItsWay` speak of a process that runs and count
an INSERT that was tried; `OrdersAreLogged` excepts the records a short write has spoilt.

### Fairness

`Reservation`: handlers, the engine, the workers of the pipeline and the rollback
goroutines are weakly fair because goroutines and threads are scheduled and their
loops never end. `TimePasses` is weakly fair: a score gets old. The sweeper's
fetch is strongly fair per SKU: each pass visits all SKUs in turn, so a SKU that
has stale members again and again is not passed over for ever. Nothing is assumed
of the faults. `Engine`: every thread is weakly fair, and nobody has to call,
drain or stop. `SpscQueue`: both sides finish their calls, and the consumer polls.
`Pipeline`: each worker, both batching goroutines and each rollback goroutine are
weakly fair; the engine need not answer and the process need not end.
`CircuitBreaker`: time passes and a call that has begun ends; nobody has to call, and
Redis need not come back. `OrderWorker`: every thread is weakly fair and, in addition,
the compare-exchange of a thread is strongly fair: the weak form may fail without a
reason, but not every time it could succeed. `Lifecycle` and `LegacyEngine` are
checked for safety only.

## 4. Proofs

All proofs are checked by TLAPS 1.4.5 from the named assumptions of the modules
(`RedisAssumption`, `ReservationAssumption`, `PipelineAssumption`,
`LifecycleAssumption`, `BreakerAssumption`, `EngineAssumption`, `SpscAssumption`,
`MpmcAssumption`, `OrderWorkerAssumption`, `LegacyAssumption`), which TLC evaluates for
the instances of the runs. Purchases have positive quantities: the handler does not test
for it, the clients of the repository send 1. Some theorems have a hypothesis of their
own (`Calm`, `UniqueIds`, `RollbacksRunOnce`, `~WalMayFail`, `FewIds`, `NoFalseBarriers`,
`InOrder`, a worker at all). It stands
in the theorem, instances of the runs satisfy it (`NoFalseBarriers`: the casts with
a drain), and for all but the last two a
configuration of section 3 shows that the theorem is false without it (for
`RollbacksRunOnce`: `MCLifecycle.cfg` with both nodes as sweepers, with `resend` or with
`slow`).

### Redis and the breaker

* `RedisTypeCorrect`: the types are inductive. The interesting part is that
  the stock stays in Nat: the script compares before it decrements.
* `StockIsConserved`: the invariant is `StockConserved` with the types and, for the
  cardinalities, finiteness of the bought sets. A user is added when an item is
  taken and removed when one is put back.
* `BreakerTypeCorrect`: inductive.
* `OpenBreakerShields`: under an open breaker a client that has been to Redis is not on
  its way there again (`ShieldInv`).

### Reservation

* `ReservationTypeCorrect`: inductive, with one step per action.
* `ReservationUsesRedis`: every step of `Reservation` is a step of `RedisNext` or
  leaves the keys alone; the states of `Redis` are a part of those of
  `Reservation`, so the refinement mapping is the identity. With it
  `StockConservedByBackend` follows from `StockIsConserved`: neither lost replies nor
  crashes nor racing sweepers lose or invent stock when quantities are 1.
* `NothingIsForgotten` and `SweeperAcksAreSold` (assuming `UniqueIds`): the
  strengthening `ForgottenInv` adds that every order, every task to acknowledge and
  every member a sweeper acknowledges was sold. `UniqueIds` is needed where the
  sweeper concludes from an order with the member's id; `MCReservation_bad_sharedid.cfg`
  shows that it cannot be dropped.
* `OrdersKeepReservations`, `RollbacksArePaired`, `BackendIsASale` and
  `NothingIsOversold`, assuming `Calm`: no command of Redis fails, no live call is slower
  than 30 s, one node at most sweeps. Processes may die at any step, INSERTs may fail and
  ids may be shared. `SettleInv` is the invariant: whoever is in a bought set holds one
  definite purchase (`HoldersInv`); a pending member and a purchase that a call, a batch
  or a rollback still works on hold theirs (`PendingInv`, `BusyInv`, `RollInv`), and never
  two of them for one; orders hold theirs (`StoredInv`); what the sweeper has in its list
  is stale, so that no call works on it (`SweepInv`). Each of the faults that `Calm`
  excludes breaks one of these parts. `NothingIsOversold` adds `ShelfInv`: the shelf and
  the quantities of what is held add up to the stock; orders are a part of what is held,
  and `Sums` has the lemmas on that. The refinement maps a purchase to its entry in
  `holder` and `orders`.

### Engine

* `FifoIsConserved`: `PathInv` couples the control states of dispatcher and worker
  with what they hold (the hand is full exactly while pushing, the batch is
  not empty after a pop). Without that a step could duplicate the request in hand.
* `StopLeavesNothingDispatched`: `StopInv` orders the phases of the stop. Once the
  dispatchers are gone nothing enters an SPSC queue, so a worker that finds its
  queue empty *after* it read `running_` as false leaves nothing behind.
* `FlagsAreTrue`: `FlagInv` adds types. It rests on `Routed`, that a request is only ever
  in the places of the shard of its SKU: the flag and the inventory of a SKU have one
  writer.
* `ReportsAreLogged` (`~WalMayFail`): `LogInv` follows a success from the write through
  the worker's answer and the result queue to Go.
* `LogAccountsForStock` (`~WalMayFail`): `AccountInv` is the equation with the finiteness
  of what was bought and the shard of each purchase. `PlaceInv` says that a submission is
  admitted once and that a log holds only what is finished or about to be answered. So a deduction adds a new
  purchase to the sum, and the write moves it to the log without changing the sum.
* `IdsAreSoldOnce` (`FewIds`: a shard is sent at most as many ids as `seen_requests_`
  keeps): every id in a log has been seen, and the one about to be written is new
  (`SoldInv`). `MCEngine_bad_repeat.cfg` is the case without the hypothesis.
* `DrainsProcessEverything` (`NoFalseBarriers`): `DrainInv`. While the engine runs and
  nobody else sends the id of a barrier (`Counting`) there is one drain past the
  guard (`OneDrain`); every barrier on its way is its own, one per shard that has been
  given one (`OwnBarriers`), none is left from an earlier drain (`NoneLeft`); the barrier
  of a shard was admitted after all the requests the drain is about (`Marks`). So the
  count can reach the number of shards only when each has finished its barrier, and
  with it all that was admitted before.
* `EngineServes`: the refinement of `Serving`, one lemma per action that is not a stutter
  (`CallerRefines`, `SkipRefines`, `BenchRefines`, `OrderRefines`, `AnswerRefines`,
  `PollRefines`, `DrainRefines`) and `HiddenRefines` for the others. It needs no
  hypothesis: the WAL may fail, the filter may forget, several drains may run. The line
  of a shard is mapped to its path. `PathInv` says that `admitted` is `finished` followed
  by the path; since a front can be cancelled, the path stays while both stay
  (`PathStays`), grows at the end with `admitted` (`PathGrows`) and loses its head to
  `finished` (`PathMoves`), so that no step has to be followed through the four places it
  may touch. `AnswerInv` says that the result queue and what Go has polled hold
  at most one result of a submission and only results of finished ones; a submission is
  admitted once (`PlaceInv`), so a worker about to answer has not answered before. That a
  caller is turned away only while nothing is left is `FlagInv`.
* `EngineTypeCorrect` collects the types that these invariants contain.

### Pipeline and lifecycle

* `AckFollowsOrder`, `NoAnswerVanishes` and `PipelineDelivers`: the invariant `PlacesInv`
  says which kinds of result may be where and that a result is never in two hands, nor
  in one and already done. The first two add what has been handed over or done for
  a result that has passed a place; the refinement needs the exclusive places,
  without which a flush could count a result twice.
* `RestartsAreBounded`: `StockBoundedByWarmUps` with the types; setting the stock adds at
  most one initial stock, deduction and rollback move items between `stock` and `net`.
* `OrdersPerUserAreBounded` (`RollbacksRunOnce`): the purchases of a user and a SKU that are
  alive, stored, still pending or in the sweeper's list number at most the deletions that
  took the user out, plus one while he is in the bought set. A deduction adds one to both; a deletion raises one term as it takes
  the other; a rollback takes the user out and ends a purchase for good. Pending
  members of dead purchases have to be counted, and so have those the sweeper has fetched,
  because it may still give them back, the latter even after a restart has deleted
  the pending set. `SweepInv` says that a list holds nothing any call still works on and that
  what is rolled back has no order and is not in the list any more.
* `PipelineTypeCorrect` is a part of `PlacesInv`.
* `OrdersCanBeRecovered`: every order that is stored or on its way has a whole record on a
  boundary of the file of the node that served it, or is torn; without short writes every
  file ends on a boundary and nothing is torn (`LogInv`). `Recovered` reads such a record
  (`WholeIsRead`), whatever is written behind it (`WholeStays`), and a record
  taken whole on a boundary is one (`RecordIsWhole`).

### Queues and the programs around them

* `SpscTypeCorrect`, `CopiesNeedNoLock` and `RingIsFifo`, for any capacity and batch size:
  `RingInv` divides the ring, from `head` on, into cells read, cells to be read, cells
  written, cells to be written and the one that stays free. All distances are taken
  modulo the size of the ring, which the lemmas about `%` at the beginning of the
  module are for. `CopiesInv` says what the cells hold that have been copied
  and not yet published. The refinement maps to `Contents`; publishing a batch is one
  step of the FIFO.
* `CellsAreExclusive`, `ConsumersReadTheirItem` and `QueueIsFifo`, for any threads and any
  capacity from two: `QueueInv` says that a thread that copies holds a position of its
  own and that its cell waits for it (`WinnersInv`), what the number of a cell says
  about the positions that fall on it (`CellsInv`), and what each thread carries
  (`ItemsInv`). Two threads in one cell would have positions a multiple of the capacity
  apart, so the lemmas about `%` come first. `OrderWorker` uses the queue only through
  its steps (`WorkersUseQueue`); the theorems are about the program's `OwSpec`.
* `AcceptedAreConsumed`, if there is a worker: a position that is won has been written or
  a producer is about to (`ReleasedInv`), and the positions hold the accepted items once
  each (`AcceptedInv`); a worker makes its last try after the producers were joined, and
  what it finds empty then is empty (`ShutdownInv`, lemma `LastLook`); items taken out are
  counted or in hand, ids in the table are written or in hand (`CountInv`, `IdsInv`).
  That as many items were accepted as positions won follows from the bijection between
  them.
* `OrderWorkerTypeCorrect` takes its types from these invariants and adds `CallsInv`: the calls
  of a producer, accepted or rejected, are within its rounds, and one is left while it
  is inside a call.
* `StopProcesses`: the path from the queue to the workers is `admitted`, position by position
  (`PathInv`); what the dispatcher has passed on is with its worker, finished, or dropped,
  and dropped only after the stop (`PlacesInv`); `StopInv` orders the stop as in `Engine`.
  Unlike there the dispatcher empties the input queue first.
* `DrainWaitsForAll`: one drain is past the guard (`GuardInv`). `BarrierInv` follows its
  barrier: in the queue once, then in the dispatcher's hand, which gives it to worker
  `fanTo` next, then in each worker's line behind everything that was passed to it before;
  the counter is the number of workers that are done with theirs.
* `GapsAreTurnedAway`, for one caller whose ids do not decrease (`InOrder`): the ids arrive
  in order (`OrderInv`), those counted are below the expected one, which follows one of
  them (`GapInv`). Then a jump adds exactly the ids between. The check of the
  code makes sense only for such a caller.

### What is left to TLC

Every safety property of the runs is a theorem. Most type invariants
are theorems too, and no run repeats them. Only model-checked are the liveness
properties (`StaleIsCleared`, `ReservationSettles`, `EveryResultSettles`,
`BreakerRecovers`, `DrainReturns`, `QueuedIsAnswered`, `StopReturns`, `EveryItemArrives`,
`WorkersFinish`): fairness and ENABLED are out of the prover's reach.

## 5. Not modelled

* The sweeper's branch for malformed members: the backend writes no such member.
* The branches of the pipeline and the handler for a Redis or a database that is not
  configured (`nil`): they serve the benchmarks.
* The end of a machine, which the WAL does not survive (see Lifecycle above).
* Client requests with the id of a barrier in the first engine.
* Quantities that are zero or negative.
* `src/engine/src/core_consumer.cpp`: its NATS client is a stub ("TODO: wire to
  nats.c"), and what remains is a producer and a consumer on the SPSC queue, which
  `SpscQueue` covers.
* A second `InitEngine`; the monitor thread; statistics and getters; routing,
  configuration, nginx, client scripts, tests and benchmarks.

## 6. Plan

Done: everything above. What would come next, in this order:

1. `FlashSale`: `Serving` in the place of the engine, `Reservation` and `Pipeline`
   composed, with answers from the inventory instead of a free choice, and the
   pipeline's batches between an answer and its settlement.
2. `Lifecycle` with the steps of `Reservation` between its own, and more than two starts
   in the run.
3. Proofs: weaker hypotheses where the code allows them, first `OrdersKeepReservations`
   with several sweepers whose lists do not overlap, then the counters of the first
   engine for several callers.
