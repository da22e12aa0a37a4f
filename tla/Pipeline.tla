------------------------------ MODULE Pipeline ------------------------------
(***************************************************************************)
(* The result pipeline (handler/seckill.go): the result workers take the   *)
(* engine's answers from the result queue and feed two bounded channels,   *)
(* behind which one goroutine writes orders and another settles Redis,     *)
(* both in batches.  shutdownChan and orderChan are never closed, so the   *)
(* branches for them are never taken: the pipeline runs until main         *)
(* returns.  Queue, channels and batches are sets; their order is left     *)
(* open.                                                                   *)
(***************************************************************************)
EXTENDS Naturals, FiniteSets

CONSTANTS
  Results,     \* what the engine answers
  StatusOf,    \* 1 sold, 2 not enough stock, 0 unknown SKU
  IdOf,        \* request id, the primary key of orders
  SkuOf,
  Benchmarks,  \* results whose request id is above 18e18
  Workers,     \* the goroutines of processResultWorker (8)
  RqCap,       \* capacity of the result queue (16384)
  OrderCap,    \* capacity of orderChan (10000)
  CleanupCap,  \* capacity of cleanupChan (10000)
  DbMax,       \* batchSize of dbWorker (1000)
  CleanupMax,  \* batchSize of cleanupWorker (500)
  Faults,      \* what may go wrong: "db", "redis", "exit"
  None         \* no result

Sold == {r \in Results : StatusOf[r] = 1}

(* Sales to store, and reservations to undo.                               *)
Sales == Sold \ Benchmarks
Refusals == Results \ Sold

ASSUME PipelineAssumption ==
  /\ StatusOf \in [Results -> 0 .. 2]
  /\ Benchmarks \subseteq Sold
  /\ {RqCap, OrderCap, CleanupCap, DbMax, CleanupMax} \subseteq Nat \ {0}
  /\ Faults \subseteq {"db", "redis", "exit"}
  /\ None \notin Results

VARIABLES
  up,           \* the process runs
  answered,     \* history: what the engine has put into the result queue
  rq,           \* result_queue
  at,           \* control of each result worker
  held,         \* the result it is working on
  orderChan, dbBatch,
  rows,         \* the orders table
  cleanupChan, cleanupBatch,
  rolling,      \* the goroutines in RollbackInventory
  deadLetter,   \* seckill:dead_letter
  inserts,      \* history: how many INSERTs each result was part of
  acks,         \* history: how many ZREMs
  reverts       \* history: how many rollbacks

workerVars == <<at, held>>
dbVars == <<orderChan, dbBatch, rows, inserts>>
cleanupVars == <<cleanupChan, cleanupBatch, rolling, deadLetter, acks, reverts>>
vars == <<up, answered, rq, workerVars, dbVars, cleanupVars>>

PipelineTypeOK ==
  /\ up \in BOOLEAN
  /\ answered \subseteq Results /\ rq \subseteq Results
  /\ at \in [Workers -> {"poll", "order", "cleanup"}]
  /\ held \in [Workers -> Results \cup {None}]
  /\ orderChan \subseteq Results /\ dbBatch \subseteq Results /\ rows \subseteq Results
  /\ cleanupChan \subseteq Results /\ cleanupBatch \subseteq Results
  /\ rolling \subseteq Results /\ deadLetter \subseteq Results
  /\ inserts \in [Results -> Nat] /\ acks \in [Results -> Nat] /\ reverts \in [Results -> Nat]

Init ==
  /\ up = TRUE
  /\ answered = {} /\ rq = {}
  /\ at = [w \in Workers |-> "poll"]
  /\ held = [w \in Workers |-> None]
  /\ orderChan = {} /\ dbBatch = {} /\ rows = {}
  /\ cleanupChan = {} /\ cleanupBatch = {} /\ rolling = {} /\ deadLetter = {}
  /\ inserts = [r \in Results |-> 0]
  /\ acks = [r \in Results |-> 0]
  /\ reverts = [r \in Results |-> 0]

Counted(n, S) == [r \in Results |-> IF r \in S THEN n[r] + 1 ELSE n[r]]

-----------------------------------------------------------------------------
(* An engine worker answers; it spins while the queue is full.             *)
EngineAnswers(r) ==
  /\ up /\ r \notin answered
  /\ Cardinality(rq) < RqCap
  /\ answered' = answered \cup {r}
  /\ rq' = rq \cup {r}
  /\ UNCHANGED <<up, workerVars, dbVars, cleanupVars>>

-----------------------------------------------------------------------------
(* A result worker: poll, then one or two sends that block.                *)

WorkerGoes(w, here, there) == at[w] = here /\ at' = [at EXCEPT ![w] = there]

(* Mutant: only "sold out" leads to a rollback. *)
Poll_IgnoresFailures(w) ==
  /\ \E r \in rq :
       /\ rq' = rq \ {r}
       /\ \/ /\ r \in Benchmarks \/ StatusOf[r] = 0
             /\ WorkerGoes(w, "poll", "poll") /\ UNCHANGED held
          \/ r \in Sales /\ WorkerGoes(w, "poll", "order") /\ held' = [held EXCEPT ![w] = r]
          \/ StatusOf[r] = 2 /\ WorkerGoes(w, "poll", "cleanup") /\ held' = [held EXCEPT ![w] = r]
  /\ UNCHANGED <<up, answered, dbVars, cleanupVars>>

(* The successes of benchmark requests end here.                           *)
Poll(w) ==
  /\ \E r \in rq :
       /\ rq' = rq \ {r}
       /\ \/ r \in Benchmarks /\ WorkerGoes(w, "poll", "poll") /\ UNCHANGED held
          \/ r \in Sales /\ WorkerGoes(w, "poll", "order") /\ held' = [held EXCEPT ![w] = r]
          \/ r \in Refusals /\ WorkerGoes(w, "poll", "cleanup") /\ held' = [held EXCEPT ![w] = r]
  /\ UNCHANGED <<up, answered, dbVars, cleanupVars>>

(* Mutant: the order is dropped when the channel is full. *)
SendOrder_DropsWhenFull(w) ==
  /\ WorkerGoes(w, "order", "cleanup")
  /\ orderChan' = IF Cardinality(orderChan) < OrderCap THEN orderChan \cup {held[w]} ELSE orderChan
  /\ UNCHANGED <<up, answered, rq, held, dbBatch, rows, inserts, cleanupVars>>

SendOrder(w) ==
  /\ WorkerGoes(w, "order", "cleanup")
  /\ Cardinality(orderChan) < OrderCap
  /\ orderChan' = orderChan \cup {held[w]}
  /\ UNCHANGED <<up, answered, rq, held, dbBatch, rows, inserts, cleanupVars>>

SendTask(w) ==
  /\ WorkerGoes(w, "cleanup", "poll")
  /\ Cardinality(cleanupChan) < CleanupCap
  /\ cleanupChan' = cleanupChan \cup {held[w]}
  /\ held' = [held EXCEPT ![w] = None]
  /\ UNCHANGED <<up, answered, rq, dbVars, cleanupBatch, rolling, deadLetter, acks, reverts>>

-----------------------------------------------------------------------------
(* dbWorker.                                                               *)

DbReceive ==
  /\ Cardinality(dbBatch) < DbMax
  /\ \E r \in orderChan : orderChan' = orderChan \ {r} /\ dbBatch' = dbBatch \cup {r}
  /\ UNCHANGED <<up, answered, rq, workerVars, rows, inserts, cleanupVars>>

(* ON CONFLICT DO NOTHING: one row per id, the one that is there stays.    *)
Inserted(S) ==
  /\ rows \subseteq S /\ S \subseteq rows \cup dbBatch
  /\ \A r \in dbBatch : \E q \in S : IdOf[q] = IdOf[r]
  /\ \A q \in S, r \in S \ rows : IdOf[q] = IdOf[r] => q = r

(* Mutant: the batch is not emptied. *)
DbFlush_KeepsBatch ==
  /\ dbBatch # {}
  /\ \/ \E S \in SUBSET Results : Inserted(S) /\ rows' = S
     \/ "db" \in Faults /\ UNCHANGED rows
  /\ inserts' = Counted(inserts, dbBatch)
  /\ UNCHANGED <<up, answered, rq, workerVars, orderChan, dbBatch, cleanupVars>>

(* The batch is full, or the ticker fires.  The INSERT is one statement    *)
(* and stores all or nothing; its error is not looked at.                  *)
DbFlush ==
  /\ dbBatch # {}
  /\ \/ \E S \in SUBSET (rows \cup dbBatch) : Inserted(S) /\ rows' = S
     \/ "db" \in Faults /\ UNCHANGED rows
  /\ inserts' = Counted(inserts, dbBatch)
  /\ dbBatch' = {}
  /\ UNCHANGED <<up, answered, rq, workerVars, orderChan, cleanupVars>>

-----------------------------------------------------------------------------
(* cleanupWorker and its goroutines.                                       *)

CleanupReceive ==
  /\ Cardinality(cleanupBatch) < CleanupMax
  /\ \E r \in cleanupChan : cleanupChan' = cleanupChan \ {r} /\ cleanupBatch' = cleanupBatch \cup {r}
  /\ UNCHANGED <<up, answered, rq, workerVars, dbVars, rolling, deadLetter, acks, reverts>>

(* Mutant: only a full batch is flushed. *)
CleanupFlush_NoTicker ==
  /\ Cardinality(cleanupBatch) = CleanupMax
  /\ acks' = Counted(acks, cleanupBatch \cap Sales)
  /\ rolling' = rolling \cup (cleanupBatch \cap Refusals)
  /\ cleanupBatch' = {}
  /\ UNCHANGED <<up, answered, rq, workerVars, dbVars, cleanupChan, deadLetter, reverts>>

(* One ZREM per SKU in one pipeline, of which any may fail; a goroutine    *)
(* for each rollback.  SETNX done:{id} is never read and left out.         *)
CleanupFlush ==
  /\ cleanupBatch # {}
  /\ \E failed \in SUBSET {SkuOf[r] : r \in cleanupBatch \cap Sales} :
       /\ failed # {} => "redis" \in Faults
       /\ acks' = Counted(acks, {r \in cleanupBatch \cap Sales : SkuOf[r] \notin failed})
  /\ rolling' = rolling \cup (cleanupBatch \cap Refusals)
  /\ cleanupBatch' = {}
  /\ UNCHANGED <<up, answered, rq, workerVars, dbVars, cleanupChan, deadLetter, reverts>>

(* RollbackInventory, with its retries: done, or given up.                 *)
Rollback(r) ==
  /\ r \in rolling
  /\ rolling' = rolling \ {r}
  /\ \/ reverts' = Counted(reverts, {r}) /\ UNCHANGED deadLetter
     \/ "redis" \in Faults /\ deadLetter' = deadLetter \cup {r} /\ UNCHANGED reverts
  /\ UNCHANGED <<up, answered, rq, workerVars, dbVars, cleanupChan, cleanupBatch, acks>>

-----------------------------------------------------------------------------
(* main returns after StopConsumer, or the process dies: neither waits for *)
(* the pipeline.                                                           *)
Exit ==
  /\ "exit" \in Faults /\ up
  /\ up' = FALSE
  /\ rq' = {} /\ orderChan' = {} /\ dbBatch' = {} /\ cleanupChan' = {} /\ cleanupBatch' = {} /\ rolling' = {}
  /\ at' = [w \in Workers |-> "poll"]
  /\ held' = [w \in Workers |-> None]
  /\ UNCHANGED <<answered, rows, deadLetter, inserts, acks, reverts>>

ResultWorker(w) == Poll(w) \/ SendOrder(w) \/ SendTask(w)
DbWorker == DbReceive \/ DbFlush
CleanupWorker == CleanupReceive \/ CleanupFlush

Next ==
  \/ \E r \in Results : EngineAnswers(r) \/ Rollback(r)
  \/ \E w \in Workers : ResultWorker(w)
  \/ DbWorker \/ CleanupWorker \/ Exit

Spec == Init /\ [][Next]_vars

(* Each goroutine runs, and the statements of the two flushes return.      *)
Fairness ==
  /\ \A w \in Workers : WF_vars(ResultWorker(w))
  /\ WF_vars(DbWorker) /\ WF_vars(CleanupWorker)
  /\ \A r \in Results : WF_vars(Rollback(r))

FairSpec == Spec /\ Fairness

-----------------------------------------------------------------------------
Holding == {held[w] : w \in Workers} \ {None}

(* Where a result is still to be written, or to be settled with Redis.     *)
OnOrderPath(r) == r \in rq \cup orderChan \cup dbBatch \/ \E w \in Workers : held[w] = r /\ at[w] = "order"
OnCleanupPath(r) == r \in rq \cup Holding \cup cleanupChan \cup cleanupBatch \cup rolling

(* A result that has left the process, which still runs, went where it had *)
(* to go: no channel, batch or early "continue" swallows it.               *)
NothingVanishes ==
  up => \A r \in answered :
    /\ r \in Sales /\ ~OnOrderPath(r) => inserts[r] = 1
    /\ r \in Refusals /\ ~OnCleanupPath(r) => reverts[r] = 1 \/ r \in deadLetter

(* Redis forgets a pending purchase only when its order is in the hands of *)
(* the database worker: nothing but a failed INSERT or the end of the      *)
(* process can then separate the two.                                      *)
AckedIsOnItsWay ==
  up => \A r \in Results : acks[r] > 0 => r \in orderChan \cup dbBatch \/ inserts[r] > 0

(* Each sale is inserted and acknowledged once, each refusal reverted once, *)
(* with eight workers and two batches under way.                            *)
Promise == INSTANCE Delivery WITH
  inserts <- [r \in Sales \cup Refusals |-> inserts[r]],
  acks <- [r \in Sales \cup Refusals |-> acks[r]],
  reverts <- [r \in Sales \cup Refusals |-> reverts[r]]
ImplementsDelivery == Promise!DeliverySpec

(* Full channels only delay: whatever the engine has answered leaves the   *)
(* process, so workers, channels and flushes never wait for each other.    *)
EveryResultSettles ==
  \A r \in Results : r \in answered ~> ~OnOrderPath(r) /\ ~OnCleanupPath(r)

(* README: a graceful shutdown loses nothing ("all in-flight requests are  *)
(* processed and persisted").                                              *)
ExitLosesNothing == ~up => \A r \in answered \cap Sales : inserts[r] = 1

(* A sale that Redis has forgotten is a row, once the pipeline is empty.   *)
AckedIsStored ==
  up /\ (\A r \in Results : ~OnOrderPath(r)) =>
    \A r \in Results : acks[r] > 0 => \E q \in rows : IdOf[q] = IdOf[r]
=============================================================================
