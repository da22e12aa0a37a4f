------------------------------- MODULE Engine -------------------------------
(***************************************************************************)
(* The C++ engine (handler/bridge.cpp, worker.hpp): per shard an MPMC      *)
(* queue, a dispatcher thread, an SPSC queue and a worker thread that owns *)
(* the inventory of the shard's SKUs; one result queue; the stop and the   *)
(* drain protocols.  Queue operations are atomic here (MpmcQueue and       *)
(* SpscQueue justify that); everything around them interleaves.            *)
(***************************************************************************)
EXTENDS Integers, Sequences, FiniteSets, FiniteSetsExt

CONSTANTS
  Skus,          \* SKU ids
  ShardCount,    \* kWorkerCount
  ShardOf,       \* |sku_id| % kWorkerCount
  Submissions,   \* calls of EnqueueRequest and items of EnqueueBatch
  RequestOf,     \* the request each submission carries
  Batched,       \* the submissions made through EnqueueBatch
  StockAtStart,  \* inventory_ of the Worker constructor, or NoEntry
  NoEntry,       \* the SKU is not in inventory_
  Flagged,       \* SKUs with an entry in sold_out_store
  SeenLimit,     \* size of seen_requests_ above which it is cleared (100000)
  MqCap,         \* capacity of an MPMC input queue (4096)
  SqCap,         \* capacity of an SPSC queue (16384)
  RqCap,         \* capacity of the result queue (16384)
  BatchMax,      \* kBatchSize (64)
  Drainers,      \* callers of WaitEngineDrained or WaitBarrier
  MayStop,       \* whether StopEngine is called
  WalMayFail,    \* whether write() to a WAL file may fail (a full disk)
  Barrier,       \* the request WaitEngineDrained sends, with id UINT64_MAX
  None           \* nothing

Shards == 0 .. ShardCount - 1

(* "order": an ordinary request.  "warmup": id 0.  "max": a request of a   *)
(* client with id UINT64_MAX, which is also the id of the barriers.        *)
(* "bench": any other id above 18e18, for measuring the queues alone.      *)
Kinds == {"order", "warmup", "bench", "max"}

ASSUME EngineAssumption ==
  /\ ShardCount \in Nat \ {0}
  /\ ShardOf \in [Skus -> Shards]
  /\ RequestOf \in [Submissions -> [kind : Kinds, sku : Skus, qty : Nat \ {0}, id : Nat]]
  /\ Batched \subseteq Submissions
  /\ NoEntry \notin Int
  /\ StockAtStart \in [Skus -> Nat \cup {NoEntry}]
  /\ Flagged \subseteq Skus
  /\ {SeenLimit, MqCap, SqCap, RqCap, BatchMax} \subseteq Nat \ {0}
  /\ MayStop \in BOOLEAN /\ WalMayFail \in BOOLEAN
  /\ Barrier \notin Submissions
  /\ None \notin Submissions \cup {Barrier}

VARIABLES
  running,        \* the global running flag
  callerAt,       \* progress of each submission
  mq,             \* queues[h]
  hand,           \* the request the dispatcher of h is pushing to its worker
  dispatcherAt,   \* control of the dispatcher threads
  sq,             \* the worker's SPSC queue
  workerRunning,  \* Worker::running_
  workerAt,       \* control of the worker threads
  isProcessing,   \* Worker::is_processing_
  batch,          \* what is left of batch_buffer
  inventory,      \* inventory_, each SKU in the one worker that serves it
  seen,           \* seen_requests_
  soldOut,        \* sold_out_store
  soldTotal,      \* sold_total
  wal,            \* the WAL file of each worker
  status,         \* res.status of the request in process
  rq,             \* result_queue
  replied,        \* history: the results PollResult has handed out
  stopAt,         \* control of the thread in StopEngine
  drainAt,        \* control of the callers of WaitEngineDrained
  inside,         \* its reentry guard
  barrierCount,   \* barrier_reached_count
  admitted,       \* history: all that was put into mq[h]
  finished,       \* history: all that worker h is done with
  mark            \* history: Len(admitted[h]) when a drain was called

callerVars == <<callerAt, admitted>>
dispatcherVars == <<hand, dispatcherAt>>
stockVars == <<inventory, seen, soldOut, soldTotal, wal>>
workerVars == <<workerAt, isProcessing, batch, status, finished, stockVars>>
drainVars == <<drainAt, inside, mark>>
stopVars == <<running, workerRunning, stopAt>>
vars == <<callerVars, mq, dispatcherVars, sq, workerVars, barrierCount, rq, replied,
          drainVars, stopVars>>

Elements == Submissions \cup {Barrier}
Results == [sub : Submissions, status : 0 .. 2]

EngineTypeOK ==
  /\ running \in BOOLEAN
  /\ callerAt \in [Submissions -> {"idle", "checked", "queued", "full", "soldout", "stopped"}]
  /\ mq \in [Shards -> Seq(Elements)]
  /\ hand \in [Shards -> Elements \cup {None}]
  /\ dispatcherAt \in [Shards -> {"check", "pop", "push", "exited"}]
  /\ sq \in [Shards -> Seq(Elements)]
  /\ workerRunning \in [Shards -> BOOLEAN]
  /\ workerAt \in [Shards -> {"poll", "empty", "recheck", "popped", "process", "log", "answer", "exited"}]
  /\ isProcessing \in [Shards -> BOOLEAN]
  /\ batch \in [Shards -> Seq(Elements)]
  /\ inventory \in [Skus -> Nat \cup {NoEntry}]
  /\ seen \in [Shards -> SUBSET Nat]
  /\ soldOut \in [Skus -> BOOLEAN]
  /\ soldTotal \in Nat
  /\ wal \in [Shards -> Seq(Submissions)]
  /\ status \in [Shards -> 0 .. 2]
  /\ rq \in Seq(Results)
  /\ replied \subseteq Results
  /\ stopAt \in {"up", "dispatchers", "workers", "stopped"}
  /\ drainAt \in [Drainers -> {"out", "inject", "wait", "drained", "ignored"}]
  /\ inside \in BOOLEAN
  /\ barrierCount \in Nat
  /\ admitted \in [Shards -> Seq(Elements)]
  /\ finished \in [Shards -> Seq(Elements)]
  /\ mark \in [Drainers -> [Shards -> Nat]]

Init ==
  /\ running = TRUE
  /\ callerAt = [s \in Submissions |-> "idle"]
  /\ mq = [h \in Shards |-> <<>>]
  /\ hand = [h \in Shards |-> None]
  /\ dispatcherAt = [h \in Shards |-> "check"]
  /\ sq = [h \in Shards |-> <<>>]
  /\ workerRunning = [h \in Shards |-> TRUE]
  /\ workerAt = [h \in Shards |-> "poll"]
  /\ isProcessing = [h \in Shards |-> FALSE]
  /\ batch = [h \in Shards |-> <<>>]
  /\ inventory = StockAtStart
  /\ seen = [h \in Shards |-> {}]
  /\ soldOut = [k \in Skus |-> FALSE]
  /\ soldTotal = 0
  /\ wal = [h \in Shards |-> <<>>]
  /\ status = [h \in Shards |-> 0]
  /\ rq = <<>>
  /\ replied = {}
  /\ stopAt = "up"
  /\ drainAt = [d \in Drainers |-> "out"]
  /\ inside = FALSE
  /\ barrierCount = 0
  /\ admitted = [h \in Shards |-> <<>>]
  /\ finished = [h \in Shards |-> <<>>]
  /\ mark = [d \in Drainers |-> [h \in Shards |-> 0]]

(* Requests of clients that use the id of a barrier.                       *)
FalseBarriers == {s \in Submissions : RequestOf[s].kind = "max"}
NoFalseBarriers == FalseBarriers = {}

-----------------------------------------------------------------------------
(* Callers of EnqueueRequest, EnqueueBatch and WarmUpEngine.               *)

HasRoom(h) == Len(mq[h]) < MqCap

Put(h, x) ==
  /\ mq' = [mq EXCEPT ![h] = Append(@, x)]
  /\ admitted' = [admitted EXCEPT ![h] = Append(@, x)]

CallerUnchanged ==
  UNCHANGED <<dispatcherVars, sq, workerVars, barrierCount, rq, replied, drainVars, stopVars>>

(* Only EnqueueRequest looks at the sold-out flag.                         *)
TurnedAway(s) ==
  RequestOf[s].kind # "warmup" /\ s \notin Batched /\ soldOut[RequestOf[s].sku]

(* The running test, then the sold-out flag.                               *)
CheckAdmission(s) ==
  /\ callerAt[s] = "idle"
  /\ \/ ~running /\ callerAt' = [callerAt EXCEPT ![s] = "stopped"]
     \/ running /\ TurnedAway(s) /\ callerAt' = [callerAt EXCEPT ![s] = "soldout"]
     \/ running /\ ~TurnedAway(s) /\ callerAt' = [callerAt EXCEPT ![s] = "checked"]
  /\ UNCHANGED <<mq, admitted>>
  /\ CallerUnchanged

(* What try_enqueue may take for a full queue: a cell that the dispatcher  *)
(* is still copying is not free yet (see MpmcQueue).                       *)
LooksFull(h) == Len(mq[h]) >= MqCap - 1

(* try_enqueue.  WarmUpEngine spins instead of giving up.                  *)
Enqueue(s) ==
  /\ callerAt[s] = "checked"
  /\ LET h == ShardOf[RequestOf[s].sku]
     IN  \/ /\ HasRoom(h)
            /\ Put(h, s)
            /\ callerAt' = [callerAt EXCEPT ![s] = "queued"]
         \/ /\ LooksFull(h) /\ RequestOf[s].kind # "warmup"
            /\ callerAt' = [callerAt EXCEPT ![s] = "full"]
            /\ UNCHANGED <<mq, admitted>>
  /\ CallerUnchanged

-----------------------------------------------------------------------------
(* The dispatcher of shard h.                                              *)

DispatcherUnchanged ==
  UNCHANGED <<callerVars, workerVars, barrierCount, rq, replied, drainVars, stopVars>>

(* Mutant: the dispatcher never looks at running. *)
DispatcherCheck_Forever(h) ==
  /\ dispatcherAt[h] = "check"
  /\ dispatcherAt' = [dispatcherAt EXCEPT ![h] = "pop"]
  /\ UNCHANGED <<mq, hand, sq>>
  /\ DispatcherUnchanged

DispatcherCheck(h) ==
  /\ dispatcherAt[h] = "check"
  /\ dispatcherAt' = [dispatcherAt EXCEPT ![h] = IF running THEN "pop" ELSE "exited"]
  /\ UNCHANGED <<mq, hand, sq>>
  /\ DispatcherUnchanged

DispatcherPop(h) ==
  /\ dispatcherAt[h] = "pop"
  /\ \/ /\ mq[h] # <<>>
        /\ hand' = [hand EXCEPT ![h] = Head(mq[h])]
        /\ mq' = [mq EXCEPT ![h] = Tail(@)]
        /\ dispatcherAt' = [dispatcherAt EXCEPT ![h] = "push"]
     \/ /\ mq[h] = <<>>
        /\ dispatcherAt' = [dispatcherAt EXCEPT ![h] = "check"]
        /\ UNCHANGED <<mq, hand>>
  /\ UNCHANGED sq
  /\ DispatcherUnchanged

(* Mutant: the dispatcher gives up on a full worker queue. *)
DispatcherPush_GivesUp(h) ==
  /\ dispatcherAt[h] = "push"
  /\ IF Len(sq[h]) < SqCap THEN sq' = [sq EXCEPT ![h] = Append(@, hand[h])] ELSE UNCHANGED sq
  /\ hand' = [hand EXCEPT ![h] = None]
  /\ dispatcherAt' = [dispatcherAt EXCEPT ![h] = "check"]
  /\ UNCHANGED mq
  /\ DispatcherUnchanged

(* Spins while the worker's queue is full.                                 *)
DispatcherPush(h) ==
  /\ dispatcherAt[h] = "push"
  /\ Len(sq[h]) < SqCap
  /\ sq' = [sq EXCEPT ![h] = Append(@, hand[h])]
  /\ hand' = [hand EXCEPT ![h] = None]
  /\ dispatcherAt' = [dispatcherAt EXCEPT ![h] = "check"]
  /\ UNCHANGED mq
  /\ DispatcherUnchanged

-----------------------------------------------------------------------------
(* The worker of shard h.                                                  *)

LoopUnchanged ==
  UNCHANGED <<callerVars, mq, dispatcherVars, stockVars, barrierCount, rq, replied,
              drainVars, stopVars>>

(* Mutant: the queue advances by one cell less than the batch has. *)
TakeBatch_OffByOne(h) ==
  LET n == IF Len(sq[h]) < BatchMax THEN Len(sq[h]) ELSE BatchMax
  IN  /\ sq[h] # <<>>
      /\ batch' = [batch EXCEPT ![h] = SubSeq(sq[h], 1, n)]
      /\ sq' = [sq EXCEPT ![h] = SubSeq(sq[h], n, Len(sq[h]))]
      /\ workerAt' = [workerAt EXCEPT ![h] = "popped"]

(* try_dequeue_batch: up to BatchMax requests.                             *)
TakeBatch(h) ==
  LET n == IF Len(sq[h]) < BatchMax THEN Len(sq[h]) ELSE BatchMax
  IN  /\ sq[h] # <<>>
      /\ batch' = [batch EXCEPT ![h] = SubSeq(sq[h], 1, n)]
      /\ sq' = [sq EXCEPT ![h] = SubSeq(sq[h], n + 1, Len(sq[h]))]
      /\ workerAt' = [workerAt EXCEPT ![h] = "popped"]

WorkerGoes(h, there) ==
  /\ workerAt' = [workerAt EXCEPT ![h] = there]
  /\ UNCHANGED <<sq, batch>>

WorkerPoll(h) ==
  /\ workerAt[h] = "poll"
  /\ \/ TakeBatch(h)
     \/ sq[h] = <<>> /\ WorkerGoes(h, "empty")
  /\ UNCHANGED <<isProcessing, status, finished>>
  /\ LoopUnchanged

(* Mutant: no second look at the queue before the worker leaves. *)
WorkerReadRunning_NoRecheck(h) ==
  /\ workerAt[h] = "empty"
  /\ WorkerGoes(h, IF workerRunning[h] THEN "poll" ELSE "exited")
  /\ UNCHANGED <<isProcessing, status, finished>>
  /\ LoopUnchanged

WorkerReadRunning(h) ==
  /\ workerAt[h] = "empty"
  /\ WorkerGoes(h, IF workerRunning[h] THEN "poll" ELSE "recheck")
  /\ UNCHANGED <<isProcessing, status, finished>>
  /\ LoopUnchanged

WorkerRecheck(h) ==
  /\ workerAt[h] = "recheck"
  /\ \/ TakeBatch(h)
     \/ sq[h] = <<>> /\ WorkerGoes(h, "exited")
  /\ UNCHANGED <<isProcessing, status, finished>>
  /\ LoopUnchanged

(* is_processing_ is set after the batch has left the queue ...            *)
WorkerBegin(h) ==
  /\ workerAt[h] = "popped"
  /\ isProcessing' = [isProcessing EXCEPT ![h] = TRUE]
  /\ WorkerGoes(h, "process")
  /\ UNCHANGED <<status, finished>>
  /\ LoopUnchanged

(* ... and reset when the whole batch is processed.                        *)
WorkerEnd(h) ==
  /\ workerAt[h] = "process" /\ batch[h] = <<>>
  /\ isProcessing' = [isProcessing EXCEPT ![h] = FALSE]
  /\ WorkerGoes(h, "poll")
  /\ UNCHANGED <<status, finished>>
  /\ LoopUnchanged

-----------------------------------------------------------------------------
(* Worker::Process on the head of the batch.                               *)

ProcessUnchanged ==
  UNCHANGED <<callerVars, mq, dispatcherVars, sq, isProcessing, replied, drainVars, stopVars>>

Processing(h, kind) ==
  /\ workerAt[h] = "process" /\ batch[h] # <<>>
  /\ Head(batch[h]) # Barrier /\ RequestOf[Head(batch[h])].kind = kind

Done(h) ==
  /\ finished' = [finished EXCEPT ![h] = Append(@, Head(batch[h]))]
  /\ batch' = [batch EXCEPT ![h] = Tail(@)]
  /\ workerAt' = [workerAt EXCEPT ![h] = "process"]

(* A worker knows a barrier by its id.                                     *)
IsBarrier(x) == x \in {Barrier} \cup FalseBarriers

(* Mutant: the worker drops a barrier like a warm-up request. *)
ProcessBarrier_NotCounted(h) ==
  /\ workerAt[h] = "process" /\ batch[h] # <<>>
  /\ IsBarrier(Head(batch[h]))
  /\ Done(h)
  /\ UNCHANGED <<barrierCount, status, stockVars, rq>>
  /\ ProcessUnchanged

ProcessBarrier(h) ==
  /\ workerAt[h] = "process" /\ batch[h] # <<>>
  /\ IsBarrier(Head(batch[h]))
  /\ barrierCount' = barrierCount + 1
  /\ Done(h)
  /\ UNCHANGED <<status, stockVars, rq>>
  /\ ProcessUnchanged

IsDuplicate(h, id) == id \in seen[h]

TooMany(ids) == Cardinality(ids) > SeenLimit

(* Mutant: the id is looked up and not inserted. *)
Remembered_Never(h, id) == IF TooMany(seen[h]) THEN {} ELSE seen[h]

(* IsDuplicate inserts, and forgets everything when the set is too large.  *)
Remembered(h, id) == LET s == seen[h] \cup {id} IN IF TooMany(s) THEN {} ELSE s

(* Warm-up requests and duplicates get no result.                          *)
ProcessSilently(h) ==
  /\ \/ Processing(h, "warmup")
     \/ Processing(h, "order") /\ IsDuplicate(h, RequestOf[Head(batch[h])].id)
  /\ Done(h)
  /\ UNCHANGED <<status, stockVars, barrierCount, rq>>
  /\ ProcessUnchanged

ProcessBench(h) ==
  /\ Processing(h, "bench")
  /\ status' = [status EXCEPT ![h] = 1]
  /\ WorkerGoes(h, "answer")
  /\ UNCHANGED <<finished, stockVars, barrierCount, rq>>
  /\ UNCHANGED <<callerVars, mq, dispatcherVars, isProcessing, replied, drainVars, stopVars>>

(* What the inventory check answers: unknown SKU, sold, not enough stock.  *)
Verdict(r) ==
  IF inventory[r.sku] = NoEntry THEN 0
  ELSE IF inventory[r.sku] >= r.qty THEN 1 ELSE 2

Left(r) == IF Verdict(r) = 1 THEN inventory[r.sku] - r.qty ELSE inventory[r.sku]

(* Mutant: the flag goes up whenever a request is refused. *)
SellsOut_OnRefusal(r) == (Left(r) = 0 \/ Verdict(r) = 2) /\ r.sku \in Flagged

(* The sold-out flag goes up whenever nothing is left.                     *)
SellsOut(r) == Left(r) = 0 /\ r.sku \in Flagged

ProcessOrder(h) ==
  /\ Processing(h, "order")
  /\ LET r == RequestOf[Head(batch[h])]
         v == Verdict(r)
     IN  /\ ~IsDuplicate(h, r.id)
         /\ seen' = [seen EXCEPT ![h] = Remembered(h, r.id)]
         /\ status' = [status EXCEPT ![h] = v]
         /\ inventory' = [inventory EXCEPT ![r.sku] = Left(r)]
         /\ soldTotal' = IF v = 1 THEN soldTotal + r.qty ELSE soldTotal
         /\ soldOut' = [soldOut EXCEPT ![r.sku] = @ \/ SellsOut(r)]
         /\ WorkerGoes(h, IF v = 1 THEN "log" ELSE "answer")
  /\ UNCHANGED <<finished, wal, barrierCount, rq>>
  /\ UNCHANGED <<callerVars, mq, dispatcherVars, isProcessing, replied, drainVars, stopVars>>

(* Mutant: a record is dropped while the log holds one already. *)
WriteToWal_Drops(h) ==
  /\ workerAt[h] = "log"
  /\ wal' = [wal EXCEPT ![h] = <<Head(batch[h])>>]
  /\ WorkerGoes(h, "answer")
  /\ UNCHANGED <<status, finished, inventory, seen, soldOut, soldTotal, barrierCount, rq>>
  /\ UNCHANGED <<callerVars, mq, dispatcherVars, isProcessing, replied, drainVars, stopVars>>

(* Mutant: the record goes to another worker's file. *)
WriteToWal_WrongFile(h) ==
  /\ workerAt[h] = "log"
  /\ wal' = [wal EXCEPT ![(h + 1) % ShardCount] = Append(@, Head(batch[h]))]
  /\ WorkerGoes(h, "answer")
  /\ UNCHANGED <<status, finished, inventory, seen, soldOut, soldTotal, barrierCount, rq>>
  /\ UNCHANGED <<callerVars, mq, dispatcherVars, isProcessing, replied, drainVars, stopVars>>

(* The result of Append is not looked at.                                  *)
WriteToWal(h) ==
  /\ workerAt[h] = "log"
  /\ \/ wal' = [wal EXCEPT ![h] = Append(@, Head(batch[h]))]
     \/ WalMayFail /\ UNCHANGED wal
  /\ WorkerGoes(h, "answer")
  /\ UNCHANGED <<status, finished, inventory, seen, soldOut, soldTotal, barrierCount, rq>>
  /\ UNCHANGED <<callerVars, mq, dispatcherVars, isProcessing, replied, drainVars, stopVars>>

(* Mutant: the worker gives up on a full result queue. *)
PushResult_GivesUp(h) ==
  /\ workerAt[h] = "answer"
  /\ rq' = IF Len(rq) < RqCap THEN Append(rq, [sub |-> Head(batch[h]), status |-> status[h]]) ELSE rq
  /\ Done(h)
  /\ UNCHANGED <<status, stockVars, barrierCount>>
  /\ ProcessUnchanged

(* Spins while the result queue is full.                                   *)
PushResult(h) ==
  /\ workerAt[h] = "answer"
  /\ Len(rq) < RqCap
  /\ rq' = Append(rq, [sub |-> Head(batch[h]), status |-> status[h]])
  /\ Done(h)
  /\ UNCHANGED <<status, stockVars, barrierCount>>
  /\ ProcessUnchanged

(* A result worker of the Go side.                                         *)
PollResult ==
  /\ rq # <<>>
  /\ replied' = replied \cup {Head(rq)}
  /\ rq' = Tail(rq)
  /\ UNCHANGED <<callerVars, mq, dispatcherVars, sq, workerVars, barrierCount, drainVars, stopVars>>

-----------------------------------------------------------------------------
(* StopEngine: RequestStop, then JoinEngine.                               *)

StopUnchanged ==
  UNCHANGED <<callerVars, mq, dispatcherVars, sq, workerVars, barrierCount, rq, replied, drainVars>>

RequestStop ==
  /\ MayStop /\ stopAt = "up"
  /\ running' = FALSE
  /\ stopAt' = "dispatchers"
  /\ UNCHANGED workerRunning
  /\ StopUnchanged

DispatchersJoined ==
  /\ stopAt = "dispatchers"
  /\ \A h \in Shards : dispatcherAt[h] = "exited"
  /\ stopAt' = "workers"
  /\ UNCHANGED <<running, workerRunning>>
  /\ StopUnchanged

(* JoinEngine stops the workers one after the other, each one joined       *)
(* before the next is told.                                                *)
StopWorker(h) ==
  /\ stopAt = "workers" /\ workerRunning[h]
  /\ \A g \in Shards : g < h => workerAt[g] = "exited"
  /\ workerRunning' = [workerRunning EXCEPT ![h] = FALSE]
  /\ UNCHANGED <<running, stopAt>>
  /\ StopUnchanged

WorkersJoined ==
  /\ stopAt = "workers"
  /\ \A h \in Shards : workerAt[h] = "exited"
  /\ stopAt' = "stopped"
  /\ UNCHANGED <<running, workerRunning>>
  /\ StopUnchanged

-----------------------------------------------------------------------------
(* WaitEngineDrained.                                                      *)

DrainUnchanged == UNCHANGED <<callerAt, dispatcherVars, sq, workerVars, rq, replied, stopVars>>

DrainCall(d) ==
  /\ drainAt[d] = "out"
  /\ mark' = [mark EXCEPT ![d] = [h \in Shards |-> Len(admitted[h])]]
  /\ inside' = TRUE
  /\ \/ /\ inside
        /\ drainAt' = [drainAt EXCEPT ![d] = "ignored"]
        /\ UNCHANGED barrierCount
     \/ /\ ~inside
        /\ drainAt' = [drainAt EXCEPT ![d] = "inject"]
        /\ barrierCount' = 0
  /\ UNCHANGED <<mq, admitted>>
  /\ DrainUnchanged

(* How many barriers shard h has been given since the drain was called.    *)
Injected(d, h) ==
  \E i \in (mark[d][h] + 1) .. Len(admitted[h]) : admitted[h][i] = Barrier

(* One barrier into every input queue, in order; spins while one is full.  *)
DrainInject(d, h) ==
  /\ drainAt[d] = "inject"
  /\ ~Injected(d, h) /\ \A g \in Shards : g < h => Injected(d, g)
  /\ HasRoom(h)
  /\ Put(h, Barrier)
  /\ drainAt' = [drainAt EXCEPT ![d] = IF h = ShardCount - 1 THEN "wait" ELSE @]
  /\ UNCHANGED <<inside, mark, barrierCount>>
  /\ DrainUnchanged

(* Mutant: the first worker's answer is enough. *)
DrainReturn_First(d) ==
  /\ drainAt[d] = "wait"
  /\ barrierCount >= 1 \/ ~running
  /\ drainAt' = [drainAt EXCEPT ![d] = "drained"]
  /\ inside' = FALSE
  /\ UNCHANGED <<mq, admitted, mark, barrierCount>>
  /\ DrainUnchanged

DrainReturn(d) ==
  /\ drainAt[d] = "wait"
  /\ barrierCount >= ShardCount \/ ~running
  /\ drainAt' = [drainAt EXCEPT ![d] = "drained"]
  /\ inside' = FALSE
  /\ UNCHANGED <<mq, admitted, mark, barrierCount>>
  /\ DrainUnchanged

-----------------------------------------------------------------------------

Caller(s) == CheckAdmission(s) \/ Enqueue(s)
Dispatcher(h) == DispatcherCheck(h) \/ DispatcherPop(h) \/ DispatcherPush(h)
WorkerLoop(h) == WorkerPoll(h) \/ WorkerReadRunning(h) \/ WorkerRecheck(h) \/ WorkerBegin(h) \/ WorkerEnd(h)
Process(h) == ProcessBarrier(h) \/ ProcessSilently(h) \/ ProcessBench(h) \/ ProcessOrder(h)
              \/ WriteToWal(h) \/ PushResult(h)
Stop == RequestStop \/ DispatchersJoined \/ WorkersJoined \/ \E h \in Shards : StopWorker(h)
Drain(d) == DrainCall(d) \/ DrainReturn(d) \/ \E h \in Shards : DrainInject(d, h)

Next ==
  \/ \E s \in Submissions : Caller(s)
  \/ \E h \in Shards : Dispatcher(h) \/ WorkerLoop(h) \/ Process(h)
  \/ PollResult
  \/ Stop
  \/ \E d \in Drainers : Drain(d)

Spec == Init /\ [][Next]_vars

(* Every thread keeps running; nobody is obliged to call anything.         *)
Fairness ==
  /\ \A s \in Submissions : WF_vars(Enqueue(s))
  /\ \A h \in Shards : WF_vars(Dispatcher(h)) /\ WF_vars(WorkerLoop(h)) /\ WF_vars(Process(h))
  /\ WF_vars(PollResult)
  /\ WF_vars(DispatchersJoined \/ WorkersJoined \/ \E h \in Shards : StopWorker(h))
  /\ \A d \in Drainers : \A h \in Shards : WF_vars(DrainInject(d, h) \/ DrainReturn(d))

FairSpec == Spec /\ Fairness

-----------------------------------------------------------------------------
InHand(h) == IF hand[h] = None THEN <<>> ELSE <<hand[h]>>

Path(h) == batch[h] \o sq[h] \o InHand(h) \o mq[h]

(* No request is lost, repeated or overtaken between the input queue of a  *)
(* shard and its worker: what was admitted is what is finished, followed   *)
(* by the batch, the SPSC queue, the dispatcher's hand and the MPMC queue, *)
(* also while the engine stops.                                            *)
FifoConservation == \A h \in Shards : admitted[h] = finished[h] \o Path(h)

(* The fast-path flag never turns a buyer away while there is stock: it is *)
(* only up for a SKU whose inventory is zero, and inventory never returns  *)
(* ("MUST NOT blocking future requests for 1 item").                       *)
FlagImpliesEmpty == \A k \in Skus : soldOut[k] => inventory[k] = 0

Written(h) == {wal[h][i] : i \in DOMAIN wal[h]}
Bought(h) == Written(h) \cup (IF workerAt[h] = "log" THEN {Head(batch[h])} ELSE {})
TotalQty(S) == MapThenSumSet(LAMBDA s : RequestOf[s].qty, S)

(* The WAL of a worker accounts for every item missing from the inventory, *)
(* but for the one sale the worker has deducted and not yet written: it    *)
(* never lags further behind, and it never runs ahead.  sold_total has all *)
(* of them.                                                                *)
WalAccountsForInventory ==
  /\ \A k \in Skus : inventory[k] # NoEntry =>
       StockAtStart[k] = inventory[k]
         + TotalQty({s \in Bought(ShardOf[k]) : RequestOf[s].sku = k})
  /\ soldTotal = TotalQty(UNION {Bought(h) : h \in Shards})

(* README: a decrement is appended "before memory update".  No item is     *)
(* missing from the inventory whose sale is not in the file.               *)
LoggedBeforeMemory ==
  \A k \in Skus : inventory[k] # NoEntry =>
    StockAtStart[k] - inventory[k] <= TotalQty({s \in Written(ShardOf[k]) : RequestOf[s].sku = k})

(* One worker never sells twice under one request id.                      *)
SoldOncePerId ==
  \A h \in Shards : \A i, j \in DOMAIN wal[h] :
    RequestOf[wal[h][i]].id = RequestOf[wal[h][j]].id => i = j

(* A success reported to Go is in the WAL: the order a crash interrupts    *)
(* between the engine and the database can still be found there.           *)
ReportedIsLogged ==
  \A r \in replied : r.status = 1 /\ RequestOf[r.sub].kind = "order" =>
    LET w == wal[ShardOf[RequestOf[r.sub].sku]] IN \E i \in DOMAIN w : w[i] = r.sub

(* bridge.h: "wait until engine is fully drained".  When a drain that      *)
(* passed the guard returns and the engine runs, every request admitted    *)
(* before the call is finished: if nobody else sends barriers.             *)
DrainedMeansProcessed ==
  \A d \in Drainers : drainAt[d] = "drained" /\ running =>
    \A h \in Shards : Len(finished[h]) >= mark[d][h]

(* Once StopEngine returns, nothing that reached a worker's queue is       *)
(* unprocessed, although the last push and the stop of the worker race.    *)
StopFinishesDispatched ==
  stopAt = "stopped" => \A h \in Shards : hand[h] = None /\ sq[h] = <<>> /\ batch[h] = <<>>

(* bridge.h: WaitBarrier "blocks until all requests <= seq are processed". *)
EveryDrainBlocks ==
  \A d \in Drainers : drainAt[d] \in {"drained", "ignored"} /\ running =>
    \A h \in Shards : Len(finished[h]) >= mark[d][h]

(* IsEngineIdle, read in one instant.  After the stop there is no worker.  *)
IsEngineIdle ==
  /\ \A h \in Shards : mq[h] = <<>>
  /\ stopAt # "stopped" => \A h \in Shards : sq[h] = <<>> /\ ~isProcessing[h]
  /\ rq = <<>>

(* bridge.h: "completely idle".  Nothing admitted is still on its way.     *)
IdleMeansIdle == IsEngineIdle => \A h \in Shards : Path(h) = <<>>

(* README: a graceful shutdown processes all requests in flight.           *)
StopFinishesAll == stopAt = "stopped" => \A h \in Shards : Path(h) = <<>>

(* A queued request is answered, or was a repetition of one that is, unless *)
(* the engine is stopped: full queues, a spinning dispatcher and a sleeping *)
(* worker only delay it.  The warm-up requests and those with the id of a   *)
(* barrier never are; the others behind them are.                          *)
QueuedIsAnswered ==
  \A s \in {x \in Submissions : RequestOf[x].kind \notin {"warmup", "max"}} : callerAt[s] = "queued" ~>
    \/ ~running
    \/ \E r \in replied : /\ RequestOf[r.sub].id = RequestOf[s].id
                         /\ ShardOf[RequestOf[r.sub].sku] = ShardOf[RequestOf[s].sku]

(* A drain comes back, also when the engine is stopped meanwhile, except   *)
(* that its injection does not look at running: it spins for ever in front *)
(* of a full queue whose dispatcher has left.                              *)
DrainReturns ==
  \A d \in Drainers : drainAt[d] \in {"inject", "wait"} ~>
    \/ drainAt[d] = "drained"
    \/ \E h \in Shards : ~HasRoom(h) /\ dispatcherAt[h] = "exited"

(* A drain always comes back, although its injection spins on a full queue. *)
EveryDrainReturns == \A d \in Drainers : drainAt[d] \in {"inject", "wait"} ~> drainAt[d] = "drained"

(* StopEngine comes back.                                                  *)
StopReturns == stopAt = "dispatchers" ~> stopAt = "stopped"


-----------------------------------------------------------------------------
(* For the callers the engine is one server per shard.  A request is       *)
(* decided when its worker has compared it with the inventory; from then   *)
(* on it is no longer in line.                                             *)
InService(h) == workerAt[h] \in {"log", "answer"}
Line == [h \in Shards |-> IF InService(h) THEN Tail(Path(h)) ELSE Path(h)]
ToAnswer == [h \in Shards |-> IF InService(h) THEN [sub |-> Head(batch[h]), status |-> status[h]]
                              ELSE [sub |-> Barrier, status |-> 0]]
CallersAt(there) == {s \in Submissions : callerAt[s] = there}

Server == INSTANCE Serving WITH
  accepted <- CallersAt("queued"), refused <- CallersAt("soldout"), line <- Line, serving <- ToAnswer,
  stock <- inventory, known <- seen, results <- rq, told <- replied

(* Callers cannot tell the engine from its abstract specification: each    *)
(* shard decides what it accepted in order, on the stock and the ids of    *)
(* that moment, once; a caller is only turned away while nothing is left.  *)
ImplementsServing == Server!ServingSpec

=============================================================================
