---------------------------- MODULE LegacyEngine ----------------------------
(***************************************************************************)
(* The first engine, engine/src/bridge.cpp and engine/src/worker.hpp: one  *)
(* MPMC queue and one dispatcher for all workers.  The dispatcher takes    *)
(* batches, counts the gaps in the request ids, hands a barrier to every   *)
(* worker, empties its queue after the stop and gives up on a full worker  *)
(* queue then.  The WAL and the statistics, which the later engine has     *)
(* too, are in module Engine.                                              *)
(***************************************************************************)
EXTENDS Integers, Sequences, FiniteSets

CONSTANTS
  Skus, WorkerCount, ShardOf,  \* SKU ids, kWorkerCount, |sku_id| % kWorkerCount
  Callers, Program, Batched,   \* callers, the requests of each, those of an EnqueueBatch
  StockAtStart,                \* inventory_
  SeenLimit,                   \* seen_requests_ is cleared above it (100000)
  MqCap, SqCap, RqCap,         \* capacities of the input, worker and result queues
  KBatch, WorkerBatch,         \* kBatchSize of the dispatcher and of the workers
  Drainers,                    \* callers of WaitEngineDrained
  Barrier                      \* the request with id UINT64_MAX

Workers == 0 .. WorkerCount - 1
Requests == [id : Nat \ {0}, sku : Skus, qty : Nat \ {0}]

(* That no caller sends the id of a barrier (UINT64_MAX) is an assumption:  *)
(* nothing in EnqueueRequest refuses it, and the dispatcher would take such *)
(* a request for a barrier and start the count anew.                        *)
ASSUME LegacyAssumption ==
  /\ WorkerCount \in Nat \ {0}
  /\ ShardOf \in [Skus -> Workers]
  /\ StockAtStart \in [Skus -> Nat]
  /\ Program \in [Callers -> Seq(Requests)]
  /\ {SeenLimit, MqCap, SqCap, RqCap, KBatch, WorkerBatch} \subseteq Nat \ {0}
  /\ "stop" \notin Drainers
  /\ Barrier \notin Requests

VARIABLES
  running, stopAt,       \* the running flag; control of StopEngine
  todo, callerAt,        \* the requests each caller still has; its control
  queue,                 \* the input queue
  dispatcherAt, buffer,  \* control of the dispatcher; its batch
  fanTo,                 \* the worker the dispatcher gives the barrier to next
  check,                 \* check_correctness and its counters
  sq,                    \* the SPSC queue of each worker
  workerRunning,         \* Worker::running_
  workerAt, batch,       \* control of each worker; the rest of its batch
  inventory, seen,       \* inventory_ and seen_requests_
  soldOut,               \* sold_out_store
  rq,                    \* result_queue
  drainAt, inside,       \* control of the callers of WaitEngineDrained; its guard
  barrierCount,          \* barrier_reached_count
  admitted,              \* history: all that was put into queue, in order
  finished, dropped,     \* history: requests workers are done with, requests given up
  mark                   \* history: Len(admitted) when a drain, or the stop, was called

callerVars == <<todo, callerAt>>
dispatcherVars == <<dispatcherAt, buffer, fanTo, check, dropped>>
workerVars == <<workerAt, batch, inventory, seen, soldOut, finished>>
stopVars == <<running, stopAt, workerRunning>>
drainVars == <<drainAt, inside>>
vars == <<callerVars, queue, admitted, dispatcherVars, sq, workerVars, rq, stopVars,
          drainVars, barrierCount, mark>>

(* InitEngine.                                                             *)
Init ==
  /\ running = TRUE /\ stopAt = "up"
  /\ todo = Program /\ callerAt = [c \in Callers |-> "idle"]
  /\ queue = <<>> /\ admitted = <<>>
  /\ dispatcherAt = "check" /\ buffer = <<>> /\ fanTo = 0 /\ dropped = {}
  /\ check = [on |-> FALSE, expected |-> 1, gap |-> 0, dup |-> 0, last |-> 0]
  /\ sq = [w \in Workers |-> <<>>]
  /\ workerRunning = [w \in Workers |-> TRUE]
  /\ workerAt = [w \in Workers |-> "poll"] /\ batch = [w \in Workers |-> <<>>]
  /\ inventory = StockAtStart /\ seen = [w \in Workers |-> {}]
  /\ soldOut = [k \in Skus |-> FALSE]
  /\ rq = <<>> /\ finished = {}
  /\ drainAt = [d \in Drainers |-> "out"] /\ inside = FALSE /\ barrierCount = 0
  /\ mark = [d \in Drainers \cup {"stop"} |-> 0]

-----------------------------------------------------------------------------
(* EnqueueRequest for each request, or one EnqueueBatch for the Batched    *)
(* ones of a caller, which follow one another.                             *)

HasRoom == Len(queue) < MqCap
(* A cell the dispatcher is still copying is not free yet (see MpmcQueue). *)
LooksFull == Len(queue) >= MqCap - 1

Put(x) == queue' = Append(queue, x) /\ admitted' = Append(admitted, x)

BatchLength(s) == Cardinality({i \in DOMAIN s : \A j \in 1 .. i : s[j] \in Batched})

(* What is left when the call of the head is over.                         *)
Rest(c) ==
  LET call == IF Head(todo[c]) \in Batched THEN BatchLength(todo[c]) ELSE 1
  IN  SubSeq(todo[c], call + 1, Len(todo[c]))

CallerUnchanged ==
  UNCHANGED <<dispatcherVars, sq, workerVars, rq, stopVars, drainVars, barrierCount, mark>>

(* The running test and, for a single request, the sold-out flag.          *)
CheckAdmission(c) ==
  LET away == ~running \/ (Head(todo[c]) \notin Batched /\ soldOut[Head(todo[c]).sku])
  IN  /\ callerAt[c] = "idle" /\ todo[c] # <<>>
      /\ \/ away /\ todo' = [todo EXCEPT ![c] = Rest(c)] /\ UNCHANGED callerAt
         \/ ~away /\ callerAt' = [callerAt EXCEPT ![c] = "checked"] /\ UNCHANGED todo
      /\ UNCHANGED <<queue, admitted>>
      /\ CallerUnchanged

(* try_enqueue: after a full queue a batch is broken off.                  *)
TryEnqueue(c) ==
  /\ callerAt[c] = "checked"
  /\ \/ /\ HasRoom
        /\ Put(Head(todo[c]))
        /\ todo' = [todo EXCEPT ![c] = Tail(@)]
     \/ /\ LooksFull
        /\ todo' = [todo EXCEPT ![c] = Rest(c)]
        /\ UNCHANGED <<queue, admitted>>
  /\ callerAt' = [callerAt EXCEPT ![c] = IF todo'[c] = Rest(c) THEN "idle" ELSE "checked"]
  /\ CallerUnchanged

(* EnableCorrectnessCheck, before the first request.                       *)
EnableCorrectnessCheck ==
  /\ ~check.on /\ todo = Program
  /\ check' = [on |-> TRUE, expected |-> 1, gap |-> 0, dup |-> 0, last |-> 0]
  /\ UNCHANGED <<callerVars, queue, admitted, dispatcherAt, buffer, fanTo, dropped, sq, workerVars,
                 rq, stopVars, drainVars, barrierCount, mark>>

-----------------------------------------------------------------------------
(* DispatcherLoop.                                                         *)

DispatcherUnchanged ==
  UNCHANGED <<callerVars, admitted, workerVars, rq, stopVars, drainVars, mark>>

DispatcherGoes(there) == dispatcherAt' = there

(* Mutant: the loop ends as soon as running is false. *)
LoopTest_RunningOnly ==
  /\ dispatcherAt = "check"
  /\ DispatcherGoes(IF running THEN "pop" ELSE "exited")
  /\ UNCHANGED <<queue, buffer, fanTo, check, dropped, sq, barrierCount>>
  /\ DispatcherUnchanged

(* running || queue->size() > 0                                            *)
LoopTest ==
  /\ dispatcherAt = "check"
  /\ DispatcherGoes(IF running \/ queue # <<>> THEN "pop" ELSE "exited")
  /\ UNCHANGED <<queue, buffer, fanTo, check, dropped, sq, barrierCount>>
  /\ DispatcherUnchanged

(* Somebody may be between winning a cell and filling it.                  *)
Filling ==
  (\E c \in Callers : callerAt[c] = "checked") \/ (\E d \in Drainers : drainAt[d] = "inject")

(* Up to KBatch times try_dequeue.                                         *)
PopBatch ==
  /\ dispatcherAt = "pop"
  /\ \/ /\ queue # <<>>
        /\ buffer' = Append(buffer, Head(queue)) /\ queue' = Tail(queue)
        /\ DispatcherGoes(IF Len(buffer') = KBatch THEN "route" ELSE "pop")
     \/ /\ queue = <<>> \/ Filling
        /\ DispatcherGoes(IF buffer = <<>> THEN "check" ELSE "route")
        /\ UNCHANGED <<queue, buffer>>
  /\ UNCHANGED <<fanTo, check, dropped, sq, barrierCount>>
  /\ DispatcherUnchanged

RouteNext ==
  /\ buffer' = Tail(buffer)
  /\ DispatcherGoes(IF Tail(buffer) = <<>> THEN "check" ELSE "route")

(* Enqueue to worker w until it succeeds or the engine is stopped.         *)
PushTo(w, x) ==
  \/ Len(sq[w]) < SqCap /\ sq' = [sq EXCEPT ![w] = Append(@, x)] /\ UNCHANGED dropped
  \/ Len(sq[w]) = SqCap /\ ~running /\ dropped' = dropped \cup {x} /\ UNCHANGED sq

(* Mutant: the request itself is expected again. *)
Counted_OffByOne(id) ==
  IF ~check.on THEN check
  ELSE [check EXCEPT !.expected = IF id < @ THEN @ ELSE id,
                     !.dup = IF id < check.expected THEN @ + 1 ELSE @,
                     !.gap = IF id > check.expected THEN @ + (id - check.expected) ELSE @,
                     !.last = id]

(* The correctness check: a request id below the one expected is a         *)
(* duplicate, one above it leaves a gap.                                   *)
Counted(id) ==
  IF ~check.on THEN check
  ELSE [check EXCEPT !.expected = IF id < @ THEN @ ELSE id + 1,
                     !.dup = IF id < check.expected THEN @ + 1 ELSE @,
                     !.gap = IF id > check.expected THEN @ + (id - check.expected) ELSE @,
                     !.last = id]

CountRequest ==
  /\ dispatcherAt = "route" /\ Head(buffer) # Barrier
  /\ check' = Counted(Head(buffer).id)
  /\ DispatcherGoes("push")
  /\ UNCHANGED <<queue, buffer, fanTo, dropped, sq, barrierCount>>
  /\ DispatcherUnchanged

PushRequest ==
  /\ dispatcherAt = "push"
  /\ PushTo(ShardOf[Head(buffer).sku], Head(buffer))
  /\ RouteNext
  /\ UNCHANGED <<queue, fanTo, check, barrierCount>>
  /\ DispatcherUnchanged

(* The counter is reset again before the barrier goes out.                 *)
StartBarrier ==
  /\ dispatcherAt = "route" /\ Head(buffer) = Barrier
  /\ barrierCount' = 0 /\ fanTo' = 0
  /\ DispatcherGoes("fan")
  /\ UNCHANGED <<queue, buffer, check, dropped, sq>>
  /\ DispatcherUnchanged

FanBarrier ==
  /\ dispatcherAt = "fan"
  /\ PushTo(fanTo, Barrier)
  /\ IF fanTo = WorkerCount - 1 THEN RouteNext /\ UNCHANGED fanTo
     ELSE fanTo' = fanTo + 1 /\ UNCHANGED <<buffer, dispatcherAt>>
  /\ UNCHANGED <<queue, check, barrierCount>>
  /\ DispatcherUnchanged

-----------------------------------------------------------------------------
(* Worker::Loop and Worker::Process.                                       *)

WorkerUnchanged ==
  UNCHANGED <<callerVars, queue, admitted, dispatcherVars, stopVars, drainVars, mark>>

WorkerGoes(w, there) == workerAt' = [workerAt EXCEPT ![w] = there]

(* try_dequeue_batch, also the last one after running_ was seen false.     *)
TakeBatch(w) ==
  LET n == IF Len(sq[w]) < WorkerBatch THEN Len(sq[w]) ELSE WorkerBatch
  IN  /\ workerAt[w] \in {"poll", "recheck"}
      /\ IF n = 0
           THEN WorkerGoes(w, IF workerAt[w] = "poll" THEN "empty" ELSE "exited") /\ UNCHANGED <<batch, sq>>
           ELSE /\ batch' = [batch EXCEPT ![w] = SubSeq(sq[w], 1, n)]
                /\ sq' = [sq EXCEPT ![w] = SubSeq(@, n + 1, Len(@))]
                /\ WorkerGoes(w, "process")
      /\ UNCHANGED <<inventory, seen, soldOut, finished, rq, barrierCount>>
      /\ WorkerUnchanged

ReadRunning(w) ==
  /\ workerAt[w] = "empty"
  /\ WorkerGoes(w, IF workerRunning[w] THEN "poll" ELSE "recheck")
  /\ UNCHANGED <<batch, sq, inventory, seen, soldOut, finished, rq, barrierCount>>
  /\ WorkerUnchanged

Done(w) ==
  /\ batch' = [batch EXCEPT ![w] = Tail(@)]
  /\ finished' = finished \cup {Head(batch[w])}
  /\ WorkerGoes(w, IF Tail(batch[w]) = <<>> THEN "poll" ELSE "process")

(* A barrier is counted; a repeated id is left without a result.           *)
ProcessSilently(w) ==
  /\ workerAt[w] = "process"
  /\ \/ Head(batch[w]) = Barrier /\ barrierCount' = barrierCount + 1
     \/ Head(batch[w]) # Barrier /\ Head(batch[w]).id \in seen[w] /\ UNCHANGED barrierCount
  /\ Done(w)
  /\ UNCHANGED <<sq, inventory, seen, soldOut, rq>>
  /\ WorkerUnchanged

Remember(w, id) ==
  LET s == seen[w] \cup {id} IN IF Cardinality(s) > SeenLimit THEN {} ELSE s

(* The sale, or the refusal, and the sold-out flag.                        *)
ProcessOrder(w) ==
  /\ workerAt[w] = "process" /\ Head(batch[w]) # Barrier
  /\ LET r == Head(batch[w])
         left == IF inventory[r.sku] >= r.qty THEN inventory[r.sku] - r.qty ELSE inventory[r.sku]
     IN  /\ r.id \notin seen[w]
         /\ seen' = [seen EXCEPT ![w] = Remember(w, r.id)]
         /\ inventory' = [inventory EXCEPT ![r.sku] = left]
         /\ soldOut' = [soldOut EXCEPT ![r.sku] = @ \/ left = 0]
  /\ WorkerGoes(w, "answer")
  /\ UNCHANGED <<batch, sq, finished, rq, barrierCount>>
  /\ WorkerUnchanged

(* Spins while the result queue is full.                                   *)
PushResult(w) ==
  /\ workerAt[w] = "answer"
  /\ Len(rq) < RqCap /\ rq' = Append(rq, Head(batch[w]))
  /\ Done(w)
  /\ UNCHANGED <<sq, inventory, seen, soldOut, barrierCount>>
  /\ WorkerUnchanged

PollResult ==
  /\ rq # <<>> /\ rq' = Tail(rq)
  /\ UNCHANGED <<callerVars, queue, admitted, dispatcherVars, sq, workerVars, stopVars, drainVars,
                 barrierCount, mark>>

-----------------------------------------------------------------------------
(* StopEngine: RequestStop, then JoinEngine.                               *)

StopUnchanged ==
  UNCHANGED <<callerVars, queue, admitted, dispatcherVars, sq, workerVars, rq, drainVars, barrierCount>>

RequestStop ==
  /\ stopAt = "up"
  /\ running' = FALSE /\ stopAt' = "dispatcher"
  /\ mark' = [mark EXCEPT !["stop"] = Len(admitted)]
  /\ UNCHANGED workerRunning
  /\ StopUnchanged

JoinDispatcher ==
  /\ stopAt = "dispatcher" /\ dispatcherAt = "exited"
  /\ stopAt' = "workers"
  /\ UNCHANGED <<running, workerRunning, mark>>
  /\ StopUnchanged

(* One worker after the other is told to stop and joined.                  *)
StopWorker(w) ==
  /\ stopAt = "workers" /\ workerRunning[w]
  /\ \A v \in Workers : v < w => workerAt[v] = "exited"
  /\ workerRunning' = [workerRunning EXCEPT ![w] = FALSE]
  /\ UNCHANGED <<running, stopAt, mark>>
  /\ StopUnchanged

JoinWorkers ==
  /\ stopAt = "workers" /\ \A w \in Workers : workerAt[w] = "exited"
  /\ stopAt' = "stopped"
  /\ UNCHANGED <<running, workerRunning, mark>>
  /\ StopUnchanged

-----------------------------------------------------------------------------
(* WaitEngineDrained.                                                      *)

DrainUnchanged == UNCHANGED <<callerVars, dispatcherVars, sq, workerVars, rq, stopVars>>

DrainCall(d) ==
  /\ drainAt[d] = "out"
  /\ mark' = [mark EXCEPT ![d] = Len(admitted)]
  /\ inside' = TRUE
  /\ drainAt' = [drainAt EXCEPT ![d] = IF inside THEN "ignored" ELSE "inject"]
  /\ barrierCount' = IF inside THEN barrierCount ELSE 0
  /\ UNCHANGED <<queue, admitted>>
  /\ DrainUnchanged

(* Spins while the queue is full, whether the engine runs or not.          *)
DrainInject(d) ==
  /\ drainAt[d] = "inject" /\ HasRoom
  /\ Put(Barrier)
  /\ drainAt' = [drainAt EXCEPT ![d] = "wait"]
  /\ UNCHANGED <<inside, barrierCount, mark>>
  /\ DrainUnchanged

(* Mutant: the first worker's answer is enough. *)
DrainReturn_First(d) ==
  /\ drainAt[d] = "wait"
  /\ barrierCount >= 1 \/ ~running
  /\ drainAt' = [drainAt EXCEPT ![d] = "drained"]
  /\ inside' = FALSE
  /\ UNCHANGED <<queue, admitted, barrierCount, mark>>
  /\ DrainUnchanged

DrainReturn(d) ==
  /\ drainAt[d] = "wait"
  /\ barrierCount >= WorkerCount \/ ~running
  /\ drainAt' = [drainAt EXCEPT ![d] = "drained"]
  /\ inside' = FALSE
  /\ UNCHANGED <<queue, admitted, barrierCount, mark>>
  /\ DrainUnchanged

-----------------------------------------------------------------------------

Dispatcher == LoopTest \/ PopBatch \/ CountRequest \/ PushRequest \/ StartBarrier \/ FanBarrier
Work(w) == TakeBatch(w) \/ ReadRunning(w) \/ ProcessSilently(w) \/ ProcessOrder(w) \/ PushResult(w)
Join == JoinDispatcher \/ JoinWorkers \/ \E w \in Workers : StopWorker(w)

Next ==
  \/ \E c \in Callers : CheckAdmission(c) \/ TryEnqueue(c)
  \/ EnableCorrectnessCheck
  \/ Dispatcher
  \/ \E w \in Workers : Work(w)
  \/ PollResult
  \/ RequestStop \/ Join
  \/ \E d \in Drainers : DrainCall(d) \/ DrainInject(d) \/ DrainReturn(d)

Spec == Init /\ [][Next]_vars

-----------------------------------------------------------------------------
Before(m) == {admitted[i] : i \in 1 .. m} \ {Barrier}

(* When a drain that passed the guard returns and the engine runs, every   *)
(* request admitted before the call is finished, on every worker.          *)
DrainedMeansProcessed ==
  \A d \in Drainers : drainAt[d] = "drained" /\ running => Before(mark[d]) \subseteq finished

(* StopEngine gives up a request admitted before it only at the queue of a *)
(* worker that was full: all others are processed when it returns.         *)
StopProcessesAdmitted ==
  stopAt = "stopped" => Before(mark["stop"]) \subseteq finished \cup dropped

(* The positions of admitted the dispatcher has counted.                   *)
Passed ==
  LET n == Len(admitted) - Len(queue) - Len(buffer) + IF dispatcherAt = "push" THEN 1 ELSE 0
  IN  {i \in 1 .. n : admitted[i] # Barrier}

(* With a caller that numbers its requests in order and may repeat one:    *)
(* gap_count is the number of ids the engine has turned away for good and  *)
(* dup_count that of the repetitions it has let in, barriers or not.       *)
GapsAreRejections ==
  check.on =>
    LET ids == {admitted[i].id : i \in Passed}
    IN  /\ check.gap = Cardinality((1 .. check.expected - 1) \ ids)
        /\ check.dup = Cardinality(Passed) - Cardinality(ids)

(* bridge.cpp: "Here we choose blocking to favor correctness".  A request  *)
(* is never given up.                                                      *)
NothingIsDropped == dropped = {}
=============================================================================
