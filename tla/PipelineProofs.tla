--------------------------- MODULE PipelineProofs ---------------------------
(***************************************************************************)
(* Proofs about the result pipeline, for any set of answers, any number of *)
(* result workers, any capacities and batch sizes, and all faults.         *)
(***************************************************************************)
EXTENDS Pipeline, TLAPS

(* Who may be where. *)
KindsOK ==
  /\ \A w \in Workers : held[w] = None <=> at[w] = "poll"
  /\ \A w \in Workers : at[w] = "order" => held[w] \in Sales
  /\ \A w \in Workers : at[w] = "cleanup" => held[w] \in Sales \cup Refusals
  /\ orderChan \cup dbBatch \subseteq Sales
  /\ cleanupChan \cup cleanupBatch \subseteq Sales \cup Refusals
  /\ rolling \subseteq Refusals

(* What has not left the result queue is nowhere else. *)
FreshOK ==
  /\ rq \subseteq answered
  /\ \A r \in Results : r \in rq \/ r \notin answered =>
       /\ \A w \in Workers : held[w] # r
       /\ r \notin orderChan \cup dbBatch \cup cleanupChan \cup cleanupBatch \cup rolling
       /\ inserts[r] = 0 /\ acks[r] = 0 /\ reverts[r] = 0

(* No result is in two hands, or in one and already done. *)
OnceOK ==
  /\ \A v, w \in Workers : held[v] = held[w] /\ held[v] # None => v = w
  /\ \A r \in dbBatch : inserts[r] = 0
  /\ \A r \in orderChan : r \notin dbBatch /\ inserts[r] = 0
  /\ \A w \in Workers : at[w] = "order" =>
       held[w] \notin orderChan \cup dbBatch /\ inserts[held[w]] = 0
  /\ \A r \in rolling : acks[r] = 0 /\ reverts[r] = 0
  /\ \A r \in cleanupBatch : r \notin rolling /\ acks[r] = 0 /\ reverts[r] = 0
  /\ \A r \in cleanupChan : r \notin cleanupBatch \cup rolling /\ acks[r] = 0 /\ reverts[r] = 0
  /\ \A w \in Workers : held[w] # None =>
       /\ held[w] \notin cleanupChan \cup cleanupBatch \cup rolling
       /\ acks[held[w]] = 0 /\ reverts[held[w]] = 0
  /\ \A r \in Results : inserts[r] \in {0, 1} /\ acks[r] \in {0, 1} /\ reverts[r] \in {0, 1}

PlacesInv == PipelineTypeOK /\ KindsOK /\ FreshOK /\ OnceOK

LEMMA PlacesInit == Init => PlacesInv
BY PipelineAssumption DEF Init, PlacesInv, PipelineTypeOK, KindsOK, FreshOK, OnceOK

(* The places of every result stay exclusive, whatever the goroutines do.  *)
LEMMA PlacesStep == PlacesInv /\ [Next]_vars => PlacesInv'
<1> SUFFICES ASSUME PlacesInv, [Next]_vars PROVE PlacesInv'
  OBVIOUS
<1> USE PipelineAssumption DEF PlacesInv
<1>1. ASSUME NEW r \in Results, EngineAnswers(r) PROVE PlacesInv'
  <2>1. PipelineTypeOK'
    BY <1>1 DEF EngineAnswers, workerVars, dbVars, cleanupVars, PipelineTypeOK
  <2>2. KindsOK'
    BY <1>1 DEF EngineAnswers, workerVars, dbVars, cleanupVars, KindsOK
  <2>3. FreshOK'
    BY <1>1 DEF EngineAnswers, workerVars, dbVars, cleanupVars, FreshOK, PipelineTypeOK
  <2>4. OnceOK'
    BY <1>1 DEF EngineAnswers, workerVars, dbVars, cleanupVars, OnceOK
  <2> QED BY <2>1, <2>2, <2>3, <2>4
<1>2. ASSUME NEW w \in Workers, Poll(w) PROVE PlacesInv'
  <2>1. PICK r \in rq :
          /\ rq' = rq \ {r} /\ at[w] = "poll"
          /\ \/ r \in Benchmarks /\ at' = [at EXCEPT ![w] = "poll"] /\ UNCHANGED held
             \/ r \in Sales /\ at' = [at EXCEPT ![w] = "order"] /\ held' = [held EXCEPT ![w] = r]
             \/ r \in Refusals /\ at' = [at EXCEPT ![w] = "cleanup"] /\ held' = [held EXCEPT ![w] = r]
    BY <1>2 DEF Poll, WorkerGoes
  <2>2. UNCHANGED <<up, answered, dbVars, cleanupVars>>
    BY <1>2 DEF Poll
  <2>3. PipelineTypeOK'
    BY <2>1, <2>2 DEF dbVars, cleanupVars, PipelineTypeOK
  <2>4. KindsOK'
    BY <2>1, <2>2 DEF dbVars, cleanupVars, KindsOK, PipelineTypeOK
  <2>5. FreshOK'
    BY <2>1, <2>2 DEF dbVars, cleanupVars, FreshOK, PipelineTypeOK
  <2>6. OnceOK'
    BY <2>1, <2>2 DEF dbVars, cleanupVars, FreshOK, OnceOK, PipelineTypeOK
  <2> QED BY <2>3, <2>4, <2>5, <2>6
<1>3. ASSUME NEW w \in Workers, SendOrder(w) PROVE PlacesInv'
  <2>1. /\ at[w] = "order" /\ at' = [at EXCEPT ![w] = "cleanup"]
        /\ orderChan' = orderChan \cup {held[w]}
        /\ UNCHANGED <<up, answered, rq, held, dbBatch, rows, inserts, cleanupVars>>
    BY <1>3 DEF SendOrder, WorkerGoes
  <2>2. held[w] \in Sales /\ held[w] \in Results
    BY <2>1 DEF KindsOK, Sales, Sold
  <2>3. PipelineTypeOK'
    BY <2>1, <2>2 DEF cleanupVars, PipelineTypeOK
  <2>4. KindsOK'
    BY <2>1, <2>2 DEF cleanupVars, KindsOK, PipelineTypeOK
  <2>5. FreshOK'
    BY <2>1, <2>2 DEF cleanupVars, FreshOK
  <2>6. OnceOK'
    BY <2>1, <2>2 DEF cleanupVars, OnceOK, PipelineTypeOK
  <2> QED BY <2>3, <2>4, <2>5, <2>6
<1>4. ASSUME NEW w \in Workers, SendTask(w) PROVE PlacesInv'
  <2>1. /\ at[w] = "cleanup" /\ at' = [at EXCEPT ![w] = "poll"]
        /\ held' = [held EXCEPT ![w] = None]
        /\ cleanupChan' = cleanupChan \cup {held[w]}
        /\ UNCHANGED <<up, answered, rq, dbVars, cleanupBatch, rolling, deadLetter, acks, reverts>>
    BY <1>4 DEF SendTask, WorkerGoes
  <2>2. held[w] \in Sales \cup Refusals /\ held[w] \in Results /\ held[w] # None
    BY <2>1 DEF KindsOK, Sales, Sold, Refusals
  <2>3. PipelineTypeOK'
    BY <2>1, <2>2 DEF dbVars, PipelineTypeOK
  <2>4. KindsOK'
    BY <2>1, <2>2 DEF dbVars, KindsOK, PipelineTypeOK
  <2>5. FreshOK'
    BY <2>1, <2>2 DEF dbVars, FreshOK, PipelineTypeOK
  <2>6. OnceOK'
    BY <2>1, <2>2 DEF dbVars, OnceOK, PipelineTypeOK
  <2> QED BY <2>3, <2>4, <2>5, <2>6
<1>5. ASSUME DbReceive PROVE PlacesInv'
  <2>1. PICK r \in orderChan : orderChan' = orderChan \ {r} /\ dbBatch' = dbBatch \cup {r}
    BY <1>5 DEF DbReceive
  <2>2. UNCHANGED <<up, answered, rq, workerVars, rows, inserts, cleanupVars>>
    BY <1>5 DEF DbReceive
  <2> USE DEF workerVars, cleanupVars
  <2>3. PipelineTypeOK'
    BY <2>1, <2>2 DEF PipelineTypeOK
  <2>4. KindsOK'
    BY <2>1, <2>2 DEF KindsOK
  <2>5. FreshOK'
    BY <2>1, <2>2 DEF FreshOK
  <2>6. OnceOK'
    BY <2>1, <2>2 DEF OnceOK
  <2> QED BY <2>3, <2>4, <2>5, <2>6
<1>6. ASSUME DbFlush PROVE PlacesInv'
  <2>1. /\ inserts' = Counted(inserts, dbBatch) /\ dbBatch' = {}
        /\ UNCHANGED <<up, answered, rq, workerVars, orderChan, cleanupVars>>
    BY <1>6 DEF DbFlush
  <2>2. rows' \subseteq Results
    BY <1>6 DEF DbFlush, PipelineTypeOK
  <2>3. \A r \in Results : inserts'[r] = IF r \in dbBatch THEN 1 ELSE inserts[r]
    BY <2>1 DEF Counted, OnceOK
  <2> USE DEF workerVars, cleanupVars
  <2>4. PipelineTypeOK'
    BY <2>1, <2>2 DEF PipelineTypeOK, Counted
  <2>5. KindsOK'
    BY <2>1 DEF KindsOK
  <2>6. FreshOK'
    BY <2>1, <2>3 DEF FreshOK
  <2>7. OnceOK'
    BY <2>1, <2>3 DEF OnceOK, KindsOK, PipelineTypeOK, Sales, Sold
  <2> QED BY <2>4, <2>5, <2>6, <2>7
<1>7. ASSUME CleanupReceive PROVE PlacesInv'
  <2>1. PICK r \in cleanupChan :
          cleanupChan' = cleanupChan \ {r} /\ cleanupBatch' = cleanupBatch \cup {r}
    BY <1>7 DEF CleanupReceive
  <2>2. UNCHANGED <<up, answered, rq, workerVars, dbVars, rolling, deadLetter, acks, reverts>>
    BY <1>7 DEF CleanupReceive
  <2> USE DEF workerVars, dbVars
  <2>3. PipelineTypeOK'
    BY <2>1, <2>2 DEF PipelineTypeOK
  <2>4. KindsOK'
    BY <2>1, <2>2 DEF KindsOK
  <2>5. FreshOK'
    BY <2>1, <2>2 DEF FreshOK
  <2>6. OnceOK'
    BY <2>1, <2>2 DEF OnceOK
  <2> QED BY <2>3, <2>4, <2>5, <2>6
<1>8. ASSUME CleanupFlush PROVE PlacesInv'
  <2>1. PICK failed : acks' = Counted(acks, {r \in cleanupBatch \cap Sales : SkuOf[r] \notin failed})
    BY <1>8 DEF CleanupFlush
  <2>2. /\ rolling' = rolling \cup (cleanupBatch \cap Refusals) /\ cleanupBatch' = {}
        /\ UNCHANGED <<up, answered, rq, workerVars, dbVars, cleanupChan, deadLetter, reverts>>
    BY <1>8 DEF CleanupFlush
  <2>3. \A r \in Results : \/ acks'[r] = acks[r]
                           \/ r \in cleanupBatch \cap Sales /\ acks[r] = 0 /\ acks'[r] = 1
    BY <2>1 DEF Counted, OnceOK
  <2>4. Sales \cap Refusals = {} /\ Refusals \subseteq Results
    BY DEF Sales, Sold, Refusals
  <2> USE DEF workerVars, dbVars
  <2>5. PipelineTypeOK'
    BY <2>1, <2>2, <2>4 DEF PipelineTypeOK, Counted
  <2>6. KindsOK'
    BY <2>2 DEF KindsOK
  <2>7. FreshOK'
    BY <2>2, <2>3 DEF FreshOK
  <2>8. OnceOK'
    BY <2>2, <2>3, <2>4 DEF OnceOK, KindsOK, PipelineTypeOK
  <2> QED BY <2>5, <2>6, <2>7, <2>8
<1>9. ASSUME NEW r \in Results, Rollback(r) PROVE PlacesInv'
  <2>1. /\ r \in rolling /\ rolling' = rolling \ {r}
        /\ \/ reverts' = Counted(reverts, {r}) /\ UNCHANGED deadLetter
           \/ deadLetter' = deadLetter \cup {r} /\ UNCHANGED reverts
        /\ UNCHANGED <<up, answered, rq, workerVars, dbVars, cleanupChan, cleanupBatch, acks>>
    BY <1>9 DEF Rollback
  <2>2. \A q \in Results : \/ reverts'[q] = reverts[q]
                           \/ q = r /\ reverts[q] = 0 /\ reverts'[q] = 1
    BY <2>1 DEF Counted, OnceOK
  <2> USE DEF workerVars, dbVars
  <2>3. PipelineTypeOK'
    BY <2>1 DEF PipelineTypeOK, Counted
  <2>4. KindsOK'
    BY <2>1 DEF KindsOK
  <2>5. FreshOK'
    BY <2>1, <2>2 DEF FreshOK
  <2>6. OnceOK'
    BY <2>1, <2>2 DEF OnceOK, PipelineTypeOK
  <2> QED BY <2>3, <2>4, <2>5, <2>6
<1>10. ASSUME Exit PROVE PlacesInv'
  <2>1. PipelineTypeOK'
    BY <1>10 DEF Exit, PipelineTypeOK
  <2>2. KindsOK'
    BY <1>10 DEF Exit, KindsOK, PipelineTypeOK
  <2>3. FreshOK'
    BY <1>10 DEF Exit, FreshOK, PipelineTypeOK
  <2>4. OnceOK'
    BY <1>10 DEF Exit, OnceOK, PipelineTypeOK
  <2> QED BY <2>1, <2>2, <2>3, <2>4
<1>11. CASE UNCHANGED vars
  BY <1>11 DEF vars, workerVars, dbVars, cleanupVars, PipelineTypeOK, KindsOK, FreshOK, OnceOK
<1> QED BY <1>1, <1>2, <1>3, <1>4, <1>5, <1>6, <1>7, <1>8, <1>9, <1>10, <1>11
        DEF Next, ResultWorker, DbWorker, CleanupWorker

LEMMA PlacesCorrect == Spec => []PlacesInv
BY PlacesInit, PlacesStep, PTL DEF Spec

(* The type invariant of the pipeline: channels, batches and the dead      *)
(* letters carry answers of the engine only, and every worker stands at a  *)
(* place of its own loop.                                                  *)
THEOREM PipelineTypeCorrect == Spec => []PipelineTypeOK
<1>1. PlacesInv => PipelineTypeOK
  BY DEF PlacesInv
<1> QED BY <1>1, PlacesCorrect, PTL

-----------------------------------------------------------------------------
(* The order is with the database worker, or was part of an INSERT.        *)
Handed(r) == r \in orderChan \cup dbBatch \/ inserts[r] > 0

(* A sale that is past the send to orderChan has been handed over, and     *)
(* only those reach the acknowledgement.                                   *)
HandedInv ==
  up =>
    /\ \A w \in Workers : at[w] = "cleanup" /\ held[w] \in Sales => Handed(held[w])
    /\ \A r \in Sales : r \in cleanupChan \cup cleanupBatch => Handed(r)
    /\ \A r \in Results : acks[r] > 0 => Handed(r)

(* What was handed over stays so while the process runs.                   *)
LEMMA HandedStays ==
  ASSUME PlacesInv, PlacesInv', [Next]_vars, up, up', NEW r \in Results, Handed(r)
  PROVE  Handed(r)'
<1> USE DEF Handed
<1>1. ASSUME DbReceive PROVE Handed(r)'
  BY <1>1 DEF DbReceive
<1>2. ASSUME DbFlush PROVE Handed(r)'
  <2>1. /\ inserts'[r] = IF r \in dbBatch THEN inserts[r] + 1 ELSE inserts[r]
        /\ inserts[r] \in Nat /\ orderChan' = orderChan
    BY <1>2 DEF DbFlush, Counted, PlacesInv, PipelineTypeOK
  <2> QED BY <2>1
<1>3. ASSUME NEW w \in Workers, SendOrder(w) PROVE Handed(r)'
  BY <1>3 DEF SendOrder
<1>4. CASE UNCHANGED dbVars
  BY <1>4 DEF dbVars
<1>5. ~Exit
  BY DEF Exit
<1> QED BY <1>1, <1>2, <1>3, <1>4, <1>5
        DEF Next, ResultWorker, DbWorker, CleanupWorker, EngineAnswers, Rollback, Poll, SendTask,
            CleanupReceive, CleanupFlush, vars

LEMMA HandedStep == PlacesInv /\ PlacesInv' /\ HandedInv /\ [Next]_vars => HandedInv'
<1> SUFFICES ASSUME PlacesInv, PlacesInv', HandedInv, [Next]_vars, up'
             PROVE  HandedInv'
  BY DEF HandedInv
<1> USE PipelineAssumption
<1>0. up
  BY DEF Next, ResultWorker, DbWorker, CleanupWorker, EngineAnswers, Rollback, Poll, SendOrder,
         SendTask, DbReceive, DbFlush, CleanupReceive, CleanupFlush, Exit, vars
<1>h. ASSUME NEW r \in Results, Handed(r) PROVE Handed(r)'
  BY <1>0, <1>h, HandedStays
<1>s. Sales \subseteq Results /\ Sales \cap Refusals = {}
  BY DEF Sales, Sold, Refusals
<1>1. ASSUME UNCHANGED <<at, held, cleanupChan, cleanupBatch, acks>> PROVE HandedInv'
  BY <1>0, <1>1, <1>h, <1>s DEF HandedInv
<1>2. ASSUME NEW w \in Workers, Poll(w) PROVE HandedInv'
  <2>1. UNCHANGED <<cleanupChan, cleanupBatch, acks>>
    BY <1>2 DEF Poll, cleanupVars
  <2>2. ASSUME NEW v \in Workers, at'[v] = "cleanup", held'[v] \in Sales
        PROVE  v # w /\ at'[v] = at[v] /\ held'[v] = held[v]
    BY <1>2, <1>s, <2>2 DEF Poll, WorkerGoes, PlacesInv, PipelineTypeOK
  <2> QED BY <1>0, <1>h, <1>s, <2>1, <2>2 DEF HandedInv
<1>3. ASSUME NEW w \in Workers, SendOrder(w) PROVE HandedInv'
  <2>1. /\ UNCHANGED <<held, cleanupChan, cleanupBatch, acks>>
        /\ orderChan' = orderChan \cup {held[w]}
        /\ \A v \in Workers : v # w => at'[v] = at[v]
    BY <1>3 DEF SendOrder, WorkerGoes, cleanupVars, PlacesInv, PipelineTypeOK
  <2>2. Handed(held[w])'
    BY <2>1 DEF Handed
  <2> QED BY <1>0, <1>h, <1>s, <2>1, <2>2 DEF HandedInv
<1>4. ASSUME NEW w \in Workers, SendTask(w) PROVE HandedInv'
  <2>1. /\ UNCHANGED <<cleanupBatch, acks>>
        /\ cleanupChan' = cleanupChan \cup {held[w]} /\ at[w] = "cleanup"
        /\ \A v \in Workers : at'[v] = "cleanup" => at[v] = "cleanup" /\ held'[v] = held[v]
    BY <1>4 DEF SendTask, WorkerGoes, PlacesInv, PipelineTypeOK
  <2> QED BY <1>0, <1>h, <1>s, <2>1 DEF HandedInv
<1>5. ASSUME CleanupReceive PROVE HandedInv'
  <2>1. UNCHANGED <<at, held, acks>> /\ cleanupChan' \cup cleanupBatch' = cleanupChan \cup cleanupBatch
    BY <1>5 DEF CleanupReceive, workerVars
  <2> QED BY <1>0, <1>h, <1>s, <2>1 DEF HandedInv
<1>6. ASSUME CleanupFlush PROVE HandedInv'
  <2>1. PICK failed : acks' = Counted(acks, {r \in cleanupBatch \cap Sales : SkuOf[r] \notin failed})
    BY <1>6 DEF CleanupFlush
  <2>2. UNCHANGED <<at, held, cleanupChan>> /\ cleanupBatch' = {}
    BY <1>6 DEF CleanupFlush, workerVars
  <2>3. \A r \in Results : acks'[r] = acks[r] \/ r \in cleanupBatch \cap Sales
    BY <2>1 DEF Counted
  <2> QED BY <1>0, <1>h, <1>s, <2>2, <2>3 DEF HandedInv
<1>7. CASE UNCHANGED <<workerVars, cleanupVars>>
  BY <1>1, <1>7 DEF workerVars, cleanupVars
<1>8. ASSUME NEW r \in Results, Rollback(r) PROVE HandedInv'
  BY <1>1, <1>8 DEF Rollback, workerVars
<1>9. ~Exit
  BY DEF Exit
<1> QED BY <1>2, <1>3, <1>4, <1>5, <1>6, <1>7, <1>8, <1>9
        DEF Next, ResultWorker, DbWorker, CleanupWorker, EngineAnswers, DbReceive, DbFlush, vars

(* The order of the two sends of a result worker (orderChan before         *)
(* cleanupChan) is enough for "acknowledged only once handed over",        *)
(* whatever the two consumers do.                                          *)
THEOREM AckFollowsOrder == Spec => []AckedIsOnItsWay
<1>1. Init => HandedInv
  BY PipelineAssumption DEF Init, HandedInv, Sales, Sold
<1>2. HandedInv => AckedIsOnItsWay
  BY DEF HandedInv, Handed, AckedIsOnItsWay
<1> QED BY <1>1, <1>2, PlacesCorrect, HandedStep, PTL DEF Spec

-----------------------------------------------------------------------------

(* An answer that has settled was settled by a flush or a rollback: every  *)
(* other step hands it on.                                                 *)
LEMMA NothingVanishesStep ==
  PlacesInv /\ PlacesInv' /\ NothingVanishes /\ [Next]_vars => NothingVanishes'
<1> SUFFICES ASSUME PlacesInv, PlacesInv', NothingVanishes, [Next]_vars, up',
                    NEW r \in answered'
             PROVE  /\ r \in Sales /\ ~OnOrderPath(r)' => inserts'[r] = 1
                    /\ r \in Refusals /\ ~OnCleanupPath(r)' => reverts'[r] = 1 \/ r \in deadLetter'
  BY DEF NothingVanishes
<1> USE PipelineAssumption
<1> DEFINE Ordered == r \in Sales /\ ~OnOrderPath(r)' => inserts'[r] = 1
           Settled == r \in Refusals /\ ~OnCleanupPath(r)' => reverts'[r] = 1 \/ r \in deadLetter'
<1>0. up
  BY DEF Next, ResultWorker, DbWorker, CleanupWorker, EngineAnswers, Rollback, Poll, SendOrder,
         SendTask, DbReceive, DbFlush, CleanupReceive, CleanupFlush, Exit, vars
<1>s. /\ Sales \subseteq Results /\ Refusals \subseteq Results
      /\ Sales \cap Refusals = {} /\ Sales \cap Benchmarks = {} /\ Benchmarks \cap Refusals = {}
  BY DEF Sales, Sold, Refusals
<1>r. r \in Results
  BY DEF PlacesInv, PipelineTypeOK
<1>i. r \in answered =>
        /\ r \in Sales /\ ~OnOrderPath(r) => inserts[r] = 1
        /\ r \in Refusals /\ ~OnCleanupPath(r) => reverts[r] = 1 \/ r \in deadLetter
  BY <1>0 DEF NothingVanishes
<1>1. ASSUME NEW q \in Results, EngineAnswers(q) PROVE Ordered /\ Settled
  BY <1>1, <1>i DEF EngineAnswers, workerVars, dbVars, cleanupVars, OnOrderPath, OnCleanupPath, Holding
<1>2. ASSUME NEW w \in Workers, Poll(w) PROVE Ordered /\ Settled
  <2>1. UNCHANGED <<answered, dbVars, cleanupVars>>
    BY <1>2 DEF Poll
  <2>2. PICK q \in rq :
          /\ rq' = rq \ {q} /\ at[w] = "poll"
          /\ \/ q \in Benchmarks /\ at' = [at EXCEPT ![w] = "poll"] /\ UNCHANGED held
             \/ q \in Sales /\ at' = [at EXCEPT ![w] = "order"] /\ held' = [held EXCEPT ![w] = q]
             \/ q \in Refusals /\ at' = [at EXCEPT ![w] = "cleanup"] /\ held' = [held EXCEPT ![w] = q]
    BY <1>2 DEF Poll, WorkerGoes
  <2>3. /\ held[w] = None /\ at \in [Workers -> {"poll", "order", "cleanup"}]
        /\ held \in [Workers -> Results \cup {None}]
    BY <2>2 DEF PlacesInv, KindsOK, PipelineTypeOK
  <2>4. Ordered
    BY <1>i, <1>s, <1>r, <2>1, <2>2, <2>3 DEF OnOrderPath, dbVars
  <2>5. Settled
    BY <1>i, <1>s, <1>r, <2>1, <2>2, <2>3 DEF OnCleanupPath, Holding, cleanupVars
  <2> QED BY <2>4, <2>5
<1>3. ASSUME NEW w \in Workers, SendOrder(w) PROVE Ordered /\ Settled
  <2>1. /\ at[w] = "order" /\ at' = [at EXCEPT ![w] = "cleanup"]
        /\ orderChan' = orderChan \cup {held[w]}
        /\ UNCHANGED <<answered, rq, held, dbBatch, inserts, cleanupVars>>
        /\ at \in [Workers -> {"poll", "order", "cleanup"}]
    BY <1>3 DEF SendOrder, WorkerGoes, PlacesInv, PipelineTypeOK
  <2>2. Ordered
    BY <1>i, <2>1 DEF OnOrderPath
  <2>3. Settled
    BY <1>i, <2>1 DEF OnCleanupPath, Holding, cleanupVars
  <2> QED BY <2>2, <2>3
<1>4. ASSUME NEW w \in Workers, SendTask(w) PROVE Ordered /\ Settled
  <2>1. /\ at[w] = "cleanup" /\ at' = [at EXCEPT ![w] = "poll"]
        /\ held' = [held EXCEPT ![w] = None]
        /\ cleanupChan' = cleanupChan \cup {held[w]}
        /\ UNCHANGED <<answered, rq, dbVars, cleanupBatch, rolling, deadLetter, reverts>>
        /\ at \in [Workers -> {"poll", "order", "cleanup"}]
        /\ held \in [Workers -> Results \cup {None}]
    BY <1>4 DEF SendTask, WorkerGoes, PlacesInv, PipelineTypeOK
  <2>2. Ordered
    BY <1>i, <2>1 DEF OnOrderPath, dbVars
  <2>3. Settled
    BY <1>i, <1>r, <2>1 DEF OnCleanupPath, Holding
  <2> QED BY <2>2, <2>3
<1>5. ASSUME DbReceive PROVE Ordered /\ Settled
  <2>1. /\ orderChan' \cup dbBatch' = orderChan \cup dbBatch
        /\ UNCHANGED <<answered, rq, workerVars, inserts, cleanupVars>>
    BY <1>5 DEF DbReceive
  <2>2. Ordered
    BY <1>i, <2>1 DEF OnOrderPath, workerVars
  <2>3. Settled
    BY <1>i, <2>1 DEF OnCleanupPath, Holding, workerVars, cleanupVars
  <2> QED BY <2>2, <2>3
<1>6. ASSUME DbFlush PROVE Ordered /\ Settled
  <2>1. /\ UNCHANGED <<answered, rq, workerVars, orderChan, cleanupVars>>
        /\ inserts' = Counted(inserts, dbBatch)
    BY <1>6 DEF DbFlush
  <2>2. inserts'[r] = IF r \in dbBatch THEN 1 ELSE inserts[r]
    BY <1>r, <2>1 DEF Counted, PlacesInv, OnceOK
  <2>3. Ordered
    BY <1>i, <2>1, <2>2 DEF OnOrderPath, workerVars
  <2>4. Settled
    BY <1>i, <2>1 DEF OnCleanupPath, Holding, workerVars, cleanupVars
  <2> QED BY <2>3, <2>4
<1>7. ASSUME CleanupReceive PROVE Ordered /\ Settled
  <2>1. /\ cleanupChan' \cup cleanupBatch' = cleanupChan \cup cleanupBatch
        /\ UNCHANGED <<answered, rq, workerVars, dbVars, rolling, deadLetter, reverts>>
    BY <1>7 DEF CleanupReceive
  <2>2. Ordered
    BY <1>i, <2>1 DEF OnOrderPath, workerVars, dbVars
  <2>3. Settled
    BY <1>i, <2>1 DEF OnCleanupPath, Holding, workerVars
  <2> QED BY <2>2, <2>3
<1>8. ASSUME CleanupFlush PROVE Ordered /\ Settled
  <2>1. /\ rolling' = rolling \cup (cleanupBatch \cap Refusals)
        /\ UNCHANGED <<answered, rq, workerVars, dbVars, cleanupChan, deadLetter, reverts>>
    BY <1>8 DEF CleanupFlush
  <2>2. Ordered
    BY <1>i, <2>1 DEF OnOrderPath, workerVars, dbVars
  <2>3. Settled
    BY <1>i, <2>1 DEF OnCleanupPath, Holding, workerVars
  <2> QED BY <2>2, <2>3
<1>9. ASSUME NEW q \in Results, Rollback(q) PROVE Ordered /\ Settled
  <2>1. /\ q \in rolling /\ rolling' = rolling \ {q}
        /\ UNCHANGED <<answered, rq, workerVars, dbVars, cleanupChan, cleanupBatch>>
    BY <1>9 DEF Rollback
  <2>2. \/ reverts'[r] = (IF r = q THEN 1 ELSE reverts[r]) /\ UNCHANGED deadLetter
        \/ deadLetter' = deadLetter \cup {q} /\ UNCHANGED reverts
    BY <1>9, <1>r DEF Rollback, Counted, PlacesInv, OnceOK
  <2>3. Ordered
    BY <1>i, <2>1 DEF OnOrderPath, workerVars, dbVars
  <2>4. Settled
    BY <1>i, <2>1, <2>2 DEF OnCleanupPath, Holding, workerVars
  <2> QED BY <2>3, <2>4
<1>10. ~Exit
  BY DEF Exit
<1>11. CASE UNCHANGED vars
  BY <1>11, <1>i DEF vars, workerVars, dbVars, cleanupVars, OnOrderPath, OnCleanupPath, Holding
<1> QED BY <1>1, <1>2, <1>3, <1>4, <1>5, <1>6, <1>7, <1>8, <1>9, <1>10, <1>11
        DEF Next, ResultWorker, DbWorker, CleanupWorker

(* Every answer of the engine that has left the running process was        *)
(* inserted, reverted or written to the dead letters.                      *)
THEOREM NoAnswerVanishes == Spec => []NothingVanishes
<1>1. Init => NothingVanishes
  BY DEF Init, NothingVanishes
<1> QED BY <1>1, PlacesCorrect, NothingVanishesStep, PTL DEF Spec

-----------------------------------------------------------------------------
(* The refinement.                                                         *)

LEMMA DeliveryStep ==
  PlacesInv /\ [Next]_vars => [Promise!Insert \/ Promise!Acknowledge \/ Promise!Revert]_(Promise!deliveryVars)
<1> SUFFICES ASSUME PlacesInv, [Next]_vars
             PROVE  Promise!Insert \/ Promise!Acknowledge \/ Promise!Revert \/ UNCHANGED Promise!deliveryVars
  OBVIOUS
<1> USE PipelineAssumption
<1>s. Sales \subseteq Results /\ Refusals \subseteq Results /\ Sales \cap Refusals = {}
  BY DEF Sales, Sold, Refusals
<1>1. ASSUME DbFlush PROVE Promise!Insert
  <2>1. dbBatch \in SUBSET Sales /\ \A r \in dbBatch : inserts[r] = 0
    BY DEF PlacesInv, KindsOK, OnceOK
  <2>2. \A r \in Results : inserts'[r] = IF r \in dbBatch THEN 1 ELSE inserts[r]
    BY <1>1, <2>1 DEF DbFlush, Counted
  <2>3. UNCHANGED <<acks, reverts>>
    BY <1>1 DEF DbFlush, cleanupVars
  <2> QED BY <1>s, <2>1, <2>2, <2>3 DEF Promise!Insert, Promise!Once
<1>2. ASSUME CleanupFlush PROVE Promise!Acknowledge
  <2>1. PICK failed : acks' = Counted(acks, {r \in cleanupBatch \cap Sales : SkuOf[r] \notin failed})
    BY <1>2 DEF CleanupFlush
  <2> DEFINE S == {r \in cleanupBatch \cap Sales : SkuOf[r] \notin failed}
  <2>2. S \in SUBSET Sales /\ \A r \in S : acks[r] = 0
    BY DEF PlacesInv, OnceOK
  <2>3. \A r \in Results : acks'[r] = IF r \in S THEN 1 ELSE acks[r]
    BY <2>1, <2>2 DEF Counted
  <2>4. UNCHANGED <<inserts, reverts>>
    BY <1>2 DEF CleanupFlush, dbVars
  <2> HIDE DEF S
  <2> QED BY <1>s, <2>2, <2>3, <2>4 DEF Promise!Acknowledge, Promise!Once
<1>3. ASSUME NEW r \in Results, Rollback(r) PROVE Promise!Revert \/ UNCHANGED Promise!deliveryVars
  <2>1. r \in Refusals /\ reverts[r] = 0 /\ UNCHANGED <<inserts, acks>>
    BY <1>3 DEF Rollback, PlacesInv, KindsOK, OnceOK, dbVars
  <2>2. CASE UNCHANGED reverts
    BY <2>1, <2>2 DEF Promise!deliveryVars
  <2>3. CASE reverts' = Counted(reverts, {r})
    <3>1. \A q \in Results : reverts'[q] = IF q \in {r} THEN 1 ELSE reverts[q]
      BY <2>1, <2>3 DEF Counted
    <3> QED BY <1>s, <2>1, <3>1 DEF Promise!Revert, Promise!Once
  <2> QED BY <1>3, <2>2, <2>3 DEF Rollback
<1>4. CASE UNCHANGED <<inserts, acks, reverts>>
  BY <1>4 DEF Promise!deliveryVars
<1> QED BY <1>1, <1>2, <1>3, <1>4
        DEF Next, ResultWorker, DbWorker, CleanupWorker, EngineAnswers, Poll, SendOrder, SendTask,
            DbReceive, CleanupReceive, Exit, vars, dbVars, cleanupVars

(* Workers, channels and batches deliver what Delivery promises: at most   *)
(* one INSERT and one acknowledgement per sale, one rollback per refusal.  *)
THEOREM PipelineDelivers == Spec => ImplementsDelivery
<1>1. Init => Promise!DeliveryInit
  BY DEF Init, Promise!DeliveryInit, Promise!NotYet, Sales, Sold, Refusals
<1> QED BY <1>1, PlacesCorrect, DeliveryStep, PTL DEF Spec, ImplementsDelivery, Promise!DeliverySpec
=============================================================================
