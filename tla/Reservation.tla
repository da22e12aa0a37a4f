---------------------------- MODULE Reservation ----------------------------
(***************************************************************************)
(* The life of a reservation across the Go backend: EnqueueHandler deducts *)
(* in Redis and hands the purchase to the engine, the engine's answer goes *)
(* to the database and to the Redis cleanup, and the sweeper of every node *)
(* settles what was left pending.  The engine is a black box here (see     *)
(* Engine).  A "call" is one HTTP request; two calls may carry the same    *)
(* purchase (a client retry) or the same user.                             *)
(***************************************************************************)
EXTENDS Redis, FiniteSetsExt

CONSTANTS
  Calls,       \* HTTP requests to EnqueueHandler
  PurchaseOf,  \* the purchase each call asks for
  Nodes,       \* backend processes; each runs one sweeper
  Reserved,    \* ids the engine keeps for itself: 0, UINT64_MAX, above 18e18
  MaxRetries,  \* attempts RollbackInventory makes (3)
  Faults,      \* what may go wrong: a subset of FaultKinds
  None         \* no purchase

(* "redis": a command or its reply is lost.  "db": a statement fails.      *)
(* "slow": a live call takes more than 30 s.  "crash": the process serving *)
(* a call dies.                                                            *)
FaultKinds == {"redis", "db", "slow", "crash"}

ASSUME ReservationAssumption ==
  /\ PurchaseOf \in [Calls -> Purchases]
  /\ Reserved \subseteq Ids
  /\ MaxRetries \in Nat \ {0}
  /\ Faults \subseteq FaultKinds
  /\ None \notin Purchases

VARIABLES
  holder,    \* history: the purchase whose deduction put the user in bought
  pc,        \* progress of each call
  toCommit,  \* calls whose order waits in orderChan or in the DB batch
  toAck,     \* calls whose status-1 task waits in cleanupChan or its batch
  rolling,   \* the purchase each goroutine that is in RollbackInventory reverts
  attempts,  \* failed attempts of that RollbackInventory, or of a handler's deduction
  orders,    \* rows of the orders table
  todo,      \* stale members a sweeper fetched and has not looked at
  acking,    \* the member a sweeper found in the orders table
  sold       \* history: purchases the engine answered with status 1

goVars == <<pc, toCommit, toAck, rolling, attempts, orders, todo, acking, sold>>
vars == <<redisVars, holder, goVars>>

(* The goroutines that call RollbackInventory.                             *)
Rollers == ({"handler", "cleanup"} \X Calls) \cup ({"sweeper"} \X Nodes)

Progress == {"start", "deducted", "registered", "accepted", "answered",
             "rejected", "refused", "failed", "dead"}

ReservationTypeOK ==
  /\ RedisTypeOK
  /\ holder \in [Skus \X Users -> Purchases \cup {None}]
  /\ pc \in [Calls -> Progress]
  /\ toCommit \subseteq Calls /\ toAck \subseteq Calls
  /\ rolling \in [Rollers -> Purchases \cup {None}]
  /\ attempts \in [Rollers -> 0 .. MaxRetries - 1]
  /\ orders \subseteq Purchases /\ sold \subseteq Purchases
  /\ todo \in [Nodes -> SUBSET Purchases]
  /\ acking \in [Nodes -> Purchases \cup {None}]

Init ==
  /\ RedisInit
  /\ holder = [x \in Skus \X Users |-> None]
  /\ pc = [c \in Calls |-> "start"]
  /\ toCommit = {} /\ toAck = {}
  /\ rolling = [w \in Rollers |-> None]
  /\ attempts = [w \in Rollers |-> 0]
  /\ orders = {} /\ sold = {}
  /\ todo = [n \in Nodes |-> {}]
  /\ acking = [n \in Nodes |-> None]

-----------------------------------------------------------------------------
(* The two Redis scripts, with the history of who holds what.              *)

RunDeduct(p) ==
  /\ Deduct(p)
  /\ holder' = IF DeductStatus(p) = 1
               THEN [holder EXCEPT ![<<p.sku, p.user>>] = p] ELSE holder

RunRollback(p) ==
  /\ Rollback(p)
  /\ holder' = [holder EXCEPT ![<<p.sku, p.user>>] = None]

At(c, here, there) == pc[c] = here /\ pc' = [pc EXCEPT ![c] = there]

StartRollback(w, p) ==
  /\ rolling' = [rolling EXCEPT ![w] = p]
  /\ attempts' = [attempts EXCEPT ![w] = 0]

-----------------------------------------------------------------------------
(* EnqueueHandler.                                                         *)

(* Mutant: the handler also rolls back what the script refused. *)
HandlerDeduct_RollsBackRefused(c) ==
  /\ At(c, "start", IF DeductStatus(PurchaseOf[c]) = 1 THEN "deducted" ELSE "refused")
  /\ RunDeduct(PurchaseOf[c])
  /\ IF DeductStatus(PurchaseOf[c]) = 1 THEN UNCHANGED <<rolling, attempts>>
     ELSE StartRollback(<<"handler", c>>, PurchaseOf[c])
  /\ UNCHANGED <<toCommit, toAck, orders, todo, acking, sold>>

HandlerDeduct(c) ==
  /\ At(c, "start", IF DeductStatus(PurchaseOf[c]) = 1 THEN "deducted" ELSE "refused")
  /\ RunDeduct(PurchaseOf[c])
  /\ UNCHANGED <<toCommit, toAck, rolling, attempts, orders, todo, acking, sold>>

(* The script ran and its reply was lost: the Redis client sends it again, *)
(* at most MaxRetries times in all, or the handler answers 500.            *)
HandlerDeductLost(c) ==
  /\ "redis" \in Faults
  /\ \/ /\ At(c, "start", "start")
        /\ attempts[<<"handler", c>>] < MaxRetries - 1
        /\ attempts' = [attempts EXCEPT ![<<"handler", c>>] = @ + 1]
     \/ At(c, "start", "failed") /\ UNCHANGED attempts
  /\ RunDeduct(PurchaseOf[c])
  /\ UNCHANGED <<toCommit, toAck, rolling, orders, todo, acking, sold>>

(* The script never ran, or the circuit breaker is open.                   *)
HandlerUnreachable(c) ==
  /\ "redis" \in Faults
  /\ At(c, "start", "failed")
  /\ UNCHANGED <<redisVars, holder, toCommit, toAck, rolling, attempts, orders,
                 todo, acking, sold>>

(* SADD seckill:skus, whose error the handler does not look at.            *)
HandlerRegister(c) ==
  /\ At(c, "deducted", "registered")
  /\ \/ RegisterSku(PurchaseOf[c].sku)
     \/ "redis" \in Faults /\ UNCHANGED redisVars
  /\ UNCHANGED <<holder, toCommit, toAck, rolling, attempts, orders, todo, acking, sold>>

(* Mutant: a queued request is rolled back as if the queue were full. *)
HandlerEnqueue_RollsBackQueued(c) ==
  /\ At(c, "registered", "accepted") \/ At(c, "registered", "rejected")
  /\ StartRollback(<<"handler", c>>, PurchaseOf[c])
  /\ UNCHANGED <<redisVars, holder, toCommit, toAck, orders, todo, acking, sold>>

(* EnqueueRequest answers 1 (queued), or 0 or 2: roll the deduction back.  *)
HandlerEnqueue(c) ==
  /\ \/ At(c, "registered", "accepted") /\ UNCHANGED <<rolling, attempts>>
     \/ /\ At(c, "registered", "rejected")
        /\ StartRollback(<<"handler", c>>, PurchaseOf[c])
  /\ UNCHANGED <<redisVars, holder, toCommit, toAck, orders, todo, acking, sold>>

-----------------------------------------------------------------------------
(* The engine, the result workers, the DB worker, the cleanup worker.      *)

(* Status 1: order to orderChan, then task to cleanupChan.                 *)
EngineSells(c) ==
  /\ PurchaseOf[c].id \notin Reserved
  /\ At(c, "accepted", "answered")
  /\ toCommit' = toCommit \cup {c}
  /\ toAck' = toAck \cup {c}
  /\ sold' = sold \cup {PurchaseOf[c]}
  /\ UNCHANGED <<redisVars, holder, rolling, attempts, orders, todo, acking>>

(* Status 2 or 0: a goroutine of the cleanup worker rolls back.            *)
EngineRefuses(c) ==
  /\ PurchaseOf[c].id \notin Reserved
  /\ At(c, "accepted", "answered")
  /\ StartRollback(<<"cleanup", c>>, PurchaseOf[c])
  /\ UNCHANGED <<redisVars, holder, toCommit, toAck, orders, todo, acking, sold>>

(* A request whose id the engine has processed, or keeps for its own use,  *)
(* leads to no order and no task.                                          *)
EngineDrops(c) ==
  /\ \/ PurchaseOf[c].id \in Reserved
     \/ \E d \in Calls \ {c} : PurchaseOf[d].id = PurchaseOf[c].id /\ pc[d] = "answered"
  /\ At(c, "accepted", "answered")
  /\ UNCHANGED <<redisVars, holder, toCommit, toAck, rolling, attempts, orders,
                 todo, acking, sold>>

(* Mutant: the orders table is searched for the wrong key. *)
HasOrder_Never(p) == \E o \in orders : o.id = p.user

HasOrder(p) == \E o \in orders : o.id = p.id

(* Mutant: the batch is cleared before it is written. *)
Commit_ClearsFirst(c) ==
  /\ c \in toCommit
  /\ toCommit' = toCommit \ {c}
  /\ UNCHANGED <<redisVars, holder, pc, toAck, rolling, attempts, orders, todo, acking, sold>>

(* INSERT ... ON CONFLICT DO NOTHING; the error of Create is not looked at.*)
Commit(c) ==
  /\ c \in toCommit
  /\ toCommit' = toCommit \ {c}
  /\ \/ orders' = IF HasOrder(PurchaseOf[c]) THEN orders ELSE orders \cup {PurchaseOf[c]}
     \/ "db" \in Faults /\ UNCHANGED orders
  /\ UNCHANGED <<redisVars, holder, pc, toAck, rolling, attempts, todo, acking, sold>>

(* ZREM of the pending member, in the cleanup pipeline; its error is only  *)
(* printed.                                                                *)
Ack(c) ==
  /\ c \in toAck
  /\ toAck' = toAck \ {c}
  /\ \/ RemovePending(PurchaseOf[c])
     \/ "redis" \in Faults /\ UNCHANGED redisVars
  /\ UNCHANGED <<holder, pc, toCommit, rolling, attempts, orders, todo, acking, sold>>

-----------------------------------------------------------------------------
(* RollbackInventory.                                                      *)

RollbackReplied(w) ==
  /\ rolling[w] # None
  /\ RunRollback(rolling[w])
  /\ rolling' = [rolling EXCEPT ![w] = None]
  /\ attempts' = [attempts EXCEPT ![w] = 0]
  /\ UNCHANGED <<pc, toCommit, toAck, orders, todo, acking, sold>>

(* The attempt fails, whether the script ran or not, and the next one      *)
(* follows; after the last the purchase goes to the dead letter list,      *)
(* which nothing reads.  A lost reply may also be hidden by the client's   *)
(* own resend, which counts no attempt.                                    *)
RollbackFailed(w) ==
  /\ "redis" \in Faults
  /\ rolling[w] # None
  /\ RunRollback(rolling[w]) \/ UNCHANGED <<redisVars, holder>>
  /\ \/ UNCHANGED <<rolling, attempts>>
     \/ /\ attempts[w] < MaxRetries - 1
        /\ attempts' = [attempts EXCEPT ![w] = @ + 1]
        /\ UNCHANGED rolling
     \/ /\ attempts[w] = MaxRetries - 1
        /\ rolling' = [rolling EXCEPT ![w] = None]
        /\ attempts' = [attempts EXCEPT ![w] = 0]
  /\ UNCHANGED <<pc, toCommit, toAck, orders, todo, acking, sold>>

-----------------------------------------------------------------------------
(* StartSweeper, one per node: fetch the stale members of one SKU, then    *)
(* deal with them one by one.                                              *)

SweeperIdle(n) == acking[n] = None /\ rolling[<<"sweeper", n>>] = None

Sweep(n, k) ==
  /\ SweeperIdle(n) /\ todo[n] = {}
  /\ k \in skus
  /\ StaleMembers(k) # {}
  /\ todo' = [todo EXCEPT ![n] = StaleMembers(k)]
  /\ UNCHANGED <<redisVars, holder, pc, toCommit, toAck, rolling, attempts, orders,
                 acking, sold>>

(* Mutant: the sweeper rolls every stale member back unseen. *)
SweepCheck_NoLookup(n) ==
  /\ SweeperIdle(n)
  /\ \E p \in todo[n] :
       /\ todo' = [todo EXCEPT ![n] = @ \ {p}]
       /\ StartRollback(<<"sweeper", n>>, p)
  /\ UNCHANGED <<redisVars, holder, pc, toCommit, toAck, orders, acking, sold>>

(* Mutant: a failed query counts as an order found. *)
SweepCheck_ErrorMeansSold(n) ==
  /\ SweeperIdle(n)
  /\ \E p \in todo[n] :
       /\ todo' = [todo EXCEPT ![n] = @ \ {p}]
       /\ IF HasOrder(p) \/ "db" \in Faults
          THEN acking' = [acking EXCEPT ![n] = p] /\ UNCHANGED <<rolling, attempts>>
          ELSE StartRollback(<<"sweeper", n>>, p) /\ UNCHANGED acking
  /\ UNCHANGED <<redisVars, holder, pc, toCommit, toAck, orders, sold>>

(* Look the request id up in the orders table: ZREM is next if it is       *)
(* there, RollbackInventory if it is not; a failed query skips the member. *)
SweepCheck(n) ==
  /\ SweeperIdle(n)
  /\ \E p \in todo[n] :
       /\ todo' = [todo EXCEPT ![n] = @ \ {p}]
       /\ \/ /\ HasOrder(p)
             /\ acking' = [acking EXCEPT ![n] = p]
             /\ UNCHANGED <<rolling, attempts>>
          \/ /\ ~HasOrder(p)
             /\ StartRollback(<<"sweeper", n>>, p)
             /\ UNCHANGED acking
          \/ "db" \in Faults /\ UNCHANGED <<rolling, attempts, acking>>
  /\ UNCHANGED <<redisVars, holder, pc, toCommit, toAck, orders, sold>>

SweepAck(n) ==
  /\ acking[n] # None
  /\ \/ RemovePending(acking[n])
     \/ "redis" \in Faults /\ UNCHANGED redisVars
  /\ acking' = [acking EXCEPT ![n] = None]
  /\ UNCHANGED <<holder, pc, toCommit, toAck, rolling, attempts, orders, todo, sold>>

-----------------------------------------------------------------------------
(* Time and crashes.                                                       *)

(* Some live goroutine is still at work on p.                              *)
InFlight(p) ==
  \/ \E w \in Rollers : rolling[w] = p
  \/ \E c \in Calls : PurchaseOf[c] = p /\
       (pc[c] \in {"deducted", "registered", "accepted"} \/ c \in toCommit \cup toAck)

(* A member turns stale 30 s after its deduction.  Without the "slow"      *)
(* fault whatever is alive is done by then.                                *)
TimePasses(p) ==
  /\ "slow" \in Faults \/ ~InFlight(p)
  /\ GrowStale(p)
  /\ UNCHANGED <<holder, goVars>>

(* The process that serves call c dies: its handler, its place in the      *)
(* queues and channels and its rollbacks are gone.                         *)
Crash(c) ==
  /\ "crash" \in Faults
  /\ pc[c] \notin {"refused", "failed", "dead"}
  /\ pc' = [pc EXCEPT ![c] = "dead"]
  /\ toCommit' = toCommit \ {c}
  /\ toAck' = toAck \ {c}
  /\ rolling' = [w \in Rollers |-> IF w \in {"handler", "cleanup"} \X {c} THEN None ELSE rolling[w]]
  /\ attempts' = [w \in Rollers |-> IF w \in {"handler", "cleanup"} \X {c} THEN 0 ELSE attempts[w]]
  /\ UNCHANGED <<redisVars, holder, orders, todo, acking, sold>>

-----------------------------------------------------------------------------

Handler(c) == HandlerDeduct(c) \/ HandlerRegister(c) \/ HandlerEnqueue(c)
Engine(c) == EngineSells(c) \/ EngineRefuses(c) \/ EngineDrops(c)
Sweeper(n) == SweepCheck(n) \/ SweepAck(n)

Next ==
  \/ \E c \in Calls : \/ Handler(c) \/ HandlerDeductLost(c) \/ HandlerUnreachable(c)
                      \/ Engine(c) \/ Commit(c) \/ Ack(c) \/ Crash(c)
  \/ \E w \in Rollers : RollbackReplied(w) \/ RollbackFailed(w)
  \/ \E n \in Nodes : Sweeper(n) \/ \E k \in Skus : Sweep(n, k)
  \/ \E p \in Purchases : TimePasses(p)

Spec == Init /\ [][Next]_vars

(* Goroutines are scheduled, tickers tick, and the sweeper visits the SKUs *)
(* in turn, so that none is passed over for ever.                          *)
Fairness ==
  /\ \A c \in Calls : WF_vars(Handler(c)) /\ WF_vars(Engine(c)) /\ WF_vars(Commit(c)) /\ WF_vars(Ack(c))
  /\ \A w \in Rollers : WF_vars(RollbackReplied(w))
  /\ \A n \in Nodes : WF_vars(Sweeper(n)) /\ \A k \in Skus : SF_vars(Sweep(n, k))
  /\ \A p \in Purchases : WF_vars(TimePasses(p))

FairSpec == Spec /\ Fairness
-----------------------------------------------------------------------------
(* Request ids are not reused.                                             *)
UniqueIds == \A p, q \in Purchases : p.id = q.id => p = q

(* Whoever is in a bought set is there for a purchase that is still in the *)
(* pending set, where the sweeper finds it, or that the engine has sold:   *)
(* lost replies, crashes, dead letters and racing sweepers never leave a   *)
(* reservation that nobody will look at.  (ZADD and SADD are one script;   *)
(* ZREM only follows a status-1 answer, an order, or the SREM.)            *)
NoForgottenReservation ==
  \A k \in Skus, u \in Users : u \in bought[k] =>
    \E p \in Purchases : /\ p.sku = k /\ p.user = u
                         /\ pending[p] # "absent" \/ p \in sold

(* The rollback script only takes back the deduction it is meant for:      *)
(* whatever RollbackInventory(p) gives back to the shelf was taken by p.   *)
(* (redis.go: "strict pair: only rollback if user was in set".)            *)
RollbackPairsWithDeduct ==
  [][\A k \in Skus, u \in Users :
       u \in bought[k] /\ u \notin bought'[k] =>
         \E w \in Rollers : rolling[w] = holder[<<k, u>>]]_vars

(* The reservation of a stored order is never given back: its buyer stays  *)
(* in the bought set.                                                      *)
OrdersStayReserved ==
  \A o \in orders : holder[<<o.sku, o.user>>] = o /\ o.user \in bought[o.sku]

(* What is on the Redis shelf plus what the orders table has sold never    *)
(* exceeds the stock of the sale, whatever the quantities.                 *)
NoOversell ==
  \A k \in Skus : InitialStock[k] # NoKey =>
    stock[k] + MapThenSumSet(LAMBDA o : o.qty, {o \in orders : o.sku = k})
      <= InitialStock[k]

(* The sweeper acknowledges a member only if that purchase was sold: what  *)
(* it finds in the orders table is the order of the member.                *)
SweeperAcksOnlySold == \A n \in Nodes : acking[n] \in sold \cup {None}

(* The reservations of the abstract sale: deducted and not an order yet.   *)
Held == {holder[x] : x \in Skus \X Users} \ (orders \cup {None})

(* A missing stock key sells as little as an empty one.                    *)
OnShelf(s) == [k \in Skus |-> IF s[k] = NoKey THEN 0 ELSE s[k]]

Promise == INSTANCE Sale WITH shelf <- OnShelf(stock), held <- Held, sold <- orders,
                              InitialStock <- OnShelf(InitialStock)

(* All of this together is a sale as Sale defines it.                      *)
ImplementsSale == Promise!SaleSpec

(* The sweeper's work is done some day: no stale member stays.             *)
StaleIsCleared ==
  \A p \in Purchases : pending[p] = "stale" ~> pending[p] = "absent"

(* Every reservation ends as an order or goes back to the shelf.           *)
ReservationSettles ==
  \A k \in Skus, u \in Users :
    u \in bought[k] ~> u \notin bought[k] \/ \E o \in orders : o.sku = k /\ o.user = u

=============================================================================
