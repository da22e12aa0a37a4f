------------------------- MODULE ReservationProofs -------------------------
(***************************************************************************)
(* Proofs about the Redis scripts, the life of a reservation and the       *)
(* breaker in front of Redis, for every set of SKUs, users, calls, nodes,  *)
(* purchases and faults, any stock, and any number of callers of the       *)
(* breaker, any threshold and any duration.                                *)
(***************************************************************************)
EXTENDS Reservation, CircuitBreaker, Sums

-----------------------------------------------------------------------------
(* The Redis scripts, whoever runs them.                                   *)

(* One script keeps the shape of the keys.  That the stock stays a natural *)
(* number is the deduct script's test of the quantity.                     *)
LEMMA RedisTypeStep == RedisTypeOK /\ [RedisNext]_redisVars => RedisTypeOK'
<1> SUFFICES ASSUME RedisTypeOK, [RedisNext]_redisVars
             PROVE  RedisTypeOK'
  OBVIOUS
<1> USE RedisAssumption DEF RedisTypeOK, Ages
<1>1. ASSUME NEW p \in Purchases, Deduct(p) PROVE RedisTypeOK'
  <2>1. p.sku \in Skus /\ p.user \in Users /\ p.qty \in Nat \ {0}
    OBVIOUS
  <2>2. CASE DeductStatus(p) = 1
    <3>1. stock[p.sku] \in Nat /\ p.qty <= stock[p.sku]
      BY <2>1, <2>2 DEF DeductStatus
    <3>2. stock[p.sku] - p.qty \in Nat
      BY <2>1, <3>1
    <3> QED BY <1>1, <2>1, <2>2, <3>2 DEF Deduct
  <2>3. CASE DeductStatus(p) # 1
    BY <1>1, <2>3 DEF Deduct, redisVars
  <2> QED BY <2>2, <2>3
<1>2. ASSUME NEW p \in Purchases, Rollback(p) PROVE RedisTypeOK'
  <2>1. p.sku \in Skus /\ p.user \in Users /\ p.qty \in Nat \ {0}
    OBVIOUS
  <2>2. Incremented(stock[p.sku], p.qty) \in Nat
    BY <2>1 DEF Incremented
  <2> QED BY <1>2, <2>1, <2>2 DEF Rollback, redisVars
<1>3. ASSUME NEW p \in Purchases, RemovePending(p) \/ GrowStale(p) PROVE RedisTypeOK'
  BY <1>3 DEF RemovePending, GrowStale
<1>4. ASSUME NEW k \in Skus, RegisterSku(k) PROVE RedisTypeOK'
  BY <1>4 DEF RegisterSku
<1>5. CASE UNCHANGED redisVars
  BY <1>5 DEF redisVars
<1> QED BY <1>1, <1>2, <1>3, <1>4, <1>5 DEF RedisNext

(* The keys keep their shape; no stock is ever negative.                   *)
THEOREM RedisTypeCorrect == RedisSpec => []RedisTypeOK
<1>1. RedisInit => RedisTypeOK
  BY RedisAssumption DEF RedisInit, RedisTypeOK, Ages
<1> QED BY <1>1, RedisTypeStep, PTL DEF RedisSpec

-----------------------------------------------------------------------------

(* Cardinalities only add up for finite sets, so finiteness of the bought  *)
(* sets is carried along, and that a stocked SKU keeps its key.            *)
ConservedInv ==
  /\ RedisTypeOK
  /\ \A k \in Skus : IsFiniteSet(bought[k])
  /\ \A k \in Skus : InitialStock[k] # NoKey => stock[k] # NoKey
  /\ StockConserved

(* Whatever sequence of scripts the clients run, repeated and out of order *)
(* as lost replies make it, the items missing from the shelf are as many   *)
(* as the users in the bought set.  Everything rests on one script doing   *)
(* the membership test and both updates.                                   *)
THEOREM StockIsConserved == RedisSpec => []StockConserved
<1>1. RedisInit => ConservedInv
  <2> SUFFICES ASSUME RedisInit PROVE ConservedInv
    OBVIOUS
  <2>1. RedisTypeOK
    BY RedisAssumption DEF RedisInit, RedisTypeOK, Ages
  <2>2. \A k \in Skus : bought[k] = {}
    BY DEF RedisInit
  <2>3. IsFiniteSet({}) /\ Cardinality({}) = 0
    BY FS_EmptySet
  <2>4. \A k \in Skus : InitialStock[k] # NoKey => InitialStock[k] \in Nat
    BY RedisAssumption
  <2>5. StockConserved
    BY <2>2, <2>3, <2>4 DEF RedisInit, StockConserved
  <2> QED BY <2>1, <2>2, <2>3, <2>5 DEF ConservedInv, RedisInit
<1>2. ConservedInv /\ RedisTypeOK' /\ [RedisNext]_redisVars => ConservedInv'
  <2> SUFFICES ASSUME ConservedInv, RedisTypeOK', [RedisNext]_redisVars
               PROVE  ConservedInv'
    OBVIOUS
  <2> USE RedisAssumption
  <2>0. ASSUME UNCHANGED <<stock, bought>> PROVE ConservedInv'
    BY <2>0 DEF ConservedInv, StockConserved
  <2>1. ASSUME NEW p \in Purchases, DeductStatus(p) = 1, Deduct(p) PROVE ConservedInv'
    <3>1. p.sku \in Skus /\ p.qty \in Nat
      OBVIOUS
    <3>2. /\ p.user \notin bought[p.sku]
          /\ stock[p.sku] \in Nat
      BY <2>1, <3>1 DEF DeductStatus, ConservedInv, RedisTypeOK
    <3>3. /\ bought' = [bought EXCEPT ![p.sku] = @ \cup {p.user}]
          /\ stock' = [stock EXCEPT ![p.sku] = @ - p.qty]
      BY <2>1 DEF Deduct
    <3>4. /\ IsFiniteSet(bought[p.sku] \cup {p.user})
          /\ Cardinality(bought[p.sku] \cup {p.user}) = Cardinality(bought[p.sku]) + 1
      BY <3>1, <3>2, FS_AddElement DEF ConservedInv
    <3>5. Cardinality(bought[p.sku]) \in Nat
      BY <3>1, FS_CardinalityType DEF ConservedInv
    <3>6. /\ bought'[p.sku] = bought[p.sku] \cup {p.user}
          /\ stock'[p.sku] = stock[p.sku] - p.qty
          /\ \A k \in Skus \ {p.sku} : bought'[k] = bought[k] /\ stock'[k] = stock[k]
      BY <3>1, <3>3 DEF ConservedInv, RedisTypeOK
    <3>7. \A k \in Skus : IsFiniteSet(bought'[k])
      BY <3>4, <3>6 DEF ConservedInv
    <3>8. ASSUME UnitQuantities, NEW k \in Skus, InitialStock[k] # NoKey
          PROVE  stock'[k] + Cardinality(bought'[k]) = InitialStock[k]
      <4>1. CASE k = p.sku
        <5>1. stock[k] + Cardinality(bought[k]) = InitialStock[k]
          BY <3>8 DEF ConservedInv, StockConserved
        <5>2. p.qty = 1
          BY <3>8 DEF UnitQuantities
        <5>3. stock'[k] = stock[k] - 1 /\ Cardinality(bought'[k]) = Cardinality(bought[k]) + 1
          BY <3>4, <3>6, <4>1, <5>2
        <5> QED BY <3>2, <3>5, <4>1, <5>1, <5>3
      <4>2. CASE k # p.sku
        BY <3>6, <3>8, <4>2 DEF ConservedInv, StockConserved
      <4> QED BY <4>1, <4>2
    <3>9. \A k \in Skus : InitialStock[k] # NoKey => stock'[k] # NoKey
      BY <3>1, <3>2, <3>6 DEF ConservedInv
    <3> QED BY <3>7, <3>8, <3>9 DEF ConservedInv, StockConserved, UnitQuantities
  <2>2. ASSUME NEW p \in Purchases, p.user \in bought[p.sku], Rollback(p) PROVE ConservedInv'
    <3>1. p.sku \in Skus /\ p.qty \in Nat
      OBVIOUS
    <3>3. /\ bought' = [bought EXCEPT ![p.sku] = @ \ {p.user}]
          /\ stock' = [stock EXCEPT ![p.sku] = Incremented(@, p.qty)]
      BY <2>2 DEF Rollback
    <3>4. /\ IsFiniteSet(bought[p.sku] \ {p.user})
          /\ Cardinality(bought[p.sku] \ {p.user}) = Cardinality(bought[p.sku]) - 1
      BY <2>2, <3>1, FS_RemoveElement DEF ConservedInv
    <3>5. Cardinality(bought[p.sku]) \in Nat
      BY <3>1, FS_CardinalityType DEF ConservedInv
    <3>6. /\ bought'[p.sku] = bought[p.sku] \ {p.user}
          /\ stock'[p.sku] = Incremented(stock[p.sku], p.qty)
          /\ \A k \in Skus \ {p.sku} : bought'[k] = bought[k] /\ stock'[k] = stock[k]
      BY <3>1, <3>3 DEF ConservedInv, RedisTypeOK
    <3>7. \A k \in Skus : IsFiniteSet(bought'[k])
      BY <3>4, <3>6 DEF ConservedInv
    <3>8. ASSUME UnitQuantities, NEW k \in Skus, InitialStock[k] # NoKey
          PROVE  stock'[k] + Cardinality(bought'[k]) = InitialStock[k]
      <4>1. CASE k = p.sku
        <5>1. stock[k] + Cardinality(bought[k]) = InitialStock[k]
          BY <3>8 DEF ConservedInv, StockConserved
        <5>2. p.qty = 1
          BY <3>8 DEF UnitQuantities
        <5>3. stock[k] \in Nat /\ stock[k] # NoKey
          BY <3>8 DEF ConservedInv, RedisTypeOK
        <5>4. stock'[k] = stock[k] + 1 /\ Cardinality(bought'[k]) = Cardinality(bought[k]) - 1
          BY <3>4, <3>6, <4>1, <5>2, <5>3 DEF Incremented
        <5> QED BY <3>5, <4>1, <5>1, <5>3, <5>4
      <4>2. CASE k # p.sku
        BY <3>6, <3>8, <4>2 DEF ConservedInv, StockConserved
      <4> QED BY <4>1, <4>2
    <3>9. \A k \in Skus : InitialStock[k] # NoKey => stock'[k] # NoKey
      <4>1. Incremented(stock[p.sku], p.qty) \in Nat
        BY <3>1 DEF Incremented, ConservedInv, RedisTypeOK
      <4> QED BY <3>1, <3>6, <4>1 DEF ConservedInv
    <3> QED BY <3>7, <3>8, <3>9 DEF ConservedInv, StockConserved, UnitQuantities
  <2>3. ASSUME NEW p \in Purchases, RemovePending(p) \/ GrowStale(p) PROVE ConservedInv'
    BY <2>0, <2>3 DEF RemovePending, GrowStale
  <2>4. ASSUME NEW k \in Skus, RegisterSku(k) PROVE ConservedInv'
    BY <2>0, <2>4 DEF RegisterSku
  <2>5. CASE UNCHANGED redisVars
    BY <2>0, <2>5 DEF redisVars
  <2>6. ASSUME NEW p \in Purchases, Deduct(p) PROVE ConservedInv'
    BY <2>1, <2>5, <2>6 DEF Deduct
  <2>7. ASSUME NEW p \in Purchases, Rollback(p) PROVE ConservedInv'
    BY <2>2, <2>5, <2>7 DEF Rollback
  <2> QED BY <2>3, <2>4, <2>5, <2>6, <2>7 DEF RedisNext
<1>3. ConservedInv => StockConserved
  BY DEF ConservedInv
<1> QED BY <1>1, <1>2, <1>3, RedisTypeCorrect, PTL DEF RedisSpec

-----------------------------------------------------------------------------
(* The backend.                                                            *)

(* Every step of the backend is one Redis command or leaves Redis alone.   *)
LEMMA StepIsRedisStep == ReservationTypeOK /\ [Next]_vars => [RedisNext]_redisVars
<1> SUFFICES ASSUME ReservationTypeOK, [Next]_vars
             PROVE  [RedisNext]_redisVars
  OBVIOUS
<1> USE ReservationAssumption
<1>1. ASSUME NEW c \in Calls,
             Handler(c) \/ HandlerDeductLost(c) \/ HandlerUnreachable(c)
      PROVE  [RedisNext]_redisVars
  <2>1. PurchaseOf[c] \in Purchases /\ PurchaseOf[c].sku \in Skus
    BY RedisAssumption
  <2> QED BY <1>1, <2>1 DEF Handler, HandlerDeduct, HandlerRegister, HandlerEnqueue,
               HandlerDeductLost, HandlerUnreachable, RunDeduct, RedisNext
<1>2. ASSUME NEW c \in Calls, Engine(c) \/ Commit(c) \/ Ack(c) \/ Crash(c)
      PROVE  [RedisNext]_redisVars
  <2>1. PurchaseOf[c] \in Purchases
    OBVIOUS
  <2> QED BY <1>2, <2>1 DEF Engine, EngineSells, EngineRefuses, EngineDrops, Commit, Ack,
               Crash, RedisNext
<1>3. ASSUME NEW w \in Rollers, RollbackReplied(w) \/ RollbackFailed(w)
      PROVE  [RedisNext]_redisVars
  <2>1. rolling[w] \in Purchases
    BY <1>3 DEF RollbackReplied, RollbackFailed, ReservationTypeOK
  <2> QED BY <1>3, <2>1 DEF RollbackReplied, RollbackFailed, RunRollback, RedisNext
<1>4. ASSUME NEW n \in Nodes, Sweeper(n) PROVE [RedisNext]_redisVars
  <2>1. acking[n] # None => acking[n] \in Purchases
    BY DEF ReservationTypeOK
  <2> QED BY <1>4, <2>1 DEF Sweeper, SweepCheck, SweepAck, RedisNext
<1>5. ASSUME NEW n \in Nodes, NEW k \in Skus, Sweep(n, k) PROVE [RedisNext]_redisVars
  BY <1>5 DEF Sweep
<1>6. ASSUME NEW p \in Purchases, TimePasses(p) PROVE [RedisNext]_redisVars
  BY <1>6 DEF TimePasses, RedisNext
<1>7. CASE UNCHANGED vars
  BY <1>7 DEF vars
<1> QED BY <1>1, <1>2, <1>3, <1>4, <1>5, <1>6, <1>7 DEF Next

(* The part of the type invariant that is not about Redis.                 *)
GoTypeOK ==
  /\ holder \in [Skus \X Users -> Purchases \cup {None}]
  /\ pc \in [Calls -> Progress]
  /\ toCommit \subseteq Calls /\ toAck \subseteq Calls
  /\ rolling \in [Rollers -> Purchases \cup {None}]
  /\ attempts \in [Rollers -> 0 .. MaxRetries - 1]
  /\ orders \subseteq Purchases /\ sold \subseteq Purchases
  /\ todo \in [Nodes -> SUBSET Purchases]
  /\ acking \in [Nodes -> Purchases \cup {None}]

LEMMA GoTypeStep == GoTypeOK /\ [Next]_vars => GoTypeOK'
<1> SUFFICES ASSUME GoTypeOK, [Next]_vars PROVE GoTypeOK'
  OBVIOUS
<1> USE ReservationAssumption DEF GoTypeOK
<1>1. 0 \in 0 .. MaxRetries - 1
  OBVIOUS
<1>2. ASSUME NEW p \in Purchases, RunDeduct(p)
      PROVE  holder' \in [Skus \X Users -> Purchases \cup {None}]
  BY <1>2 DEF RunDeduct
<1>3. ASSUME NEW p \in Purchases, RunRollback(p)
      PROVE  holder' \in [Skus \X Users -> Purchases \cup {None}]
  BY <1>3 DEF RunRollback
<1>4. ASSUME NEW w \in Rollers, NEW p \in Purchases, StartRollback(w, p)
      PROVE  /\ rolling' \in [Rollers -> Purchases \cup {None}]
             /\ attempts' \in [Rollers -> 0 .. MaxRetries - 1]
  BY <1>1, <1>4 DEF StartRollback
<1>5. ASSUME NEW c \in Calls, NEW here, NEW there \in Progress, At(c, here, there)
      PROVE  pc' \in [Calls -> Progress]
  BY <1>5 DEF At
<1>6. /\ \A c \in Calls : <<"handler", c>> \in Rollers /\ <<"cleanup", c>> \in Rollers
      /\ \A n \in Nodes : <<"sweeper", n>> \in Rollers
  BY DEF Rollers
<1>7. {"start", "deducted", "registered", "accepted", "answered", "rejected", "refused",
       "failed", "dead"} = Progress
  BY DEF Progress
<1>8. \A c \in Calls : PurchaseOf[c] \in Purchases
  OBVIOUS
<1>10. ASSUME NEW c \in Calls, HandlerDeduct(c) PROVE GoTypeOK'
  BY <1>10, <1>2, <1>5, <1>7, <1>8 DEF HandlerDeduct
<1>11. ASSUME NEW c \in Calls, HandlerDeductLost(c) PROVE GoTypeOK'
  <2>1. holder' \in [Skus \X Users -> Purchases \cup {None}]
    BY <1>2, <1>8, <1>11 DEF HandlerDeductLost
  <2>2. pc' \in [Calls -> Progress]
    BY <1>5, <1>7, <1>11 DEF HandlerDeductLost
  <2>3. attempts' \in [Rollers -> 0 .. MaxRetries - 1]
    BY <1>6, <1>11 DEF HandlerDeductLost
  <2> QED BY <1>11, <2>1, <2>2, <2>3 DEF HandlerDeductLost
<1>12. ASSUME NEW c \in Calls, HandlerUnreachable(c) PROVE GoTypeOK'
  BY <1>12, <1>5, <1>7 DEF HandlerUnreachable
<1>13. ASSUME NEW c \in Calls, HandlerRegister(c) PROVE GoTypeOK'
  BY <1>13, <1>5, <1>7 DEF HandlerRegister
<1>14. ASSUME NEW c \in Calls, HandlerEnqueue(c) PROVE GoTypeOK'
  BY <1>14, <1>4, <1>5, <1>6, <1>7, <1>8 DEF HandlerEnqueue
<1>15. ASSUME NEW c \in Calls, Engine(c) PROVE GoTypeOK'
  BY <1>15, <1>4, <1>5, <1>6, <1>7, <1>8 DEF Engine, EngineSells, EngineRefuses, EngineDrops
<1>16. ASSUME NEW c \in Calls, Commit(c) \/ Ack(c) PROVE GoTypeOK'
  BY <1>16, <1>8 DEF Commit, Ack
<1>17. ASSUME NEW c \in Calls, Crash(c) PROVE GoTypeOK'
  BY <1>17, <1>1, <1>7 DEF Crash
<1>18. ASSUME NEW w \in Rollers, RollbackReplied(w) PROVE GoTypeOK'
  BY <1>18, <1>1, <1>3 DEF RollbackReplied
<1>19. ASSUME NEW w \in Rollers, RollbackFailed(w) PROVE GoTypeOK'
  <2>1. holder' \in [Skus \X Users -> Purchases \cup {None}]
    BY <1>3, <1>19 DEF RollbackFailed
  <2>2. attempts' \in [Rollers -> 0 .. MaxRetries - 1]
    BY <1>1, <1>19 DEF RollbackFailed
  <2> QED BY <1>19, <2>1, <2>2 DEF RollbackFailed
<1>20. ASSUME NEW n \in Nodes, NEW k \in Skus, Sweep(n, k) PROVE GoTypeOK'
  BY <1>20 DEF Sweep, StaleMembers
<1>21. ASSUME NEW n \in Nodes, SweepCheck(n) PROVE GoTypeOK'
  <2>1. PICK p \in todo[n] :
          /\ todo' = [todo EXCEPT ![n] = @ \ {p}]
          /\ \/ acking' = [acking EXCEPT ![n] = p] /\ UNCHANGED <<rolling, attempts>>
             \/ StartRollback(<<"sweeper", n>>, p) /\ UNCHANGED acking
             \/ UNCHANGED <<rolling, attempts, acking>>
    BY <1>21 DEF SweepCheck
  <2>2. p \in Purchases
    BY <2>1
  <2> QED BY <1>4, <1>6, <1>21, <2>1, <2>2 DEF SweepCheck
<1>22. ASSUME NEW n \in Nodes, SweepAck(n) PROVE GoTypeOK'
  BY <1>22 DEF SweepAck
<1>23. ASSUME NEW p \in Purchases, TimePasses(p) PROVE GoTypeOK'
  BY <1>23 DEF TimePasses, goVars
<1>24. CASE UNCHANGED vars
  BY <1>24 DEF vars, goVars
<1> QED BY <1>10, <1>11, <1>12, <1>13, <1>14, <1>15, <1>16, <1>17, <1>18, <1>19, <1>20,
           <1>21, <1>22, <1>23, <1>24 DEF Next, Handler, Sweeper

(* Type correctness of the backend, under every fault.                     *)
THEOREM ReservationTypeCorrect == Spec => []ReservationTypeOK
<1>1. Init => ReservationTypeOK
  <2> SUFFICES ASSUME Init PROVE ReservationTypeOK
    OBVIOUS
  <2>1. RedisTypeOK
    BY RedisAssumption DEF Init, RedisInit, RedisTypeOK, Ages
  <2>2. GoTypeOK
    BY ReservationAssumption DEF Init, GoTypeOK, Progress
  <2> QED BY <2>1, <2>2 DEF ReservationTypeOK, GoTypeOK
<1>2. ReservationTypeOK /\ [Next]_vars => ReservationTypeOK'
  BY StepIsRedisStep, RedisTypeStep, GoTypeStep DEF ReservationTypeOK, GoTypeOK
<1> QED BY <1>1, <1>2, PTL DEF Spec

(* The backend is a client of Redis that only runs the commands of Redis,  *)
(* so what RedisSpec promises it enjoys.                                   *)
THEOREM ReservationUsesRedis == Spec => RedisSpec
<1>1. Init => RedisInit
  BY DEF Init
<1> QED BY <1>1, StepIsRedisStep, ReservationTypeCorrect, PTL DEF Spec, RedisSpec

(* Purchases of one item: lost replies, repeated and mistaken rollbacks,   *)
(* crashes and racing sweepers may give an item to the wrong user, but the *)
(* shelf and the bought set always add up to the stock of the sale.        *)
THEOREM StockConservedByBackend == Spec => []StockConserved
BY ReservationUsesRedis, StockIsConserved, PTL

-----------------------------------------------------------------------------
(* No forgotten reservation.  What makes the property inductive is that    *)
(* nothing removes a pending member unless its purchase was sold: neither  *)
(* the cleanup worker's tasks, nor the orders the sweeper looks up.        *)
RemovalsAreSold ==
  /\ \A c \in toCommit \cup toAck : PurchaseOf[c] \in sold
  /\ orders \subseteq sold
  /\ \A n \in Nodes : acking[n] \in sold \cup {None}

ForgottenInv == ReservationTypeOK /\ RemovalsAreSold /\ NoForgottenReservation

LEMMA RemovalsAreSoldStep ==
  ASSUME UniqueIds, ForgottenInv, [Next]_vars
  PROVE  RemovalsAreSold'
<1> USE DEF ForgottenInv, RemovalsAreSold
<1>1. ASSUME NEW c \in Calls, EngineSells(c) PROVE RemovalsAreSold'
  BY <1>1 DEF EngineSells
<1>2. ASSUME NEW c \in Calls, Commit(c) PROVE RemovalsAreSold'
  BY <1>2 DEF Commit
<1>3. ASSUME NEW n \in Nodes, SweepCheck(n) PROVE RemovalsAreSold'
  <2>1. PICK p \in todo[n] : \/ HasOrder(p) /\ acking' = [acking EXCEPT ![n] = p]
                            \/ UNCHANGED acking
    BY <1>3 DEF SweepCheck
  <2>2. HasOrder(p) => p \in sold
    <3>1. p \in Purchases /\ orders \subseteq Purchases
      BY DEF ReservationTypeOK
    <3> QED BY <3>1 DEF HasOrder, UniqueIds
  <2> QED BY <1>3, <2>1, <2>2 DEF SweepCheck, ReservationTypeOK
<1>4. ASSUME NEW n \in Nodes, SweepAck(n) PROVE RemovalsAreSold'
  BY <1>4 DEF SweepAck, ReservationTypeOK
<1>5. ASSUME NEW c \in Calls, Ack(c) \/ Crash(c) PROVE RemovalsAreSold'
  BY <1>5 DEF Ack, Crash
<1>6. ASSUME UNCHANGED <<toCommit, toAck, orders, acking, sold>> PROVE RemovalsAreSold'
  BY <1>6
<1>7. ASSUME NEW c \in Calls,
             Handler(c) \/ HandlerDeductLost(c) \/ HandlerUnreachable(c)
               \/ EngineRefuses(c) \/ EngineDrops(c)
      PROVE  RemovalsAreSold'
  BY <1>6, <1>7 DEF Handler, HandlerDeduct, HandlerRegister, HandlerEnqueue,
       HandlerDeductLost, HandlerUnreachable, EngineRefuses, EngineDrops
<1>8. ASSUME NEW w \in Rollers, RollbackReplied(w) \/ RollbackFailed(w) PROVE RemovalsAreSold'
  BY <1>6, <1>8 DEF RollbackReplied, RollbackFailed
<1>9. ASSUME NEW n \in Nodes, NEW k \in Skus, Sweep(n, k) PROVE RemovalsAreSold'
  BY <1>6, <1>9 DEF Sweep
<1>10. ASSUME NEW p \in Purchases, TimePasses(p) PROVE RemovalsAreSold'
  BY <1>6, <1>10 DEF TimePasses, goVars
<1>11. CASE UNCHANGED vars
  BY <1>6, <1>11 DEF vars, goVars
<1> QED BY <1>1, <1>2, <1>3, <1>4, <1>5, <1>7, <1>8, <1>9, <1>10, <1>11
        DEF Next, Engine, Sweeper

(* What each command leaves of the property; sold only grows.              *)
LEMMA CommandsForgetNothing ==
  ASSUME ReservationTypeOK, NoForgottenReservation, sold \subseteq sold',
         \/ UNCHANGED redisVars
         \/ \E p \in Purchases : Deduct(p) \/ Rollback(p) \/ GrowStale(p)
         \/ \E p \in sold : RemovePending(p)
         \/ \E k \in Skus : RegisterSku(k)
  PROVE  NoForgottenReservation'
<1>a. /\ pending \in [Purchases -> Ages]
      /\ bought \in [Skus -> SUBSET Users]
      /\ \A p \in Purchases : p.sku \in Skus /\ p.user \in Users
  BY RedisAssumption DEF ReservationTypeOK, RedisTypeOK
<1>b. \A k \in Skus, u \in Users : u \in bought[k] =>
        \E p \in Purchases : /\ p.sku = k /\ p.user = u
                             /\ pending[p] # "absent" \/ p \in sold
  BY DEF NoForgottenReservation
<1>1. CASE UNCHANGED redisVars
  BY <1>1, <1>b DEF redisVars, NoForgottenReservation
<1>2. ASSUME NEW p \in Purchases, Deduct(p) PROVE NoForgottenReservation'
  <2>1. CASE DeductStatus(p) # 1
    BY <1>1, <1>2, <2>1 DEF Deduct
  <2>2. CASE DeductStatus(p) = 1
    <3>1. /\ bought' = [bought EXCEPT ![p.sku] = @ \cup {p.user}]
          /\ pending' = [pending EXCEPT ![p] = "fresh"]
      BY <1>2, <2>2 DEF Deduct
    <3>2. SUFFICES ASSUME NEW k \in Skus, NEW u \in Users, u \in bought'[k]
                   PROVE  \E q \in Purchases : /\ q.sku = k /\ q.user = u
                                               /\ pending'[q] # "absent" \/ q \in sold'
      BY Zenon DEF NoForgottenReservation
    <3>3. CASE u \in bought[k]
      <4>1. PICK q \in Purchases : /\ q.sku = k /\ q.user = u
                                   /\ pending[q] # "absent" \/ q \in sold
        BY <1>b, <3>3
      <4>2. pending[q] # "absent" => pending'[q] # "absent"
        BY <1>a, <3>1
      <4>3. pending'[q] # "absent" \/ q \in sold'
        BY <4>1, <4>2
      <4> QED BY <4>1, <4>3
    <3>4. CASE u \notin bought[k]
      <4>1. p.sku = k /\ p.user = u
        BY <1>a, <3>1, <3>2, <3>4
      <4>2. pending'[p] # "absent"
        BY <1>a, <3>1
      <4> QED BY <4>1, <4>2
    <3> QED BY <3>3, <3>4
  <2> QED BY <2>1, <2>2
<1>3. ASSUME NEW p \in Purchases, Rollback(p) PROVE NoForgottenReservation'
  <2>1. CASE p.user \notin bought[p.sku]
    BY <1>1, <1>3, <2>1 DEF Rollback
  <2>2. CASE p.user \in bought[p.sku]
    <3>1. /\ bought' = [bought EXCEPT ![p.sku] = @ \ {p.user}]
          /\ pending' = [pending EXCEPT ![p] = "absent"]
      BY <1>3, <2>2 DEF Rollback
    <3>2. SUFFICES ASSUME NEW k \in Skus, NEW u \in Users, u \in bought'[k]
                   PROVE  \E q \in Purchases : /\ q.sku = k /\ q.user = u
                                               /\ pending'[q] # "absent" \/ q \in sold'
      BY Zenon DEF NoForgottenReservation
    <3>3. u \in bought[k] /\ ~(p.sku = k /\ p.user = u)
      BY <1>a, <3>1, <3>2
    <3>4. PICK q \in Purchases : /\ q.sku = k /\ q.user = u
                                 /\ pending[q] # "absent" \/ q \in sold
      BY <1>b, <3>3
    <3>5. q # p
      BY <3>3, <3>4
    <3>6. pending'[q] = pending[q]
      BY <1>a, <3>1, <3>5
    <3>7. pending'[q] # "absent" \/ q \in sold'
      BY <3>4, <3>6
    <3> QED BY <3>4, <3>7
  <2> QED BY <2>1, <2>2
<1>4. ASSUME NEW p \in Purchases, GrowStale(p) PROVE NoForgottenReservation'
  BY <1>4, <1>a, <1>b DEF GrowStale, NoForgottenReservation
<1>5. ASSUME NEW p \in sold, RemovePending(p) PROVE NoForgottenReservation'
  BY <1>5, <1>a, <1>b DEF RemovePending, NoForgottenReservation
<1>6. ASSUME NEW k \in Skus, RegisterSku(k) PROVE NoForgottenReservation'
  BY <1>6, <1>b DEF RegisterSku, NoForgottenReservation
<1> QED BY <1>1, <1>2, <1>3, <1>4, <1>5, <1>6

(* Which command a step runs, and on what.                                 *)
LEMMA StepRunsSafeCommand ==
  ASSUME ForgottenInv, [Next]_vars
  PROVE  /\ sold \subseteq sold'
         /\ \/ UNCHANGED redisVars
            \/ \E p \in Purchases : Deduct(p) \/ Rollback(p) \/ GrowStale(p)
            \/ \E p \in sold : RemovePending(p)
            \/ \E k \in Skus : RegisterSku(k)
<1> DEFINE Safe ==
      /\ sold \subseteq sold'
      /\ \/ UNCHANGED redisVars
         \/ \E p \in Purchases : Deduct(p) \/ Rollback(p) \/ GrowStale(p)
         \/ \E p \in sold : RemovePending(p)
         \/ \E k \in Skus : RegisterSku(k)
<1> USE ReservationAssumption DEF ForgottenInv
<1>1. ASSUME NEW c \in Calls, Handler(c) \/ HandlerDeductLost(c) \/ HandlerUnreachable(c)
      PROVE  Safe
  <2>1. PurchaseOf[c] \in Purchases /\ PurchaseOf[c].sku \in Skus
    BY RedisAssumption
  <2> QED BY <1>1, <2>1 DEF Handler, HandlerDeduct, HandlerRegister, HandlerEnqueue,
               HandlerDeductLost, HandlerUnreachable, RunDeduct
<1>2. ASSUME NEW c \in Calls, Engine(c) \/ Commit(c) \/ Crash(c) PROVE Safe
  BY <1>2 DEF Engine, EngineSells, EngineRefuses, EngineDrops, Commit, Crash
<1>3. ASSUME NEW c \in Calls, Ack(c) PROVE Safe
  <2>1. PurchaseOf[c] \in sold
    BY <1>3 DEF Ack, RemovalsAreSold
  <2> QED BY <1>3, <2>1 DEF Ack
<1>4. ASSUME NEW w \in Rollers, RollbackReplied(w) \/ RollbackFailed(w) PROVE Safe
  <2>1. rolling[w] \in Purchases
    BY <1>4 DEF RollbackReplied, RollbackFailed, ReservationTypeOK
  <2> QED BY <1>4, <2>1 DEF RollbackReplied, RollbackFailed, RunRollback
<1>5. ASSUME NEW n \in Nodes, SweepCheck(n) PROVE Safe
  BY <1>5 DEF SweepCheck
<1>6. ASSUME NEW n \in Nodes, SweepAck(n) PROVE Safe
  <2>1. acking[n] \in sold
    BY <1>6 DEF SweepAck, RemovalsAreSold
  <2> QED BY <1>6, <2>1 DEF SweepAck
<1>7. ASSUME NEW n \in Nodes, NEW k \in Skus, Sweep(n, k) PROVE Safe
  BY <1>7 DEF Sweep
<1>8. ASSUME NEW p \in Purchases, TimePasses(p) PROVE Safe
  BY <1>8 DEF TimePasses, goVars
<1>9. CASE UNCHANGED vars
  BY <1>9 DEF vars, goVars
<1> QED BY <1>1, <1>2, <1>3, <1>4, <1>5, <1>6, <1>7, <1>8, <1>9 DEF Next, Sweeper

LEMMA ForgottenInvariant == UniqueIds => (Spec => []ForgottenInv)
<1> SUFFICES ASSUME UniqueIds PROVE Spec => []ForgottenInv
  OBVIOUS
<1>1. Init => RemovalsAreSold /\ NoForgottenReservation
  BY DEF Init, RedisInit, RemovalsAreSold, NoForgottenReservation
<1>2. ForgottenInv /\ ReservationTypeOK' /\ [Next]_vars => ForgottenInv'
  <2> SUFFICES ASSUME ForgottenInv, ReservationTypeOK', [Next]_vars PROVE ForgottenInv'
    OBVIOUS
  <2>1. RemovalsAreSold'
    BY RemovalsAreSoldStep
  <2>2. NoForgottenReservation'
    BY StepRunsSafeCommand, CommandsForgetNothing DEF ForgottenInv
  <2> QED BY <2>1, <2>2 DEF ForgottenInv
<1>3. ReservationTypeOK /\ RemovalsAreSold /\ NoForgottenReservation => ForgottenInv
  BY DEF ForgottenInv
<1> QED BY <1>1, <1>2, <1>3, ReservationTypeCorrect, PTL DEF Spec

(* If request ids are not reused, whoever is in a bought set has a pending *)
(* purchase or one the engine sold, whatever fails and however slowly.     *)
THEOREM NothingIsForgotten == UniqueIds => (Spec => []NoForgottenReservation)
<1> SUFFICES ASSUME UniqueIds PROVE Spec => []NoForgottenReservation
  OBVIOUS
<1>1. ForgottenInv => NoForgottenReservation
  BY DEF ForgottenInv
<1> QED BY <1>1, ForgottenInvariant, PTL

(* If request ids are not reused, the sweeper only acknowledges purchases  *)
(* that were sold.                                                         *)
THEOREM SweeperAcksAreSold == UniqueIds => (Spec => []SweeperAcksOnlySold)
<1> SUFFICES ASSUME UniqueIds PROVE Spec => []SweeperAcksOnlySold
  OBVIOUS
<1>1. ForgottenInv => SweeperAcksOnlySold
  BY DEF ForgottenInv, RemovalsAreSold, SweeperAcksOnlySold
<1> QED BY <1>1, ForgottenInvariant, PTL

-----------------------------------------------------------------------------
(* What is rolled back was taken by the same purchase, an order keeps its  *)
(* reservation, and the whole is a Sale.  This needs a calm system: no     *)
(* reply is lost, no live call is slower than 30 s, and there is one       *)
(* sweeper.  Processes may die and INSERTs may fail.                       *)
Calm ==
  /\ "redis" \notin Faults /\ "slow" \notin Faults
  /\ \A m, n \in Nodes : m = n

Holds(p) == holder[<<p.sku, p.user>>] = p

(* The calls whose purchase is in somebody's hands: the handler's or the   *)
(* engine's, or on its way to the database or to the cleanup.              *)
Working == {"deducted", "registered", "accepted"}
Busy(c) == pc[c] \in Working \/ c \in toCommit \cup toAck

HoldersInv ==
  \A k \in Skus, u \in Users :
    /\ holder[<<k, u>>] # None <=> u \in bought[k]
    /\ holder[<<k, u>>] # None => holder[<<k, u>>].sku = k /\ holder[<<k, u>>].user = u

PendingInv == \A p \in Purchases : pending[p] # "absent" => Holds(p)

(* Nobody else works on the purchase of a busy call, and it is young.      *)
BusyInv ==
  \A c \in Calls :
    /\ c \in toCommit \cup toAck => pc[c] = "answered"
    /\ Busy(c) => /\ Holds(PurchaseOf[c])
                  /\ pending[PurchaseOf[c]] # "stale"
                  /\ \A d \in Calls : Busy(d) /\ PurchaseOf[d] = PurchaseOf[c] => d = c
                  /\ \A w \in Rollers : rolling[w] # PurchaseOf[c]
    /\ pc[c] \in Working => PurchaseOf[c] \notin orders

(* One goroutine at most rolls a purchase back, and it is not sold; only   *)
(* the sweeper rolls back what is old, and it has not fetched it again.    *)
RollInv ==
  \A w \in Rollers : rolling[w] # None =>
    /\ Holds(rolling[w]) /\ rolling[w] \notin orders
    /\ \A v \in Rollers : rolling[v] = rolling[w] => v = w
    /\ \A n \in Nodes : rolling[w] \notin todo[n]
    /\ w \notin {"sweeper"} \X Nodes => pending[rolling[w]] # "stale"

StoredInv == \A p \in orders : Holds(p)

SweepInv ==
  \A n \in Nodes : (\A p \in todo[n] : pending[p] = "stale") /\ acking[n] \notin todo[n]

SettleInv == HoldersInv /\ PendingInv /\ BusyInv /\ RollInv /\ StoredInv /\ SweepInv

(* A call that goes on, or gives up its part.                              *)
LEMMA LessWorkStep ==
  ASSUME ReservationTypeOK, SettleInv,
         UNCHANGED <<holder, bought, pending, orders, todo, acking>>,
         \A c \in Calls : /\ Busy(c)' => Busy(c)
                          /\ pc'[c] \in Working => pc[c] \in Working
                          /\ c \in toCommit' \cup toAck' => pc'[c] = "answered",
         \A w \in Rollers : rolling'[w] \in {rolling[w], None}
  PROVE  SettleInv'
<1>1. HoldersInv' /\ PendingInv' /\ StoredInv' /\ SweepInv'
  BY DEF SettleInv, HoldersInv, PendingInv, StoredInv, SweepInv, Holds
<1>2. BusyInv'
  <2>1. ASSUME NEW c \in Calls, Busy(c)'
        PROVE  /\ Holds(PurchaseOf[c])'
               /\ pending'[PurchaseOf[c]] # "stale"
               /\ \A d \in Calls : Busy(d)' /\ PurchaseOf[d] = PurchaseOf[c] => d = c
               /\ \A w \in Rollers : rolling'[w] # PurchaseOf[c]
    <3>1. Busy(c) /\ PurchaseOf[c] # None
      BY <2>1, ReservationAssumption
    <3>2. /\ Holds(PurchaseOf[c])
          /\ pending[PurchaseOf[c]] # "stale"
          /\ \A d \in Calls : Busy(d) /\ PurchaseOf[d] = PurchaseOf[c] => d = c
          /\ \A w \in Rollers : rolling[w] # PurchaseOf[c]
      BY <3>1 DEF SettleInv, BusyInv
    <3> QED BY <3>1, <3>2 DEF Holds
  <2>2. \A c \in Calls : pc'[c] \in Working => PurchaseOf[c] \notin orders'
    BY DEF SettleInv, BusyInv
  <2> QED BY <2>1, <2>2 DEF BusyInv
<1>3. RollInv'
  BY DEF SettleInv, RollInv, Holds, ReservationTypeOK
<1> QED BY <1>1, <1>2, <1>3 DEF SettleInv

(* A call hands its purchase to a goroutine that rolls it back.            *)
LEMMA HandOverStep ==
  ASSUME ReservationTypeOK, SettleInv, NEW c \in Calls, NEW w \in Rollers,
         w \notin {"sweeper"} \X Nodes,
         pc[c] \in Working, NEW there \in Progress \ Working, At(c, pc[c], there),
         StartRollback(w, PurchaseOf[c]),
         UNCHANGED <<holder, bought, pending, orders, todo, acking, toCommit, toAck>>
  PROVE  SettleInv'
<1> DEFINE p == PurchaseOf[c]
<1>1. p \in Purchases /\ p # None
  BY ReservationAssumption
<1>2. /\ Busy(c) /\ Holds(p) /\ pending[p] # "stale" /\ p \notin orders
      /\ \A d \in Calls : Busy(d) /\ PurchaseOf[d] = p => d = c
      /\ \A v \in Rollers : rolling[v] # p
  BY DEF SettleInv, BusyInv, Busy
<1>3. c \notin toCommit \cup toAck
  BY DEF SettleInv, BusyInv, Working
<1>4. \A d \in Calls : pc'[d] = IF d = c THEN there ELSE pc[d]
  BY DEF At, ReservationTypeOK
<1>5. \A v \in Rollers : rolling'[v] = IF v = w THEN p ELSE rolling[v]
  BY DEF StartRollback, ReservationTypeOK
<1> HIDE DEF p
<1>6. HoldersInv' /\ PendingInv' /\ StoredInv' /\ SweepInv'
  BY DEF SettleInv, HoldersInv, PendingInv, StoredInv, SweepInv, Holds
<1>7. \A d \in Calls : Busy(d)' <=> Busy(d) /\ d # c
  BY <1>3, <1>4 DEF Busy
<1>8. BusyInv'
  <2> SUFFICES ASSUME NEW d \in Calls
               PROVE  /\ d \in toCommit' \cup toAck' => pc'[d] = "answered"
                      /\ Busy(d)' => /\ Holds(PurchaseOf[d])'
                                     /\ pending'[PurchaseOf[d]] # "stale"
                                     /\ \A e \in Calls : Busy(e)' /\ PurchaseOf[e] = PurchaseOf[d] => e = d
                                     /\ \A v \in Rollers : rolling'[v] # PurchaseOf[d]
                      /\ pc'[d] \in Working => PurchaseOf[d] \notin orders'
    BY DEF BusyInv
  <2>1. d \in toCommit' \cup toAck' => pc'[d] = "answered"
    BY <1>3, <1>4 DEF SettleInv, BusyInv
  <2>2. pc'[d] \in Working => PurchaseOf[d] \notin orders'
    BY <1>4 DEF SettleInv, BusyInv
  <2>3. ASSUME Busy(d)'
        PROVE  /\ Holds(PurchaseOf[d])'
               /\ pending'[PurchaseOf[d]] # "stale"
               /\ \A e \in Calls : Busy(e)' /\ PurchaseOf[e] = PurchaseOf[d] => e = d
               /\ \A v \in Rollers : rolling'[v] # PurchaseOf[d]
    <3>1. Busy(d) /\ d # c /\ PurchaseOf[d] # p
      BY <2>3, <1>2, <1>7
    <3> QED BY <3>1, <1>5, <1>7 DEF SettleInv, BusyInv, Holds
  <2> QED BY <2>1, <2>2, <2>3
<1>9. RollInv'
  <2>1. \A n \in Nodes : p \notin todo[n]
    BY <1>2 DEF SettleInv, SweepInv
  <2> QED BY <1>1, <1>2, <1>5, <2>1 DEF SettleInv, RollInv, Holds
<1> QED BY <1>6, <1>8, <1>9 DEF SettleInv

(* The deduct script succeeds.                                             *)
LEMMA DeductSettles ==
  ASSUME ReservationTypeOK, SettleInv, NEW c \in Calls, pc[c] = "start",
         DeductStatus(PurchaseOf[c]) = 1, HandlerDeduct(c)
  PROVE  SettleInv'
<1> DEFINE p == PurchaseOf[c]
<1>1. p \in Purchases /\ p # None /\ p.sku \in Skus /\ p.user \in Users
  BY ReservationAssumption, RedisAssumption
<1>2. /\ bought' = [bought EXCEPT ![p.sku] = @ \cup {p.user}]
      /\ pending' = [pending EXCEPT ![p] = "fresh"]
      /\ holder' = [holder EXCEPT ![<<p.sku, p.user>>] = p]
      /\ pc' = [pc EXCEPT ![c] = "deducted"]
      /\ UNCHANGED <<toCommit, toAck, rolling, orders, todo, acking>>
  BY DEF HandlerDeduct, At, RunDeduct, Deduct
<1>3. holder[<<p.sku, p.user>>] = None
  BY <1>1 DEF DeductStatus, SettleInv, HoldersInv
<1>4. ~Holds(p)
  BY <1>1, <1>3 DEF Holds
<1>5. pending[p] = "absent" /\ p \notin orders /\ ~Busy(c)
      /\ (\A d \in Calls : Busy(d) => PurchaseOf[d] # p) /\ (\A w \in Rollers : rolling[w] # p)
      /\ (\A n \in Nodes : p \notin todo[n])
  BY <1>1, <1>4 DEF SettleInv, PendingInv, StoredInv, BusyInv, RollInv, SweepInv
<1>6. \A q \in Purchases : Holds(q) => Holds(q)' /\ q # p
  <2> SUFFICES ASSUME NEW q \in Purchases, Holds(q) PROVE Holds(q)' /\ q # p
    OBVIOUS
  <2>1. q # None /\ <<q.sku, q.user>> \in Skus \X Users
    BY ReservationAssumption, RedisAssumption
  <2>2. q # p /\ <<q.sku, q.user>> # <<p.sku, p.user>>
    BY <1>3, <1>4, <2>1 DEF Holds
  <2>3. holder'[<<q.sku, q.user>>] = holder[<<q.sku, q.user>>]
    BY <1>2, <2>1, <2>2 DEF ReservationTypeOK
  <2> QED BY <2>2, <2>3 DEF Holds
<1>7. Holds(p)' /\ pending'[p] = "fresh" /\ pc'[c] = "deducted"
  BY <1>1, <1>2 DEF Holds, ReservationTypeOK, RedisTypeOK
<1>8. \A q \in Purchases : q # p => pending'[q] = pending[q]
  BY <1>1, <1>2 DEF ReservationTypeOK, RedisTypeOK
<1>9. \A d \in Calls : d # c => pc'[d] = pc[d]
  BY <1>2 DEF ReservationTypeOK
<1>10. HoldersInv'
  <2> SUFFICES ASSUME NEW k \in Skus, NEW u \in Users
               PROVE  /\ holder'[<<k, u>>] # None <=> u \in bought'[k]
                      /\ holder'[<<k, u>>] # None => holder'[<<k, u>>].sku = k /\ holder'[<<k, u>>].user = u
    BY DEF HoldersInv
  <2>1. CASE k = p.sku /\ u = p.user
    <3>1. holder'[<<k, u>>] = p /\ u \in bought'[k]
      BY <1>1, <1>2, <2>1 DEF ReservationTypeOK, RedisTypeOK
    <3> QED BY <1>1, <2>1, <3>1
  <2>2. CASE ~(k = p.sku /\ u = p.user)
    <3>1. holder'[<<k, u>>] = holder[<<k, u>>] /\ (u \in bought'[k] <=> u \in bought[k])
      BY <1>1, <1>2, <2>2 DEF ReservationTypeOK, RedisTypeOK
    <3> QED BY <3>1 DEF SettleInv, HoldersInv
  <2> QED BY <2>1, <2>2
<1> HIDE DEF p
<1>11. PendingInv' /\ StoredInv' /\ SweepInv'
  BY <1>2, <1>5, <1>6, <1>7, <1>8 DEF SettleInv, PendingInv, StoredInv, SweepInv, ReservationTypeOK
<1>12. \A d \in Calls : Busy(d)' <=> Busy(d) \/ d = c
  BY <1>2, <1>7, <1>9 DEF Busy, Working
<1>13. BusyInv'
  <2>1. \A d \in Calls : d \in toCommit' \cup toAck' => pc'[d] = "answered"
    BY <1>2, <1>5, <1>9 DEF SettleInv, BusyInv, Busy
  <2>2. \A d \in Calls : pc'[d] \in Working => PurchaseOf[d] \notin orders'
    BY <1>2, <1>5, <1>9 DEF SettleInv, BusyInv, p
  <2>3. ASSUME NEW d \in Calls, Busy(d)'
        PROVE  /\ Holds(PurchaseOf[d])'
               /\ pending'[PurchaseOf[d]] # "stale"
               /\ \A e \in Calls : Busy(e)' /\ PurchaseOf[e] = PurchaseOf[d] => e = d
               /\ \A v \in Rollers : rolling'[v] # PurchaseOf[d]
    <3>1. CASE d = c
      BY <1>2, <1>5, <1>7, <1>12, <3>1 DEF p
    <3>2. CASE d # c
      <4>1. Busy(d) /\ PurchaseOf[d] \in Purchases /\ PurchaseOf[d] # p
        BY <1>5, <1>12, <2>3, <3>2, ReservationAssumption
      <4>2. /\ Holds(PurchaseOf[d])
            /\ pending[PurchaseOf[d]] # "stale"
            /\ \A e \in Calls : Busy(e) /\ PurchaseOf[e] = PurchaseOf[d] => e = d
            /\ \A v \in Rollers : rolling[v] # PurchaseOf[d]
        BY <4>1 DEF SettleInv, BusyInv
      <4>3. \A e \in Calls : Busy(e)' /\ PurchaseOf[e] = PurchaseOf[d] => e = d
        BY <1>12, <4>1, <4>2 DEF p
      <4> QED BY <1>2, <1>6, <1>8, <4>1, <4>2, <4>3
    <3> QED BY <3>1, <3>2
  <2> QED BY <2>1, <2>2, <2>3 DEF BusyInv
<1>14. RollInv'
  <2> SUFFICES ASSUME NEW w \in Rollers, rolling'[w] # None
               PROVE  /\ Holds(rolling[w])' /\ rolling'[w] \notin orders'
                      /\ \A v \in Rollers : rolling'[v] = rolling'[w] => v = w
                      /\ \A n \in Nodes : rolling'[w] \notin todo'[n]
                      /\ w \notin {"sweeper"} \X Nodes => pending'[rolling'[w]] # "stale"
    BY DEF RollInv
  <2>1. rolling[w] \in Purchases /\ rolling[w] # None /\ rolling[w] # p
    BY <1>2, <1>5 DEF ReservationTypeOK
  <2>2. rolling'[w] = rolling[w] /\ Holds(rolling[w])
    BY <1>2, <2>1 DEF SettleInv, RollInv
  <2>3. Holds(rolling[w])' /\ pending'[rolling[w]] = pending[rolling[w]]
    BY <1>6, <1>8, <2>1, <2>2
  <2> QED BY <1>2, <2>1, <2>2, <2>3 DEF SettleInv, RollInv
<1> QED BY <1>10, <1>11, <1>13, <1>14 DEF SettleInv

(* The rollback script gives back what its purchase took.                  *)
LEMMA RollbackSettles ==
  ASSUME ReservationTypeOK, SettleInv, NEW w \in Rollers, RollbackReplied(w)
  PROVE  SettleInv'
<1> DEFINE p == rolling[w]
<1>1. p \in Purchases /\ p # None /\ p.sku \in Skus /\ p.user \in Users
  BY ReservationAssumption, RedisAssumption DEF RollbackReplied, ReservationTypeOK
<1>2. /\ Holds(p) /\ p \notin orders /\ p.user \in bought[p.sku]
      /\ \A v \in Rollers : rolling[v] = p => v = w
      /\ \A n \in Nodes : p \notin todo[n]
  BY <1>1 DEF SettleInv, RollInv, HoldersInv, Holds
<1>3. /\ bought' = [bought EXCEPT ![p.sku] = @ \ {p.user}]
      /\ pending' = [pending EXCEPT ![p] = "absent"]
      /\ holder' = [holder EXCEPT ![<<p.sku, p.user>>] = None]
      /\ rolling' = [rolling EXCEPT ![w] = None]
      /\ UNCHANGED <<pc, toCommit, toAck, orders, todo, acking>>
  BY <1>2 DEF RollbackReplied, RunRollback, Rollback
<1>4. \A c \in Calls : Busy(c) => PurchaseOf[c] # p
  BY DEF SettleInv, BusyInv
<1>5. \A q \in Purchases : Holds(q) /\ q # p => Holds(q)' /\ pending'[q] = pending[q]
  <2> SUFFICES ASSUME NEW q \in Purchases, Holds(q), q # p PROVE Holds(q)' /\ pending'[q] = pending[q]
    OBVIOUS
  <2>1. <<q.sku, q.user>> \in Skus \X Users
    BY RedisAssumption
  <2>2. <<q.sku, q.user>> # <<p.sku, p.user>>
    BY <1>2, <2>1 DEF Holds
  <2>3. holder'[<<q.sku, q.user>>] = holder[<<q.sku, q.user>>]
    BY <1>3, <2>1, <2>2 DEF ReservationTypeOK
  <2> QED BY <1>1, <1>3, <2>3 DEF Holds, ReservationTypeOK, RedisTypeOK
<1>6. pending'[p] = "absent" /\ \A q \in Purchases : q # p => pending'[q] = pending[q]
  BY <1>1, <1>3 DEF ReservationTypeOK, RedisTypeOK
<1>7. \A v \in Rollers : rolling'[v] = IF v = w THEN None ELSE rolling[v]
  BY <1>3 DEF ReservationTypeOK
<1>8. HoldersInv'
  <2> SUFFICES ASSUME NEW k \in Skus, NEW u \in Users
               PROVE  /\ holder'[<<k, u>>] # None <=> u \in bought'[k]
                      /\ holder'[<<k, u>>] # None => holder'[<<k, u>>].sku = k /\ holder'[<<k, u>>].user = u
    BY DEF HoldersInv
  <2>1. CASE k = p.sku /\ u = p.user
    BY <1>1, <1>3, <2>1 DEF ReservationTypeOK, RedisTypeOK
  <2>2. CASE ~(k = p.sku /\ u = p.user)
    <3>1. holder'[<<k, u>>] = holder[<<k, u>>] /\ (u \in bought'[k] <=> u \in bought[k])
      BY <1>1, <1>3, <2>2 DEF ReservationTypeOK, RedisTypeOK
    <3> QED BY <3>1 DEF SettleInv, HoldersInv
  <2> QED BY <2>1, <2>2
<1> HIDE DEF p
<1>9. PendingInv' /\ StoredInv' /\ SweepInv'
  BY <1>2, <1>3, <1>5, <1>6 DEF SettleInv, PendingInv, StoredInv, SweepInv, ReservationTypeOK
<1>10. BusyInv'
  <2>1. ASSUME NEW d \in Calls, Busy(d)'
        PROVE  /\ Holds(PurchaseOf[d])'
               /\ pending'[PurchaseOf[d]] # "stale"
               /\ \A e \in Calls : Busy(e)' /\ PurchaseOf[e] = PurchaseOf[d] => e = d
               /\ \A v \in Rollers : rolling'[v] # PurchaseOf[d]
    <3>1. Busy(d) /\ \A e \in Calls : Busy(e)' <=> Busy(e)
      BY <1>3, <2>1 DEF Busy
    <3>2. /\ Holds(PurchaseOf[d]) /\ PurchaseOf[d] # p /\ PurchaseOf[d] \in Purchases /\ PurchaseOf[d] # None
          /\ pending[PurchaseOf[d]] # "stale"
          /\ \A e \in Calls : Busy(e) /\ PurchaseOf[e] = PurchaseOf[d] => e = d
          /\ \A v \in Rollers : rolling[v] # PurchaseOf[d]
      BY <1>4, <3>1, ReservationAssumption DEF SettleInv, BusyInv
    <3> QED BY <1>5, <1>7, <3>1, <3>2
  <2> QED BY <1>3, <2>1 DEF SettleInv, BusyInv
<1>11. RollInv'
  <2> SUFFICES ASSUME NEW v \in Rollers, rolling'[v] # None
               PROVE  /\ Holds(rolling[v])' /\ rolling'[v] \notin orders'
                      /\ \A x \in Rollers : rolling'[x] = rolling'[v] => x = v
                      /\ \A n \in Nodes : rolling'[v] \notin todo'[n]
                      /\ v \notin {"sweeper"} \X Nodes => pending'[rolling'[v]] # "stale"
    BY DEF RollInv
  <2>1. rolling'[v] = rolling[v] /\ rolling[v] \in Purchases /\ rolling[v] # p
    BY <1>2, <1>7 DEF ReservationTypeOK
  <2>2. Holds(rolling[v])
    BY <2>1 DEF SettleInv, RollInv
  <2>3. Holds(rolling[v])' /\ pending'[rolling[v]] = pending[rolling[v]]
    BY <1>5, <2>1, <2>2
  <2> QED BY <1>3, <1>7, <2>1, <2>3 DEF SettleInv, RollInv
<1> QED BY <1>8, <1>9, <1>10, <1>11 DEF SettleInv

(* The sweeper.                                                            *)
LEMMA SweepSettles ==
  ASSUME Calm, ReservationTypeOK, SettleInv, NEW n \in Nodes,
         SweepCheck(n) \/ SweepAck(n) \/ \E k \in Skus : Sweep(n, k)
  PROVE  SettleInv'
<1> USE ReservationAssumption
<1>0. \A m \in Nodes : m = n
  BY DEF Calm
<1>1. ASSUME NEW k \in Skus, Sweep(n, k) PROVE SettleInv'
  <2>1. /\ todo' = [todo EXCEPT ![n] = StaleMembers(k)]
        /\ acking[n] = None /\ rolling[<<"sweeper", n>>] = None
        /\ UNCHANGED <<holder, bought, pending, pc, toCommit, toAck, rolling, orders, acking>>
    BY <1>1 DEF Sweep, SweeperIdle, redisVars
  <2>2. HoldersInv' /\ PendingInv' /\ StoredInv' /\ BusyInv'
    BY <2>1 DEF SettleInv, HoldersInv, PendingInv, StoredInv, BusyInv, Busy, Holds
  <2>3. SweepInv'
    BY <1>0, <2>1 DEF SettleInv, SweepInv, StaleMembers, ReservationTypeOK
  <2>4. RollInv'
    <3>1. ASSUME NEW w \in Rollers, rolling[w] # None, NEW m \in Nodes PROVE rolling[w] \notin todo'[m]
      <4>1. w \notin {"sweeper"} \X Nodes
        BY <1>0, <2>1, <3>1
      <4>2. pending[rolling[w]] # "stale"
        BY <3>1, <4>1 DEF SettleInv, RollInv
      <4>3. todo'[m] = StaleMembers(k)
        BY <1>0, <2>1 DEF ReservationTypeOK
      <4> QED BY <4>2, <4>3 DEF StaleMembers
    <3> QED BY <2>1, <3>1 DEF SettleInv, RollInv, Holds
  <2> QED BY <2>2, <2>3, <2>4 DEF SettleInv
<1>2. CASE SweepCheck(n)
  <2>1. PICK p \in todo[n] :
          /\ todo' = [todo EXCEPT ![n] = @ \ {p}]
          /\ \/ /\ HasOrder(p)
                /\ acking' = [acking EXCEPT ![n] = p]
                /\ UNCHANGED <<rolling, attempts>>
             \/ /\ ~HasOrder(p)
                /\ StartRollback(<<"sweeper", n>>, p)
                /\ UNCHANGED acking
             \/ "db" \in Faults /\ UNCHANGED <<rolling, attempts, acking>>
    BY <1>2 DEF SweepCheck
  <2>2. /\ UNCHANGED <<holder, bought, pending, pc, toCommit, toAck, orders>>
        /\ acking[n] = None /\ rolling[<<"sweeper", n>>] = None
    BY <1>2 DEF SweepCheck, SweeperIdle, redisVars
  <2>3. /\ p \in Purchases /\ pending[p] = "stale" /\ Holds(p)
        /\ (\A c \in Calls : Busy(c) => PurchaseOf[c] # p)
        /\ (\A w \in Rollers : rolling[w] # p)
    BY DEF SettleInv, SweepInv, PendingInv, BusyInv, RollInv, ReservationTypeOK
  <2>4. ~HasOrder(p) => p \notin orders
    BY DEF HasOrder
  <2>5. \A m \in Nodes : todo'[m] = todo[m] \ {p}
    BY <1>0, <2>1 DEF ReservationTypeOK
  <2>6. HoldersInv' /\ PendingInv' /\ StoredInv'
    BY <2>2 DEF SettleInv, HoldersInv, PendingInv, StoredInv, Holds
  <2>7. SweepInv'
    BY <1>0, <2>1, <2>2, <2>5 DEF SettleInv, SweepInv, ReservationTypeOK
  <2>8. CASE UNCHANGED rolling
    <3>1. BusyInv'
      BY <2>2, <2>8 DEF SettleInv, BusyInv, Busy, Holds
    <3>2. RollInv'
      BY <2>2, <2>5, <2>8 DEF SettleInv, RollInv, Holds
    <3> QED BY <2>6, <2>7, <3>1, <3>2 DEF SettleInv
  <2>9. CASE ~HasOrder(p) /\ StartRollback(<<"sweeper", n>>, p)
    <3>1. <<"sweeper", n>> \in Rollers /\ <<"sweeper", n>> \in {"sweeper"} \X Nodes
      BY DEF Rollers
    <3>2. \A w \in Rollers : rolling'[w] = IF w = <<"sweeper", n>> THEN p ELSE rolling[w]
      BY <2>9, <3>1 DEF StartRollback, ReservationTypeOK
    <3>3. BusyInv'
      BY <2>2, <2>3, <3>2 DEF SettleInv, BusyInv, Busy, Holds
    <3>4. RollInv'
      BY <2>2, <2>3, <2>4, <2>5, <2>9, <3>1, <3>2 DEF SettleInv, RollInv, Holds
    <3> QED BY <2>6, <2>7, <3>3, <3>4 DEF SettleInv
  <2> QED BY <2>1, <2>8, <2>9
<1>3. CASE SweepAck(n)
  <2> DEFINE p == acking[n]
  <2>1. /\ pending' = [pending EXCEPT ![p] = "absent"] /\ p \in Purchases
        /\ acking' = [acking EXCEPT ![n] = None]
        /\ UNCHANGED <<holder, bought, pc, toCommit, toAck, rolling, orders, todo>>
    BY <1>3 DEF SweepAck, RemovePending, Calm, ReservationTypeOK
  <2>2. p \notin todo[n]
    BY DEF SettleInv, SweepInv
  <2>3. \A q \in Purchases : pending'[q] = IF q = p THEN "absent" ELSE pending[q]
    BY <2>1 DEF ReservationTypeOK, RedisTypeOK
  <2> HIDE DEF p
  <2>4. HoldersInv' /\ PendingInv' /\ StoredInv'
    BY <2>1, <2>3 DEF SettleInv, HoldersInv, PendingInv, StoredInv, Holds
  <2>5. SweepInv'
    <3> SUFFICES ASSUME NEW m \in Nodes
                 PROVE  (\A q \in todo'[m] : pending'[q] = "stale") /\ acking'[m] \notin todo'[m]
      BY DEF SweepInv
    <3>1. todo'[m] \subseteq Purchases \ {p} /\ \A q \in todo[m] : pending[q] = "stale"
      BY <1>0, <2>1, <2>2 DEF SettleInv, SweepInv, ReservationTypeOK
    <3>2. acking'[m] = None
      BY <1>0, <2>1 DEF ReservationTypeOK
    <3> QED BY <2>1, <2>3, <3>1, <3>2
  <2>6. BusyInv'
    BY <2>1, <2>3 DEF SettleInv, BusyInv, Busy, Holds
  <2>7. RollInv'
    <3> SUFFICES ASSUME NEW w \in Rollers, rolling[w] # None
                 PROVE  /\ Holds(rolling[w])' /\ rolling[w] \notin orders'
                        /\ \A v \in Rollers : rolling[v] = rolling[w] => v = w
                        /\ \A m \in Nodes : rolling[w] \notin todo'[m]
                        /\ w \notin {"sweeper"} \X Nodes => pending'[rolling[w]] # "stale"
      BY <2>1 DEF RollInv
    <3>1. rolling[w] \in Purchases /\ UNCHANGED <<holder, rolling, orders, todo>>
      BY <2>1 DEF ReservationTypeOK
    <3> QED BY <2>3, <3>1 DEF SettleInv, RollInv, Holds
  <2> QED BY <2>4, <2>5, <2>6, <2>7 DEF SettleInv
<1> QED BY <1>1, <1>2, <1>3
(* A row reaches the orders table.                                         *)
LEMMA CommitSettles ==
  ASSUME ReservationTypeOK, SettleInv, NEW c \in Calls, Commit(c)
  PROVE  SettleInv'
<1> DEFINE p == PurchaseOf[c]
<1>1. /\ p \in Purchases /\ p # None
      /\ UNCHANGED <<holder, bought, pending, pc, toAck, rolling, todo, acking>>
      /\ toCommit' \subseteq toCommit
      /\ orders' \in {orders, orders \cup {p}}
  BY ReservationAssumption DEF Commit, redisVars
<1>2. /\ Busy(c) /\ pc[c] = "answered" /\ Holds(p)
      /\ \A d \in Calls : Busy(d) /\ PurchaseOf[d] = p => d = c
      /\ \A w \in Rollers : rolling[w] # p
  BY DEF Commit, SettleInv, BusyInv, Busy
<1> HIDE DEF p
<1>3. HoldersInv' /\ PendingInv' /\ StoredInv' /\ SweepInv'
  BY <1>1, <1>2 DEF SettleInv, HoldersInv, PendingInv, StoredInv, SweepInv, Holds
<1>4. \A d \in Calls : pc[d] \in Working => PurchaseOf[d] # p
  BY <1>2 DEF Busy, Working
<1>5. BusyInv'
  BY <1>1, <1>4 DEF SettleInv, BusyInv, Busy, Holds
<1>6. RollInv'
  BY <1>1, <1>2 DEF SettleInv, RollInv, Holds
<1> QED BY <1>3, <1>5, <1>6 DEF SettleInv

(* The pending member of a sold purchase is removed.                       *)
LEMMA AckSettles ==
  ASSUME Calm, ReservationTypeOK, SettleInv, NEW c \in Calls, Ack(c)
  PROVE  SettleInv'
<1> DEFINE p == PurchaseOf[c]
<1>1. /\ p \in Purchases
      /\ pending' = [pending EXCEPT ![p] = "absent"]
      /\ UNCHANGED <<holder, bought, pc, toCommit, rolling, orders, todo, acking>>
      /\ toAck' \subseteq toAck
  BY ReservationAssumption DEF Ack, RemovePending, Calm
<1>2. pending[p] # "stale"
  BY DEF Ack, SettleInv, BusyInv, Busy
<1>3. \A q \in Purchases : pending'[q] = IF q = p THEN "absent" ELSE pending[q]
  BY <1>1 DEF ReservationTypeOK, RedisTypeOK
<1> HIDE DEF p
<1>4. HoldersInv' /\ PendingInv' /\ StoredInv'
  BY <1>1, <1>3 DEF SettleInv, HoldersInv, PendingInv, StoredInv, Holds
<1>5. SweepInv'
  BY <1>1, <1>2, <1>3 DEF SettleInv, SweepInv, ReservationTypeOK
<1>6. \A d \in Calls : PurchaseOf[d] \in Purchases /\ (Busy(d)' => Busy(d))
  BY <1>1, ReservationAssumption DEF Busy
<1>7. BusyInv'
  BY <1>1, <1>3, <1>6 DEF SettleInv, BusyInv, Holds
<1>8. RollInv'
  <2> SUFFICES ASSUME NEW w \in Rollers, rolling[w] # None
               PROVE  /\ Holds(rolling[w])' /\ rolling[w] \notin orders'
                      /\ \A v \in Rollers : rolling[v] = rolling[w] => v = w
                      /\ \A m \in Nodes : rolling[w] \notin todo'[m]
                      /\ w \notin {"sweeper"} \X Nodes => pending'[rolling[w]] # "stale"
    BY <1>1 DEF RollInv
  <2>1. rolling[w] \in Purchases /\ UNCHANGED <<holder, rolling, orders, todo>>
    BY <1>1 DEF ReservationTypeOK
  <2> QED BY <1>3, <2>1 DEF SettleInv, RollInv, Holds
<1> QED BY <1>4, <1>5, <1>7, <1>8 DEF SettleInv

(* Thirty seconds pass over a purchase that nobody works on.               *)
LEMMA TimeSettles ==
  ASSUME Calm, ReservationTypeOK, SettleInv, NEW p \in Purchases, TimePasses(p)
  PROVE  SettleInv'
<1>1. /\ pending[p] = "fresh" /\ pending' = [pending EXCEPT ![p] = "stale"]
      /\ UNCHANGED <<holder, bought, pc, toCommit, toAck, rolling, orders, todo, acking>>
  BY DEF TimePasses, GrowStale, goVars
<1>2. /\ \A w \in Rollers : rolling[w] # p
      /\ \A c \in Calls : Busy(c) => PurchaseOf[c] # p
  BY DEF TimePasses, InFlight, Calm, Busy, Working
<1>3. \A q \in Purchases : pending'[q] = IF q = p THEN "stale" ELSE pending[q]
  BY <1>1 DEF ReservationTypeOK, RedisTypeOK
<1>4. HoldersInv' /\ PendingInv' /\ StoredInv'
  BY <1>1, <1>3 DEF SettleInv, HoldersInv, PendingInv, StoredInv, Holds
<1>5. SweepInv'
  BY <1>1, <1>3 DEF SettleInv, SweepInv, ReservationTypeOK
<1>6. \A d \in Calls : PurchaseOf[d] \in Purchases /\ (Busy(d)' => Busy(d))
  BY <1>1, ReservationAssumption DEF Busy
<1>7. BusyInv'
  BY <1>1, <1>2, <1>3, <1>6 DEF SettleInv, BusyInv, Holds
<1>8. RollInv'
  <2> SUFFICES ASSUME NEW w \in Rollers, rolling[w] # None
               PROVE  /\ Holds(rolling[w])' /\ rolling[w] \notin orders'
                      /\ \A v \in Rollers : rolling[v] = rolling[w] => v = w
                      /\ \A m \in Nodes : rolling[w] \notin todo'[m]
                      /\ w \notin {"sweeper"} \X Nodes => pending'[rolling[w]] # "stale"
    BY <1>1 DEF RollInv
  <2>1. rolling[w] \in Purchases /\ rolling[w] # p /\ UNCHANGED <<holder, rolling, orders, todo>>
    BY <1>1, <1>2 DEF ReservationTypeOK
  <2> QED BY <1>3, <2>1 DEF SettleInv, RollInv, Holds
<1> QED BY <1>4, <1>5, <1>7, <1>8 DEF SettleInv
LEMMA SettleInit == Init => SettleInv
BY ReservationAssumption, RedisAssumption
   DEF Init, RedisInit, SettleInv, HoldersInv, PendingInv, BusyInv, Busy, Working, RollInv,
       StoredInv, SweepInv

(* A call of EnqueueHandler, the engine or the pipeline goes one step on.  *)
LEMMA CallSettles ==
  ASSUME Calm, ReservationTypeOK, SettleInv, NEW c \in Calls,
         \/ Handler(c) \/ HandlerDeductLost(c) \/ HandlerUnreachable(c)
         \/ Engine(c) \/ Commit(c) \/ Ack(c) \/ Crash(c)
  PROVE  SettleInv'
<1> USE ReservationAssumption
<1>1. CASE HandlerDeduct(c)
  <2>1. CASE DeductStatus(PurchaseOf[c]) = 1
    BY <1>1, <2>1, DeductSettles DEF HandlerDeduct, At
  <2>2. CASE DeductStatus(PurchaseOf[c]) # 1
    <3>1. /\ UNCHANGED <<holder, bought, pending, orders, todo, acking, toCommit, toAck, rolling>>
          /\ pc[c] = "start" /\ pc' = [pc EXCEPT ![c] = "refused"]
      BY <1>1, <2>2 DEF HandlerDeduct, RunDeduct, Deduct, At, redisVars
    <3>2. \A d \in Calls : pc'[d] = IF d = c THEN "refused" ELSE pc[d]
      BY <3>1 DEF ReservationTypeOK
    <3>3. \A d \in Calls : /\ Busy(d)' => Busy(d)
                           /\ pc'[d] \in Working => pc[d] \in Working
                           /\ d \in toCommit' \cup toAck' => pc'[d] = "answered"
      BY <3>1, <3>2 DEF Busy, Working, SettleInv, BusyInv
    <3> QED BY <3>1, <3>3, LessWorkStep
  <2> QED BY <2>1, <2>2
<1>2. ASSUME /\ UNCHANGED <<holder, bought, pending, orders, todo, acking, toCommit, toAck, rolling>>
             /\ pc[c] \in Working /\ pc' \in {[pc EXCEPT ![c] = s] : s \in Working \cup {"answered"}}
      PROVE  SettleInv'
  <2>1. \A d \in Calls : d # c => pc'[d] = pc[d]
    BY <1>2 DEF ReservationTypeOK
  <2>2. c \notin toCommit \cup toAck
    BY <1>2 DEF SettleInv, BusyInv, Working
  <2>3. \A d \in Calls : /\ Busy(d)' => Busy(d)
                         /\ pc'[d] \in Working => pc[d] \in Working
                         /\ d \in toCommit' \cup toAck' => pc'[d] = "answered"
    BY <1>2, <2>1, <2>2 DEF Busy, SettleInv, BusyInv
  <2> QED BY <1>2, <2>3, LessWorkStep
<1>3. CASE HandlerRegister(c)
  BY <1>2, <1>3 DEF HandlerRegister, At, RegisterSku, Working, redisVars
<1>4. CASE HandlerEnqueue(c)
  <2>1. UNCHANGED <<holder, bought, pending, orders, todo, acking, toCommit, toAck>>
    BY <1>4 DEF HandlerEnqueue, redisVars
  <2>2. CASE At(c, "registered", "accepted") /\ UNCHANGED rolling
    BY <1>2, <2>1, <2>2 DEF At, Working
  <2>3. CASE At(c, "registered", "rejected") /\ StartRollback(<<"handler", c>>, PurchaseOf[c])
    <3>1. /\ <<"handler", c>> \in Rollers /\ <<"handler", c>> \notin {"sweeper"} \X Nodes
          /\ "rejected" \in Progress \ Working /\ pc[c] \in Working /\ At(c, pc[c], "rejected")
      BY <2>3 DEF Rollers, Progress, Working, At
    <3> QED BY <2>1, <2>3, <3>1, HandOverStep
  <2> QED BY <1>4, <2>2, <2>3 DEF HandlerEnqueue
<1>5. CASE EngineSells(c)
  <2>1. /\ UNCHANGED <<holder, bought, pending, orders, todo, acking, rolling>>
        /\ pc[c] = "accepted" /\ pc' = [pc EXCEPT ![c] = "answered"]
        /\ toCommit' = toCommit \cup {c} /\ toAck' = toAck \cup {c}
    BY <1>5 DEF EngineSells, At, redisVars
  <2>2. \A d \in Calls : pc'[d] = IF d = c THEN "answered" ELSE pc[d]
    BY <2>1 DEF ReservationTypeOK
  <2>3. \A d \in Calls : /\ Busy(d)' => Busy(d)
                         /\ pc'[d] \in Working => pc[d] \in Working
                         /\ d \in toCommit' \cup toAck' => pc'[d] = "answered"
    BY <2>1, <2>2 DEF Busy, Working, SettleInv, BusyInv
  <2> QED BY <2>1, <2>3, LessWorkStep
<1>6. CASE EngineRefuses(c)
  <2>1. /\ <<"cleanup", c>> \in Rollers /\ <<"cleanup", c>> \notin {"sweeper"} \X Nodes
        /\ "answered" \in Progress \ Working /\ pc[c] \in Working /\ At(c, pc[c], "answered")
        /\ StartRollback(<<"cleanup", c>>, PurchaseOf[c])
        /\ UNCHANGED <<holder, bought, pending, orders, todo, acking, toCommit, toAck>>
    BY <1>6 DEF EngineRefuses, Rollers, Progress, Working, At, redisVars
  <2> QED BY <2>1, HandOverStep
<1>7. CASE EngineDrops(c)
  BY <1>2, <1>7 DEF EngineDrops, At, Working, redisVars
<1>8. CASE Commit(c)
  BY <1>8, CommitSettles
<1>9. CASE Ack(c)
  BY <1>9, AckSettles
<1>10. CASE Crash(c)
  <2>1. /\ UNCHANGED <<holder, bought, pending, orders, todo, acking>>
        /\ toCommit' = toCommit \ {c} /\ toAck' = toAck \ {c}
        /\ \A d \in Calls : pc'[d] = IF d = c THEN "dead" ELSE pc[d]
        /\ \A w \in Rollers : rolling'[w] \in {rolling[w], None}
    BY <1>10 DEF Crash, ReservationTypeOK, redisVars
  <2>2. \A d \in Calls : /\ Busy(d)' => Busy(d)
                         /\ pc'[d] \in Working => pc[d] \in Working
                         /\ d \in toCommit' \cup toAck' => pc'[d] = "answered"
    BY <2>1 DEF Busy, Working, SettleInv, BusyInv
  <2> QED BY <2>1, <2>2, LessWorkStep
<1>11. ~HandlerDeductLost(c) /\ ~HandlerUnreachable(c)
  BY DEF HandlerDeductLost, HandlerUnreachable, Calm
<1> QED BY <1>1, <1>3, <1>4, <1>5, <1>6, <1>7, <1>8, <1>9, <1>10, <1>11 DEF Handler, Engine

LEMMA SettleStep == Calm /\ ReservationTypeOK /\ SettleInv /\ [Next]_vars => SettleInv'
<1> SUFFICES ASSUME Calm, ReservationTypeOK, SettleInv, [Next]_vars PROVE SettleInv'
  OBVIOUS
<1>1. CASE \E w \in Rollers : RollbackReplied(w) \/ RollbackFailed(w)
  BY <1>1, RollbackSettles DEF RollbackFailed, Calm
<1>2. CASE \E n \in Nodes : Sweeper(n) \/ \E k \in Skus : Sweep(n, k)
  BY <1>2, SweepSettles DEF Sweeper
<1>3. CASE \E p \in Purchases : TimePasses(p)
  BY <1>3, TimeSettles
<1>4. CASE UNCHANGED vars
  BY <1>4 DEF vars, redisVars, goVars, SettleInv, HoldersInv, PendingInv, BusyInv, Busy, RollInv,
              StoredInv, SweepInv, Holds
<1>5. CASE \E c \in Calls : \/ Handler(c) \/ HandlerDeductLost(c) \/ HandlerUnreachable(c)
                            \/ Engine(c) \/ Commit(c) \/ Ack(c) \/ Crash(c)
  BY <1>5, CallSettles
<1> QED BY <1>1, <1>2, <1>3, <1>4, <1>5 DEF Next

LEMMA SettleInvariant == Calm => (Spec => []SettleInv)
<1> SUFFICES ASSUME Calm PROVE Spec => []SettleInv
  OBVIOUS
<1>1. ReservationTypeOK /\ SettleInv /\ [Next]_vars => SettleInv'
  BY SettleStep
<1> QED BY <1>1, SettleInit, ReservationTypeCorrect, PTL DEF Spec

(* No rollback and no sweep takes the reservation of a stored order.       *)
THEOREM OrdersKeepReservations == Calm => (Spec => []OrdersStayReserved)
<1> SUFFICES ASSUME Calm PROVE Spec => []OrdersStayReserved
  OBVIOUS
<1>1. ReservationTypeOK /\ SettleInv => OrdersStayReserved
  <2> SUFFICES ASSUME ReservationTypeOK, SettleInv, NEW o \in orders
               PROVE  holder[<<o.sku, o.user>>] = o /\ o.user \in bought[o.sku]
    BY DEF OrdersStayReserved
  <2>1. o \in Purchases /\ o # None /\ o.sku \in Skus /\ o.user \in Users
    BY ReservationAssumption, RedisAssumption DEF ReservationTypeOK
  <2> QED BY <2>1 DEF SettleInv, StoredInv, HoldersInv, Holds
<1> QED BY <1>1, SettleInvariant, ReservationTypeCorrect, PTL
(* The steps that change stock, bought sets, holders or orders.            *)
LEMMA StepsThatMatter ==
  ASSUME Calm, ReservationTypeOK, [Next]_vars
  PROVE  \/ \E p \in Purchases : DeductStatus(p) = 1 /\ RunDeduct(p) /\ UNCHANGED orders
         \/ \E w \in Rollers : RollbackReplied(w)
         \/ \E c \in Calls : Commit(c)
         \/ UNCHANGED <<stock, bought, holder, orders>>
<1> USE ReservationAssumption
<1>1. ASSUME NEW c \in Calls, HandlerDeduct(c)
      PROVE  \/ \E p \in Purchases : DeductStatus(p) = 1 /\ RunDeduct(p) /\ UNCHANGED orders
             \/ UNCHANGED <<stock, bought, holder, orders>>
  <2>1. RunDeduct(PurchaseOf[c]) /\ UNCHANGED orders /\ PurchaseOf[c] \in Purchases
    BY <1>1 DEF HandlerDeduct
  <2>2. CASE DeductStatus(PurchaseOf[c]) = 1
    BY <2>1, <2>2
  <2>3. CASE DeductStatus(PurchaseOf[c]) # 1
    BY <2>1, <2>3 DEF RunDeduct, Deduct, redisVars
  <2> QED BY <2>2, <2>3
<1>2. ASSUME NEW c \in Calls, \/ HandlerRegister(c) \/ HandlerEnqueue(c)
                              \/ Engine(c) \/ Ack(c) \/ Crash(c)
      PROVE  UNCHANGED <<stock, bought, holder, orders>>
  BY <1>2 DEF HandlerRegister, HandlerEnqueue, Engine, EngineSells, EngineRefuses, EngineDrops,
              Ack, Crash, RegisterSku, RemovePending, redisVars
<1>3. ASSUME NEW c \in Calls PROVE ~HandlerDeductLost(c) /\ ~HandlerUnreachable(c)
  BY DEF HandlerDeductLost, HandlerUnreachable, Calm
<1>4. ASSUME NEW w \in Rollers PROVE ~RollbackFailed(w)
  BY DEF RollbackFailed, Calm
<1>5. ASSUME NEW n \in Nodes, Sweeper(n) \/ \E k \in Skus : Sweep(n, k)
      PROVE  UNCHANGED <<stock, bought, holder, orders>>
  BY <1>5 DEF Sweeper, Sweep, SweepCheck, SweepAck, RemovePending, redisVars
<1>6. ASSUME NEW p \in Purchases, TimePasses(p) PROVE UNCHANGED <<stock, bought, holder, orders>>
  BY <1>6 DEF TimePasses, GrowStale, goVars
<1>7. CASE UNCHANGED vars
  BY <1>7 DEF vars, redisVars, goVars
<1> QED BY <1>1, <1>2, <1>3, <1>4, <1>5, <1>6, <1>7 DEF Next, Handler

(* What a rollback gives back to the shelf was taken by the same purchase. *)
THEOREM RollbacksArePaired == Calm => (Spec => RollbackPairsWithDeduct)
<1> SUFFICES ASSUME Calm PROVE Spec => RollbackPairsWithDeduct
  OBVIOUS
<1> DEFINE Paired == \A k \in Skus, u \in Users :
                       u \in bought[k] /\ u \notin bought'[k] =>
                         \E w \in Rollers : rolling[w] = holder[<<k, u>>]
<1>1. ReservationTypeOK /\ SettleInv /\ [Next]_vars => Paired
  <2> SUFFICES ASSUME ReservationTypeOK, SettleInv, [Next]_vars, NEW k \in Skus, NEW u \in Users,
                      u \in bought[k], u \notin bought'[k]
               PROVE  \E w \in Rollers : rolling[w] = holder[<<k, u>>]
    OBVIOUS
  <2>1. ASSUME NEW p \in Purchases, DeductStatus(p) = 1, RunDeduct(p) PROVE FALSE
    BY <2>1, RedisAssumption DEF RunDeduct, Deduct, ReservationTypeOK, RedisTypeOK
  <2>2. ASSUME NEW w \in Rollers, RollbackReplied(w) PROVE rolling[w] = holder[<<k, u>>]
    <3> DEFINE p == rolling[w]
    <3>1. p \in Purchases /\ p.sku \in Skus /\ p.user \in Users /\ Holds(p)
      BY <2>2, ReservationAssumption, RedisAssumption
         DEF RollbackReplied, ReservationTypeOK, SettleInv, RollInv
    <3>2. bought' \in {bought, [bought EXCEPT ![p.sku] = @ \ {p.user}]}
      BY <2>2 DEF RollbackReplied, RunRollback, Rollback, redisVars
    <3>3. k = p.sku /\ u = p.user
      BY <3>1, <3>2 DEF ReservationTypeOK, RedisTypeOK
    <3> QED BY <3>1, <3>3 DEF Holds
  <2>3. ASSUME NEW c \in Calls, Commit(c) PROVE FALSE
    BY <2>3 DEF Commit, redisVars
  <2> QED BY <2>1, <2>2, <2>3, StepsThatMatter
<1> HIDE DEF Paired
<1>2. [][Paired]_vars <=> RollbackPairsWithDeduct
  BY DEF RollbackPairsWithDeduct, Paired
<1> QED BY <1>1, <1>2, SettleInvariant, ReservationTypeCorrect, PTL DEF Spec

(* The abstract sale: a successful deduction reserves, a rollback releases *)
(* and an INSERT settles; everything else stutters.                        *)
LEMMA SaleStep ==
  ASSUME Calm, ReservationTypeOK, SettleInv, [Next]_vars
  PROVE  [Promise!SaleNext]_(Promise!saleVars)
<1> USE ReservationAssumption
<1> SUFFICES Promise!SaleNext \/ UNCHANGED Promise!saleVars
  OBVIOUS
<1>1. \A q \in Purchases : /\ q # None /\ q.sku \in Skus /\ q.user \in Users
                           /\ <<q.sku, q.user>> \in Skus \X Users /\ q.qty \in Nat
  BY RedisAssumption
<1>2. \A x \in Skus \X Users : holder[x] # None =>
        holder[x] \in Purchases /\ x = <<holder[x].sku, holder[x].user>>
  BY DEF SettleInv, HoldersInv, ReservationTypeOK
<1>3. ASSUME NEW p \in Purchases, DeductStatus(p) = 1, RunDeduct(p), UNCHANGED orders
      PROVE  Promise!Reserve(p)
  <2>1. /\ stock[p.sku] # NoKey /\ ~(stock[p.sku] < p.qty) /\ p.user \notin bought[p.sku]
        /\ stock' = [stock EXCEPT ![p.sku] = @ - p.qty]
        /\ holder' = [holder EXCEPT ![<<p.sku, p.user>>] = p]
    BY <1>3 DEF RunDeduct, Deduct, DeductStatus
  <2>2. holder[<<p.sku, p.user>>] = None
    BY <1>1, <2>1 DEF SettleInv, HoldersInv
  <2>3. p \notin orders
    BY <1>1, <2>2 DEF SettleInv, StoredInv, Holds
  <2>4. \A q \in Held \cup orders : ~(p.sku = q.sku /\ p.user = q.user)
    <3>1. \A q \in Held : holder[<<q.sku, q.user>>] = q /\ q # None
      BY <1>2 DEF Held
    <3>2. \A q \in orders : holder[<<q.sku, q.user>>] = q /\ q # None
      BY <1>1 DEF SettleInv, StoredInv, Holds, ReservationTypeOK
    <3> QED BY <2>2, <3>1, <3>2
  <2>5. Held' = Held \cup {p}
    <3>1. \A x \in Skus \X Users : holder'[x] = IF x = <<p.sku, p.user>> THEN p ELSE holder[x]
      BY <1>1, <2>1 DEF ReservationTypeOK
    <3> QED BY <1>1, <1>3, <2>2, <2>3, <3>1 DEF Held
  <2>6. OnShelf(stock)[p.sku] >= p.qty
    BY <1>1, <2>1, RedisAssumption DEF OnShelf, ReservationTypeOK, RedisTypeOK
  <2>7. OnShelf(stock)' = [OnShelf(stock) EXCEPT ![p.sku] = @ - p.qty]
    BY <1>1, <2>1, RedisAssumption DEF OnShelf, ReservationTypeOK, RedisTypeOK
  <2> QED BY <1>3, <2>4, <2>5, <2>6, <2>7 DEF Promise!Reserve, Promise!SameBuyer
<1>4. ASSUME NEW w \in Rollers, RollbackReplied(w)
      PROVE  Promise!Release(rolling[w])
  <2> DEFINE p == rolling[w]
  <2>1. p \in Purchases /\ Holds(p) /\ p \notin orders
    BY <1>4 DEF RollbackReplied, ReservationTypeOK, SettleInv, RollInv
  <2>2. p.user \in bought[p.sku]
    BY <1>1, <2>1 DEF SettleInv, HoldersInv, Holds
  <2>3. /\ stock' = [stock EXCEPT ![p.sku] = Incremented(@, p.qty)]
        /\ holder' = [holder EXCEPT ![<<p.sku, p.user>>] = None]
        /\ UNCHANGED orders
    BY <1>4, <2>2 DEF RollbackReplied, RunRollback, Rollback
  <2> HIDE DEF p
  <2>4. p \in Held
    BY <1>1, <2>1 DEF Held, Holds
  <2>5. \A x \in Skus \X Users : holder'[x] = IF x = <<p.sku, p.user>> THEN None ELSE holder[x]
    BY <1>1, <2>1, <2>3 DEF ReservationTypeOK
  <2>6. Held' = Held \ {p}
    BY <1>1, <1>2, <2>1, <2>3, <2>5 DEF Held, Holds
  <2>7. OnShelf(stock)' = [OnShelf(stock) EXCEPT ![p.sku] = @ + p.qty]
    BY <1>1, <2>1, <2>3, RedisAssumption DEF OnShelf, Incremented, ReservationTypeOK, RedisTypeOK
  <2> QED BY <2>3, <2>4, <2>6, <2>7 DEF Promise!Release, p
<1>5. ASSUME NEW c \in Calls, Commit(c)
      PROVE  Promise!Settle(PurchaseOf[c]) \/ UNCHANGED Promise!saleVars
  <2> DEFINE p == PurchaseOf[c]
  <2>1. UNCHANGED <<stock, holder>> /\ p \in Purchases /\ orders' \in {orders, orders \cup {p}}
    BY <1>5 DEF Commit, redisVars
  <2>2. Holds(p)
    BY <1>5 DEF Commit, SettleInv, BusyInv, Busy
  <2> HIDE DEF p
  <2>3. CASE UNCHANGED orders
    BY <2>1, <2>3 DEF Promise!saleVars, Held, OnShelf
  <2>4. CASE orders' = orders \cup {p} /\ p \notin orders
    <3>1. p \in Held /\ Held' = Held \ {p} /\ UNCHANGED OnShelf(stock)
      BY <1>1, <2>1, <2>2, <2>4 DEF Held, Holds, OnShelf
    <3> QED BY <2>4, <3>1 DEF Promise!Settle, p
  <2> QED BY <2>1, <2>3, <2>4
<1>6. CASE UNCHANGED <<stock, bought, holder, orders>>
  BY <1>6 DEF Promise!saleVars, Held, OnShelf
<1>7. ASSUME NEW w \in Rollers, RollbackReplied(w) PROVE rolling[w] \in Purchases
  BY <1>7 DEF RollbackReplied, ReservationTypeOK
<1> QED BY <1>3, <1>4, <1>5, <1>6, <1>7, StepsThatMatter DEF Promise!SaleNext

(* Redis, handler, pipeline and sweeper together are a sale as Sale        *)
(* defines it.                                                             *)
THEOREM BackendIsASale == Calm => (Spec => ImplementsSale)
<1> SUFFICES ASSUME Calm PROVE Spec => ImplementsSale
  OBVIOUS
<1>1. Init => Promise!SaleInit
  <2> SUFFICES ASSUME Init PROVE OnShelf(stock) = OnShelf(InitialStock) /\ Held = {} /\ orders = {}
    BY DEF Promise!SaleInit
  <2> QED BY DEF Init, RedisInit, Held
<1>2. ReservationTypeOK /\ SettleInv /\ [Next]_vars => [Promise!SaleNext]_(Promise!saleVars)
  BY SaleStep
<1> QED BY <1>1, <1>2, SettleInvariant, ReservationTypeCorrect, PTL
       DEF Spec, ImplementsSale, Promise!SaleSpec

-----------------------------------------------------------------------------
(* Nothing is oversold.                                                    *)

Weight == [p \in Purchases |-> p.qty]

(* What Reservation adds up is the sum of the weights. *)
LEMMA SumOfQuantities ==
  ASSUME NEW S \in SUBSET Purchases, IsFiniteSet(S)
  PROVE  MapThenSumSet(LAMBDA o : o.qty, S) = Sum(Weight, S)
<1> DEFINE Def(h) == h = [s \in SUBSET S |->
                            IF s = {} THEN 0
                            ELSE (CHOOSE x \in s : TRUE).qty + h[s \ {CHOOSE x \in s : TRUE}]]
           total == CHOOSE h : Def(h)
<1>1. ASSUME NEW h PROVE Def(h) <=> IsSum(h, Weight, S)
  <2>1. \A s \in SUBSET S : s # {} => Pick(s) \in Purchases
    BY PickInside
  <2>2. \A s \in SUBSET S : s # {} => Weight[Pick(s)] = Pick(s).qty
    BY <2>1 DEF Weight
  <2>3. [s \in SUBSET S |-> IF s = {} THEN 0 ELSE Weight[Pick(s)] + h[s \ {Pick(s)}]]
          = [s \in SUBSET S |-> IF s = {} THEN 0 ELSE Pick(s).qty + h[s \ {Pick(s)}]]
    BY <2>2
  <2> QED BY <2>3 DEF IsSum, Pick
<1>2. \E h : IsSum(h, Weight, S)
  BY SumExists
<1> HIDE DEF Def
<1>3. \E h : Def(h)
  BY <1>1, <1>2
<1>4. Def(total)
  BY <1>3
<1>5. total[S] = Sum(Weight, S)
  BY <1>1, <1>4, SumIs
<1>6. MapThenSumSet(LAMBDA o : o.qty, S) = total[S]
  BY DEF MapThenSumSet, MapThenFoldSet, Def
<1> QED BY <1>5, <1>6

(* What is reserved or sold of a SKU. *)
HeldOf(k) == {p \in Purchases : p.sku = k /\ Holds(p)}

(* Shelf and reservations of a SKU always add up to its stock. *)
ShelfInv(k) ==
  /\ stock[k] \in Nat /\ IsFiniteSet(HeldOf(k))
  /\ stock[k] + Sum(Weight, HeldOf(k)) = InitialStock[k]

LEMMA Weights ==
  ASSUME NEW S, S \subseteq Purchases, IsFiniteSet(S)
  PROVE  (\A p \in S : Weight[p] = p.qty /\ Weight[p] \in Nat) /\ Sum(Weight, S) \in Nat
<1>1. \A p \in S : Weight[p] = p.qty /\ Weight[p] \in Nat
  BY RedisAssumption DEF Weight
<1> QED BY <1>1, SumType

LEMMA ShelfStep ==
  ASSUME Calm, ReservationTypeOK, SettleInv, [Next]_vars, NEW k \in Skus, ShelfInv(k)
  PROVE  ShelfInv(k)'
<1> USE ReservationAssumption
<1>1. \A q \in Purchases : /\ q # None /\ q.sku \in Skus /\ q.user \in Users
                           /\ <<q.sku, q.user>> \in Skus \X Users /\ q.qty \in Nat \ {0}
  BY RedisAssumption
<1>2. /\ holder \in [Skus \X Users -> Purchases \cup {None}] /\ stock \in [Skus -> Nat \cup {NoKey}]
      /\ HeldOf(k) \subseteq Purchases /\ IsFiniteSet(HeldOf(k)) /\ Sum(Weight, HeldOf(k)) \in Nat
      /\ stock[k] \in Nat /\ stock[k] + Sum(Weight, HeldOf(k)) = InitialStock[k] /\ stock[k] # NoKey
  BY Weights, RedisAssumption DEF ReservationTypeOK, RedisTypeOK, HeldOf, ShelfInv
<1>3. ASSUME UNCHANGED <<stock, holder>> PROVE ShelfInv(k)'
  BY <1>3 DEF ShelfInv, HeldOf, Holds
<1>4. ASSUME NEW p \in Purchases, DeductStatus(p) = 1, RunDeduct(p) PROVE ShelfInv(k)'
  <2>1. /\ ~(stock[p.sku] < p.qty) /\ p.user \notin bought[p.sku]
        /\ stock' = [stock EXCEPT ![p.sku] = @ - p.qty]
        /\ holder' = [holder EXCEPT ![<<p.sku, p.user>>] = p]
    BY <1>4 DEF RunDeduct, Deduct, DeductStatus
  <2>2. holder[<<p.sku, p.user>>] = None
    BY <1>1, <2>1 DEF SettleInv, HoldersInv
  <2>3. \A x \in Skus \X Users : holder'[x] = IF x = <<p.sku, p.user>> THEN p ELSE holder[x]
    BY <1>1, <1>2, <2>1
  <2>4. CASE p.sku = k
    <3>1. HeldOf(k)' = HeldOf(k) \cup {p} /\ p \notin HeldOf(k)
      BY <1>1, <2>2, <2>3, <2>4 DEF HeldOf, Holds
    <3>2. IsFiniteSet(HeldOf(k) \cup {p}) /\ HeldOf(k) \cup {p} \subseteq Purchases
      BY <1>2, FS_AddElement
    <3>3. Weight[p] = p.qty /\ \A q \in HeldOf(k) \cup {p} : Weight[q] \in Int
      BY <3>2, Weights
    <3>4. Sum(Weight, HeldOf(k) \cup {p}) = p.qty + Sum(Weight, HeldOf(k))
      BY <1>2, <3>1, <3>3, SumInsert
    <3>5. stock'[k] = stock[k] - p.qty /\ stock[k] - p.qty \in Nat /\ p.qty \in Nat
      BY <1>1, <1>2, <2>1, <2>4
    <3>6. (stock[k] - p.qty) + (p.qty + Sum(Weight, HeldOf(k))) = InitialStock[k]
      BY <1>2, <3>5
    <3> QED BY <3>1, <3>2, <3>4, <3>5, <3>6 DEF ShelfInv
  <2>5. CASE p.sku # k
    <3>1. HeldOf(k)' = HeldOf(k)
      BY <1>1, <2>3, <2>5 DEF HeldOf, Holds
    <3>2. stock'[k] = stock[k]
      BY <1>1, <1>2, <2>1, <2>5
    <3> QED BY <1>2, <3>1, <3>2 DEF ShelfInv
  <2> QED BY <2>4, <2>5
<1>5. ASSUME NEW w \in Rollers, RollbackReplied(w) PROVE ShelfInv(k)'
  <2>1. PICK p \in Purchases : p = rolling[w] /\ Holds(p)
    BY <1>5 DEF RollbackReplied, ReservationTypeOK, SettleInv, RollInv
  <2>2. p.user \in bought[p.sku]
    BY <1>1, <2>1 DEF SettleInv, HoldersInv, Holds
  <2>3. /\ stock' = [stock EXCEPT ![p.sku] = Incremented(@, p.qty)]
        /\ holder' = [holder EXCEPT ![<<p.sku, p.user>>] = None]
    BY <1>5, <2>1, <2>2 DEF RollbackReplied, RunRollback, Rollback
  <2>4. \A x \in Skus \X Users : holder'[x] = IF x = <<p.sku, p.user>> THEN None ELSE holder[x]
    BY <1>1, <1>2, <2>3
  <2>5. CASE p.sku = k
    <3>1. HeldOf(k)' = HeldOf(k) \ {p} /\ p \in HeldOf(k)
      BY <1>1, <2>1, <2>4, <2>5 DEF HeldOf, Holds
    <3>2. IsFiniteSet(HeldOf(k) \ {p})
      BY <1>2, FS_Subset
    <3>3. Weight[p] = p.qty /\ \A q \in HeldOf(k) : Weight[q] \in Int
      BY <1>2, <3>1, Weights
    <3>4. Sum(Weight, HeldOf(k) \ {p}) = Sum(Weight, HeldOf(k)) - p.qty
      <4>1. Sum(Weight, HeldOf(k) \ {p}) = Sum(Weight, HeldOf(k)) - Weight[p]
        <5>1. p \in HeldOf(k) /\ IsFiniteSet(HeldOf(k)) /\ \A q \in HeldOf(k) : Weight[q] \in Int
          BY <1>2, <3>1, <3>3
        <5> QED BY <5>1, SumRemove
      <4> QED BY <3>3, <4>1
    <3>5. stock'[k] = stock[k] + p.qty /\ p.qty \in Nat
      BY <1>1, <1>2, <2>3, <2>5 DEF Incremented
    <3>6. (stock[k] + p.qty) + (Sum(Weight, HeldOf(k)) - p.qty) = InitialStock[k] /\ stock[k] + p.qty \in Nat
      BY <1>2, <3>5
    <3> QED BY <3>1, <3>2, <3>4, <3>5, <3>6 DEF ShelfInv
  <2>6. CASE p.sku # k
    <3>1. HeldOf(k)' = HeldOf(k)
      BY <1>1, <2>4, <2>6 DEF HeldOf, Holds
    <3>2. stock'[k] = stock[k]
      BY <1>1, <1>2, <2>3, <2>6
    <3> QED BY <1>2, <3>1, <3>2 DEF ShelfInv
  <2> QED BY <2>5, <2>6
<1>6. ASSUME NEW c \in Calls, Commit(c) PROVE ShelfInv(k)'
  BY <1>3, <1>6 DEF Commit, redisVars
<1> QED BY <1>3, <1>4, <1>5, <1>6, StepsThatMatter

(* Whatever quantities are bought, rolled back and swept, in any order and *)
(* with processes that die: the shelf and the stored orders never exceed   *)
(* the stock of the sale.                                                  *)
THEOREM NothingIsOversold == Calm => (Spec => []NoOversell)
<1> SUFFICES ASSUME Calm PROVE Spec => []NoOversell
  OBVIOUS
<1> DEFINE Shelves == \A k \in Skus : InitialStock[k] # NoKey => ShelfInv(k)
<1>1. Init => Shelves
  <2> SUFFICES ASSUME Init, NEW k \in Skus, InitialStock[k] # NoKey PROVE ShelfInv(k)
    OBVIOUS
  <2>1. HeldOf(k) = {}
    <3>1. \A p \in Purchases : p # None /\ <<p.sku, p.user>> \in Skus \X Users
      BY RedisAssumption, ReservationAssumption
    <3> QED BY <3>1 DEF Init, HeldOf, Holds
  <2>2. stock[k] = InitialStock[k] /\ InitialStock[k] \in Nat
    BY RedisAssumption DEF Init, RedisInit
  <2> QED BY <2>1, <2>2, SumEmpty, FS_EmptySet DEF ShelfInv
<1>2. ReservationTypeOK /\ SettleInv /\ Shelves /\ [Next]_vars => Shelves'
  BY ShelfStep
<1>3. ReservationTypeOK /\ SettleInv /\ Shelves => NoOversell
  <2> SUFFICES ASSUME ReservationTypeOK, SettleInv, NEW k \in Skus, InitialStock[k] # NoKey, ShelfInv(k)
               PROVE  stock[k] + MapThenSumSet(LAMBDA o : o.qty, {o \in orders : o.sku = k}) <= InitialStock[k]
    BY DEF NoOversell
  <2> DEFINE Ours == {o \in orders : o.sku = k}
  <2>1. Ours \subseteq HeldOf(k) /\ HeldOf(k) \subseteq Purchases
    BY DEF ReservationTypeOK, SettleInv, StoredInv, HeldOf
  <2>2. IsFiniteSet(HeldOf(k)) /\ IsFiniteSet(Ours) /\ Ours \in SUBSET Purchases
    BY <2>1, FS_Subset DEF ShelfInv
  <2> HIDE DEF Ours
  <2>3. Sum(Weight, Ours) <= Sum(Weight, HeldOf(k))
    BY <2>1, <2>2, Weights, SumMonotone
  <2>4. Sum(Weight, Ours) \in Nat /\ Sum(Weight, HeldOf(k)) \in Nat
    BY <2>1, <2>2, Weights
  <2>5. MapThenSumSet(LAMBDA o : o.qty, Ours) = Sum(Weight, Ours)
    BY <2>2, SumOfQuantities
  <2>6. stock[k] + Sum(Weight, Ours) <= InitialStock[k]
    BY <2>3, <2>4 DEF ShelfInv
  <2> QED BY <2>5, <2>6 DEF Ours
<1> HIDE DEF Shelves
<1> QED BY <1>1, <1>2, <1>3, SettleInvariant, ReservationTypeCorrect, PTL DEF Spec

-----------------------------------------------------------------------------
(* The circuit breaker, with a process of its own for each concurrent call. *)

LEMMA BreakerTypeStep == BreakerTypeOK /\ [BreakerNext]_breakerVars => BreakerTypeOK'
<1> SUFFICES ASSUME BreakerTypeOK, [BreakerNext]_breakerVars PROVE BreakerTypeOK'
  OBVIOUS
<1> USE BreakerAssumption DEF BreakerTypeOK, Control, Note, Go
<1>0. ASSUME NEW a \in 0 .. Duration PROVE Older(a) \in 0 .. Duration
  BY DEF Older
<1>1. ASSUME NEW c \in Callers, LoadCount(c) \/ LoadTime(c) \/ Reject(c) PROVE BreakerTypeOK'
  BY <1>1 DEF LoadCount, LoadTime, Reject
<1>2. ASSUME NEW c \in Callers, CallRedis(c) PROVE BreakerTypeOK'
  <2>1. [answered EXCEPT ![c] = IF @ < 2 THEN @ + 1 ELSE @] \in [Callers -> 0 .. 2]
    OBVIOUS
  <2> QED BY <1>2, <2>1 DEF CallRedis
<1>3. ASSUME NEW c \in Callers, Reset(c) \/ AddFailure(c) \/ ReadClock(c) \/ StoreTime(c) PROVE BreakerTypeOK'
  BY <1>3 DEF Reset, AddFailure, ReadClock, StoreTime
<1>4. CASE Tick
  BY <1>0, <1>4 DEF Tick
<1>5. CASE RedisChanges
  BY <1>5 DEF RedisChanges
<1>6. CASE UNCHANGED breakerVars
  BY <1>6 DEF breakerVars
<1> QED BY <1>1, <1>2, <1>3, <1>4, <1>5, <1>6 DEF BreakerNext, Step

(* The type invariant of the breaker: the model counts no further than one *)
(* past the threshold, beyond which the code tells nothing apart.          *)
THEOREM BreakerTypeCorrect == BreakerSpec => []BreakerTypeOK
<1>1. BreakerInit => BreakerTypeOK
  BY BreakerAssumption DEF BreakerInit, BreakerTypeOK, Control
<1> QED BY <1>1, BreakerTypeStep, PTL DEF BreakerSpec

(* Under an open breaker, a client that has been to Redis is not on its    *)
(* way there again, and without one the history is empty.                  *)
ShieldInv ==
  /\ BreakerTypeOK
  /\ \A c \in Callers :
       /\ ~Open => answered[c] = 0
       /\ answered[c] <= 1
       /\ answered[c] = 1 => at[c] # "ready"

(* However the checks of concurrent calls, their failures, late time       *)
(* stamps and resets interleave, an open breaker lets each client through  *)
(* to Redis at most once.                                                  *)
THEOREM OpenBreakerShields == BreakerSpec => []OpenShields
<1> USE BreakerAssumption
<1>1. BreakerInit => ShieldInv
  BY DEF BreakerInit, ShieldInv, BreakerTypeOK, Control
<1>2. ShieldInv /\ [BreakerNext]_breakerVars => ShieldInv'
  <2> SUFFICES ASSUME ShieldInv, [BreakerNext]_breakerVars PROVE ShieldInv'
    OBVIOUS
  <2>0. BreakerTypeOK /\ BreakerTypeOK'
    BY BreakerTypeStep DEF ShieldInv
  <2>1. ASSUME Note(answered), \A c \in Callers : at'[c] = "ready" => at[c] = "ready" \/ ~Open'
        PROVE  ShieldInv'
    BY <2>0, <2>1 DEF ShieldInv, Note, BreakerTypeOK
  <2>2. ASSUME NEW c \in Callers, LoadCount(c) \/ LoadTime(c) PROVE ShieldInv'
    <3>1. ASSUME NEW d \in Callers, at'[d] = "ready", at[d] # "ready" PROVE ~Open'
      BY <2>0, <2>2, <3>1 DEF LoadCount, LoadTime, Go, Open, BreakerTypeOK
    <3> QED BY <2>1, <2>2, <3>1 DEF LoadCount, LoadTime
  <2>3. ASSUME NEW c \in Callers, Reject(c) \/ Reset(c) \/ AddFailure(c) \/ ReadClock(c) \/ StoreTime(c)
        PROVE  ShieldInv'
    <3>1. \A d \in Callers : at'[d] = "ready" => at[d] = "ready"
      BY <2>0, <2>3 DEF Reject, Reset, AddFailure, ReadClock, StoreTime, Go, BreakerTypeOK
    <3> QED BY <2>1, <2>3, <3>1 DEF Reject, Reset, AddFailure, ReadClock, StoreTime
  <2>4. ASSUME NEW c \in Callers, CallRedis(c) PROVE ShieldInv'
    <3>1. /\ at[c] = "ready" /\ at'[c] # "ready"
          /\ \A d \in Callers : d # c => at'[d] = at[d]
      BY <2>0, <2>4 DEF CallRedis, Go, BreakerTypeOK
    <3>2. answered[c] = 0
      BY <2>0, <3>1 DEF ShieldInv, BreakerTypeOK
    <3>3. CASE Open'
      <4>1. answered' = [answered EXCEPT ![c] = 1]
        BY <2>0, <2>4, <3>2, <3>3 DEF CallRedis, Note, BreakerTypeOK
      <4> QED BY <2>0, <3>1, <3>3, <4>1 DEF ShieldInv, BreakerTypeOK
    <3>4. CASE ~Open'
      <4>1. answered' = [d \in Callers |-> 0]
        BY <2>4, <3>4 DEF CallRedis, Note
      <4> QED BY <2>0, <4>1 DEF ShieldInv
    <3> QED BY <3>3, <3>4
  <2>5. CASE Tick \/ RedisChanges
    BY <2>1, <2>5 DEF Tick, RedisChanges
  <2>6. CASE UNCHANGED breakerVars
    BY <2>0, <2>6 DEF breakerVars, ShieldInv, Open
  <2> QED BY <2>2, <2>3, <2>4, <2>5, <2>6 DEF BreakerNext, Step
<1>3. ShieldInv => OpenShields
  BY DEF ShieldInv, OpenShields
<1> QED BY <1>1, <1>2, <1>3, PTL DEF BreakerSpec

=============================================================================
