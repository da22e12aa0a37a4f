------------------------------- MODULE Redis -------------------------------
(***************************************************************************)
(* The Redis keys of the flash sale and every command the backend runs on  *)
(* them (cache/redis.go).  A Lua script is one atomic step, as Redis runs  *)
(* it.  The member string "sku:user:qty:reqID" of the pending set is       *)
(* injective on its four fields, so a member is the purchase record.       *)
(***************************************************************************)
EXTENDS Integers, FiniteSets

CONSTANTS
  Skus,          \* SKU ids
  Users,         \* guest ids
  Ids,           \* request ids
  Purchases,     \* the purchases users attempt: <<sku, user, qty, request id>>
  InitialStock,  \* what WarmUpInventory stored for each SKU, or NoKey
  NoKey          \* the stock key does not exist

ASSUME RedisAssumption ==
  /\ Purchases \subseteq [sku : Skus, user : Users, qty : Nat \ {0}, id : Ids]
  /\ NoKey \notin Int
  /\ InitialStock \in [Skus -> Nat \cup {NoKey}]

VARIABLES
  stock,    \* seckill:{sku}:stock
  bought,   \* seckill:{sku}:bought, the users that hold a reservation
  pending,  \* seckill:{sku}:pending, with the score reduced to its age
  skus      \* seckill:skus, the SKUs the sweeper visits

redisVars == <<stock, bought, pending, skus>>

(* "stale" is a score at most now - 30 s, what GetStalePendingRequests asks *)
(* for.                                                                     *)
Ages == {"absent", "fresh", "stale"}

RedisTypeOK ==
  /\ stock \in [Skus -> Nat \cup {NoKey}]
  /\ bought \in [Skus -> SUBSET Users]
  /\ pending \in [Purchases -> Ages]
  /\ skus \in SUBSET Skus

(* The keys once every node of the cluster has run WarmUpInventory.        *)
RedisInit ==
  /\ stock = InitialStock
  /\ bought = [k \in Skus |-> {}]
  /\ pending = [p \in Purchases |-> "absent"]
  /\ skus = {k \in Skus : InitialStock[k] # NoKey}

(* Mutant: the script does not ask whether the user has bought. *)
DeductStatus_Twice(p) ==
  IF stock[p.sku] = NoKey THEN -2
  ELSE IF stock[p.sku] < p.qty THEN 0
  ELSE 1

(* What the deduct script answers for purchase p in the current state.     *)
DeductStatus(p) ==
  IF p.user \in bought[p.sku] THEN -1
  ELSE IF stock[p.sku] = NoKey THEN -2
  ELSE IF stock[p.sku] < p.qty THEN 0
  ELSE 1

(* Mutant: the script does not add the purchase to the pending set. *)
Deduct_NoZadd(p) ==
  IF DeductStatus(p) = 1
  THEN /\ stock' = [stock EXCEPT ![p.sku] = @ - p.qty]
       /\ bought' = [bought EXCEPT ![p.sku] = @ \cup {p.user}]
       /\ UNCHANGED <<pending, skus>>
  ELSE UNCHANGED redisVars

(* The check-and-decrement script.                                         *)
Deduct(p) ==
  IF DeductStatus(p) = 1
  THEN /\ stock' = [stock EXCEPT ![p.sku] = @ - p.qty]
       /\ bought' = [bought EXCEPT ![p.sku] = @ \cup {p.user}]
       /\ pending' = [pending EXCEPT ![p] = "fresh"]
       /\ UNCHANGED skus
  ELSE UNCHANGED redisVars

(* What INCRBY leaves in a key: a missing key counts as zero.              *)
Incremented(v, n) == IF v = NoKey THEN n ELSE v + n

(* Mutant: the compensation does not look at the result of SREM. *)
Rollback_Always(p) ==
  /\ bought' = [bought EXCEPT ![p.sku] = @ \ {p.user}]
  /\ stock' = [stock EXCEPT ![p.sku] = Incremented(@, p.qty)]
  /\ pending' = [pending EXCEPT ![p] = "absent"]
  /\ UNCHANGED skus

(* Mutant: the compensation leaves the pending member. *)
Rollback_NoZrem(p) ==
  IF p.user \in bought[p.sku]
  THEN /\ bought' = [bought EXCEPT ![p.sku] = @ \ {p.user}]
       /\ stock' = [stock EXCEPT ![p.sku] = Incremented(@, p.qty)]
       /\ UNCHANGED <<pending, skus>>
  ELSE UNCHANGED redisVars

(* The compensation script: everything hangs on SREM of the user.          *)
Rollback(p) ==
  IF p.user \in bought[p.sku]
  THEN /\ bought' = [bought EXCEPT ![p.sku] = @ \ {p.user}]
       /\ stock' = [stock EXCEPT ![p.sku] = Incremented(@, p.qty)]
       /\ pending' = [pending EXCEPT ![p] = "absent"]
       /\ UNCHANGED skus
  ELSE UNCHANGED redisVars

(* ZREM of a member of the pending set: the acknowledgement of a purchase. *)
RemovePending(p) ==
  /\ pending' = [pending EXCEPT ![p] = "absent"]
  /\ UNCHANGED <<stock, bought, skus>>

(* SADD seckill:skus.                                                      *)
RegisterSku(k) ==
  /\ skus' = skus \cup {k}
  /\ UNCHANGED <<stock, bought, pending>>

(* The members GetStalePendingRequests returns for SKU k.                  *)
StaleMembers(k) == {p \in Purchases : p.sku = k /\ pending[p] = "stale"}

(* Thirty seconds pass over a pending member.                              *)
GrowStale(p) ==
  /\ pending[p] = "fresh"
  /\ pending' = [pending EXCEPT ![p] = "stale"]
  /\ UNCHANGED <<stock, bought, skus>>

RedisNext ==
  \/ \E p \in Purchases : Deduct(p) \/ Rollback(p) \/ RemovePending(p) \/ GrowStale(p)
  \/ \E k \in Skus : RegisterSku(k)

(* Redis as its clients may use it: any command, by anyone, in any order,  *)
(* any number of times.  Reservation is shown to implement it.             *)
RedisSpec == RedisInit /\ [][RedisNext]_redisVars

-----------------------------------------------------------------------------

UnitQuantities == \A p \in Purchases : p.qty = 1

(* When every purchase is for one item (what the client scripts send), no   *)
(* schedule of deductions, rollbacks, repeated rollbacks and sweeps loses   *)
(* or invents stock: what is not on the shelf is held by exactly as many    *)
(* users as items are missing.                                              *)
StockConserved ==
  UnitQuantities =>
    \A k \in Skus : InitialStock[k] # NoKey =>
      stock[k] + Cardinality(bought[k]) = InitialStock[k]

=============================================================================
