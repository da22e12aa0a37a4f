-------------------------- MODULE LifecycleProofs --------------------------
(***************************************************************************)
(* Proofs about restarts, for every number of nodes and starts, any        *)
(* purchases and any stock.                                                *)
(***************************************************************************)
EXTENDS Lifecycle, FiniteSetTheorems, SequenceTheorems, TLAPS

(* One script keeps the shape of the keys.  That the stock stays a natural *)
(* number is the deduct script's test of the quantity.                     *)
LEMMA RedisTypeStep == RedisTypeOK /\ [RedisNext]_redisVars => RedisTypeOK'
<1> SUFFICES ASSUME RedisTypeOK, [RedisNext]_redisVars
             PROVE  RedisTypeOK'
  OBVIOUS
<1> USE RedisAssumption DEF RedisTypeOK, Ages
<1>1. ASSUME NEW p \in Purchases, Deduct(p) PROVE RedisTypeOK'
  <2>1. p.sku \in Skus /\ p.user \in Users /\ p.qty \in Nat \ {0}
    OBVIOUS
  <2>2. CASE DeductStatus(p) = 1
    <3>1. stock[p.sku] \in Nat /\ p.qty <= stock[p.sku]
      BY <2>1, <2>2 DEF DeductStatus
    <3>2. stock[p.sku] - p.qty \in Nat
      BY <2>1, <3>1
    <3> QED BY <1>1, <2>1, <2>2, <3>2 DEF Deduct
  <2>3. CASE DeductStatus(p) # 1
    BY <1>1, <2>3 DEF Deduct, redisVars
  <2> QED BY <2>2, <2>3
<1>2. ASSUME NEW p \in Purchases, Rollback(p) PROVE RedisTypeOK'
  <2>1. p.sku \in Skus /\ p.user \in Users /\ p.qty \in Nat \ {0}
    OBVIOUS
  <2>2. Incremented(stock[p.sku], p.qty) \in Nat
    BY <2>1 DEF Incremented
  <2> QED BY <1>2, <2>1, <2>2 DEF Rollback, redisVars
<1>3. ASSUME NEW p \in Purchases, RemovePending(p) \/ GrowStale(p) PROVE RedisTypeOK'
  BY <1>3 DEF RemovePending, GrowStale
<1>4. ASSUME NEW k \in Skus, RegisterSku(k) PROVE RedisTypeOK'
  BY <1>4 DEF RegisterSku
<1>5. CASE UNCHANGED redisVars
  BY <1>5 DEF redisVars
<1> QED BY <1>1, <1>2, <1>3, <1>4, <1>5 DEF RedisNext

-----------------------------------------------------------------------------
(* What restarts do to the stock.                                          *)

Stocked == {k \in Skus : InitialStock[k] # NoKey}
Command == [what : {"set", "delBought", "delPending", "register"}, sku : Stocked]

(* What WarmUpInventory asks Redis to do concerns the SKUs of main only.   *)
LEMMA WarmUpCommandsType == WarmUpCommands \in Seq(Command)
<1> USE LifecycleAssumption DEF Stocked
<1>1. WarmUps \in Seq(Stocked)
  OBVIOUS
<1>2. Len(WarmUps) \in Nat
  BY <1>1
<1>3. ASSUME NEW i \in 1 .. 4 * Len(WarmUps)
      PROVE  [what |-> Commands[((i - 1) % 4) + 1], sku |-> WarmUps[((i - 1) \div 4) + 1]] \in Command
  <2>1. ((i - 1) % 4) + 1 \in 1 .. 4
    BY <1>2
  <2>2. Commands[((i - 1) % 4) + 1] \in {"set", "delBought", "delPending", "register"}
    BY <2>1 DEF Commands
  <2>3. ((i - 1) \div 4) + 1 \in 1 .. Len(WarmUps)
    BY <1>2
  <2>4. WarmUps[((i - 1) \div 4) + 1] \in Stocked
    BY <1>1, <2>3
  <2> QED BY <2>2, <2>4 DEF Command
<1>4. 4 * Len(WarmUps) \in Nat
  BY <1>2
<1> HIDE DEF Stocked
<1> QED BY <1>3, <1>4 DEF WarmUpCommands

TypeInv ==
  /\ RedisTypeOK
  /\ warming \in [Nodes -> Seq(Command)]
  /\ sets \in [Skus -> Nat]
  /\ net \in [Skus -> Int]

LEMMA RunType ==
  ASSUME TypeInv, NEW c \in Command, Run(c)
  PROVE  RedisTypeOK' /\ sets' \in [Skus -> Nat]
<1> USE RedisAssumption DEF TypeInv
<1>1. /\ c.sku \in Skus /\ InitialStock[c.sku] \in Nat
  BY DEF Command, Stocked
<1>2. CASE SetStock(c.sku)
  BY <1>1, <1>2 DEF SetStock, RedisTypeOK
<1>3. CASE DelBought(c.sku)
  BY <1>1, <1>3 DEF DelBought, RedisTypeOK
<1>4. CASE DelPending(c.sku)
  BY <1>1, <1>4 DEF DelPending, RedisTypeOK, Ages
<1>5. CASE RegisterSku(c.sku) /\ UNCHANGED <<sets, cleared>>
  <2>1. RedisTypeOK'
    BY <1>1, <1>5, RedisTypeStep DEF RedisNext
  <2> QED BY <1>5, <2>1
<1> QED BY <1>2, <1>3, <1>4, <1>5 DEF Run

(* What is on the shelf, a missing key being none. *)
OnShelf(k) == IF stock[k] = NoKey THEN 0 ELSE stock[k]

(* The bound of one SKU, by itself. *)
Bounded(k) == OnShelf(k) + net[k] <= InitialStock[k] * sets[k]

(* SET forgets what was on the shelf, and that was not negative.           *)
LEMMA SetKeepsBound ==
  ASSUME TypeInv, NEW k \in Stocked, Bounded(k), NEW j \in Stocked, SetStock(j), UNCHANGED net
  PROVE  Bounded(k)'
<1> USE RedisAssumption
<1>1. /\ k \in Skus /\ j \in Skus /\ InitialStock[k] \in Nat /\ InitialStock[k] # NoKey
  BY DEF Stocked
<1>2. /\ sets[k] \in Nat /\ net[k] \in Int /\ OnShelf(k) \in Nat
  BY <1>1 DEF TypeInv, RedisTypeOK, OnShelf
<1>3. CASE j = k
  <2>1. stock'[k] = InitialStock[k] /\ sets'[k] = sets[k] + 1
    BY <1>1, <1>3 DEF SetStock, TypeInv, RedisTypeOK
  <2>2. \A i, s \in Nat : i * (s + 1) = i * s + i
    OBVIOUS
  <2>3. InitialStock[k] * sets'[k] = InitialStock[k] * sets[k] + InitialStock[k]
    BY <1>1, <1>2, <2>1, <2>2
  <2>4. InitialStock[k] * sets[k] \in Nat
    BY <1>1, <1>2
  <2>5. OnShelf(k)' = InitialStock[k]
    BY <1>1, <2>1 DEF OnShelf
  <2>6. OnShelf(k) + net[k] <= InitialStock[k] * sets[k]
    BY DEF Bounded
  <2>7. OnShelf(k)' + net'[k] <= InitialStock[k] * sets'[k]
    BY <1>1, <1>2, <2>3, <2>4, <2>5, <2>6
  <2> QED BY <2>7 DEF Bounded
<1>4. CASE j # k
  <2>1. stock'[k] = stock[k] /\ sets'[k] = sets[k] /\ net'[k] = net[k]
    BY <1>1, <1>4 DEF SetStock, TypeInv, RedisTypeOK
  <2> QED BY <2>1 DEF Bounded, OnShelf
<1> QED BY <1>3, <1>4

(* The shelf and what is taken off it change together, or not at all.      *)
LEMMA TradeKeepsTotal ==
  ASSUME TypeInv, NEW p \in Purchases,
         GiveBack(p) \/ TakeFromShelf(p)
  PROVE  /\ RedisTypeOK' /\ net' \in [Skus -> Int]
         /\ \A k \in Skus : OnShelf(k)' + net'[k] = OnShelf(k) + net[k]
<1> USE RedisAssumption DEF TypeInv
<1>1. p.sku \in Skus /\ p.qty \in Nat
  OBVIOUS
<1>2. RedisTypeOK'
  BY RedisTypeStep DEF GiveBack, TakeFromShelf, RedisNext
<1>3. net' \in [Skus -> Int]
  BY <1>1 DEF GiveBack, TakeFromShelf
<1>4. ASSUME NEW k \in Skus PROVE OnShelf(k)' + net'[k] = OnShelf(k) + net[k]
  <2>1. (stock[k] \in Nat \/ stock[k] = NoKey) /\ net[k] \in Int
    BY DEF RedisTypeOK
  <2>2. CASE stock'[k] = stock[k] /\ net'[k] = net[k]
    BY <2>2 DEF OnShelf
  <2>3. CASE GiveBack(p) /\ p.user \in bought[p.sku] /\ k = p.sku
    <3>1. stock'[k] = Incremented(stock[k], p.qty) /\ net'[k] = net[k] - p.qty
      BY <1>1, <2>3 DEF GiveBack, Rollback, RedisTypeOK
    <3> QED BY <1>1, <2>1, <3>1 DEF OnShelf, Incremented
  <2>4. CASE /\ Deduct(p) /\ DeductStatus(p) = 1 /\ k = p.sku
             /\ net' = [net EXCEPT ![p.sku] = @ + p.qty]
    <3>1. stock[k] # NoKey /\ stock[k] >= p.qty
      BY <1>1, <2>1, <2>4 DEF DeductStatus
    <3>2. stock'[k] = stock[k] - p.qty /\ net'[k] = net[k] + p.qty
      BY <1>1, <2>4 DEF Deduct, RedisTypeOK
    <3>3. stock[k] - p.qty \in Int
      BY <1>1, <2>1, <3>1
    <3> QED BY <1>1, <2>1, <3>1, <3>2, <3>3 DEF OnShelf
  <2>5. \/ stock'[k] = stock[k] /\ net'[k] = net[k]
        \/ GiveBack(p) /\ p.user \in bought[p.sku] /\ k = p.sku
        \/ /\ Deduct(p) /\ DeductStatus(p) = 1 /\ k = p.sku
           /\ net' = [net EXCEPT ![p.sku] = @ + p.qty]
    BY <1>1 DEF GiveBack, TakeFromShelf, Rollback, Deduct, redisVars, RedisTypeOK
  <2> QED BY <2>2, <2>3, <2>4, <2>5
<1> QED BY <1>2, <1>3, <1>4

(* What the sweepers have fetched, and what they have in hand.             *)
SweepTypeOK ==
  /\ todo \in [Nodes -> SUBSET Purchases]
  /\ acking \in [Nodes -> Purchases \cup {None}]
  /\ rolling \in [Nodes -> Purchases \cup {None}]

LEMMA SweepTypeStep == SweepTypeOK /\ [Next]_vars => SweepTypeOK'
<1> SUFFICES ASSUME SweepTypeOK, [Next]_vars PROVE SweepTypeOK'
  OBVIOUS
<1>1. CASE UNCHANGED sweepVars
  BY <1>1 DEF SweepTypeOK, sweepVars
<1>2. ASSUME NEW n \in Nodes, Crash(n) PROVE SweepTypeOK'
  BY <1>2 DEF Crash, SweepTypeOK
<1>3. ASSUME NEW n \in Nodes, NEW k \in Skus, Sweep(n, k) PROVE SweepTypeOK'
  <2>1. StaleMembers(k) \in SUBSET Purchases
    BY DEF StaleMembers
  <2> QED BY <1>3, <2>1 DEF Sweep, SweepTypeOK
<1>4. ASSUME NEW n \in Nodes, SweepCheck(n) PROVE SweepTypeOK'
  <2>1. PICK p \in todo[n] :
          /\ todo' = [todo EXCEPT ![n] = @ \ {p}]
          /\ acking' = acking \/ acking' = [acking EXCEPT ![n] = p]
          /\ rolling' = rolling \/ rolling' = [rolling EXCEPT ![n] = p]
    BY <1>4 DEF SweepCheck
  <2>2. p \in Purchases
    BY DEF SweepTypeOK
  <2> QED BY <2>1, <2>2 DEF SweepTypeOK
<1>5. ASSUME NEW n \in Nodes, SweepAck(n) \/ SweepBack(n) PROVE SweepTypeOK'
  BY <1>5 DEF SweepAck, SweepBack, SweepTypeOK
<1>6. ASSUME NEW n \in Nodes, StartProcess(n) \/ WarmUp(n) \/ StartEngine(n) PROVE UNCHANGED sweepVars
  BY <1>6 DEF StartProcess, WarmUp, StartEngine
<1>7. ASSUME NEW p \in Purchases, Purchase(p) \/ TimePasses(p) PROVE UNCHANGED sweepVars
  BY <1>7 DEF Purchase, Buy, Register, Reject, Process, Log, Commit, Ack, TurnBack, TimePasses
<1>8. CASE UNCHANGED vars
  BY <1>1, <1>8 DEF vars
<1> QED BY <1>1, <1>2, <1>3, <1>4, <1>5, <1>6, <1>7, <1>8 DEF Next, Node, Sweeper

LifecycleInv == SweepTypeOK /\ TypeInv /\ \A k \in Stocked : Bounded(k)

LEMMA LifecycleInit == Init => LifecycleInv
<1> USE RedisAssumption, LifecycleAssumption
<1> SUFFICES ASSUME Init PROVE LifecycleInv
  OBVIOUS
<1>1. SweepTypeOK /\ TypeInv
  BY DEF Init, SweepTypeOK, TypeInv, RedisTypeOK, Ages
<1>2. ASSUME NEW k \in Stocked PROVE Bounded(k)
  <2>1. k \in Skus /\ InitialStock[k] \in Nat
    BY DEF Stocked
  <2>2. OnShelf(k) = 0 /\ net[k] = 0 /\ sets[k] = 0
    BY <2>1 DEF Init, OnShelf
  <2>3. InitialStock[k] * 0 = 0
    BY <2>1
  <2> QED BY <2>2, <2>3 DEF Bounded
<1> QED BY <1>1, <1>2 DEF LifecycleInv

(* No step of any node lifts a SKU above its bound.                        *)
LEMMA LifecycleStep == LifecycleInv /\ [Next]_vars => LifecycleInv'
<1> USE RedisAssumption, LifecycleAssumption
<1> SUFFICES ASSUME LifecycleInv, [Next]_vars PROVE LifecycleInv'
  OBVIOUS
<1>0. TypeInv
  BY DEF LifecycleInv
<1>s. SweepTypeOK'
  BY SweepTypeStep DEF LifecycleInv
<1>1. ASSUME RedisTypeOK', UNCHANGED <<stock, sets, net>>, warming' \in [Nodes -> Seq(Command)]
      PROVE  LifecycleInv'
  BY <1>s, <1>1 DEF LifecycleInv, TypeInv, Bounded, OnShelf
<1>2. ASSUME NEW p \in Purchases, UNCHANGED <<warming, sets>>, GiveBack(p) \/ TakeFromShelf(p)
      PROVE  LifecycleInv'
  <2>1. /\ TypeInv'
        /\ \A k \in Skus : OnShelf(k)' + net'[k] = OnShelf(k) + net[k]
    BY <1>0, <1>2, TradeKeepsTotal DEF TypeInv
  <2>2. ASSUME NEW k \in Stocked PROVE Bounded(k)'
    BY <1>2, <2>1 DEF LifecycleInv, Bounded, Stocked
  <2> QED BY <1>s, <2>1, <2>2 DEF LifecycleInv
<1>3. ASSUME NEW n \in Nodes, StartProcess(n) PROVE LifecycleInv'
  <2>1. warming' \in [Nodes -> Seq(Command)]
    BY <1>0, <1>3, WarmUpCommandsType DEF StartProcess, TypeInv
  <2>2. RedisTypeOK'
    BY <1>0, <1>3 DEF StartProcess, redisVars, TypeInv, RedisTypeOK
  <2> QED BY <1>1, <1>3, <2>1, <2>2 DEF StartProcess, redisVars
<1>4. ASSUME NEW n \in Nodes, WarmUp(n) PROVE LifecycleInv'
  <2>1. /\ warming[n] \in Seq(Command) /\ warming[n] # <<>>
        /\ warming' = [warming EXCEPT ![n] = Tail(@)] /\ UNCHANGED net
    BY <1>0, <1>4 DEF WarmUp, TypeInv
  <2>2. Head(warming[n]) \in Command /\ Tail(warming[n]) \in Seq(Command)
    BY <2>1
  <2>3. warming' \in [Nodes -> Seq(Command)]
    BY <1>0, <2>1, <2>2 DEF TypeInv
  <2>4. CASE UNCHANGED <<redisVars, sets, cleared>>
    <3>1. RedisTypeOK'
      BY <1>0, <2>4 DEF redisVars, TypeInv, RedisTypeOK
    <3> QED BY <1>1, <2>1, <2>3, <2>4, <3>1 DEF redisVars
  <2>5. CASE Run(Head(warming[n]))
    <3>1. TypeInv'
      BY <1>0, <2>1, <2>2, <2>3, <2>5, RunType DEF TypeInv
    <3>2. ASSUME NEW k \in Stocked PROVE Bounded(k)'
      <4>1. Head(warming[n]).sku \in Stocked /\ Bounded(k)
        BY <2>2 DEF Command, LifecycleInv
      <4>2. CASE SetStock(Head(warming[n]).sku)
        BY <1>0, <2>1, <4>1, <4>2, SetKeepsBound
      <4>3. CASE UNCHANGED <<stock, sets>>
        BY <2>1, <4>1, <4>3 DEF Bounded, OnShelf
      <4> QED BY <2>5, <4>2, <4>3 DEF Run, DelBought, DelPending, RegisterSku
    <3> QED BY <1>s, <3>1, <3>2 DEF LifecycleInv
  <2> QED BY <1>4, <2>4, <2>5 DEF WarmUp
<1>5. ASSUME NEW n \in Nodes, StartEngine(n) \/ Crash(n) PROVE LifecycleInv'
  <2>0. <<>> \in Seq(Command)
    OBVIOUS
  <2>1. UNCHANGED <<redisVars, sets, net>> /\ warming' \in [Nodes -> Seq(Command)]
    <3>1. CASE StartEngine(n)
      BY <1>0, <3>1 DEF StartEngine, TypeInv
    <3>2. CASE Crash(n)
      BY <1>0, <2>0, <3>2 DEF Crash, TypeInv
    <3> QED BY <1>5, <3>1, <3>2
  <2>2. RedisTypeOK'
    BY <1>0, <2>1 DEF redisVars, TypeInv, RedisTypeOK
  <2> QED BY <1>1, <2>1, <2>2 DEF redisVars
<1>u. ASSUME UNCHANGED <<redisVars, sets, net, warming>> PROVE LifecycleInv'
  <2>1. RedisTypeOK'
    BY <1>0, <1>u DEF redisVars, TypeInv, RedisTypeOK
  <2> QED BY <1>0, <1>1, <1>u, <2>1 DEF redisVars, TypeInv
<1>a. ASSUME NEW p \in Purchases, RemovePending(p), UNCHANGED <<sets, net, warming>>
      PROVE  LifecycleInv'
  <2>1. RedisTypeOK'
    BY <1>0, <1>a, RedisTypeStep DEF RedisNext, TypeInv
  <2> QED BY <1>0, <1>1, <1>a, <2>1 DEF RemovePending, TypeInv
<1>6. ASSUME NEW p \in Purchases, Register(p) \/ Reject(p) \/ Process(p) \/ Log(p) \/ Commit(p)
      PROVE  LifecycleInv'
  <2>1. p.sku \in Skus
    OBVIOUS
  <2>2. [RedisNext]_redisVars
    BY <1>6, <2>1 DEF Register, Reject, Process, Log, Commit, RedisNext
  <2>3. UNCHANGED <<stock, sets, net, warming>>
    BY <1>6 DEF Register, Reject, Process, Log, Commit, RegisterSku, redisVars, nodeVars
  <2> QED BY <1>0, <1>1, <2>2, <2>3, RedisTypeStep DEF TypeInv
<1>7. ASSUME NEW p \in Purchases, Buy(p) \/ TurnBack(p) \/ Ack(p) PROVE LifecycleInv'
  <2>1. /\ UNCHANGED <<warming, sets>>
        /\ \/ GiveBack(p) \/ TakeFromShelf(p)
           \/ UNCHANGED <<redisVars, net>>
           \/ RemovePending(p) /\ UNCHANGED net
    BY <1>7 DEF Buy, TurnBack, Ack, nodeVars
  <2> QED BY <1>2, <1>u, <1>a, <2>1
<1>8. ASSUME NEW n \in Nodes, Sweeper(n) \/ \E k \in Skus : Sweep(n, k) PROVE LifecycleInv'
  <2>0. acking \in [Nodes -> Purchases \cup {None}] /\ rolling \in [Nodes -> Purchases \cup {None}]
    BY DEF LifecycleInv, SweepTypeOK
  <2>1. /\ UNCHANGED <<warming, sets>>
        /\ \/ UNCHANGED <<redisVars, net>>
           \/ \E p \in Purchases : GiveBack(p) \/ (RemovePending(p) /\ UNCHANGED net)
    BY <1>8, <2>0 DEF Sweeper, Sweep, SweepCheck, SweepAck, SweepBack, nodeVars
  <2> QED BY <1>2, <1>u, <1>a, <2>1
<1>9. ASSUME NEW p \in Purchases, TimePasses(p) PROVE LifecycleInv'
  <2>1. RedisTypeOK'
    BY <1>0, <1>9, RedisTypeStep DEF TimePasses, RedisNext, TypeInv
  <2> QED BY <1>0, <1>1, <1>9, <2>1 DEF TimePasses, GrowStale, nodeVars, TypeInv
<1>10. CASE UNCHANGED vars
  <2>1. RedisTypeOK'
    BY <1>0, <1>10 DEF vars, redisVars, TypeInv, RedisTypeOK
  <2> QED BY <1>0, <1>1, <1>10, <2>1 DEF vars, redisVars, nodeVars, TypeInv
<1> QED BY <1>3, <1>4, <1>5, <1>6, <1>7, <1>8, <1>9, <1>10 DEF Next, Node, Purchase

(* Restarts sell the stock again, but never more than it was set: for any  *)
(* number of nodes, starts, crashes, lost commands and sweeps.             *)
THEOREM RestartsAreBounded == Spec => []StockBoundedByWarmUps
<1>1. LifecycleInv => StockBoundedByWarmUps
  BY DEF LifecycleInv, Bounded, OnShelf, Stocked, StockBoundedByWarmUps
<1> QED BY <1>1, LifecycleInit, LifecycleStep, PTL DEF Spec

-----------------------------------------------------------------------------
(* One order more than the deletions of the user's reservation.            *)

(* The purchase may still become an order, or is one.                      *)
Live(p) == at[p] \in {"deducted", "registered", "logging", "turned"} \/ p \in toCommit \cup orders

(* Sweeper n may still roll p back.                                        *)
Listed(n, p) == p \in todo[n] \/ p = rolling[n]
InSweep(p) == \E n \in Nodes : Listed(n, p)

(* The purchases of a user that are alive or that a sweeper may still give *)
(* back, from the pending set or from what it has fetched: each stands for *)
(* one passage of the bought set.                                          *)
Held(k, u) ==
  {p \in Purchases : /\ p.sku = k /\ p.user = u
                     /\ Live(p) \/ pending[p] # "absent" \/ InSweep(p)}

(* The passages the user has had: one per deletion, and the present one.   *)
Allowance(k, u) == cleared[k][u] + IF u \in bought[k] THEN 1 ELSE 0

Covered(k, u) == IsFiniteSet(Held(k, u)) /\ Cardinality(Held(k, u)) <= Allowance(k, u)

Progress == {"new", "deducted", "registered", "logging", "turned",
             "sold", "dropped", "refused", "failed", "dead"}

FlowInv ==
  /\ RedisTypeOK
  /\ warming \in [Nodes -> Seq(Command)]
  /\ cleared \in [Skus -> [Users -> Nat]]
  /\ at \in [Purchases -> Progress]
  /\ toCommit \subseteq Purchases /\ orders \subseteq Purchases
  /\ \A p \in Purchases : at[p] = "new" => pending[p] = "absent"
  /\ \A p \in Purchases : p \in toCommit \cup toAck \cup orders => at[p] \in {"sold", "dead"}
  /\ "slow" \notin Faults => \A p \in Purchases : pending[p] = "stale" => ~InFlight(p)

LEMMA FlowInit == Init => FlowInv
BY RedisAssumption DEF Init, FlowInv, RedisTypeOK, Ages, InFlight, Progress

(* Without slow calls no purchase that is under way is stale.              *)
LEMMA FlowStep == FlowInv /\ RedisTypeOK' /\ [Next]_vars => FlowInv'
<1> SUFFICES ASSUME FlowInv, RedisTypeOK', [Next]_vars PROVE FlowInv'
  OBVIOUS
<1> USE RedisAssumption, LifecycleAssumption DEF Progress
<1>1. ASSUME NEW n \in Nodes, Node(n) PROVE FlowInv'
  <2>1. CASE StartProcess(n)
    <3>1. warming' \in [Nodes -> Seq(Command)]
      BY <2>1, WarmUpCommandsType DEF StartProcess, FlowInv
    <3> QED BY <2>1, <3>1 DEF StartProcess, redisVars, flowVars, FlowInv, InFlight
  <2>2. CASE WarmUp(n)
    <3>1. /\ warming[n] \in Seq(Command) /\ warming[n] # <<>>
          /\ warming' = [warming EXCEPT ![n] = Tail(@)] /\ UNCHANGED flowVars
      BY <2>2 DEF WarmUp, FlowInv
    <3>2. Head(warming[n]) \in Command /\ Tail(warming[n]) \in Seq(Command)
      BY <3>1
    <3>3. warming' \in [Nodes -> Seq(Command)]
      BY <3>1, <3>2 DEF FlowInv
    <3>c. PICK c \in Command : c = Head(warming[n])
      BY <3>2
    <3>4. /\ cleared' \in [Skus -> [Users -> Nat]]
          /\ \A p \in Purchases : pending'[p] \in {pending[p], "absent"}
      <4>1. c.sku \in Skus
        BY <3>2 DEF Command, Stocked
      <4>0. \/ SetStock(c.sku) \/ DelBought(c.sku) \/ DelPending(c.sku)
            \/ RegisterSku(c.sku) /\ UNCHANGED <<sets, cleared>>
            \/ UNCHANGED <<redisVars, sets, cleared>>
        <5>1. Run(c) \/ UNCHANGED <<redisVars, sets, cleared>>
          BY <2>2, <3>c DEF WarmUp
        <5> QED BY <5>1 DEF Run
      <4>2. CASE SetStock(c.sku) \/ (RegisterSku(c.sku) /\ UNCHANGED <<sets, cleared>>)
        BY <4>2 DEF SetStock, RegisterSku, FlowInv
      <4>3. CASE DelBought(c.sku)
        BY <4>1, <4>3 DEF DelBought, FlowInv
      <4>4. CASE DelPending(c.sku)
        BY <4>4 DEF DelPending, FlowInv
      <4>5. CASE UNCHANGED <<redisVars, sets, cleared>>
        BY <4>5 DEF redisVars, FlowInv
      <4> QED BY <4>0, <4>2, <4>3, <4>4, <4>5
    <3> QED BY <3>1, <3>3, <3>4 DEF flowVars, FlowInv, InFlight, Ages, RedisTypeOK
  <2>3. CASE StartEngine(n)
    BY <2>3 DEF StartEngine, redisVars, flowVars, FlowInv, InFlight
  <2>4. CASE Crash(n)
    <3>1. <<>> \in Seq(Command)
      OBVIOUS
    <3>2. warming' \in [Nodes -> Seq(Command)]
      BY <2>4, <3>1 DEF Crash, FlowInv
    <3>3. /\ UNCHANGED <<redisVars, orders, cleared>>
          /\ toCommit' \subseteq toCommit /\ toAck' \subseteq toAck
          /\ at' \in [Purchases -> Progress]
          /\ \A p \in Purchases : at'[p] \in {at[p], "dead"}
      BY <2>4 DEF Crash, FlowInv
    <3> QED BY <3>2, <3>3 DEF redisVars, FlowInv, InFlight
  <2> QED BY <1>1, <2>1, <2>2, <2>3, <2>4 DEF Node
<1>2. ASSUME NEW p \in Purchases, Buy(p) PROVE FlowInv'
  <2>1. /\ at[p] = "new" /\ UNCHANGED <<warming, cleared, toCommit, toAck, orders>>
        /\ \/ at' = [at EXCEPT ![p] = "deducted"] /\ pending' = [pending EXCEPT ![p] = "fresh"]
           \/ /\ at' = [at EXCEPT ![p] = "refused"] \/ at' = [at EXCEPT ![p] = "failed"]
              /\ pending' = pending \/ pending' = [pending EXCEPT ![p] = "fresh"]
    BY <1>2 DEF Buy, TakeFromShelf, Goes, Deduct, redisVars, nodeVars
  <2>2. /\ at' \in [Purchases -> Progress] /\ at'[p] \in {"deducted", "refused", "failed"}
        /\ \A q \in Purchases : q # p => at'[q] = at[q] /\ pending'[q] = pending[q]
        /\ at'[p] = "deducted" => pending'[p] = "fresh"
    <3>1. at \in [Purchases -> Progress] /\ pending \in [Purchases -> Ages]
      BY DEF FlowInv, RedisTypeOK
    <3>2. CASE at' = [at EXCEPT ![p] = "deducted"] /\ pending' = [pending EXCEPT ![p] = "fresh"]
      BY <3>1, <3>2
    <3>3. CASE at' = [at EXCEPT ![p] = "refused"] \/ at' = [at EXCEPT ![p] = "failed"]
      <4>1. at' \in [Purchases -> Progress] /\ at'[p] \in {"refused", "failed"}
            /\ \A q \in Purchases : q # p => at'[q] = at[q]
        BY <3>1, <3>3
      <4>2. \A q \in Purchases : q # p => pending'[q] = pending[q]
        BY <2>1, <3>1
      <4> QED BY <4>1, <4>2
    <3> QED BY <2>1, <3>2, <3>3
  <2> HIDE DEF Progress
  <2> QED BY <2>1, <2>2 DEF FlowInv, InFlight
<1>3. ASSUME NEW p \in Purchases, Register(p) \/ Reject(p) \/ Process(p) PROVE FlowInv'
  <2>1. /\ UNCHANGED <<pending, warming, cleared, toCommit, toAck, orders>>
        /\ \/ at[p] = "deducted" /\ at' = [at EXCEPT ![p] = "registered"]
           \/ at[p] = "registered" /\ \E s \in {"dropped", "turned", "logging"} : at' = [at EXCEPT ![p] = s]
    BY <1>3 DEF Register, Reject, Process, Goes, RegisterSku, redisVars, nodeVars
  <2> QED BY <2>1 DEF FlowInv, InFlight
<1>4. ASSUME NEW p \in Purchases, Log(p) PROVE FlowInv'
  BY <1>4 DEF Log, Goes, redisVars, nodeVars, FlowInv, InFlight
<1>5. ASSUME NEW p \in Purchases, Commit(p) \/ Ack(p) PROVE FlowInv'
  <2>0. UNCHANGED <<at, warming, cleared>>
    BY <1>5 DEF Commit, Ack, nodeVars
  <2>1. /\ UNCHANGED <<at, warming, cleared>>
        /\ toCommit' \subseteq toCommit /\ toAck' \subseteq toAck
        /\ orders' = orders \/ (p \in toCommit /\ orders' = orders \cup {p})
        /\ pending' = pending \/ pending' = [pending EXCEPT ![p] = "absent"]
    <3>1. CASE Commit(p)
      BY <2>0, <3>1 DEF Commit, redisVars
    <3>2. CASE Ack(p)
      BY <2>0, <3>2 DEF Ack, RemovePending, redisVars
    <3> QED BY <1>5, <3>1, <3>2
  <2>2. \A q \in Purchases : pending'[q] \in {pending[q], "absent"}
    BY <2>1 DEF FlowInv, RedisTypeOK
  <2>3. /\ (toCommit \cup toAck \cup orders)' \subseteq toCommit \cup toAck \cup orders
        /\ toCommit' \subseteq Purchases /\ orders' \subseteq Purchases
    BY <2>1 DEF FlowInv
  <2> HIDE DEF Progress
  <2> QED BY <2>1, <2>2, <2>3 DEF FlowInv, InFlight
<1>6. ASSUME NEW p \in Purchases, TurnBack(p) PROVE FlowInv'
  <2>1. /\ at[p] = "turned"
        /\ at' = [at EXCEPT ![p] = "refused"] \/ at' = [at EXCEPT ![p] = "turned"]
        /\ UNCHANGED <<warming, cleared, toCommit, toAck, orders>>
        /\ pending' = pending \/ pending' = [pending EXCEPT ![p] = "absent"]
    BY <1>6 DEF TurnBack, Goes, GiveBack, Rollback, redisVars, nodeVars
  <2>2. /\ at' \in [Purchases -> Progress] /\ at'[p] \in {"refused", "turned"}
        /\ \A q \in Purchases : q # p => at'[q] = at[q]
        /\ \A q \in Purchases : pending'[q] \in {pending[q], "absent"}
    BY <2>1 DEF FlowInv, RedisTypeOK
  <2> HIDE DEF Progress
  <2> QED BY <2>1, <2>2 DEF FlowInv, InFlight
<1>7. ASSUME NEW n \in Nodes, Sweeper(n) \/ \E k \in Skus : Sweep(n, k) PROVE FlowInv'
  <2>1. /\ UNCHANGED <<warming, cleared, flowVars>>
        /\ pending' = pending \/ \E p : pending' = [pending EXCEPT ![p] = "absent"]
    BY <1>7 DEF Sweeper, Sweep, SweepCheck, SweepAck, SweepBack, GiveBack, Rollback, RemovePending,
                redisVars, nodeVars
  <2>2. \A q \in Purchases : pending'[q] \in {pending[q], "absent"}
    BY <2>1 DEF FlowInv, RedisTypeOK
  <2> HIDE DEF Progress
  <2> QED BY <2>1, <2>2 DEF flowVars, FlowInv, InFlight
<1>8. ASSUME NEW p \in Purchases, TimePasses(p) PROVE FlowInv'
  BY <1>8 DEF TimePasses, GrowStale, nodeVars, flowVars, FlowInv, InFlight, RedisTypeOK
<1>9. CASE UNCHANGED vars
  BY <1>9 DEF vars, redisVars, nodeVars, flowVars, FlowInv, InFlight
<1> QED BY <1>1, <1>2, <1>3, <1>4, <1>5, <1>6, <1>7, <1>8, <1>9 DEF Next, Purchase

(* Nobody works on p any more, and nobody will.                            *)
Over(p) == at[p] # "new" /\ ~InFlight(p)

(* What a sweeper has fetched is over.  What it rolls back has no order,   *)
(* and it does so once per fetch.                                          *)
SweepInv ==
  /\ SweepTypeOK
  /\ \A n \in Nodes, p \in Purchases : Listed(n, p) => n \in Sweepers /\ Over(p)
  /\ \A n \in Nodes : rolling[n] \notin orders \cup todo[n]

LEMMA OverStays ==
  ASSUME FlowInv, [Next]_vars, NEW p \in Purchases, Over(p)
  PROVE  Over(p)' /\ (p \in orders' => p \in orders)
<1>1. CASE UNCHANGED flowVars
  BY <1>1 DEF flowVars, Over, InFlight
<1>2. ASSUME NEW n \in Nodes, Crash(n) PROVE Over(p)' /\ (p \in orders' => p \in orders)
  BY <1>2 DEF Crash, Over, InFlight
<1>3. ASSUME NEW q \in Purchases, Buy(q) \/ Register(q) \/ Reject(q) \/ Process(q) \/ TurnBack(q)
      PROVE  Over(p)' /\ (p \in orders' => p \in orders)
  <2>1. /\ at[q] \in {"new", "deducted", "registered", "turned"}
        /\ \E s : at' = [at EXCEPT ![q] = s]
        /\ UNCHANGED <<toCommit, toAck, orders>>
    BY <1>3 DEF Buy, Register, Reject, Process, TurnBack, Goes
  <2> QED BY <2>1 DEF Over, InFlight, FlowInv
<1>4. ASSUME NEW q \in Purchases, Log(q) PROVE Over(p)' /\ (p \in orders' => p \in orders)
  BY <1>4 DEF Log, Goes, Over, InFlight, FlowInv
<1>5. ASSUME NEW q \in Purchases, Commit(q) \/ Ack(q) PROVE Over(p)' /\ (p \in orders' => p \in orders)
  BY <1>5 DEF Commit, Ack, Over, InFlight
<1>6. ASSUME NEW n \in Nodes,
             \/ StartProcess(n) \/ WarmUp(n) \/ StartEngine(n)
             \/ Sweeper(n) \/ \E k \in Skus : Sweep(n, k)
      PROVE  UNCHANGED flowVars
  BY <1>6 DEF StartProcess, WarmUp, StartEngine, Sweeper, Sweep, SweepCheck, SweepAck, SweepBack
<1>7. ASSUME NEW q \in Purchases, TimePasses(q) PROVE UNCHANGED flowVars
  BY <1>7 DEF TimePasses
<1>8. CASE UNCHANGED vars
  BY <1>1, <1>8 DEF vars
<1> QED BY <1>1, <1>2, <1>3, <1>4, <1>5, <1>6, <1>7, <1>8 DEF Next, Node, Purchase

LEMMA SweepInvStep ==
  ASSUME RollbacksRunOnce, FlowInv, SweepInv, [Next]_vars
  PROVE  SweepInv'
<1> USE LifecycleAssumption
<1>0. SweepTypeOK /\ SweepTypeOK'
  BY SweepTypeStep DEF SweepInv
<1>1. ASSUME NEW n \in Nodes, NEW p \in Purchases, Listed(n, p)
      PROVE  n \in Sweepers /\ Over(p) /\ Over(p)' /\ (p \in orders' => p \in orders)
  BY <1>1, OverStays DEF SweepInv
<1>2. ASSUME \A n \in Nodes : todo'[n] \subseteq todo[n] /\ rolling'[n] \in {rolling[n], None}
      PROVE  SweepInv'
  <2>1. ASSUME NEW n \in Nodes, NEW p \in Purchases, Listed(n, p)' PROVE (n \in Sweepers /\ Over(p))'
    <3>1. Listed(n, p)
      BY <1>2, <2>1 DEF Listed
    <3> QED BY <1>1, <3>1
  <2>2. ASSUME NEW n \in Nodes PROVE rolling'[n] \notin orders' \cup todo'[n]
    <3>1. orders' \subseteq Purchases /\ todo'[n] \subseteq Purchases
      <4>1. \A q \in Purchases : Commit(q) => orders' \subseteq orders \cup {q}
        BY DEF Commit
      <4>2. orders' = orders \/ \E q \in Purchases : Commit(q)
        BY DEF Next, vars, flowVars, Node, Purchase, Sweeper, StartProcess, WarmUp, StartEngine, Crash,
               Sweep, SweepCheck, SweepAck, SweepBack, Buy, Register, Reject, Process, Log, Ack, TurnBack,
               TimePasses
      <4> QED BY <1>0, <4>1, <4>2 DEF FlowInv, SweepTypeOK
    <3>2. CASE rolling'[n] = None
      BY <3>1, <3>2
    <3>3. CASE rolling'[n] = rolling[n] /\ rolling[n] # None
      <4>1. rolling[n] \in Purchases /\ Listed(n, rolling[n]) /\ rolling[n] \notin orders \cup todo[n]
        BY <1>0, <3>3 DEF SweepTypeOK, Listed, SweepInv
      <4> QED BY <1>1, <1>2, <3>3, <4>1
    <3> QED BY <1>2, <3>2, <3>3
  <2> QED BY <1>0, <2>1, <2>2 DEF SweepInv
<1>3. ASSUME NEW n \in Nodes, NEW k \in Skus, Sweep(n, k) PROVE SweepInv'
  <2>1. /\ n \in Sweepers /\ UNCHANGED <<rolling, flowVars, pending>>
        /\ rolling[n] = None /\ todo' = [todo EXCEPT ![n] = StaleMembers(k)]
    BY <1>3 DEF Sweep, redisVars
  <2>2. ASSUME NEW m \in Nodes, NEW p \in Purchases, Listed(m, p)' PROVE (m \in Sweepers /\ Over(p))'
    <3>1. CASE Listed(m, p)
      BY <1>1, <3>1
    <3>2. CASE m = n /\ p \in StaleMembers(k)
      <4>1. Over(p)
        BY <3>2 DEF StaleMembers, FlowInv, Over, RollbacksRunOnce
      <4> QED BY <2>1, <3>2, <4>1, OverStays
    <3> QED BY <1>0, <2>1, <2>2, <3>1, <3>2 DEF Listed, SweepTypeOK
  <2>3. ASSUME NEW m \in Nodes PROVE rolling'[m] \notin orders' \cup todo'[m]
    BY <1>0, <2>1 DEF SweepInv, SweepTypeOK, flowVars, StaleMembers, FlowInv
  <2> QED BY <1>0, <2>2, <2>3 DEF SweepInv
<1>4. ASSUME NEW n \in Nodes, SweepCheck(n) PROVE SweepInv'
  <2>1. PICK p \in todo[n] :
          /\ todo' = [todo EXCEPT ![n] = @ \ {p}]
          /\ \/ UNCHANGED rolling
             \/ ~HasOrder(p) /\ rolling' = [rolling EXCEPT ![n] = p]
    BY <1>4 DEF SweepCheck
  <2>2. CASE UNCHANGED rolling
    BY <1>0, <1>2, <2>1, <2>2 DEF SweepTypeOK
  <2>3. CASE ~HasOrder(p) /\ rolling' = [rolling EXCEPT ![n] = p]
    <3>1. p \in Purchases /\ p \notin orders /\ UNCHANGED orders
      BY <1>0, <1>4, <2>1, <2>3 DEF SweepTypeOK, HasOrder, SweepCheck, flowVars
    <3>2. \A m \in Nodes, q \in Purchases : Listed(m, q)' => Listed(m, q)
      BY <1>0, <2>1, <2>3 DEF SweepTypeOK, Listed
    <3>3. \A m \in Nodes : rolling'[m] \notin orders' \cup todo'[m]
      BY <1>0, <2>1, <2>3, <3>1 DEF SweepTypeOK, SweepInv
    <3> QED BY <1>0, <1>1, <3>2, <3>3 DEF SweepInv
  <2> QED BY <2>1, <2>2, <2>3
<1>5. ASSUME NEW n \in Nodes, SweepAck(n) \/ SweepBack(n) \/ Crash(n) PROVE SweepInv'
  BY <1>0, <1>2, <1>5 DEF SweepAck, SweepBack, Crash, SweepTypeOK
<1>6. ASSUME UNCHANGED sweepVars PROVE SweepInv'
  BY <1>0, <1>2, <1>6 DEF sweepVars
<1>7. ASSUME NEW n \in Nodes, StartProcess(n) \/ WarmUp(n) \/ StartEngine(n) PROVE SweepInv'
  BY <1>6, <1>7 DEF StartProcess, WarmUp, StartEngine
<1>8. ASSUME NEW p \in Purchases, Purchase(p) \/ TimePasses(p) PROVE SweepInv'
  BY <1>6, <1>8 DEF Purchase, Buy, Register, Reject, Process, Log, Commit, Ack, TurnBack, TimePasses
<1>9. CASE UNCHANGED vars
  BY <1>6, <1>9 DEF vars
<1> QED BY <1>3, <1>4, <1>5, <1>7, <1>8, <1>9 DEF Next, Node, Sweeper

(* Without a new reservation a user only loses purchases.                  *)
LEMMA CoveredWhenSmaller ==
  ASSUME FlowInv, FlowInv', NEW k \in Skus, NEW u \in Users, Covered(k, u),
         Held(k, u)' \subseteq Held(k, u), Allowance(k, u) <= Allowance(k, u)'
  PROVE  Covered(k, u)'
<1>1. IsFiniteSet(Held(k, u)')
  BY FS_Subset DEF Covered
<1>2. Cardinality(Held(k, u)') <= Cardinality(Held(k, u))
  BY FS_Subset DEF Covered
<1>3. Cardinality(Held(k, u)') \in Nat /\ Cardinality(Held(k, u)) \in Nat
  BY <1>1, FS_CardinalityType DEF Covered
<1>4. Allowance(k, u) \in Nat /\ Allowance(k, u)' \in Nat
  BY DEF Allowance, FlowInv
<1> QED BY <1>1, <1>2, <1>3, <1>4 DEF Covered

(* A deduction uses up the passage of a user that was not in the set.      *)
LEMMA CoveredByBuy ==
  ASSUME FlowInv, FlowInv', NEW p \in Purchases, Buy(p), TakeFromShelf(p), DeductStatus(p) = 1,
         NEW k \in Skus, NEW u \in Users, Covered(k, u)
  PROVE  Covered(k, u)'
<1> USE RedisAssumption
<1>1. /\ p.sku \in Skus /\ p.user \in Users /\ p.user \notin bought[p.sku]
      /\ bought' = [bought EXCEPT ![p.sku] = @ \cup {p.user}]
      /\ UNCHANGED <<cleared, toCommit, orders, todo, rolling>>
      /\ \A q \in Purchases : q # p => at'[q] = at[q] /\ pending'[q] = pending[q]
  <2>1. p.sku \in Skus /\ p.user \in Users
    OBVIOUS
  <2>2. UNCHANGED <<cleared, toCommit, orders, todo, rolling>> /\ \E s : at' = [at EXCEPT ![p] = s]
    BY DEF Buy, Goes, sweepVars
  <2> QED BY <2>1, <2>2 DEF TakeFromShelf, Deduct, DeductStatus, FlowInv, RedisTypeOK
<1>2. CASE p.sku = k /\ p.user = u
  <2>1. Held(k, u)' \subseteq Held(k, u) \cup {p}
    BY <1>1 DEF Held, Live, InSweep, Listed
  <2>2. /\ IsFiniteSet(Held(k, u) \cup {p})
        /\ Cardinality(Held(k, u) \cup {p}) <= Cardinality(Held(k, u)) + 1
        /\ Cardinality(Held(k, u)) \in Nat
    <3>1. IsFiniteSet(Held(k, u)) /\ Cardinality(Held(k, u)) \in Nat
      BY FS_CardinalityType DEF Covered
    <3>2. /\ IsFiniteSet(Held(k, u) \cup {p})
          /\ Cardinality(Held(k, u) \cup {p}) =
               IF p \in Held(k, u) THEN Cardinality(Held(k, u)) ELSE Cardinality(Held(k, u)) + 1
      BY <3>1, FS_AddElement
    <3> QED BY <3>1, <3>2
  <2>3. IsFiniteSet(Held(k, u)') /\ Cardinality(Held(k, u)') <= Cardinality(Held(k, u) \cup {p})
    BY <2>1, <2>2, FS_Subset
  <2>4. Cardinality(Held(k, u)') \in Nat /\ Cardinality(Held(k, u) \cup {p}) \in Nat
    BY <2>2, <2>3, FS_CardinalityType
  <2>5. Allowance(k, u) = cleared[k][u] /\ Allowance(k, u)' = cleared[k][u] + 1 /\ cleared[k][u] \in Nat
    BY <1>1, <1>2 DEF Allowance, FlowInv, RedisTypeOK
  <2> QED BY <2>2, <2>3, <2>4, <2>5 DEF Covered
<1>3. CASE ~(p.sku = k /\ p.user = u)
  <2>1. Held(k, u)' \subseteq Held(k, u)
    BY <1>1, <1>3 DEF Held, Live, InSweep, Listed
  <2>2. Allowance(k, u)' = Allowance(k, u)
    BY <1>1, <1>3 DEF Allowance, FlowInv, RedisTypeOK
  <2>3. Allowance(k, u) \in Nat
    BY DEF Allowance, FlowInv
  <2> QED BY <2>1, <2>2, <2>3, CoveredWhenSmaller
<1> QED BY <1>2, <1>3

(* A purchase that is given back, refused or stale, and that no other      *)
(* sweeper has fetched, is over: the passage it frees is accounted for by  *)
(* the purchase itself.                                                    *)
LEMMA CoveredByGiveBack ==
  ASSUME FlowInv, FlowInv', NEW p \in Purchases, GiveBack(p), UNCHANGED <<cleared, toCommit, orders>>,
         p \in Held(p.sku, p.user), ~Live(p)', ~InSweep(p)',
         \A q \in Purchases : q # p => at'[q] = at[q] /\ (InSweep(q)' => InSweep(q)),
         NEW k \in Skus, NEW u \in Users, Covered(k, u)
  PROVE  Covered(k, u)'
<1> USE RedisAssumption
<1>0. p.sku \in Skus /\ p.user \in Users
  OBVIOUS
<1>1. /\ bought' = [bought EXCEPT ![p.sku] = @ \ {p.user}]
      /\ \A q \in Purchases : q # p => pending'[q] = pending[q]
      /\ pending'[p] \in {pending[p], "absent"}
      /\ p.user \in bought[p.sku] => pending'[p] = "absent"
  BY <1>0 DEF GiveBack, Rollback, redisVars, FlowInv, RedisTypeOK
<1>2. Held(k, u)' \subseteq Held(k, u)
  BY <1>1 DEF Held, Live
<1>a. cleared[k][u] \in Nat /\ Allowance(k, u) \in Nat /\ Allowance(k, u)' \in Nat
  BY DEF Allowance, FlowInv
<1>3. CASE p.sku = k /\ p.user = u /\ u \in bought[k]
  <2>1. Held(k, u)' \subseteq Held(k, u) \ {p}
    BY <1>1, <1>2, <1>3 DEF Held
  <2>2. /\ IsFiniteSet(Held(k, u) \ {p}) /\ Cardinality(Held(k, u)) \in Nat
        /\ Cardinality(Held(k, u) \ {p}) = Cardinality(Held(k, u)) - 1
    BY <1>3, FS_RemoveElement, FS_CardinalityType DEF Covered
  <2>3. IsFiniteSet(Held(k, u)') /\ Cardinality(Held(k, u)') <= Cardinality(Held(k, u) \ {p})
    BY <2>1, <2>2, FS_Subset
  <2>4. Cardinality(Held(k, u)') \in Nat
    BY <2>3, FS_CardinalityType
  <2>5. Allowance(k, u) = cleared[k][u] + 1 /\ Allowance(k, u)' = cleared[k][u]
    BY <1>1, <1>3 DEF Allowance, FlowInv, RedisTypeOK
  <2> QED BY <1>a, <2>2, <2>3, <2>4, <2>5 DEF Covered
<1>4. CASE ~(p.sku = k /\ p.user = u /\ u \in bought[k])
  <2>1. Allowance(k, u)' = Allowance(k, u)
    BY <1>1, <1>4 DEF Allowance, FlowInv, RedisTypeOK
  <2> QED BY <1>2, <1>a, <2>1, CoveredWhenSmaller
<1> QED BY <1>3, <1>4

LEMMA CoveredStep ==
  ASSUME RollbacksRunOnce, FlowInv, FlowInv', SweepInv, SweepInv', [Next]_vars,
         NEW k \in Skus, NEW u \in Users, Covered(k, u)
  PROVE  Covered(k, u)'
<1> USE RedisAssumption, LifecycleAssumption
<1>a. Allowance(k, u) \in Nat /\ Allowance(k, u)' \in Nat /\ cleared[k][u] \in Nat
  BY DEF Allowance, FlowInv
<1>b. at \in [Purchases -> Progress]
  BY DEF FlowInv
<1>1. ASSUME UNCHANGED <<bought, cleared>>, Held(k, u)' \subseteq Held(k, u) PROVE Covered(k, u)'
  <2>1. Allowance(k, u)' = Allowance(k, u)
    BY <1>1 DEF Allowance
  <2>2. Allowance(k, u) <= Allowance(k, u)'
    BY <1>a, <2>1
  <2> QED BY <1>1, <2>2, CoveredWhenSmaller
<1>2. ASSUME UNCHANGED <<redisVars, flowVars, sweepVars, cleared>> PROVE Covered(k, u)'
  BY <1>1, <1>2 DEF redisVars, flowVars, sweepVars, Held, Live, InSweep, Listed
<1>3. ASSUME NEW n \in Nodes, WarmUp(n) PROVE Covered(k, u)'
  <2>1. UNCHANGED <<at, toCommit, orders, todo, rolling>>
    BY <1>3 DEF WarmUp, flowVars, sweepVars
  <2>c. PICK c \in Command : c = Head(warming[n])
    <3>1. warming[n] \in Seq(Command) /\ warming[n] # <<>>
      BY <1>3 DEF WarmUp, FlowInv
    <3> QED BY <3>1
  <2>2. c.sku \in Skus
    BY DEF Command, Stocked
  <2>0. \/ SetStock(c.sku) \/ DelBought(c.sku) \/ DelPending(c.sku)
        \/ RegisterSku(c.sku) /\ UNCHANGED <<sets, cleared>>
        \/ UNCHANGED <<redisVars, sets, cleared>>
    <3>1. Run(c) \/ UNCHANGED <<redisVars, sets, cleared>>
      BY <1>3, <2>c DEF WarmUp
    <3> QED BY <3>1 DEF Run
  <2>3. CASE \/ SetStock(c.sku)
             \/ RegisterSku(c.sku) /\ UNCHANGED <<sets, cleared>>
             \/ UNCHANGED <<redisVars, sets, cleared>>
    BY <1>1, <2>1, <2>3 DEF SetStock, RegisterSku, redisVars, Held, Live, InSweep, Listed
  <2>4. CASE DelBought(c.sku)
    <3>1. Held(k, u)' \subseteq Held(k, u)
      BY <2>1, <2>4 DEF DelBought, Held, Live, InSweep, Listed
    <3>2. Allowance(k, u)' = Allowance(k, u)
      <4>1. CASE k = c.sku
        <5>1. /\ bought'[k] = {}
              /\ cleared'[k][u] = IF u \in bought[k] THEN cleared[k][u] + 1 ELSE cleared[k][u]
          BY <2>2, <2>4, <4>1 DEF DelBought, FlowInv, RedisTypeOK
        <5> QED BY <1>a, <5>1 DEF Allowance
      <4>2. CASE k # c.sku
        <5>1. cleared'[k] = cleared[k] /\ bought'[k] = bought[k]
          BY <2>4, <4>2 DEF DelBought, FlowInv, RedisTypeOK
        <5> QED BY <5>1 DEF Allowance
      <4> QED BY <4>1, <4>2
    <3>3. Allowance(k, u) <= Allowance(k, u)'
      BY <1>a, <3>2
    <3> QED BY <3>1, <3>3, CoveredWhenSmaller
  <2>5. CASE DelPending(c.sku)
    <3>1. \A p \in Purchases : pending'[p] # "absent" => pending[p] # "absent"
      BY <2>5 DEF DelPending
    <3> QED BY <1>1, <2>1, <2>5, <3>1 DEF DelPending, Held, Live, InSweep, Listed
  <2> QED BY <2>0, <2>3, <2>4, <2>5
<1>4. ASSUME NEW n \in Nodes, StartProcess(n) \/ StartEngine(n) PROVE Covered(k, u)'
  BY <1>2, <1>4 DEF StartProcess, StartEngine
<1>5. ASSUME NEW n \in Nodes, Crash(n) PROVE Covered(k, u)'
  <2>1. /\ UNCHANGED <<redisVars, orders, cleared>> /\ toCommit' \subseteq toCommit
        /\ \A p \in Purchases : at'[p] \in {at[p], "dead"}
        /\ todo' = [todo EXCEPT ![n] = {}] /\ rolling' = [rolling EXCEPT ![n] = None]
    BY <1>5 DEF Crash
  <2>2. \A p \in Purchases : InSweep(p)' => InSweep(p)
    BY <2>1 DEF InSweep, Listed, SweepInv, SweepTypeOK
  <2> QED BY <1>1, <2>1, <2>2 DEF redisVars, Held, Live
<1>6. ASSUME NEW p \in Purchases, Buy(p) PROVE Covered(k, u)'
  <2>1. CASE TakeFromShelf(p) /\ DeductStatus(p) = 1
    BY <1>6, <2>1, CoveredByBuy
  <2>2. CASE /\ UNCHANGED redisVars
             /\ at' = [at EXCEPT ![p] = "refused"] \/ at' = [at EXCEPT ![p] = "failed"]
    <3>1. UNCHANGED <<toCommit, orders, todo, rolling, cleared>>
      BY <1>6 DEF Buy, sweepVars
    <3>2. \A q \in Purchases : at'[q] = at[q] \/ at'[q] \in {"refused", "failed"}
      BY <1>b, <2>2
    <3>3. Held(k, u)' \subseteq Held(k, u)
      BY <2>2, <3>1, <3>2 DEF redisVars, Held, Live, InSweep, Listed
    <3> QED BY <1>1, <2>2, <3>1, <3>3 DEF redisVars
  <2> QED BY <1>6, <2>1, <2>2 DEF Buy, Goes, TakeFromShelf, Deduct
<1>7. ASSUME NEW p \in Purchases, Register(p) \/ Reject(p) \/ Process(p) PROVE Covered(k, u)'
  <2>1. /\ UNCHANGED <<bought, pending, cleared, toCommit, orders, todo, rolling>>
        /\ at[p] \in {"deducted", "registered"} /\ \E s : at' = [at EXCEPT ![p] = s]
    BY <1>7 DEF Register, Reject, Process, Goes, RegisterSku, redisVars, sweepVars
  <2>2. \A q \in Purchases : q # p => at'[q] = at[q]
    BY <1>b, <2>1
  <2> QED BY <1>1, <2>1, <2>2 DEF Held, Live, InSweep, Listed
<1>8. ASSUME NEW p \in Purchases, Log(p) PROVE Covered(k, u)'
  <2>1. /\ UNCHANGED <<bought, pending, cleared, orders, todo, rolling>> /\ toCommit' = toCommit \cup {p}
        /\ at[p] = "logging" /\ \A q \in Purchases : q # p => at'[q] = at[q]
    BY <1>8 DEF Log, Goes, redisVars, sweepVars, FlowInv
  <2> QED BY <1>1, <2>1 DEF Held, Live, InSweep, Listed
<1>9. ASSUME NEW p \in Purchases, Commit(p) PROVE Covered(k, u)'
  <2>1. /\ UNCHANGED <<bought, pending, cleared, at, todo, rolling>>
        /\ p \in toCommit /\ toCommit' = toCommit \ {p} /\ orders' \subseteq orders \cup {p}
    BY <1>9 DEF Commit, redisVars, sweepVars
  <2> QED BY <1>1, <2>1 DEF Held, Live, InSweep, Listed
<1>10. ASSUME NEW p \in Purchases, Ack(p) \/ TimePasses(p) PROVE Covered(k, u)'
  <2>1. /\ UNCHANGED <<bought, cleared, at, toCommit, orders, todo, rolling>>
        /\ \A q \in Purchases : pending'[q] # "absent" => pending[q] # "absent"
    BY <1>10 DEF Ack, TimePasses, RemovePending, GrowStale, redisVars, flowVars, sweepVars,
                 FlowInv, RedisTypeOK
  <2> QED BY <1>1, <2>1 DEF Held, Live, InSweep, Listed
<1>11. ASSUME NEW p \in Purchases, TurnBack(p) PROVE Covered(k, u)'
  <2>1. /\ at[p] = "turned" /\ at' = [at EXCEPT ![p] = "refused"]
        /\ GiveBack(p) \/ UNCHANGED redisVars
        /\ UNCHANGED <<cleared, toCommit, orders, todo, rolling>>
    BY <1>11 DEF TurnBack, Goes, RollbacksRunOnce, sweepVars
  <2>2. p \in Held(p.sku, p.user) /\ ~InSweep(p)
    BY <2>1 DEF Held, Live, InSweep, SweepInv, Over, InFlight
  <2>3. ~Live(p)' /\ \A q \in Purchases : q # p => at'[q] = at[q]
    BY <2>1 DEF Live, FlowInv
  <2>4. \A q \in Purchases : InSweep(q)' <=> InSweep(q)
    BY <2>1 DEF InSweep, Listed
  <2>5. CASE GiveBack(p)
    BY <2>1, <2>2, <2>3, <2>4, <2>5, CoveredByGiveBack
  <2>6. CASE UNCHANGED redisVars
    BY <1>1, <2>1, <2>3, <2>4, <2>6 DEF redisVars, Held, Live
  <2> QED BY <2>1, <2>5, <2>6
<1>12. ASSUME NEW n \in Nodes, NEW j \in Skus, Sweep(n, j) PROVE Covered(k, u)'
  <2>1. /\ UNCHANGED <<bought, pending, cleared, at, toCommit, orders, rolling>>
        /\ todo' = [todo EXCEPT ![n] = StaleMembers(j)]
    BY <1>12 DEF Sweep, redisVars, flowVars
  <2>2. \A q \in Purchases : InSweep(q)' => InSweep(q) \/ pending[q] # "absent"
    BY <2>1 DEF InSweep, Listed, StaleMembers, SweepInv, SweepTypeOK
  <2> QED BY <1>1, <2>1, <2>2 DEF Held, Live
<1>13. ASSUME NEW n \in Nodes, SweepCheck(n) PROVE Covered(k, u)'
  <2>1. UNCHANGED <<bought, pending, cleared, at, toCommit, orders>>
    BY <1>13 DEF SweepCheck, redisVars, flowVars
  <2>2. PICK p \in todo[n] :
          /\ todo' = [todo EXCEPT ![n] = @ \ {p}]
          /\ rolling' = rolling \/ rolling' = [rolling EXCEPT ![n] = p]
    BY <1>13 DEF SweepCheck
  <2>3. \A q \in Purchases : InSweep(q)' => InSweep(q)
    BY <2>2 DEF InSweep, Listed, SweepInv, SweepTypeOK
  <2> QED BY <1>1, <2>1, <2>3 DEF Held, Live
<1>14. ASSUME NEW n \in Nodes, SweepAck(n) PROVE Covered(k, u)'
  <2>1. /\ UNCHANGED <<bought, cleared, at, toCommit, orders, todo, rolling>>
        /\ \A q \in Purchases : pending'[q] # "absent" => pending[q] # "absent"
    BY <1>14 DEF SweepAck, RemovePending, redisVars, flowVars, FlowInv, RedisTypeOK
  <2> QED BY <1>1, <2>1 DEF Held, Live, InSweep, Listed
<1>15. ASSUME NEW n \in Nodes, SweepBack(n) PROVE Covered(k, u)'
  <2>0. PICK p : p = rolling[n] /\ p \in Purchases
    BY <1>15 DEF SweepBack, SweepInv, SweepTypeOK
  <2>1. /\ UNCHANGED <<cleared, at, toCommit, orders, todo>>
        /\ rolling' = [rolling EXCEPT ![n] = None]
        /\ GiveBack(p) \/ UNCHANGED redisVars
    BY <1>15, <2>0 DEF SweepBack, RollbacksRunOnce, flowVars
  <2>2. \A q \in Purchases : InSweep(q)' => InSweep(q)
    BY <2>1 DEF InSweep, Listed, SweepInv, SweepTypeOK
  <2>3. CASE UNCHANGED redisVars
    BY <1>1, <2>1, <2>2, <2>3 DEF redisVars, Held, Live
  <2>4. CASE GiveBack(p)
    <3>1. Listed(n, p) /\ p \in Held(p.sku, p.user)
      BY <2>0 DEF Listed, InSweep, Held
    <3>2. ~Live(p)'
      BY <2>0, <2>1, <3>1 DEF Live, SweepInv, Over, InFlight
    <3>3. \A m \in Nodes : Listed(m, p) => m = n
      BY <2>0, <3>1 DEF SweepInv, RollbacksRunOnce
    <3>4. ~Listed(n, p)'
      BY <2>0, <2>1 DEF Listed, SweepInv, SweepTypeOK
    <3>5. \A m \in Nodes : Listed(m, p)' => Listed(m, p)
      BY <2>0, <2>1 DEF Listed, SweepInv, SweepTypeOK
    <3>6. ~InSweep(p)'
      BY <3>3, <3>4, <3>5 DEF InSweep
    <3> QED BY <2>0, <2>1, <2>2, <2>4, <3>1, <3>2, <3>6, CoveredByGiveBack
  <2> QED BY <2>1, <2>3, <2>4
<1>16. CASE UNCHANGED vars
  BY <1>2, <1>16 DEF vars
<1> QED BY <1>3, <1>4, <1>5, <1>6, <1>7, <1>8, <1>9, <1>10, <1>11, <1>12, <1>13, <1>14, <1>15, <1>16
        DEF Next, Node, Purchase, Sweeper

AllCovered == \A k \in Skus, u \in Users : Covered(k, u)

(* If every rollback runs once and for a purchase that is over, a user has *)
(* at most one order more than the deletions that took him out of the      *)
(* bought set: for any number of users, nodes and starts, lost commands,   *)
(* repeated ids, rollbacks that come after the set was deleted, and lists  *)
(* a sweeper fetched before that.                                          *)
THEOREM OrdersPerUserAreBounded == RollbacksRunOnce => (Spec => []OneOrderPerClearing)
<1> SUFFICES ASSUME RollbacksRunOnce PROVE Spec => []OneOrderPerClearing
  OBVIOUS
<1> USE RedisAssumption
<1>1. Init => AllCovered /\ SweepInv
  <2> SUFFICES ASSUME Init PROVE AllCovered /\ SweepInv
    OBVIOUS
  <2>1. SweepInv
    BY LifecycleAssumption DEF Init, SweepInv, SweepTypeOK, Listed
  <2>2. ASSUME NEW k \in Skus, NEW u \in Users PROVE Covered(k, u)
    <3>1. Held(k, u) = {}
      BY LifecycleAssumption DEF Init, Held, Live, InSweep, Listed
    <3>2. Allowance(k, u) = 0
      BY DEF Init, Allowance
    <3> QED BY <3>1, <3>2, FS_EmptySet DEF Covered
  <2> QED BY <2>1, <2>2 DEF AllCovered
<1>2. FlowInv /\ FlowInv' /\ SweepInv /\ AllCovered /\ [Next]_vars => AllCovered' /\ SweepInv'
  <2> SUFFICES ASSUME FlowInv, FlowInv', SweepInv, AllCovered, [Next]_vars PROVE AllCovered' /\ SweepInv'
    OBVIOUS
  <2>1. SweepInv'
    BY RollbacksRunOnce, SweepInvStep
  <2>2. ASSUME NEW k \in Skus, NEW u \in Users PROVE Covered(k, u)'
    BY <2>1, RollbacksRunOnce, CoveredStep DEF AllCovered
  <2> QED BY <2>1, <2>2 DEF AllCovered
<1>3. FlowInv /\ AllCovered => OneOrderPerClearing
  <2> SUFFICES ASSUME FlowInv, AllCovered, NEW k \in Skus, NEW u \in Users
               PROVE  Cardinality({o \in orders : o.sku = k /\ o.user = u}) <= cleared[k][u] + 1
    BY DEF OneOrderPerClearing
  <2> DEFINE Mine == {o \in orders : o.sku = k /\ o.user = u}
  <2>1. Mine \subseteq Held(k, u)
    BY DEF Held, Live, FlowInv
  <2>2. IsFiniteSet(Held(k, u)) /\ Cardinality(Held(k, u)) <= Allowance(k, u)
    BY DEF Covered, AllCovered
  <2>3. IsFiniteSet(Mine) /\ Cardinality(Mine) <= Cardinality(Held(k, u))
    BY <2>1, <2>2, FS_Subset
  <2>4. Cardinality(Mine) \in Nat /\ Cardinality(Held(k, u)) \in Nat
    BY <2>2, <2>3, FS_CardinalityType
  <2>5. Allowance(k, u) <= cleared[k][u] + 1 /\ cleared[k][u] \in Nat /\ Allowance(k, u) \in Nat
    BY DEF Allowance, FlowInv
  <2> HIDE DEF Mine
  <2>6. Cardinality(Mine) <= cleared[k][u] + 1
    BY <2>2, <2>3, <2>4, <2>5
  <2> QED BY <2>6 DEF Mine
<1>4. Spec => []RedisTypeOK
  <2>1. Init => LifecycleInv
    BY LifecycleInit
  <2>2. LifecycleInv => RedisTypeOK
    BY DEF LifecycleInv, TypeInv
  <2> QED BY <2>1, <2>2, LifecycleStep, PTL DEF Spec
<1>5. Spec => []FlowInv
  BY <1>4, FlowInit, FlowStep, PTL DEF Spec
<1> QED BY <1>1, <1>2, <1>3, <1>5, PTL DEF Spec

-----------------------------------------------------------------------------
(* The log and the orders.                                                 *)

Halves == [of : Purchases, half : {1, 2}]

(* Some record of the file is whole, and is that of p.                     *)
Whole(f, p) ==
  \E i \in Nat \ {0} :
    /\ 2 * i <= Len(f)
    /\ f[2 * i - 1] = [of |-> p, half |-> 1] /\ f[2 * i] = [of |-> p, half |-> 2]

Readable(f) == {Recovered(f)[i] : i \in DOMAIN Recovered(f)}

(* Recover reads it, ...                                                   *)
LEMMA WholeIsRead ==
  ASSUME NEW f \in Seq(Halves), NEW p, Whole(f, p)
  PROVE  p \in Readable(f)
<1>1. PICK i \in Nat \ {0} :
        /\ 2 * i <= Len(f)
        /\ f[2 * i - 1] = [of |-> p, half |-> 1] /\ f[2 * i] = [of |-> p, half |-> 2]
  BY DEF Whole
<1>2. Len(f) \in Nat /\ i \in 1 .. Len(f) \div 2
  BY <1>1
<1>3. /\ f[2 * i - 1].of = p /\ f[2 * i - 1].half = 1
      /\ f[2 * i].of = p /\ f[2 * i].half = 2
  BY <1>1
<1>4. (IF f[2 * i - 1].of = f[2 * i].of /\ f[2 * i - 1].half = 1 /\ f[2 * i].half = 2
         THEN f[2 * i].of ELSE Garbage) = p
  BY <1>3, Zenon
<1>5. i \in DOMAIN Recovered(f) /\ Recovered(f)[i] = p
  BY <1>2, <1>4 DEF Recovered
<1> QED BY <1>5 DEF Readable

(* ... whatever is written behind it ...                                   *)
LEMMA WholeStays ==
  ASSUME NEW f \in Seq(Halves), NEW g \in Seq(Halves), NEW p, Whole(f, p)
  PROVE  Whole(f \o g, p)
<1>1. PICK i \in Nat \ {0} :
        /\ 2 * i <= Len(f)
        /\ f[2 * i - 1] = [of |-> p, half |-> 1] /\ f[2 * i] = [of |-> p, half |-> 2]
  BY DEF Whole
<1>2. /\ Len(f) \in Nat /\ Len(g) \in Nat /\ Len(f \o g) = Len(f) + Len(g)
      /\ \A j \in 1 .. Len(f) : (f \o g)[j] = f[j]
  BY ConcatProperties, LenProperties
<1>3. 2 * i <= Len(f \o g) /\ (f \o g)[2 * i - 1] = f[2 * i - 1] /\ (f \o g)[2 * i] = f[2 * i]
  <2>1. 2 * i - 1 \in 1 .. Len(f) /\ 2 * i \in 1 .. Len(f)
    BY <1>1, <1>2
  <2> QED BY <1>1, <1>2, <2>1
<1> QED BY <1>1, <1>3 DEF Whole

LEMMA RecordType ==
  ASSUME NEW p \in Purchases
  PROVE  /\ Record(p) \in Seq(Halves) /\ Len(Record(p)) = 2
         /\ Record(p)[1] = [of |-> p, half |-> 1] /\ Record(p)[2] = [of |-> p, half |-> 2]
BY DEF Record, Halves

(* ... and a record taken whole on a boundary is such a record.            *)
LEMMA RecordIsWhole ==
  ASSUME NEW f \in Seq(Halves), NEW p \in Purchases, Aligned(f)
  PROVE  Whole(f \o Record(p), p) /\ Aligned(f \o Record(p))
<1>1. PICK r \in Seq(Halves) :
        r = Record(p) /\ Len(r) = 2 /\ r[1] = [of |-> p, half |-> 1] /\ r[2] = [of |-> p, half |-> 2]
  BY RecordType
<1>2. PICK m \in Nat : Len(f) = 2 * m
  <2>1. Len(f) \in Nat /\ Len(f) % 2 = 0
    BY DEF Aligned
  <2>2. Len(f) \div 2 \in Nat /\ Len(f) = 2 * (Len(f) \div 2)
    BY <2>1
  <2> QED BY <2>2
<1>3. /\ Len(f \o r) = 2 * m + 2
      /\ (f \o r)[2 * m + 1] = r[1] /\ (f \o r)[2 * m + 2] = r[2]
  <2>1. /\ Len(f \o r) = Len(f) + Len(r)
        /\ \A j \in 1 .. Len(f) + Len(r) : (f \o r)[j] = IF j <= Len(f) THEN f[j] ELSE r[j - Len(f)]
    BY ConcatProperties
  <2>2. Len(f) + Len(r) = 2 * m + 2
    BY <1>1, <1>2
  <2>3. /\ 2 * m + 1 \in 1 .. 2 * m + 2 /\ ~(2 * m + 1 <= 2 * m) /\ (2 * m + 1) - 2 * m = 1
        /\ 2 * m + 2 \in 1 .. 2 * m + 2 /\ ~(2 * m + 2 <= 2 * m) /\ (2 * m + 2) - 2 * m = 2
    OBVIOUS
  <2>4. \A j \in 1 .. 2 * m + 2 : (f \o r)[j] = IF j <= 2 * m THEN f[j] ELSE r[j - 2 * m]
    BY <1>2, <2>1, <2>2, Zenon
  <2>5. (f \o r)[2 * m + 1] = r[1]
    BY <2>3, <2>4
  <2>6. (f \o r)[2 * m + 2] = r[2]
    BY <2>3, <2>4
  <2> QED BY <2>1, <2>2, <2>5, <2>6, Zenon
<1>4. Aligned(f \o r)
  BY <1>3 DEF Aligned
<1>5. m + 1 \in Nat \ {0} /\ 2 * (m + 1) - 1 = 2 * m + 1 /\ 2 * (m + 1) = 2 * m + 2
  BY <1>2
<1>6. Whole(f \o r, p)
  <2>1. /\ 2 * (m + 1) <= Len(f \o r)
        /\ (f \o r)[2 * (m + 1) - 1] = [of |-> p, half |-> 1]
        /\ (f \o r)[2 * (m + 1)] = [of |-> p, half |-> 2]
    BY <1>1, <1>3, <1>5
  <2> QED BY <1>5, <2>1 DEF Whole
<1> QED BY <1>1, <1>4, <1>6

(* An order was written whole, or is among the torn; without short writes  *)
(* every file ends on a boundary and nothing is torn.                      *)
LogInv ==
  /\ servedBy \in [Purchases -> Nodes] /\ orders \cup toCommit \subseteq Purchases
  /\ file \in [Nodes -> Seq(Halves)]
  /\ \A o \in orders \cup toCommit : Whole(file[servedBy[o]], o) \/ o \in torn
  /\ "disk" \notin Faults => torn = {} /\ \A n \in Nodes : Aligned(file[n])

LEMMA LogInit == Init => LogInv
<1> SUFFICES ASSUME Init PROVE LogInv
  OBVIOUS
<1>1. <<>> \in Seq(Halves) /\ Aligned(<<>>)
  BY DEF Aligned
<1> QED BY <1>1 DEF Init, LogInv

(* A sale is written before it is reported, and what the file held before  *)
(* stays in front of what is written.                                      *)
LEMMA LogKeepsRecords ==
  ASSUME LogInv, NEW p \in Purchases, Log(p)
  PROVE  LogInv'
<1>0. PICK n \in Nodes : n = servedBy[p]
  BY DEF LogInv
<1>1. /\ servedBy \in [Purchases -> Nodes] /\ orders \cup toCommit \subseteq Purchases
      /\ file \in [Nodes -> Seq(Halves)] /\ file[n] \in Seq(Halves)
      /\ \A o \in orders \cup toCommit : Whole(file[servedBy[o]], o) \/ o \in torn
      /\ "disk" \notin Faults => torn = {} /\ \A m \in Nodes : Aligned(file[m])
  BY <1>0 DEF LogInv
<1>2. toCommit' = toCommit \cup {p} /\ UNCHANGED <<servedBy, orders>> /\ torn \subseteq torn'
  BY DEF Log
<1>3. \E g \in Seq(Halves) :
        /\ file' = [file EXCEPT ![n] = @ \o g]
        /\ Whole(file[n] \o g, p) \/ p \in torn'
        /\ "disk" \notin Faults => torn' = torn /\ Aligned(file[n] \o g)
  <2>1. CASE file' = [file EXCEPT ![n] = @ \o Record(p)]
             /\ torn' = IF Aligned(file[n]) THEN torn ELSE torn \cup {p}
    <3>1. Aligned(file[n]) => Whole(file[n] \o Record(p), p) /\ Aligned(file[n] \o Record(p))
      BY <1>1, RecordIsWhole
    <3>2. Record(p) \in Seq(Halves)
      BY RecordType
    <3>3. Whole(file[n] \o Record(p), p) \/ p \in torn'
      BY <2>1, <3>1
    <3>4. "disk" \notin Faults => torn' = torn /\ Aligned(file[n] \o Record(p))
      BY <1>1, <2>1, <3>1
    <3> QED BY <2>1, <3>2, <3>3, <3>4
  <2>2. CASE "disk" \in Faults /\ torn' = torn \cup {p} /\ file' = [file EXCEPT ![n] = Append(@, Record(p)[1])]
    <3>1. PICK x \in Halves : x = Record(p)[1]
      BY DEF Record, Halves
    <3>2. Append(file[n], x) = file[n] \o <<x>> /\ <<x>> \in Seq(Halves)
      BY <1>1, AppendIsConcat
    <3>3. file' = [file EXCEPT ![n] = @ \o <<x>>]
      BY <2>2, <3>1, <3>2
    <3> QED BY <2>2, <3>2, <3>3
  <2>3. CASE "disk" \in Faults /\ torn' = torn \cup {p} /\ file' = file
    <3>1. <<>> \in Seq(Halves) /\ file[n] \o <<>> = file[n]
      BY <1>1, ConcatEmptySeq
    <3>2. file' = [file EXCEPT ![n] = @ \o <<>>]
      BY <1>1, <2>3, <3>1
    <3> QED BY <2>3, <3>1, <3>2
  <2> QED BY <1>0, <2>1, <2>2, <2>3 DEF Log
<1>4. PICK g \in Seq(Halves) :
        /\ file' = [file EXCEPT ![n] = @ \o g]
        /\ Whole(file[n] \o g, p) \/ p \in torn'
        /\ "disk" \notin Faults => torn' = torn /\ Aligned(file[n] \o g)
  BY <1>3
<1>5. /\ file' \in [Nodes -> Seq(Halves)] /\ file'[n] = file[n] \o g
      /\ \A m \in Nodes : m # n => file'[m] = file[m]
  <2>1. file[n] \o g \in Seq(Halves)
    BY <1>1, ConcatProperties
  <2> QED BY <1>1, <1>4, <2>1
<1>6. ASSUME NEW o \in (orders \cup toCommit)' PROVE (Whole(file[servedBy[o]], o) \/ o \in torn)'
  <2>1. CASE o = p
    BY <1>0, <1>2, <1>4, <1>5, <2>1
  <2>2. CASE o # p
    <3>1. /\ o \in orders \cup toCommit /\ servedBy'[o] = servedBy[o] /\ servedBy[o] \in Nodes
          /\ Whole(file[servedBy[o]], o) \/ o \in torn
      BY <1>1, <1>2, <2>2
    <3>2. CASE o \in torn
      BY <1>2, <3>2
    <3>3. CASE Whole(file[servedBy[o]], o) /\ servedBy[o] = n
      <4>1. Whole(file[n] \o g, o)
        BY <1>1, <3>3, WholeStays
      <4> QED BY <1>5, <3>1, <3>3, <4>1
    <3>4. CASE Whole(file[servedBy[o]], o) /\ servedBy[o] # n
      BY <1>5, <3>1, <3>4
    <3> QED BY <3>1, <3>2, <3>3, <3>4
  <2> QED BY <2>1, <2>2
<1>7. ("disk" \notin Faults => torn = {} /\ \A m \in Nodes : Aligned(file[m]))'
  BY <1>1, <1>4, <1>5
<1>8. (servedBy \in [Purchases -> Nodes] /\ orders \cup toCommit \subseteq Purchases)'
  BY <1>1, <1>2
<1> QED BY <1>5, <1>6, <1>7, <1>8 DEF LogInv

LEMMA LogInvStep == LogInv /\ [Next]_vars => LogInv'
<1> SUFFICES ASSUME LogInv, [Next]_vars PROVE LogInv'
  OBVIOUS
<1>1. ASSUME UNCHANGED <<file, torn, servedBy>>, (orders \cup toCommit)' \subseteq orders \cup toCommit PROVE LogInv'
  BY <1>1 DEF LogInv
<1>2. ASSUME NEW n \in Nodes, Node(n) PROVE LogInv'
  BY <1>1, <1>2 DEF Node, StartProcess, WarmUp, StartEngine, Crash, engineVars, flowVars
<1>3. ASSUME NEW p \in Purchases, Buy(p) \/ Register(p) \/ Reject(p) \/ Process(p) \/ Ack(p) \/ TurnBack(p)
      PROVE  LogInv'
  BY <1>1, <1>3 DEF Buy, Register, Reject, Process, Ack, TurnBack, engineVars
<1>4. ASSUME NEW p \in Purchases, Commit(p) PROVE LogInv'
  BY <1>1, <1>4 DEF Commit, engineVars
<1>5. ASSUME NEW p \in Purchases, TimePasses(p) PROVE LogInv'
  BY <1>1, <1>5 DEF TimePasses, engineVars, flowVars
<1>7. ASSUME NEW n \in Nodes, Sweeper(n) \/ \E k \in Skus : Sweep(n, k) PROVE LogInv'
  BY <1>1, <1>7 DEF Sweeper, Sweep, SweepCheck, SweepAck, SweepBack, engineVars, flowVars
<1>6. CASE UNCHANGED vars
  BY <1>1, <1>6 DEF vars, engineVars, flowVars
<1> QED BY <1>2, <1>3, <1>4, <1>5, <1>6, <1>7, LogKeepsRecords DEF Next, Purchase

(* Every order can be read from the WAL of the node that served it, but    *)
(* for those a short write has cut or put askew, however often processes   *)
(* die and start and however many nodes there are; and without short       *)
(* writes none is torn.  (Processes die here, not machines.)               *)
THEOREM OrdersCanBeRecovered == Spec => []OrdersAreLogged
<1>1. LogInv => OrdersAreLogged
  <2> SUFFICES ASSUME LogInv PROVE OrdersAreLogged
    OBVIOUS
  <2>1. ASSUME NEW o \in orders \cup toCommit PROVE o \in Logged(servedBy[o]) \/ o \in torn
    <3>1. file[servedBy[o]] \in Seq(Halves) /\ (Whole(file[servedBy[o]], o) \/ o \in torn)
      BY DEF LogInv
    <3>2. CASE Whole(file[servedBy[o]], o)
      BY <3>1, <3>2, WholeIsRead DEF Logged, Readable
    <3> QED BY <3>1, <3>2
  <2>2. "disk" \notin Faults => torn = {}
    BY DEF LogInv
  <2> QED BY <2>1, <2>2 DEF OrdersAreLogged
<1> QED BY <1>1, LogInit, LogInvStep, PTL DEF Spec

=============================================================================
