----------------------------- MODULE Lifecycle -----------------------------
(***************************************************************************)
(* Processes that start, serve and die over what outlives them: the Redis  *)
(* keys, the orders table and the WAL files.  Every start of a node sets   *)
(* the stock again and deletes the bought and pending keys, one command    *)
(* after the other and next to the traffic of the other nodes (main.go,    *)
(* redis.go WarmUpInventory); its engine starts with the full inventory    *)
(* and appends to the WAL it finds (wal.hpp).                              *)
(***************************************************************************)
EXTENDS Redis, Sequences, FiniteSetsExt

CONSTANTS
  Nodes,        \* backend processes
  WarmUps,      \* the SKUs main warms up, in order, with InitialStock items
  EngineStock,  \* inventory_ of the Worker constructor
  MaxStarts,    \* bound of the model: starts of all nodes together
  Sweepers,     \* the nodes whose sweeper runs (in the code: all of them)
  Faults,       \* what may go wrong: a subset of FaultKinds
  Garbage,      \* what Recover reads where a record was torn
  None          \* no purchase

(* "redis": a command is lost, or the answer to a deduction.  "resend": the *)
(* answer to a rollback is lost and it is sent again.  "db": a statement    *)
(* fails.  "slow": a call, or a queue or batch behind it, takes more than   *)
(* 30 s.  "disk": write() takes less than a record.                         *)
FaultKinds == {"redis", "resend", "db", "slow", "disk"}

ASSUME LifecycleAssumption ==
  /\ WarmUps \in Seq({k \in Skus : InitialStock[k] # NoKey})
  /\ EngineStock \in [Skus -> Nat]
  /\ MaxStarts \in Nat
  /\ Sweepers \subseteq Nodes
  /\ Faults \subseteq FaultKinds
  /\ Garbage \notin Purchases /\ None \notin Purchases

VARIABLES
  nodeAt,     \* "down", "warming" or "up"
  warming,    \* the warm-up commands a node has not run
  at,         \* progress of each purchase
  servedBy,   \* the node a purchase went to
  inventory,  \* inventory_ of the engine of each node
  seen,       \* seen_requests_
  file,       \* the WAL of each node, a record being two halves
  torn,       \* history: purchases whose record was cut, or put askew by such a one
  toCommit,   \* purchases whose order is on its way to the database
  toAck,      \* purchases whose pending member is still to be removed
  orders,     \* rows of the orders table
  todo,       \* stale members a sweeper fetched and has not looked at
  acking,     \* the member a sweeper found in the orders table
  rolling,    \* the member it is in RollbackInventory for
  starts,     \* how many processes were started
  sets,       \* history: how often the stock key of each SKU was set
  cleared,    \* history: how often a DEL took a user out of a bought set
  net         \* history: items deducted and not given back, per SKU

engineVars == <<inventory, seen, file, torn>>
flowVars == <<at, servedBy, toCommit, toAck, orders>>
sweepVars == <<todo, acking, rolling>>
nodeVars == <<nodeAt, warming, starts>>
vars == <<redisVars, nodeVars, engineVars, flowVars, sweepVars, sets, cleared, net>>

Init ==
  /\ stock = [k \in Skus |-> NoKey]
  /\ bought = [k \in Skus |-> {}]
  /\ pending = [p \in Purchases |-> "absent"]
  /\ skus = {}
  /\ nodeAt = [n \in Nodes |-> "down"] /\ warming = [n \in Nodes |-> <<>>]
  /\ starts = 0
  /\ at = [p \in Purchases |-> "new"] /\ servedBy \in [Purchases -> Nodes]
  /\ inventory = [n \in Nodes |-> EngineStock] /\ seen = [n \in Nodes |-> {}]
  /\ file = [n \in Nodes |-> <<>>] /\ torn = {}
  /\ toCommit = {} /\ toAck = {} /\ orders = {}
  /\ todo = [n \in Nodes |-> {}]
  /\ acking = [n \in Nodes |-> None] /\ rolling = [n \in Nodes |-> None]
  /\ sets = [k \in Skus |-> 0] /\ net = [k \in Skus |-> 0]
  /\ cleared = [k \in Skus |-> [u \in Users |-> 0]]

-----------------------------------------------------------------------------
(* Start of a process.                                                     *)

Commands == <<"set", "delBought", "delPending", "register">>

(* The commands of WarmUpInventory, for one SKU after the other.           *)
WarmUpCommands ==
  [i \in 1 .. 4 * Len(WarmUps) |->
     [what |-> Commands[((i - 1) % 4) + 1], sku |-> WarmUps[((i - 1) \div 4) + 1]]]

StartProcess(n) ==
  /\ nodeAt[n] = "down" /\ starts < MaxStarts
  /\ nodeAt' = [nodeAt EXCEPT ![n] = "warming"]
  /\ starts' = starts + 1
  /\ warming' = [warming EXCEPT ![n] = WarmUpCommands]
  /\ UNCHANGED <<redisVars, engineVars, flowVars, sweepVars, sets, cleared, net>>

SetStock(k) ==
  /\ stock' = [stock EXCEPT ![k] = InitialStock[k]]
  /\ sets' = [sets EXCEPT ![k] = @ + 1]
  /\ UNCHANGED <<bought, pending, skus, cleared>>

DelBought(k) ==
  /\ bought' = [bought EXCEPT ![k] = {}]
  /\ cleared' = [cleared EXCEPT ![k] =
                   [u \in Users |-> IF u \in bought[k] THEN @[u] + 1 ELSE @[u]]]
  /\ UNCHANGED <<stock, pending, skus, sets>>

DelPending(k) ==
  /\ pending' = [p \in Purchases |-> IF p.sku = k THEN "absent" ELSE pending[p]]
  /\ UNCHANGED <<stock, bought, skus, sets, cleared>>

Run(c) ==
  \/ c.what = "set" /\ SetStock(c.sku)
  \/ c.what = "delBought" /\ DelBought(c.sku)
  \/ c.what = "delPending" /\ DelPending(c.sku)
  \/ c.what = "register" /\ RegisterSku(c.sku) /\ UNCHANGED <<sets, cleared>>

(* An error is printed or not looked at, and the next command follows.     *)
WarmUp(n) ==
  /\ nodeAt[n] = "warming" /\ warming[n] # <<>>
  /\ warming' = [warming EXCEPT ![n] = Tail(@)]
  /\ \/ Run(Head(warming[n]))
     \/ "redis" \in Faults /\ UNCHANGED <<redisVars, sets, cleared>>
  /\ UNCHANGED <<nodeAt, starts, engineVars, flowVars, sweepVars, net>>

(* Mutant: the WAL is opened with O_TRUNC. *)
StartEngine_Truncates(n) ==
  /\ nodeAt[n] = "warming" /\ warming[n] = <<>>
  /\ nodeAt' = [nodeAt EXCEPT ![n] = "up"]
  /\ inventory' = [inventory EXCEPT ![n] = EngineStock]
  /\ seen' = [seen EXCEPT ![n] = {}]
  /\ file' = [file EXCEPT ![n] = <<>>]
  /\ UNCHANGED <<redisVars, warming, starts, torn, flowVars, sweepVars, sets, cleared, net>>

(* The Worker constructor fills inventory_ and opens the WAL with O_APPEND;*)
(* nobody calls Recover.                                                   *)
StartEngine(n) ==
  /\ nodeAt[n] = "warming" /\ warming[n] = <<>>
  /\ nodeAt' = [nodeAt EXCEPT ![n] = "up"]
  /\ inventory' = [inventory EXCEPT ![n] = EngineStock]
  /\ seen' = [seen EXCEPT ![n] = {}]
  /\ UNCHANGED <<redisVars, warming, starts, file, torn, flowVars, sweepVars, sets, cleared, net>>

InFlight(p) == at[p] \in {"deducted", "registered", "logging", "turned"} \/ p \in toCommit \cup toAck

(* The process dies (kill -9): memory, channels and the sweeper's list are *)
(* gone.  What write() has taken is in the page cache and stays; the       *)
(* machine goes on.                                                        *)
Crash(n) ==
  /\ nodeAt[n] # "down"
  /\ nodeAt' = [nodeAt EXCEPT ![n] = "down"]
  /\ warming' = [warming EXCEPT ![n] = <<>>]
  /\ at' = [p \in Purchases |-> IF servedBy[p] = n /\ InFlight(p) THEN "dead" ELSE at[p]]
  /\ toCommit' = {p \in toCommit : servedBy[p] # n}
  /\ toAck' = {p \in toAck : servedBy[p] # n}
  /\ todo' = [todo EXCEPT ![n] = {}]
  /\ acking' = [acking EXCEPT ![n] = None]
  /\ rolling' = [rolling EXCEPT ![n] = None]
  /\ UNCHANGED <<redisVars, starts, engineVars, servedBy, orders, sets, cleared, net>>

-----------------------------------------------------------------------------
(* A purchase; the steps that matter here (all of them: see Reservation).  *)

Goes(p, here, there) ==
  /\ at[p] = here /\ nodeAt[servedBy[p]] = "up"
  /\ at' = [at EXCEPT ![p] = there]

(* The deduct script, and what it takes from the shelf.                    *)
TakeFromShelf(p) ==
  /\ Deduct(p)
  /\ net' = IF DeductStatus(p) = 1 THEN [net EXCEPT ![p.sku] = @ + p.qty] ELSE net

(* The rollback script, and what it gives back to the shelf.               *)
GiveBack(p) ==
  /\ Rollback(p)
  /\ net' = IF p.user \in bought[p.sku] THEN [net EXCEPT ![p.sku] = @ - p.qty] ELSE net

(* An error, also one after the script has run, is answered with 500.      *)
Buy(p) ==
  /\ \/ /\ Goes(p, "new", IF DeductStatus(p) = 1 THEN "deducted" ELSE "refused")
        /\ TakeFromShelf(p)
     \/ /\ "redis" \in Faults
        /\ Goes(p, "new", "failed")
        /\ TakeFromShelf(p) \/ UNCHANGED <<redisVars, net>>
  /\ UNCHANGED <<nodeVars, engineVars, servedBy, toCommit, toAck, orders, sweepVars, sets, cleared>>

Register(p) ==
  /\ Goes(p, "deducted", "registered")
  /\ RegisterSku(p.sku) \/ ("redis" \in Faults /\ UNCHANGED redisVars)
  /\ UNCHANGED <<nodeVars, engineVars, servedBy, toCommit, toAck, orders, sweepVars, sets, cleared, net>>

(* EnqueueRequest answers 0 or 2.                                          *)
Reject(p) ==
  /\ Goes(p, "registered", "turned")
  /\ UNCHANGED <<redisVars, nodeVars, engineVars, servedBy, toCommit, toAck, orders>>
  /\ UNCHANGED <<sweepVars, sets, cleared, net>>

(* The worker: an id it has seen since it was started is dropped.          *)
Process(p) ==
  LET n == servedBy[p]
  IN  /\ \/ p.id \in seen[n] /\ Goes(p, "registered", "dropped") /\ UNCHANGED inventory
         \/ /\ p.id \notin seen[n] /\ inventory[n][p.sku] < p.qty
            /\ Goes(p, "registered", "turned")
            /\ UNCHANGED inventory
         \/ /\ p.id \notin seen[n] /\ inventory[n][p.sku] >= p.qty
            /\ Goes(p, "registered", "logging")
            /\ inventory' = [inventory EXCEPT ![n][p.sku] = @ - p.qty]
      /\ seen' = [seen EXCEPT ![n] = @ \cup {p.id}]
      /\ UNCHANGED <<redisVars, nodeVars, file, torn, servedBy, toCommit, toAck, orders>>
      /\ UNCHANGED <<sweepVars, sets, cleared, net>>

Record(p) == <<[of |-> p, half |-> 1], [of |-> p, half |-> 2]>>

Aligned(f) == Len(f) % 2 = 0

(* Append: one write(), which may take only a part of the record or none.  *)
(* Nobody looks at its result, and the sale is reported.                   *)
Log(p) ==
  /\ Goes(p, "logging", "sold")
  /\ \/ /\ file' = [file EXCEPT ![servedBy[p]] = @ \o Record(p)]
        /\ torn' = IF Aligned(file[servedBy[p]]) THEN torn ELSE torn \cup {p}
     \/ /\ "disk" \in Faults
        /\ file' = [file EXCEPT ![servedBy[p]] = Append(@, Record(p)[1])] \/ UNCHANGED file
        /\ torn' = torn \cup {p}
  /\ toCommit' = toCommit \cup {p} /\ toAck' = toAck \cup {p}
  /\ UNCHANGED <<redisVars, nodeVars, inventory, seen, servedBy, orders, sweepVars, sets, cleared, net>>

HasOrder(p) == \E o \in orders : o.id = p.id

(* INSERT ... ON CONFLICT DO NOTHING, whose error nobody looks at.         *)
Commit(p) ==
  /\ p \in toCommit
  /\ toCommit' = toCommit \ {p}
  /\ \/ orders' = IF HasOrder(p) THEN orders ELSE orders \cup {p}
     \/ "db" \in Faults /\ UNCHANGED orders
  /\ UNCHANGED <<redisVars, nodeVars, engineVars, at, servedBy, toAck, sweepVars, sets, cleared, net>>

Ack(p) ==
  /\ p \in toAck
  /\ toAck' = toAck \ {p}
  /\ RemovePending(p) \/ ("redis" \in Faults /\ UNCHANGED redisVars)
  /\ UNCHANGED <<nodeVars, engineVars, at, servedBy, toCommit, orders, sweepVars, sets, cleared, net>>

(* RollbackInventory of a refused purchase.  The three attempts, and the   *)
(* client's own beneath them, are counted in Reservation; here a script    *)
(* that ran may run once more as often as it likes, and one that never     *)
(* runs is a dead letter.                                                  *)
TurnBack(p) ==
  /\ \/ Goes(p, "turned", "refused") /\ GiveBack(p)
     \/ "resend" \in Faults /\ Goes(p, "turned", "turned") /\ GiveBack(p)
     \/ "redis" \in Faults /\ Goes(p, "turned", "refused") /\ UNCHANGED <<redisVars, net>>
  /\ UNCHANGED <<nodeVars, engineVars, servedBy, toCommit, toAck, orders, sweepVars, sets, cleared>>

(* 30 s pass.  Without slow calls whatever is alive is done by then.       *)
TimePasses(p) ==
  /\ InFlight(p) => "slow" \in Faults
  /\ GrowStale(p)
  /\ UNCHANGED <<nodeVars, engineVars, flowVars, sweepVars, sets, cleared, net>>

-----------------------------------------------------------------------------
(* The sweeper of a node: fetch the stale members of one SKU, then look    *)
(* one after the other up and acknowledge it or roll it back.  Traffic,    *)
(* warm-ups and other sweepers run between any two of these steps.         *)

Sweep(n, k) ==
  /\ n \in Sweepers /\ nodeAt[n] = "up"
  /\ todo[n] = {} /\ acking[n] = None /\ rolling[n] = None
  /\ k \in skus /\ StaleMembers(k) # {}
  /\ todo' = [todo EXCEPT ![n] = StaleMembers(k)]
  /\ UNCHANGED <<redisVars, nodeVars, engineVars, flowVars, acking, rolling, sets, cleared, net>>

(* A failed query skips the member.                                        *)
SweepCheck(n) ==
  /\ acking[n] = None /\ rolling[n] = None
  /\ \E p \in todo[n] :
       /\ todo' = [todo EXCEPT ![n] = @ \ {p}]
       /\ \/ HasOrder(p) /\ acking' = [acking EXCEPT ![n] = p] /\ UNCHANGED rolling
          \/ ~HasOrder(p) /\ rolling' = [rolling EXCEPT ![n] = p] /\ UNCHANGED acking
          \/ "db" \in Faults /\ UNCHANGED <<acking, rolling>>
  /\ UNCHANGED <<redisVars, nodeVars, engineVars, flowVars, sets, cleared, net>>

SweepAck(n) ==
  /\ acking[n] # None
  /\ RemovePending(acking[n]) \/ ("redis" \in Faults /\ UNCHANGED redisVars)
  /\ acking' = [acking EXCEPT ![n] = None]
  /\ UNCHANGED <<nodeVars, engineVars, flowVars, todo, rolling, sets, cleared, net>>

(* RollbackInventory, as in TurnBack.                                      *)
SweepBack(n) ==
  /\ rolling[n] # None
  /\ \/ GiveBack(rolling[n]) /\ rolling' = [rolling EXCEPT ![n] = None]
     \/ "resend" \in Faults /\ GiveBack(rolling[n]) /\ UNCHANGED rolling
     \/ /\ "redis" \in Faults
        /\ rolling' = [rolling EXCEPT ![n] = None]
        /\ UNCHANGED <<redisVars, net>>
  /\ UNCHANGED <<nodeVars, engineVars, flowVars, todo, acking, sets, cleared>>

-----------------------------------------------------------------------------

Node(n) == StartProcess(n) \/ WarmUp(n) \/ StartEngine(n) \/ Crash(n)
Purchase(p) ==
  \/ Buy(p) \/ Register(p) \/ Reject(p) \/ Process(p) \/ Log(p)
  \/ Commit(p) \/ Ack(p) \/ TurnBack(p)
Sweeper(n) == SweepCheck(n) \/ SweepAck(n) \/ SweepBack(n)

Next ==
  \/ \E n \in Nodes : Node(n) \/ Sweeper(n) \/ \E k \in Skus : Sweep(n, k)
  \/ \E p \in Purchases : Purchase(p) \/ TimePasses(p)

Spec == Init /\ [][Next]_vars

-----------------------------------------------------------------------------
(* Restarts sell the stock again, but no more often than the stock key was *)
(* set: whatever nodes, crashes, forgotten reservations and sweeps do, the *)
(* items taken and not given back stay below that.                         *)
StockBoundedByWarmUps ==
  \A k \in Skus : InitialStock[k] # NoKey =>
    (IF stock[k] = NoKey THEN 0 ELSE stock[k]) + net[k] <= InitialStock[k] * sets[k]

(* Every rollback runs once, and for a purchase that is over.  The code    *)
(* does not promise it: each node sweeps, RollbackInventory sends again    *)
(* what may have run, and a sweeper takes a slow call for a dead one.      *)
RollbacksRunOnce ==
  /\ Faults \cap {"resend", "slow"} = {}
  /\ \A m, n \in Sweepers : m = n

(* A user has at most one order more than the deletions that took him out  *)
(* of the bought set.  A deletion may come before or after the order it    *)
(* makes room for: what a sweeper fetched before a restart it rolls back   *)
(* after it, out of the user's next reservation.  With two sweepers, with  *)
(* a rollback sent again or a slow call even this fails: a purchase is     *)
(* given back twice, or given back and sold.                               *)
OneOrderPerClearing ==
  \A k \in Skus, u \in Users :
    Cardinality({o \in orders : o.sku = k /\ o.user = u}) <= cleared[k][u] + 1

(* WalLogger::Recover: whole records, read one after the other.            *)
Recovered(f) ==
  [i \in 1 .. Len(f) \div 2 |->
     IF f[2 * i - 1].of = f[2 * i].of /\ f[2 * i - 1].half = 1 /\ f[2 * i].half = 2
       THEN f[2 * i].of ELSE Garbage]

Logged(n) == {Recovered(file[n])[i] : i \in DOMAIN Recovered(file[n])}

(* Every order, also one still on its way to the database, can be read     *)
(* from the WAL of its node, after any number of process deaths and        *)
(* starts.  A short write costs its own record and those it puts askew,    *)
(* and never one that was written before; a disk that takes every record   *)
(* whole costs nothing.  wal.hpp, Append: the data "survives process crash *)
(* (kill -9)" but not an OS crash or power loss, which is not claimed and  *)
(* not modelled.                                                           *)
OrdersAreLogged ==
  /\ \A o \in orders \cup toCommit : o \in Logged(servedBy[o]) \/ o \in torn
  /\ "disk" \notin Faults => torn = {}

(* README: "the engine replays the WAL to reconstruct the exact in-memory  *)
(* state".                                                                 *)
StateIsReplayed ==
  \A n \in Nodes : nodeAt[n] = "up" => \A k \in Skus :
    inventory[n][k] <= EngineStock[k]
      - MapThenSumSet(LAMBDA p : p.qty, {p \in Logged(n) \ {Garbage} : p.sku = k})

(* README: "0 Oversold".                                                   *)
NothingOversold ==
  \A k \in Skus : InitialStock[k] # NoKey =>
    MapThenSumSet(LAMBDA p : p.qty, {p \in orders : p.sku = k}) <= InitialStock[k]

(* wal.hpp: Recover reads "all records from the file".                     *)
RecordsAreWhole == \A n \in Nodes : Garbage \notin Logged(n)
=============================================================================
