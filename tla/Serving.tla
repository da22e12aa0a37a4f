------------------------------ MODULE Serving ------------------------------
(***************************************************************************)
(* What the engine promises its callers, without queues and threads: per   *)
(* shard one line of accepted requests and one server, who takes them in   *)
(* the order they came, decides each against the stock and the ids of the  *)
(* moment, and gives each at most one result.                              *)
(***************************************************************************)
EXTENDS Integers, Sequences

CONSTANTS
  Skus, Shards,   \* what is sold, and the servers
  ShardOf,        \* the one server of a SKU
  Submissions,    \* calls
  RequestOf,      \* the request of each: kind, sku, qty, id
  StockAtStart,   \* items of each SKU, or NoEntry
  NoEntry,        \* the SKU is not sold
  TooMany(_),     \* whether a server forgets ids rather than remember this many
  Barrier         \* what a drain lines up

Nobody == [sub |-> Barrier, status |-> 0]

VARIABLES
  accepted,  \* submissions that stand in a line or stood in one
  refused,   \* submissions turned away because the SKU is sold out
  line,      \* what a shard has accepted and not begun
  serving,   \* the result a shard is about to give, or Nobody
  stock,     \* items left
  known,     \* ids a shard has decided
  results,   \* results given, oldest first
  told       \* results collected

servingVars == <<accepted, refused, line, serving, stock, known, results, told>>

ServingInit ==
  /\ accepted = {} /\ refused = {}
  /\ line = [h \in Shards |-> <<>>]
  /\ serving = [h \in Shards |-> Nobody]
  /\ stock = StockAtStart
  /\ known = [h \in Shards |-> {}]
  /\ results = <<>> /\ told = {}

Accept(s) ==
  /\ s \notin accepted \cup refused
  /\ accepted' = accepted \cup {s}
  /\ line' = [line EXCEPT ![ShardOf[RequestOf[s].sku]] = Append(@, s)]
  /\ UNCHANGED <<refused, serving, stock, known, results, told>>

(* Only when nothing is left.                                              *)
Refuse(s) ==
  /\ s \notin accepted \cup refused
  /\ stock[RequestOf[s].sku] = 0
  /\ refused' = refused \cup {s}
  /\ UNCHANGED <<accepted, line, serving, stock, known, results, told>>

(* A drain lines up too.                                                   *)
Mark(h) ==
  /\ line' = [line EXCEPT ![h] = Append(@, Barrier)]
  /\ UNCHANGED <<accepted, refused, serving, stock, known, results, told>>

Advance(h) ==
  /\ line' = [line EXCEPT ![h] = Tail(@)]
  /\ UNCHANGED <<accepted, refused, results, told>>

(* The request that is next, when the server has nothing in hand.          *)
Turn(h, kind) ==
  /\ serving[h] = Nobody /\ line[h] # <<>>
  /\ Head(line[h]) # Barrier /\ RequestOf[Head(line[h])].kind = kind

(* Nothing is answered to a drain, to a request that looks like one, to a  *)
(* warm-up request and to a known id.                                      *)
Skip(h) ==
  /\ \/ serving[h] = Nobody /\ line[h] # <<>> /\ Head(line[h]) = Barrier
     \/ Turn(h, "warmup") \/ Turn(h, "max")
     \/ Turn(h, "order") /\ RequestOf[Head(line[h])].id \in known[h]
  /\ Advance(h)
  /\ UNCHANGED <<serving, stock, known>>

Decide(h, status) ==
  /\ serving' = [serving EXCEPT ![h] = [sub |-> Head(line[h]), status |-> status]]
  /\ Advance(h)

Bench(h) ==
  /\ Turn(h, "bench")
  /\ Decide(h, 1)
  /\ UNCHANGED <<stock, known>>

(* The ids are forgotten when there are too many.                          *)
Learn(h, id) ==
  \/ ~TooMany(known[h] \cup {id}) /\ known' = [known EXCEPT ![h] = @ \cup {id}]
  \/ TooMany(known[h] \cup {id}) /\ known' = [known EXCEPT ![h] = {}]

Order(h) ==
  /\ Turn(h, "order")
  /\ LET r == RequestOf[Head(line[h])]
     IN  /\ r.id \notin known[h]
         /\ Learn(h, r.id)
         /\ \/ stock[r.sku] = NoEntry /\ Decide(h, 0) /\ UNCHANGED stock
            \/ /\ stock[r.sku] # NoEntry /\ stock[r.sku] >= r.qty
               /\ Decide(h, 1)
               /\ stock' = [stock EXCEPT ![r.sku] = @ - r.qty]
            \/ /\ stock[r.sku] # NoEntry /\ stock[r.sku] < r.qty
               /\ Decide(h, 2) /\ UNCHANGED stock

Answer(h) ==
  /\ serving[h] # Nobody
  /\ results' = Append(results, serving[h])
  /\ serving' = [serving EXCEPT ![h] = Nobody]
  /\ UNCHANGED <<accepted, refused, line, stock, known, told>>

(* No submission is answered a second time.                                *)
Tell ==
  /\ results # <<>>
  /\ \A r \in told : r.sub # Head(results).sub
  /\ told' = told \cup {Head(results)}
  /\ results' = Tail(results)
  /\ UNCHANGED <<accepted, refused, line, serving, stock, known>>

ServingNext ==
  \/ \E s \in Submissions : Accept(s) \/ Refuse(s)
  \/ \E h \in Shards : Mark(h) \/ Skip(h) \/ Bench(h) \/ Order(h) \/ Answer(h)
  \/ Tell

ServingSpec == ServingInit /\ [][ServingNext]_servingVars
=============================================================================
