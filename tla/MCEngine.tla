------------------------------ MODULE MCEngine ------------------------------
(***************************************************************************)
(* Small engines for TLC.  SKU 0 and 2 go to shard 0, SKU 1 to shard 1.    *)
(***************************************************************************)
EXTENDS Engine, TLC

CONSTANTS s1, s2, s3, s4, s5

MCShardOf == [k \in Skus |-> k % ShardCount]
MCStock == 0 :> 5 @@ 1 :> 1 @@ 2 :> NoEntry

Order(k, n, i) == [kind |-> "order", sku |-> k, qty |-> n, id |-> i]
Special(kind, k, i) == [kind |-> kind, sku |-> k, qty |-> 1, id |-> i]

(* Who calls the engine: submissions, drainers, and "stop".  Nobody has to *)
(* call, so the behaviours within a cast are behaviours of the engine; a   *)
(* run takes the union of several casts instead of everybody at once.      *)
Called ==
  {s \in Submissions : callerAt[s] # "idle"} \cup {d \in Drainers : drainAt[d] # "out"}
    \cup (IF stopAt = "up" THEN {} ELSE {"stop"})

(* Five items of SKU 0 for quantities 2 and 3 under one id and 3 under     *)
(* another: two sales that empty the shelf, or one and a refusal with two  *)
(* items left; and a request with the id of a barrier on the other shard.  *)
(* Or: two drains next to an order, or next to a warm-up request.          *)
Mixture == s1 :> Order(0, 2, 1) @@ s2 :> Order(0, 3, 1) @@ s3 :> Order(0, 3, 2)
        @@ s4 :> Special("max", 1, 99) @@ s5 :> Special("warmup", 1, 0)
MixtureCasts == {{s1, s2, s3, s4, "stop"}, {s1, "d1", "d2"}, {s5, "d1", "d2"}}
WithinMixture == \E c \in MixtureCasts : Called' \subseteq c

(* Two orders under one id and a request in front of them with the id of a *)
(* barrier, while the other shard has a result to give too.  Or a stop     *)
(* around a drain, or around answers that fill the result queue.           *)
Busy == s1 :> Order(0, 1, 1) @@ s2 :> Order(0, 1, 1) @@ s3 :> Order(1, 1, 2)
     @@ s4 :> Special("max", 0, 99) @@ s5 :> Special("bench", 0, 9)
BusyCasts == {{s1, s2, s3, s4}, {s1, s5, "stop"}, {s1, "d1", "stop"}}
WithinBusy == \E c \in BusyCasts : Called' \subseteq c

(* An SKU without inventory, the other shard, and a warm-up request; or    *)
(* the id of a barrier.                                                    *)
FewAll == s1 :> Order(2, 1, 1) @@ s2 :> Order(1, 1, 2)
       @@ s3 :> Special("warmup", 0, 0) @@ s4 :> Special("max", 0, 99)
Few == [s \in Submissions |-> FewAll[s]]

(* Two ids, one of them twice; the other asks for too much.                *)
Repeats == s1 :> Order(0, 1, 1) @@ s2 :> Order(0, 3, 2) @@ s3 :> Order(0, 1, 1)
=============================================================================
