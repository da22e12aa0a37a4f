--------------------------- MODULE MCLegacyEngine ---------------------------
(* One caller: a batch of two requests, for SKU 0 on worker 0 and SKU 1 on  *)
(* worker 1, and the second id again, for more.                             *)
EXTENDS LegacyEngine, TLC

CONSTANT c1

MCShardOf == [k \in Skus |-> k % WorkerCount]
MCStock == [k \in Skus |-> 1]
First == [id |-> 1, sku |-> 0, qty |-> 1]
Second == [id |-> 2, sku |-> 1, qty |-> 1]
Again == [id |-> 2, sku |-> 1, qty |-> 2]
MCProgram == c1 :> <<First, Second, Again>>
MCBatched == {First, Second}
=============================================================================
