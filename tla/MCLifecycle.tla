---------------------------- MODULE MCLifecycle ----------------------------
(* One SKU with two items.  Either a user who comes three times and uses   *)
(* an id twice, or one who comes twice and another user with the same id.  *)
EXTENDS Lifecycle

CONSTANTS k1, u1, u2

Buys(u, n, i) == [sku |-> k1, user |-> u, qty |-> n, id |-> i]

MCIds == 1 .. 2
MCOneUser == {Buys(u1, 1, 1), Buys(u1, 2, 2), Buys(u1, 1, 2)}
MCTwoUsers == {Buys(u1, 1, 1), Buys(u1, 2, 2), Buys(u2, 1, 1)}
MCStock == [k \in Skus |-> 2]
MCWarmUps == <<k1>>
=============================================================================
