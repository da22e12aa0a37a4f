--------------------------- MODULE MCReservation ---------------------------
(***************************************************************************)
(* Small sales for TLC.  u1 tries twice, for different quantities and with *)
(* different request ids; u2 competes for the same two items.              *)
(***************************************************************************)
EXTENDS Reservation, TLC

CONSTANTS k1, k2, u1, u2, c1, c2, c3, c4

Buy(k, u, n, i) == [sku |-> k, user |-> u, qty |-> n, id |-> i]

MCIds == 1 .. 3
MCStock == [k \in Skus |-> IF k = k1 THEN 2 ELSE NoKey]

(* Two users, one of them twice.                                           *)
RivalsOf == (c1 :> Buy(k1, u1, 2, 1)) @@ (c2 :> Buy(k1, u1, 1, 2)) @@ (c3 :> Buy(k1, u2, 1, 3))
Rivals == {RivalsOf[c] : c \in {c1, c2, c3}}

(* The same, but u2 happens to use an id of u1, and u1's first purchase is *)
(* sent twice.                                                             *)
CrowdOf == (c1 :> Buy(k1, u1, 2, 1)) @@ (c2 :> Buy(k1, u1, 1, 2))
        @@ (c3 :> Buy(k1, u2, 1, 2)) @@ (c4 :> Buy(k1, u1, 2, 1))
Crowd == {CrowdOf[c] : c \in {c1, c2, c3, c4}}

(* Two purchases of one user.                                              *)
PairOf == (c1 :> Buy(k1, u1, 2, 1)) @@ (c2 :> Buy(k1, u1, 1, 2))
Pair == {PairOf[c] : c \in {c1, c2}}

(* Two single items for one user.                                          *)
TwinsOf == (c1 :> Buy(k1, u1, 1, 1)) @@ (c2 :> Buy(k1, u1, 1, 2))
Twins == {TwinsOf[c] : c \in {c1, c2}}
=============================================================================
