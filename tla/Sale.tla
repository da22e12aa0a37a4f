-------------------------------- MODULE Sale --------------------------------
(***************************************************************************)
(* What the flash sale promises, without Redis, engine or database: a      *)
(* purchase is taken off the shelf, and then either put back or sold.      *)
(* Reservation is shown to implement it.                                   *)
(***************************************************************************)
EXTENDS Integers

CONSTANTS
  Purchases,     \* the purchases users attempt: records with sku, user, qty
  InitialStock   \* items on the shelf when the sale opens, per SKU

VARIABLES
  shelf,  \* items left, per SKU
  held,   \* purchases reserved and not settled
  sold    \* purchases that became orders

saleVars == <<shelf, held, sold>>

SaleInit == shelf = InitialStock /\ held = {} /\ sold = {}

SameBuyer(p, q) == p.sku = q.sku /\ p.user = q.user

(* One purchase per user and SKU, and never more than the shelf holds.     *)
Reserve(p) ==
  /\ \A q \in held \cup sold : ~SameBuyer(p, q)
  /\ shelf[p.sku] >= p.qty
  /\ shelf' = [shelf EXCEPT ![p.sku] = @ - p.qty]
  /\ held' = held \cup {p}
  /\ UNCHANGED sold

(* Only what is held goes back: an order is final.                         *)
Release(p) ==
  /\ p \in held
  /\ shelf' = [shelf EXCEPT ![p.sku] = @ + p.qty]
  /\ held' = held \ {p}
  /\ UNCHANGED sold

Settle(p) ==
  /\ p \in held
  /\ held' = held \ {p}
  /\ sold' = sold \cup {p}
  /\ UNCHANGED shelf

SaleNext == \E p \in Purchases : Reserve(p) \/ Release(p) \/ Settle(p)

SaleSpec == SaleInit /\ [][SaleNext]_saleVars

=============================================================================
