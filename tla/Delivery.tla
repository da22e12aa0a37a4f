------------------------------ MODULE Delivery ------------------------------
(***************************************************************************)
(* What the result pipeline promises for each answer of the engine, without *)
(* workers, channels and batches: a sale is part of one INSERT and of one  *)
(* acknowledgement, a refusal of one rollback, none of them twice, and the *)
(* two kinds are never confused.                                           *)
(***************************************************************************)
EXTENDS Naturals

CONSTANTS
  Sales,    \* results whose order has to be stored
  Refusals  \* results whose reservation has to be undone

VARIABLES inserts, acks, reverts  \* how often each result was part of one

deliveryVars == <<inserts, acks, reverts>>

NotYet == [r \in Sales \cup Refusals |-> 0]

DeliveryInit == inserts = NotYet /\ acks = NotYet /\ reverts = NotYet

(* The results of S are done now, and none of them was before.             *)
Once(done, S) ==
  /\ \A r \in S : done[r] = 0
  /\ done' = [r \in Sales \cup Refusals |-> IF r \in S THEN 1 ELSE done[r]]

Insert == (\E S \in SUBSET Sales : Once(inserts, S)) /\ UNCHANGED <<acks, reverts>>
Acknowledge == (\E S \in SUBSET Sales : Once(acks, S)) /\ UNCHANGED <<inserts, reverts>>
Revert == (\E r \in Refusals : Once(reverts, {r})) /\ UNCHANGED <<inserts, acks>>

DeliverySpec == DeliveryInit /\ [][Insert \/ Acknowledge \/ Revert]_deliveryVars

=============================================================================
