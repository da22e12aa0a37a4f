--------------------------- MODULE MCOrderWorker ---------------------------
(* The second item of p1 repeats the id of its first one. *)
EXTENDS OrderWorker

CONSTANTS p1, p2, q1, q2

MCIdOf == [x \in Items |-> IF x[1] = p1 THEN 1 ELSE 1 + x[2]]
=============================================================================
