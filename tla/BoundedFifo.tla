---------------------------- MODULE BoundedFifo ----------------------------
(***************************************************************************)
(* What both lock-free queues promise their users: a bounded FIFO from     *)
(* which items leave in the order they came, each exactly once.            *)
(***************************************************************************)
EXTENDS Naturals, Sequences

CONSTANTS
  Items,   \* what may be put into the queue
  Room     \* how many items it holds

VARIABLES
  queue,  \* the items inside, oldest first
  taken   \* history: the items that left, in order

fifoVars == <<queue, taken>>

FifoInit == queue = <<>> /\ taken = <<>>

Put(xs) ==
  /\ Len(queue) + Len(xs) <= Room
  /\ queue' = queue \o xs
  /\ UNCHANGED taken

Take(n) ==
  /\ taken' = taken \o SubSeq(queue, 1, n)
  /\ queue' = SubSeq(queue, n + 1, Len(queue))

FifoNext ==
  \/ \E n \in 1 .. Room : \E xs \in [1 .. n -> Items] : Put(xs)
  \/ \E n \in 1 .. Len(queue) : Take(n)

FifoSpec == FifoInit /\ [][FifoNext]_fifoVars
=============================================================================
