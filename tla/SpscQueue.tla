----------------------------- MODULE SpscQueue -----------------------------
(***************************************************************************)
(* spsc_queue.hpp: a ring buffer for one producer and one consumer.  Every *)
(* load and store of head_, tail_ and a buffer cell is a step.  The code's *)
(* release stores and acquire loads make the cells written before a store  *)
(* of tail_ (read before a store of head_) visible to whoever loads it, so *)
(* the steps are taken in one global order.                                *)
(***************************************************************************)
EXTENDS Naturals, Sequences

CONSTANTS
  Capacity,   \* constructor argument; the buffer has one cell more
  BatchSize,  \* most items in one call (1 is try_enqueue and try_dequeue)
  LastItem,   \* bound of the model: items are 1 .. LastItem, in that order
  Garbage     \* what a cell holds before its first use

ASSUME SpscAssumption ==
  /\ Capacity \in Nat \ {0} /\ BatchSize \in Nat \ {0} /\ LastItem \in Nat
  /\ Garbage \notin Nat

VARIABLES
  head, tail,   \* head_, tail_
  buffer,       \* buffer_
  sending,      \* what the producer's call still has to copy
  writeAt,      \* the cell it copies to next
  receiving,    \* how many cells the consumer's call still has to copy
  readAt,       \* the cell it copies next
  items,        \* the consumer's output array
  next,         \* the next item the producer sends
  taken         \* history: the items the consumer's calls have returned

producerVars == <<tail, sending, writeAt, next>>
consumerVars == <<head, receiving, readAt, items, taken>>
vars == <<producerVars, consumerVars, buffer>>

Size == Capacity + 1
Cells == 0 .. Capacity

SpscTypeOK ==
  /\ head \in Cells /\ tail \in Cells /\ writeAt \in Cells /\ readAt \in Cells
  /\ buffer \in [Cells -> 1 .. LastItem \cup {Garbage}]
  /\ sending \in Seq(1 .. LastItem) /\ Len(sending) <= BatchSize
  /\ receiving \in 0 .. BatchSize
  /\ items \in Seq(1 .. LastItem \cup {Garbage})
  /\ next \in 1 .. LastItem + 1
  /\ taken \in Seq(1 .. LastItem \cup {Garbage})

Init ==
  /\ head = 0 /\ tail = 0 /\ writeAt = 0 /\ readAt = 0
  /\ buffer = [i \in Cells |-> Garbage]
  /\ sending = <<>> /\ receiving = 0 /\ items = <<>> /\ taken = <<>>
  /\ next = 1

(* The number of cells from index i up to index j, around the ring.        *)
Distance(i, j) == (j + Size - i) % Size

-----------------------------------------------------------------------------
(* Between calls of the producer writeAt is tail, and no item is sending.  *)

(* Mutant: every cell of the ring counts as room. *)
StartEnqueue_OffByOne(n) ==
  /\ sending = <<>> /\ writeAt = tail
  /\ next + n - 1 <= LastItem
  /\ n <= Size - Distance(head, tail)
  /\ sending' = [i \in 1 .. n |-> next + i - 1]
  /\ UNCHANGED <<tail, writeAt, next, consumerVars, buffer>>

(* Load tail_ and head_; the items must fit, or the call returns false.    *)
StartEnqueue(n) ==
  /\ sending = <<>> /\ writeAt = tail
  /\ next + n - 1 <= LastItem
  /\ n <= Capacity - Distance(head, tail)
  /\ sending' = [i \in 1 .. n |-> next + i - 1]
  /\ UNCHANGED <<tail, writeAt, next, consumerVars, buffer>>

WriteCell ==
  /\ sending # <<>>
  /\ buffer' = [buffer EXCEPT ![writeAt] = Head(sending)]
  /\ sending' = Tail(sending)
  /\ writeAt' = (writeAt + 1) % Size
  /\ next' = next + 1
  /\ UNCHANGED <<tail, consumerVars>>

(* Mutant: the new tail is not stored. *)
StoreTail_Forgotten ==
  /\ sending = <<>> /\ writeAt # tail
  /\ writeAt' = tail
  /\ UNCHANGED <<tail, sending, next, consumerVars, buffer>>

StoreTail ==
  /\ sending = <<>> /\ writeAt # tail
  /\ tail' = writeAt
  /\ UNCHANGED <<sending, writeAt, next, consumerVars, buffer>>

-----------------------------------------------------------------------------
(* Between calls of the consumer readAt is head, and nothing is receiving. *)

(* Mutant: a whole batch is taken whatever is there. *)
StartDequeue_WholeBatch(n) ==
  /\ receiving = 0 /\ readAt = head
  /\ head # tail
  /\ receiving' = n
  /\ UNCHANGED <<producerVars, head, readAt, items, taken, buffer>>

(* Load head_ and tail_; take what is there, at most n items.              *)
StartDequeue(n) ==
  /\ receiving = 0 /\ readAt = head
  /\ head # tail
  /\ receiving' = IF Distance(head, tail) < n THEN Distance(head, tail) ELSE n
  /\ UNCHANGED <<producerVars, head, readAt, items, taken, buffer>>

ReadCell ==
  /\ receiving > 0
  /\ items' = Append(items, buffer[readAt])
  /\ receiving' = receiving - 1
  /\ readAt' = (readAt + 1) % Size
  /\ UNCHANGED <<producerVars, head, taken, buffer>>

StoreHead ==
  /\ receiving = 0 /\ readAt # head
  /\ head' = readAt
  /\ taken' = taken \o items
  /\ items' = <<>>
  /\ UNCHANGED <<producerVars, receiving, readAt, buffer>>

-----------------------------------------------------------------------------

Next ==
  \/ \E n \in 1 .. BatchSize : StartEnqueue(n) \/ StartDequeue(n)
  \/ WriteCell \/ StoreTail \/ ReadCell \/ StoreHead

Spec == Init /\ [][Next]_vars

FairSpec == Spec
  /\ WF_vars(WriteCell \/ StoreTail)
  /\ WF_vars(ReadCell \/ StoreHead \/ \E n \in 1 .. BatchSize : StartDequeue(n))

-----------------------------------------------------------------------------
(* The producer never writes the cell the consumer is reading, whichever   *)
(* way the ring has wrapped: the two copy loops need no lock.              *)
NoSharedCell == sending # <<>> /\ receiving > 0 => writeAt # readAt

Contents == [i \in 1 .. Distance(head, tail) |-> buffer[(head + i - 1) % Size]]

Fifo == INSTANCE BoundedFifo WITH
          Items <- 1 .. LastItem, Room <- Capacity, queue <- Contents

(* The ring is a FIFO of Capacity items: one unused cell tells full from   *)
(* empty, batches are stored and removed as a whole.                       *)
ImplementsFifo == Fifo!FifoSpec

(* Every item stored is returned some day, at most one batch at a time.    *)
EveryItemArrives == \A x \in 1 .. LastItem : next > x ~> \E i \in DOMAIN taken : taken[i] = x
=============================================================================
