----------------------------- MODULE MpmcQueue -----------------------------
(***************************************************************************)
(* mpmc_queue.hpp: Vyukov's bounded queue.  Each load, store and exchange  *)
(* of an atomic and each copy of a cell's data is a step of its thread.    *)
(* The acquire loads and release stores of a cell's sequence order the     *)
(* copies, so the steps are taken in one global order.  Positions are not  *)
(* reduced modulo 2^64: no run of the program gets there.                  *)
(***************************************************************************)
EXTENDS Integers, Sequences, FiniteSets

CONSTANTS
  Producers, Consumers,  \* the threads
  Capacity,              \* cells, a power of two and at least 2
  Rounds,                \* bound of the model: items each producer sends
  Garbage                \* what a cell holds before its first use

ASSUME MpmcAssumption ==
  /\ Capacity \in Nat \ {0, 1}
  /\ Rounds \in Nat
  /\ Producers \cap Consumers = {}

Threads == Producers \cup Consumers
Cells == 0 .. Capacity - 1
Items == Producers \X (1 .. Rounds)

VARIABLES
  enqueuePos, dequeuePos,  \* enqueue_pos_, dequeue_pos_
  sequence,                \* the sequence of each cell
  data,                    \* the data of each cell
  at,                      \* control of each thread
  pos,                     \* its local pos
  sent,                    \* items each producer has got in
  got,                     \* the item each consumer got last
  claimed                  \* history: the item of each position won

sharedVars == <<enqueuePos, dequeuePos, sequence, data>>
vars == <<sharedVars, at, pos, sent, got, claimed>>

Control == {"out", "look", "swap", "copy", "release"}

MpmcTypeOK ==
  /\ enqueuePos \in Nat /\ dequeuePos \in Nat
  /\ sequence \in [Cells -> Nat]
  /\ data \in [Cells -> Items \cup {Garbage}]
  /\ at \in [Threads -> Control]
  /\ pos \in [Threads -> Nat]
  /\ sent \in [Producers -> 0 .. Rounds]
  /\ got \in [Consumers -> Items \cup {Garbage}]
  /\ claimed \in Seq(Items)

Init ==
  /\ enqueuePos = 0 /\ dequeuePos = 0
  /\ sequence = [i \in Cells |-> i]
  /\ data = [i \in Cells |-> Garbage]
  /\ at = [t \in Threads |-> "out"]
  /\ pos = [t \in Threads |-> 0]
  /\ sent = [p \in Producers |-> 0]
  /\ got = [c \in Consumers |-> Garbage]
  /\ claimed = <<>>

Cell(t) == pos[t] % Capacity
Go(t, here, there) == at[t] = here /\ at' = [at EXCEPT ![t] = there]

(* Mutant: a consumer expects the sequence of an empty cell. *)
Wanted_Empty(t) == pos[t]

(* The sequence a cell must show for the thread to use it.                 *)
Wanted(t) == IF t \in Producers THEN pos[t] ELSE pos[t] + 1
Position(t) == IF t \in Producers THEN enqueuePos ELSE dequeuePos

-----------------------------------------------------------------------------
(* Common to both operations.                                              *)

Load(t) ==
  /\ t \in Producers => sent[t] < Rounds
  /\ Go(t, "out", "look")
  /\ pos' = [pos EXCEPT ![t] = Position(t)]
  /\ UNCHANGED <<sharedVars, sent, got, claimed>>

(* Mutant: a producer does not see that the queue is full. *)
Look_NotFull(t) ==
  /\ \/ /\ sequence[Cell(t)] = Wanted(t) \/ (t \in Producers /\ sequence[Cell(t)] < Wanted(t))
        /\ Go(t, "look", "swap") /\ UNCHANGED pos
     \/ sequence[Cell(t)] < Wanted(t) /\ Go(t, "look", "out") /\ UNCHANGED pos
     \/ /\ sequence[Cell(t)] > Wanted(t) /\ at[t] = "look" /\ UNCHANGED at
        /\ pos' = [pos EXCEPT ![t] = Position(t)]
  /\ UNCHANGED <<sharedVars, sent, got, claimed>>

(* dif: this turn's cell, full or empty (return false), or overtaken.      *)
Look(t) ==
  /\ \/ sequence[Cell(t)] = Wanted(t) /\ Go(t, "look", "swap") /\ UNCHANGED pos
     \/ sequence[Cell(t)] < Wanted(t) /\ Go(t, "look", "out") /\ UNCHANGED pos
     \/ /\ sequence[Cell(t)] > Wanted(t) /\ at[t] = "look" /\ UNCHANGED at
        /\ pos' = [pos EXCEPT ![t] = Position(t)]
  /\ UNCHANGED <<sharedVars, sent, got, claimed>>

(* compare_exchange_weak fails when another thread was faster, or for no   *)
(* reason, and loads the position.                                         *)
SwapFails(t) ==
  /\ Go(t, "swap", "look")
  /\ pos' = [pos EXCEPT ![t] = Position(t)]
  /\ UNCHANGED <<sharedVars, sent, got, claimed>>

-----------------------------------------------------------------------------
(* try_enqueue.                                                            *)

(* Mutant: the position is stored without comparing. *)
SwapEnqueue_NoCompare(p) ==
  /\ Go(p, "swap", "copy")
  /\ enqueuePos' = pos[p] + 1
  /\ claimed' = Append(claimed, <<p, sent[p] + 1>>)
  /\ UNCHANGED <<dequeuePos, sequence, data, pos, sent, got>>

SwapEnqueue(p) ==
  /\ pos[p] = enqueuePos
  /\ Go(p, "swap", "copy")
  /\ enqueuePos' = enqueuePos + 1
  /\ claimed' = Append(claimed, <<p, sent[p] + 1>>)
  /\ UNCHANGED <<dequeuePos, sequence, data, pos, sent, got>>

WriteData(p) ==
  /\ Go(p, "copy", "release")
  /\ data' = [data EXCEPT ![Cell(p)] = <<p, sent[p] + 1>>]
  /\ UNCHANGED <<enqueuePos, dequeuePos, sequence, pos, sent, got, claimed>>

ReleaseEnqueue(p) ==
  /\ Go(p, "release", "out")
  /\ sequence' = [sequence EXCEPT ![Cell(p)] = pos[p] + 1]
  /\ sent' = [sent EXCEPT ![p] = @ + 1]
  /\ UNCHANGED <<enqueuePos, dequeuePos, data, pos, got, claimed>>

-----------------------------------------------------------------------------
(* try_dequeue.                                                            *)

SwapDequeue(c) ==
  /\ pos[c] = dequeuePos
  /\ Go(c, "swap", "copy")
  /\ dequeuePos' = dequeuePos + 1
  /\ UNCHANGED <<enqueuePos, sequence, data, pos, sent, got, claimed>>

ReadData(c) ==
  /\ Go(c, "copy", "release")
  /\ got' = [got EXCEPT ![c] = data[Cell(c)]]
  /\ UNCHANGED <<sharedVars, pos, sent, claimed>>

ReleaseDequeue(c) ==
  /\ Go(c, "release", "out")
  /\ sequence' = [sequence EXCEPT ![Cell(c)] = pos[c] + Capacity]
  /\ UNCHANGED <<enqueuePos, dequeuePos, data, pos, sent, got, claimed>>

-----------------------------------------------------------------------------

Enqueue(p) == Load(p) \/ Look(p) \/ SwapEnqueue(p) \/ SwapFails(p) \/ WriteData(p) \/ ReleaseEnqueue(p)
Dequeue(c) == Load(c) \/ Look(c) \/ SwapDequeue(c) \/ SwapFails(c) \/ ReadData(c) \/ ReleaseDequeue(c)

Next == (\E p \in Producers : Enqueue(p)) \/ (\E c \in Consumers : Dequeue(c))

Spec == Init /\ [][Next]_vars

-----------------------------------------------------------------------------
(* A cell is never copied by two threads at once: the exchange decides     *)
(* among producers and among consumers, the sequence between the two.      *)
ExclusiveCell ==
  \A t, u \in Threads :
    at[t] \in {"copy", "release"} /\ at[u] \in {"copy", "release"} /\ Cell(t) = Cell(u) => t = u

(* A consumer gets the item of the position it won.                        *)
ReadsItsItem ==
  \A c \in Consumers : at[c] = "release" =>
    pos[c] < Len(claimed) /\ got[c] = claimed[pos[c] + 1]

Fifo == INSTANCE BoundedFifo WITH
          Room <- Capacity,
          queue <- SubSeq(claimed, dequeuePos + 1, enqueuePos),
          taken <- SubSeq(claimed, 1, dequeuePos)

(* In the order of the positions the queue is a FIFO of Capacity items; an *)
(* item is in from the producer's exchange to the consumer's.              *)
ImplementsFifo == Fifo!FifoSpec

(* The items whose try_enqueue has returned and that no consumer has won.  *)
Inside == {i \in dequeuePos + 1 .. enqueuePos : claimed[i][2] <= sent[claimed[i][1]]}

(* mpmc_queue.hpp: try_dequeue returns "false if queue is empty".  Stated  *)
(* of a call that does nothing else: whoever loads the position now and    *)
(* finds its cell unwritten has found no item of a returned try_enqueue.   *)
FalseMeansEmpty ==
  \A c \in Consumers :
    at[c] = "look" /\ pos[c] = dequeuePos /\ sequence[Cell(c)] < Wanted(c) => Inside = {}
=============================================================================
