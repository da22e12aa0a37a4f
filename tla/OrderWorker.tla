---------------------------- MODULE OrderWorker ----------------------------
(***************************************************************************)
(* engine/src/order_worker.cpp: producers that put order intents into the  *)
(* MPMC queue and give up when it is full, workers that take them out,     *)
(* drop repeated ids and write the rest, and the end of the program:       *)
(* main joins the producers, raises producers_done and joins the workers.  *)
(* The steps inside try_enqueue and try_dequeue are those of MpmcQueue.    *)
(***************************************************************************)
EXTENDS MpmcQueue, FiniteSetsExt

CONSTANT IdOf   \* the request_id of each item; the generator repeats some

ASSUME OrderWorkerAssumption == IdOf \in [Items -> Nat]

VARIABLES
  phase,          \* where each worker is in its loop
  producersDone,  \* producers_done
  rejected,       \* calls of try_enqueue that found the queue full
  consumed,       \* consumed_total
  seen,           \* seen_ of the idempotency table
  dups,           \* idempotent_dups
  written         \* history: the ids written to the database, in order

tableVars == <<consumed, seen, dups, written>>
owVars == <<vars, phase, producersDone, rejected, tableVars>>

OrderWorkerTypeOK ==
  /\ MpmcTypeOK
  /\ phase \in [Consumers -> {"try", "ask", "last", "mark", "write", "exited"}]
  /\ producersDone \in BOOLEAN
  /\ rejected \in [Producers -> 0 .. Rounds]
  /\ consumed \in Nat /\ dups \in Nat
  /\ seen \in SUBSET Nat /\ written \in Seq(Nat)

OwInit ==
  /\ Init
  /\ phase = [c \in Consumers |-> "try"]
  /\ producersDone = FALSE
  /\ rejected = [p \in Producers |-> 0]
  /\ consumed = 0 /\ seen = {} /\ dups = 0
  /\ written = <<>>

-----------------------------------------------------------------------------
(* A producer makes Rounds calls; one that returns false is not repeated.  *)

Finished(p) == at[p] = "out" /\ sent[p] + rejected[p] = Rounds

Produce(p) ==
  /\ ~Finished(p)
  /\ Enqueue(p)
  /\ rejected' = IF at[p] = "look" /\ at'[p] = "out"
                   THEN [rejected EXCEPT ![p] = @ + 1] ELSE rejected
  /\ UNCHANGED <<phase, producersDone, tableVars>>

JoinProducers ==
  /\ ~producersDone /\ \A p \in Producers : Finished(p)
  /\ producersDone' = TRUE
  /\ UNCHANGED <<vars, phase, rejected, tableVars>>

-----------------------------------------------------------------------------
(* A worker.                                                               *)

Enters(c, there) == phase' = [phase EXCEPT ![c] = there]

(* Mutant: a worker that finds nothing at the end goes on with its loop. *)
TryDequeue_Continues(c) ==
  /\ phase[c] \in {"try", "last"}
  /\ Dequeue(c)
  /\ \/ at'[c] # "out" /\ UNCHANGED phase
     \/ at'[c] = "out" /\ at[c] = "release" /\ Enters(c, "mark")
     \/ at'[c] = "out" /\ at[c] = "look" /\ Enters(c, IF phase[c] = "try" THEN "ask" ELSE "try")
  /\ UNCHANGED <<producersDone, rejected, tableVars>>

(* The two try_dequeue of the loop: an item leads to Mark, none to a look  *)
(* at producers_done or, the second time, out of the loop.                 *)
TryDequeue(c) ==
  /\ phase[c] \in {"try", "last"}
  /\ Dequeue(c)
  /\ \/ at'[c] # "out" /\ UNCHANGED phase
     \/ at'[c] = "out" /\ at[c] = "release" /\ Enters(c, "mark")
     \/ at'[c] = "out" /\ at[c] = "look" /\ Enters(c, IF phase[c] = "try" THEN "ask" ELSE "exited")
  /\ UNCHANGED <<producersDone, rejected, tableVars>>

(* Mutant: a worker leaves without the second try_dequeue. *)
AskDone_NoLastTry(c) ==
  /\ phase[c] = "ask"
  /\ Enters(c, IF producersDone THEN "exited" ELSE "try")
  /\ UNCHANGED <<vars, producersDone, rejected, tableVars>>

AskDone(c) ==
  /\ phase[c] = "ask"
  /\ Enters(c, IF producersDone THEN "last" ELSE "try")
  /\ UNCHANGED <<vars, producersDone, rejected, tableVars>>

(* try_mark: one insertion under the mutex.                                *)
Mark(c) ==
  /\ phase[c] = "mark"
  /\ consumed' = consumed + 1
  /\ LET id == IdOf[got[c]]
     IN  /\ seen' = seen \cup {id}
         /\ dups' = IF id \in seen THEN dups + 1 ELSE dups
         /\ Enters(c, IF id \in seen THEN "try" ELSE "write")
  /\ UNCHANGED <<vars, producersDone, rejected, written>>

Write(c) ==
  /\ phase[c] = "write"
  /\ written' = Append(written, IdOf[got[c]])
  /\ Enters(c, "try")
  /\ UNCHANGED <<vars, producersDone, rejected, consumed, seen, dups>>

Work(c) == TryDequeue(c) \/ AskDone(c) \/ Mark(c) \/ Write(c)

OwNext ==
  \/ \E p \in Producers : Produce(p)
  \/ JoinProducers
  \/ \E c \in Consumers : Work(c)

OwSpec == OwInit /\ [][OwNext]_owVars

(* Every thread runs.  A compare_exchange_weak may fail without a reason,  *)
(* but not every time it could succeed.                                    *)
OwFairness ==
  /\ \A p \in Producers : WF_owVars(Produce(p)) /\ SF_owVars(Produce(p) /\ SwapEnqueue(p))
  /\ \A c \in Consumers : WF_owVars(Work(c)) /\ SF_owVars(TryDequeue(c) /\ SwapDequeue(c))
  /\ WF_owVars(JoinProducers)

OwFairSpec == OwSpec /\ OwFairness

-----------------------------------------------------------------------------
Exited == \A c \in Consumers : phase[c] = "exited"

(* "assert(consumed == accepted)" at the end of main: although try_dequeue *)
(* may return false while an item is in the queue, none is left behind     *)
(* when the workers have gone, and each id is written exactly once.        *)
AcceptedIsConsumed ==
  Exited =>
    LET accepted == {x \in Items : x[2] <= sent[x[1]]}
    IN  /\ consumed = Cardinality(accepted)
        /\ {written[i] : i \in DOMAIN written} = {IdOf[x] : x \in accepted}
        /\ Len(written) + dups = consumed

(* The program ends: all workers see producers_done and leave.             *)
WorkersFinish == <>Exited
=============================================================================
