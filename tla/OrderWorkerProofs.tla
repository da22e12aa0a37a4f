------------------------- MODULE OrderWorkerProofs -------------------------
(***************************************************************************)
(* Proofs about the MPMC queue under the order workers, for any number of  *)
(* threads and items and any capacity of at least two.                     *)
(***************************************************************************)
EXTENDS OrderWorker, SequenceTheorems, FiniteSetTheorems, TLAPS

-----------------------------------------------------------------------------
(* Positions and cells: what the mask of the code keeps of a position.     *)

Slot(n) == n % Capacity

LEMMA Division ==
  ASSUME NEW n \in Nat
  PROVE  /\ n \div Capacity \in Nat /\ n % Capacity \in 0 .. Capacity - 1
         /\ n = Capacity * (n \div Capacity) + (n % Capacity)
<1> DEFINE C == Capacity
<1>1. C \in Nat \ {0, 1}
  BY MpmcAssumption
<1> HIDE DEF C
<1>2. n \div C \in Nat /\ n % C \in 0 .. C - 1 /\ n = C * (n \div C) + (n % C)
  BY <1>1
<1> QED BY <1>2 DEF C

LEMMA QuotientGrows ==
  ASSUME NEW a \in Int, NEW b \in Int, a < b
  PROVE  Capacity * a + Capacity <= Capacity * b
<1> DEFINE C == Capacity
<1>1. C \in Nat
  BY MpmcAssumption
<1> HIDE DEF C
<1>2. C * a + C <= C * b
  BY <1>1
<1> QED BY <1>2 DEF C

(* Quotient and remainder are unique. *)
LEMMA Remainder ==
  ASSUME NEW n \in Nat, NEW q \in Int, NEW r \in 0 .. Capacity - 1, n = Capacity * q + r
  PROVE  Slot(n) = r
<1> DEFINE a == n \div Capacity
           s == n % Capacity
<1>1. a \in Int /\ s \in 0 .. Capacity - 1 /\ n = Capacity * a + s
  BY Division
<1> HIDE DEF a, s
<1>2. Capacity * a \in Int /\ Capacity * q \in Int /\ Capacity \in Nat
  BY <1>1, MpmcAssumption
<1>3. CASE a < q
  <2>1. Capacity * a + Capacity <= Capacity * q
    BY <1>1, <1>3, QuotientGrows
  <2> QED BY <1>1, <1>2, <2>1
<1>4. CASE q < a
  <2>1. Capacity * q + Capacity <= Capacity * a
    BY <1>1, <1>4, QuotientGrows
  <2> QED BY <1>1, <1>2, <2>1
<1>5. CASE a = q
  <2>1. s = r
    BY <1>1, <1>2, <1>5
  <2> QED BY <2>1 DEF Slot, s
<1> QED BY <1>1, <1>3, <1>4, <1>5

(* Neighbours lie in different cells, and one lap later is the same cell.  *)
LEMMA Slots ==
  /\ \A n \in Nat : Slot(n) \in Cells
  /\ \A n \in Cells : Slot(n) = n
  /\ \A n \in Nat : Slot(n + Capacity) = Slot(n)
  /\ \A n \in Nat : Slot(n + 1) # Slot(n)
<1>0. Capacity \in Nat \ {0, 1}
  BY MpmcAssumption
<1>1. ASSUME NEW n \in Nat
      PROVE  Slot(n) \in Cells /\ Slot(n + Capacity) = Slot(n) /\ Slot(n + 1) # Slot(n)
  <2> DEFINE q == n \div Capacity
             r == Slot(n)
  <2>1. q \in Nat /\ r \in 0 .. Capacity - 1 /\ n = Capacity * q + r
    BY Division DEF Slot
  <2> HIDE DEF q, r
  <2>2. Capacity * (q + 1) = Capacity * q + Capacity
    BY <1>0, <2>1
  <2>3. Capacity * q \in Int
    BY <1>0, <2>1
  <2>4. Slot(n + Capacity) = r
    <3>1. n + Capacity = Capacity * (q + 1) + r /\ q + 1 \in Int /\ n + Capacity \in Nat
      BY <1>0, <2>1, <2>2, <2>3
    <3> QED BY <2>1, <3>1, Remainder
  <2>5. CASE r = Capacity - 1
    <3>1. n + 1 = Capacity * (q + 1) + 0 /\ q + 1 \in Int /\ 0 \in 0 .. Capacity - 1
      BY <1>0, <2>1, <2>2, <2>3, <2>5
    <3>2. Slot(n + 1) = 0
      BY <3>1, Remainder
    <3> QED BY <1>0, <2>1, <2>4, <2>5, <3>2 DEF r, Cells
  <2>6. CASE r # Capacity - 1
    <3>1. n + 1 = Capacity * q + (r + 1) /\ q \in Int /\ r + 1 \in 0 .. Capacity - 1
      BY <1>0, <2>1, <2>3, <2>6
    <3>2. Slot(n + 1) = r + 1
      BY <3>1, Remainder
    <3> QED BY <1>0, <2>1, <2>4, <2>6, <3>2 DEF r, Cells
  <2> QED BY <2>5, <2>6
<1>2. ASSUME NEW n \in Cells PROVE Slot(n) = n
  <2>1. n \in Nat /\ 0 \in Int /\ n \in 0 .. Capacity - 1 /\ n = Capacity * 0 + n
    BY <1>0 DEF Cells
  <2> QED BY <2>1, Remainder
<1> QED BY <1>1, <1>2

-----------------------------------------------------------------------------
(* Who may touch a cell.                                                   *)

Busy(t) == at[t] \in {"copy", "release"}

(* A thread that copies holds a position of its own that was given away,   *)
(* and its cell waits for it; who is about to exchange finds its cell as   *)
(* it saw it, unless the exchange fails.                                   *)
WinnersInv ==
  /\ \A t \in Threads : pos[t] <= Position(t)
  /\ \A t \in Threads : Busy(t) => pos[t] < Position(t) /\ sequence[Slot(pos[t])] = Wanted(t)
  /\ \A t \in Threads : at[t] = "swap" /\ pos[t] = Position(t) => sequence[Slot(pos[t])] = Wanted(t)
  /\ \A t, u \in Threads :
       Busy(t) /\ Busy(u) /\ pos[t] = pos[u] /\ (t \in Producers <=> u \in Producers) => t = u

(* What a cell says about its positions.                                   *)
CellsInv ==
  /\ \A n \in Nat : sequence[Slot(n)] = n + 1 => n < enqueuePos /\ data[Slot(n)] = claimed[n + 1]
  /\ \A n \in Nat : sequence[Slot(n)] = n => n < dequeuePos + Capacity
  /\ dequeuePos <= enqueuePos /\ enqueuePos <= dequeuePos + Capacity
  /\ Len(claimed) = enqueuePos

(* What each thread carries. *)
ItemsInv ==
  /\ \A p \in Producers : at[p] # "out" => sent[p] < Rounds
  /\ \A p \in Producers : Busy(p) => claimed[pos[p] + 1] = <<p, sent[p] + 1>>
  /\ \A p \in Producers : at[p] = "release" => data[Slot(pos[p])] = <<p, sent[p] + 1>>
  /\ \A c \in Consumers : at[c] = "release" => got[c] = claimed[pos[c] + 1]

QueueInv == MpmcTypeOK /\ WinnersInv /\ CellsInv /\ ItemsInv

LEMMA WinnersExclude ==
  ASSUME MpmcTypeOK, WinnersInv,
         NEW t \in Threads, NEW u \in Threads, Busy(t), Busy(u), Slot(pos[t]) = Slot(pos[u])
  PROVE  t = u
<1>1. pos[t] \in Nat /\ pos[u] \in Nat /\ Wanted(t) = Wanted(u)
  BY DEF MpmcTypeOK, WinnersInv
<1>2. CASE t \in Producers <=> u \in Producers
  <2>1. pos[t] = pos[u]
    BY <1>1, <1>2 DEF Wanted
  <2> QED BY <1>2, <2>1 DEF WinnersInv
<1>3. CASE ~(t \in Producers <=> u \in Producers)
  BY <1>1, <1>3, Slots DEF Wanted
<1> QED BY <1>2, <1>3

LEMMA QueueInit == Init => QueueInv
<1> SUFFICES ASSUME Init PROVE QueueInv
  OBVIOUS
<1> USE MpmcAssumption
<1>1. MpmcTypeOK
  BY DEF Init, MpmcTypeOK, Cells, Control
<1>2. WinnersInv /\ ItemsInv
  BY DEF Init, WinnersInv, ItemsInv, Busy, Position, Threads
<1>3. ASSUME NEW n \in Nat PROVE sequence[Slot(n)] = Slot(n)
  BY Slots DEF Init
<1>4. ASSUME NEW n \in Nat, sequence[Slot(n)] = n + 1 PROVE FALSE
  BY <1>3, <1>4, Slots
<1>5. ASSUME NEW n \in Nat, sequence[Slot(n)] = n PROVE n < Capacity
  BY <1>3, <1>5, Slots DEF Cells
<1>6. CellsInv
  <2>1. /\ enqueuePos = 0 /\ dequeuePos = 0 /\ claimed = <<>> /\ Capacity \in Nat
    BY DEF Init
  <2>2. Len(claimed) = enqueuePos /\ dequeuePos <= enqueuePos /\ enqueuePos <= dequeuePos + Capacity
    BY <2>1
  <2>3. \A n \in Nat : sequence[Slot(n)] = n => n < dequeuePos + Capacity
    BY <1>5, <2>1
  <2> QED BY <1>4, <2>2, <2>3 DEF CellsInv
<1> QED BY <1>1, <1>2, <1>6 DEF QueueInv

(* A thread that has only loaded or looked has changed nothing for the     *)
(* others.                                                                 *)
LEMMA LookStep ==
  ASSUME QueueInv, NEW t \in Threads, Load(t) \/ Look(t) \/ SwapFails(t)
  PROVE  QueueInv'
<1> USE MpmcAssumption DEF QueueInv
<1>1. /\ UNCHANGED <<sharedVars, sent, got, claimed>>
      /\ at[t] \in {"out", "look", "swap"} /\ ~Busy(t) /\ ~Busy(t)'
      /\ at' \in [Threads -> Control] /\ pos' \in [Threads -> Nat]
      /\ \A u \in Threads \ {t} : at'[u] = at[u] /\ pos'[u] = pos[u]
  <2>1. Position(t) \in Nat
    BY DEF Position, MpmcTypeOK
  <2> QED BY <2>1 DEF Load, Look, SwapFails, Go, Busy, MpmcTypeOK, Control
<1>2. pos'[t] \in {pos[t], Position(t)}
  BY DEF Load, Look, SwapFails, MpmcTypeOK
<1>3. at'[t] = "swap" => pos'[t] = pos[t] /\ sequence[Slot(pos[t])] = Wanted(t)
  BY DEF Load, Look, SwapFails, Go, Cell, Slot, MpmcTypeOK
<1>4. at[t] = "out" => (t \in Producers => sent[t] < Rounds)
  BY DEF Load, Look, SwapFails, Go
<1>5. \A u \in Threads : Position(u)' = Position(u)
  BY <1>1 DEF Position, sharedVars
<1>6. \A u \in Threads \ {t} : Wanted(u)' = Wanted(u) /\ (Busy(u)' <=> Busy(u))
  BY <1>1 DEF Wanted, Busy
<1>7. at'[t] = "swap" => Wanted(t)' = Wanted(t)
  BY <1>3 DEF Wanted
<1>8. MpmcTypeOK'
  BY <1>1 DEF MpmcTypeOK, sharedVars
<1>9. UNCHANGED <<enqueuePos, dequeuePos, sequence, data>>
  BY <1>1 DEF sharedVars
<1>10. WinnersInv'
  <2>1. \A u \in Threads : pos'[u] <= Position(u)'
    <3>1. Position(t) \in Nat
      BY DEF Position, MpmcTypeOK
    <3> QED BY <1>1, <1>2, <1>5, <3>1 DEF WinnersInv
  <2>2. \A u \in Threads : Busy(u)' => u # t /\ pos'[u] = pos[u] /\ Busy(u)
    BY <1>1, <1>6
  <2>3. \A u \in Threads : Busy(u)' => pos'[u] < Position(u)' /\ sequence'[Slot(pos'[u])] = Wanted(u)'
    BY <1>5, <1>6, <1>9, <2>2 DEF WinnersInv
  <2>4. \A u \in Threads : at'[u] = "swap" /\ pos'[u] = Position(u)'
                           => sequence'[Slot(pos'[u])] = Wanted(u)'
    BY <1>1, <1>3, <1>5, <1>6, <1>7, <1>9 DEF WinnersInv
  <2> QED BY <2>1, <2>2, <2>3, <2>4 DEF WinnersInv
<1>11. CellsInv'
  BY <1>1, <1>9 DEF CellsInv
<1>12. ItemsInv'
  <2>1. \A c \in Producers : c \in Threads
    BY DEF Threads
  <2>2. \A c \in Consumers : c \in Threads
    BY DEF Threads
  <2>3. at'[t] # "release"
    BY <1>1 DEF Busy
  <2>4. \A q \in Producers : at'[q] # "out" => sent'[q] < Rounds
    BY <1>1, <1>4, <2>1 DEF ItemsInv
  <2>5. \A q \in Producers : Busy(q)' => claimed'[pos'[q] + 1] = <<q, sent'[q] + 1>>
    BY <1>1, <1>6, <2>1 DEF ItemsInv
  <2>6. \A q \in Producers : at'[q] = "release" => data'[Slot(pos'[q])] = <<q, sent'[q] + 1>>
    BY <1>1, <1>9, <2>1, <2>3 DEF ItemsInv
  <2>7. \A c \in Consumers : at'[c] = "release" => got'[c] = claimed'[pos'[c] + 1]
    BY <1>1, <2>2, <2>3 DEF ItemsInv
  <2> QED BY <2>4, <2>5, <2>6, <2>7 DEF ItemsInv
<1> QED BY <1>8, <1>10, <1>11, <1>12

(* A producer wins the position at the end: nobody else holds it.          *)
LEMMA SwapEnqueueStep ==
  ASSUME QueueInv, NEW p \in Producers, SwapEnqueue(p)
  PROVE  QueueInv'
<1> USE MpmcAssumption DEF QueueInv
<1> DEFINE x == <<p, sent[p] + 1>>
<1>0. p \in Threads /\ \A q \in Producers \cup Consumers : q \in Threads
  BY DEF Threads
<1>1. /\ pos[p] = enqueuePos /\ at[p] = "swap" /\ at' = [at EXCEPT ![p] = "copy"]
      /\ enqueuePos' = enqueuePos + 1 /\ claimed' = Append(claimed, x)
      /\ UNCHANGED <<dequeuePos, sequence, data, pos, sent, got>>
  BY DEF SwapEnqueue, Go
<1>2. /\ enqueuePos \in Nat /\ dequeuePos \in Nat /\ claimed \in Seq(Items)
      /\ at \in [Threads -> Control] /\ pos \in [Threads -> Nat]
      /\ sent[p] \in 0 .. Rounds /\ sent[p] < Rounds
  BY <1>1 DEF MpmcTypeOK, ItemsInv
<1>3. x \in Items
  BY <1>2 DEF Items
<1>4. sequence[Slot(enqueuePos)] = enqueuePos
  BY <1>0, <1>1 DEF WinnersInv, Position, Wanted
<1>5. /\ claimed' \in Seq(Items) /\ Len(claimed') = enqueuePos + 1
      /\ claimed'[enqueuePos + 1] = x
      /\ \A n \in Nat : n < enqueuePos => claimed'[n + 1] = claimed[n + 1]
  <2>1. Len(claimed) = enqueuePos
    BY DEF CellsInv
  <2> HIDE DEF x
  <2> QED BY <1>1, <1>2, <1>3, <2>1
<1> HIDE DEF x
<1>6. MpmcTypeOK'
  <2>1. at' \in [Threads -> Control]
    BY <1>1, <1>2 DEF Control
  <2> QED BY <1>1, <1>2, <1>5, <2>1 DEF MpmcTypeOK
<1>7. /\ at'[p] = "copy" /\ Busy(p)' /\ ~Busy(p)
      /\ \A u \in Threads \ {p} : at'[u] = at[u] /\ (Busy(u)' <=> Busy(u))
      /\ \A u \in Threads : Wanted(u)' = Wanted(u)
      /\ \A u \in Threads : Position(u)' = IF u \in Producers THEN enqueuePos + 1 ELSE Position(u)
  BY <1>0, <1>1, <1>2 DEF Busy, Wanted, Position
<1>8. WinnersInv'
  <2>1. \A u \in Threads : Position(u) \in Nat /\ (u \in Producers => Position(u) = enqueuePos)
    BY <1>2 DEF Position
  <2>2. \A u \in Threads : pos'[u] = pos[u] /\ pos[u] \in Nat /\ pos[u] <= Position(u)
    BY <1>1, <1>2 DEF WinnersInv
  <2>3. \A u \in Threads : pos'[u] <= Position(u)'
    BY <1>2, <1>7, <2>1, <2>2
  <2>4. \A u \in Threads : Busy(u)' => pos'[u] < Position(u)' /\ sequence'[Slot(pos'[u])] = Wanted(u)'
    <3>1. pos'[p] < Position(p)' /\ sequence'[Slot(pos'[p])] = Wanted(p)'
      BY <1>1, <1>2, <1>4, <1>7 DEF Wanted
    <3>2. ASSUME NEW u \in Threads \ {p}, Busy(u)'
          PROVE  pos'[u] < Position(u)' /\ sequence'[Slot(pos'[u])] = Wanted(u)'
      <4>1. pos[u] < Position(u) /\ sequence[Slot(pos[u])] = Wanted(u)
        BY <1>7, <3>2 DEF WinnersInv
      <4>2. pos'[u] = pos[u] /\ Wanted(u)' = Wanted(u) /\ sequence' = sequence
        BY <1>1, <1>7, <2>2
      <4>3. Position(u) <= Position(u)' /\ Position(u) \in Nat /\ Position(u)' \in Nat /\ pos[u] \in Nat
        BY <1>2, <1>7, <2>1, <2>2
      <4> QED BY <4>1, <4>2, <4>3
    <3> QED BY <3>1, <3>2
  <2>5. \A u \in Threads : at'[u] = "swap" /\ pos'[u] = Position(u)'
                           => sequence'[Slot(pos'[u])] = Wanted(u)'
    <3> SUFFICES ASSUME NEW u \in Threads, at'[u] = "swap", pos'[u] = Position(u)'
                 PROVE  sequence'[Slot(pos'[u])] = Wanted(u)'
      OBVIOUS
    <3>1. u # p /\ u \notin Producers
      BY <1>2, <1>7, <2>1, <2>2
    <3> QED BY <1>1, <1>7, <2>2, <3>1 DEF WinnersInv
  <2>6. \A u, v \in Threads : Busy(u)' /\ Busy(v)' /\ pos'[u] = pos'[v] /\ (u \in Producers <=> v \in Producers)
                              => u = v
    <3>1. \A u \in Producers : u # p /\ Busy(u)' => pos'[u] # pos'[p]
      BY <1>0, <1>1, <1>2, <1>7, <2>1, <2>2 DEF WinnersInv
    <3> QED BY <1>0, <1>7, <2>2, <3>1 DEF WinnersInv
  <2> QED BY <2>3, <2>4, <2>5, <2>6 DEF WinnersInv
<1>9. CellsInv'
  <2>1. ASSUME NEW n \in Nat, sequence'[Slot(n)] = n + 1
        PROVE  n < enqueuePos' /\ data'[Slot(n)] = claimed'[n + 1]
    BY <1>1, <1>2, <1>5, <2>1 DEF CellsInv
  <2>2. enqueuePos < dequeuePos + Capacity
    BY <1>2, <1>4 DEF CellsInv
  <2>3. \A n \in Nat : sequence'[Slot(n)] = n => n < dequeuePos' + Capacity
    BY <1>1 DEF CellsInv
  <2>4. /\ dequeuePos' <= enqueuePos' /\ enqueuePos' <= dequeuePos' + Capacity
        /\ Len(claimed') = enqueuePos'
    BY <1>1, <1>2, <1>5, <2>2 DEF CellsInv
  <2> QED BY <2>1, <2>3, <2>4 DEF CellsInv
<1>10. ItemsInv'
  <2>1. \A q \in Producers : at'[q] # "out" => sent'[q] < Rounds
    BY <1>0, <1>1, <1>2, <1>7 DEF ItemsInv
  <2>2. ASSUME NEW q \in Producers, Busy(q)' PROVE claimed'[pos'[q] + 1] = <<q, sent'[q] + 1>>
    <3>1. CASE q = p
      BY <1>1, <1>5, <3>1 DEF x
    <3>2. CASE q # p
      <4>1. Busy(q) /\ pos[q] \in Nat /\ pos[q] < enqueuePos
        BY <1>0, <1>2, <1>7, <2>2, <3>2 DEF WinnersInv, Position
      <4> QED BY <1>1, <1>5, <4>1 DEF ItemsInv
    <3> QED BY <3>1, <3>2
  <2>3. \A q \in Producers : at'[q] = "release" => data'[Slot(pos'[q])] = <<q, sent'[q] + 1>>
    BY <1>0, <1>1, <1>7 DEF ItemsInv
  <2>4. ASSUME NEW c \in Consumers, at'[c] = "release" PROVE got'[c] = claimed'[pos'[c] + 1]
    <3>1. c # p /\ c \in Threads /\ c \notin Producers /\ at[c] = "release" /\ Busy(c)
      BY <1>0, <1>7, <2>4 DEF Busy
    <3>2. pos[c] \in Nat /\ pos[c] < enqueuePos
      BY <1>2, <3>1 DEF WinnersInv, Position, CellsInv
    <3> QED BY <1>1, <1>5, <3>1, <3>2 DEF ItemsInv
  <2> QED BY <2>1, <2>2, <2>3, <2>4 DEF ItemsInv
<1> QED BY <1>6, <1>8, <1>9, <1>10

(* A consumer wins the oldest position: its cell has been filled, so there *)
(* was something to take.                                                  *)
LEMMA SwapDequeueStep ==
  ASSUME QueueInv, NEW c \in Consumers, SwapDequeue(c)
  PROVE  QueueInv' /\ dequeuePos < enqueuePos
<1> USE MpmcAssumption DEF QueueInv
<1>0. c \in Threads /\ c \notin Producers /\ \A q \in Producers \cup Consumers : q \in Threads
  BY DEF Threads
<1>1. /\ pos[c] = dequeuePos /\ at[c] = "swap" /\ at' = [at EXCEPT ![c] = "copy"]
      /\ dequeuePos' = dequeuePos + 1
      /\ UNCHANGED <<enqueuePos, sequence, data, pos, sent, got, claimed>>
  BY DEF SwapDequeue, Go
<1>2. /\ enqueuePos \in Nat /\ dequeuePos \in Nat
      /\ at \in [Threads -> Control] /\ pos \in [Threads -> Nat]
  BY DEF MpmcTypeOK
<1>4. sequence[Slot(dequeuePos)] = dequeuePos + 1
  BY <1>0, <1>1 DEF WinnersInv, Position, Wanted
<1>5. dequeuePos < enqueuePos
  BY <1>2, <1>4 DEF CellsInv
<1>6. MpmcTypeOK'
  <2>1. at' \in [Threads -> Control]
    BY <1>1, <1>2 DEF Control
  <2> QED BY <1>1, <1>2, <2>1 DEF MpmcTypeOK
<1>7. /\ at'[c] = "copy" /\ Busy(c)' /\ ~Busy(c)
      /\ \A u \in Threads \ {c} : at'[u] = at[u] /\ (Busy(u)' <=> Busy(u))
      /\ \A u \in Threads : Wanted(u)' = Wanted(u)
      /\ \A u \in Threads : Position(u)' = IF u \in Producers THEN enqueuePos ELSE dequeuePos + 1
      /\ \A u \in Threads : Position(u) = IF u \in Producers THEN enqueuePos ELSE dequeuePos
  BY <1>0, <1>1, <1>2 DEF Busy, Wanted, Position
<1>8. WinnersInv'
  <2>2. \A u \in Threads : pos'[u] = pos[u] /\ pos[u] \in Nat /\ pos[u] <= Position(u)
    BY <1>1, <1>2 DEF WinnersInv
  <2>3. \A u \in Threads : pos'[u] <= Position(u)'
    BY <1>2, <1>7, <2>2
  <2>4. \A u \in Threads : Busy(u)' => pos'[u] < Position(u)' /\ sequence'[Slot(pos'[u])] = Wanted(u)'
    <3>1. pos'[c] < Position(c)' /\ sequence'[Slot(pos'[c])] = Wanted(c)'
      BY <1>0, <1>1, <1>2, <1>4, <1>7 DEF Wanted
    <3>2. ASSUME NEW u \in Threads \ {c}, Busy(u)'
          PROVE  pos'[u] < Position(u)' /\ sequence'[Slot(pos'[u])] = Wanted(u)'
      BY <1>1, <1>2, <1>7, <2>2, <3>2 DEF WinnersInv
    <3> QED BY <3>1, <3>2
  <2>5. \A u \in Threads : at'[u] = "swap" /\ pos'[u] = Position(u)'
                           => sequence'[Slot(pos'[u])] = Wanted(u)'
    <3> SUFFICES ASSUME NEW u \in Threads, at'[u] = "swap", pos'[u] = Position(u)'
                 PROVE  sequence'[Slot(pos'[u])] = Wanted(u)'
      OBVIOUS
    <3>1. u # c /\ u \in Producers
      BY <1>2, <1>7, <2>2
    <3> QED BY <1>1, <1>7, <2>2, <3>1 DEF WinnersInv
  <2>6. \A u, v \in Threads : Busy(u)' /\ Busy(v)' /\ pos'[u] = pos'[v] /\ (u \in Producers <=> v \in Producers)
                              => u = v
    <3>1. \A u \in Threads : u \notin Producers /\ u # c /\ Busy(u)' => pos'[u] # pos'[c]
      BY <1>0, <1>1, <1>2, <1>7, <2>2 DEF WinnersInv
    <3> QED BY <1>0, <1>7, <2>2, <3>1 DEF WinnersInv
  <2> QED BY <2>3, <2>4, <2>5, <2>6 DEF WinnersInv
<1>9. CellsInv'
  <2>1. \A n \in Nat : sequence'[Slot(n)] = n + 1 => n < enqueuePos' /\ data'[Slot(n)] = claimed'[n + 1]
    BY <1>1 DEF CellsInv
  <2>2. ASSUME NEW n \in Nat, sequence'[Slot(n)] = n PROVE n < dequeuePos' + Capacity
    BY <1>1, <1>2, <2>2 DEF CellsInv
  <2> QED BY <1>1, <1>2, <1>5, <2>1, <2>2 DEF CellsInv
<1>10. ItemsInv'
  BY <1>0, <1>1, <1>7 DEF ItemsInv
<1> QED BY <1>5, <1>6, <1>8, <1>9, <1>10

(* The two copies.  A cell that a producer fills shows nobody an item yet. *)
LEMMA CopyStep ==
  ASSUME QueueInv,
         \/ \E p \in Producers : WriteData(p)
         \/ \E c \in Consumers : ReadData(c)
  PROVE  QueueInv'
<1> USE MpmcAssumption DEF QueueInv
<1>0. \A q \in Producers \cup Consumers : q \in Threads
  BY DEF Threads
<1>t. at \in [Threads -> Control] /\ pos \in [Threads -> Nat]
  BY DEF MpmcTypeOK
<1>1. ASSUME NEW t \in Threads, at[t] = "copy", at' = [at EXCEPT ![t] = "release"],
             UNCHANGED <<enqueuePos, dequeuePos, sequence, pos>>
      PROVE  WinnersInv' /\ at' \in [Threads -> Control] /\ \A u \in Threads : Busy(u)' <=> Busy(u)
  <2>1. at' \in [Threads -> Control] /\ \A u \in Threads : Busy(u)' <=> Busy(u)
    BY <1>1, <1>t DEF Busy, Control
  <2>2. \A u \in Threads : Wanted(u)' = Wanted(u) /\ Position(u)' = Position(u)
    BY <1>1 DEF Wanted, Position
  <2>3. \A u \in Threads : at'[u] = "swap" => at[u] = "swap"
    BY <1>1, <1>t
  <2> QED BY <1>1, <2>1, <2>2, <2>3 DEF WinnersInv
<1>2. ASSUME NEW p \in Producers, WriteData(p) PROVE QueueInv'
  <2> DEFINE x == <<p, sent[p] + 1>>
  <2>1. /\ at[p] = "copy" /\ at' = [at EXCEPT ![p] = "release"]
        /\ data' = [data EXCEPT ![Slot(pos[p])] = x]
        /\ UNCHANGED <<enqueuePos, dequeuePos, sequence, pos, sent, got, claimed>>
    BY <1>2 DEF WriteData, Go, Cell, Slot
  <2>2. /\ WinnersInv' /\ at' \in [Threads -> Control]
        /\ \A u \in Threads : Busy(u)' <=> Busy(u)
    BY <1>0, <1>1, <2>1
  <2>3. /\ p \in Threads /\ pos[p] \in Nat /\ Slot(pos[p]) \in Cells
        /\ Busy(p) /\ sequence[Slot(pos[p])] = pos[p] /\ data \in [Cells -> Items \cup {Garbage}]
    BY <1>0, <1>t, <2>1, Slots DEF Busy, WinnersInv, Wanted, MpmcTypeOK
  <2>4. x \in Items
    <3>1. sent[p] \in 0 .. Rounds /\ sent[p] < Rounds
      BY <2>1 DEF ItemsInv, MpmcTypeOK
    <3> QED BY <3>1 DEF Items
  <2>5. claimed[pos[p] + 1] = x
    BY <2>3 DEF ItemsInv
  <2> HIDE DEF x
  <2>6. MpmcTypeOK'
    <3>1. data' \in [Cells -> Items \cup {Garbage}]
      BY <2>1, <2>3, <2>4
    <3> QED BY <2>1, <2>2, <3>1 DEF MpmcTypeOK
  <2>7. CellsInv'
    <3>1. ASSUME NEW n \in Nat, sequence[Slot(n)] = n + 1 PROVE Slot(n) # Slot(pos[p])
      BY <2>3, <3>1, Slots
    <3>2. ASSUME NEW n \in Nat, sequence'[Slot(n)] = n + 1
          PROVE  n < enqueuePos' /\ data'[Slot(n)] = claimed'[n + 1]
      BY <2>1, <2>3, <3>1, <3>2, Slots DEF CellsInv
    <3> QED BY <2>1, <3>2 DEF CellsInv
  <2>8. ItemsInv'
    <3>1. \A q \in Producers : at'[q] # "out" => sent'[q] < Rounds
      BY <1>0, <1>t, <2>1 DEF ItemsInv
    <3>2. \A q \in Producers : Busy(q)' => claimed'[pos'[q] + 1] = <<q, sent'[q] + 1>>
      BY <1>0, <2>1, <2>2 DEF ItemsInv
    <3>3. ASSUME NEW q \in Producers, at'[q] = "release"
          PROVE  data'[Slot(pos'[q])] = <<q, sent'[q] + 1>>
      <4>1. CASE q = p
        BY <2>1, <2>3, <4>1 DEF x
      <4>2. CASE q # p
        <5>1. q \in Threads /\ at[q] = "release" /\ Busy(q) /\ pos[q] \in Nat
          BY <1>0, <1>t, <2>1, <3>3, <4>2 DEF Busy
        <5>2. Slot(pos[q]) # Slot(pos[p])
          BY <2>3, <4>2, <5>1, WinnersExclude
        <5> QED BY <2>1, <2>3, <5>1, <5>2, Slots DEF ItemsInv
      <4> QED BY <4>1, <4>2
    <3>4. ASSUME NEW c \in Consumers, at'[c] = "release" PROVE got'[c] = claimed'[pos'[c] + 1]
      BY <1>0, <1>t, <2>1, <3>4 DEF ItemsInv
    <3> QED BY <3>1, <3>2, <3>3, <3>4 DEF ItemsInv
  <2> QED BY <2>2, <2>6, <2>7, <2>8
<1>3. ASSUME NEW c \in Consumers, ReadData(c) PROVE QueueInv'
  <2>1. /\ at[c] = "copy" /\ at' = [at EXCEPT ![c] = "release"]
        /\ got' = [got EXCEPT ![c] = data[Slot(pos[c])]]
        /\ UNCHANGED <<sharedVars, pos, sent, claimed>>
    BY <1>3 DEF ReadData, Go, Cell, Slot
  <2>2. /\ WinnersInv' /\ at' \in [Threads -> Control]
        /\ \A u \in Threads : Busy(u)' <=> Busy(u)
    BY <1>0, <1>1, <2>1 DEF sharedVars
  <2>3. /\ c \in Threads /\ c \notin Producers /\ pos[c] \in Nat /\ Slot(pos[c]) \in Cells
        /\ sequence[Slot(pos[c])] = pos[c] + 1 /\ data \in [Cells -> Items \cup {Garbage}]
        /\ got \in [Consumers -> Items \cup {Garbage}]
    BY <1>0, <1>t, <2>1, Slots DEF Busy, WinnersInv, Wanted, MpmcTypeOK
  <2>4. data[Slot(pos[c])] = claimed[pos[c] + 1]
    BY <2>3 DEF CellsInv
  <2>5. MpmcTypeOK'
    <3>1. got' \in [Consumers -> Items \cup {Garbage}]
      BY <2>1, <2>3
    <3> QED BY <2>1, <2>2, <3>1 DEF MpmcTypeOK, sharedVars
  <2>6. CellsInv'
    BY <2>1 DEF CellsInv, sharedVars
  <2>7. ItemsInv'
    <3>1. \A q \in Producers : q # c /\ at'[q] = at[q]
      BY <1>0, <1>t, <2>1, <2>3
    <3>2. \A d \in Consumers : at'[d] = "release" => got'[d] = claimed'[pos'[d] + 1]
      BY <1>0, <1>t, <2>1, <2>3, <2>4 DEF ItemsInv
    <3> QED BY <1>0, <2>1, <2>2, <3>1, <3>2 DEF ItemsInv, sharedVars
  <2> QED BY <2>2, <2>5, <2>6, <2>7
<1> QED BY <1>2, <1>3

(* Thread t leaves its cell with the sequence number m.                    *)
Frees(t, m) ==
  /\ at[t] = "release" /\ at' = [at EXCEPT ![t] = "out"]
  /\ sequence' = [sequence EXCEPT ![Slot(pos[t])] = m]
  /\ UNCHANGED <<enqueuePos, dequeuePos, pos>>

Freed(t, m) ==
  /\ WinnersInv' /\ at' \in [Threads -> Control] /\ sequence' \in [Cells -> Nat]
  /\ \A u \in Threads : Busy(u)' => u # t /\ Busy(u) /\ at'[u] = at[u]
  /\ \A n \in Nat : sequence'[Slot(n)] = IF Slot(n) = Slot(pos[t]) THEN m ELSE sequence[Slot(n)]

(* A release ends the turn of one cell; no other thread works on that      *)
(* cell, or is about to win it.                                            *)
LEMMA ReleaseStep ==
  ASSUME QueueInv,
         \/ \E p \in Producers : ReleaseEnqueue(p)
         \/ \E c \in Consumers : ReleaseDequeue(c)
  PROVE  QueueInv'
<1> USE MpmcAssumption DEF QueueInv
<1>0. \A q \in Producers \cup Consumers : q \in Threads
  BY DEF Threads
<1>t. /\ at \in [Threads -> Control] /\ pos \in [Threads -> Nat]
      /\ sequence \in [Cells -> Nat] /\ enqueuePos \in Nat /\ dequeuePos \in Nat
      /\ Capacity \in Nat /\ Capacity > 1
  BY DEF MpmcTypeOK
<1>1. ASSUME NEW t \in Threads, NEW m \in Nat, Frees(t, m) PROVE Freed(t, m)
  <2> USE DEF Frees
  <2>1. pos[t] \in Nat /\ Slot(pos[t]) \in Cells /\ Busy(t)
    BY <1>t, <1>1, Slots DEF Busy
  <2>2. /\ at' \in [Threads -> Control] /\ sequence' \in [Cells -> Nat]
        /\ \A u \in Threads : Busy(u)' => u # t /\ Busy(u) /\ at'[u] = at[u]
        /\ \A u \in Threads : at'[u] = "swap" => at[u] = "swap"
    BY <1>t, <1>1 DEF Busy, Control
  <2>3. \A n \in Nat : sequence'[Slot(n)] = IF Slot(n) = Slot(pos[t]) THEN m ELSE sequence[Slot(n)]
    BY <1>t, <1>1, <2>1, Slots
  <2>4. \A u \in Threads : Wanted(u)' = Wanted(u) /\ Position(u)' = Position(u)
    BY <1>1 DEF Wanted, Position
  <2>5. \A u \in Threads : Busy(u)' => pos'[u] < Position(u)' /\ sequence'[Slot(pos'[u])] = Wanted(u)'
    <3> SUFFICES ASSUME NEW u \in Threads, Busy(u)'
                 PROVE  pos'[u] < Position(u)' /\ sequence'[Slot(pos'[u])] = Wanted(u)'
      OBVIOUS
    <3>1. u # t /\ Busy(u) /\ pos[u] \in Nat
      BY <1>t, <2>2
    <3>2. Slot(pos[u]) # Slot(pos[t])
      BY <2>1, <3>1, WinnersExclude
    <3> QED BY <1>1, <2>3, <2>4, <3>1, <3>2 DEF WinnersInv
  <2>6. \A u \in Threads : at'[u] = "swap" /\ pos'[u] = Position(u)' => sequence'[Slot(pos'[u])] = Wanted(u)'
    <3> SUFFICES ASSUME NEW u \in Threads, at'[u] = "swap", pos'[u] = Position(u)'
                 PROVE  sequence'[Slot(pos'[u])] = Wanted(u)'
      OBVIOUS
    <3>1. at[u] = "swap" /\ pos[u] = Position(u) /\ sequence[Slot(pos[u])] = Wanted(u) /\ pos[u] \in Nat
      BY <1>t, <1>1, <2>2, <2>4 DEF WinnersInv
    <3>2. sequence[Slot(pos[t])] = Wanted(t) /\ pos[t] < Position(t)
      BY <2>1 DEF WinnersInv
    <3>3. Slot(pos[u]) # Slot(pos[t])
      <4>1. CASE t \in Producers <=> u \in Producers
        BY <1>t, <2>1, <3>1, <3>2, <4>1 DEF Position, Wanted
      <4>2. CASE ~(t \in Producers <=> u \in Producers)
        BY <2>1, <3>1, <3>2, <4>2, Slots DEF Wanted
      <4> QED BY <4>1, <4>2
    <3> QED BY <1>1, <2>3, <2>4, <3>1, <3>3
  <2>7. \A u \in Threads : pos'[u] <= Position(u)'
    BY <1>1, <2>4 DEF WinnersInv
  <2>8. \A u, v \in Threads : Busy(u)' /\ Busy(v)' /\ pos'[u] = pos'[v] /\ (u \in Producers <=> v \in Producers)
                              => u = v
    BY <1>1, <2>2 DEF WinnersInv
  <2> QED BY <2>2, <2>3, <2>5, <2>6, <2>7, <2>8 DEF WinnersInv, Freed
<1>2. ASSUME NEW p \in Producers, ReleaseEnqueue(p) PROVE QueueInv'
  <2>1. /\ at[p] = "release" /\ at' = [at EXCEPT ![p] = "out"]
        /\ sequence' = [sequence EXCEPT ![Slot(pos[p])] = pos[p] + 1]
        /\ sent' = [sent EXCEPT ![p] = @ + 1]
        /\ UNCHANGED <<enqueuePos, dequeuePos, data, pos, got, claimed>>
    BY <1>2 DEF ReleaseEnqueue, Go, Cell, Slot
  <2>2. p \in Threads /\ pos[p] \in Nat /\ pos[p] + 1 \in Nat /\ Busy(p)
    BY <1>0, <1>t, <2>1 DEF Busy
  <2>3. /\ WinnersInv' /\ at' \in [Threads -> Control] /\ sequence' \in [Cells -> Nat]
        /\ \A u \in Threads : Busy(u)' => u # p /\ Busy(u) /\ at'[u] = at[u]
        /\ \A n \in Nat : sequence'[Slot(n)] = IF Slot(n) = Slot(pos[p]) THEN pos[p] + 1 ELSE sequence[Slot(n)]
    <3>1. PICK m \in Nat : m = pos[p] + 1
      BY <2>2
    <3>2. Frees(p, m)
      BY <2>1, <3>1 DEF Frees
    <3>3. Freed(p, m)
      BY <1>1, <2>2, <3>2, Zenon
    <3> QED BY <3>1, <3>3 DEF Freed
  <2>4. /\ sent \in [Producers -> 0 .. Rounds] /\ sent[p] < Rounds /\ Rounds \in Nat
        /\ claimed[pos[p] + 1] = <<p, sent[p] + 1>> /\ data[Slot(pos[p])] = <<p, sent[p] + 1>>
        /\ pos[p] < enqueuePos
    BY <2>1, <2>2 DEF MpmcTypeOK, ItemsInv, WinnersInv, Position
  <2>5. MpmcTypeOK'
    <3>1. sent' \in [Producers -> 0 .. Rounds]
      BY <2>1, <2>4
    <3> QED BY <2>1, <2>3, <3>1 DEF MpmcTypeOK
  <2>6. CellsInv'
    <3>1. ASSUME NEW n \in Nat, sequence'[Slot(n)] = n + 1
          PROVE  n < enqueuePos' /\ data'[Slot(n)] = claimed'[n + 1]
      <4>1. CASE Slot(n) = Slot(pos[p])
        <5>1. n = pos[p]
          BY <2>2, <2>3, <3>1, <4>1
        <5> QED BY <2>1, <2>4, <5>1
      <4>2. CASE Slot(n) # Slot(pos[p])
        BY <2>1, <2>3, <3>1, <4>2 DEF CellsInv
      <4> QED BY <4>1, <4>2
    <3>2. ASSUME NEW n \in Nat, sequence'[Slot(n)] = n PROVE n < dequeuePos' + Capacity
      BY <2>1, <2>2, <2>3, <3>2, Slots DEF CellsInv
    <3> QED BY <2>1, <3>1, <3>2 DEF CellsInv
  <2>7. ItemsInv'
    <3>1. \A q \in Producers : q # p => at'[q] = at[q] /\ sent'[q] = sent[q] /\ q \in Threads
      BY <1>0, <1>t, <2>1, <2>4
    <3>2. at'[p] = "out" /\ ~Busy(p)'
      BY <1>t, <2>1, <2>2 DEF Busy
    <3>3. \A c \in Consumers : at'[c] = "release" => at[c] = "release"
      BY <1>0, <1>t, <2>1
    <3>4. \A q \in Producers : at'[q] # "out" => sent'[q] < Rounds
      BY <3>1, <3>2 DEF ItemsInv
    <3>5. \A q \in Producers : Busy(q)' => claimed'[pos'[q] + 1] = <<q, sent'[q] + 1>>
      BY <2>1, <2>3, <3>1, <3>2 DEF ItemsInv
    <3>6. \A q \in Producers : at'[q] = "release" => data'[Slot(pos'[q])] = <<q, sent'[q] + 1>>
      BY <2>1, <3>1, <3>2 DEF ItemsInv
    <3>7. \A c \in Consumers : at'[c] = "release" => got'[c] = claimed'[pos'[c] + 1]
      BY <2>1, <3>3 DEF ItemsInv
    <3> QED BY <3>4, <3>5, <3>6, <3>7 DEF ItemsInv
  <2> QED BY <2>3, <2>5, <2>6, <2>7
<1>3. ASSUME NEW c \in Consumers, ReleaseDequeue(c) PROVE QueueInv'
  <2>1. /\ at[c] = "release" /\ at' = [at EXCEPT ![c] = "out"]
        /\ sequence' = [sequence EXCEPT ![Slot(pos[c])] = pos[c] + Capacity]
        /\ UNCHANGED <<enqueuePos, dequeuePos, data, pos, sent, got, claimed>>
    BY <1>3 DEF ReleaseDequeue, Go, Cell, Slot
  <2>2. /\ c \in Threads /\ c \notin Producers /\ pos[c] \in Nat /\ pos[c] + Capacity \in Nat /\ Busy(c)
        /\ pos[c] < dequeuePos
    BY <1>0, <1>t, <2>1 DEF Busy, WinnersInv, Position
  <2>3. /\ WinnersInv' /\ at' \in [Threads -> Control] /\ sequence' \in [Cells -> Nat]
        /\ \A u \in Threads : Busy(u)' => u # c /\ Busy(u) /\ at'[u] = at[u]
        /\ \A n \in Nat : sequence'[Slot(n)] =
             IF Slot(n) = Slot(pos[c]) THEN pos[c] + Capacity ELSE sequence[Slot(n)]
    <3>1. PICK m \in Nat : m = pos[c] + Capacity
      BY <2>2
    <3>2. Frees(c, m)
      BY <2>1, <3>1 DEF Frees
    <3>3. Freed(c, m)
      BY <1>1, <2>2, <3>2, Zenon
    <3> QED BY <3>1, <3>3 DEF Freed
  <2>4. MpmcTypeOK'
    BY <2>1, <2>3 DEF MpmcTypeOK
  <2>5. CellsInv'
    <3>1. ASSUME NEW n \in Nat, sequence'[Slot(n)] = n + 1
          PROVE  n < enqueuePos' /\ data'[Slot(n)] = claimed'[n + 1]
      <4>1. Slot(n) # Slot(pos[c])
        <5> SUFFICES ASSUME Slot(n) = Slot(pos[c]) PROVE FALSE
          OBVIOUS
        <5>1. n + 1 = pos[c] + Capacity
          BY <2>3, <3>1
        <5>2. Slot(n + 1) = Slot(n)
          BY <2>2, <5>1, Slots
        <5> QED BY <5>2, Slots
      <4> QED BY <2>1, <2>3, <3>1, <4>1 DEF CellsInv
    <3>2. ASSUME NEW n \in Nat, sequence'[Slot(n)] = n PROVE n < dequeuePos' + Capacity
      BY <1>t, <2>1, <2>2, <2>3, <3>2 DEF CellsInv
    <3> QED BY <2>1, <3>1, <3>2 DEF CellsInv
  <2>6. ItemsInv'
    <3>1. \A q \in Producers : q # c /\ at'[q] = at[q] /\ q \in Threads
      BY <1>0, <1>t, <2>1, <2>2
    <3>2. \A d \in Consumers : at'[d] = "release" => at[d] = "release"
      BY <1>0, <1>t, <2>1
    <3> QED BY <2>1, <2>3, <3>1, <3>2 DEF ItemsInv
  <2> QED BY <2>3, <2>4, <2>5, <2>6
<1> QED BY <1>2, <1>3

LEMMA QueueStep == QueueInv /\ [Next]_vars => QueueInv'
<1> SUFFICES ASSUME QueueInv, [Next]_vars PROVE QueueInv'
  OBVIOUS
<1>0. \A q \in Producers \cup Consumers : q \in Threads
  BY DEF Threads
<1>1. ASSUME NEW p \in Producers, Enqueue(p) PROVE QueueInv'
  BY <1>0, <1>1, LookStep, SwapEnqueueStep, CopyStep, ReleaseStep DEF Enqueue
<1>2. ASSUME NEW c \in Consumers, Dequeue(c) PROVE QueueInv'
  BY <1>0, <1>2, LookStep, SwapDequeueStep, CopyStep, ReleaseStep DEF Dequeue
<1>3. CASE UNCHANGED vars
  BY <1>3 DEF vars, sharedVars, QueueInv, MpmcTypeOK, WinnersInv, CellsInv, ItemsInv, Busy, Position, Wanted
<1> QED BY <1>1, <1>2, <1>3 DEF Next

(* The order workers use the queue through its two operations only.        *)
LEMMA WorkersUseQueue == [OwNext]_owVars => [Next]_vars
BY DEF OwNext, owVars, Produce, JoinProducers, Work, TryDequeue, AskDone, Mark, Write, Next

LEMMA QueueCorrect == OwSpec => []QueueInv
<1>1. OwInit => QueueInv
  BY QueueInit DEF OwInit
<1> QED BY <1>1, WorkersUseQueue, QueueStep, PTL DEF OwSpec

(* No two threads ever copy into or out of the same cell, so that the two  *)
(* unlocked copies of the data are safe; with one cell this would fail,    *)
(* which is why the constructor refuses it.                                *)
THEOREM CellsAreExclusive == OwSpec => []ExclusiveCell
<1>1. QueueInv => ExclusiveCell
  <2>1. \A t \in Threads : Cell(t) = Slot(pos[t])
    BY DEF Cell, Slot
  <2> QED BY <2>1, WinnersExclude DEF QueueInv, ExclusiveCell, Busy
<1> QED BY <1>1, QueueCorrect, PTL

(* What a worker takes out of a cell is what the producer that won the     *)
(* position put in, not an older or a newer lap.                           *)
THEOREM ConsumersReadTheirItem == OwSpec => []ReadsItsItem
<1>1. QueueInv => ReadsItsItem
  <2> SUFFICES ASSUME QueueInv, NEW c \in Consumers, at[c] = "release"
               PROVE  pos[c] < Len(claimed) /\ got[c] = claimed[pos[c] + 1]
    BY DEF ReadsItsItem
  <2>1. c \in Threads /\ c \notin Producers /\ Busy(c)
    BY MpmcAssumption DEF Threads, Busy
  <2>2. pos[c] \in Nat /\ pos[c] < dequeuePos /\ dequeuePos \in Nat /\ enqueuePos \in Nat
    BY <2>1 DEF QueueInv, MpmcTypeOK, WinnersInv, Position
  <2> QED BY <2>2 DEF QueueInv, CellsInv, ItemsInv
<1> QED BY <1>1, QueueCorrect, PTL

-----------------------------------------------------------------------------
(* The refinement.                                                         *)

LEMMA AppendKeepsPart ==
  ASSUME NEW S, NEW s \in Seq(S), NEW x \in S,
         NEW m \in 1 .. Len(s) + 1, NEW n \in m - 1 .. Len(s)
  PROVE  SubSeq(Append(s, x), m, n) = SubSeq(s, m, n)
<1> DEFINE a == SubSeq(Append(s, x), m, n)
           b == SubSeq(s, m, n)
<1>1. m \in Nat /\ n \in Nat /\ Len(s) \in Nat
  OBVIOUS
<1>2. \A i \in m .. n : s[i] \in S /\ Append(s, x)[i] = s[i]
  BY <1>1, AppendProperties
<1>3. a \in Seq(S) /\ Len(a) = (IF m <= n THEN n - m + 1 ELSE 0) /\ \A i \in 1 .. n - m + 1 : a[i] = Append(s, x)[m + i - 1]
  BY <1>1, <1>2, SubSeqProperties
<1>4. b \in Seq(S) /\ Len(b) = (IF m <= n THEN n - m + 1 ELSE 0) /\ \A i \in 1 .. n - m + 1 : b[i] = s[m + i - 1]
  BY <1>1, <1>2, SubSeqProperties
<1> HIDE DEF a, b
<1>5. \A i \in 1 .. Len(a) : i \in 1 .. n - m + 1 /\ m + i - 1 \in m .. n
  BY <1>1, <1>3
<1>6. \A i \in 1 .. Len(a) : a[i] = b[i]
  BY <1>2, <1>3, <1>4, <1>5
<1>7. a = b
  BY <1>3, <1>4, <1>6, SeqEqual
<1> QED BY <1>7 DEF a, b

LEMMA FifoStep == QueueInv /\ QueueInv' /\ [Next]_vars => [Fifo!FifoNext]_(Fifo!fifoVars)
<1> SUFFICES ASSUME QueueInv, QueueInv', [Next]_vars
             PROVE  Fifo!FifoNext \/ UNCHANGED Fifo!fifoVars
  OBVIOUS
<1> USE MpmcAssumption
<1> DEFINE d == dequeuePos
           e == enqueuePos
           queue == SubSeq(claimed, d + 1, e)
           taken == SubSeq(claimed, 1, d)
<1>0. /\ claimed \in Seq(Items) /\ Len(claimed) = e /\ d \in Nat /\ e \in Nat /\ d <= e
      /\ sent \in [Producers -> 0 .. Rounds]
  BY DEF QueueInv, CellsInv, MpmcTypeOK
<1>q. queue \in Seq(Items) /\ Len(queue) = e - d
  <2>1. \A i \in d + 1 .. e : claimed[i] \in Items
    BY <1>0
  <2> QED BY <1>0, <2>1, SubSeqProperties
<1>1. ASSUME NEW p \in Producers, SwapEnqueue(p) PROVE Fifo!FifoNext
  <2> DEFINE x == <<p, sent[p] + 1>>
  <2>1. d' = d /\ e' = e + 1 /\ claimed' = Append(claimed, x)
    BY <1>1 DEF SwapEnqueue
  <2>2. e + 1 <= d + Capacity /\ claimed' \in Seq(Items)
    BY <2>1 DEF QueueInv, CellsInv, MpmcTypeOK
  <2>3. x \in Items
    <3>1. sent[p] < Rounds
      BY <1>1 DEF SwapEnqueue, Go, QueueInv, ItemsInv
    <3> QED BY <1>0, <3>1 DEF Items
  <2> HIDE DEF x
  <2>4. Len(claimed') = e + 1 /\ claimed'[e + 1] = x
    BY <1>0, <2>1, <2>3
  <2>5. queue' = queue \o <<x>>
    <3>1. SubSeq(claimed', d + 1, e + 1) = SubSeq(claimed', d + 1, (e + 1) - 1) \o <<claimed'[e + 1]>>
      <4>1. d + 1 \in 1 .. Len(claimed') /\ e + 1 \in d + 1 .. Len(claimed')
        BY <1>0, <2>4
      <4> QED BY <2>2, <4>1, SubSeqRecursiveSecond
    <3>2. SubSeq(claimed', d + 1, e) = SubSeq(claimed, d + 1, e)
      BY <1>0, <2>1, <2>3, AppendKeepsPart
    <3>3. (e + 1) - 1 = e
      BY <1>0
    <3> QED BY <2>1, <2>4, <3>1, <3>2, <3>3
  <2>6. taken' = taken
    BY <1>0, <2>1, <2>3, AppendKeepsPart
  <2>7. Len(queue) + Len(<<x>>) <= Capacity
    BY <1>0, <1>q, <2>2
  <2>8. <<x>> \in [1 .. 1 -> Items] /\ 1 \in 1 .. Capacity
    BY <2>3
  <2> QED BY <2>5, <2>6, <2>7, <2>8 DEF Fifo!FifoNext, Fifo!Put
<1>2. ASSUME NEW c \in Consumers, SwapDequeue(c) PROVE Fifo!FifoNext
  <2>1. d' = d + 1 /\ e' = e /\ claimed' = claimed /\ d < e
    BY <1>2, SwapDequeueStep DEF SwapDequeue
  <2>2. d + 1 \in 1 .. Len(claimed) /\ e \in d + 1 .. Len(claimed)
    BY <1>0, <2>1
  <2>3. queue' = SubSeq(queue, 1 + 1, Len(queue))
    <3>1. Tail(queue) = SubSeq(claimed, d + 1 + 1, e)
      BY <1>0, <2>2, HeadTailOfSubSeq
    <3>2. queue # <<>>
      BY <1>0, <1>q, <2>1
    <3>3. Tail(queue) = SubSeq(queue, 2, Len(queue))
      BY <1>q, <3>2, TailIsSubSeq
    <3>4. queue' = SubSeq(claimed, d + 1 + 1, e)
      BY <2>1
    <3> HIDE DEF queue
    <3>5. queue' = SubSeq(queue, 2, Len(queue))
      BY <3>1, <3>3, <3>4
    <3> QED BY <3>5
  <2>4. SubSeq(queue, 1, 1) = <<claimed[d + 1]>>
    <3>1. 1 \in 1 .. Len(queue) /\ queue[1] = claimed[d + 1]
      <4>1. \A i \in d + 1 .. e : claimed[i] \in Items
        BY <1>0
      <4>2. queue[1] = claimed[(d + 1) + 1 - 1]
        BY <1>0, <2>1, <4>1, SubSeqProperties
      <4> QED BY <1>0, <1>q, <2>1, <4>2
    <3> HIDE DEF queue
    <3>2. SubSeq(queue, 1, 1) = <<queue[1]>> \o SubSeq(queue, 1 + 1, 1)
      BY <1>q, <3>1, SubSeqRecursiveFirst
    <3>3. SubSeq(queue, 1 + 1, 1) = <<>>
      BY SubSeqEmpty
    <3>4. <<queue[1]>> \o <<>> = <<queue[1]>>
      OBVIOUS
    <3> QED BY <3>1, <3>2, <3>3, <3>4
  <2>5. taken' = taken \o SubSeq(queue, 1, 1)
    <3>1. SubSeq(claimed, 1, d + 1) = SubSeq(claimed, 1, (d + 1) - 1) \o <<claimed[d + 1]>>
      <4>1. 1 \in 1 .. Len(claimed) /\ d + 1 \in 1 .. Len(claimed)
        BY <1>0, <2>2
      <4> QED BY <1>0, <4>1, SubSeqRecursiveSecond
    <3>2. (d + 1) - 1 = d
      BY <1>0
    <3> QED BY <2>1, <2>4, <3>1, <3>2
  <2>6. 1 \in 1 .. Len(queue)
    BY <1>0, <1>q, <2>1
  <2> QED BY <2>3, <2>5, <2>6 DEF Fifo!FifoNext, Fifo!Take
<1>3. CASE UNCHANGED <<enqueuePos, dequeuePos, claimed>>
  BY <1>3 DEF Fifo!fifoVars
<1> QED BY <1>1, <1>2, <1>3
        DEF Next, Enqueue, Dequeue, Load, Look, SwapFails, WriteData, ReadData, ReleaseEnqueue,
            ReleaseDequeue, vars, sharedVars

(* With any number of producers and consumers the cells and their          *)
(* sequences are a FIFO that never holds more than Capacity items.         *)
THEOREM QueueIsFifo == OwSpec => ImplementsFifo
<1>1. OwInit => Fifo!FifoInit
  BY SubSeqEmpty DEF OwInit, Init, Fifo!FifoInit
<1> QED BY <1>1, QueueCorrect, WorkersUseQueue, FifoStep, PTL DEF OwSpec, ImplementsFifo, Fifo!FifoSpec

-----------------------------------------------------------------------------
(* The end of the program.  First the queue alone: a position that is won  *)
(* is written or a producer is about to write it, ...                      *)
ReleasedInv ==
  \A n \in Nat : n < enqueuePos =>
    sequence[Slot(n)] >= n + 1 \/ \E p \in Producers : Busy(p) /\ pos[p] = n

(* ... and the positions hold, once each, the items that were accepted and *)
(* those a producer is about to write.                                     *)
OnItsWay(x) == x[2] <= sent[x[1]] \/ (x[2] = sent[x[1]] + 1 /\ Busy(x[1]))

AcceptedInv ==
  /\ \A i \in 1 .. Len(claimed) : OnItsWay(claimed[i])
  /\ \A x \in Items : x[2] <= sent[x[1]] => \E i \in 1 .. Len(claimed) : claimed[i] = x
  /\ \A i, j \in 1 .. Len(claimed) : claimed[i] = claimed[j] => i = j

LEMMA ReleasedStep == QueueInv /\ ReleasedInv /\ [Next]_vars => ReleasedInv'
<1> SUFFICES ASSUME QueueInv, ReleasedInv, [Next]_vars PROVE ReleasedInv'
  OBVIOUS
<1> USE MpmcAssumption
<1>0. /\ \A p \in Producers : p \in Threads /\ p \notin Consumers
      /\ \A c \in Consumers : c \in Threads /\ c \notin Producers
      /\ at \in [Threads -> Control] /\ pos \in [Threads -> Nat] /\ sequence \in [Cells -> Nat]
      /\ enqueuePos \in Nat /\ dequeuePos \in Nat
  BY DEF Threads, QueueInv, MpmcTypeOK
<1>1. ASSUME UNCHANGED <<enqueuePos, sequence>>,
             \A p \in Producers : Busy(p) => Busy(p)' /\ pos'[p] = pos[p]
      PROVE  ReleasedInv'
  BY <1>1 DEF ReleasedInv
<1>2. ASSUME NEW t \in Threads, Load(t) \/ Look(t) \/ SwapFails(t) PROVE ReleasedInv'
  <2>1. UNCHANGED <<enqueuePos, sequence>>
    BY <1>2 DEF Load, Look, SwapFails, sharedVars
  <2>2. /\ ~Busy(t) /\ \A u \in Threads : u # t => at'[u] = at[u] /\ pos'[u] = pos[u]
    BY <1>0, <1>2 DEF Load, Look, SwapFails, Go, Busy
  <2> QED BY <1>0, <1>1, <2>1, <2>2 DEF Busy
<1>3. ASSUME NEW p \in Producers, SwapEnqueue(p) PROVE ReleasedInv'
  <2>1. /\ pos[p] = enqueuePos /\ enqueuePos' = enqueuePos + 1 /\ UNCHANGED <<sequence, pos>>
        /\ ~Busy(p) /\ Busy(p)' /\ \A q \in Threads : q # p => at'[q] = at[q]
    BY <1>0, <1>3 DEF SwapEnqueue, Go, Busy
  <2>2. \A q \in Producers : Busy(q) => Busy(q)'
    BY <1>0, <2>1 DEF Busy
  <2>3. \A n \in Nat : n < enqueuePos + 1 => n < enqueuePos \/ n = enqueuePos
    BY <1>0
  <2> QED BY <2>1, <2>2, <2>3 DEF ReleasedInv
<1>4. ASSUME NEW t \in Threads, WriteData(t) \/ SwapDequeue(t) \/ ReadData(t) PROVE ReleasedInv'
  <2>1. UNCHANGED <<enqueuePos, sequence, pos>>
    BY <1>4 DEF WriteData, SwapDequeue, ReadData, sharedVars
  <2>2. Busy(t)' /\ \A u \in Threads : u # t => at'[u] = at[u]
    BY <1>0, <1>4 DEF WriteData, SwapDequeue, ReadData, Go, Busy
  <2> QED BY <1>0, <1>1, <2>1, <2>2 DEF Busy
<1>5. ASSUME NEW t \in Threads,
             (t \in Producers /\ ReleaseEnqueue(t)) \/ (t \in Consumers /\ ReleaseDequeue(t))
      PROVE  ReleasedInv'
  <2>1. PICK v \in Nat : /\ sequence' = [sequence EXCEPT ![Slot(pos[t])] = v]
                         /\ sequence[Slot(pos[t])] <= v /\ v >= pos[t] + 1
    <3>1. CASE t \in Producers /\ ReleaseEnqueue(t)
      <4>1. sequence[Slot(pos[t])] = pos[t]
        BY <1>5, <3>1 DEF ReleaseEnqueue, Go, QueueInv, WinnersInv, Busy, Wanted
      <4>2. sequence' = [sequence EXCEPT ![Slot(pos[t])] = pos[t] + 1]
        BY <3>1 DEF ReleaseEnqueue, Cell, Slot
      <4>3. PICK v \in Nat : v = pos[t] + 1
        BY <1>0
      <4>4. sequence[Slot(pos[t])] <= v /\ v >= pos[t] + 1 /\ pos[t] \in Nat
        BY <1>0, <4>1, <4>3
      <4> QED BY <4>2, <4>3, <4>4
    <3>2. CASE t \in Consumers /\ ReleaseDequeue(t)
      <4>1. sequence[Slot(pos[t])] = pos[t] + 1
        BY <1>0, <1>5, <3>2 DEF ReleaseDequeue, Go, QueueInv, WinnersInv, Busy, Wanted
      <4>2. sequence' = [sequence EXCEPT ![Slot(pos[t])] = pos[t] + Capacity]
        BY <3>2 DEF ReleaseDequeue, Cell, Slot
      <4>3. PICK v \in Nat : v = pos[t] + Capacity
        BY <1>0
      <4>4. sequence[Slot(pos[t])] <= v /\ v >= pos[t] + 1 /\ pos[t] \in Nat
        BY <1>0, <4>1, <4>3
      <4> QED BY <4>2, <4>3, <4>4
    <3> QED BY <1>5, <3>1, <3>2
  <2>2. UNCHANGED <<enqueuePos, pos>> /\ \A u \in Threads : u # t => at'[u] = at[u]
    BY <1>0, <1>5 DEF ReleaseEnqueue, ReleaseDequeue, Go
  <2>3. ASSUME NEW n \in Nat, n < enqueuePos
        PROVE  sequence'[Slot(n)] >= n + 1 \/ \E p \in Producers : Busy(p)' /\ pos'[p] = n
    <3>1. Slot(n) \in Cells /\ Slot(pos[t]) \in Cells
      BY <1>0, Slots
    <3>2. CASE sequence[Slot(n)] >= n + 1
      <4>1. sequence'[Slot(n)] \in Nat /\ sequence[Slot(n)] \in Nat /\ sequence'[Slot(n)] >= sequence[Slot(n)]
        BY <1>0, <2>1, <3>1
      <4> QED BY <3>2, <4>1
    <3>3. CASE \E p \in Producers : Busy(p) /\ pos[p] = n
      <4>1. PICK p \in Producers : Busy(p) /\ pos[p] = n
        BY <3>3
      <4>2. CASE p = t
        BY <1>0, <2>1, <3>1, <4>1, <4>2
      <4>3. CASE p # t
        BY <1>0, <2>2, <4>1, <4>3 DEF Busy
      <4> QED BY <4>2, <4>3
    <3> QED BY <2>3, <3>2, <3>3 DEF ReleasedInv
  <2> QED BY <2>2, <2>3 DEF ReleasedInv
<1>6. CASE UNCHANGED vars
  BY <1>1, <1>6 DEF vars, sharedVars, Busy
<1> QED BY <1>0, <1>2, <1>3, <1>4, <1>5, <1>6 DEF Next, Enqueue, Dequeue

LEMMA AcceptedStep == QueueInv /\ AcceptedInv /\ [Next]_vars => AcceptedInv'
<1> SUFFICES ASSUME QueueInv, AcceptedInv, [Next]_vars PROVE AcceptedInv'
  OBVIOUS
<1> USE MpmcAssumption
<1>0. /\ \A p \in Producers : p \in Threads /\ p \notin Consumers
      /\ \A c \in Consumers : c \in Threads /\ c \notin Producers
      /\ at \in [Threads -> Control] /\ pos \in [Threads -> Nat] /\ sent \in [Producers -> 0 .. Rounds]
      /\ claimed \in Seq(Items) /\ Len(claimed) \in Nat /\ Len(claimed) = enqueuePos
  BY DEF Threads, QueueInv, MpmcTypeOK, CellsInv
<1>i. \A i \in 1 .. Len(claimed) : claimed[i] \in Items /\ claimed[i][1] \in Producers /\ claimed[i][2] \in Nat
  BY <1>0 DEF Items
<1>1. ASSUME UNCHANGED <<claimed, sent>>, \A p \in Producers : Busy(p) => Busy(p)'
      PROVE  AcceptedInv'
  <2>1. \A x \in Items : x[1] \in Producers
    BY DEF Items
  <2>2. \A x \in Items : OnItsWay(x) => OnItsWay(x)'
    BY <1>1, <2>1 DEF OnItsWay, Busy
  <2>3. \A i \in 1 .. Len(claimed') : OnItsWay(claimed[i])'
    BY <1>1, <1>i, <2>2 DEF AcceptedInv, OnItsWay, Busy
  <2> QED BY <1>1, <2>3 DEF AcceptedInv
<1>2. ASSUME NEW t \in Threads, Load(t) \/ Look(t) \/ SwapFails(t) PROVE AcceptedInv'
  <2>1. UNCHANGED <<claimed, sent>>
    BY <1>2 DEF Load, Look, SwapFails
  <2>2. ~Busy(t) /\ \A u \in Threads : u # t => at'[u] = at[u]
    BY <1>0, <1>2 DEF Load, Look, SwapFails, Go, Busy
  <2> QED BY <1>0, <1>1, <2>1, <2>2 DEF Busy
<1>3. ASSUME NEW t \in Threads, WriteData(t) \/ SwapDequeue(t) \/ ReadData(t) PROVE AcceptedInv'
  <2>1. UNCHANGED <<claimed, sent>>
    BY <1>3 DEF WriteData, SwapDequeue, ReadData
  <2>2. Busy(t)' /\ \A u \in Threads : u # t => at'[u] = at[u]
    BY <1>0, <1>3 DEF WriteData, SwapDequeue, ReadData, Go, Busy
  <2> QED BY <1>0, <1>1, <2>1, <2>2 DEF Busy
<1>4. ASSUME NEW c \in Consumers, ReleaseDequeue(c) PROVE AcceptedInv'
  <2>1. UNCHANGED <<claimed, sent>> /\ \A u \in Threads : u # c => at'[u] = at[u]
    BY <1>0, <1>4 DEF ReleaseDequeue, Go
  <2> QED BY <1>0, <1>1, <2>1 DEF Busy
<1>5. ASSUME NEW p \in Producers, SwapEnqueue(p) PROVE AcceptedInv'
  <2>1. /\ UNCHANGED sent /\ ~Busy(p) /\ Busy(p)' /\ \A q \in Threads : q # p => at'[q] = at[q]
        /\ sent[p] \in 0 .. Rounds /\ sent[p] < Rounds
    BY <1>0, <1>5 DEF SwapEnqueue, Go, Busy, QueueInv, ItemsInv
  <2>2. PICK x \in Items : x = <<p, sent[p] + 1>> /\ x[1] = p /\ x[2] = sent[p] + 1
    <3>1. sent[p] + 1 \in 1 .. Rounds
      BY <2>1
    <3>2. PICK m \in 1 .. Rounds : m = sent[p] + 1
      BY <3>1
    <3>3. <<p, m>> \in Items /\ <<p, m>>[1] = p /\ <<p, m>>[2] = m
      BY DEF Items
    <3> QED BY <3>2, <3>3
  <2>3. claimed' = Append(claimed, x)
    BY <1>5, <2>2 DEF SwapEnqueue
  <2>4. PICK n \in Nat : n = Len(claimed)
    BY <1>0
  <2>5. /\ Len(claimed') = n + 1 /\ claimed'[n + 1] = x /\ \A i \in 1 .. n : claimed'[i] = claimed[i]
        /\ \A i \in 1 .. n + 1 : i \in 1 .. n \/ i = n + 1
    BY <1>0, <2>3, <2>4, AppendProperties
  <2>6. \A q \in Producers : Busy(q) => Busy(q)'
    BY <1>0, <2>1 DEF Busy
  <2>7. \A i \in 1 .. n : claimed[i] # x
    <3> SUFFICES ASSUME NEW i \in 1 .. n, claimed[i] = x PROVE FALSE
      OBVIOUS
    <3>1. x[2] <= sent[p] \/ Busy(p)
      BY <2>2, <2>4 DEF AcceptedInv, OnItsWay
    <3> QED BY <2>1, <2>2, <3>1
  <2>8. \A i \in 1 .. Len(claimed') : OnItsWay(claimed[i])'
    <3>1. \A y \in Items : OnItsWay(y) => OnItsWay(y)'
      BY <2>1, <2>6 DEF OnItsWay, Items, Busy
    <3>2. OnItsWay(x)'
      BY <2>1, <2>2 DEF OnItsWay, Busy
    <3> SUFFICES ASSUME NEW i \in 1 .. n + 1, NEW y \in Items, y = claimed'[i] PROVE OnItsWay(y)'
      <4>1. \A i \in 1 .. n + 1 : claimed'[i] \in Items
        BY <1>i, <2>4, <2>5
      <4> QED BY <2>5, <4>1 DEF OnItsWay, Busy
    <3>3. y = x \/ OnItsWay(y)
      BY <2>4, <2>5 DEF AcceptedInv
    <3> QED BY <3>1, <3>2, <3>3
  <2>9. \A y \in Items : y[2] <= sent'[y[1]] => \E i \in 1 .. Len(claimed') : claimed'[i] = y
    <3> SUFFICES ASSUME NEW y \in Items, y[2] <= sent[y[1]]
                 PROVE  \E i \in 1 .. n + 1 : claimed'[i] = y
      BY <2>1, <2>5
    <3>1. PICK i \in 1 .. n : claimed[i] = y
      BY <2>4 DEF AcceptedInv
    <3> QED BY <2>5, <3>1
  <2>10. \A i, j \in 1 .. Len(claimed') : claimed'[i] = claimed'[j] => i = j
    BY <2>4, <2>5, <2>7 DEF AcceptedInv
  <2> QED BY <2>8, <2>9, <2>10 DEF AcceptedInv
<1>6. ASSUME NEW p \in Producers, ReleaseEnqueue(p) PROVE AcceptedInv'
  <2>1. /\ UNCHANGED claimed /\ sent' = [sent EXCEPT ![p] = @ + 1] /\ Busy(p)
        /\ \A q \in Threads : q # p => at'[q] = at[q]
    BY <1>0, <1>6 DEF ReleaseEnqueue, Go, Busy
  <2>2. sent'[p] = sent[p] + 1 /\ sent[p] \in Nat /\ \A q \in Producers : q # p => sent'[q] = sent[q]
    BY <1>0, <2>1
  <2>3. \A i \in 1 .. Len(claimed') : OnItsWay(claimed[i])'
    <3>1. ASSUME NEW x \in Items, OnItsWay(x) PROVE OnItsWay(x)'
      <4>1. x[1] \in Producers /\ x[2] \in Nat
        BY DEF Items
      <4>2. CASE x[1] = p
        BY <2>2, <3>1, <4>1, <4>2 DEF OnItsWay
      <4>3. CASE x[1] # p
        <5>1. sent'[x[1]] = sent[x[1]] /\ at'[x[1]] = at[x[1]]
          BY <1>0, <2>1, <2>2, <4>1, <4>3
        <5> QED BY <3>1, <5>1 DEF OnItsWay, Busy
      <4> QED BY <4>2, <4>3
    <3>2. \A i \in 1 .. Len(claimed) : claimed[i] \in Items /\ OnItsWay(claimed[i])
      BY <1>i DEF AcceptedInv
    <3>3. \A i \in 1 .. Len(claimed) : OnItsWay(claimed[i])' <=> \E y \in Items : y = claimed[i] /\ OnItsWay(y)'
      BY <2>1, <3>2 DEF OnItsWay, Busy
    <3> QED BY <2>1, <3>1, <3>2, <3>3
  <2>4. ASSUME NEW x \in Items, x[2] <= sent'[x[1]]
        PROVE  \E i \in 1 .. Len(claimed') : claimed'[i] = x
    <3>1. x[1] \in Producers /\ x[2] \in Nat /\ x = <<x[1], x[2]>>
      BY DEF Items
    <3>2. CASE x[2] <= sent[x[1]]
      BY <2>1, <3>2 DEF AcceptedInv
    <3>3. CASE ~(x[2] <= sent[x[1]])
      <4>1. x[1] = p
        BY <2>2, <2>4, <3>1, <3>3
      <4>2. x = <<p, sent[p] + 1>>
        BY <2>2, <2>4, <3>1, <3>3, <4>1
      <4>3. claimed[pos[p] + 1] = <<p, sent[p] + 1>> /\ pos[p] + 1 \in 1 .. Len(claimed)
        BY <1>0, <2>1 DEF QueueInv, ItemsInv, WinnersInv, Position
      <4> QED BY <2>1, <4>2, <4>3
    <3> QED BY <3>2, <3>3
  <2>5. \A i, j \in 1 .. Len(claimed') : claimed'[i] = claimed'[j] => i = j
    BY <2>1 DEF AcceptedInv
  <2> QED BY <2>3, <2>4, <2>5 DEF AcceptedInv
<1>7. CASE UNCHANGED vars
  BY <1>1, <1>7 DEF vars, Busy
<1>8. ASSUME NEW p \in Producers, Enqueue(p) PROVE AcceptedInv'
  BY <1>0, <1>2, <1>3, <1>5, <1>6, <1>8 DEF Enqueue
<1>9. ASSUME NEW c \in Consumers, Dequeue(c) PROVE AcceptedInv'
  BY <1>0, <1>2, <1>3, <1>4, <1>9 DEF Dequeue
<1> QED BY <1>7, <1>8, <1>9 DEF Next

(* What a call of try_enqueue or try_dequeue does for the counts below.    *)
ThreadTypes ==
  /\ \A p \in Producers : p \in Threads /\ p \notin Consumers
  /\ \A c \in Consumers : c \in Threads /\ c \notin Producers
  /\ at \in [Threads -> Control] /\ pos \in [Threads -> Nat] /\ sent \in [Producers -> 0 .. Rounds]
  /\ got \in [Consumers -> Items \cup {Garbage}]
  /\ claimed \in Seq(Items) /\ Len(claimed) = enqueuePos /\ enqueuePos \in Nat
  /\ dequeuePos \in Nat /\ dequeuePos <= enqueuePos

LEMMA QueueTypes == QueueInv => ThreadTypes
BY MpmcAssumption DEF ThreadTypes, Threads, QueueInv, MpmcTypeOK, CellsInv

LEMMA ProduceEffect ==
  ASSUME QueueInv, NEW p \in Producers, Produce(p)
  PROVE  /\ ~Finished(p) /\ UNCHANGED <<dequeuePos, got, phase, producersDone, tableVars>>
         /\ \A c \in Consumers : at'[c] = at[c] /\ pos'[c] = pos[c]
         /\ \A i \in 1 .. dequeuePos : i \in 1 .. Len(claimed) /\ i \in 1 .. Len(claimed') /\ claimed'[i] = claimed[i]
<1>0. ThreadTypes
  BY QueueTypes
<1>1. ~Finished(p) /\ UNCHANGED <<dequeuePos, got, phase, producersDone, tableVars>>
  BY DEF Produce, Enqueue, Load, Look, SwapEnqueue, SwapFails, WriteData, ReleaseEnqueue, sharedVars
<1>2. \A c \in Consumers : at'[c] = at[c] /\ pos'[c] = pos[c]
  BY <1>0 DEF ThreadTypes, Produce, Enqueue, Load, Look, SwapEnqueue, SwapFails, WriteData, ReleaseEnqueue, Go
<1>3. \A i \in 1 .. dequeuePos : i \in 1 .. Len(claimed)
  BY <1>0 DEF ThreadTypes
<1>4. CASE SwapEnqueue(p)
  <2>1. <<p, sent[p] + 1>> \in Items
    <3>1. sent[p] \in 0 .. Rounds /\ sent[p] < Rounds
      BY <1>0, <1>4 DEF ThreadTypes, SwapEnqueue, Go, QueueInv, ItemsInv
    <3> QED BY <3>1, MpmcAssumption DEF Items
  <2>2. PICK x \in Items : claimed' = Append(claimed, x)
    BY <1>4, <2>1 DEF SwapEnqueue
  <2>3. Len(claimed') = Len(claimed) + 1 /\ \A i \in 1 .. Len(claimed) : claimed'[i] = claimed[i]
    BY <1>0, <2>2, AppendProperties DEF ThreadTypes
  <2> QED BY <1>0, <1>1, <1>2, <1>3, <2>3 DEF ThreadTypes
<1>5. CASE ~SwapEnqueue(p)
  <2>1. UNCHANGED claimed
    BY <1>5 DEF Produce, Enqueue, Load, Look, SwapFails, WriteData, ReleaseEnqueue
  <2> QED BY <1>1, <1>2, <1>3, <2>1
<1> QED BY <1>4, <1>5

TriesInVain(c) ==
  /\ ~Busy(c) /\ ~Busy(c)' /\ UNCHANGED <<dequeuePos, got>>
  /\ \/ phase'[c] = phase[c]
     \/ phase'[c] = "ask" /\ at'[c] = "out"
     \/ /\ phase[c] = "last" /\ phase'[c] = "exited" /\ at'[c] = "out"
        /\ sequence[Slot(pos[c])] < pos[c] + 1
Wins(c) == /\ ~Busy(c) /\ Busy(c)' /\ pos[c] = dequeuePos /\ dequeuePos' = dequeuePos + 1
           /\ UNCHANGED <<pos, got, phase>>
Reads(c) == Busy(c) /\ Busy(c)' /\ UNCHANGED <<dequeuePos, pos, phase>>
Leaves(c) == /\ at[c] = "release" /\ at'[c] = "out" /\ phase'[c] = "mark"
             /\ UNCHANGED <<dequeuePos, pos, got>>

Phases == {"try", "ask", "last", "mark", "write", "exited"}

LEMMA TryEffect ==
  ASSUME QueueInv, phase \in [Consumers -> Phases], NEW c \in Consumers, TryDequeue(c)
  PROVE  /\ phase[c] \in {"try", "last"} /\ phase' \in [Consumers -> Phases]
         /\ UNCHANGED <<enqueuePos, sent, claimed, producersDone, rejected, tableVars>>
         /\ \A u \in Threads : u # c => at'[u] = at[u] /\ pos'[u] = pos[u]
         /\ \A d \in Consumers : d # c => phase'[d] = phase[d] /\ got'[d] = got[d]
         /\ TriesInVain(c) \/ Wins(c) \/ Reads(c) \/ Leaves(c)
<1>0. ThreadTypes /\ c \in Threads /\ c \notin Producers
  BY QueueTypes DEF ThreadTypes
<1>1. phase[c] \in {"try", "last"} /\ UNCHANGED <<producersDone, rejected, tableVars>>
  BY DEF TryDequeue
<1>2. UNCHANGED <<enqueuePos, sent, claimed>> /\ \A u \in Threads : u # c => at'[u] = at[u] /\ pos'[u] = pos[u]
  BY <1>0 DEF ThreadTypes, TryDequeue, Dequeue, Load, Look, SwapDequeue, SwapFails, ReadData,
              ReleaseDequeue, Go, sharedVars
<1>3. \A d \in Consumers : d # c => phase'[d] = phase[d] /\ got'[d] = got[d]
  BY <1>0 DEF ThreadTypes, TryDequeue, Enters, Dequeue, Load, Look, SwapDequeue, SwapFails, ReadData, ReleaseDequeue
<1>4. phase' \in [Consumers -> Phases]
  BY DEF TryDequeue, Enters, Phases
<1>5. CASE Load(c) \/ SwapFails(c)
  <2>1. at[c] \in {"out", "swap"} /\ at'[c] = "look" /\ UNCHANGED <<dequeuePos, got>>
    BY <1>0, <1>5 DEF ThreadTypes, Load, SwapFails, Go, sharedVars
  <2>2. UNCHANGED phase
    BY <2>1 DEF TryDequeue
  <2> QED BY <1>1, <1>2, <1>3, <1>4, <2>1, <2>2 DEF TriesInVain, Busy
<1>6. CASE Look(c)
  <2>1. at[c] = "look" /\ at'[c] \in {"look", "swap", "out"} /\ UNCHANGED <<dequeuePos, got>>
    BY <1>0, <1>6 DEF ThreadTypes, Look, Go, sharedVars
  <2>2. at'[c] # "out" => UNCHANGED phase
    BY <2>1 DEF TryDequeue
  <2>3. at'[c] = "out" => phase' = [phase EXCEPT ![c] = IF phase[c] = "try" THEN "ask" ELSE "exited"]
    BY <2>1 DEF TryDequeue, Enters
  <2>4. at'[c] = "out" => phase'[c] = IF phase[c] = "try" THEN "ask" ELSE "exited"
    BY <2>3
  <2>5. at'[c] = "out" => sequence[Slot(pos[c])] < pos[c] + 1
    BY <1>0, <1>6 DEF ThreadTypes, Look, Go, Cell, Slot, Wanted
  <2>6. TriesInVain(c)
    BY <1>1, <2>1, <2>2, <2>4, <2>5 DEF TriesInVain, Busy
  <2> QED BY <1>1, <1>2, <1>3, <1>4, <2>6
<1>7. CASE SwapDequeue(c)
  <2>1. /\ at[c] = "swap" /\ at'[c] = "copy" /\ pos[c] = dequeuePos /\ dequeuePos' = dequeuePos + 1
        /\ UNCHANGED <<pos, got>>
    BY <1>0, <1>7 DEF ThreadTypes, SwapDequeue, Go
  <2>2. UNCHANGED phase
    BY <2>1 DEF TryDequeue
  <2> QED BY <1>1, <1>2, <1>3, <1>4, <2>1, <2>2 DEF Wins, Busy
<1>8. CASE ReadData(c)
  <2>1. at[c] = "copy" /\ at'[c] = "release" /\ UNCHANGED <<dequeuePos, pos>>
    BY <1>0, <1>8 DEF ThreadTypes, ReadData, Go, sharedVars
  <2>2. UNCHANGED phase
    BY <2>1 DEF TryDequeue
  <2> QED BY <1>1, <1>2, <1>3, <1>4, <2>1, <2>2 DEF Reads, Busy
<1>9. CASE ReleaseDequeue(c)
  <2>1. at[c] = "release" /\ at'[c] = "out" /\ UNCHANGED <<dequeuePos, pos, got>>
    BY <1>0, <1>9 DEF ThreadTypes, ReleaseDequeue, Go
  <2>2. phase' = [phase EXCEPT ![c] = "mark"]
    BY <2>1 DEF TryDequeue, Enters
  <2> QED BY <1>1, <1>2, <1>3, <1>4, <2>1, <2>2 DEF Leaves
<1> QED BY <1>5, <1>6, <1>7, <1>8, <1>9 DEF TryDequeue, Dequeue

(* Then the program around it.  A worker is at its queue in two places     *)
(* only; the last look comes after the producers are joined, and who       *)
(* leaves has seen that all positions are won by a worker.                 *)
ShutdownInv ==
  /\ phase \in [Consumers -> Phases]
  /\ \A c \in Consumers : phase[c] \notin {"try", "last"} => at[c] = "out"
  /\ \A c \in Consumers : phase[c] \in {"last", "exited"} => producersDone
  /\ producersDone => \A p \in Producers : Finished(p)
  /\ \A c \in Consumers : phase[c] = "exited" => dequeuePos = enqueuePos

(* Every position won by a worker is counted or in the hands of a worker   *)
(* that will count it, and everything counted is written, a repetition or  *)
(* about to be written.                                                    *)
Holders == {c \in Consumers : Busy(c) \/ phase[c] = "mark"}
Writers == {c \in Consumers : phase[c] = "write"}

CountInv ==
  /\ IsFiniteSet(Holders) /\ IsFiniteSet(Writers)
  /\ consumed \in Nat /\ dups \in Nat /\ written \in Seq(Nat)
  /\ consumed + Cardinality(Holders) = dequeuePos
  /\ Len(written) + Cardinality(Writers) + dups = consumed

(* The same for the ids.                                                   *)
HandIds == {IdOf[claimed[pos[c] + 1]] : c \in Holders}
WonIds == {IdOf[claimed[i]] : i \in 1 .. dequeuePos}

IdsInv ==
  /\ \A c \in Consumers :
       phase[c] \in {"mark", "write"} => pos[c] < dequeuePos /\ got[c] = claimed[pos[c] + 1]
  /\ seen \cup HandIds = WonIds
  /\ {written[i] : i \in DOMAIN written} \cup {IdOf[got[c]] : c \in Writers} = seen

(* A last look that finds nothing, after the producers are joined, has     *)
(* missed nothing: no cell is still being written.                         *)
LEMMA LastLook ==
  ASSUME QueueInv, ReleasedInv, \A p \in Producers : Finished(p),
         NEW c \in Consumers, sequence[Slot(pos[c])] < pos[c] + 1
  PROVE  dequeuePos = enqueuePos
<1>0. ThreadTypes /\ c \in Threads /\ c \notin Producers
  BY QueueTypes DEF ThreadTypes
<1>1. \A p \in Producers : ~Busy(p)
  BY DEF Finished, Busy
<1>2. pos[c] \in Nat /\ pos[c] <= dequeuePos /\ sequence[Slot(pos[c])] \in Nat
  BY <1>0, Slots DEF ThreadTypes, QueueInv, WinnersInv, Position, MpmcTypeOK
<1>3. ~(pos[c] < enqueuePos)
  BY <1>1, <1>2 DEF ReleasedInv
<1> QED BY <1>0, <1>2, <1>3 DEF ThreadTypes

LEMMA ShutdownStep == QueueInv /\ QueueInv' /\ ReleasedInv /\ ShutdownInv /\ [OwNext]_owVars => ShutdownInv'
<1> SUFFICES ASSUME QueueInv, QueueInv', ReleasedInv, ShutdownInv, [OwNext]_owVars PROVE ShutdownInv'
  OBVIOUS
<1>0. ThreadTypes /\ ThreadTypes'
  BY QueueTypes, PTL
<1>1. ASSUME NEW p \in Producers, Produce(p) PROVE ShutdownInv'
  <2>1. ~producersDone
    BY <1>1, ProduceEffect DEF ShutdownInv
  <2> QED BY <1>1, <2>1, ProduceEffect DEF ShutdownInv
<1>2. CASE JoinProducers
  BY <1>2 DEF JoinProducers, ShutdownInv, vars, sharedVars, Finished
<1>3. ASSUME NEW c \in Consumers, TryDequeue(c) PROVE ShutdownInv'
  <2>1. /\ phase[c] \in {"try", "last"} /\ phase' \in [Consumers -> Phases]
        /\ UNCHANGED <<enqueuePos, sent, claimed, producersDone, rejected, tableVars>>
        /\ \A u \in Threads : u # c => at'[u] = at[u] /\ pos'[u] = pos[u]
        /\ \A d \in Consumers : d # c => phase'[d] = phase[d] /\ got'[d] = got[d]
        /\ TriesInVain(c) \/ Wins(c) \/ Reads(c) \/ Leaves(c)
    BY <1>3, TryEffect DEF ShutdownInv
  <2>2. producersDone' => \A p \in Producers : Finished(p)'
    BY <1>0, <2>1 DEF ShutdownInv, Finished, ThreadTypes
  <2>3. phase'[c] \notin {"try", "last"} => at'[c] = "out"
    BY <2>1 DEF TriesInVain, Wins, Reads, Leaves
  <2>4. phase'[c] \in {"last", "exited"} => producersDone'
    BY <2>1 DEF ShutdownInv, TriesInVain, Wins, Reads, Leaves
  <2>5. dequeuePos' \in {dequeuePos, dequeuePos + 1} /\ dequeuePos' <= enqueuePos
    BY <1>0, <2>1 DEF TriesInVain, Wins, Reads, Leaves, ThreadTypes
  <2>6. phase'[c] = "exited" => dequeuePos' = enqueuePos'
    <3> SUFFICES ASSUME phase'[c] = "exited" PROVE dequeuePos = enqueuePos /\ dequeuePos' = dequeuePos
      BY <2>1
    <3>1. phase[c] = "last" /\ sequence[Slot(pos[c])] < pos[c] + 1 /\ dequeuePos' = dequeuePos
      BY <2>1 DEF TriesInVain, Wins, Reads, Leaves
    <3> QED BY <3>1, LastLook DEF ShutdownInv
  <2>7. dequeuePos = enqueuePos => dequeuePos' = enqueuePos'
    BY <1>0, <2>1, <2>5 DEF ThreadTypes
  <2>8. \A d \in Consumers : d # c => d \in Threads /\ at'[d] = at[d] /\ phase'[d] = phase[d]
    BY <1>0, <2>1 DEF ThreadTypes
  <2> QED BY <2>1, <2>2, <2>3, <2>4, <2>6, <2>7, <2>8 DEF ShutdownInv
<1>4. ASSUME NEW c \in Consumers, AskDone(c) \/ Mark(c) \/ Write(c) PROVE ShutdownInv'
  <2>1. UNCHANGED <<vars, producersDone, rejected>> /\ phase[c] \in {"ask", "mark", "write"}
    BY <1>4 DEF AskDone, Mark, Write
  <2>2. \E there \in {"last", "try", "write"} :
          phase' = [phase EXCEPT ![c] = there] /\ (there = "last" => producersDone)
    BY <1>4 DEF AskDone, Mark, Write, Enters
  <2>3. at[c] = "out"
    BY <2>1 DEF ShutdownInv
  <2> QED BY <2>1, <2>2, <2>3 DEF ShutdownInv, Phases, vars, sharedVars, Finished
<1>5. CASE UNCHANGED owVars
  BY <1>5 DEF owVars, vars, sharedVars, ShutdownInv, Finished
<1> QED BY <1>1, <1>2, <1>3, <1>4, <1>5 DEF OwNext, Work

(* What a worker marks or writes is an item.                               *)
LEMMA HandIsItem ==
  ASSUME QueueInv, IdsInv, NEW c \in Consumers, phase[c] \in {"mark", "write"}
  PROVE  got[c] \in Items
<1>1. pos[c] < dequeuePos /\ got[c] = claimed[pos[c] + 1]
  BY DEF IdsInv
<1>2. pos[c] \in Nat /\ ThreadTypes
  BY QueueTypes DEF ThreadTypes
<1> QED BY <1>1, <1>2 DEF ThreadTypes

LEMMA CountStep == QueueInv /\ ShutdownInv /\ IdsInv /\ CountInv /\ [OwNext]_owVars => CountInv'
<1> SUFFICES ASSUME QueueInv, ShutdownInv, IdsInv, CountInv, [OwNext]_owVars PROVE CountInv'
  OBVIOUS
<1>0. /\ ThreadTypes /\ phase \in [Consumers -> Phases]
      /\ \A c \in Consumers : c \in Threads /\ c \notin Producers
      /\ Cardinality(Holders) \in Nat /\ Cardinality(Writers) \in Nat /\ Len(written) \in Nat
  BY QueueTypes, FS_CardinalityType DEF ThreadTypes, ShutdownInv, CountInv
<1>1. ASSUME UNCHANGED <<dequeuePos, tableVars>>,
             \A c \in Consumers : /\ Busy(c)' \/ phase'[c] = "mark" <=> Busy(c) \/ phase[c] = "mark"
                                  /\ phase'[c] = "write" <=> phase[c] = "write"
      PROVE  CountInv'
  <2>1. Holders' = Holders /\ Writers' = Writers
    BY <1>1 DEF Holders, Writers
  <2> QED BY <1>1, <2>1 DEF CountInv, tableVars
<1>2. ASSUME NEW p \in Producers, Produce(p) PROVE CountInv'
  <2>1. UNCHANGED <<dequeuePos, phase, tableVars>> /\ \A c \in Consumers : at'[c] = at[c]
    BY <1>2, ProduceEffect
  <2> QED BY <1>1, <2>1 DEF Busy
<1>3. CASE JoinProducers
  BY <1>1, <1>3 DEF JoinProducers, vars, sharedVars, Busy
<1>4. ASSUME NEW c \in Consumers, TryDequeue(c) PROVE CountInv'
  <2>1. /\ phase[c] \in {"try", "last"} /\ UNCHANGED tableVars
        /\ \A d \in Consumers : d # c => at'[d] = at[d] /\ phase'[d] = phase[d]
        /\ TriesInVain(c) \/ Wins(c) \/ Reads(c) \/ Leaves(c)
    BY <1>0, <1>4, TryEffect
  <2>2. CASE TriesInVain(c) \/ Reads(c) \/ Leaves(c)
    <3>1. /\ UNCHANGED dequeuePos /\ phase'[c] # "write"
          /\ Busy(c)' \/ phase'[c] = "mark" <=> Busy(c) \/ phase[c] = "mark"
      BY <2>1, <2>2 DEF TriesInVain, Reads, Leaves, Busy
    <3> QED BY <1>1, <2>1, <3>1 DEF Busy
  <2>3. CASE Wins(c)
    <3>1. c \notin Holders /\ Holders' = Holders \cup {c} /\ Writers' = Writers /\ dequeuePos' = dequeuePos + 1
      BY <2>1, <2>3 DEF Wins, Holders, Writers, Busy
    <3>2. IsFiniteSet(Holders \cup {c}) /\ Cardinality(Holders \cup {c}) = Cardinality(Holders) + 1
      BY <3>1, FS_AddElement DEF CountInv
    <3> QED BY <1>0, <2>1, <3>1, <3>2 DEF CountInv, tableVars
  <2> QED BY <2>1, <2>2, <2>3
<1>5. ASSUME NEW c \in Consumers, AskDone(c) PROVE CountInv'
  <2>1. /\ UNCHANGED <<vars, tableVars>> /\ phase[c] = "ask"
        /\ \E there \in {"last", "try"} : phase' = [phase EXCEPT ![c] = there]
    BY <1>5 DEF AskDone, Enters
  <2> QED BY <1>0, <1>1, <2>1 DEF vars, sharedVars, Busy
<1>6. ASSUME NEW c \in Consumers, Mark(c) PROVE CountInv'
  <2>1. /\ UNCHANGED <<dequeuePos, at, written>> /\ phase[c] = "mark" /\ at[c] = "out" /\ consumed' = consumed + 1
        /\ \A d \in Consumers : d # c => phase'[d] = phase[d]
    BY <1>0, <1>6 DEF Mark, Enters, vars, sharedVars, ShutdownInv
  <2>2. \/ phase'[c] = "try" /\ dups' = dups + 1
        \/ phase'[c] = "write" /\ dups' = dups
    BY <1>0, <1>6 DEF Mark, Enters
  <2>3. c \in Holders /\ Holders' = Holders \ {c}
    BY <2>1, <2>2 DEF Holders, Busy
  <2>4. IsFiniteSet(Holders') /\ Cardinality(Holders') = Cardinality(Holders) - 1
    BY <2>3, FS_RemoveElement DEF CountInv
  <2>5. c \notin Writers /\ Writers' = IF phase'[c] = "write" THEN Writers \cup {c} ELSE Writers
    BY <2>1, <2>2 DEF Writers
  <2>6. IsFiniteSet(Writers \cup {c}) /\ Cardinality(Writers \cup {c}) = Cardinality(Writers) + 1
    BY <2>5, FS_AddElement DEF CountInv
  <2> QED BY <1>0, <2>1, <2>2, <2>4, <2>5, <2>6 DEF CountInv
<1>7. ASSUME NEW c \in Consumers, Write(c) PROVE CountInv'
  <2>1. /\ UNCHANGED <<dequeuePos, at, consumed, dups>> /\ phase[c] = "write" /\ phase'[c] = "try"
        /\ \A d \in Consumers : d # c => phase'[d] = phase[d]
    BY <1>0, <1>7 DEF Write, Enters, vars, sharedVars
  <2>2. Holders' = Holders
    BY <2>1 DEF Holders, Busy
  <2>3. c \in Writers /\ Writers' = Writers \ {c}
    BY <2>1 DEF Writers
  <2>4. IsFiniteSet(Writers') /\ Cardinality(Writers') = Cardinality(Writers) - 1
    BY <2>3, FS_RemoveElement DEF CountInv
  <2>5. written' \in Seq(Nat) /\ Len(written') = Len(written) + 1
    <3>1. IdOf[got[c]] \in Nat
      BY <2>1, HandIsItem, OrderWorkerAssumption
    <3> QED BY <1>7, <3>1, AppendProperties DEF Write, CountInv
  <2> QED BY <1>0, <2>1, <2>2, <2>4, <2>5 DEF CountInv
<1>8. CASE UNCHANGED owVars
  BY <1>1, <1>8 DEF owVars, vars, sharedVars, Busy
<1> QED BY <1>2, <1>3, <1>4, <1>5, <1>6, <1>7, <1>8 DEF OwNext, Work

LEMMA IdsStep == QueueInv /\ ShutdownInv /\ IdsInv /\ CountInv /\ [OwNext]_owVars => IdsInv'
<1> SUFFICES ASSUME QueueInv, ShutdownInv, IdsInv, CountInv, [OwNext]_owVars PROVE IdsInv'
  OBVIOUS
<1>0. /\ ThreadTypes /\ phase \in [Consumers -> Phases]
      /\ \A c \in Consumers : c \in Threads /\ c \notin Producers /\ pos[c] \in Nat
      /\ written \in Seq(Nat)
  BY QueueTypes DEF ThreadTypes, ShutdownInv, CountInv
<1>h. \A c \in Holders : c \in Consumers /\ pos[c] + 1 \in 1 .. dequeuePos
  <2>1. \A c \in Holders : c \in Consumers /\ pos[c] \in Nat /\ pos[c] < dequeuePos
    BY <1>0 DEF Holders, QueueInv, WinnersInv, Position, IdsInv
  <2> QED BY <1>0, <2>1 DEF ThreadTypes
<1>1. ASSUME UNCHANGED <<dequeuePos, seen, written>>,
             \A i \in 1 .. dequeuePos : claimed'[i] = claimed[i],
             \A c \in Consumers : /\ c \in Holders' <=> c \in Holders
                                  /\ phase'[c] = "write" <=> phase[c] = "write"
                                  /\ c \in Holders \cup Writers => pos'[c] = pos[c]
                                  /\ phase'[c] \in {"mark", "write"} => got'[c] = got[c],
             \A c \in Consumers : phase'[c] = "mark" =>
                c \in Holders /\ got[c] = claimed[pos[c] + 1]
      PROVE  IdsInv'
  <2>1. Holders' = Holders /\ Writers' = Writers
    BY <1>1 DEF Holders, Writers
  <2>2. HandIds' = HandIds
    <3>1. \A c \in Holders : claimed'[pos'[c] + 1] = claimed[pos[c] + 1]
      BY <1>h, <1>1
    <3> QED BY <2>1, <3>1 DEF HandIds
  <2>3. WonIds' = WonIds
    BY <1>1 DEF WonIds
  <2>4. \A c \in Writers : got'[c] = got[c] /\ pos'[c] = pos[c] /\ pos[c] + 1 \in 1 .. dequeuePos
                           /\ got[c] = claimed[pos[c] + 1]
    <3> SUFFICES ASSUME NEW c \in Writers
                 PROVE  /\ got'[c] = got[c] /\ pos'[c] = pos[c] /\ pos[c] + 1 \in 1 .. dequeuePos
                        /\ got[c] = claimed[pos[c] + 1]
      OBVIOUS
    <3>1. c \in Consumers /\ phase[c] = "write" /\ phase'[c] = "write"
      BY <1>1 DEF Writers
    <3>2. pos[c] < dequeuePos /\ got[c] = claimed[pos[c] + 1]
      BY <3>1 DEF IdsInv
    <3>3. pos[c] \in Nat /\ dequeuePos \in Nat
      BY <1>0, <3>1 DEF ThreadTypes
    <3> QED BY <1>1, <3>1, <3>2, <3>3
  <2>5. {IdOf[got'[c]] : c \in Writers'} = {IdOf[got[c]] : c \in Writers}
    BY <2>1, <2>4
  <2>6. ASSUME NEW c \in Consumers, phase'[c] \in {"mark", "write"}
        PROVE  pos'[c] < dequeuePos' /\ got'[c] = claimed'[pos'[c] + 1]
    <3>1. /\ pos'[c] = pos[c] /\ got'[c] = got[c] /\ got[c] = claimed[pos[c] + 1]
          /\ pos[c] + 1 \in 1 .. dequeuePos
      <4>1. CASE phase'[c] = "mark"
        BY <1>1, <1>h, <2>6, <4>1
      <4>2. CASE phase'[c] = "write"
        <5>1. c \in Writers
          BY <1>1, <2>6, <4>2 DEF Writers
        <5> QED BY <1>1, <2>4, <2>6, <5>1
      <4> QED BY <2>6, <4>1, <4>2
    <3>2. claimed'[pos'[c] + 1] = claimed[pos[c] + 1] /\ dequeuePos' = dequeuePos
      BY <1>1, <3>1
    <3>3. pos[c] \in Nat /\ dequeuePos \in Nat
      BY <1>0, <2>6 DEF ThreadTypes
    <3> QED BY <3>1, <3>2, <3>3
  <2> QED BY <1>1, <2>2, <2>3, <2>5, <2>6 DEF IdsInv
<1>2. ASSUME NEW p \in Producers, Produce(p) PROVE IdsInv'
  <2>1. /\ UNCHANGED <<dequeuePos, got, phase, tableVars>>
        /\ \A c \in Consumers : at'[c] = at[c] /\ pos'[c] = pos[c]
        /\ \A i \in 1 .. dequeuePos : claimed'[i] = claimed[i]
    BY <1>2, ProduceEffect
  <2> QED BY <1>1, <2>1 DEF Holders, Busy, tableVars, IdsInv
<1>3. CASE JoinProducers \/ UNCHANGED owVars
  BY <1>1, <1>3 DEF JoinProducers, owVars, vars, sharedVars, tableVars, Holders, Busy, IdsInv
<1>4. ASSUME NEW c \in Consumers, TryDequeue(c) PROVE IdsInv'
  <2>1. /\ phase[c] \in {"try", "last"} /\ UNCHANGED <<claimed, tableVars>>
        /\ \A d \in Consumers : d # c => at'[d] = at[d] /\ pos'[d] = pos[d] /\ phase'[d] = phase[d] /\ got'[d] = got[d]
        /\ TriesInVain(c) \/ Wins(c) \/ Reads(c) \/ Leaves(c)
    BY <1>0, <1>4, TryEffect
  <2>2. CASE TriesInVain(c) \/ Reads(c) \/ Leaves(c)
    <3>1. /\ UNCHANGED dequeuePos /\ phase'[c] # "write" /\ c \notin Writers
          /\ c \in Holders' <=> c \in Holders
          /\ c \in Holders => pos'[c] = pos[c]
          /\ phase'[c] = "mark" => c \in Holders /\ at[c] = "release" /\ got'[c] = got[c]
      BY <2>1, <2>2 DEF TriesInVain, Reads, Leaves, Holders, Writers, Busy
    <3>2. phase'[c] = "mark" => got[c] = claimed[pos[c] + 1]
      BY <3>1 DEF QueueInv, ItemsInv
    <3>3. \A d \in Consumers : d # c => (d \in Holders' <=> d \in Holders)
      BY <2>1 DEF Holders, Busy
    <3>4. \A d \in Consumers : d # c /\ phase'[d] = "mark" => d \in Holders /\ got[d] = claimed[pos[d] + 1]
      BY <2>1 DEF Holders, IdsInv
    <3> QED BY <1>1, <2>1, <3>1, <3>2, <3>3, <3>4 DEF tableVars
  <2>3. CASE Wins(c)
    <3>1. /\ Holders' = Holders \cup {c} /\ Writers' = Writers
          /\ dequeuePos' = dequeuePos + 1 /\ pos[c] = dequeuePos /\ UNCHANGED <<pos, got, phase, claimed, seen, written>>
      BY <2>1, <2>3 DEF Wins, Holders, Writers, Busy, tableVars
    <3>2. 1 .. dequeuePos + 1 = (1 .. dequeuePos) \cup {dequeuePos + 1}
      BY <1>0 DEF ThreadTypes
    <3>3. WonIds' = WonIds \cup {IdOf[claimed[dequeuePos + 1]]}
      BY <3>1, <3>2 DEF WonIds
    <3>4. HandIds' = HandIds \cup {IdOf[claimed[dequeuePos + 1]]}
      BY <3>1 DEF HandIds
    <3>5. \A d \in Consumers : phase'[d] \in {"mark", "write"} => pos'[d] < dequeuePos' /\ got'[d] = claimed'[pos'[d] + 1]
      BY <1>0, <3>1 DEF IdsInv, ThreadTypes
    <3> QED BY <3>1, <3>3, <3>4, <3>5 DEF IdsInv
  <2> QED BY <2>1, <2>2, <2>3
<1>5. ASSUME NEW c \in Consumers, AskDone(c) PROVE IdsInv'
  <2>1. /\ UNCHANGED <<vars, tableVars>> /\ phase[c] = "ask" /\ phase'[c] \in {"last", "try"}
        /\ \A d \in Consumers : d # c => phase'[d] = phase[d]
    BY <1>0, <1>5 DEF AskDone, Enters
  <2> QED BY <1>1, <2>1 DEF vars, sharedVars, tableVars, Holders, Busy, IdsInv
<1>6. ASSUME NEW c \in Consumers, Mark(c) PROVE IdsInv'
  <2> DEFINE id == IdOf[got[c]]
  <2>1. /\ UNCHANGED <<vars, written>> /\ phase[c] = "mark" /\ at[c] = "out" /\ seen' = seen \cup {id}
        /\ phase'[c] = IF id \in seen THEN "try" ELSE "write"
        /\ \A d \in Consumers : d # c => phase'[d] = phase[d]
    BY <1>0, <1>6 DEF Mark, Enters, ShutdownInv
  <2>2. UNCHANGED <<dequeuePos, claimed, pos, got, at>>
    BY <2>1 DEF vars, sharedVars
  <2>3. c \in Holders /\ Holders' = Holders \ {c} /\ id = IdOf[claimed[pos[c] + 1]]
    BY <2>1, <2>2 DEF Holders, Busy, IdsInv
  <2>4. HandIds = HandIds' \cup {id} /\ WonIds' = WonIds
    BY <2>2, <2>3 DEF HandIds, WonIds
  <2>5. Writers' = IF id \in seen THEN Writers ELSE Writers \cup {c}
    BY <2>1 DEF Writers
  <2>6. {IdOf[got'[d]] : d \in Writers'} \cup seen = {IdOf[got[d]] : d \in Writers} \cup seen \cup {id}
    BY <2>2, <2>5
  <2>7. {IdOf[got[d]] : d \in Writers} \subseteq {IdOf[got'[d]] : d \in Writers'}
    BY <2>2, <2>5
  <2>8. {written'[i] : i \in DOMAIN written'} \cup {IdOf[got'[d]] : d \in Writers'} = seen'
    <3>1. written' = written
      BY <2>1
    <3>2. {written[i] : i \in DOMAIN written} \cup {IdOf[got[d]] : d \in Writers} = seen
      BY DEF IdsInv
    <3>3. {IdOf[got'[d]] : d \in Writers'} \subseteq seen \cup {id}
      BY <2>6, <3>2
    <3>4. id \in seen \/ id \in {IdOf[got'[d]] : d \in Writers'}
      BY <2>2, <2>5
    <3> HIDE DEF id
    <3> QED BY <2>1, <2>7, <3>1, <3>2, <3>3, <3>4
  <2>9. \A d \in Consumers : phase'[d] \in {"mark", "write"} => phase[d] \in {"mark", "write"}
    BY <2>1
  <2> HIDE DEF id
  <2>10. seen' \cup HandIds' = WonIds'
    BY <2>1, <2>4 DEF IdsInv
  <2> QED BY <2>2, <2>8, <2>9, <2>10 DEF IdsInv
<1>7. ASSUME NEW c \in Consumers, Write(c) PROVE IdsInv'
  <2>1. /\ UNCHANGED <<vars, seen>> /\ phase[c] = "write" /\ phase'[c] = "try"
        /\ written' = Append(written, IdOf[got[c]])
        /\ \A d \in Consumers : d # c => phase'[d] = phase[d]
    BY <1>0, <1>7 DEF Write, Enters
  <2>2. UNCHANGED <<dequeuePos, claimed, pos, got, at>>
    BY <2>1 DEF vars, sharedVars
  <2>3. Holders' = Holders /\ HandIds' = HandIds /\ WonIds' = WonIds
    <3>1. Holders' = Holders
      BY <2>1, <2>2 DEF Holders, Busy
    <3> QED BY <2>2, <3>1 DEF HandIds, WonIds
  <2>4. c \in Writers /\ Writers' = Writers \ {c}
    BY <2>1 DEF Writers
  <2>5. {written'[i] : i \in DOMAIN written'} = {written[i] : i \in DOMAIN written} \cup {IdOf[got[c]]}
    <3>1. IdOf[got[c]] \in Nat
      BY <2>1, HandIsItem, OrderWorkerAssumption
    <3>2. PICK n \in Nat :
          /\ DOMAIN written = 1 .. n /\ DOMAIN written' = 1 .. n + 1
          /\ written'[n + 1] = IdOf[got[c]] /\ \A i \in 1 .. n : written'[i] = written[i]
      BY <1>0, <2>1, <3>1, AppendProperties, LenProperties
    <3>3. 1 .. n + 1 = (1 .. n) \cup {n + 1}
      BY <3>2
    <3> QED BY <3>2, <3>3
  <2>6. {IdOf[got[d]] : d \in Writers} = {IdOf[got'[d]] : d \in Writers'} \cup {IdOf[got[c]]}
    BY <2>2, <2>4
  <2>7. \A d \in Consumers : phase'[d] \in {"mark", "write"} => phase[d] \in {"mark", "write"}
    BY <2>1
  <2>8. {written'[i] : i \in DOMAIN written'} \cup {IdOf[got'[d]] : d \in Writers'} = seen'
    BY <2>1, <2>5, <2>6 DEF IdsInv
  <2> QED BY <2>1, <2>2, <2>3, <2>7, <2>8 DEF IdsInv
<1> QED BY <1>2, <1>3, <1>4, <1>5, <1>6, <1>7 DEF OwNext, Work

(* All of it together, which is what the proof of the assertion needs.     *)
WorkersInv == QueueInv /\ ReleasedInv /\ AcceptedInv /\ ShutdownInv /\ IdsInv /\ CountInv

LEMMA WorkersInit == OwInit => WorkersInv
<1> SUFFICES ASSUME OwInit PROVE WorkersInv
  OBVIOUS
<1>1. QueueInv /\ ThreadTypes
  BY QueueInit, QueueTypes DEF OwInit
<1>2. \A t \in Threads : at[t] = "out" /\ ~Busy(t)
  BY DEF OwInit, Init, Busy
<1>3. enqueuePos = 0 /\ dequeuePos = 0 /\ claimed = <<>> /\ Len(claimed) = 0 /\ \A p \in Producers : sent[p] = 0
  BY DEF OwInit, Init
<1>4. ReleasedInv
  BY <1>3 DEF ReleasedInv
<1>5. AcceptedInv
  <2>1. \A i \in 1 .. Len(claimed) : FALSE
    BY <1>3
  <2>2. \A x \in Items : ~(x[2] <= sent[x[1]])
    BY <1>3, MpmcAssumption DEF Items
  <2> QED BY <2>1, <2>2 DEF AcceptedInv
<1>6. ShutdownInv
  BY <1>1, <1>2 DEF OwInit, ShutdownInv, Phases, ThreadTypes
<1>7. Holders = {} /\ Writers = {}
  BY <1>1, <1>2 DEF OwInit, Holders, Writers, ThreadTypes
<1>8. CountInv
  <2>1. consumed = 0 /\ dups = 0 /\ written = <<>>
    BY DEF OwInit
  <2>2. IsFiniteSet({}) /\ Cardinality({}) = 0
    BY FS_EmptySet
  <2>3. written \in Seq(Nat) /\ Len(written) = 0
    BY <2>1
  <2> QED BY <1>3, <1>7, <2>1, <2>2, <2>3 DEF CountInv
<1>9. IdsInv
  <2>1. seen = {} /\ written = <<>> /\ \A c \in Consumers : phase[c] = "try"
    BY DEF OwInit
  <2>2. HandIds = {} /\ WonIds = {}
    <3>1. 1 .. dequeuePos = {}
      BY <1>3
    <3> QED BY <1>7, <3>1 DEF HandIds, WonIds
  <2>3. {written[i] : i \in DOMAIN written} = {} /\ {IdOf[got[c]] : c \in Writers} = {}
    BY <1>7, <2>1
  <2> QED BY <2>1, <2>2, <2>3 DEF IdsInv
<1> QED BY <1>1, <1>4, <1>5, <1>6, <1>8, <1>9 DEF WorkersInv

LEMMA WorkersCorrect == OwSpec => []WorkersInv
<1>1. QueueInv /\ QueueInv' /\ WorkersInv /\ [OwNext]_owVars => WorkersInv'
  BY WorkersUseQueue, ReleasedStep, AcceptedStep, ShutdownStep, IdsStep, CountStep DEF WorkersInv
<1> QED BY <1>1, WorkersInit, QueueCorrect, PTL DEF OwSpec

(* Whatever a producer has been told, it makes no more calls than there    *)
(* are rounds, and one is still open while it is inside a call.            *)
CallsInv ==
  /\ producersDone \in BOOLEAN /\ rejected \in [Producers -> Nat]
  /\ \A p \in Producers : sent[p] + rejected[p] <= Rounds /\ (at[p] # "out" => sent[p] + rejected[p] < Rounds)

LEMMA CallsStep == QueueInv /\ QueueInv' /\ ShutdownInv /\ CallsInv /\ [OwNext]_owVars => CallsInv'
<1> SUFFICES ASSUME QueueInv, QueueInv', ShutdownInv, CallsInv, [OwNext]_owVars PROVE CallsInv'
  OBVIOUS
<1>0. ThreadTypes /\ ThreadTypes' /\ Rounds \in Nat
  BY QueueTypes, MpmcAssumption, PTL
<1>1. ASSUME NEW p \in Producers, Produce(p) PROVE CallsInv'
  <2>1. p \in Threads /\ sent[p] \in Nat /\ rejected[p] \in Nat /\ at \in [Threads -> Control] /\ Rounds \in Nat
        /\ sent \in [Producers -> 0 .. Rounds] /\ \A q \in Producers : q \in Threads
    BY <1>0 DEF ThreadTypes, CallsInv
  <2>2. sent[p] + rejected[p] <= Rounds /\ (at[p] # "out" => sent[p] + rejected[p] < Rounds)
        /\ ~(at[p] = "out" /\ sent[p] + rejected[p] = Rounds)
    BY <1>1 DEF CallsInv, Produce, Finished
  <2>3. /\ sent'[p] + rejected'[p] <= Rounds /\ (at'[p] # "out" => sent'[p] + rejected'[p] < Rounds)
        /\ \A q \in Producers : q # p => at'[q] = at[q] /\ sent'[q] = sent[q]
    <3>1. CASE Load(p) \/ SwapFails(p) \/ SwapEnqueue(p) \/ WriteData(p)
      <4>1. sent' = sent /\ rejected' = rejected
        BY <2>1, <3>1, <1>1 DEF Load, SwapFails, SwapEnqueue, WriteData, Produce, Go
      <4>2. \A q \in Producers : q # p => at'[q] = at[q]
        BY <2>1, <3>1 DEF Load, SwapFails, SwapEnqueue, WriteData, Go
      <4> QED BY <2>1, <2>2, <4>1, <4>2
    <3>2. CASE Look(p)
      <4>1. sent' = sent /\ at[p] = "look" /\ \A q \in Producers : q # p => at'[q] = at[q]
        BY <2>1, <3>2 DEF Look, Go
      <4>2. CASE at'[p] = "out"
        <5>1. rejected'[p] = rejected[p] + 1
          BY <1>1, <4>1, <4>2 DEF Produce, CallsInv
        <5> QED BY <2>1, <2>2, <4>1, <4>2, <5>1
      <4>3. CASE at'[p] # "out"
        <5>1. rejected' = rejected
          BY <1>1, <4>3 DEF Produce
        <5> QED BY <2>1, <2>2, <4>1, <5>1
      <4> QED BY <4>2, <4>3
    <3>3. CASE ReleaseEnqueue(p)
      <4>1. at[p] = "release" /\ at'[p] = "out" /\ sent'[p] = sent[p] + 1
            /\ \A q \in Producers : q # p => at'[q] = at[q] /\ sent'[q] = sent[q]
        BY <2>1, <3>3 DEF ReleaseEnqueue, Go
      <4>2. rejected' = rejected
        BY <1>1, <4>1 DEF Produce
      <4> QED BY <2>1, <2>2, <4>1, <4>2
    <3> QED BY <1>1, <3>1, <3>2, <3>3 DEF Produce, Enqueue
  <2>4. rejected' \in [Producers -> Nat] /\ \A q \in Producers : q # p => rejected'[q] = rejected[q]
    BY <1>1 DEF Produce, CallsInv
  <2>5. producersDone' \in BOOLEAN
    BY <1>1 DEF Produce, CallsInv
  <2>6. ASSUME NEW q \in Producers
        PROVE  sent'[q] + rejected'[q] <= Rounds /\ (at'[q] # "out" => sent'[q] + rejected'[q] < Rounds)
    <3>1. CASE q = p
      BY <2>3, <3>1
    <3>2. CASE q # p
      BY <2>3, <2>4, <3>2 DEF CallsInv
    <3> QED BY <3>1, <3>2
  <2> QED BY <2>4, <2>5, <2>6 DEF CallsInv
<1>2. ASSUME UNCHANGED <<sent, rejected>>, producersDone' \in BOOLEAN, \A p \in Producers : at'[p] = at[p]
      PROVE  CallsInv'
  BY <1>2 DEF CallsInv
<1>3. CASE JoinProducers
  BY <1>2, <1>3 DEF JoinProducers, vars, sharedVars
<1>4. ASSUME NEW c \in Consumers, TryDequeue(c) PROVE CallsInv'
  <2>1. UNCHANGED <<sent, producersDone, rejected>> /\ \A u \in Threads : u # c => at'[u] = at[u]
    BY <1>4, TryEffect DEF ShutdownInv
  <2>2. \A p \in Producers : p \in Threads /\ p # c
    BY <1>0 DEF ThreadTypes
  <2> QED BY <1>2, <2>1, <2>2 DEF CallsInv
<1>5. ASSUME NEW c \in Consumers, AskDone(c) \/ Mark(c) \/ Write(c) PROVE CallsInv'
  BY <1>2, <1>5 DEF AskDone, Mark, Write, vars, sharedVars, CallsInv
<1>6. CASE UNCHANGED owVars
  BY <1>2, <1>6 DEF owVars, vars, sharedVars, CallsInv
<1> QED BY <1>1, <1>3, <1>4, <1>5, <1>6 DEF OwNext, Work

(* The type invariant of the program: what a consumer has in hand is an    *)
(* item or garbage, each thread stands at a place of its own code, and the *)
(* calls a producer has made, accepted or rejected, are within its rounds. *)
THEOREM OrderWorkerTypeCorrect == OwSpec => []OrderWorkerTypeOK
<1>1. OwInit => CallsInv
  <2> SUFFICES ASSUME OwInit PROVE CallsInv
    OBVIOUS
  <2>1. producersDone = FALSE /\ rejected \in [Producers -> Nat]
    BY DEF OwInit
  <2>2. ASSUME NEW p \in Producers PROVE sent[p] = 0 /\ rejected[p] = 0 /\ at[p] = "out"
    BY DEF OwInit, Init, Threads
  <2>3. ASSUME NEW p \in Producers PROVE sent[p] + rejected[p] <= Rounds
    BY <2>2, MpmcAssumption
  <2> QED BY <2>1, <2>2, <2>3 DEF CallsInv
<1>2. OwSpec => []CallsInv
  <2>1. WorkersInv => QueueInv /\ ShutdownInv
    BY DEF WorkersInv
  <2> QED BY <1>1, <2>1, CallsStep, WorkersCorrect, PTL DEF OwSpec
<1>3. WorkersInv /\ CallsInv => OrderWorkerTypeOK
  <2> SUFFICES ASSUME WorkersInv, CallsInv PROVE OrderWorkerTypeOK
    OBVIOUS
  <2>1. ThreadTypes /\ MpmcTypeOK /\ Rounds \in Nat
    BY QueueTypes, MpmcAssumption DEF WorkersInv, QueueInv
  <2>2. rejected \in [Producers -> 0 .. Rounds]
    <3>1. ASSUME NEW p \in Producers PROVE rejected[p] \in 0 .. Rounds
      BY <2>1 DEF CallsInv, ThreadTypes
    <3> QED BY <3>1 DEF CallsInv
  <2>3. seen \in SUBSET Nat
    <3>1. seen \subseteq WonIds
      BY DEF WorkersInv, IdsInv
    <3>2. \A i \in 1 .. dequeuePos : IdOf[claimed[i]] \in Nat
      BY <2>1, OrderWorkerAssumption DEF ThreadTypes
    <3> QED BY <3>1, <3>2 DEF WonIds
  <2>4. consumed \in Nat /\ dups \in Nat /\ written \in Seq(Nat)
    BY DEF WorkersInv, CountInv
  <2>5. phase \in [Consumers -> {"try", "ask", "last", "mark", "write", "exited"}] /\ producersDone \in BOOLEAN
    BY DEF WorkersInv, ShutdownInv, Phases, CallsInv
  <2> QED BY <2>1, <2>2, <2>3, <2>4, <2>5 DEF OrderWorkerTypeOK
<1> QED BY <1>2, <1>3, WorkersCorrect, PTL

(* Items that are accepted are as many as the positions given away, when   *)
(* no producer is on its way any more.                                     *)
LEMMA AcceptedAreClaimed ==
  ASSUME QueueInv, AcceptedInv, \A p \in Producers : Finished(p)
  PROVE  LET accepted == {x \in Items : x[2] <= sent[x[1]]}
         IN  /\ accepted = {claimed[i] : i \in 1 .. enqueuePos}
             /\ Cardinality(accepted) = enqueuePos
<1> DEFINE accepted == {x \in Items : x[2] <= sent[x[1]]}
<1>1. /\ claimed \in Seq(Items) /\ Len(claimed) = enqueuePos /\ enqueuePos \in Nat
  BY QueueTypes DEF ThreadTypes
<1>2. \A i \in 1 .. enqueuePos : claimed[i] \in Items
  BY <1>1
<1>3. \A x \in Items : OnItsWay(x) <=> x[2] <= sent[x[1]]
  BY DEF Items, Finished, Busy, OnItsWay
<1>4. accepted = {claimed[i] : i \in 1 .. enqueuePos}
  BY <1>1, <1>2, <1>3 DEF AcceptedInv
<1>5. ExistsBijection(1 .. enqueuePos, accepted)
  <2> DEFINE f == [i \in 1 .. enqueuePos |-> claimed[i]]
  <2>1. f \in [1 .. enqueuePos -> accepted]
    BY <1>4
  <2>2. \A i, j \in 1 .. enqueuePos : f[i] = f[j] => i = j
    BY <1>1 DEF AcceptedInv
  <2>3. \A x \in accepted : \E i \in 1 .. enqueuePos : f[i] = x
    BY <1>4
  <2> HIDE DEF f, accepted
  <2>4. f \in Bijection(1 .. enqueuePos, accepted)
    BY <2>1, <2>2, <2>3 DEF Bijection, Injection, Surjection, IsInjective
  <2> QED BY <2>4 DEF ExistsBijection
<1>6. Cardinality(accepted) = enqueuePos
  BY <1>1, <1>5, FS_CountingElements
<1> QED BY <1>4, <1>6

(* "assert(consumed == accepted)": when the workers have left, every item  *)
(* that a producer got in was taken out and counted once, and its id is in *)
(* the database.  There must be a worker: with none, main ends at once.    *)
THEOREM AcceptedAreConsumed == Consumers # {} => (OwSpec => []AcceptedIsConsumed)
<1> SUFFICES ASSUME Consumers # {} PROVE OwSpec => []AcceptedIsConsumed
  OBVIOUS
<1>1. WorkersInv => AcceptedIsConsumed
  <2> SUFFICES ASSUME WorkersInv, Exited PROVE AcceptedIsConsumed
    BY DEF AcceptedIsConsumed
  <2> DEFINE accepted == {x \in Items : x[2] <= sent[x[1]]}
  <2>1. /\ QueueInv /\ AcceptedInv /\ ShutdownInv /\ IdsInv /\ CountInv
        /\ \A c \in Consumers : phase[c] = "exited"
    BY DEF WorkersInv, Exited
  <2>2. dequeuePos = enqueuePos /\ \A p \in Producers : Finished(p)
    BY <2>1 DEF ShutdownInv
  <2>3. Holders = {} /\ Writers = {}
    BY <2>1 DEF Holders, Writers, Busy, ShutdownInv
  <2>4. accepted = {claimed[i] : i \in 1 .. enqueuePos} /\ Cardinality(accepted) = enqueuePos
    BY <2>1, <2>2, AcceptedAreClaimed
  <2>5. Cardinality(Holders) = 0 /\ Cardinality(Writers) = 0
    BY <2>3, FS_EmptySet
  <2>6. consumed = Cardinality(accepted) /\ Len(written) + dups = consumed
    <3> HIDE DEF accepted
    <3>1. enqueuePos \in Nat
      BY <2>1, QueueTypes DEF ThreadTypes
    <3> QED BY <2>1, <2>2, <2>4, <2>5, <3>1, LenProperties DEF CountInv
  <2>7. {written[i] : i \in DOMAIN written} = WonIds
    <3>1. HandIds = {} /\ {IdOf[got[c]] : c \in Writers} = {}
      BY <2>3 DEF HandIds
    <3> QED BY <2>1, <3>1 DEF IdsInv
  <2>8. WonIds = {IdOf[x] : x \in accepted}
    <3>1. WonIds = {IdOf[claimed[i]] : i \in 1 .. enqueuePos}
      BY <2>2 DEF WonIds
    <3> HIDE DEF accepted
    <3> QED BY <2>4, <3>1
  <2> QED BY <2>6, <2>7, <2>8 DEF AcceptedIsConsumed
<1> QED BY <1>1, WorkersCorrect, PTL

=============================================================================
