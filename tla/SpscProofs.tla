---------------------------- MODULE SpscProofs ----------------------------
(***************************************************************************)
(* Proofs about the SPSC ring, for any capacity, batch size and number of  *)
(* items.                                                                  *)
(***************************************************************************)
EXTENDS SpscQueue, Integers, SequenceTheorems, TLAPS

-----------------------------------------------------------------------------
(* The ring: what % Size makes of an index that wrapped at most once.      *)

LEMMA Wraps ==
  ASSUME NEW a \in 0 .. 2 * Size - 1
  PROVE  a % Size = IF a < Size THEN a ELSE a - Size
<1> DEFINE S == Size
           q == a \div S
           r == a % S
<1>1. S \in Nat \ {0} /\ a \in 0 .. 2 * S - 1
  BY SpscAssumption DEF Size
<1> HIDE DEF S
<1>2. q \in Nat /\ r \in 0 .. S - 1 /\ a = S * q + r
  BY <1>1
<1> HIDE DEF q, r
<1>3. q = 0 \/ q = 1
  <2>1. q >= 2 => S * q >= S * 2
    BY <1>1, <1>2
  <2>2. S * q \in Int
    BY <1>1, <1>2
  <2> QED BY <1>1, <1>2, <2>1, <2>2
<1>4. S * 0 = 0 /\ S * 1 = S
  BY <1>1
<1>5. r = IF a < S THEN a ELSE a - S
  BY <1>1, <1>2, <1>3, <1>4
<1> QED BY <1>5 DEF r, S

LEMMA Ring ==
  /\ Size = Capacity + 1 /\ Size \in Nat \ {0}
  /\ \A i, j \in Cells : Distance(i, j) = IF i <= j THEN j - i ELSE j + Size - i
  /\ \A i, j \in Cells : Distance(i, j) \in 0 .. Capacity
  /\ \A i \in Cells : \A d \in 0 .. Size :
       (i + d) % Size = IF i + d < Size THEN i + d ELSE i + d - Size
  /\ \A i \in Cells : \A d \in 0 .. Size : (i + d) % Size \in Cells
<1>1. Size = Capacity + 1 /\ Size \in Nat \ {0}
  BY SpscAssumption DEF Size
<1>2. ASSUME NEW i \in Cells, NEW j \in Cells
      PROVE  Distance(i, j) = IF i <= j THEN j - i ELSE j + Size - i
  <2>1. i \in Nat /\ j \in Nat /\ i < Size /\ j < Size
    BY <1>1, <1>2, SpscAssumption DEF Cells
  <2>2. PICK a \in 0 .. 2 * Size - 1 : a = j + Size - i
    BY <1>1, <2>1
  <2>3. Distance(i, j) = a % Size
    BY <2>2 DEF Distance
  <2>4. a % Size = IF a < Size THEN a ELSE a - Size
    BY <2>2, Wraps
  <2> QED BY <1>1, <2>1, <2>2, <2>3, <2>4
<1>3. ASSUME NEW i \in Cells, NEW d \in 0 .. Size
      PROVE  (i + d) % Size = IF i + d < Size THEN i + d ELSE i + d - Size
  <2>1. PICK a \in 0 .. 2 * Size - 1 : a = i + d
    BY <1>1, SpscAssumption DEF Cells
  <2>2. a % Size = IF a < Size THEN a ELSE a - Size
    BY <2>1, Wraps
  <2>3. i \in Nat /\ d \in Nat
    BY <1>1, SpscAssumption DEF Cells
  <2> QED BY <1>1, <2>1, <2>2, <2>3
<1>4. \A i, j \in Cells : Distance(i, j) \in 0 .. Capacity
  BY <1>1, <1>2, SpscAssumption DEF Cells
<1>5. ASSUME NEW i \in Cells, NEW d \in 0 .. Size PROVE (i + d) % Size \in Cells
  <2>1. (i + d) % Size = IF i + d < Size THEN i + d ELSE i + d - Size
    BY <1>3
  <2>2. i \in Nat /\ i < Size /\ d \in Nat /\ d <= Size
    BY <1>1, SpscAssumption DEF Cells
  <2> QED BY <1>1, <2>1, <2>2, SpscAssumption DEF Cells
<1> QED BY <1>1, <1>2, <1>3, <1>4, <1>5

(* A distance and a cell determine each other. *)
LEMMA Offsets ==
  /\ \A i \in Cells : Distance(i, i) = 0
  /\ \A i \in Cells : \A d \in 0 .. Capacity : Distance(i, (i + d) % Size) = d
  /\ \A i, j \in Cells : (i + Distance(i, j)) % Size = j
  /\ \A i, j \in Cells : Distance(i, j) = 0 => i = j
<1>0. /\ Size = Capacity + 1 /\ Capacity \in Nat
      /\ \A i \in Cells : i \in Nat /\ i <= Capacity
  BY Ring, SpscAssumption DEF Cells
<1>1. ASSUME NEW i \in Cells, NEW j \in Cells
      PROVE  /\ Distance(i, j) = 0 => i = j
             /\ i = j => Distance(i, j) = 0
             /\ (i + Distance(i, j)) % Size = j
  <2>0. Distance(i, j) \in 0 .. Capacity /\ Distance(i, j) = IF i <= j THEN j - i ELSE j + Size - i
    BY Ring
  <2>1. PICK d \in 0 .. Capacity : d = Distance(i, j) /\ d = IF i <= j THEN j - i ELSE j + Size - i
    BY <2>0
  <2>2. (i + d) % Size = IF i + d < Size THEN i + d ELSE i + d - Size
    BY <1>0, Ring
  <2> QED BY <1>0, <2>1, <2>2
<1>2. ASSUME NEW i \in Cells, NEW d \in 0 .. Capacity PROVE Distance(i, (i + d) % Size) = d
  <2>0. d \in 0 .. Size
    BY <1>0
  <2>a. (i + d) % Size \in Cells /\ (i + d) % Size = IF i + d < Size THEN i + d ELSE i + d - Size
    BY <2>0, Ring
  <2>1. PICK j \in Cells : j = (i + d) % Size /\ j = IF i + d < Size THEN i + d ELSE i + d - Size
    BY <2>a
  <2>2. Distance(i, j) = IF i <= j THEN j - i ELSE j + Size - i
    BY Ring
  <2> QED BY <1>0, <2>1, <2>2
<1> QED BY <1>1, <1>2

(* Distances add up as long as they stay on the ring. *)
LEMMA Distances ==
  ASSUME NEW i \in Cells, NEW j \in Cells, NEW k \in Cells,
         Distance(i, j) + Distance(j, k) <= Capacity
  PROVE  Distance(i, k) = Distance(i, j) + Distance(j, k)
<1>1. /\ Size = Capacity + 1 /\ Capacity \in Nat
      /\ i \in Nat /\ i <= Capacity /\ j \in Nat /\ j <= Capacity /\ k \in Nat /\ k <= Capacity
  BY Ring, SpscAssumption DEF Cells
<1>2. /\ Distance(i, j) = IF i <= j THEN j - i ELSE j + Size - i
      /\ Distance(j, k) = IF j <= k THEN k - j ELSE k + Size - j
      /\ Distance(i, k) = IF i <= k THEN k - i ELSE k + Size - i
  BY Ring
<1> QED BY <1>1, <1>2

LEMMA NextCell ==
  ASSUME NEW i \in Cells, NEW j \in Cells, Distance(i, j) < Capacity
  PROVE  (j + 1) % Size \in Cells /\ Distance(i, (j + 1) % Size) = Distance(i, j) + 1
<1>1. Capacity \in Nat \ {0}
  BY SpscAssumption
<1>0. 1 \in 0 .. Capacity /\ 1 \in 0 .. Size
  BY <1>1, Ring
<1>2. (j + 1) % Size \in Cells /\ Distance(j, (j + 1) % Size) = 1
  BY <1>0, Ring, Offsets
<1>3. Distance(i, j) \in 0 .. Capacity
  BY Ring
<1> QED BY <1>1, <1>2, <1>3, Distances

-----------------------------------------------------------------------------
(* The inductive invariant.                                                *)

Stored == Distance(head, tail)
Copied == Distance(tail, writeAt)
Read == Distance(head, readAt)

(* The cells from head on: first what the consumer has read, then what it  *)
(* still reads, up to tail; from tail on what the producer has written and *)
(* will write, and one cell remains free.                                  *)
RingInv ==
  /\ Stored + Copied + Len(sending) <= Capacity
  /\ Read + receiving <= Stored
  /\ next + Len(sending) <= LastItem + 1

(* What the two calls have moved so far.                                   *)
CopiesInv ==
  /\ Len(items) = Read
  /\ \A i \in 1 .. Read : items[i] = buffer[(head + (i - 1)) % Size]
  /\ \A i \in 1 .. Copied : buffer[(tail + (i - 1)) % Size] \in 1 .. LastItem

SpscInv == SpscTypeOK /\ RingInv /\ CopiesInv

LEMMA SpscInit == Init => SpscInv
<1> SUFFICES ASSUME Init PROVE SpscInv
  OBVIOUS
<1>1. 0 \in Cells /\ Distance(0, 0) = 0
  BY Ring, SpscAssumption DEF Cells
<1>2. SpscTypeOK
  BY <1>1, SpscAssumption DEF Init, SpscTypeOK
<1>3. Stored = 0 /\ Copied = 0 /\ Read = 0
  BY <1>1 DEF Init, Stored, Copied, Read
<1> QED BY <1>2, <1>3, SpscAssumption DEF Init, SpscInv, RingInv, CopiesInv

-----------------------------------------------------------------------------
(* Every step keeps it.                                                    *)

(* What the invariant says of the indices, for the steps to use. *)
LEMMA Indices ==
  ASSUME SpscInv
  PROVE  /\ Capacity \in Nat \ {0} /\ Stored \in 0 .. Capacity /\ Copied \in 0 .. Capacity /\ Read \in 0 .. Capacity
         /\ Len(sending) \in Nat /\ receiving \in Nat /\ next \in Nat /\ LastItem \in Nat
         /\ head \in Cells /\ tail \in Cells /\ writeAt \in Cells /\ readAt \in Cells
         /\ (sending = <<>> <=> Len(sending) = 0)
         /\ (tail = writeAt <=> Copied = 0) /\ (head = readAt <=> Read = 0)
         /\ Distance(head, writeAt) = Stored + Copied
<1>1. /\ head \in Cells /\ tail \in Cells /\ writeAt \in Cells /\ readAt \in Cells
      /\ sending \in Seq(1 .. LastItem) /\ receiving \in Nat /\ next \in Nat
      /\ Stored + Copied + Len(sending) <= Capacity
  BY SpscAssumption DEF SpscInv, SpscTypeOK, RingInv
<1>2. Stored \in 0 .. Capacity /\ Copied \in 0 .. Capacity /\ Read \in 0 .. Capacity
  BY <1>1, Ring DEF Stored, Copied, Read
<1>3. Len(sending) \in Nat /\ (sending = <<>> <=> Len(sending) = 0)
  BY <1>1
<1>4. Stored + Copied <= Capacity
  BY <1>1, <1>2, <1>3, SpscAssumption
<1>5. Distance(head, writeAt) = Stored + Copied
  BY <1>1, <1>4, Distances DEF Stored, Copied
<1>6. (tail = writeAt <=> Copied = 0) /\ (head = readAt <=> Read = 0)
  BY <1>1, Offsets DEF Copied, Read
<1> QED BY <1>1, <1>2, <1>3, <1>5, <1>6, SpscAssumption

LEMMA StartEnqueueKeeps ==
  ASSUME SpscInv, NEW n \in 1 .. BatchSize, StartEnqueue(n)
  PROVE  SpscInv'
<1>1. /\ writeAt = tail /\ next + n - 1 <= LastItem /\ n <= Capacity - Stored
      /\ sending' = [i \in 1 .. n |-> next + i - 1]
      /\ UNCHANGED <<head, tail, buffer, writeAt, receiving, readAt, items, next, taken>>
  BY DEF StartEnqueue, consumerVars, Stored
<1>2. n \in Nat /\ n <= BatchSize /\ BatchSize \in Nat /\ next \in Nat /\ next >= 1 /\ LastItem \in Nat
  BY SpscAssumption DEF SpscInv, SpscTypeOK
<1>3. \A i \in 1 .. n : next + i - 1 \in 1 .. LastItem
  BY <1>1, <1>2
<1>4. sending' \in Seq(1 .. LastItem) /\ Len(sending') = n
  BY <1>1, <1>2, <1>3
<1>5. SpscTypeOK'
  BY <1>1, <1>2, <1>4 DEF SpscInv, SpscTypeOK
<1>6. UNCHANGED <<Stored, Copied, Read>>
  BY <1>1 DEF Stored, Copied, Read
<1>7. RingInv'
  BY <1>1, <1>2, <1>4, <1>6, Indices DEF SpscInv, RingInv
<1>8. CopiesInv'
  BY <1>1, <1>6 DEF SpscInv, CopiesInv
<1> QED BY <1>5, <1>7, <1>8 DEF SpscInv

LEMMA StartDequeueKeeps ==
  ASSUME SpscInv, NEW n \in 1 .. BatchSize, StartDequeue(n)
  PROVE  SpscInv'
<1>1. /\ readAt = head /\ receiving' = IF Stored < n THEN Stored ELSE n
      /\ UNCHANGED <<head, tail, buffer, sending, writeAt, readAt, items, next, taken>>
  BY DEF StartDequeue, producerVars, Stored
<1>2. n \in Nat /\ n <= BatchSize /\ BatchSize \in Nat /\ Stored \in Nat /\ Read = 0
  BY <1>1, Indices, SpscAssumption
<1>3. receiving' \in 0 .. BatchSize /\ receiving' <= Stored
  BY <1>1, <1>2
<1>4. SpscTypeOK'
  BY <1>1, <1>3 DEF SpscInv, SpscTypeOK
<1>5. UNCHANGED <<Stored, Copied, Read>>
  BY <1>1 DEF Stored, Copied, Read
<1>6. RingInv'
  BY <1>1, <1>2, <1>3, <1>5 DEF SpscInv, RingInv
<1>7. CopiesInv'
  BY <1>1, <1>5 DEF SpscInv, CopiesInv
<1> QED BY <1>4, <1>6, <1>7 DEF SpscInv

(* The cell the producer writes is neither one the consumer has read, nor  *)
(* one that the call has written before.                                   *)
LEMMA WrittenCellIsFree ==
  ASSUME SpscInv, sending # <<>>
  PROVE  /\ \A i \in 1 .. Stored : (head + (i - 1)) % Size # writeAt
         /\ \A i \in 1 .. Copied : (tail + (i - 1)) % Size # writeAt
<1>1. Stored + Copied < Capacity
  BY Indices DEF SpscInv, RingInv
<1>2. ASSUME NEW i \in 1 .. Stored PROVE (head + (i - 1)) % Size # writeAt
  <2>1. i - 1 \in 0 .. Capacity /\ i - 1 # Stored + Copied
    BY <1>1, Indices
  <2>2. Distance(head, (head + (i - 1)) % Size) = i - 1
    BY <2>1, Indices, Offsets
  <2> QED BY <2>1, <2>2, Indices
<1>3. ASSUME NEW i \in 1 .. Copied PROVE (tail + (i - 1)) % Size # writeAt
  <2>1. i - 1 \in 0 .. Capacity /\ i - 1 # Copied
    BY <1>1, Indices
  <2>2. Distance(tail, (tail + (i - 1)) % Size) = i - 1
    BY <2>1, Indices, Offsets
  <2> QED BY <2>1, <2>2 DEF Copied
<1> QED BY <1>2, <1>3

LEMMA WriteCellKeeps ==
  ASSUME SpscInv, WriteCell
  PROVE  SpscInv'
<1>1. /\ sending # <<>> /\ buffer' = [buffer EXCEPT ![writeAt] = Head(sending)]
      /\ sending' = Tail(sending) /\ writeAt' = (writeAt + 1) % Size /\ next' = next + 1
      /\ UNCHANGED <<head, tail, receiving, readAt, items, taken>>
  BY DEF WriteCell, consumerVars
<1>2. /\ sending \in Seq(1 .. LastItem) /\ Head(sending) \in 1 .. LastItem
      /\ sending' \in Seq(1 .. LastItem) /\ Len(sending') = Len(sending) - 1 /\ Len(sending) \in Nat \ {0}
  <2>1. sending \in Seq(1 .. LastItem) /\ sending # <<>>
    BY <1>1 DEF SpscInv, SpscTypeOK
  <2> QED BY <1>1, <2>1, HeadTailProperties, EmptySeq, LenProperties
<1>3. /\ Stored' = Stored /\ Read' = Read /\ Copied' = Copied + 1 /\ writeAt' \in Cells
  <2>1. Copied < Capacity
    BY <1>2, Indices DEF SpscInv, RingInv
  <2>2. (writeAt + 1) % Size \in Cells /\ Distance(tail, (writeAt + 1) % Size) = Distance(tail, writeAt) + 1
    BY <2>1, Indices, NextCell DEF Copied
  <2> QED BY <1>1, <2>2 DEF Stored, Copied, Read
<1>4. SpscTypeOK'
  <2>1. buffer' \in [Cells -> 1 .. LastItem \cup {Garbage}]
    BY <1>1, <1>2 DEF SpscInv, SpscTypeOK
  <2>2. next' \in 1 .. LastItem + 1
    BY <1>1, <1>2, SpscAssumption DEF SpscInv, SpscTypeOK, RingInv
  <2>3. Len(sending') <= BatchSize
    BY <1>2, SpscAssumption DEF SpscInv, SpscTypeOK
  <2> QED BY <1>1, <1>2, <1>3, <2>1, <2>2, <2>3 DEF SpscInv, SpscTypeOK
<1>5. RingInv'
  <2>1. /\ Stored + Copied + Len(sending) <= Capacity /\ Read + receiving <= Stored
        /\ next + Len(sending) <= LastItem + 1
        /\ Stored \in Nat /\ Copied \in Nat /\ next \in Nat
    BY Indices DEF SpscInv, RingInv
  <2>2. /\ Stored + (Copied + 1) + (Len(sending) - 1) <= Capacity
        /\ (next + 1) + (Len(sending) - 1) <= LastItem + 1
    BY <1>2, <2>1
  <2> QED BY <1>1, <1>2, <1>3, <2>1, <2>2 DEF RingInv
<1>6. CopiesInv'
  <2>1. ASSUME NEW i \in 1 .. Read PROVE items[i] = buffer'[(head + (i - 1)) % Size]
    <3>1. i \in 1 .. Stored
      BY Indices DEF SpscInv, RingInv
    <3>2. i - 1 \in 0 .. Size
      BY Indices, Ring
    <3>3. (head + (i - 1)) % Size \in Cells /\ (head + (i - 1)) % Size # writeAt
      BY <1>1, <3>1, <3>2, Indices, Ring, WrittenCellIsFree
    <3> QED BY <1>1, <3>3 DEF SpscInv, SpscTypeOK, CopiesInv
  <2>2. ASSUME NEW i \in 1 .. Copied + 1 PROVE buffer'[(tail + (i - 1)) % Size] \in 1 .. LastItem
    <3>1. CASE i = Copied + 1
      <4>1. i - 1 = Copied
        BY <3>1, Indices
      <4>2. (tail + (i - 1)) % Size = writeAt
        BY <4>1, Indices, Offsets DEF Copied
      <4>3. buffer'[writeAt] = Head(sending)
        BY <1>1, Indices DEF SpscInv, SpscTypeOK
      <4> QED BY <1>2, <4>2, <4>3
    <3>2. CASE i # Copied + 1
      <4>1. i \in 1 .. Copied /\ i - 1 \in 0 .. Size
        <5>1. Copied \in 0 .. Capacity /\ Capacity \in Nat /\ Size = Capacity + 1
          BY Indices, Ring
        <5> QED BY <3>2, <5>1
      <4>2. (tail + (i - 1)) % Size \in Cells /\ (tail + (i - 1)) % Size # writeAt
        <5>1. (tail + (i - 1)) % Size \in Cells
          BY <4>1, Indices, Ring
        <5>2. (tail + (i - 1)) % Size # writeAt
          BY <1>1, <4>1, WrittenCellIsFree
        <5> QED BY <5>1, <5>2
      <4>3. \A x \in Cells : x # writeAt => buffer'[x] = buffer[x]
        BY <1>1 DEF SpscInv, SpscTypeOK
      <4>4. buffer[(tail + (i - 1)) % Size] \in 1 .. LastItem
        BY <4>1 DEF SpscInv, CopiesInv
      <4> QED BY <4>2, <4>3, <4>4
    <3> QED BY <3>1, <3>2
  <2> QED BY <1>1, <1>3, <2>1, <2>2 DEF SpscInv, CopiesInv
<1> QED BY <1>4, <1>5, <1>6 DEF SpscInv

LEMMA StoreTailKeeps ==
  ASSUME SpscInv, StoreTail
  PROVE  SpscInv'
<1>1. /\ sending = <<>> /\ tail' = writeAt
      /\ UNCHANGED <<head, buffer, sending, writeAt, receiving, readAt, items, next, taken>>
  BY DEF StoreTail, consumerVars
<1>2. Stored' = Stored + Copied /\ Copied' = 0 /\ Read' = Read
  BY <1>1, Indices, Offsets DEF Stored, Copied, Read
<1>3. SpscTypeOK'
  BY <1>1 DEF SpscInv, SpscTypeOK
<1>4. RingInv'
  <2>1. /\ Stored + Copied + Len(sending) <= Capacity /\ Read + receiving <= Stored
        /\ next + Len(sending) <= LastItem + 1 /\ Len(sending) \in Nat
        /\ Stored \in Nat /\ Copied \in Nat /\ Read \in Nat /\ receiving \in Nat
    BY Indices DEF SpscInv, RingInv
  <2> QED BY <1>1, <1>2, <2>1, SpscAssumption DEF RingInv
<1>5. CopiesInv'
  BY <1>1, <1>2 DEF SpscInv, CopiesInv
<1> QED BY <1>3, <1>4, <1>5 DEF SpscInv

LEMMA ReadCellKeeps ==
  ASSUME SpscInv, ReadCell
  PROVE  SpscInv'
<1>1. /\ receiving > 0 /\ items' = Append(items, buffer[readAt])
      /\ receiving' = receiving - 1 /\ readAt' = (readAt + 1) % Size
      /\ UNCHANGED <<head, tail, buffer, sending, writeAt, next, taken>>
  BY DEF ReadCell, producerVars
<1>2. /\ Read + receiving <= Stored /\ receiving \in Nat /\ Read \in Nat /\ Stored \in 0 .. Capacity
      /\ receiving \in 0 .. BatchSize /\ Len(items) = Read
      /\ items \in Seq(1 .. LastItem \cup {Garbage}) /\ buffer[readAt] \in 1 .. LastItem \cup {Garbage}
  BY Indices DEF SpscInv, SpscTypeOK, RingInv, CopiesInv
<1>3. /\ Stored' = Stored /\ Copied' = Copied /\ Read' = Read + 1 /\ readAt' \in Cells
  <2>1. Read < Capacity
    BY <1>1, <1>2, SpscAssumption
  <2>2. (readAt + 1) % Size \in Cells /\ Distance(head, (readAt + 1) % Size) = Distance(head, readAt) + 1
    BY <2>1, Indices, NextCell DEF Read
  <2> QED BY <1>1, <2>2 DEF Stored, Copied, Read
<1>4. /\ items' \in Seq(1 .. LastItem \cup {Garbage}) /\ Len(items') = Read + 1
      /\ \A i \in 1 .. Read + 1 : items'[i] = IF i = Read + 1 THEN buffer[readAt] ELSE items[i]
  BY <1>1, <1>2, AppendProperties
<1>5. SpscTypeOK'
  <2>1. receiving' \in 0 .. BatchSize
    BY <1>1, <1>2, SpscAssumption
  <2> QED BY <1>1, <1>3, <1>4, <2>1 DEF SpscInv, SpscTypeOK
<1>6. RingInv'
  <2>1. (Read + 1) + (receiving - 1) <= Stored
    BY <1>2
  <2> QED BY <1>1, <1>3, <2>1 DEF SpscInv, RingInv
<1>7. CopiesInv'
  <2>1. ASSUME NEW i \in 1 .. Read + 1 PROVE items'[i] = buffer[(head + (i - 1)) % Size]
    <3>1. CASE i = Read + 1
      <4>1. i - 1 = Read
        BY <1>2, <3>1
      <4>2. (head + (i - 1)) % Size = readAt
        BY <4>1, Indices, Offsets DEF Read
      <4> QED BY <1>4, <3>1, <4>2
    <3>2. CASE i # Read + 1
      <4>1. i \in 1 .. Read
        BY <1>2, <3>2
      <4> QED BY <1>4, <3>2, <4>1 DEF SpscInv, CopiesInv
    <3> QED BY <3>1, <3>2
  <2> QED BY <1>1, <1>3, <1>4, <2>1 DEF SpscInv, CopiesInv
<1> QED BY <1>5, <1>6, <1>7 DEF SpscInv

(* The space the consumer gives back is behind the cells that remain.      *)
LEMMA Consumed ==
  ASSUME SpscInv, receiving = 0
  PROVE  Distance(readAt, tail) = Stored - Read
<1>1. Read <= Stored /\ Stored \in 0 .. Capacity /\ Read \in 0 .. Capacity /\ Capacity \in Nat
  BY Indices DEF SpscInv, RingInv
<1>2. Size = Capacity + 1 /\ head \in 0 .. Capacity /\ tail \in 0 .. Capacity /\ readAt \in 0 .. Capacity
  BY Indices, Ring DEF Cells
<1>3. /\ Stored = IF head <= tail THEN tail - head ELSE tail + Size - head
      /\ Read = IF head <= readAt THEN readAt - head ELSE readAt + Size - head
      /\ Distance(readAt, tail) = IF readAt <= tail THEN tail - readAt ELSE tail + Size - readAt
  BY Indices, Ring DEF Stored, Read
<1> QED BY <1>1, <1>2, <1>3

LEMMA StoreHeadKeeps ==
  ASSUME SpscInv, StoreHead
  PROVE  SpscInv'
<1>1. /\ receiving = 0 /\ head' = readAt /\ taken' = taken \o items /\ items' = <<>>
      /\ UNCHANGED <<tail, buffer, sending, writeAt, next, receiving, readAt>>
  BY DEF StoreHead, producerVars
<1>2. Stored' = Stored - Read /\ Copied' = Copied /\ Read' = 0
  BY <1>1, Indices, Consumed, Offsets DEF Stored, Copied, Read
<1>3. SpscTypeOK'
  BY <1>1, ConcatProperties DEF SpscInv, SpscTypeOK
<1>4. RingInv'
  <2>1. /\ Stored + Copied + Len(sending) <= Capacity /\ Read + receiving <= Stored
        /\ next + Len(sending) <= LastItem + 1 /\ Len(sending) \in Nat /\ Capacity \in Nat
        /\ Stored \in Nat /\ Copied \in Nat /\ Read \in Nat /\ receiving \in Nat
    BY Indices DEF SpscInv, RingInv
  <2> QED BY <1>1, <1>2, <2>1 DEF RingInv
<1>5. CopiesInv'
  BY <1>1, <1>2 DEF SpscInv, CopiesInv
<1> QED BY <1>3, <1>4, <1>5 DEF SpscInv

LEMMA SpscStep == SpscInv /\ [Next]_vars => SpscInv'
<1> SUFFICES ASSUME SpscInv, [Next]_vars PROVE SpscInv'
  OBVIOUS
<1>1. CASE UNCHANGED vars
  BY <1>1 DEF vars, producerVars, consumerVars, SpscInv, SpscTypeOK, RingInv, CopiesInv, Stored, Copied, Read
<1> QED BY <1>1, StartEnqueueKeeps, StartDequeueKeeps, WriteCellKeeps, StoreTailKeeps, ReadCellKeeps, StoreHeadKeeps
        DEF Next

(* The types of the ring's variables: indices stay on the ring, batches    *)
(* within their size.                                                      *)
THEOREM SpscTypeCorrect == Spec => []SpscTypeOK
<1>1. SpscInv => SpscTypeOK
  BY DEF SpscInv
<1> QED BY <1>1, SpscInit, SpscStep, PTL DEF Spec

(* The two copy loops never touch the same cell, wherever the ring has     *)
(* wrapped and however the calls overlap.                                  *)
THEOREM CopiesNeedNoLock == Spec => []NoSharedCell
<1>1. SpscInv => NoSharedCell
  <2> SUFFICES ASSUME SpscInv, sending # <<>>, receiving > 0 PROVE writeAt # readAt
    BY DEF NoSharedCell
  <2>1. Read + 1 \in 1 .. Stored /\ (Read + 1) - 1 = Read
    BY Indices DEF SpscInv, RingInv
  <2>2. (head + ((Read + 1) - 1)) % Size # writeAt
    BY <2>1, WrittenCellIsFree
  <2>3. (head + Read) % Size = readAt
    BY Indices, Offsets DEF Read
  <2> QED BY <2>1, <2>2, <2>3
<1> QED BY <1>1, SpscInit, SpscStep, PTL DEF Spec

-----------------------------------------------------------------------------
(* The ring implements the FIFO.                                           *)

Values == 1 .. LastItem \cup {Garbage}

(* The cells from h up to t as a sequence. *)
Row(b, h, t) == [i \in 1 .. Distance(h, t) |-> b[(h + i - 1) % Size]]

LEMMA RowType ==
  ASSUME NEW b \in [Cells -> Values], NEW h \in Cells, NEW t \in Cells
  PROVE  /\ Row(b, h, t) \in Seq(Values) /\ Len(Row(b, h, t)) = Distance(h, t)
         /\ \A i \in 1 .. Distance(h, t) : Row(b, h, t)[i] = b[(h + (i - 1)) % Size]
<1>1. Distance(h, t) \in Nat /\ Distance(h, t) <= Capacity
  BY Ring, SpscAssumption
<1>2. ASSUME NEW i \in 1 .. Distance(h, t)
      PROVE  (h + i - 1) % Size = (h + (i - 1)) % Size /\ (h + (i - 1)) % Size \in Cells
  <2>1. h + i - 1 = h + (i - 1) /\ i - 1 \in 0 .. Size
    BY <1>1, Ring, SpscAssumption DEF Cells
  <2> QED BY <2>1, Ring
<1>3. \A i \in 1 .. Distance(h, t) : b[(h + i - 1) % Size] \in Values
  BY <1>2
<1> QED BY <1>1, <1>2, <1>3 DEF Row

(* Counting on from a cell on the way leads to the same cell. *)
LEMMA SameCell ==
  ASSUME NEW i \in Cells, NEW j \in Cells, NEW d \in 0 .. Capacity, Distance(i, j) + d <= Capacity
  PROVE  (j + d) % Size = (i + (Distance(i, j) + d)) % Size
<1>1. d \in 0 .. Size
  BY Ring, SpscAssumption
<1>2. PICK k \in Cells : k = (j + d) % Size
  BY <1>1, Ring
<1>3. Distance(j, k) = d
  BY <1>2, Offsets
<1>4. Distance(i, k) = Distance(i, j) + d
  BY <1>3, Distances
<1>5. (i + Distance(i, k)) % Size = k
  BY Offsets
<1> QED BY <1>2, <1>4, <1>5

LEMMA RingTypes ==
  ASSUME SpscInv
  PROVE  /\ buffer \in [Cells -> Values] /\ items \in Seq(Values) /\ taken \in Seq(Values)
         /\ Contents = Row(buffer, head, tail) /\ Contents \in Seq(Values) /\ Len(Contents) = Stored
         /\ \A i \in 1 .. Stored : Contents[i] = buffer[(head + (i - 1)) % Size]
<1>1. /\ buffer \in [Cells -> Values] /\ items \in Seq(Values) /\ taken \in Seq(Values)
      /\ head \in Cells /\ tail \in Cells
  BY DEF SpscInv, SpscTypeOK, Values
<1>2. Contents = Row(buffer, head, tail)
  BY DEF Contents, Row
<1> QED BY <1>1, <1>2, RowType DEF Stored

LEMMA WriteCellHides ==
  ASSUME SpscInv, WriteCell
  PROVE  Contents' = Contents
<1>1. /\ sending # <<>> /\ buffer' = [buffer EXCEPT ![writeAt] = Head(sending)]
      /\ head' = head /\ tail' = tail
  BY DEF WriteCell, consumerVars
<1>2. ASSUME NEW i \in 1 .. Stored PROVE buffer'[(head + i - 1) % Size] = buffer[(head + i - 1) % Size]
  <2>1. i - 1 \in 0 .. Size /\ head + i - 1 = head + (i - 1)
    <3>1. Stored \in 0 .. Capacity /\ head \in Nat /\ Capacity \in Nat
      BY Indices DEF Cells
    <3>2. Size = Capacity + 1
      BY Ring
    <3> QED BY <3>1, <3>2
  <2>2. (head + (i - 1)) % Size \in Cells
    BY <2>1, Indices, Ring
  <2>3. (head + (i - 1)) % Size # writeAt
    BY <1>1, WrittenCellIsFree
  <2>4. \A x \in Cells : x # writeAt => buffer'[x] = buffer[x]
    BY <1>1, RingTypes
  <2> QED BY <2>1, <2>2, <2>3, <2>4
<1> QED BY <1>1, <1>2 DEF Contents, Stored

(* What the producer has copied.                                           *)
LEMMA StoreTailPuts ==
  ASSUME SpscInv, SpscInv', StoreTail
  PROVE  Fifo!FifoNext
<1>1. /\ writeAt # tail /\ tail' = writeAt /\ UNCHANGED <<head, buffer, taken>>
  BY DEF StoreTail, consumerVars
<1> DEFINE xs == [i \in 1 .. Copied |-> buffer[(tail + (i - 1)) % Size]]
<1>2. /\ Stored \in Nat /\ Copied \in 1 .. Capacity /\ Stored + Copied <= Capacity /\ Capacity \in Nat
  BY <1>1, Indices DEF SpscInv, RingInv
<1>3. xs \in [1 .. Copied -> 1 .. LastItem]
  BY DEF SpscInv, CopiesInv
<1>4. xs \in Seq(Values) /\ Len(xs) = Copied /\ \A i \in 1 .. Copied : xs[i] = buffer[(tail + (i - 1)) % Size]
  BY <1>2, <1>3 DEF Values
<1>5. /\ Contents' \in Seq(Values) /\ Len(Contents') = Stored + Copied
      /\ \A i \in 1 .. Stored + Copied : Contents'[i] = buffer[(head + (i - 1)) % Size]
  <2>1. Distance(head, writeAt) = Stored + Copied
    BY Indices
  <2>2. Contents' = Row(buffer, head, writeAt)
    BY <1>1 DEF Contents, Row
  <2>3. buffer \in [Cells -> Values] /\ head \in Cells /\ tail \in Cells /\ writeAt \in Cells /\ readAt \in Cells
    BY Indices, RingTypes
  <2>4. /\ Row(buffer, head, writeAt) \in Seq(Values) /\ Len(Row(buffer, head, writeAt)) = Distance(head, writeAt)
        /\ \A i \in 1 .. Distance(head, writeAt) : Row(buffer, head, writeAt)[i] = buffer[(head + (i - 1)) % Size]
    BY <2>3, RowType
  <2> QED BY <2>1, <2>2, <2>4, Zenon
<1> HIDE DEF xs
<1>6. /\ Contents \o xs \in Seq(Values) /\ Len(Contents \o xs) = Stored + Copied
      /\ \A i \in 1 .. Stored + Copied :
           (Contents \o xs)[i] = IF i <= Stored THEN Contents[i] ELSE xs[i - Stored]
  <2>1. Contents \in Seq(Values) /\ Len(Contents) = Stored
    BY RingTypes
  <2> QED BY <1>4, <2>1, ConcatProperties
<1>7. ASSUME NEW i \in 1 .. Stored + Copied PROVE Contents'[i] = (Contents \o xs)[i]
  <2>1. CASE i <= Stored
    <3>1. i \in 1 .. Stored
      BY <1>2, <2>1
    <3>2. Contents[i] = buffer[(head + (i - 1)) % Size]
      BY <3>1, RingTypes
    <3> QED BY <1>5, <1>6, <2>1, <3>2
  <2>2. CASE ~(i <= Stored)
    <3>1. /\ i - Stored \in 1 .. Copied /\ i - Stored - 1 \in 0 .. Capacity
          /\ Stored + (i - Stored - 1) <= Capacity /\ Stored + (i - Stored - 1) = i - 1
      BY <1>2, <2>2
    <3>2. (tail + (i - Stored - 1)) % Size = (head + (i - 1)) % Size
      <4> DEFINE d == i - Stored - 1
      <4>1. /\ head \in Cells /\ tail \in Cells /\ d \in 0 .. Capacity
            /\ Distance(head, tail) + d <= Capacity /\ Distance(head, tail) + d = i - 1
        BY <3>1, Indices DEF Stored
      <4> HIDE DEF d
      <4>2. (tail + d) % Size = (head + (Distance(head, tail) + d)) % Size
        BY <4>1, SameCell
      <4> QED BY <4>1, <4>2 DEF d
    <3>3. xs[i - Stored] = buffer[(tail + (i - Stored - 1)) % Size]
      BY <1>4, <3>1
    <3> QED BY <1>5, <1>6, <2>2, <3>2, <3>3
  <2> QED BY <2>1, <2>2
<1>8. Contents' = Contents \o xs
  BY <1>5, <1>6, <1>7, SeqEqual
<1>9. Fifo!Put(xs)
  BY <1>1, <1>2, <1>4, <1>8, RingTypes DEF Fifo!Put
<1> QED BY <1>2, <1>3, <1>9 DEF Fifo!FifoNext

(* What the consumer has copied.                                           *)
LEMMA StoreHeadTakes ==
  ASSUME SpscInv, SpscInv', StoreHead
  PROVE  Fifo!FifoNext
<1>1. /\ receiving = 0 /\ readAt # head /\ head' = readAt /\ taken' = taken \o items
      /\ UNCHANGED <<tail, buffer>>
  BY DEF StoreHead, producerVars
<1>2. Read \in 1 .. Stored /\ Stored \in 0 .. Capacity /\ Capacity \in Nat
  BY <1>1, Indices DEF SpscInv, RingInv
<1>3. /\ SubSeq(Contents, 1, Read) \in Seq(Values) /\ Len(SubSeq(Contents, 1, Read)) = Read
      /\ \A i \in 1 .. Read : SubSeq(Contents, 1, Read)[i] = Contents[i]
  BY <1>2, RingTypes, SubSeqProperties
<1>4. items = SubSeq(Contents, 1, Read)
  <2>1. ASSUME NEW i \in 1 .. Read PROVE items[i] = SubSeq(Contents, 1, Read)[i]
    <3>1. items[i] = buffer[(head + (i - 1)) % Size]
      BY DEF SpscInv, CopiesInv
    <3>2. Contents[i] = buffer[(head + (i - 1)) % Size]
      BY <1>2, RingTypes
    <3> QED BY <1>3, <3>1, <3>2
  <2>2. Len(items) = Read /\ items \in Seq(Values)
    BY RingTypes DEF SpscInv, CopiesInv
  <2> QED BY <1>3, <2>1, <2>2, SeqEqual
<1>5. /\ Contents' \in Seq(Values) /\ Len(Contents') = Stored - Read
      /\ \A i \in 1 .. Stored - Read : Contents'[i] = buffer[(readAt + (i - 1)) % Size]
  <2>1. Distance(readAt, tail) = Stored - Read
    BY <1>1, Consumed
  <2>2. Contents' = Row(buffer, readAt, tail)
    BY <1>1 DEF Contents, Row
  <2>3. buffer \in [Cells -> Values] /\ head \in Cells /\ tail \in Cells /\ writeAt \in Cells /\ readAt \in Cells
    BY Indices, RingTypes
  <2>4. /\ Row(buffer, readAt, tail) \in Seq(Values) /\ Len(Row(buffer, readAt, tail)) = Distance(readAt, tail)
        /\ \A i \in 1 .. Distance(readAt, tail) : Row(buffer, readAt, tail)[i] = buffer[(readAt + (i - 1)) % Size]
    BY <2>3, RowType
  <2> QED BY <2>1, <2>2, <2>4, Zenon
<1>6. /\ SubSeq(Contents, Read + 1, Stored) \in Seq(Values)
      /\ Len(SubSeq(Contents, Read + 1, Stored)) = Stored - Read
      /\ \A i \in 1 .. Stored - Read : SubSeq(Contents, Read + 1, Stored)[i] = Contents[Read + i]
  <2>1. /\ Read + 1 \in Int /\ Stored \in Int
        /\ \A i \in Read + 1 .. Stored : Contents[i] \in Values
    BY <1>2, RingTypes
  <2>2. /\ SubSeq(Contents, Read + 1, Stored) \in Seq(Values)
        /\ Len(SubSeq(Contents, Read + 1, Stored)) = IF Read + 1 <= Stored THEN Stored - (Read + 1) + 1 ELSE 0
        /\ \A i \in 1 .. Stored - (Read + 1) + 1 : SubSeq(Contents, Read + 1, Stored)[i] = Contents[(Read + 1) + i - 1]
    BY <2>1, SubSeqProperties
  <2>3. Stored - (Read + 1) + 1 = Stored - Read /\ \A i \in 1 .. Stored - Read : (Read + 1) + i - 1 = Read + i
    BY <1>2
  <2> QED BY <1>2, <2>2, <2>3
<1>7. ASSUME NEW i \in 1 .. Stored - Read
      PROVE  Contents'[i] = SubSeq(Contents, Read + 1, Stored)[i]
  <2>1. /\ i - 1 \in 0 .. Capacity /\ Read + (i - 1) <= Capacity
        /\ Read + i \in 1 .. Stored /\ (Read + i) - 1 = Read + (i - 1)
    BY <1>2
  <2>2. (readAt + (i - 1)) % Size = (head + (Read + (i - 1))) % Size
    BY <2>1, Indices, SameCell DEF Read
  <2>3. Contents[Read + i] = buffer[(head + ((Read + i) - 1)) % Size]
    BY <2>1, RingTypes
  <2> QED BY <1>5, <1>6, <2>1, <2>2, <2>3
<1>8. Contents' = SubSeq(Contents, Read + 1, Stored)
  BY <1>5, <1>6, <1>7, SeqEqual
<1>9. Fifo!Take(Read)
  BY <1>1, <1>4, <1>8, RingTypes DEF Fifo!Take
<1> QED BY <1>2, <1>9, RingTypes DEF Fifo!FifoNext

LEMMA RingStep == SpscInv /\ SpscInv' /\ [Next]_vars => [Fifo!FifoNext]_Fifo!fifoVars
<1> SUFFICES ASSUME SpscInv, SpscInv', [Next]_vars PROVE Fifo!FifoNext \/ UNCHANGED <<Contents, taken>>
  BY DEF Fifo!fifoVars
<1>1. CASE \E n \in 1 .. BatchSize : StartEnqueue(n) \/ StartDequeue(n)
  BY <1>1 DEF StartEnqueue, StartDequeue, producerVars, consumerVars, Contents
<1>2. CASE WriteCell
  BY <1>2, WriteCellHides DEF WriteCell, consumerVars
<1>3. CASE ReadCell
  BY <1>3 DEF ReadCell, producerVars, Contents
<1>4. CASE UNCHANGED vars
  BY <1>4 DEF vars, producerVars, consumerVars, Contents
<1> QED BY <1>1, <1>2, <1>3, <1>4, StoreTailPuts, StoreHeadTakes DEF Next

(* The ring is a bounded FIFO: what a call of the producer stores appears  *)
(* as a whole when tail_ is stored, what a call of the consumer takes      *)
(* disappears as a whole and in order when head_ is.                       *)
THEOREM RingIsFifo == Spec => ImplementsFifo
<1>1. Init => Fifo!FifoInit
  <2> SUFFICES ASSUME Init PROVE Contents = <<>> /\ taken = <<>>
    BY DEF Fifo!FifoInit
  <2>1. SpscInv /\ Stored = 0
    BY SpscInit, Offsets, SpscAssumption DEF Init, Stored, Cells
  <2>2. Contents \in Seq(Values) /\ Len(Contents) = 0
    BY <2>1, RingTypes
  <2> QED BY <2>2 DEF Init
<1> QED BY <1>1, SpscInit, SpscStep, RingStep, PTL DEF Spec, ImplementsFifo, Fifo!FifoSpec

=============================================================================
