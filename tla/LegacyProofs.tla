---------------------------- MODULE LegacyProofs ----------------------------
(***************************************************************************)
(* Proofs about the first engine, for any number of workers, callers and   *)
(* drains and any capacities and batch sizes.                              *)
(***************************************************************************)
EXTENDS LegacyEngine, SequenceTheorems, FiniteSetTheorems, TLAPS

Entries == Requests \cup {Barrier}

(* What a worker has got and not finished.                                 *)
Line(w) == batch[w] \o sq[w]
InLine(w, x) == \E j \in 1 .. Len(Line(w)) : Line(w)[j] = x

(* How many of the admitted requests the dispatcher is done with.          *)
Routed == Len(admitted) - Len(queue) - Len(buffer)

LegacyTypes ==
  /\ running \in BOOLEAN /\ stopAt \in {"up", "dispatcher", "workers", "stopped"}
  /\ todo \in [Callers -> Seq(Requests)] /\ callerAt \in [Callers -> {"idle", "checked"}]
  /\ admitted \in Seq(Entries) /\ queue \in Seq(Entries) /\ buffer \in Seq(Entries)
  /\ dispatcherAt \in {"check", "pop", "route", "push", "fan", "exited"}
  /\ fanTo \in Workers
  /\ sq \in [Workers -> Seq(Entries)] /\ batch \in [Workers -> Seq(Entries)]
  /\ workerRunning \in [Workers -> BOOLEAN]
  /\ workerAt \in [Workers -> {"poll", "empty", "recheck", "exited", "process", "answer"}]
  /\ drainAt \in [Drainers -> {"out", "inject", "wait", "drained", "ignored"}]
  /\ inside \in BOOLEAN /\ barrierCount \in Nat
  /\ mark \in [Drainers \cup {"stop"} -> Nat]

(* A worker has a batch just when it processes one.                        *)
WorkerOk(w) ==
  /\ batch[w] = <<>> <=> workerAt[w] \notin {"process", "answer"}
  /\ workerAt[w] = "answer" => Head(batch[w]) # Barrier

(* The path to the workers is a part of what was admitted, in its order.   *)
PathInv ==
  /\ LegacyTypes
  /\ \A c \in Callers : callerAt[c] = "checked" => todo[c] # <<>>
  /\ Routed \in Nat
  /\ \A i \in 1 .. Len(buffer) : buffer[i] = admitted[Routed + i]
  /\ \A i \in 1 .. Len(queue) : queue[i] = admitted[Routed + Len(buffer) + i]
  /\ dispatcherAt \in {"route", "push", "fan"} => buffer # <<>>
  /\ dispatcherAt \in {"check", "exited"} => buffer = <<>>
  /\ dispatcherAt = "push" => Head(buffer) # Barrier
  /\ dispatcherAt = "fan" => Head(buffer) = Barrier
  /\ \A w \in Workers : WorkerOk(w)
  /\ \A d \in Drainers \cup {"stop"} : mark[d] <= Len(admitted)

-----------------------------------------------------------------------------
(* The path.                                                               *)

LEMMA LegacyInit == Init => PathInv
<1> SUFFICES ASSUME Init PROVE PathInv
  OBVIOUS
<1>1. <<>> \in Seq(Entries) /\ Len(<<>>) = 0
  OBVIOUS
<1>2. LegacyTypes
  <2>1. todo \in [Callers -> Seq(Requests)] /\ barrierCount \in Nat /\ mark \in [Drainers \cup {"stop"} -> Nat]
    BY LegacyAssumption DEF Init
  <2>2. fanTo \in Workers
    BY LegacyAssumption DEF Init, Workers
  <2>3. /\ admitted \in Seq(Entries) /\ queue \in Seq(Entries) /\ buffer \in Seq(Entries)
        /\ sq \in [Workers -> Seq(Entries)] /\ batch \in [Workers -> Seq(Entries)]
    BY <1>1 DEF Init
  <2> QED BY <2>1, <2>2, <2>3 DEF Init, LegacyTypes
<1>3. Routed = 0 /\ Len(buffer) = 0 /\ Len(queue) = 0 /\ Len(admitted) = 0
  <2>1. buffer = <<>> /\ queue = <<>> /\ admitted = <<>>
    BY DEF Init
  <2>2. Len(buffer) = 0 /\ Len(queue) = 0 /\ Len(admitted) = 0
    BY <1>1, <2>1
  <2> QED BY <2>2 DEF Routed
<1>4. 1 .. Len(buffer) = {} /\ 1 .. Len(queue) = {}
  BY <1>3
<1>5. \A d \in Drainers \cup {"stop"} : mark[d] = 0
  BY DEF Init
<1>6. buffer = <<>> /\ dispatcherAt = "check" /\ \A w \in Workers : batch[w] = <<>> /\ workerAt[w] = "poll"
  BY DEF Init
<1>7. \A c \in Callers : callerAt[c] = "idle"
  BY DEF Init
<1>8. Routed \in Nat /\ Len(admitted) = 0
  BY <1>3
<1>9. \A d \in Drainers \cup {"stop"} : mark[d] <= Len(admitted)
  BY <1>5, <1>8
<1> HIDE DEF Routed
<1> QED BY <1>2, <1>4, <1>6, <1>7, <1>8, <1>9 DEF PathInv, WorkerOk

LEMMA PutKeepsPath ==
  ASSUME PathInv, NEW x \in Entries, Put(x), UNCHANGED buffer
  PROVE  /\ admitted' \in Seq(Entries) /\ queue' \in Seq(Entries)
         /\ Routed' = Routed /\ Len(admitted') = Len(admitted) + 1
         /\ \A i \in 1 .. Len(admitted) : admitted'[i] = admitted[i]
         /\ admitted'[Len(admitted) + 1] = x
         /\ \A i \in 1 .. Len(buffer') : buffer'[i] = admitted'[Routed' + i]
         /\ \A i \in 1 .. Len(queue') : queue'[i] = admitted'[Routed' + Len(buffer') + i]
<1>1. admitted \in Seq(Entries) /\ queue \in Seq(Entries) /\ buffer \in Seq(Entries) /\ Routed \in Nat
  BY DEF PathInv, LegacyTypes
<1>2. Len(admitted) \in Nat /\ Len(queue) \in Nat /\ Len(buffer) \in Nat
  BY <1>1, LenProperties
<1>3. /\ admitted' \in Seq(Entries) /\ Len(admitted') = Len(admitted) + 1
      /\ \A i \in 1 .. Len(admitted) : admitted'[i] = admitted[i]
      /\ admitted'[Len(admitted) + 1] = x
  BY <1>1, AppendProperties DEF Put
<1>4. /\ queue' \in Seq(Entries) /\ Len(queue') = Len(queue) + 1
      /\ \A i \in 1 .. Len(queue) : queue'[i] = queue[i]
      /\ queue'[Len(queue) + 1] = x
  BY <1>1, AppendProperties DEF Put
<1>5. Routed' = Routed /\ Routed + Len(buffer) + Len(queue) = Len(admitted)
  BY <1>2, <1>3, <1>4 DEF Routed
<1>6. \A i \in 1 .. Len(buffer') : buffer'[i] = admitted'[Routed' + i]
  <2>1. \A i \in 1 .. Len(buffer) : Routed + i \in 1 .. Len(admitted)
    BY <1>1, <1>2, <1>5
  <2> QED BY <1>3, <1>5, <2>1 DEF PathInv
<1>7. ASSUME NEW i \in 1 .. Len(queue') PROVE queue'[i] = admitted'[Routed' + Len(buffer') + i]
  <2>0. i \in Nat /\ i >= 1 /\ i <= Len(queue) + 1 /\ buffer' = buffer
    BY <1>2, <1>4
  <2>1. CASE i <= Len(queue)
    <3>1. i \in 1 .. Len(queue) /\ Routed + Len(buffer) + i \in 1 .. Len(admitted)
      BY <1>1, <1>2, <1>5, <2>0, <2>1
    <3> QED BY <1>3, <1>4, <1>5, <2>0, <3>1 DEF PathInv
  <2>2. CASE i = Len(queue) + 1
    <3>1. Routed + Len(buffer) + i = Len(admitted) + 1
      BY <1>1, <1>2, <1>5, <2>2
    <3> QED BY <1>3, <1>4, <1>5, <2>0, <2>2, <3>1
  <2> QED BY <1>2, <2>0, <2>1, <2>2
<1> QED BY <1>3, <1>4, <1>5, <1>6, <1>7

LEMMA PopKeepsPath ==
  ASSUME PathInv, queue # <<>>, buffer' = Append(buffer, Head(queue)), queue' = Tail(queue), UNCHANGED admitted
  PROVE  /\ buffer' \in Seq(Entries) /\ queue' \in Seq(Entries) /\ buffer' # <<>>
         /\ Routed' = Routed
         /\ \A i \in 1 .. Len(buffer') : buffer'[i] = admitted'[Routed' + i]
         /\ \A i \in 1 .. Len(queue') : queue'[i] = admitted'[Routed' + Len(buffer') + i]
<1>1. admitted \in Seq(Entries) /\ queue \in Seq(Entries) /\ buffer \in Seq(Entries) /\ Routed \in Nat
  BY DEF PathInv, LegacyTypes
<1>2. Len(admitted) \in Nat /\ Len(queue) \in Nat \ {0} /\ Len(buffer) \in Nat
  BY <1>1, LenProperties, EmptySeq
<1>3. /\ Head(queue) \in Entries /\ Head(queue) = queue[1]
      /\ queue' \in Seq(Entries) /\ Len(queue') = Len(queue) - 1
      /\ \A i \in 1 .. Len(queue') : queue'[i] = queue[i + 1]
  BY <1>1, HeadTailProperties
<1>4. /\ buffer' \in Seq(Entries) /\ buffer' # <<>> /\ Len(buffer') = Len(buffer) + 1
      /\ \A i \in 1 .. Len(buffer) : buffer'[i] = buffer[i]
      /\ buffer'[Len(buffer) + 1] = queue[1]
  BY <1>1, <1>3, AppendProperties
<1>5. Routed' = Routed
  BY <1>2, <1>3, <1>4 DEF Routed
<1>6. ASSUME NEW i \in 1 .. Len(buffer') PROVE buffer'[i] = admitted'[Routed' + i]
  <2>1. CASE i <= Len(buffer)
    BY <1>2, <1>4, <1>5, <2>1 DEF PathInv
  <2>2. CASE i = Len(buffer) + 1
    BY <1>1, <1>2, <1>4, <1>5, <2>2 DEF PathInv
  <2> QED BY <1>2, <1>4, <2>1, <2>2
<1>7. ASSUME NEW i \in 1 .. Len(queue') PROVE queue'[i] = admitted'[Routed' + Len(buffer') + i]
  BY <1>1, <1>2, <1>3, <1>4, <1>5 DEF PathInv
<1> QED BY <1>3, <1>4, <1>5, <1>6, <1>7

LEMMA RouteKeepsPath ==
  ASSUME PathInv, buffer # <<>>, buffer' = Tail(buffer), UNCHANGED <<queue, admitted>>
  PROVE  /\ buffer' \in Seq(Entries)
         /\ Routed' = Routed + 1 /\ Head(buffer) = admitted[Routed + 1]
         /\ Routed + 1 <= Len(admitted)
         /\ \A i \in 1 .. Len(buffer') : buffer'[i] = admitted'[Routed' + i]
         /\ \A i \in 1 .. Len(queue') : queue'[i] = admitted'[Routed' + Len(buffer') + i]
<1>1. admitted \in Seq(Entries) /\ queue \in Seq(Entries) /\ buffer \in Seq(Entries) /\ Routed \in Nat
  BY DEF PathInv, LegacyTypes
<1>2. Len(admitted) \in Nat /\ Len(queue) \in Nat /\ Len(buffer) \in Nat \ {0}
  BY <1>1, LenProperties, EmptySeq
<1>3. /\ Head(buffer) = buffer[1]
      /\ buffer' \in Seq(Entries) /\ Len(buffer') = Len(buffer) - 1
      /\ \A i \in 1 .. Len(buffer') : buffer'[i] = buffer[i + 1]
  BY <1>1, HeadTailProperties
<1>4. Routed' = Routed + 1 /\ Routed + 1 <= Len(admitted) /\ Routed' + Len(buffer') = Routed + Len(buffer)
  BY <1>2, <1>3 DEF Routed
<1>5. Head(buffer) = admitted[Routed + 1]
  BY <1>2, <1>3 DEF PathInv
<1>6. ASSUME NEW i \in 1 .. Len(buffer') PROVE buffer'[i] = admitted'[Routed' + i]
  <2>1. i + 1 \in 1 .. Len(buffer) /\ Routed + (i + 1) = Routed' + i
    BY <1>1, <1>2, <1>3, <1>4
  <2> QED BY <1>3, <2>1 DEF PathInv
<1>7. ASSUME NEW i \in 1 .. Len(queue') PROVE queue'[i] = admitted'[Routed' + Len(buffer') + i]
  BY <1>4 DEF PathInv
<1> QED BY <1>3, <1>4, <1>5, <1>6, <1>7

(* What is left of a caller's requests is a part of them.                  *)
LEMMA RestIsSuffix ==
  ASSUME NEW c \in Callers, todo[c] \in Seq(Requests), todo[c] # <<>>
  PROVE  \E n \in 1 .. Len(todo[c]) : Rest(c) = SubSeq(todo[c], n + 1, Len(todo[c]))
<1> DEFINE s == todo[c]
<1> DEFINE inBatch == {i \in DOMAIN s : \A j \in 1 .. i : s[j] \in Batched}
<1>1. Len(s) \in Nat \ {0} /\ DOMAIN s = 1 .. Len(s) /\ Head(s) = s[1]
  BY EmptySeq, LenProperties
<1>2. IsFiniteSet(1 .. Len(s)) /\ Cardinality(1 .. Len(s)) = Len(s)
  BY <1>1, FS_Interval
<1>3. IsFiniteSet(inBatch) /\ Cardinality(inBatch) <= Len(s) /\ Cardinality(inBatch) \in Nat
  BY <1>1, <1>2, FS_Subset, FS_CardinalityType
<1>4. CASE Head(s) \in Batched
  <2>1. 1 \in inBatch
    BY <1>1, <1>4
  <2>2. Cardinality(inBatch) # 0
    BY <1>3, <2>1, FS_EmptySet
  <2>3. Rest(c) = SubSeq(s, Cardinality(inBatch) + 1, Len(s))
    BY <1>4 DEF Rest, BatchLength
  <2>4. Cardinality(inBatch) \in 1 .. Len(s)
    <3> HIDE DEF inBatch
    <3> QED BY <1>1, <1>3, <2>2
  <2> QED BY <2>3, <2>4
<1>5. CASE Head(s) \notin Batched
  BY <1>1, <1>5 DEF Rest
<1> QED BY <1>4, <1>5

LEMMA SuffixIsSeq ==
  ASSUME NEW S, NEW s \in Seq(S), NEW n \in 1 .. Len(s)
  PROVE  /\ SubSeq(s, n + 1, Len(s)) \in Seq(S)
         /\ Len(SubSeq(s, n + 1, Len(s))) = Len(s) - n
         /\ \A i \in 1 .. Len(s) - n : SubSeq(s, n + 1, Len(s))[i] = s[n + i]
<1>1. Len(s) \in Nat
  BY LenProperties
<1>2. \A i \in n + 1 .. Len(s) : s[i] \in S
  BY <1>1, ElementOfSeq
<1> QED BY <1>1, <1>2, SubSeqProperties

(* What a call does.                                                       *)
CallerQuiet ==
  UNCHANGED <<dispatcherAt, buffer, fanTo, check, dropped, sq, batch, workerAt, finished, running,
              stopAt, workerRunning, drainAt, inside, barrierCount, mark>>

Shortens(c) ==
  /\ todo[c] # <<>>
  /\ \E n \in 1 .. Len(todo[c]) : todo' = [todo EXCEPT ![c] = SubSeq(todo[c], n + 1, Len(todo[c]))]

LEMMA CallEffect ==
  ASSUME LegacyTypes, NEW c \in Callers, callerAt[c] = "checked" => todo[c] # <<>>,
         CheckAdmission(c) \/ TryEnqueue(c)
  PROVE  /\ CallerQuiet
         /\ callerAt' \in [Callers -> {"idle", "checked"}]
         /\ \/ UNCHANGED <<queue, admitted, todo>>
            \/ UNCHANGED <<queue, admitted>> /\ Shortens(c)
            \/ /\ todo[c] # <<>> /\ Head(todo[c]) \in Requests /\ Put(Head(todo[c]))
               /\ todo' = [todo EXCEPT ![c] = Tail(todo[c])]
         /\ \A d \in Callers : callerAt'[d] = "checked" => todo'[d] # <<>> \/ (d # c /\ callerAt[d] = "checked")
<1>1. todo[c] # <<>> /\ todo \in [Callers -> Seq(Requests)] /\ callerAt \in [Callers -> {"idle", "checked"}]
  BY DEF LegacyTypes, CheckAdmission, TryEnqueue
<1>2. CallerQuiet
  BY DEF CheckAdmission, TryEnqueue, CallerUnchanged, CallerQuiet, dispatcherVars, workerVars, stopVars, drainVars
<1>3. PICK n \in 1 .. Len(todo[c]) : Rest(c) = SubSeq(todo[c], n + 1, Len(todo[c]))
  BY <1>1, RestIsSuffix
<1>4. todo' = [todo EXCEPT ![c] = Rest(c)] => Shortens(c)
  BY <1>1, <1>3 DEF Shortens
<1>5. CASE CheckAdmission(c)
  BY <1>1, <1>2, <1>4, <1>5 DEF CheckAdmission
<1>6. CASE TryEnqueue(c)
  <2>1. Head(todo[c]) \in Requests
    BY <1>1, HeadTailProperties
  <2>2. callerAt' = [callerAt EXCEPT ![c] = IF todo'[c] = Rest(c) THEN "idle" ELSE "checked"]
    BY <1>6 DEF TryEnqueue
  <2>3. \/ Put(Head(todo[c])) /\ todo' = [todo EXCEPT ![c] = Tail(todo[c])]
        \/ UNCHANGED <<queue, admitted>> /\ todo' = [todo EXCEPT ![c] = Rest(c)]
    BY <1>6 DEF TryEnqueue
  <2>4. ASSUME todo'[c] = <<>> PROVE callerAt'[c] # "checked"
    <3>1. todo'[c] = Rest(c) \/ todo'[c] = Tail(todo[c])
      BY <1>1, <2>3
    <3>2. CASE todo'[c] = Tail(todo[c])
      <4>1. Len(todo[c]) = 1
        <5>1. todo[c] \in Seq(Requests) /\ todo[c] # <<>> /\ Tail(todo[c]) = <<>>
          BY <1>1, <2>4, <3>2
        <5>2. Len(Tail(todo[c])) = Len(todo[c]) - 1 /\ Len(todo[c]) \in Nat
          BY <5>1, HeadTailProperties, LenProperties
        <5>3. \A t : t = <<>> => Len(t) = 0
          OBVIOUS
        <5>4. Len(Tail(todo[c])) = 0
          BY <5>1, <5>3, Zenon
        <5> QED BY <5>2, <5>4
      <4>2. n + 1 \in Int /\ Len(todo[c]) \in Int /\ Len(todo[c]) < n + 1
        BY <4>1
      <4>3. SubSeq(todo[c], n + 1, Len(todo[c])) = <<>>
        BY <4>2, SubSeqEmpty
      <4>4. todo'[c] = Rest(c)
        BY <1>3, <2>4, <4>3
      <4>5. callerAt'[c] = "idle"
        BY <1>1, <2>2, <4>4
      <4> QED BY <4>5
    <3> QED BY <1>1, <2>2, <3>1, <3>2
  <2> QED BY <1>1, <1>2, <1>4, <2>1, <2>2, <2>3, <2>4
<1> QED BY <1>5, <1>6

-----------------------------------------------------------------------------
(* What the steps do to the lines of the workers.                          *)

LinesKept == \A v \in Workers : Line(v)' = Line(v)

AppendsTo(w, x) ==
  /\ Line(w)' = Append(Line(w), x)
  /\ \A v \in Workers : v # w => Line(v)' = Line(v)

Advances(w) ==
  /\ Line(w) # <<>> /\ Line(w)' = Tail(Line(w))
  /\ \A v \in Workers : v # w => Line(v)' = Line(v)
  /\ finished' = finished \cup {Head(Line(w))}
  /\ barrierCount' = IF Head(Line(w)) = Barrier THEN barrierCount + 1 ELSE barrierCount

LEMMA LineType == LegacyTypes => \A w \in Workers : Line(w) \in Seq(Entries)
BY ConcatProperties DEF LegacyTypes, Line

LEMMA PushEffect ==
  ASSUME LegacyTypes, NEW w \in Workers, NEW x \in Entries, PushTo(w, x), UNCHANGED batch
  PROVE  /\ sq' \in [Workers -> Seq(Entries)]
         /\ \A v \in Workers : v # w => sq'[v] = sq[v]
         /\ \/ AppendsTo(w, x) /\ UNCHANGED dropped
            \/ LinesKept /\ ~running /\ dropped' = dropped \cup {x} /\ UNCHANGED sq
<1>1. sq \in [Workers -> Seq(Entries)] /\ batch \in [Workers -> Seq(Entries)]
  BY DEF LegacyTypes
<1>2. CASE Len(sq[w]) < SqCap /\ sq' = [sq EXCEPT ![w] = Append(@, x)] /\ UNCHANGED dropped
  <2>1. sq'[w] = Append(sq[w], x) /\ Append(sq[w], x) \in Seq(Entries)
    BY <1>1, <1>2, AppendProperties
  <2>2. batch[w] \o Append(sq[w], x) = Append(batch[w] \o sq[w], x)
    <3>1. /\ Append(sq[w], x) = sq[w] \o <<x>> /\ <<x>> \in Seq(Entries)
          /\ batch[w] \o sq[w] \in Seq(Entries)
      BY <1>1, AppendIsConcat, ConcatProperties
    <3>2. Append(batch[w] \o sq[w], x) = (batch[w] \o sq[w]) \o <<x>>
      BY <3>1, AppendIsConcat
    <3>3. (batch[w] \o sq[w]) \o <<x>> = batch[w] \o (sq[w] \o <<x>>)
      BY <1>1, <3>1, ConcatAssociative
    <3> QED BY <3>1, <3>2, <3>3
  <2>3. \A v \in Workers : v # w => sq'[v] = sq[v]
    BY <1>1, <1>2
  <2>4. sq' \in [Workers -> Seq(Entries)]
    BY <1>1, <1>2, <2>1
  <2>5. batch' = batch
    OBVIOUS
  <2> QED BY <1>2, <2>1, <2>2, <2>3, <2>4, <2>5 DEF AppendsTo, Line
<1>3. CASE Len(sq[w]) = SqCap /\ ~running /\ dropped' = dropped \cup {x} /\ UNCHANGED sq
  BY <1>1, <1>3 DEF LinesKept, Line
<1> QED BY <1>2, <1>3 DEF PushTo

LEMMA HeadOfLine ==
  ASSUME LegacyTypes, NEW w \in Workers, batch[w] # <<>>
  PROVE  /\ Line(w) # <<>> /\ Head(Line(w)) = Head(batch[w]) /\ Tail(batch[w]) \in Seq(Entries)
         /\ Head(batch[w]) \in Entries /\ Tail(Line(w)) = Tail(batch[w]) \o sq[w]
<1> DEFINE s == sq[w]  b == batch[w]
<1>1. s \in Seq(Entries) /\ b \in Seq(Entries) /\ Line(w) = b \o s
  BY DEF LegacyTypes, Line
<1> HIDE DEF s, b
<1>2. b # <<>>
  BY DEF b
<1>3. /\ Head(b) \in Entries /\ Tail(b) \in Seq(Entries) /\ <<Head(b)>> \in Seq(Entries)
      /\ Len(b) \in Nat \ {0} /\ Len(Tail(b)) = Len(b) - 1 /\ Head(b) = b[1]
      /\ \A i \in 1 .. Len(Tail(b)) : Tail(b)[i] = b[i + 1]
  BY <1>1, <1>2, HeadTailProperties, EmptySeq
<1>4. Len(s) \in Nat
  BY <1>1, LenProperties
<1>5. /\ b \o s \in Seq(Entries) /\ Len(b \o s) = Len(b) + Len(s)
      /\ \A i \in 1 .. Len(b) + Len(s) : (b \o s)[i] = IF i <= Len(b) THEN b[i] ELSE s[i - Len(b)]
  BY <1>1, ConcatProperties
<1>6. b \o s # <<>>
  BY <1>1, <1>2, ConcatEqualIffEmpty, ConcatSimplifications
<1>7. /\ Tail(b \o s) \in Seq(Entries) /\ Len(Tail(b \o s)) = Len(b \o s) - 1 /\ Head(b \o s) = (b \o s)[1]
      /\ \A i \in 1 .. Len(Tail(b \o s)) : Tail(b \o s)[i] = (b \o s)[i + 1]
  BY <1>5, <1>6, HeadTailProperties
<1>8. /\ Tail(b) \o s \in Seq(Entries) /\ Len(Tail(b) \o s) = Len(Tail(b)) + Len(s)
      /\ \A i \in 1 .. Len(Tail(b)) + Len(s) :
           (Tail(b) \o s)[i] = IF i <= Len(Tail(b)) THEN Tail(b)[i] ELSE s[i - Len(Tail(b))]
  BY <1>1, <1>3, ConcatProperties
<1>9. Tail(b \o s) = Tail(b) \o s
  <2>1. Len(Tail(b \o s)) = Len(Tail(b) \o s)
    BY <1>3, <1>4, <1>5, <1>7, <1>8
  <2>2. ASSUME NEW i \in 1 .. Len(Tail(b \o s)) PROVE Tail(b \o s)[i] = (Tail(b) \o s)[i]
    <3>1. i \in 1 .. Len(Tail(b)) + Len(s) /\ i + 1 \in 1 .. Len(b) + Len(s)
      BY <1>3, <1>4, <1>5, <1>7, <2>2
    <3>2. Tail(b \o s)[i] = IF i + 1 <= Len(b) THEN b[i + 1] ELSE s[(i + 1) - Len(b)]
      BY <1>5, <1>7, <2>2, <3>1
    <3>3. (Tail(b) \o s)[i] = IF i <= Len(Tail(b)) THEN b[i + 1] ELSE s[i - Len(Tail(b))]
      BY <1>3, <1>8, <3>1
    <3>4. (i + 1 <= Len(b) <=> i <= Len(Tail(b))) /\ (i + 1) - Len(b) = i - Len(Tail(b))
      BY <1>3, <3>1
    <3> QED BY <3>2, <3>3, <3>4
  <2> QED BY <1>7, <1>8, <2>1, <2>2, SeqEqual
<1>10. Head(b \o s) = Head(b)
  BY <1>3, <1>4, <1>5, <1>7
<1> QED BY <1>1, <1>3, <1>6, <1>9, <1>10 DEF b, s

(* Taking a batch moves requests within the line.                          *)
LEMMA TakeMoves ==
  ASSUME NEW S, NEW s \in Seq(S), NEW n \in 0 .. Len(s)
  PROVE  /\ SubSeq(s, 1, n) \in Seq(S) /\ SubSeq(s, n + 1, Len(s)) \in Seq(S)
         /\ SubSeq(s, 1, n) \o SubSeq(s, n + 1, Len(s)) = <<>> \o s
         /\ n > 0 => SubSeq(s, 1, n) # <<>>
<1>1. Len(s) \in Nat /\ \A i \in 1 .. Len(s) : s[i] \in S
  BY LenProperties, ElementOfSeq
<1>2. SubSeq(s, 1, n) \in Seq(S) /\ SubSeq(s, n + 1, Len(s)) \in Seq(S) /\ Len(SubSeq(s, 1, n)) = n
  BY <1>1, SubSeqProperties
<1>3. 1 \in 1 .. Len(s) + 1 /\ n \in 1 - 1 .. Len(s) /\ Len(s) \in n .. Len(s)
  BY <1>1
<1>4. SubSeq(s, 1, n) \o SubSeq(s, n + 1, Len(s)) = SubSeq(s, 1, Len(s))
  BY <1>3, ConcatAdjacentSubSeq
<1>5. \A t : t = <<>> => Len(t) = 0
  OBVIOUS
<1>6. n > 0 => SubSeq(s, 1, n) # <<>>
  <2>1. SubSeq(s, 1, n) = <<>> => Len(SubSeq(s, 1, n)) = 0
    BY <1>5, Zenon
  <2> QED BY <1>2, <2>1
<1>7. SubSeq(s, 1, Len(s)) = <<>> \o s
  BY SubSeqFull, ConcatEmptySeq
<1> QED BY <1>2, <1>4, <1>6, <1>7

LEMMA WorkEffect ==
  ASSUME PathInv, NEW w \in Workers, Work(w)
  PROVE  /\ sq' \in [Workers -> Seq(Entries)] /\ batch' \in [Workers -> Seq(Entries)]
         /\ workerAt' \in [Workers -> {"poll", "empty", "recheck", "exited", "process", "answer"}]
         /\ barrierCount' \in Nat
         /\ \A v \in Workers : WorkerOk(v)'
         /\ \A v \in Workers : v # w => workerAt'[v] = workerAt[v] /\ sq'[v] = sq[v]
         /\ \/ LinesKept /\ UNCHANGED <<finished, barrierCount>>
            \/ Advances(w)
<1>0. /\ LegacyTypes /\ sq \in [Workers -> Seq(Entries)] /\ batch \in [Workers -> Seq(Entries)]
      /\ workerAt \in [Workers -> {"poll", "empty", "recheck", "exited", "process", "answer"}]
      /\ barrierCount \in Nat
      /\ \A v \in Workers : WorkerOk(v)
  BY DEF PathInv, LegacyTypes
<1>1. ASSUME UNCHANGED <<sq, batch, finished, barrierCount>>, NEW there \in {"poll", "empty", "recheck", "exited", "process", "answer"},
             WorkerGoes(w, there), there \in {"process", "answer"} <=> workerAt[w] \in {"process", "answer"},
             there = "answer" => Head(batch[w]) # Barrier
      PROVE  /\ workerAt' \in [Workers -> {"poll", "empty", "recheck", "exited", "process", "answer"}]
             /\ \A v \in Workers : WorkerOk(v)'
             /\ \A v \in Workers : v # w => workerAt'[v] = workerAt[v]
             /\ LinesKept
  BY <1>0, <1>1 DEF WorkerGoes, WorkerOk, LinesKept, Line
<1>2. ASSUME Done(w), batch[w] # <<>>, UNCHANGED sq,
             barrierCount' = IF Head(batch[w]) = Barrier THEN barrierCount + 1 ELSE barrierCount
      PROVE  /\ batch' \in [Workers -> Seq(Entries)]
             /\ workerAt' \in [Workers -> {"poll", "empty", "recheck", "exited", "process", "answer"}]
             /\ barrierCount' \in Nat
             /\ \A v \in Workers : WorkerOk(v)'
             /\ \A v \in Workers : v # w => workerAt'[v] = workerAt[v]
             /\ Advances(w)
  <2>1. /\ Line(w) # <<>> /\ Head(Line(w)) = Head(batch[w]) /\ Tail(batch[w]) \in Seq(Entries)
        /\ Tail(Line(w)) = Tail(batch[w]) \o sq[w]
    BY <1>0, <1>2, HeadOfLine
  <2>2. /\ batch' \in [Workers -> Seq(Entries)] /\ batch'[w] = Tail(batch[w])
        /\ \A v \in Workers : v # w => batch'[v] = batch[v]
    BY <1>0, <1>2, <2>1 DEF Done
  <2>3. /\ workerAt' = [workerAt EXCEPT ![w] = IF Tail(batch[w]) = <<>> THEN "poll" ELSE "process"]
        /\ finished' = finished \cup {Head(batch[w])}
    BY <1>2 DEF Done, WorkerGoes
  <2>4. \A v \in Workers : WorkerOk(v)'
    BY <1>0, <2>2, <2>3 DEF WorkerOk
  <2>5. Line(w)' = Tail(Line(w)) /\ \A v \in Workers : v # w => Line(v)' = Line(v)
    BY <1>2, <2>1, <2>2 DEF Line
  <2>6. Advances(w)
    BY <1>2, <2>1, <2>3, <2>5 DEF Advances
  <2> QED BY <1>0, <1>2, <2>2, <2>3, <2>4, <2>6
<1>3. CASE TakeBatch(w)
  <2>1. workerAt[w] \in {"poll", "recheck"} /\ batch[w] = <<>> /\ UNCHANGED <<finished, barrierCount>>
    BY <1>0, <1>3 DEF TakeBatch, WorkerOk
  <2>2. PICK n \in 0 .. Len(sq[w]) :
          IF n = 0
            THEN WorkerGoes(w, IF workerAt[w] = "poll" THEN "empty" ELSE "exited") /\ UNCHANGED <<batch, sq>>
            ELSE /\ batch' = [batch EXCEPT ![w] = SubSeq(sq[w], 1, n)]
                 /\ sq' = [sq EXCEPT ![w] = SubSeq(@, n + 1, Len(@))]
                 /\ WorkerGoes(w, "process")
    <3>1. (IF Len(sq[w]) < WorkerBatch THEN Len(sq[w]) ELSE WorkerBatch) \in 0 .. Len(sq[w])
      BY <1>0, LenProperties, LegacyAssumption
    <3> QED BY <1>3, <3>1 DEF TakeBatch
  <2>3. CASE n = 0
    BY <1>0, <1>1, <2>1, <2>2, <2>3
  <2>4. CASE n # 0
    <3>1. /\ SubSeq(sq[w], 1, n) \in Seq(Entries) /\ SubSeq(sq[w], n + 1, Len(sq[w])) \in Seq(Entries)
          /\ SubSeq(sq[w], 1, n) \o SubSeq(sq[w], n + 1, Len(sq[w])) = <<>> \o sq[w]
          /\ SubSeq(sq[w], 1, n) # <<>>
      <4>1. sq[w] \in Seq(Entries) /\ n > 0
        BY <1>0, <2>4, LenProperties
      <4> QED BY <4>1, TakeMoves
    <3>2. /\ batch' \in [Workers -> Seq(Entries)] /\ sq' \in [Workers -> Seq(Entries)]
          /\ batch'[w] = SubSeq(sq[w], 1, n) /\ sq'[w] = SubSeq(sq[w], n + 1, Len(sq[w]))
          /\ \A v \in Workers : v # w => batch'[v] = batch[v] /\ sq'[v] = sq[v]
      BY <1>0, <2>2, <2>4, <3>1
    <3>3. workerAt' = [workerAt EXCEPT ![w] = "process"]
      BY <2>2, <2>4 DEF WorkerGoes
    <3>4. Line(w)' = Line(w)
      BY <2>1, <3>1, <3>2 DEF Line
    <3>5. LinesKept
      BY <3>2, <3>4 DEF LinesKept, Line
    <3>6. \A v \in Workers : WorkerOk(v)'
      BY <1>0, <3>1, <3>2, <3>3 DEF WorkerOk
    <3> QED BY <1>0, <2>1, <3>2, <3>3, <3>5, <3>6
  <2> QED BY <2>3, <2>4
<1>4. CASE ReadRunning(w)
  BY <1>0, <1>1, <1>4 DEF ReadRunning
<1>5. CASE ProcessSilently(w)
  <2>1. batch[w] # <<>>
    BY <1>0, <1>5 DEF ProcessSilently, WorkerOk
  <2> QED BY <1>0, <1>2, <1>5, <2>1 DEF ProcessSilently
<1>6. CASE ProcessOrder(w)
  <2>1. UNCHANGED <<sq, batch, finished, barrierCount>> /\ workerAt[w] = "process"
        /\ WorkerGoes(w, "answer") /\ Head(batch[w]) # Barrier
    BY <1>6 DEF ProcessOrder
  <2> QED BY <1>0, <1>1, <2>1
<1>7. CASE PushResult(w)
  <2>1. batch[w] # <<>> /\ Head(batch[w]) # Barrier /\ UNCHANGED <<sq, barrierCount>> /\ Done(w)
    BY <1>0, <1>7 DEF PushResult, WorkerOk
  <2> QED BY <1>0, <1>2, <2>1
<1> QED BY <1>3, <1>4, <1>5, <1>6, <1>7 DEF Work

-----------------------------------------------------------------------------
(* The dispatcher.                                                         *)

DispatcherQuiet ==
  UNCHANGED <<todo, callerAt, admitted, batch, workerAt, finished, running, stopAt, workerRunning,
              drainAt, inside, mark>>

(* Steps before a request leaves the batch.                                *)
LEMMA PrepareEffect ==
  ASSUME PathInv, LoopTest \/ PopBatch \/ CountRequest \/ StartBarrier
  PROVE  /\ PathInv' /\ DispatcherQuiet /\ Routed' = Routed /\ UNCHANGED <<sq, dropped>>
         /\ dispatcherAt # "fan" /\ LinesKept
         /\ dispatcherAt' = "exited" => ~running /\ queue = <<>> /\ buffer = <<>>
         /\ \/ dispatcherAt' # "fan" /\ UNCHANGED barrierCount
            \/ dispatcherAt' = "fan" /\ fanTo' = 0 /\ barrierCount' = 0 /\ Head(buffer) = Barrier
<1>0. /\ LegacyTypes /\ DispatcherQuiet /\ UNCHANGED <<sq, dropped>> /\ LinesKept
  BY DEF PathInv, LoopTest, PopBatch, CountRequest, StartBarrier, DispatcherUnchanged, DispatcherQuiet,
         callerVars, workerVars, stopVars, drainVars, LinesKept, Line
<1>1. ASSUME UNCHANGED <<queue, buffer>>, fanTo' \in Workers, barrierCount' \in Nat,
             dispatcherAt' \in {"check", "pop", "route", "push", "fan", "exited"},
             dispatcherAt' \in {"route", "push", "fan"} => buffer # <<>>,
             dispatcherAt' \in {"check", "exited"} => buffer = <<>>,
             dispatcherAt' = "push" => Head(buffer) # Barrier,
             dispatcherAt' = "fan" => Head(buffer) = Barrier
      PROVE  PathInv' /\ Routed' = Routed
  BY <1>0, <1>1 DEF PathInv, LegacyTypes, DispatcherQuiet, Routed, WorkerOk
<1>2. CASE LoopTest
  <2>1. /\ UNCHANGED <<queue, buffer, fanTo, barrierCount>> /\ dispatcherAt = "check"
        /\ dispatcherAt' = IF running \/ queue # <<>> THEN "pop" ELSE "exited"
    BY <1>2 DEF LoopTest, DispatcherGoes
  <2> QED BY <1>0, <1>1, <2>1 DEF PathInv, LegacyTypes
<1>3. CASE CountRequest
  <2>1. /\ UNCHANGED <<queue, buffer, fanTo, barrierCount>> /\ dispatcherAt = "route"
        /\ dispatcherAt' = "push" /\ Head(buffer) # Barrier
    BY <1>3 DEF CountRequest, DispatcherGoes
  <2> QED BY <1>0, <1>1, <2>1 DEF PathInv, LegacyTypes
<1>4. CASE StartBarrier
  <2>1. /\ UNCHANGED <<queue, buffer>> /\ dispatcherAt = "route" /\ fanTo' = 0 /\ barrierCount' = 0
        /\ dispatcherAt' = "fan" /\ Head(buffer) = Barrier
    BY <1>4 DEF StartBarrier, DispatcherGoes
  <2>2. 0 \in Workers
    BY LegacyAssumption DEF Workers
  <2> QED BY <1>0, <1>1, <2>1, <2>2 DEF PathInv
<1>5. CASE PopBatch
  <2>1. dispatcherAt = "pop" /\ UNCHANGED <<fanTo, barrierCount>>
    BY <1>5 DEF PopBatch
  <2>2. CASE /\ queue # <<>>
             /\ buffer' = Append(buffer, Head(queue)) /\ queue' = Tail(queue)
             /\ DispatcherGoes(IF Len(buffer') = KBatch THEN "route" ELSE "pop")
    <3>1. /\ buffer' \in Seq(Entries) /\ queue' \in Seq(Entries) /\ buffer' # <<>>
          /\ Routed' = Routed
          /\ \A i \in 1 .. Len(buffer') : buffer'[i] = admitted'[Routed' + i]
          /\ \A i \in 1 .. Len(queue') : queue'[i] = admitted'[Routed' + Len(buffer') + i]
      BY <1>0, <2>2, PopKeepsPath DEF DispatcherQuiet
    <3>2. dispatcherAt' \in {"route", "pop"}
      BY <2>2 DEF DispatcherGoes
    <3>3. LegacyTypes'
      BY <1>0, <2>1, <3>1, <3>2 DEF LegacyTypes, DispatcherQuiet
    <3>4. PathInv'
      BY <1>0, <2>1, <3>1, <3>2, <3>3 DEF PathInv, DispatcherQuiet, WorkerOk
    <3> QED BY <1>0, <2>1, <3>1, <3>2, <3>4
  <2>3. CASE UNCHANGED <<queue, buffer>> /\ DispatcherGoes(IF buffer = <<>> THEN "check" ELSE "route")
    BY <1>0, <1>1, <2>1, <2>3 DEF DispatcherGoes, PathInv, LegacyTypes
  <2> QED BY <1>5, <2>2, <2>3 DEF PopBatch
<1> QED BY <1>2, <1>3, <1>4, <1>5

(* The steps that hand over the head of the batch.                         *)
LEMMA HandOverEffect ==
  ASSUME PathInv, PushRequest \/ FanBarrier
  PROVE  /\ PathInv' /\ DispatcherQuiet /\ UNCHANGED <<queue, barrierCount>> /\ Routed + 1 <= Len(admitted)
         /\ Head(buffer) = admitted[Routed + 1] /\ dispatcherAt \notin {"check", "exited"} /\ dispatcherAt' # "exited"
         /\ \/ /\ dispatcherAt = "push" /\ Head(buffer) \in Requests
               /\ dispatcherAt' # "fan" /\ Routed' = Routed + 1
               /\ \/ AppendsTo(ShardOf[Head(buffer).sku], Head(buffer)) /\ UNCHANGED dropped
                  \/ LinesKept /\ ~running /\ dropped' = dropped \cup {Head(buffer)}
            \/ /\ dispatcherAt = "fan" /\ Head(buffer) = Barrier
               /\ \/ fanTo = WorkerCount - 1 /\ dispatcherAt' # "fan" /\ Routed' = Routed + 1
                  \/ fanTo # WorkerCount - 1 /\ fanTo' = fanTo + 1 /\ dispatcherAt' = "fan" /\ Routed' = Routed
               /\ \/ AppendsTo(fanTo, Barrier) /\ UNCHANGED dropped
                  \/ LinesKept /\ ~running /\ dropped' = dropped \cup {Barrier}
<1>0. /\ LegacyTypes /\ DispatcherQuiet /\ UNCHANGED <<queue, barrierCount>>
      /\ buffer # <<>> /\ buffer \in Seq(Entries)
  BY DEF PathInv, LegacyTypes, PushRequest, FanBarrier, DispatcherUnchanged, DispatcherQuiet,
         callerVars, workerVars, stopVars, drainVars
<1>1. /\ Head(buffer) \in Entries /\ Head(buffer) = admitted[Routed + 1] /\ Routed + 1 <= Len(admitted)
  <2>1. Head(buffer) \in Entries /\ Head(buffer) = buffer[1] /\ Len(buffer) \in Nat \ {0}
    BY <1>0, HeadTailProperties, EmptySeq
  <2>2. Len(admitted) \in Nat /\ Len(queue) \in Nat /\ Len(buffer) \in Nat
    BY <1>0, LenProperties DEF LegacyTypes
  <2>3. Routed + 1 <= Len(admitted)
    BY <2>1, <2>2 DEF Routed
  <2>4. 1 \in 1 .. Len(buffer)
    BY <2>1
  <2> QED BY <2>1, <2>3, <2>4 DEF PathInv
<1>2. ASSUME RouteNext, sq' \in [Workers -> Seq(Entries)], UNCHANGED fanTo
      PROVE  PathInv' /\ Routed' = Routed + 1 /\ dispatcherAt' \in {"check", "route"}
  <2>1. buffer' = Tail(buffer) /\ dispatcherAt' = IF Tail(buffer) = <<>> THEN "check" ELSE "route"
    BY <1>2 DEF RouteNext, DispatcherGoes
  <2>2. /\ buffer' \in Seq(Entries)
        /\ Routed' = Routed + 1
        /\ \A i \in 1 .. Len(buffer') : buffer'[i] = admitted'[Routed' + i]
        /\ \A i \in 1 .. Len(queue') : queue'[i] = admitted'[Routed' + Len(buffer') + i]
    BY <1>0, <2>1, RouteKeepsPath DEF DispatcherQuiet
  <2>3. LegacyTypes'
    BY <1>0, <1>2, <2>1, <2>2 DEF LegacyTypes, DispatcherQuiet
  <2> QED BY <1>0, <2>1, <2>2, <2>3 DEF PathInv, DispatcherQuiet, WorkerOk
<1>3. CASE PushRequest
  <2>1. dispatcherAt = "push" /\ RouteNext /\ UNCHANGED fanTo /\ PushTo(ShardOf[Head(buffer).sku], Head(buffer))
    BY <1>3 DEF PushRequest
  <2>2. Head(buffer) \in Requests /\ ShardOf[Head(buffer).sku] \in Workers
    BY <1>1, <2>1, LegacyAssumption DEF PathInv, Entries, Requests
  <2>3. /\ sq' \in [Workers -> Seq(Entries)]
        /\ \/ AppendsTo(ShardOf[Head(buffer).sku], Head(buffer)) /\ UNCHANGED dropped
           \/ LinesKept /\ ~running /\ dropped' = dropped \cup {Head(buffer)}
    BY <1>0, <1>1, <2>1, <2>2, PushEffect DEF DispatcherQuiet
  <2> QED BY <1>0, <1>1, <1>2, <2>1, <2>2, <2>3
<1>4. CASE FanBarrier
  <2>1. /\ dispatcherAt = "fan" /\ PushTo(fanTo, Barrier) /\ fanTo \in Workers
        /\ IF fanTo = WorkerCount - 1 THEN RouteNext /\ UNCHANGED fanTo
           ELSE fanTo' = fanTo + 1 /\ UNCHANGED <<buffer, dispatcherAt>>
    BY <1>0, <1>4 DEF FanBarrier, LegacyTypes
  <2>2. Head(buffer) = Barrier /\ Barrier \in Entries
    BY <2>1 DEF PathInv, Entries
  <2>3. /\ sq' \in [Workers -> Seq(Entries)]
        /\ \/ AppendsTo(fanTo, Barrier) /\ UNCHANGED dropped
           \/ LinesKept /\ ~running /\ dropped' = dropped \cup {Barrier}
    BY <1>0, <2>1, <2>2, PushEffect DEF DispatcherQuiet
  <2>4. CASE fanTo = WorkerCount - 1
    BY <1>0, <1>1, <1>2, <2>1, <2>2, <2>3, <2>4
  <2>5. CASE fanTo # WorkerCount - 1
    <3>1. fanTo' \in Workers
      BY <2>1, <2>5, LegacyAssumption DEF Workers
    <3>2. UNCHANGED <<buffer, dispatcherAt>>
      BY <2>1, <2>5
    <3>3. LegacyTypes'
      BY <1>0, <2>3, <3>1, <3>2 DEF LegacyTypes, DispatcherQuiet
    <3>4. PathInv' /\ Routed' = Routed
      BY <1>0, <3>2, <3>3 DEF PathInv, DispatcherQuiet, WorkerOk, Routed
    <3> QED BY <1>0, <1>1, <2>1, <2>2, <2>3, <2>5, <3>2, <3>4
  <2> QED BY <2>4, <2>5
<1> QED BY <1>3, <1>4

-----------------------------------------------------------------------------
(* The rest, and the whole.                                                *)

PathQuiet ==
  UNCHANGED <<dispatcherAt, buffer, fanTo, dropped, sq, batch, workerAt, finished, queue, admitted>>

(* Stop, drain and polling leave the path alone, but for the barrier.      *)
LEMMA ControlEffect ==
  ASSUME PathInv,
         \/ EnableCorrectnessCheck \/ PollResult \/ RequestStop \/ Join
         \/ \E d \in Drainers : DrainCall(d) \/ DrainReturn(d)
         \/ UNCHANGED vars
  PROVE  PathInv' /\ PathQuiet /\ UNCHANGED <<todo, callerAt>> /\ Routed' = Routed /\ LinesKept
<1> USE DEF callerVars, dispatcherVars, workerVars, stopVars, drainVars
<1>0. LegacyTypes /\ Len(admitted) \in Nat
  BY LenProperties DEF PathInv, LegacyTypes
<1>1. ASSUME PathQuiet, UNCHANGED <<todo, callerAt>>, LegacyTypes',
             \A d \in Drainers \cup {"stop"} : mark'[d] = mark[d] \/ mark'[d] = Len(admitted)
      PROVE  PathInv' /\ Routed' = Routed /\ LinesKept
  <2>1. Routed' = Routed /\ LinesKept /\ \A w \in Workers : WorkerOk(w)' = WorkerOk(w)
    BY <1>1 DEF PathQuiet, Routed, LinesKept, Line, WorkerOk
  <2>2. \A d \in Drainers \cup {"stop"} : mark'[d] <= Len(admitted)
    BY <1>0, <1>1 DEF PathInv
  <2> QED BY <1>1, <2>1, <2>2 DEF PathInv, PathQuiet
<1>2. CASE EnableCorrectnessCheck \/ PollResult \/ UNCHANGED vars
  BY <1>0, <1>1, <1>2 DEF EnableCorrectnessCheck, PollResult, vars, PathQuiet, LegacyTypes
<1>3. CASE RequestStop
  <2>1. /\ running' = FALSE /\ stopAt' = "dispatcher" /\ UNCHANGED workerRunning
        /\ mark' = [mark EXCEPT !["stop"] = Len(admitted)]
        /\ PathQuiet /\ UNCHANGED <<todo, callerAt, drainAt, inside, barrierCount>>
    BY <1>3 DEF RequestStop, StopUnchanged, PathQuiet
  <2>2. LegacyTypes'
    BY <1>0, <2>1 DEF LegacyTypes, PathQuiet
  <2> QED BY <1>0, <1>1, <2>1, <2>2 DEF LegacyTypes
<1>4. CASE Join
  <2>1. PathQuiet /\ UNCHANGED <<todo, callerAt, drainAt, inside, barrierCount, running, mark>>
    BY <1>4 DEF Join, JoinDispatcher, JoinWorkers, StopWorker, StopUnchanged, PathQuiet
  <2>2. stopAt' \in {"up", "dispatcher", "workers", "stopped"} /\ workerRunning' \in [Workers -> BOOLEAN]
    BY <1>0, <1>4 DEF Join, JoinDispatcher, JoinWorkers, StopWorker, LegacyTypes
  <2>3. LegacyTypes'
    BY <1>0, <2>1, <2>2 DEF LegacyTypes, PathQuiet
  <2> QED BY <1>1, <2>1, <2>3
<1>5. ASSUME NEW d \in Drainers, DrainCall(d) PROVE PathInv' /\ PathQuiet /\ UNCHANGED <<todo, callerAt>> /\ Routed' = Routed /\ LinesKept
  <2>1. /\ mark' = [mark EXCEPT ![d] = Len(admitted)] /\ inside' \in BOOLEAN
        /\ drainAt' \in [Drainers -> {"out", "inject", "wait", "drained", "ignored"}]
        /\ barrierCount' \in Nat
        /\ PathQuiet /\ UNCHANGED <<todo, callerAt, running, stopAt, workerRunning>>
    BY <1>0, <1>5 DEF DrainCall, DrainUnchanged, PathQuiet, LegacyTypes
  <2>2. LegacyTypes'
    BY <1>0, <2>1 DEF LegacyTypes, PathQuiet
  <2> QED BY <1>0, <1>1, <2>1, <2>2 DEF LegacyTypes
<1>6. ASSUME NEW d \in Drainers, DrainReturn(d) PROVE PathInv' /\ PathQuiet /\ UNCHANGED <<todo, callerAt>> /\ Routed' = Routed /\ LinesKept
  <2>1. /\ inside' = FALSE
        /\ drainAt' \in [Drainers -> {"out", "inject", "wait", "drained", "ignored"}]
        /\ PathQuiet /\ UNCHANGED <<todo, callerAt, running, stopAt, workerRunning, mark, barrierCount>>
    BY <1>0, <1>6 DEF DrainReturn, DrainUnchanged, PathQuiet, LegacyTypes
  <2>2. LegacyTypes'
    BY <1>0, <2>1 DEF LegacyTypes, PathQuiet
  <2> QED BY <1>1, <2>1, <2>2
<1>7. CASE EnableCorrectnessCheck \/ PollResult \/ UNCHANGED vars \/ RequestStop \/ Join
  <2>1. PathQuiet /\ UNCHANGED <<todo, callerAt>>
    BY <1>7 DEF EnableCorrectnessCheck, PollResult, vars, RequestStop, Join, JoinDispatcher, JoinWorkers,
                StopWorker, StopUnchanged, PathQuiet
  <2> QED BY <1>2, <1>3, <1>4, <1>7, <2>1
<1> QED BY <1>5, <1>6, <1>7

(* A request or a barrier comes in.                                        *)
LEMMA AdmitEffect ==
  ASSUME PathInv, NEW x \in Entries, Put(x),
         UNCHANGED <<dispatcherAt, buffer, fanTo, dropped, sq, batch, workerAt, finished, barrierCount,
                     running, stopAt, workerRunning, mark>>,
         todo' \in [Callers -> Seq(Requests)], callerAt' \in [Callers -> {"idle", "checked"}],
         drainAt' \in [Drainers -> {"out", "inject", "wait", "drained", "ignored"}], inside' \in BOOLEAN,
         \A c \in Callers : callerAt'[c] = "checked" => todo'[c] # <<>>
  PROVE  /\ PathInv' /\ Routed' = Routed /\ LinesKept
         /\ Len(admitted) \in Nat /\ Len(admitted') = Len(admitted) + 1
         /\ \A i \in 1 .. Len(admitted) : admitted'[i] = admitted[i]
         /\ admitted'[Len(admitted) + 1] = x
<1>1. /\ admitted' \in Seq(Entries) /\ queue' \in Seq(Entries)
      /\ Routed' = Routed /\ Len(admitted') = Len(admitted) + 1
      /\ \A i \in 1 .. Len(admitted) : admitted'[i] = admitted[i]
      /\ admitted'[Len(admitted) + 1] = x
      /\ \A i \in 1 .. Len(buffer') : buffer'[i] = admitted'[Routed' + i]
      /\ \A i \in 1 .. Len(queue') : queue'[i] = admitted'[Routed' + Len(buffer') + i]
  BY PutKeepsPath
<1>2. LegacyTypes'
  BY <1>1 DEF PathInv, LegacyTypes
<1>3. Len(admitted) \in Nat /\ LinesKept
  BY LenProperties DEF PathInv, LegacyTypes, LinesKept, Line
<1>4. \A d \in Drainers \cup {"stop"} : mark'[d] \in Nat /\ mark'[d] <= Len(admitted')
  BY <1>1, <1>3 DEF PathInv, LegacyTypes
<1>5. PathInv'
  BY <1>1, <1>2, <1>4 DEF PathInv, WorkerOk
<1> QED BY <1>1, <1>3, <1>5

Admits(x) ==
  /\ Len(admitted) \in Nat /\ Len(admitted') = Len(admitted) + 1
  /\ \A i \in 1 .. Len(admitted) : admitted'[i] = admitted[i]
  /\ admitted'[Len(admitted) + 1] = x

LEMMA CallerEffect ==
  ASSUME PathInv, NEW c \in Callers, CheckAdmission(c) \/ TryEnqueue(c)
  PROVE  /\ PathInv' /\ CallerQuiet /\ Routed' = Routed /\ LinesKept
         /\ UNCHANGED admitted \/ \E r \in Requests : Admits(r)
<1>0. LegacyTypes /\ todo \in [Callers -> Seq(Requests)] /\ \A d \in Callers : callerAt[d] = "checked" => todo[d] # <<>>
  BY DEF PathInv, LegacyTypes
<1>1. /\ CallerQuiet
      /\ callerAt' \in [Callers -> {"idle", "checked"}]
      /\ \/ UNCHANGED <<queue, admitted, todo>>
         \/ UNCHANGED <<queue, admitted>> /\ Shortens(c)
         \/ /\ todo[c] # <<>> /\ Head(todo[c]) \in Requests /\ Put(Head(todo[c]))
            /\ todo' = [todo EXCEPT ![c] = Tail(todo[c])]
      /\ \A d \in Callers : callerAt'[d] = "checked" => todo'[d] # <<>> \/ (d # c /\ callerAt[d] = "checked")
  BY <1>0, CallEffect
<1>2. \A d \in Callers : d # c => todo'[d] = todo[d]
  BY <1>0, <1>1 DEF Shortens
<1>3. \A d \in Callers : callerAt'[d] = "checked" => todo'[d] # <<>>
  BY <1>0, <1>1, <1>2
<1>4. LinesKept
  BY <1>1 DEF CallerQuiet, LinesKept, Line
<1>5. todo' \in [Callers -> Seq(Requests)]
  <2>1. CASE Shortens(c)
    <3>1. PICK n \in 1 .. Len(todo[c]) : todo' = [todo EXCEPT ![c] = SubSeq(todo[c], n + 1, Len(todo[c]))]
      BY <2>1 DEF Shortens
    <3>2. SubSeq(todo[c], n + 1, Len(todo[c])) \in Seq(Requests)
      BY <1>0, SuffixIsSeq
    <3> QED BY <1>0, <3>1, <3>2
  <2>2. CASE todo[c] # <<>> /\ todo' = [todo EXCEPT ![c] = Tail(todo[c])]
    <3>1. Tail(todo[c]) \in Seq(Requests)
      BY <1>0, <2>2, HeadTailProperties
    <3> QED BY <1>0, <2>2, <3>1
  <2> QED BY <1>0, <1>1, <2>1, <2>2
<1>6. CASE UNCHANGED <<queue, admitted>>
  <2>1. LegacyTypes'
    BY <1>0, <1>1, <1>5, <1>6 DEF LegacyTypes, CallerQuiet
  <2>2. PathInv' /\ Routed' = Routed
    BY <1>1, <1>3, <1>6, <2>1 DEF PathInv, CallerQuiet, Routed, WorkerOk
  <2> QED BY <1>1, <1>4, <1>6, <2>2
<1>7. CASE Head(todo[c]) \in Requests /\ Put(Head(todo[c]))
  <2>1. Head(todo[c]) \in Entries
    BY <1>7 DEF Entries
  <2>2. /\ drainAt' \in [Drainers -> {"out", "inject", "wait", "drained", "ignored"}]
        /\ inside' \in BOOLEAN
    BY <1>0, <1>1 DEF LegacyTypes, CallerQuiet
  <2>3. PathInv' /\ Routed' = Routed /\ Admits(Head(todo[c]))
    BY <1>1, <1>3, <1>5, <1>7, <2>1, <2>2, AdmitEffect DEF CallerQuiet, Admits
  <2> QED BY <1>1, <1>4, <1>7, <2>3
<1> QED BY <1>1, <1>6, <1>7

InjectQuiet ==
  UNCHANGED <<dispatcherAt, buffer, fanTo, check, dropped, sq, batch, workerAt, finished, running,
              stopAt, workerRunning, todo, callerAt, inside, barrierCount, mark>>

LEMMA InjectEffect ==
  ASSUME PathInv, NEW d \in Drainers, DrainInject(d)
  PROVE  /\ PathInv' /\ InjectQuiet /\ Routed' = Routed /\ LinesKept /\ Admits(Barrier)
         /\ drainAt[d] = "inject" /\ drainAt' = [drainAt EXCEPT ![d] = "wait"]
<1>1. /\ InjectQuiet /\ Put(Barrier) /\ drainAt[d] = "inject" /\ drainAt' = [drainAt EXCEPT ![d] = "wait"]
  BY DEF DrainInject, DrainUnchanged, InjectQuiet, callerVars, dispatcherVars, workerVars, stopVars
<1>2. /\ drainAt' \in [Drainers -> {"out", "inject", "wait", "drained", "ignored"}]
      /\ inside' \in BOOLEAN /\ Barrier \in Entries
      /\ todo' \in [Callers -> Seq(Requests)] /\ callerAt' \in [Callers -> {"idle", "checked"}]
      /\ \A c \in Callers : callerAt'[c] = "checked" => todo'[c] # <<>>
  BY <1>1 DEF PathInv, LegacyTypes, InjectQuiet, Entries
<1> QED BY <1>1, <1>2, AdmitEffect DEF InjectQuiet, Admits

WorkQuiet ==
  UNCHANGED <<todo, callerAt, queue, admitted, dispatcherAt, buffer, fanTo, check, dropped, running,
              stopAt, workerRunning, drainAt, inside, mark>>

LEMMA WorkerStep ==
  ASSUME PathInv, NEW w \in Workers, Work(w)
  PROVE  PathInv' /\ WorkQuiet /\ Routed' = Routed
<1>1. WorkQuiet
  BY DEF Work, TakeBatch, ReadRunning, ProcessSilently, ProcessOrder, PushResult, WorkerUnchanged, WorkQuiet,
         callerVars, dispatcherVars, stopVars, drainVars
<1>2. /\ sq' \in [Workers -> Seq(Entries)] /\ batch' \in [Workers -> Seq(Entries)]
      /\ workerAt' \in [Workers -> {"poll", "empty", "recheck", "exited", "process", "answer"}]
      /\ barrierCount' \in Nat
      /\ \A v \in Workers : WorkerOk(v)'
  BY WorkEffect
<1>3. LegacyTypes'
  BY <1>1, <1>2 DEF PathInv, LegacyTypes, WorkQuiet
<1> QED BY <1>1, <1>2, <1>3 DEF PathInv, WorkQuiet, Routed

LEMMA PathStep == PathInv /\ [Next]_vars => PathInv'
<1> SUFFICES ASSUME PathInv, [Next]_vars PROVE PathInv'
  OBVIOUS
<1>1. ASSUME NEW c \in Callers, CheckAdmission(c) \/ TryEnqueue(c) PROVE PathInv'
  BY <1>1, CallerEffect
<1>2. CASE Dispatcher
  BY <1>2, PrepareEffect, HandOverEffect DEF Dispatcher
<1>3. ASSUME NEW w \in Workers, Work(w) PROVE PathInv'
  BY <1>3, WorkerStep
<1>4. ASSUME NEW d \in Drainers, DrainInject(d) PROVE PathInv'
  BY <1>4, InjectEffect
<1>5. CASE \/ EnableCorrectnessCheck \/ PollResult \/ RequestStop \/ Join
           \/ \E d \in Drainers : DrainCall(d) \/ DrainReturn(d)
           \/ UNCHANGED vars
  BY <1>5, ControlEffect
<1> QED BY <1>1, <1>2, <1>3, <1>4, <1>5 DEF Next

LEMMA PathInvariant == Spec => []PathInv
BY LegacyInit, PathStep, PTL DEF Spec

-----------------------------------------------------------------------------
(* Nothing is lost on the way to the workers, and the stop leaves nothing. *)

LEMMA AppendedLine ==
  ASSUME LegacyTypes, NEW w \in Workers, NEW x \in Entries, AppendsTo(w, x)
  PROVE  /\ Len(Line(w)) \in Nat /\ Len(Line(w)') = Len(Line(w)) + 1
         /\ \A i \in 1 .. Len(Line(w)) : Line(w)'[i] = Line(w)[i]
         /\ Line(w)'[Len(Line(w)) + 1] = x
         /\ \A v \in Workers : \A y : InLine(v, y)' <=> InLine(v, y) \/ (v = w /\ y = x)
<1>1. Line(w) \in Seq(Entries)
  BY LineType
<1>2. /\ Len(Line(w)) \in Nat /\ Len(Line(w)') = Len(Line(w)) + 1
      /\ \A i \in 1 .. Len(Line(w)) : Line(w)'[i] = Line(w)[i]
      /\ Line(w)'[Len(Line(w)) + 1] = x
  BY <1>1, AppendProperties, LenProperties DEF AppendsTo
<1>3. \A y : InLine(w, y)' <=> InLine(w, y) \/ y = x
  BY <1>2 DEF InLine
<1>4. \A v \in Workers : \A y : v # w => (InLine(v, y)' <=> InLine(v, y))
  BY DEF AppendsTo, InLine
<1> QED BY <1>2, <1>3, <1>4

LEMMA AdvancedLine ==
  ASSUME LegacyTypes, NEW w \in Workers, Advances(w)
  PROVE  /\ Len(Line(w)) \in Nat \ {0} /\ Len(Line(w)') = Len(Line(w)) - 1
         /\ \A i \in 1 .. Len(Line(w)) - 1 : Line(w)'[i] = Line(w)[i + 1]
         /\ Line(w)[1] = Head(Line(w)) /\ Head(Line(w)) \in Entries
         /\ \A v \in Workers : \A y : InLine(v, y)' => InLine(v, y)
         /\ \A v \in Workers : \A y : InLine(v, y) => InLine(v, y)' \/ (v = w /\ y = Head(Line(w)))
<1>1. Line(w) \in Seq(Entries) /\ Line(w) # <<>>
  BY LineType DEF Advances
<1>2. /\ Len(Line(w)) \in Nat \ {0} /\ Len(Line(w)') = Len(Line(w)) - 1
      /\ \A i \in 1 .. Len(Line(w)) - 1 : Line(w)'[i] = Line(w)[i + 1]
      /\ Line(w)[1] = Head(Line(w)) /\ Head(Line(w)) \in Entries
  BY <1>1, HeadTailProperties, EmptySeq DEF Advances
<1>3. ASSUME NEW y, InLine(w, y)' PROVE InLine(w, y)
  <2>1. PICK j \in 1 .. Len(Line(w)') : Line(w)'[j] = y
    BY <1>3 DEF InLine
  <2>2. j + 1 \in 1 .. Len(Line(w)) /\ Line(w)[j + 1] = y
    BY <1>2, <2>1
  <2> QED BY <2>2 DEF InLine
<1>4. ASSUME NEW y, InLine(w, y), y # Head(Line(w)) PROVE InLine(w, y)'
  <2>1. PICK j \in 1 .. Len(Line(w)) : Line(w)[j] = y
    BY <1>4 DEF InLine
  <2>2. j - 1 \in 1 .. Len(Line(w)') /\ Line(w)'[j - 1] = y
    BY <1>2, <1>4, <2>1
  <2> QED BY <2>2 DEF InLine
<1>5. \A v \in Workers : \A y : v # w => (InLine(v, y)' <=> InLine(v, y))
  BY DEF Advances, InLine
<1> QED BY <1>2, <1>3, <1>4, <1>5

LEMMA KeptLine == LinesKept => \A v \in Workers : \A y : InLine(v, y)' <=> InLine(v, y)
BY DEF LinesKept, InLine

(* A request the dispatcher is done with is with its worker, or finished,  *)
(* or given up, and that only after the stop.                              *)
PlacesInv ==
  /\ running => dropped = {}
  /\ \A i \in 1 .. Routed : admitted[i] # Barrier =>
       admitted[i] \in finished \cup dropped \/ InLine(ShardOf[admitted[i].sku], admitted[i])
(* The entry of the admitted at one position is where PlacesInv says.      *)
Accounted(x) ==
  x # Barrier => x \in finished \cup dropped \/ InLine(ShardOf[x.sku], x)

LEMMA ShardIsWorker == \A x \in Entries : x # Barrier => x \in Requests /\ ShardOf[x.sku] \in Workers
BY LegacyAssumption DEF Entries, Requests

LEMMA PlacesStep == PathInv /\ PathInv' /\ PlacesInv /\ [Next]_vars => PlacesInv'
<1> SUFFICES ASSUME PathInv, PathInv', PlacesInv, [Next]_vars PROVE PlacesInv'
  OBVIOUS
<1>0. /\ LegacyTypes /\ Routed \in Nat /\ Routed <= Len(admitted) /\ Len(admitted) \in Nat
      /\ admitted \in Seq(Entries) /\ \A i \in 1 .. Len(admitted) : admitted[i] \in Entries
  <2>1. LegacyTypes /\ admitted \in Seq(Entries) /\ queue \in Seq(Entries) /\ buffer \in Seq(Entries) /\ Routed \in Nat
    BY DEF PathInv, LegacyTypes
  <2>2. Len(admitted) \in Nat /\ Len(queue) \in Nat /\ Len(buffer) \in Nat
    BY <2>1, LenProperties
  <2> QED BY <2>1, <2>2, ElementOfSeq DEF Routed
<1>1. \A i \in 1 .. Routed : admitted[i] \in Entries /\ Accounted(admitted[i])
  BY <1>0 DEF PlacesInv, Accounted
<1>2. ASSUME UNCHANGED <<finished, dropped>>, Routed' = Routed, LinesKept, running' => running,
             \A i \in 1 .. Len(admitted) : admitted'[i] = admitted[i]
      PROVE  PlacesInv'
  <2>1. \A i \in 1 .. Routed : Accounted(admitted[i])'
    BY <1>1, <1>2, <1>0, KeptLine, ShardIsWorker DEF Accounted
  <2> QED BY <1>0, <1>2, <2>1 DEF PlacesInv, Accounted
<1>3. ASSUME NEW c \in Callers, CheckAdmission(c) \/ TryEnqueue(c) PROVE PlacesInv'
  <2>1. CallerQuiet /\ Routed' = Routed /\ LinesKept /\ (UNCHANGED admitted \/ \E r \in Requests : Admits(r))
    BY <1>3, CallerEffect
  <2> QED BY <1>2, <2>1 DEF CallerQuiet, Admits
<1>4. CASE LoopTest \/ PopBatch \/ CountRequest \/ StartBarrier
  <2>1. DispatcherQuiet /\ Routed' = Routed /\ UNCHANGED dropped /\ LinesKept
    BY <1>4, PrepareEffect
  <2> QED BY <1>2, <2>1 DEF DispatcherQuiet
<1>5. CASE PushRequest \/ FanBarrier
  <2>1. /\ DispatcherQuiet /\ Head(buffer) = admitted[Routed + 1]
        /\ Routed + 1 <= Len(admitted)
        /\ Routed' = Routed \/ Routed' = Routed + 1
        /\ \/ LinesKept /\ ~running
           \/ \E w \in Workers : AppendsTo(w, Head(buffer)) /\ UNCHANGED dropped
        /\ dropped \subseteq dropped'
        /\ Routed' = Routed + 1 =>
             \/ Head(buffer) = Barrier
             \/ Head(buffer) \in dropped'
             \/ AppendsTo(ShardOf[Head(buffer).sku], Head(buffer))
    <3>1. /\ DispatcherQuiet /\ Head(buffer) = admitted[Routed + 1] /\ Routed + 1 <= Len(admitted)
          /\ fanTo \in Workers /\ Head(buffer) \in Entries
      BY <1>0, <1>5, HandOverEffect DEF LegacyTypes
    <3>2. CASE /\ Head(buffer) \in Requests /\ Routed' = Routed + 1
               /\ \/ AppendsTo(ShardOf[Head(buffer).sku], Head(buffer)) /\ UNCHANGED dropped
                  \/ LinesKept /\ ~running /\ dropped' = dropped \cup {Head(buffer)}
      <4>1. ShardOf[Head(buffer).sku] \in Workers
        BY <3>2, LegacyAssumption DEF Requests
      <4> QED BY <3>1, <3>2, <4>1
    <3>3. CASE /\ Head(buffer) = Barrier /\ (Routed' = Routed \/ Routed' = Routed + 1)
               /\ \/ AppendsTo(fanTo, Barrier) /\ UNCHANGED dropped
                  \/ LinesKept /\ ~running /\ dropped' = dropped \cup {Barrier}
      BY <3>1, <3>3
    <3> QED BY <1>5, <3>2, <3>3, HandOverEffect
  <2>2. Head(buffer) \in Entries
    BY <1>0, <2>1
  <2>3. \A v \in Workers : \A y : InLine(v, y) => InLine(v, y)'
    BY <1>0, <2>1, <2>2, AppendedLine, KeptLine
  <2>4. \A i \in 1 .. Routed : Accounted(admitted[i])'
    <3>1. UNCHANGED <<finished, admitted>>
      BY <2>1 DEF DispatcherQuiet
    <3>2. ASSUME NEW i \in 1 .. Routed, admitted[i] # Barrier PROVE Accounted(admitted[i])'
      <4>1. ShardOf[admitted[i].sku] \in Workers
        BY <1>1, <3>2, ShardIsWorker
      <4> QED BY <1>1, <2>1, <2>3, <3>1, <3>2, <4>1 DEF Accounted
    <3> QED BY <3>1, <3>2 DEF Accounted
  <2>5. ASSUME NEW i \in Nat, i = Routed + 1, Routed' = Routed + 1 PROVE Accounted(admitted[i])'
    <3>1. PICK x \in Entries : x = Head(buffer) /\ x = admitted[i] /\ x = admitted'[i]
      BY <2>1, <2>2, <2>5 DEF DispatcherQuiet
    <3>2. CASE AppendsTo(ShardOf[x.sku], x) /\ x # Barrier
      <4>1. InLine(ShardOf[x.sku], x)'
        BY <1>0, <3>2, AppendedLine, ShardIsWorker
      <4> QED BY <3>1, <4>1 DEF Accounted
    <3>3. CASE x = Barrier \/ x \in dropped'
      BY <3>1, <3>3 DEF Accounted
    <3> QED BY <2>1, <2>5, <3>1, <3>2, <3>3
  <2>6. \A i \in 1 .. Routed' : Accounted(admitted[i])'
    <3>1. ASSUME NEW i \in 1 .. Routed' PROVE i \in 1 .. Routed \/ (i \in Nat /\ i = Routed + 1 /\ Routed' = Routed + 1)
      BY <1>0, <2>1
    <3> QED BY <2>4, <2>5, <3>1
  <2>7. running' => dropped' = {}
    BY <2>1 DEF PlacesInv, DispatcherQuiet
  <2> QED BY <2>6, <2>7 DEF PlacesInv, Accounted
<1>6. ASSUME NEW w \in Workers, Work(w) PROVE PlacesInv'
  <2>1. /\ WorkQuiet /\ Routed' = Routed
        /\ (LinesKept /\ UNCHANGED finished) \/ Advances(w)
    BY <1>6, WorkEffect, WorkerStep
  <2>2. CASE LinesKept /\ UNCHANGED finished
    BY <1>2, <2>1, <2>2 DEF WorkQuiet
  <2>3. CASE Advances(w)
    <3>1. finished' = finished \cup {Head(Line(w))}
      BY <2>3 DEF Advances
    <3>2. \A v \in Workers : \A y : InLine(v, y) => InLine(v, y)' \/ y \in finished'
      BY <1>0, <2>3, <3>1, AdvancedLine
    <3>3. \A i \in 1 .. Routed : Accounted(admitted[i])'
      BY <1>1, <2>1, <3>1, <3>2, ShardIsWorker DEF Accounted, WorkQuiet
    <3> QED BY <2>1, <3>3 DEF PlacesInv, Accounted, WorkQuiet
  <2> QED BY <2>1, <2>2, <2>3
<1>7. ASSUME NEW d \in Drainers, DrainInject(d) PROVE PlacesInv'
  <2>1. InjectQuiet /\ Routed' = Routed /\ LinesKept /\ Admits(Barrier)
    BY <1>7, InjectEffect
  <2> QED BY <1>2, <2>1 DEF InjectQuiet, Admits
<1>8. CASE \/ EnableCorrectnessCheck \/ PollResult \/ RequestStop \/ Join
           \/ \E d \in Drainers : DrainCall(d) \/ DrainReturn(d)
           \/ UNCHANGED vars
  <2>1. PathQuiet /\ Routed' = Routed /\ LinesKept
    BY <1>8, ControlEffect
  <2>2. running' => running
    BY <1>8 DEF EnableCorrectnessCheck, PollResult, RequestStop, Join, JoinDispatcher, JoinWorkers, StopWorker,
                DrainCall, DrainReturn, DrainUnchanged, stopVars, vars
  <2> QED BY <1>2, <2>1, <2>2 DEF PathQuiet
<1> QED BY <1>3, <1>4, <1>5, <1>6, <1>7, <1>8 DEF Next, Dispatcher

(* The order of the stop.                                                  *)
StopInv ==
  /\ dispatcherAt = "exited" => mark["stop"] <= Routed
  /\ dispatcherAt = "exited" => ~running
  /\ running <=> stopAt = "up"
  /\ stopAt \in {"workers", "stopped"} => dispatcherAt = "exited"
  /\ \A w \in Workers : /\ ~workerRunning[w] => stopAt \in {"workers", "stopped"}
                        /\ workerAt[w] \in {"recheck", "exited"} => ~workerRunning[w]
                        /\ workerAt[w] = "exited" => sq[w] = <<>>
                        /\ stopAt = "stopped" => workerAt[w] = "exited"

StopKept == UNCHANGED <<running, stopAt, workerRunning, mark>>

LEMMA StopStep == PathInv /\ PathInv' /\ StopInv /\ [Next]_vars => StopInv'
<1> SUFFICES ASSUME PathInv, PathInv', StopInv, [Next]_vars PROVE StopInv'
  OBVIOUS
<1>0. LegacyTypes /\ Routed \in Nat
  BY DEF PathInv
<1>1. ASSUME StopKept, Routed' = Routed, UNCHANGED <<sq, workerAt, dispatcherAt>> PROVE StopInv'
  BY <1>1 DEF StopInv, StopKept
<1>2. ASSUME NEW c \in Callers, CheckAdmission(c) \/ TryEnqueue(c) PROVE StopInv'
  <2>1. CallerQuiet /\ Routed' = Routed
    BY <1>2, CallerEffect
  <2> QED BY <1>1, <2>1 DEF CallerQuiet, StopKept
<1>3. CASE LoopTest \/ PopBatch \/ CountRequest \/ StartBarrier
  <2>1. /\ DispatcherQuiet /\ Routed' = Routed /\ UNCHANGED sq
        /\ dispatcherAt' = "exited" => ~running /\ queue = <<>> /\ buffer = <<>>
    BY <1>3, PrepareEffect
  <2>2. dispatcherAt # "exited"
    BY <1>3 DEF LoopTest, PopBatch, CountRequest, StartBarrier
  <2>3. dispatcherAt' = "exited" => mark["stop"] <= Routed
    <3>1. SUFFICES ASSUME queue = <<>>, buffer = <<>> PROVE mark["stop"] <= Routed
      BY <2>1
    <3>2. Len(queue) = 0 /\ Len(buffer) = 0 /\ Len(admitted) \in Nat
      BY <1>0, <3>1, LenProperties DEF LegacyTypes
    <3>3. Routed = Len(admitted)
      BY <3>2 DEF Routed
    <3> QED BY <3>3 DEF PathInv
  <2> QED BY <2>1, <2>2, <2>3 DEF StopInv, DispatcherQuiet
<1>4. CASE PushRequest \/ FanBarrier
  <2>1. DispatcherQuiet /\ dispatcherAt # "exited" /\ dispatcherAt' # "exited"
    BY <1>4, HandOverEffect
  <2>2. \A w \in Workers : workerAt[w] # "exited"
    BY <2>1 DEF StopInv
  <2> QED BY <2>1, <2>2 DEF StopInv, DispatcherQuiet
<1>5. ASSUME NEW w \in Workers, Work(w) PROVE StopInv'
  <2>1. /\ WorkQuiet /\ Routed' = Routed
        /\ \A v \in Workers : v # w => workerAt'[v] = workerAt[v] /\ sq'[v] = sq[v]
    BY <1>5, WorkEffect, WorkerStep
  <2>2. workerAt[w] # "exited"
    BY <1>5 DEF Work, TakeBatch, ReadRunning, ProcessSilently, ProcessOrder, PushResult
  <2>3. workerAt'[w] \in {"recheck", "exited"} => ~workerRunning[w]
    BY <1>0, <1>5 DEF Work, TakeBatch, ReadRunning, ProcessSilently, ProcessOrder, PushResult, Done, WorkerGoes,
                      StopInv, LegacyTypes
  <2>4. workerAt'[w] = "exited" => sq'[w] = <<>>
    <3>1. CASE TakeBatch(w)
      <4>1. PICK n : /\ n = IF Len(sq[w]) < WorkerBatch THEN Len(sq[w]) ELSE WorkerBatch
                     /\ workerAt'[w] = "exited" => n = 0 /\ UNCHANGED sq
        BY <1>0, <3>1 DEF TakeBatch, WorkerGoes, LegacyTypes
      <4>2. n = 0 => Len(sq[w]) = 0
        BY <4>1, LegacyAssumption
      <4>3. Len(sq[w]) = 0 => sq[w] = <<>>
        BY <1>0, EmptySeq DEF LegacyTypes
      <4> QED BY <4>1, <4>2, <4>3
    <3>2. CASE ~TakeBatch(w)
      BY <1>0, <1>5, <3>2 DEF Work, ReadRunning, ProcessSilently, ProcessOrder, PushResult, Done, WorkerGoes, LegacyTypes
    <3> QED BY <3>1, <3>2
  <2> QED BY <2>1, <2>2, <2>3, <2>4 DEF StopInv, WorkQuiet
<1>6. ASSUME NEW d \in Drainers, DrainInject(d) PROVE StopInv'
  <2>1. InjectQuiet /\ Routed' = Routed
    BY <1>6, InjectEffect
  <2> QED BY <1>1, <2>1 DEF InjectQuiet, StopKept
<1>7. CASE \/ EnableCorrectnessCheck \/ PollResult \/ RequestStop \/ Join
           \/ \E d \in Drainers : DrainCall(d) \/ DrainReturn(d)
           \/ UNCHANGED vars
  <2>1. PathQuiet /\ Routed' = Routed
    BY <1>7, ControlEffect
  <2>2. CASE EnableCorrectnessCheck \/ PollResult \/ UNCHANGED vars
    BY <1>1, <2>1, <2>2 DEF EnableCorrectnessCheck, PollResult, vars, stopVars, PathQuiet, StopKept
  <2>3. CASE RequestStop
    <3>1. stopAt = "up" /\ running' = FALSE /\ stopAt' = "dispatcher" /\ UNCHANGED workerRunning
      BY <2>3 DEF RequestStop
    <3>2. dispatcherAt # "exited"
      BY <3>1 DEF StopInv
    <3> QED BY <2>1, <3>1, <3>2 DEF StopInv, PathQuiet
  <2>4. CASE JoinDispatcher
    BY <2>1, <2>4 DEF JoinDispatcher, StopInv, PathQuiet
  <2>5. CASE JoinWorkers
    BY <2>1, <2>5 DEF JoinWorkers, StopInv, PathQuiet
  <2>6. ASSUME NEW w \in Workers, StopWorker(w) PROVE StopInv'
    <3>1. /\ stopAt = "workers" /\ UNCHANGED <<running, stopAt, mark>>
          /\ \A v \in Workers : v # w => workerRunning'[v] = workerRunning[v]
          /\ ~workerRunning'[w]
      BY <1>0, <2>6 DEF StopWorker, LegacyTypes
    <3> QED BY <2>1, <3>1 DEF StopInv, PathQuiet
  <2>7. ASSUME NEW d \in Drainers, DrainCall(d) \/ DrainReturn(d) PROVE StopInv'
    <3>1. UNCHANGED <<running, stopAt, workerRunning>> /\ mark'["stop"] = mark["stop"]
      BY <1>0, <2>7, LegacyAssumption DEF DrainCall, DrainReturn, DrainUnchanged, stopVars, LegacyTypes
    <3> QED BY <2>1, <3>1 DEF StopInv, PathQuiet
  <2> QED BY <1>7, <2>2, <2>3, <2>4, <2>5, <2>6, <2>7 DEF Join
<1> QED BY <1>2, <1>3, <1>4, <1>5, <1>6, <1>7 DEF Next, Dispatcher

LEMMA LegacyInvariant == Spec => [](PathInv /\ PlacesInv /\ StopInv)
<1>1. Init => PlacesInv /\ StopInv
  <2> SUFFICES ASSUME Init PROVE PlacesInv /\ StopInv
    OBVIOUS
  <2>1. Routed = 0
    <3>1. queue = <<>> /\ admitted = <<>> /\ buffer = <<>> /\ Len(<<>>) = 0
      BY DEF Init
    <3>2. Len(queue) = 0 /\ Len(admitted) = 0 /\ Len(buffer) = 0
      BY <3>1
    <3> QED BY <3>2 DEF Routed
  <2>2. 1 .. Routed = {}
    BY <2>1
  <2>3. PlacesInv
    BY <2>2 DEF Init, PlacesInv
  <2> QED BY <2>3 DEF Init, StopInv
<1> QED BY <1>1, PathInvariant, PlacesStep, StopStep, PTL DEF Spec

(* README: "all in-flight requests are processed".  In the first engine    *)
(* StopEngine does process what was admitted before it, on every worker    *)
(* and whatever the dispatcher still held, but for the requests that a     *)
(* full queue made it give up.                                             *)
THEOREM StopProcesses == Spec => []StopProcessesAdmitted
<1>1. PathInv /\ PlacesInv /\ StopInv => StopProcessesAdmitted
  <2> SUFFICES ASSUME PathInv, PlacesInv, StopInv, stopAt = "stopped",
                      NEW x \in Before(mark["stop"])
               PROVE  x \in finished \cup dropped
    BY DEF StopProcessesAdmitted
  <2>1. LegacyTypes /\ Routed \in Nat /\ mark["stop"] <= Routed /\ mark["stop"] \in Nat
        /\ mark["stop"] <= Len(admitted) /\ Len(admitted) \in Nat
    BY LenProperties DEF PathInv, StopInv, LegacyTypes
  <2>2. PICK i \in 1 .. mark["stop"] : x = admitted[i] /\ x # Barrier
    BY DEF Before
  <2>3. i \in 1 .. Routed /\ i \in 1 .. Len(admitted)
    BY <2>1
  <2>4. x \in Entries
    BY <2>1, <2>2, <2>3, ElementOfSeq DEF LegacyTypes
  <2>5. \A w \in Workers : ~InLine(w, x)
    <3>1. \A w \in Workers : batch[w] = <<>> /\ sq[w] = <<>>
      BY <2>1 DEF PathInv, StopInv, WorkerOk
    <3>2. <<>> \o <<>> = <<>> /\ Len(<<>>) = 0
      OBVIOUS
    <3>3. \A w \in Workers : Line(w) = <<>>
      BY <3>1, <3>2 DEF Line
    <3>4. \A w \in Workers : Len(Line(w)) = 0
      BY <3>2, <3>3
    <3> QED BY <3>4 DEF InLine
  <2> QED BY <2>2, <2>3, <2>4, <2>5, ShardIsWorker DEF PlacesInv
<1> QED BY <1>1, LegacyInvariant, PTL

-----------------------------------------------------------------------------
(* The drains.  Only one of them is past the guard, and while the engine   *)
(* runs its barrier is the only one there is.                              *)

(* The workers that were given the barrier at position b.                  *)
Given(b) ==
  IF b <= Routed THEN Workers
  ELSE IF b = Routed + 1 /\ dispatcherAt = "fan" THEN 0 .. fanTo - 1 ELSE {}

(* Those that have counted it.                                             *)
Answered(b) == {w \in Given(b) : ~InLine(w, Barrier)}

(* Request x stands before the barrier in the line of worker w.            *)
Ahead(w, x) == \E j, k \in 1 .. Len(Line(w)) : j < k /\ Line(w)[j] = x /\ Line(w)[k] = Barrier

(* Request x cannot escape the barrier at position b.                      *)
Covered(b, x) ==
  LET w == ShardOf[x.sku]
  IN  x \in finished \/ (w \notin Given(b) /\ InLine(w, x)) \/ Ahead(w, x)

OneBarrierIn(w) ==
  \A j, k \in 1 .. Len(Line(w)) : Line(w)[j] = Barrier /\ Line(w)[k] = Barrier => j = k

(* Position b holds the barrier of drain d, there is no other, and what    *)
(* was admitted before it is finished or ahead of it.                      *)
BarrierAt(d, b) ==
  /\ mark[d] < b /\ admitted[b] = Barrier
  /\ \A i \in Routed + 1 .. Len(admitted) : admitted[i] = Barrier => i = b
  /\ \A w \in Workers : InLine(w, Barrier) => w \in Given(b)
  /\ \A w \in Workers : OneBarrierIn(w)
  /\ barrierCount = Cardinality(Answered(b))
  /\ \A i \in 1 .. Routed : \A x \in Requests : i < b /\ admitted[i] = x => Covered(b, x)

NoBarrier ==
  /\ \A i \in Routed + 1 .. Len(admitted) : admitted[i] # Barrier
  /\ \A w \in Workers : ~InLine(w, Barrier)

(* The control of the drains.                                              *)
GuardInv ==
  /\ \A d \in Drainers : drainAt[d] \in {"inject", "wait"} => inside
  /\ \A d, e \in Drainers : drainAt[d] \in {"inject", "wait"} /\ drainAt[e] \in {"inject", "wait"} => d = e

BarrierInv ==
  running =>
    /\ (\A d \in Drainers : drainAt[d] # "wait") => NoBarrier
    /\ \A d \in Drainers : drainAt[d] = "inject" => barrierCount = 0
    /\ \A d \in Drainers : drainAt[d] = "wait" => \E b \in 1 .. Len(admitted) : BarrierAt(d, b)

LEMMA GivenAreWorkers ==
  ASSUME PathInv, NEW b \in Int
  PROVE  Given(b) \subseteq Workers /\ IsFiniteSet(Workers) /\ Cardinality(Workers) = WorkerCount
<1>1. fanTo \in Workers /\ WorkerCount \in Nat \ {0}
  BY LegacyAssumption DEF PathInv, LegacyTypes
<1>2. IsFiniteSet(0 .. WorkerCount - 1) /\ Cardinality(0 .. WorkerCount - 1) = WorkerCount
  <2>1. 0 \in Int /\ WorkerCount - 1 \in Int
    BY <1>1
  <2>2. /\ IsFiniteSet(0 .. WorkerCount - 1)
        /\ Cardinality(0 .. WorkerCount - 1) =
             IF 0 > WorkerCount - 1 THEN 0 ELSE (WorkerCount - 1) - 0 + 1
    BY <2>1, FS_Interval
  <2> QED BY <1>1, <2>2
<1>3. Given(b) \subseteq Workers
  BY <1>1 DEF Given, Workers
<1> QED BY <1>2, <1>3 DEF Workers

(* A step that moves no barrier.                                           *)
LEMMA BarrierKept ==
  ASSUME PathInv, NEW d \in Drainers, NEW b \in 1 .. Len(admitted), BarrierAt(d, b),
         LinesKept, Routed' = Routed, UNCHANGED finished, Given(b)' = Given(b),
         UNCHANGED barrierCount, mark'[d] = mark[d],
         \A i \in 1 .. Len(admitted) : admitted'[i] = admitted[i],
         Len(admitted') = Len(admitted) \/ \E r \in Requests : Admits(r)
  PROVE  b \in 1 .. Len(admitted') /\ BarrierAt(d, b)'
<1>0. Routed \in Nat /\ Len(admitted) \in Nat /\ Routed <= Len(admitted)
  <2>1. admitted \in Seq(Entries) /\ queue \in Seq(Entries) /\ buffer \in Seq(Entries) /\ Routed \in Nat
    BY DEF PathInv, LegacyTypes
  <2> QED BY <2>1, LenProperties DEF Routed
<1>1. \A w \in Workers : \A y : InLine(w, y)' <=> InLine(w, y)
  BY KeptLine
<1>2. \A w \in Workers : Line(w)' = Line(w)
  BY DEF LinesKept
<1>3. Given(b) \subseteq Workers
  BY <1>0, GivenAreWorkers
<1>4. Answered(b)' = Answered(b)
  BY <1>1, <1>3 DEF Answered
<1>5. \A i \in Routed + 1 .. Len(admitted') : admitted'[i] = Barrier => i = b
  <2>1. CASE Len(admitted') = Len(admitted)
    BY <1>0, <2>1 DEF BarrierAt
  <2>2. ASSUME NEW r \in Requests, Admits(r) PROVE \A i \in Routed + 1 .. Len(admitted') : admitted'[i] = Barrier => i = b
    <3>1. r # Barrier /\ Len(admitted') = Len(admitted) + 1 /\ admitted'[Len(admitted) + 1] = r
      BY <2>2, LegacyAssumption DEF Admits
    <3>2. \A i \in Routed + 1 .. Len(admitted) : admitted'[i] = Barrier => i = b
      BY <1>0 DEF BarrierAt
    <3> QED BY <1>0, <3>1, <3>2
  <2> QED BY <2>1, <2>2
<1>6. \A w \in Workers : OneBarrierIn(w)'
  BY <1>2 DEF BarrierAt, OneBarrierIn
<1>7. ASSUME NEW x \in Requests, Covered(b, x) PROVE Covered(b, x)'
  <2>1. ShardOf[x.sku] \in Workers
    BY LegacyAssumption, ShardIsWorker DEF Entries
  <2>2. PICK w \in Workers : w = ShardOf[x.sku]
    BY <2>1
  <2>3. Ahead(w, x)' <=> Ahead(w, x)
    BY <1>2 DEF Ahead
  <2>4. x \in finished \/ (w \notin Given(b) /\ InLine(w, x)) \/ Ahead(w, x)
    BY <1>7, <2>2 DEF Covered
  <2>5. x \in finished' \/ (w \notin Given(b)' /\ InLine(w, x)') \/ Ahead(w, x)'
    BY <1>1, <2>3, <2>4
  <2> QED BY <2>2, <2>5 DEF Covered
<1>8. \A i \in 1 .. Routed' : \A x \in Requests : i < b /\ admitted'[i] = x => Covered(b, x)'
  BY <1>0, <1>7 DEF BarrierAt
<1>9. barrierCount' = Cardinality(Answered(b)')
  BY <1>4 DEF BarrierAt
<1>10. \A w \in Workers : InLine(w, Barrier)' => w \in Given(b)'
  BY <1>1 DEF BarrierAt
<1>11. mark'[d] < b /\ admitted'[b] = Barrier /\ b \in 1 .. Len(admitted')
  BY <1>0 DEF BarrierAt, Admits
<1> QED BY <1>5, <1>6, <1>8, <1>9, <1>10, <1>11 DEF BarrierAt

LEMMA NoBarrierKept ==
  ASSUME PathInv, NoBarrier, LinesKept, Routed' = Routed,
         \A i \in 1 .. Len(admitted) : admitted'[i] = admitted[i],
         Len(admitted') = Len(admitted) \/ \E r \in Requests : Admits(r)
  PROVE  NoBarrier'
<1>0. Routed \in Nat /\ Len(admitted) \in Nat
  BY LenProperties DEF PathInv, LegacyTypes
<1>1. \A w \in Workers : ~InLine(w, Barrier)'
  BY KeptLine DEF NoBarrier
<1>2. CASE Len(admitted') = Len(admitted)
  BY <1>0, <1>1, <1>2 DEF NoBarrier
<1>3. ASSUME NEW r \in Requests, Admits(r) PROVE NoBarrier'
  <2>1. r # Barrier /\ Len(admitted') = Len(admitted) + 1 /\ admitted'[Len(admitted) + 1] = r
    BY <1>3, LegacyAssumption DEF Admits
  <2>2. \A i \in Routed + 1 .. Len(admitted) : admitted'[i] # Barrier
    BY <1>0 DEF NoBarrier
  <2>3. \A i \in Routed' + 1 .. Len(admitted') : admitted'[i] # Barrier
    BY <1>0, <2>1, <2>2
  <2> QED BY <1>1, <2>3 DEF NoBarrier
<1> QED BY <1>2, <1>3

LEMMA BarrierInvKept ==
  ASSUME PathInv, BarrierInv, LinesKept, Routed' = Routed, running' => running,
         UNCHANGED <<finished, barrierCount, drainAt, mark>>,
         \A b \in 1 .. Len(admitted) : Given(b)' = Given(b),
         \A i \in 1 .. Len(admitted) : admitted'[i] = admitted[i],
         Len(admitted') = Len(admitted) \/ \E r \in Requests : Admits(r)
  PROVE  BarrierInv'
<1> SUFFICES ASSUME running PROVE BarrierInv'
  BY DEF BarrierInv
<1>1. (\A d \in Drainers : drainAt'[d] # "wait") => NoBarrier'
  BY NoBarrierKept DEF BarrierInv
<1>2. ASSUME NEW d \in Drainers, drainAt'[d] = "wait"
      PROVE  \E b \in 1 .. Len(admitted') : BarrierAt(d, b)'
  <2>1. PICK b \in 1 .. Len(admitted) : BarrierAt(d, b)
    BY <1>2 DEF BarrierInv
  <2> QED BY <2>1, BarrierKept
<1> QED BY <1>1, <1>2 DEF BarrierInv

LEMMA GivenKept ==
  ASSUME Routed' = Routed, NEW b, UNCHANGED <<dispatcherAt, fanTo>> \/ (dispatcherAt # "fan" /\ dispatcherAt' # "fan")
  PROVE  Given(b)' = Given(b)
BY DEF Given

(* The step of the dispatcher that turns to the barrier.                   *)
LEMMA BarrierPrepare ==
  ASSUME PathInv, BarrierInv, LoopTest \/ PopBatch \/ CountRequest \/ StartBarrier
  PROVE  BarrierInv'
<1>0. /\ DispatcherQuiet /\ Routed' = Routed /\ dispatcherAt # "fan" /\ LinesKept
      /\ \/ dispatcherAt' # "fan" /\ UNCHANGED barrierCount
         \/ dispatcherAt' = "fan" /\ fanTo' = 0 /\ barrierCount' = 0 /\ Head(buffer) = Barrier
  BY PrepareEffect
<1>1. CASE dispatcherAt' # "fan" /\ UNCHANGED barrierCount
  BY <1>0, <1>1, GivenKept, BarrierInvKept DEF DispatcherQuiet
<1>2. CASE dispatcherAt' = "fan" /\ fanTo' = 0 /\ barrierCount' = 0 /\ Head(buffer) = Barrier
  <2> SUFFICES ASSUME running PROVE BarrierInv'
    BY <1>0 DEF BarrierInv, DispatcherQuiet
  <2>1. buffer # <<>> /\ buffer \in Seq(Entries) /\ admitted \in Seq(Entries) /\ queue \in Seq(Entries) /\ Routed \in Nat
    <3>1. dispatcherAt' # "fan" \/ dispatcherAt = "route"
      BY DEF LoopTest, PopBatch, CountRequest, StartBarrier, DispatcherGoes
    <3>2. dispatcherAt = "route" => buffer # <<>>
      BY DEF PathInv
    <3>3. buffer \in Seq(Entries) /\ admitted \in Seq(Entries) /\ queue \in Seq(Entries) /\ Routed \in Nat
      BY DEF PathInv, LegacyTypes
    <3> QED BY <1>2, <3>1, <3>2, <3>3
  <2>2. Head(buffer) = buffer[1] /\ Len(buffer) \in Nat \ {0} /\ Len(admitted) \in Nat /\ Len(queue) \in Nat
    BY <2>1, HeadTailProperties, EmptySeq, LenProperties
  <2>3. admitted[Routed + 1] = Barrier /\ Routed + 1 \in Routed + 1 .. Len(admitted)
    <3>1. 1 \in 1 .. Len(buffer) /\ buffer[1] = Barrier
      BY <1>2, <2>2
    <3>2. Routed + 1 <= Len(admitted)
      BY <2>2 DEF Routed
    <3> QED BY <2>1, <2>2, <3>1, <3>2 DEF PathInv
  <2>4. ~NoBarrier
    BY <2>3 DEF NoBarrier
  <2>5. \A b \in 1 .. Len(admitted) : Given(b)' = Given(b)
    BY <1>0, <1>2, <2>1 DEF Given
  <2>6. ASSUME NEW d \in Drainers, drainAt'[d] = "wait"
        PROVE  \E b \in 1 .. Len(admitted') : BarrierAt(d, b)'
    <3>1. PICK b \in 1 .. Len(admitted) : BarrierAt(d, b)
      BY <1>0, <2>6 DEF BarrierInv, DispatcherQuiet
    <3>2. b = Routed + 1
      BY <2>3, <3>1 DEF BarrierAt
    <3>3. Given(b) = {}
      BY <1>0, <2>1, <3>2 DEF Given
    <3>4. Answered(b) = {}
      BY <3>3 DEF Answered
    <3>5. barrierCount = 0
      BY <3>1, <3>4, FS_EmptySet DEF BarrierAt
    <3> QED BY <1>0, <1>2, <2>5, <3>1, <3>5, BarrierKept DEF DispatcherQuiet
  <2> QED BY <1>0, <1>2, <2>4, <2>6 DEF BarrierInv, DispatcherQuiet
<1> QED BY <1>0, <1>1, <1>2

(* A request goes to its worker.                                           *)
LEMMA BarrierPush ==
  ASSUME PathInv, BarrierInv, running, DispatcherQuiet, UNCHANGED barrierCount,
         NEW r \in Requests, r = admitted[Routed + 1], Routed + 1 <= Len(admitted),
         AppendsTo(ShardOf[r.sku], r), Routed' = Routed + 1,
         dispatcherAt # "fan", dispatcherAt' # "fan"
  PROVE  BarrierInv'
<1>0. /\ Routed \in Nat /\ Len(admitted) \in Nat /\ LegacyTypes /\ r # Barrier
      /\ Len(admitted') = Len(admitted) /\ UNCHANGED <<admitted, drainAt, mark, finished>>
  BY LenProperties, LegacyAssumption DEF PathInv, LegacyTypes, DispatcherQuiet
<1>1. PICK w \in Workers : w = ShardOf[r.sku] /\ AppendsTo(w, r)
  BY ShardIsWorker, <1>0 DEF Entries
<1>2. r \in Entries
  BY DEF Entries
<1>3. /\ Len(Line(w)) \in Nat /\ Len(Line(w)') = Len(Line(w)) + 1
      /\ \A i \in 1 .. Len(Line(w)) : Line(w)'[i] = Line(w)[i]
      /\ Line(w)'[Len(Line(w)) + 1] = r
      /\ \A v \in Workers : \A y : InLine(v, y)' <=> InLine(v, y) \/ (v = w /\ y = r)
  BY <1>0, <1>1, <1>2, AppendedLine
<1>4. \A v \in Workers : v # w => Line(v)' = Line(v)
  BY <1>1 DEF AppendsTo
<1>5. \A v \in Workers : InLine(v, Barrier)' <=> InLine(v, Barrier)
  BY <1>0, <1>3
<1>6. \A v \in Workers : \A y : Ahead(v, y) => Ahead(v, y)'
  <2>1. ASSUME NEW y, Ahead(w, y) PROVE Ahead(w, y)'
    <3>1. PICK j, k \in 1 .. Len(Line(w)) : j < k /\ Line(w)[j] = y /\ Line(w)[k] = Barrier
      BY <2>1 DEF Ahead
    <3>2. j \in 1 .. Len(Line(w)') /\ k \in 1 .. Len(Line(w)')
      BY <1>3
    <3> QED BY <1>3, <3>1, <3>2 DEF Ahead
  <2>2. \A v \in Workers : \A y : v # w => (Ahead(v, y)' <=> Ahead(v, y))
    BY <1>4 DEF Ahead
  <2> QED BY <2>1, <2>2
<1>7. (\A d \in Drainers : drainAt'[d] # "wait") => NoBarrier'
  BY <1>0, <1>5 DEF BarrierInv, NoBarrier
<1>8. ASSUME NEW d \in Drainers, drainAt'[d] = "wait"
      PROVE  \E b \in 1 .. Len(admitted') : BarrierAt(d, b)'
  <2>1. PICK b \in 1 .. Len(admitted) : BarrierAt(d, b)
    BY <1>0, <1>8 DEF BarrierInv
  <2>2. b # Routed + 1 /\ b \in Nat
    BY <1>0, <2>1 DEF BarrierAt
  <2>3. Given(b)' = Given(b)
    BY <1>0, <2>2 DEF Given
  <2>4. Given(b) \subseteq Workers
    BY <2>2, GivenAreWorkers
  <2>5. Answered(b)' = Answered(b)
    BY <1>5, <2>3, <2>4 DEF Answered
  <2>6. \A v \in Workers : OneBarrierIn(v)'
    <3>1. OneBarrierIn(w)
      BY <2>1 DEF BarrierAt
    <3>2. OneBarrierIn(w)'
      BY <1>0, <1>3, <3>1 DEF OneBarrierIn
    <3>3. \A v \in Workers : v # w => OneBarrierIn(v)'
      BY <1>4, <2>1 DEF BarrierAt, OneBarrierIn
    <3> QED BY <3>2, <3>3
  <2>7. ASSUME NEW i \in 1 .. Routed', NEW x \in Requests, i < b, admitted'[i] = x PROVE Covered(b, x)'
    <3>1. PICK v \in Workers : v = ShardOf[x.sku]
      BY ShardIsWorker, LegacyAssumption DEF Entries
    <3>2. CASE i \in 1 .. Routed
      <4>1. x \in finished \/ (v \notin Given(b) /\ InLine(v, x)) \/ Ahead(v, x)
        BY <1>0, <2>1, <2>7, <3>1, <3>2 DEF BarrierAt, Covered
      <4>2. x \in finished' \/ (v \notin Given(b)' /\ InLine(v, x)') \/ Ahead(v, x)'
        BY <1>0, <1>3, <1>6, <2>3, <4>1
      <4> QED BY <3>1, <4>2 DEF Covered
    <3>3. CASE i = Routed + 1
      <4>1. x = r /\ v = w /\ b > Routed + 1
        BY <1>0, <1>1, <2>2, <2>7, <3>1, <3>3
      <4>2. Given(b) = {}
        BY <1>0, <2>2, <4>1 DEF Given
      <4>3. v \notin Given(b)' /\ InLine(v, x)'
        BY <1>3, <2>3, <4>1, <4>2
      <4> QED BY <3>1, <4>3 DEF Covered
    <3> QED BY <1>0, <3>2, <3>3
  <2>8. \A i \in Routed' + 1 .. Len(admitted') : admitted'[i] = Barrier => i = b
    BY <1>0, <2>1 DEF BarrierAt
  <2>9. barrierCount' = Cardinality(Answered(b)')
    BY <2>1, <2>5 DEF BarrierAt
  <2>10. \A v \in Workers : InLine(v, Barrier)' => v \in Given(b)'
    BY <1>5, <2>1, <2>3 DEF BarrierAt
  <2>11. mark'[d] < b /\ admitted'[b] = Barrier /\ b \in 1 .. Len(admitted')
    BY <1>0, <2>1 DEF BarrierAt
  <2>12. BarrierAt(d, b)'
    BY <2>6, <2>7, <2>8, <2>9, <2>10, <2>11 DEF BarrierAt
  <2> QED BY <2>11, <2>12
<1> QED BY <1>0, <1>7, <1>8 DEF BarrierInv

(* One more worker is given the barrier.                                   *)
LEMMA BarrierFan ==
  ASSUME PathInv, PathInv', BarrierInv, running, DispatcherQuiet, UNCHANGED barrierCount,
         Barrier = admitted[Routed + 1], Routed + 1 <= Len(admitted),
         AppendsTo(fanTo, Barrier), dispatcherAt = "fan",
         \/ fanTo = WorkerCount - 1 /\ dispatcherAt' # "fan" /\ Routed' = Routed + 1
         \/ fanTo # WorkerCount - 1 /\ fanTo' = fanTo + 1 /\ dispatcherAt' = "fan" /\ Routed' = Routed
  PROVE  BarrierInv'
<1>0. /\ Routed \in Nat /\ Routed' \in Nat /\ Len(admitted) \in Nat /\ LegacyTypes
      /\ Len(admitted') = Len(admitted) /\ UNCHANGED <<admitted, drainAt, mark, finished>>
      /\ fanTo \in Workers /\ WorkerCount \in Nat \ {0}
  BY LenProperties, LegacyAssumption DEF PathInv, LegacyTypes, DispatcherQuiet
<1>1. PICK w \in Workers : w = fanTo /\ AppendsTo(w, Barrier)
  BY <1>0
<1>2. Barrier \in Entries
  BY DEF Entries
<1>3. /\ Len(Line(w)) \in Nat /\ Len(Line(w)') = Len(Line(w)) + 1
      /\ \A i \in 1 .. Len(Line(w)) : Line(w)'[i] = Line(w)[i]
      /\ Line(w)'[Len(Line(w)) + 1] = Barrier
      /\ \A v \in Workers : \A y : InLine(v, y)' <=> InLine(v, y) \/ (v = w /\ y = Barrier)
  BY <1>0, <1>1, <1>2, AppendedLine
<1>4. \A v \in Workers : v # w => Line(v)' = Line(v)
  BY <1>1 DEF AppendsTo
<1>5. ~NoBarrier
  BY <1>0 DEF NoBarrier
<1>6. \A v \in Workers : \A y : Ahead(v, y) => Ahead(v, y)'
  <2>1. ASSUME NEW y, Ahead(w, y) PROVE Ahead(w, y)'
    <3>1. PICK j, k \in 1 .. Len(Line(w)) : j < k /\ Line(w)[j] = y /\ Line(w)[k] = Barrier
      BY <2>1 DEF Ahead
    <3>2. j \in 1 .. Len(Line(w)') /\ k \in 1 .. Len(Line(w)')
      BY <1>3
    <3> QED BY <1>3, <3>1, <3>2 DEF Ahead
  <2>2. \A v \in Workers : \A y : v # w => (Ahead(v, y)' <=> Ahead(v, y))
    BY <1>4 DEF Ahead
  <2> QED BY <2>1, <2>2
<1>7. \A y : InLine(w, y) => Ahead(w, y)'
  <2> SUFFICES ASSUME NEW y, InLine(w, y) PROVE Ahead(w, y)'
    OBVIOUS
  <2>1. PICK j \in 1 .. Len(Line(w)) : Line(w)[j] = y
    BY DEF InLine
  <2>2. j \in 1 .. Len(Line(w)') /\ Len(Line(w)) + 1 \in 1 .. Len(Line(w)') /\ j < Len(Line(w)) + 1
    BY <1>3
  <2> QED BY <1>3, <2>1, <2>2 DEF Ahead
<1>8. ASSUME NEW d \in Drainers, drainAt'[d] = "wait"
      PROVE  \E b \in 1 .. Len(admitted') : BarrierAt(d, b)'
  <2>1. PICK b \in 1 .. Len(admitted) : BarrierAt(d, b)
    BY <1>0, <1>8 DEF BarrierInv
  <2>2. b = Routed + 1
    <3>1. Routed + 1 \in Routed + 1 .. Len(admitted)
      BY <1>0
    <3> QED BY <2>1, <3>1 DEF BarrierAt
  <2>3. Given(b) = 0 .. w - 1 /\ w \in Nat
    BY <1>0, <1>1, <2>2 DEF Given, Workers
  <2>4. Given(b)' = 0 .. w
    <3>1. CASE fanTo = WorkerCount - 1
      BY <1>0, <1>1, <2>2, <3>1 DEF Given, Workers
    <3>2. CASE fanTo # WorkerCount - 1
      <4>1. fanTo' = w + 1 /\ dispatcherAt' = "fan" /\ Routed' = Routed
        BY <1>1, <3>2
      <4>2. ~(b <= Routed') /\ b = Routed' + 1
        BY <1>0, <2>2, <4>1
      <4>3. Given(b)' = 0 .. fanTo' - 1
        BY <4>1, <4>2 DEF Given
      <4>4. fanTo' - 1 = w
        BY <2>3, <4>1
      <4> QED BY <4>3, <4>4
    <3> QED BY <3>1, <3>2
  <2>5. Given(b)' = Given(b) \cup {w}
    BY <2>3, <2>4
  <2>6. ~InLine(w, Barrier)
    BY <2>1, <2>3 DEF BarrierAt
  <2>7. Given(b) \subseteq Workers
    BY <1>0, <2>2, GivenAreWorkers
  <2>8. Answered(b)' = Answered(b)
    BY <1>3, <2>3, <2>5, <2>7 DEF Answered
  <2>9. \A v \in Workers : OneBarrierIn(v)'
    <3>1. OneBarrierIn(w)'
      BY <1>3, <2>6 DEF OneBarrierIn, InLine
    <3>2. \A v \in Workers : v # w => OneBarrierIn(v)'
      BY <1>4, <2>1 DEF BarrierAt, OneBarrierIn
    <3> QED BY <3>1, <3>2
  <2>10. ASSUME NEW i \in 1 .. Routed', NEW x \in Requests, i < b, admitted'[i] = x PROVE Covered(b, x)'
    <3>1. PICK v \in Workers : v = ShardOf[x.sku]
      BY ShardIsWorker, LegacyAssumption DEF Entries
    <3>2. i \in 1 .. Routed
      BY <1>0, <2>2, <2>10
    <3>3. x \in finished \/ (v \notin Given(b) /\ InLine(v, x)) \/ Ahead(v, x)
      BY <1>0, <2>1, <2>10, <3>1, <3>2 DEF BarrierAt, Covered
    <3>4. x \in finished' \/ (v \notin Given(b)' /\ InLine(v, x)') \/ Ahead(v, x)'
      BY <1>0, <1>3, <1>6, <1>7, <2>5, <3>3
    <3> QED BY <3>1, <3>4 DEF Covered
  <2>11. \A i \in Routed' + 1 .. Len(admitted') : admitted'[i] = Barrier => i = b
    <3>1. \A i \in Routed + 1 .. Len(admitted) : admitted[i] = Barrier => i = b
      BY <2>1 DEF BarrierAt
    <3>2. Routed \in Nat /\ Len(admitted) \in Nat /\ Len(admitted') = Len(admitted) /\ (Routed' = Routed + 1 \/ Routed' = Routed)
      BY <1>0
    <3>3. \A i \in Routed' + 1 .. Len(admitted') : i \in Routed + 1 .. Len(admitted)
      BY ONLY <3>2
    <3>4. admitted' = admitted
      BY <1>0
    <3> QED BY <3>1, <3>3, <3>4
  <2>12. barrierCount' = Cardinality(Answered(b)')
    BY <2>1, <2>8 DEF BarrierAt
  <2>13. \A v \in Workers : InLine(v, Barrier)' => v \in Given(b)'
    BY <1>3, <2>1, <2>5 DEF BarrierAt
  <2>14. mark'[d] < b /\ admitted'[b] = Barrier /\ b \in 1 .. Len(admitted')
    BY <1>0, <2>1 DEF BarrierAt
  <2>15. BarrierAt(d, b)'
    BY <2>9, <2>10, <2>11, <2>12, <2>13, <2>14 DEF BarrierAt
  <2> QED BY <2>14, <2>15
<1> QED BY <1>0, <1>5, <1>8 DEF BarrierInv

(* A worker is done with the head of its line.                             *)
LEMMA BarrierAdvance ==
  ASSUME PathInv, GuardInv, BarrierInv, running, WorkQuiet, Routed' = Routed, NEW w \in Workers, Advances(w)
  PROVE  BarrierInv'
<1>0. /\ Routed \in Nat /\ Len(admitted) \in Nat /\ LegacyTypes /\ barrierCount \in Nat
      /\ UNCHANGED <<admitted, drainAt, mark, dispatcherAt, fanTo>>
  BY LenProperties DEF PathInv, LegacyTypes, WorkQuiet
<1> DEFINE y == Head(Line(w))
<1>1. /\ Len(Line(w)) \in Nat \ {0} /\ Len(Line(w)') = Len(Line(w)) - 1
      /\ \A i \in 1 .. Len(Line(w)) - 1 : Line(w)'[i] = Line(w)[i + 1]
      /\ Line(w)[1] = y /\ y \in Entries
      /\ \A v \in Workers : \A x : InLine(v, x)' => InLine(v, x)
      /\ \A v \in Workers : \A x : InLine(v, x) => InLine(v, x)' \/ (v = w /\ x = y)
  BY <1>0, AdvancedLine
<1>2. /\ \A v \in Workers : v # w => Line(v)' = Line(v)
      /\ finished' = finished \cup {y}
      /\ barrierCount' = IF y = Barrier THEN barrierCount + 1 ELSE barrierCount
  BY DEF Advances
<1> HIDE DEF y
<1>3. InLine(w, y)
  BY <1>1 DEF InLine
<1>4. NoBarrier => NoBarrier'
  BY <1>0, <1>1 DEF NoBarrier
<1>5. ASSUME NEW d \in Drainers, drainAt'[d] = "inject" PROVE barrierCount' = 0
  <2>1. barrierCount = 0
    BY <1>0, <1>5 DEF BarrierInv
  <2>2. CASE \A e \in Drainers : drainAt[e] # "wait"
    <3>1. y # Barrier
      BY <1>3, <2>2 DEF BarrierInv, NoBarrier
    <3> QED BY <1>2, <2>1, <3>1
  <2>3. ASSUME NEW e \in Drainers, drainAt[e] = "wait" PROVE FALSE
    BY <1>0, <1>5, <2>3 DEF GuardInv
  <2> QED BY <2>2, <2>3
<1>6. ASSUME NEW d \in Drainers, drainAt'[d] = "wait"
      PROVE  \E b \in 1 .. Len(admitted') : BarrierAt(d, b)'
  <2>1. PICK b \in 1 .. Len(admitted) : BarrierAt(d, b)
    BY <1>0, <1>6 DEF BarrierInv
  <2>2. Given(b)' = Given(b)
    BY <1>0 DEF Given
  <2>3. Given(b) \subseteq Workers /\ IsFiniteSet(Workers)
    BY <1>0, GivenAreWorkers
  <2>4. \A v \in Workers : OneBarrierIn(v)'
    <3>1. OneBarrierIn(w)
      BY <2>1 DEF BarrierAt
    <3>2. OneBarrierIn(w)'
      <4> SUFFICES ASSUME NEW j \in 1 .. Len(Line(w)'), NEW k \in 1 .. Len(Line(w)'),
                          Line(w)'[j] = Barrier, Line(w)'[k] = Barrier
                   PROVE  j = k
        BY DEF OneBarrierIn
      <4>1. j + 1 \in 1 .. Len(Line(w)) /\ k + 1 \in 1 .. Len(Line(w))
        BY <1>1
      <4>2. Line(w)[j + 1] = Barrier /\ Line(w)[k + 1] = Barrier
        BY <1>1
      <4>3. j + 1 = k + 1
        BY <3>1, <4>1, <4>2 DEF OneBarrierIn
      <4> QED BY <1>1, <4>3
    <3>3. \A v \in Workers : v # w => OneBarrierIn(v)'
      BY <1>2, <2>1 DEF BarrierAt, OneBarrierIn
    <3> QED BY <3>2, <3>3
  <2>5. barrierCount' = Cardinality(Answered(b)')
    <3>1. CASE y # Barrier
      <4>1. Answered(b)' = Answered(b)
        BY <1>1, <2>2, <2>3, <3>1 DEF Answered
      <4> QED BY <1>2, <2>1, <3>1, <4>1 DEF BarrierAt
    <3>2. CASE y = Barrier
      <4>1. w \in Given(b) /\ w \notin Answered(b)
        BY <1>3, <2>1, <3>2 DEF BarrierAt, Answered
      <4>2. ~InLine(w, Barrier)'
        <5>1. SUFFICES ASSUME NEW j \in 1 .. Len(Line(w)'), Line(w)'[j] = Barrier PROVE FALSE
          BY DEF InLine
        <5>2. j + 1 \in 1 .. Len(Line(w)) /\ 1 \in 1 .. Len(Line(w)) /\ j + 1 # 1
          BY <1>1
        <5>3. Line(w)[j + 1] = Barrier /\ Line(w)[1] = Barrier
          BY <1>1, <3>2, <5>1
        <5>4. OneBarrierIn(w)
          BY <2>1 DEF BarrierAt
        <5> QED BY <5>2, <5>3, <5>4 DEF OneBarrierIn
      <4>3. Answered(b)' = Answered(b) \cup {w}
        BY <1>1, <2>2, <2>3, <4>1, <4>2 DEF Answered
      <4>4. IsFiniteSet(Answered(b))
        BY <2>3, FS_Subset DEF Answered
      <4>5. Cardinality(Answered(b) \cup {w}) = Cardinality(Answered(b)) + 1
        BY <4>1, <4>4, FS_AddElement
      <4> QED BY <1>2, <2>1, <3>2, <4>3, <4>5 DEF BarrierAt
    <3> QED BY <3>1, <3>2
  <2>6. ASSUME NEW i \in 1 .. Routed', NEW x \in Requests, i < b, admitted'[i] = x PROVE Covered(b, x)'
    <3>1. PICK v \in Workers : v = ShardOf[x.sku]
      BY ShardIsWorker, LegacyAssumption DEF Entries
    <3>2. x \in finished \/ (v \notin Given(b) /\ InLine(v, x)) \/ Ahead(v, x)
      BY <1>0, <2>1, <2>6, <3>1 DEF BarrierAt, Covered
    <3>3. CASE x \in finished'
      BY <3>3 DEF Covered
    <3>4. CASE x # y /\ v \notin Given(b) /\ InLine(v, x)
      <4>1. v \notin Given(b)' /\ InLine(v, x)'
        BY <1>1, <2>2, <3>4
      <4> QED BY <3>1, <4>1 DEF Covered
    <3>5. CASE x # y /\ Ahead(v, x)
      <4>1. CASE v # w
        <5>1. Ahead(v, x)'
          BY <1>2, <3>5, <4>1 DEF Ahead
        <5> QED BY <3>1, <5>1 DEF Covered
      <4>2. CASE v = w
        <5>1. PICK j, k \in 1 .. Len(Line(w)) : j < k /\ Line(w)[j] = x /\ Line(w)[k] = Barrier
          BY <3>5, <4>2 DEF Ahead
        <5>2. j # 1
          BY <1>1, <3>5, <5>1
        <5>3. j - 1 \in 1 .. Len(Line(w)') /\ k - 1 \in 1 .. Len(Line(w)') /\ j - 1 < k - 1
          BY <1>1, <5>1, <5>2
        <5>4. Line(w)'[j - 1] = x /\ Line(w)'[k - 1] = Barrier
          BY <1>1, <5>1, <5>2
        <5>5. Ahead(v, x)'
          BY <4>2, <5>3, <5>4 DEF Ahead
        <5> QED BY <3>1, <5>5 DEF Covered
      <4> QED BY <4>1, <4>2
    <3> QED BY <1>2, <3>2, <3>3, <3>4, <3>5
  <2>7. \A i \in Routed' + 1 .. Len(admitted') : admitted'[i] = Barrier => i = b
    BY <1>0, <2>1 DEF BarrierAt
  <2>8. \A v \in Workers : InLine(v, Barrier)' => v \in Given(b)'
    BY <1>1, <2>1, <2>2 DEF BarrierAt
  <2>9. mark'[d] < b /\ admitted'[b] = Barrier /\ b \in 1 .. Len(admitted')
    BY <1>0, <2>1 DEF BarrierAt
  <2>10. BarrierAt(d, b)'
    BY <2>4, <2>5, <2>6, <2>7, <2>8, <2>9 DEF BarrierAt
  <2> QED BY <2>9, <2>10
<1> QED BY <1>0, <1>4, <1>5, <1>6 DEF BarrierInv

(* The barrier comes into the queue.                                       *)
LEMMA BarrierInject ==
  ASSUME PathInv, PathInv', PlacesInv, GuardInv, BarrierInv, running, NEW d \in Drainers, DrainInject(d)
  PROVE  BarrierInv'
<1>0. /\ Routed \in Nat /\ Len(admitted) \in Nat /\ Routed <= Len(admitted) /\ LegacyTypes
  <2>1. admitted \in Seq(Entries) /\ queue \in Seq(Entries) /\ buffer \in Seq(Entries) /\ Routed \in Nat /\ LegacyTypes
    BY DEF PathInv, LegacyTypes
  <2> QED BY <2>1, LenProperties DEF Routed
<1>1. /\ InjectQuiet /\ Routed' = Routed /\ LinesKept /\ Admits(Barrier)
      /\ drainAt[d] = "inject" /\ drainAt' = [drainAt EXCEPT ![d] = "wait"]
  BY InjectEffect
<1>2. \A e \in Drainers : e # d => drainAt'[e] = drainAt[e] /\ drainAt[e] \notin {"inject", "wait"}
  BY <1>0, <1>1 DEF GuardInv, LegacyTypes
<1>3. drainAt'[d] = "wait" /\ NoBarrier /\ barrierCount = 0
  BY <1>0, <1>1, <1>2 DEF BarrierInv, LegacyTypes
<1>4. PICK b \in Nat : b = Len(admitted) + 1
  BY <1>0
<1>5. /\ Len(admitted') = b /\ admitted'[b] = Barrier
      /\ \A i \in 1 .. Len(admitted) : admitted'[i] = admitted[i]
  BY <1>1, <1>4 DEF Admits
<1>6. Given(b)' = {}
  <2>1. dispatcherAt = "fan" => Routed + 1 <= Len(admitted)
    <3>1. dispatcherAt = "fan" => buffer # <<>>
      BY DEF PathInv
    <3>2. buffer \in Seq(Entries) /\ admitted \in Seq(Entries) /\ queue \in Seq(Entries)
      BY <1>0 DEF LegacyTypes
    <3> QED BY <3>1, <3>2, EmptySeq, LenProperties DEF Routed
  <2> QED BY <1>0, <1>1, <1>4, <2>1 DEF Given, InjectQuiet
<1>7. \A w \in Workers : ~InLine(w, Barrier)'
  BY <1>1, <1>3, KeptLine DEF NoBarrier
<1>8. \A w \in Workers : OneBarrierIn(w)'
  BY <1>7 DEF OneBarrierIn, InLine
<1>9. barrierCount' = Cardinality(Answered(b)')
  <2>1. Answered(b)' = {}
    BY <1>6 DEF Answered
  <2> QED BY <1>1, <1>3, <2>1, FS_EmptySet DEF InjectQuiet
<1>10. ASSUME NEW i \in 1 .. Routed', NEW x \in Requests, i < b, admitted'[i] = x PROVE Covered(b, x)'
  <2>1. PICK v \in Workers : v = ShardOf[x.sku]
    BY ShardIsWorker, LegacyAssumption DEF Entries
  <2>2. admitted[i] = x /\ i \in 1 .. Routed
    BY <1>0, <1>1, <1>5, <1>10
  <2>3. x \in finished \/ InLine(v, x)
    BY <2>1, <2>2, LegacyAssumption DEF PlacesInv
  <2>4. x \in finished' \/ (v \notin Given(b)' /\ InLine(v, x)')
    BY <1>1, <1>6, <2>3, KeptLine DEF InjectQuiet
  <2> QED BY <2>1, <2>4 DEF Covered
<1>11. \A i \in Routed' + 1 .. Len(admitted') : admitted'[i] = Barrier => i = b
  BY <1>0, <1>1, <1>3, <1>4, <1>5 DEF NoBarrier
<1>12. mark'[d] < b
  <2>1. mark[d] <= Len(admitted) /\ mark[d] \in Nat
    BY <1>0 DEF PathInv, LegacyTypes
  <2> QED BY <1>0, <1>1, <1>4, <2>1 DEF InjectQuiet
<1>13. BarrierAt(d, b)' /\ b \in 1 .. Len(admitted')
  BY <1>4, <1>5, <1>7, <1>8, <1>9, <1>10, <1>11, <1>12 DEF BarrierAt
<1>14. \A e \in Drainers : drainAt'[e] \in {"inject", "wait"} => e = d
  BY <1>2
<1> QED BY <1>3, <1>13, <1>14 DEF BarrierInv

(* A drain begins.                                                         *)
LEMMA BarrierCall ==
  ASSUME PathInv, GuardInv, BarrierInv, running, NEW d \in Drainers, DrainCall(d)
  PROVE  BarrierInv'
<1>0. LegacyTypes /\ Routed \in Nat /\ Len(admitted) \in Nat
  BY LenProperties DEF PathInv, LegacyTypes
<1>1. PathQuiet /\ Routed' = Routed /\ LinesKept
  BY ControlEffect
<1>2. /\ drainAt[d] = "out"
      /\ \A e \in Drainers : e # d => mark'[e] = mark[e]
      /\ drainAt' = [drainAt EXCEPT ![d] = IF inside THEN "ignored" ELSE "inject"]
      /\ barrierCount' = IF inside THEN barrierCount ELSE 0
  BY <1>0 DEF DrainCall, LegacyTypes
<1>3. \A e \in Drainers : e # d => drainAt'[e] = drainAt[e]
  BY <1>0, <1>2 DEF LegacyTypes
<1>4. NoBarrier => NoBarrier'
  BY <1>0, <1>1, NoBarrierKept DEF PathQuiet
<1>5. CASE inside
  <2>1. drainAt'[d] = "ignored" /\ barrierCount' = barrierCount
    BY <1>0, <1>2, <1>5 DEF LegacyTypes
  <2>2. ASSUME NEW e \in Drainers, drainAt'[e] = "wait"
        PROVE  \E b \in 1 .. Len(admitted') : BarrierAt(e, b)'
    <3>1. e # d /\ drainAt[e] = "wait" /\ mark'[e] = mark[e]
      BY <1>2, <1>3, <2>1, <2>2
    <3>2. PICK b \in 1 .. Len(admitted) : BarrierAt(e, b)
      BY <3>1 DEF BarrierInv
    <3>3. Given(b)' = Given(b)
      BY <1>1, GivenKept DEF PathQuiet
    <3> QED BY <1>1, <2>1, <3>1, <3>2, <3>3, BarrierKept DEF PathQuiet
  <2>3. (\A e \in Drainers : drainAt'[e] # "wait") => \A e \in Drainers : drainAt[e] # "wait"
    BY <1>2, <1>3
  <2>4. \A e \in Drainers : drainAt'[e] = "inject" => barrierCount' = 0
    BY <1>3, <2>1 DEF BarrierInv
  <2> QED BY <1>4, <2>2, <2>3, <2>4 DEF BarrierInv
<1>6. CASE ~inside
  <2>1. \A e \in Drainers : drainAt[e] # "wait"
    BY <1>6 DEF GuardInv
  <2>2. \A e \in Drainers : drainAt'[e] # "wait"
    BY <1>0, <1>2, <1>3, <1>6, <2>1 DEF LegacyTypes
  <2> QED BY <1>2, <1>4, <1>6, <2>1, <2>2 DEF BarrierInv
<1> QED BY <1>5, <1>6

(* All the workers have counted the barrier: what was admitted before the  *)
(* drain is finished.                                                      *)
LEMMA BarrierReturn ==
  ASSUME PathInv, GuardInv, BarrierInv, running, NEW d \in Drainers, DrainReturn(d)
  PROVE  BarrierInv' /\ Before(mark[d]) \subseteq finished
<1>0. LegacyTypes /\ Routed \in Nat /\ Len(admitted) \in Nat /\ admitted \in Seq(Entries)
  BY LenProperties DEF PathInv, LegacyTypes
<1>1. PathQuiet /\ Routed' = Routed /\ LinesKept
  BY ControlEffect
<1>2. /\ drainAt[d] = "wait" /\ barrierCount >= WorkerCount
      /\ drainAt' = [drainAt EXCEPT ![d] = "drained"]
  BY DEF DrainReturn
<1>3. PICK b \in 1 .. Len(admitted) : BarrierAt(d, b)
  BY <1>2 DEF BarrierInv
<1>4. b \in Nat /\ mark[d] \in Nat /\ mark[d] < b
  BY <1>0, <1>3 DEF BarrierAt, LegacyTypes
<1>5. Answered(b) = Workers
  <2>1. Answered(b) \subseteq Workers /\ IsFiniteSet(Workers) /\ Cardinality(Workers) = WorkerCount
    BY <1>4, GivenAreWorkers DEF Answered
  <2>2. Cardinality(Answered(b)) >= Cardinality(Workers)
    BY <1>2, <1>3, <2>1 DEF BarrierAt
  <2>3. /\ IsFiniteSet(Answered(b)) /\ Cardinality(Answered(b)) <= Cardinality(Workers)
        /\ Cardinality(Answered(b)) = Cardinality(Workers) => Answered(b) = Workers
    BY <2>1, FS_Subset
  <2>4. Cardinality(Answered(b)) \in Nat /\ Cardinality(Workers) \in Nat
    BY <2>1, <2>3, FS_CardinalityType
  <2> QED BY <2>2, <2>3, <2>4
<1>6. \A w \in Workers : w \in Given(b) /\ ~InLine(w, Barrier)
  BY <1>5 DEF Answered
<1>7. b <= Routed
  <2>1. fanTo \in Workers /\ WorkerCount \in Nat \ {0}
    BY <1>0, LegacyAssumption DEF LegacyTypes
  <2>2. fanTo \in Given(b) /\ fanTo \in Int
    BY <1>6, <2>1 DEF Workers
  <2> QED BY <2>2 DEF Given
<1>8. NoBarrier
  <2>1. \A i \in Routed + 1 .. Len(admitted) : admitted[i] # Barrier
    BY <1>0, <1>3, <1>4, <1>7 DEF BarrierAt
  <2> QED BY <1>6, <2>1 DEF NoBarrier
<1>9. Before(mark[d]) \subseteq finished
  <2> SUFFICES ASSUME NEW x \in Before(mark[d]) PROVE x \in finished
    OBVIOUS
  <2>1. PICK i \in 1 .. mark[d] : x = admitted[i] /\ x # Barrier
    BY DEF Before
  <2>2. i \in 1 .. Routed /\ i < b /\ i \in 1 .. Len(admitted)
    BY <1>0, <1>4, <1>7, <2>1
  <2>3. x \in Requests
    BY <1>0, <2>1, <2>2, ElementOfSeq, ShardIsWorker
  <2>4. PICK v \in Workers : v = ShardOf[x.sku]
    BY <2>3, ShardIsWorker, LegacyAssumption DEF Entries
  <2>5. x \in finished \/ (v \notin Given(b) /\ InLine(v, x)) \/ Ahead(v, x)
    BY <1>3, <2>1, <2>2, <2>3, <2>4 DEF BarrierAt, Covered
  <2>6. ~Ahead(v, x)
    BY <1>6 DEF Ahead, InLine
  <2> QED BY <1>6, <2>5, <2>6
<1>10. \A e \in Drainers : drainAt'[e] \notin {"inject", "wait"}
  BY <1>0, <1>2 DEF GuardInv, LegacyTypes
<1>11. NoBarrier'
  BY <1>0, <1>1, <1>8, NoBarrierKept DEF PathQuiet
<1> QED BY <1>9, <1>10, <1>11 DEF BarrierInv

LEMMA BarrierStep ==
  PathInv /\ PathInv' /\ PlacesInv /\ GuardInv /\ BarrierInv /\ [Next]_vars => BarrierInv'
<1> SUFFICES ASSUME PathInv, PathInv', PlacesInv, GuardInv, BarrierInv, [Next]_vars PROVE BarrierInv'
  OBVIOUS
<1>0. LegacyTypes
  BY DEF PathInv
<1>1. ASSUME NEW c \in Callers, CheckAdmission(c) \/ TryEnqueue(c) PROVE BarrierInv'
  <2>1. CallerQuiet /\ Routed' = Routed /\ LinesKept /\ (UNCHANGED admitted \/ \E r \in Requests : Admits(r))
    BY <1>1, CallerEffect
  <2>2. \A b : Given(b)' = Given(b)
    BY <2>1, GivenKept DEF CallerQuiet
  <2>3. \A i \in 1 .. Len(admitted) : admitted'[i] = admitted[i]
    BY <2>1 DEF Admits
  <2>4. Len(admitted') = Len(admitted) \/ \E r \in Requests : Admits(r)
    BY <2>1
  <2> QED BY <2>1, <2>2, <2>3, <2>4, BarrierInvKept DEF CallerQuiet
<1>2. CASE LoopTest \/ PopBatch \/ CountRequest \/ StartBarrier
  BY <1>2, BarrierPrepare
<1>3. CASE PushRequest \/ FanBarrier
  <2> SUFFICES ASSUME running PROVE BarrierInv'
    BY <1>3, HandOverEffect DEF BarrierInv, DispatcherQuiet
  <2>1. /\ DispatcherQuiet /\ UNCHANGED barrierCount /\ Routed + 1 <= Len(admitted)
        /\ Head(buffer) = admitted[Routed + 1]
        /\ \/ /\ dispatcherAt = "push" /\ Head(buffer) \in Requests
              /\ dispatcherAt' # "fan" /\ Routed' = Routed + 1
              /\ AppendsTo(ShardOf[Head(buffer).sku], Head(buffer))
           \/ /\ dispatcherAt = "fan" /\ Head(buffer) = Barrier
              /\ \/ fanTo = WorkerCount - 1 /\ dispatcherAt' # "fan" /\ Routed' = Routed + 1
                 \/ fanTo # WorkerCount - 1 /\ fanTo' = fanTo + 1 /\ dispatcherAt' = "fan" /\ Routed' = Routed
              /\ AppendsTo(fanTo, Barrier)
    BY <1>3, HandOverEffect
  <2>2. CASE dispatcherAt = "push"
    BY <2>1, <2>2, BarrierPush
  <2>3. CASE dispatcherAt = "fan"
    BY <2>1, <2>3, BarrierFan
  <2> QED BY <2>1, <2>2, <2>3
<1>4. ASSUME NEW w \in Workers, Work(w) PROVE BarrierInv'
  <2>1. WorkQuiet /\ Routed' = Routed /\ ((LinesKept /\ UNCHANGED <<finished, barrierCount>>) \/ Advances(w))
    BY <1>4, WorkEffect, WorkerStep
  <2>2. CASE LinesKept /\ UNCHANGED <<finished, barrierCount>>
    <3>1. \A b : Given(b)' = Given(b)
      BY <2>1, GivenKept DEF WorkQuiet
    <3> QED BY <2>1, <2>2, <3>1, BarrierInvKept DEF WorkQuiet
  <2>3. CASE Advances(w)
    <3>1. CASE running
      BY <2>1, <2>3, <3>1, BarrierAdvance
    <3>2. CASE ~running
      BY <2>1, <3>2 DEF BarrierInv, WorkQuiet
    <3> QED BY <3>1, <3>2
  <2> QED BY <2>1, <2>2, <2>3
<1>5. ASSUME NEW d \in Drainers, DrainInject(d) \/ DrainCall(d) \/ DrainReturn(d) PROVE BarrierInv'
  <2>1. running' = running
    BY <1>5 DEF DrainInject, DrainCall, DrainReturn, DrainUnchanged, stopVars
  <2>2. CASE running
    BY <1>5, <2>2, BarrierInject, BarrierCall, BarrierReturn
  <2>3. CASE ~running
    BY <2>1, <2>3 DEF BarrierInv
  <2> QED BY <2>2, <2>3
<1>6. CASE EnableCorrectnessCheck \/ PollResult \/ RequestStop \/ Join \/ UNCHANGED vars
  <2>1. PathQuiet /\ Routed' = Routed /\ LinesKept
    BY <1>6, ControlEffect
  <2>2. UNCHANGED <<barrierCount, drainAt>> /\ (UNCHANGED <<running, mark>> \/ ~running')
    BY <1>6 DEF EnableCorrectnessCheck, PollResult, RequestStop, Join, JoinDispatcher, JoinWorkers, StopWorker,
                StopUnchanged, vars, stopVars, drainVars
  <2>3. CASE ~running'
    BY <2>3 DEF BarrierInv
  <2>4. CASE UNCHANGED <<running, mark>>
    <3>1. \A b : Given(b)' = Given(b)
      BY <2>1, GivenKept DEF PathQuiet
    <3> QED BY <2>1, <2>2, <2>4, <3>1, BarrierInvKept DEF PathQuiet
  <2> QED BY <2>2, <2>3, <2>4
<1> QED BY <1>1, <1>2, <1>3, <1>4, <1>5, <1>6 DEF Next, Dispatcher

LEMMA DrainsKept ==
  ASSUME PathInv, [Next]_vars
  PROVE  \/ UNCHANGED <<drainAt, inside>>
         \/ \E d \in Drainers : DrainCall(d) \/ DrainInject(d) \/ DrainReturn(d)
<1>1. ASSUME NEW c \in Callers, CheckAdmission(c) \/ TryEnqueue(c) PROVE UNCHANGED <<drainAt, inside>>
  BY <1>1, CallerEffect DEF CallerQuiet
<1>2. CASE Dispatcher
  BY <1>2, PrepareEffect, HandOverEffect DEF Dispatcher, DispatcherQuiet
<1>3. ASSUME NEW w \in Workers, Work(w) PROVE UNCHANGED <<drainAt, inside>>
  BY <1>3, WorkerStep DEF WorkQuiet
<1>4. CASE EnableCorrectnessCheck \/ PollResult \/ RequestStop \/ Join \/ UNCHANGED vars
  BY <1>4 DEF EnableCorrectnessCheck, PollResult, RequestStop, Join, JoinDispatcher, JoinWorkers, StopWorker,
              StopUnchanged, vars, drainVars
<1> QED BY <1>1, <1>2, <1>3, <1>4 DEF Next

LEMMA GuardStep == PathInv /\ GuardInv /\ [Next]_vars => GuardInv'
<1> SUFFICES ASSUME PathInv, GuardInv, [Next]_vars PROVE GuardInv'
  OBVIOUS
<1>0. drainAt \in [Drainers -> {"out", "inject", "wait", "drained", "ignored"}] /\ inside \in BOOLEAN
  BY DEF PathInv, LegacyTypes
<1>1. CASE UNCHANGED <<drainAt, inside>>
  BY <1>1 DEF GuardInv
<1>2. ASSUME NEW d \in Drainers, DrainCall(d) PROVE GuardInv'
  <2>1. CASE inside
    <3>1. inside' = TRUE /\ drainAt' = [drainAt EXCEPT ![d] = "ignored"]
      BY <1>2, <2>1 DEF DrainCall
    <3> QED BY <1>0, <3>1 DEF GuardInv
  <2>2. CASE ~inside
    <3>1. inside' = TRUE /\ drainAt' = [drainAt EXCEPT ![d] = "inject"]
      BY <1>2, <2>2 DEF DrainCall
    <3>2. \A e \in Drainers : drainAt[e] \notin {"inject", "wait"}
      BY <2>2 DEF GuardInv
    <3> QED BY <1>0, <3>1, <3>2 DEF GuardInv
  <2> QED BY <2>1, <2>2
<1>3. ASSUME NEW d \in Drainers, DrainInject(d) PROVE GuardInv'
  <2>1. drainAt[d] = "inject" /\ drainAt' = [drainAt EXCEPT ![d] = "wait"] /\ inside' = inside
    BY <1>3 DEF DrainInject
  <2> QED BY <1>0, <2>1 DEF GuardInv
<1>4. ASSUME NEW d \in Drainers, DrainReturn(d) PROVE GuardInv'
  <2>1. drainAt[d] = "wait" /\ drainAt' = [drainAt EXCEPT ![d] = "drained"]
    BY <1>4 DEF DrainReturn
  <2>2. \A e \in Drainers : drainAt'[e] \notin {"inject", "wait"}
    BY <1>0, <2>1 DEF GuardInv
  <2> QED BY <2>2 DEF GuardInv
<1> QED BY <1>1, <1>2, <1>3, <1>4, DrainsKept

(* The histories only grow.                                                *)
LEMMA HistoryGrows ==
  ASSUME PathInv, [Next]_vars
  PROVE  /\ finished \subseteq finished' /\ (running' => running)
         /\ \A i \in 1 .. Len(admitted) : admitted'[i] = admitted[i]
         /\ \A d \in Drainers : drainAt[d] # "out" => mark'[d] = mark[d]
<1>0. LegacyTypes
  BY DEF PathInv
<1>1. ASSUME NEW c \in Callers, CheckAdmission(c) \/ TryEnqueue(c)
      PROVE  /\ UNCHANGED <<finished, running, mark>>
             /\ \A i \in 1 .. Len(admitted) : admitted'[i] = admitted[i]
  BY <1>1, CallerEffect DEF CallerQuiet, Admits
<1>2. CASE Dispatcher
  BY <1>2, PrepareEffect, HandOverEffect DEF Dispatcher, DispatcherQuiet
<1>3. ASSUME NEW w \in Workers, Work(w) PROVE UNCHANGED <<admitted, running, mark>> /\ finished \subseteq finished'
  BY <1>3, WorkEffect, WorkerStep DEF WorkQuiet, Advances
<1>4. ASSUME NEW d \in Drainers, DrainInject(d)
      PROVE  /\ UNCHANGED <<finished, running, mark>>
             /\ \A i \in 1 .. Len(admitted) : admitted'[i] = admitted[i]
  BY <1>4, InjectEffect DEF InjectQuiet, Admits
<1>5. CASE \/ EnableCorrectnessCheck \/ PollResult \/ RequestStop \/ Join
           \/ \E d \in Drainers : DrainCall(d) \/ DrainReturn(d)
           \/ UNCHANGED vars
  <2>1. PathQuiet
    BY <1>5, ControlEffect
  <2>2. running' => running
    BY <1>5 DEF EnableCorrectnessCheck, PollResult, RequestStop, Join, JoinDispatcher, JoinWorkers, StopWorker,
                DrainCall, DrainReturn, DrainUnchanged, stopVars, vars
  <2>3. \A d \in Drainers : drainAt[d] # "out" => mark'[d] = mark[d]
    <3>1. mark \in [Drainers \cup {"stop"} -> Nat] /\ "stop" \notin Drainers
      BY <1>0, LegacyAssumption DEF LegacyTypes
    <3>2. \/ UNCHANGED mark
          \/ mark' = [mark EXCEPT !["stop"] = Len(admitted)]
          \/ \E e \in Drainers : drainAt[e] = "out" /\ mark' = [mark EXCEPT ![e] = Len(admitted)]
      BY <1>5 DEF EnableCorrectnessCheck, PollResult, RequestStop, Join, JoinDispatcher, JoinWorkers, StopWorker,
                  DrainCall, DrainReturn, vars
    <3> QED BY <3>1, <3>2
  <2> QED BY <2>1, <2>2, <2>3 DEF PathQuiet
<1> QED BY <1>1, <1>2, <1>3, <1>4, <1>5 DEF Next

LEMMA DrainedStep ==
  PathInv /\ PathInv' /\ GuardInv /\ BarrierInv /\ DrainedMeansProcessed /\ [Next]_vars => DrainedMeansProcessed'
<1> SUFFICES ASSUME PathInv, PathInv', GuardInv, BarrierInv, DrainedMeansProcessed, [Next]_vars,
                    NEW d \in Drainers, drainAt'[d] = "drained", running'
             PROVE  Before(mark[d])' \subseteq finished'
  BY DEF DrainedMeansProcessed
<1>1. /\ finished \subseteq finished' /\ running
      /\ \A i \in 1 .. Len(admitted) : admitted'[i] = admitted[i]
      /\ drainAt[d] # "out" => mark'[d] = mark[d]
  BY HistoryGrows
<1>2. drainAt \in [Drainers -> {"out", "inject", "wait", "drained", "ignored"}]
  BY DEF PathInv, LegacyTypes
<1>3. drainAt[d] # "out" /\ (drainAt[d] # "drained" => DrainReturn(d))
  <2>1. CASE UNCHANGED <<drainAt, inside>>
    BY <2>1
  <2>2. ASSUME NEW e \in Drainers, DrainCall(e) PROVE drainAt[d] = "drained"
    BY <1>2, <2>2 DEF DrainCall
  <2>3. ASSUME NEW e \in Drainers, DrainInject(e) PROVE drainAt[d] = "drained"
    BY <1>2, <2>3 DEF DrainInject
  <2>4. ASSUME NEW e \in Drainers, DrainReturn(e) PROVE drainAt[d] = "drained" \/ (d = e /\ drainAt[d] = "wait")
    BY <1>2, <2>4 DEF DrainReturn
  <2> QED BY <2>1, <2>2, <2>3, <2>4, DrainsKept
<1>4. Before(mark[d]) \subseteq finished
  BY <1>1, <1>3, BarrierReturn DEF DrainedMeansProcessed
<1>5. mark[d] \in Nat /\ mark[d] <= Len(admitted) /\ Len(admitted) \in Nat
  BY LenProperties DEF PathInv, LegacyTypes
<1>6. ASSUME NEW x, x \in {admitted'[i] : i \in 1 .. mark'[d]} \ {Barrier} PROVE x \in finished'
  <2>1. PICK i \in 1 .. mark[d] : x = admitted[i]
    BY <1>1, <1>3, <1>5, <1>6
  <2>2. x \in Before(mark[d])
    BY <1>6, <2>1 DEF Before
  <2> QED BY <1>1, <1>4, <2>2
<1> QED BY <1>6 DEF Before

LEMMA DrainInvariant == Spec => [](GuardInv /\ BarrierInv /\ DrainedMeansProcessed)
<1>1. Init => GuardInv /\ BarrierInv /\ DrainedMeansProcessed
  <2> SUFFICES ASSUME Init PROVE GuardInv /\ BarrierInv /\ DrainedMeansProcessed
    OBVIOUS
  <2>1. \A d \in Drainers : drainAt[d] = "out"
    BY DEF Init
  <2>2. \A t : t = <<>> => Len(t) = 0
    OBVIOUS
  <2>3. admitted = <<>> /\ queue = <<>> /\ buffer = <<>>
    BY DEF Init
  <2>4. Len(admitted) = 0 /\ Len(queue) = 0 /\ Len(buffer) = 0
    BY <2>2, <2>3, Zenon
  <2>5. Routed + 1 .. Len(admitted) = {}
    BY <2>4 DEF Routed
  <2>6. ASSUME NEW w \in Workers, InLine(w, Barrier) PROVE FALSE
    <3>1. Line(w) = <<>> \o <<>>
      BY DEF Init, Line
    <3>2. Line(w) = <<>>
      BY <3>1, ConcatEmptySeq
    <3>3. Len(Line(w)) = 0
      BY <2>2, <3>2, Zenon
    <3> QED BY <2>6, <3>3 DEF InLine
  <2>7. NoBarrier
    BY <2>5, <2>6 DEF NoBarrier
  <2> QED BY <2>1, <2>7 DEF GuardInv, BarrierInv, DrainedMeansProcessed
<1> QED BY <1>1, LegacyInvariant, BarrierStep, GuardStep, DrainedStep, PTL DEF Spec

(* WaitEngineDrained, "Barrier Reached. Engine Drained.": a drain that has *)
(* passed the guard and returns while the engine runs has waited for every *)
(* request admitted before it was called.  The one barrier there is stands *)
(* behind them on every way to a worker, and barrier_reached_count is the  *)
(* number of workers that are past it.  No caller uses the id of a barrier *)
(* (LegacyAssumption).                                                     *)
THEOREM DrainWaitsForAll == Spec => []DrainedMeansProcessed
BY DrainInvariant, PTL

-----------------------------------------------------------------------------
(* The correctness check, for one caller that numbers its requests in      *)
(* order (and may repeat a number).                                        *)
InOrder ==
  /\ \A c, d \in Callers : c = d
  /\ \A c \in Callers : \A i, j \in 1 .. Len(Program[c]) : i <= j => Program[c][i].id <= Program[c][j].id

(* The order arrives at the queue, and what is to come is not below it.    *)
OrderInv ==
  /\ \A i, j \in 1 .. Len(admitted) :
       i <= j /\ admitted[i] # Barrier /\ admitted[j] # Barrier => admitted[i].id <= admitted[j].id
  /\ \A c \in Callers : \A j, k \in 1 .. Len(todo[c]) : j <= k => todo[c][j].id <= todo[c][k].id
  /\ \A c \in Callers : \A j \in 1 .. Len(todo[c]) : \A i \in 1 .. Len(admitted) :
       admitted[i] # Barrier => admitted[i].id <= todo[c][j].id
  /\ \A c \in Callers : Len(todo[c]) <= Len(Program[c])
  /\ (\E i \in 1 .. Len(admitted) : admitted[i] # Barrier) =>
       \E c \in Callers : Len(todo[c]) < Len(Program[c])

LEMMA OrderInit == InOrder /\ Init => OrderInv
<1> SUFFICES ASSUME InOrder, Init PROVE OrderInv
  OBVIOUS
<1>1. \A t : t = <<>> => Len(t) = 0
  OBVIOUS
<1>2. Len(admitted) = 0
  BY <1>1, Zenon DEF Init
<1>3. todo = Program /\ \A c \in Callers : Len(Program[c]) \in Nat
  BY LegacyAssumption, LenProperties DEF Init
<1> QED BY <1>2, <1>3 DEF OrderInv, InOrder

(* The caller goes on after its first n requests, the head of which, and   *)
(* then n is 1, or a barrier has come into the queue, or nothing.          *)
LEMMA OrderAfter ==
  ASSUME PathInv, OrderInv, NEW c \in Callers, \A d \in Callers : d = c,
         NEW n \in 1 .. Len(todo[c]), Len(todo'[c]) = Len(todo[c]) - n,
         \A j \in 1 .. Len(todo[c]) - n : todo'[c][j] = todo[c][n + j],
         UNCHANGED admitted \/ Admits(todo[c][1])
  PROVE  OrderInv'
<1>0. /\ Len(todo[c]) \in Nat /\ Len(admitted) \in Nat /\ Len(Program[c]) \in Nat
      /\ \A j \in 1 .. Len(todo[c]) : todo[c][j] \in Requests
      /\ \A i \in 1 .. Len(admitted) : admitted[i] \in Entries
  BY LegacyAssumption, LenProperties, ElementOfSeq DEF PathInv, LegacyTypes
<1>1. \A j \in 1 .. Len(todo'[c]) : n + j \in 1 .. Len(todo[c]) /\ todo'[c][j] = todo[c][n + j]
  BY <1>0
<1>2. \A j, k \in 1 .. Len(todo'[c]) : j <= k => todo'[c][j].id <= todo'[c][k].id
  <2> SUFFICES ASSUME NEW j \in 1 .. Len(todo'[c]), NEW k \in 1 .. Len(todo'[c]), j <= k
               PROVE  todo'[c][j].id <= todo'[c][k].id
    OBVIOUS
  <2>1. n + j <= n + k
    BY <1>0
  <2> QED BY <1>1, <2>1 DEF OrderInv
<1>3. Len(todo'[c]) < Len(Program[c])
  BY <1>0 DEF OrderInv
<1>4. CASE UNCHANGED admitted
  <2>1. \A j \in 1 .. Len(todo'[c]) : \A i \in 1 .. Len(admitted) :
          admitted[i] # Barrier => admitted[i].id <= todo'[c][j].id
    BY <1>1 DEF OrderInv
  <2>2. Len(todo'[c]) <= Len(Program[c])
    BY <1>0, <1>3
  <2> QED BY <1>2, <1>3, <1>4, <2>1, <2>2 DEF OrderInv
<1>5. CASE Admits(todo[c][1])
  <2>1. PICK r \in Requests : r = todo[c][1]
    BY <1>0
  <2>2. /\ Len(admitted') = Len(admitted) + 1 /\ admitted'[Len(admitted) + 1] = r /\ r.id \in Nat
        /\ \A i \in 1 .. Len(admitted) : admitted'[i] = admitted[i]
    BY <1>5, <2>1 DEF Admits, Requests
  <2>3. \A i \in 1 .. Len(admitted) : admitted[i] # Barrier => admitted[i].id <= r.id
    BY <1>0, <2>1 DEF OrderInv
  <2>4. ASSUME NEW i \in 1 .. Len(admitted'), NEW j \in 1 .. Len(admitted'), i <= j,
               admitted'[i] # Barrier, admitted'[j] # Barrier
        PROVE  admitted'[i].id <= admitted'[j].id
    <3>1. CASE j \in 1 .. Len(admitted)
      <4>1. i \in 1 .. Len(admitted)
        BY <1>0, <2>4, <3>1
      <4> QED BY <2>2, <2>4, <3>1, <4>1 DEF OrderInv
    <3>2. CASE j = Len(admitted) + 1 /\ i \in 1 .. Len(admitted)
      BY <2>2, <2>3, <2>4, <3>2
    <3>3. CASE j = Len(admitted) + 1 /\ i = j
      BY <2>2, <3>3
    <3> QED BY <1>0, <2>2, <2>4, <3>1, <3>2, <3>3
  <2>5. ASSUME NEW j \in 1 .. Len(todo'[c]), NEW i \in 1 .. Len(admitted'), admitted'[i] # Barrier
        PROVE  admitted'[i].id <= todo'[c][j].id
    <3>1. CASE i \in 1 .. Len(admitted)
      BY <1>1, <2>2, <2>5, <3>1 DEF OrderInv
    <3>2. CASE i = Len(admitted) + 1
      <4>1. 1 \in 1 .. Len(todo[c]) /\ 1 <= n + j
        BY <1>0
      <4>2. todo[c][1].id <= todo[c][n + j].id
        BY <1>1, <4>1 DEF OrderInv
      <4> QED BY <1>1, <2>1, <2>2, <3>2, <4>2
    <3> QED BY <1>0, <2>2, <3>1, <3>2
  <2>6. Len(todo'[c]) <= Len(Program[c])
    BY <1>0, <1>3
  <2>7. \A i, j \in 1 .. Len(admitted') :
          i <= j /\ admitted'[i] # Barrier /\ admitted'[j] # Barrier => admitted'[i].id <= admitted'[j].id
    BY <2>4
  <2>8. \A j \in 1 .. Len(todo'[c]) : \A i \in 1 .. Len(admitted') :
          admitted'[i] # Barrier => admitted'[i].id <= todo'[c][j].id
    BY <2>5
  <2> QED BY <1>2, <1>3, <2>6, <2>7, <2>8 DEF OrderInv
<1> QED BY <1>4, <1>5

LEMMA OrderStep == InOrder /\ PathInv /\ PathInv' /\ OrderInv /\ [Next]_vars => OrderInv'
<1> SUFFICES ASSUME InOrder, PathInv, PathInv', OrderInv, [Next]_vars PROVE OrderInv'
  OBVIOUS
<1>0. LegacyTypes /\ todo \in [Callers -> Seq(Requests)] /\ Len(admitted) \in Nat
  BY LenProperties DEF PathInv, LegacyTypes
<1>1. CASE UNCHANGED <<admitted, todo>>
  BY <1>1 DEF OrderInv
<1>2. ASSUME NEW c \in Callers, CheckAdmission(c) \/ TryEnqueue(c) PROVE OrderInv'
  <2>1. \/ UNCHANGED <<queue, admitted, todo>>
        \/ UNCHANGED <<queue, admitted>> /\ Shortens(c)
        \/ /\ todo[c] # <<>> /\ Head(todo[c]) \in Requests /\ Put(Head(todo[c]))
           /\ todo' = [todo EXCEPT ![c] = Tail(todo[c])]
    <3>1. callerAt[c] = "checked" => todo[c] # <<>>
      BY DEF PathInv
    <3> QED BY <1>0, <1>2, <3>1, CallEffect
  <2>2. \A d \in Callers : d = c
    BY DEF InOrder
  <2>3. CASE UNCHANGED admitted /\ Shortens(c)
    <3>1. PICK n \in 1 .. Len(todo[c]) : todo' = [todo EXCEPT ![c] = SubSeq(todo[c], n + 1, Len(todo[c]))]
      BY <2>3 DEF Shortens
    <3>2. /\ Len(todo'[c]) = Len(todo[c]) - n
          /\ \A j \in 1 .. Len(todo[c]) - n : todo'[c][j] = todo[c][n + j]
      BY <1>0, <3>1, SuffixIsSeq
    <3> QED BY <2>2, <2>3, <3>2, OrderAfter
  <2>4. CASE todo[c] # <<>> /\ Put(Head(todo[c])) /\ todo' = [todo EXCEPT ![c] = Tail(todo[c])]
    <3>1. /\ todo'[c] = Tail(todo[c]) /\ Len(todo[c]) \in Nat \ {0} /\ Head(todo[c]) = todo[c][1]
          /\ Len(todo'[c]) = Len(todo[c]) - 1
          /\ \A j \in 1 .. Len(todo'[c]) : todo'[c][j] = todo[c][j + 1]
      BY <1>0, <2>4, HeadTailProperties, EmptySeq
    <3>2. \A j \in 1 .. Len(todo[c]) - 1 : todo'[c][j] = todo[c][1 + j]
      BY <3>1
    <3>3. Admits(todo[c][1])
      <4>1. admitted \in Seq(Entries) /\ todo[c][1] \in Entries
        BY <1>0, <3>1, ElementOfSeq DEF LegacyTypes, Entries
      <4>2. admitted' = Append(admitted, todo[c][1])
        BY <2>4, <3>1 DEF Put
      <4> QED BY <1>0, <4>1, <4>2, AppendProperties DEF Admits
    <3>4. 1 \in 1 .. Len(todo[c])
      BY <3>1
    <3> QED BY <2>2, <3>1, <3>2, <3>3, <3>4, OrderAfter
  <2> QED BY <1>1, <2>1, <2>3, <2>4
<1>3. CASE Dispatcher
  BY <1>1, <1>3, PrepareEffect, HandOverEffect DEF Dispatcher, DispatcherQuiet
<1>4. ASSUME NEW w \in Workers, Work(w) PROVE OrderInv'
  BY <1>1, <1>4, WorkerStep DEF WorkQuiet
<1>5. ASSUME NEW d \in Drainers, DrainInject(d) PROVE OrderInv'
  <2>1. todo' = todo /\ Admits(Barrier)
    BY <1>5, InjectEffect DEF InjectQuiet
  <2>2. /\ Len(admitted') = Len(admitted) + 1 /\ admitted'[Len(admitted) + 1] = Barrier
        /\ \A i \in 1 .. Len(admitted) : admitted'[i] = admitted[i]
    BY <2>1 DEF Admits
  <2>3. \A i \in 1 .. Len(admitted') : admitted'[i] # Barrier => i \in 1 .. Len(admitted) /\ admitted'[i] = admitted[i]
    BY <1>0, <2>2
  <2> QED BY <2>1, <2>3 DEF OrderInv
<1>6. CASE \/ EnableCorrectnessCheck \/ PollResult \/ RequestStop \/ Join
           \/ \E d \in Drainers : DrainCall(d) \/ DrainReturn(d)
           \/ UNCHANGED vars
  BY <1>1, <1>6, ControlEffect DEF PathQuiet
<1> QED BY <1>2, <1>3, <1>4, <1>5, <1>6 DEF Next

(* The ids the dispatcher has counted.                                     *)
Ids == {admitted[i].id : i \in Passed}

PassedTo == IF dispatcherAt = "push" THEN Routed + 1 ELSE Routed

CheckType == check \in [on : BOOLEAN, expected : Nat \ {0}, gap : Nat, dup : Nat, last : Nat]

(* All counted ids are below the expected one, which is the next of one of *)
(* them.                                                                   *)
GapInv ==
  /\ CheckType
  /\ check.on => /\ \A id \in Ids : id < check.expected
                 /\ check.expected = 1 \/ check.expected - 1 \in Ids
  /\ GapsAreRejections

LEMMA PassedIsFinite ==
  ASSUME PathInv
  PROVE  /\ PassedTo \in Nat /\ PassedTo <= Len(admitted) /\ Len(admitted) \in Nat
         /\ Passed = {i \in 1 .. PassedTo : admitted[i] # Barrier}
         /\ IsFiniteSet(Passed)
         /\ \A i \in Passed : admitted[i] \in Requests /\ i \in 1 .. Len(admitted)
         /\ Ids \subseteq Nat \ {0}
<1>1. admitted \in Seq(Entries) /\ queue \in Seq(Entries) /\ buffer \in Seq(Entries) /\ Routed \in Nat
  BY DEF PathInv, LegacyTypes
<1>2. Len(admitted) \in Nat /\ Len(queue) \in Nat /\ Len(buffer) \in Nat
  BY <1>1, LenProperties
<1>3. dispatcherAt = "push" => Len(buffer) # 0
  BY <1>1, EmptySeq DEF PathInv
<1>4. PassedTo \in Nat /\ PassedTo <= Len(admitted)
  BY <1>1, <1>2, <1>3 DEF PassedTo, Routed
<1>5. Passed = {i \in 1 .. PassedTo : admitted[i] # Barrier}
  BY DEF Passed, PassedTo, Routed
<1>6. \A i \in Passed : admitted[i] \in Requests /\ i \in 1 .. Len(admitted)
  <2>1. \A i \in Passed : i \in 1 .. Len(admitted) /\ admitted[i] # Barrier
    BY <1>2, <1>4, <1>5
  <2> QED BY <1>1, <2>1, ElementOfSeq DEF Entries
<1>7. IsFiniteSet(Passed)
  <2>1. IsFiniteSet(1 .. PassedTo)
    BY <1>4, FS_Interval
  <2> QED BY <1>5, <2>1, FS_Subset
<1>8. Ids \subseteq Nat \ {0}
  BY <1>6 DEF Ids, Requests
<1> QED BY <1>2, <1>4, <1>5, <1>6, <1>7, <1>8

(* The arithmetic of a gap.                                                *)
LEMMA GapGrows ==
  ASSUME NEW e \in Nat \ {0}, NEW id \in Nat, id >= e, NEW ids, \A x \in ids : x < e
  PROVE  Cardinality((1 .. id) \ (ids \cup {id})) = Cardinality((1 .. e - 1) \ ids) + (id - e)
<1> DEFINE old == (1 .. e - 1) \ ids
<1> DEFINE new == e .. id - 1
<1>1. (1 .. id) \ (ids \cup {id}) = old \cup new
  <2>1. ASSUME NEW x \in (1 .. id) \ (ids \cup {id}) PROVE x \in old \cup new
    BY <2>1
  <2>2. ASSUME NEW x \in old \cup new PROVE x \in (1 .. id) \ (ids \cup {id})
    BY <2>2
  <2> QED BY <2>1, <2>2
<1>2. old \cap new = {}
  OBVIOUS
<1>3. IsFiniteSet(new) /\ Cardinality(new) = id - e
  <2>1. e \in Int /\ id - 1 \in Int
    OBVIOUS
  <2>2. IsFiniteSet(new) /\ Cardinality(new) = IF e > id - 1 THEN 0 ELSE (id - 1) - e + 1
    BY <2>1, FS_Interval
  <2> QED BY <2>2
<1>4. IsFiniteSet(old)
  <2>1. IsFiniteSet(1 .. e - 1)
    BY FS_Interval
  <2> QED BY <2>1, FS_Subset
<1>5. Cardinality(old \cup new) = Cardinality(old) + Cardinality(new) - Cardinality(old \cap new)
  BY <1>3, <1>4, FS_Union
<1>6. Cardinality(old \cap new) = 0
  BY <1>2, FS_EmptySet
<1>7. Cardinality(old) \in Nat
  BY <1>4, FS_CardinalityType
<1> HIDE DEF old, new
<1>8. Cardinality(old \cup new) = Cardinality(old) + (id - e)
  BY <1>3, <1>5, <1>6, <1>7
<1> QED BY <1>1, <1>8 DEF old

LEMMA GapKept ==
  ASSUME PathInv, GapInv, UNCHANGED check, Passed' = Passed,
         \A i \in 1 .. Len(admitted) : admitted'[i] = admitted[i]
  PROVE  GapInv'
<1>1. Ids' = Ids
  BY PassedIsFinite DEF Ids
<1>2. GapsAreRejections <=> (check.on => /\ check.gap = Cardinality((1 .. check.expected - 1) \ Ids)
                                         /\ check.dup = Cardinality(Passed) - Cardinality(Ids))
  BY DEF GapsAreRejections, Ids
<1>3. GapsAreRejections' <=> (check'.on => /\ check'.gap = Cardinality((1 .. check'.expected - 1) \ Ids')
                                           /\ check'.dup = Cardinality(Passed') - Cardinality(Ids'))
  BY DEF GapsAreRejections, Ids
<1> QED BY <1>1, <1>2, <1>3 DEF GapInv, CheckType

LEMMA CountedFields ==
  ASSUME CheckType, NEW id \in Nat, check.on
  PROVE  /\ Counted(id) \in [on : BOOLEAN, expected : Nat \ {0}, gap : Nat, dup : Nat, last : Nat]
         /\ Counted(id).on
         /\ id < check.expected => /\ Counted(id).expected = check.expected /\ Counted(id).gap = check.gap
                                   /\ Counted(id).dup = check.dup + 1
         /\ id >= check.expected => /\ Counted(id).expected = id + 1 /\ Counted(id).dup = check.dup
                                    /\ Counted(id).gap = check.gap + (id - check.expected)
<1>1. /\ check \in [on : BOOLEAN, expected : Nat \ {0}, gap : Nat, dup : Nat, last : Nat]
      /\ check.expected \in Nat \ {0} /\ check.gap \in Nat /\ check.dup \in Nat
  BY DEF CheckType
<1> DEFINE e == IF id < check.expected THEN check.expected ELSE id + 1
           d == IF id < check.expected THEN check.dup + 1 ELSE check.dup
           g == IF id > check.expected THEN check.gap + (id - check.expected) ELSE check.gap
<1>2. Counted(id) = [check EXCEPT !.expected = e, !.dup = d, !.gap = g, !.last = id]
  BY DEF Counted
<1>3. e \in Nat \ {0} /\ d \in Nat /\ g \in Nat
  BY <1>1
<1>4. /\ id < check.expected => e = check.expected /\ g = check.gap /\ d = check.dup + 1
      /\ id >= check.expected => e = id + 1 /\ d = check.dup /\ g = check.gap + (id - check.expected)
  BY <1>1
<1> HIDE DEF e, d, g
<1>5. /\ Counted(id) \in [on : BOOLEAN, expected : Nat \ {0}, gap : Nat, dup : Nat, last : Nat]
      /\ Counted(id).on /\ Counted(id).expected = e /\ Counted(id).dup = d /\ Counted(id).gap = g
  BY <1>1, <1>2, <1>3
<1> QED BY <1>4, <1>5

LEMMA CountStep ==
  ASSUME InOrder, PathInv, PathInv', OrderInv, GapInv, CountRequest
  PROVE  GapInv'
<1>1. /\ dispatcherAt = "route" /\ dispatcherAt' = "push" /\ Head(buffer) # Barrier
      /\ check' = Counted(Head(buffer).id) /\ UNCHANGED admitted /\ Routed' = Routed
  BY PrepareEffect DEF CountRequest, DispatcherGoes, DispatcherQuiet
<1>2. Head(buffer) = admitted[Routed + 1] /\ Routed \in Nat
  <2>1. buffer # <<>> /\ buffer \in Seq(Entries) /\ Routed \in Nat
    BY <1>1 DEF PathInv, LegacyTypes
  <2>2. Head(buffer) = buffer[1] /\ 1 \in 1 .. Len(buffer)
    BY <2>1, HeadTailProperties, EmptySeq, LenProperties
  <2> QED BY <2>1, <2>2 DEF PathInv
<1>3. PICK i \in Nat : i = Routed + 1
  BY <1>2
<1>4. PassedTo = i - 1 /\ PassedTo' = i
  BY <1>1, <1>2, <1>3 DEF PassedTo
<1>5. Passed' = {j \in 1 .. i : admitted[j] # Barrier} /\ Passed = {j \in 1 .. i - 1 : admitted[j] # Barrier}
      /\ IsFiniteSet(Passed) /\ Len(admitted) \in Nat /\ i <= Len(admitted)
  <2>1. Passed' = {j \in 1 .. PassedTo' : admitted'[j] # Barrier}
    BY DEF Passed, PassedTo, Routed
  <2>2. buffer # <<>> /\ admitted \in Seq(Entries) /\ queue \in Seq(Entries) /\ buffer \in Seq(Entries)
    BY <1>1 DEF PathInv, LegacyTypes
  <2>3. Len(admitted) \in Nat /\ Len(queue) \in Nat /\ Len(buffer) \in Nat \ {0}
    BY <2>2, EmptySeq, LenProperties
  <2>4. i <= Len(admitted)
    BY <1>3, <2>3 DEF Routed
  <2>5. Passed = {j \in 1 .. PassedTo : admitted[j] # Barrier} /\ IsFiniteSet(Passed)
    BY PassedIsFinite
  <2> QED BY <1>1, <1>4, <2>1, <2>3, <2>4, <2>5
<1>6. i \in Passed' /\ i \notin Passed /\ Passed' = Passed \cup {i}
  BY <1>1, <1>2, <1>3, <1>5
<1>7. PICK r \in Requests : r = admitted[i]
  <2>1. admitted \in Seq(Entries) /\ i \in 1 .. Len(admitted) /\ admitted[i] # Barrier
    BY <1>1, <1>2, <1>3, <1>5 DEF PathInv, LegacyTypes
  <2> QED BY <2>1, ElementOfSeq DEF Entries
<1>8. PICK id \in Nat \ {0} : id = r.id
  BY <1>7 DEF Requests
<1>9. Ids' = Ids \cup {id} /\ \A j \in Passed : admitted[j].id <= id
  <2>1. Ids' = {admitted[j].id : j \in Passed'}
    BY <1>1 DEF Ids
  <2>2. Ids' = Ids \cup {id}
    BY <1>6, <1>7, <1>8, <2>1 DEF Ids
  <2>3. \A j \in Passed : j \in 1 .. Len(admitted) /\ j <= i /\ admitted[j] # Barrier
    BY <1>5, PassedIsFinite
  <2>4. admitted[i] # Barrier /\ i \in 1 .. Len(admitted)
    BY <1>1, <1>2, <1>3, <1>5
  <2>5. \A j \in Passed : admitted[j].id <= admitted[i].id
    BY <2>3, <2>4 DEF OrderInv
  <2> QED BY <1>7, <1>8, <2>2, <2>5
<1>10. \A x \in Ids : x <= id
  BY <1>9 DEF Ids
<1>11. /\ check \in [on : BOOLEAN, expected : Nat \ {0}, gap : Nat, dup : Nat, last : Nat]
       /\ check' = Counted(id)
  BY <1>1, <1>2, <1>3, <1>7, <1>8 DEF GapInv, CheckType
<1>12. CASE ~check.on
  BY <1>11, <1>12 DEF Counted, GapInv, CheckType, GapsAreRejections
<1>13. CASE check.on
  <2> DEFINE e == check.expected
  <2>1. /\ e \in Nat \ {0} /\ Ids \subseteq 1 .. e - 1
        /\ e = 1 \/ e - 1 \in Ids
        /\ check.gap = Cardinality((1 .. e - 1) \ Ids)
        /\ check.dup = Cardinality(Passed) - Cardinality(Ids)
    <3>1. e \in Nat \ {0}
      BY <1>11
    <3>2. Ids \subseteq Nat \ {0} /\ \A x \in Ids : x < e
      BY <1>13, PassedIsFinite DEF GapInv
    <3>3. Ids \subseteq 1 .. e - 1
      BY <3>1, <3>2
    <3>4. /\ check.gap = Cardinality((1 .. e - 1) \ Ids)
          /\ check.dup = Cardinality(Passed) - Cardinality(Ids)
      BY <1>13 DEF GapInv, GapsAreRejections, Ids
    <3> QED BY <1>13, <3>1, <3>3, <3>4 DEF GapInv
  <2>2. IsFiniteSet(Ids) /\ Cardinality(Ids) \in Nat /\ Cardinality(Passed) \in Nat
    <3>1. IsFiniteSet(1 .. e - 1)
      BY <2>1, FS_Interval
    <3> QED BY <1>5, <2>1, <3>1, FS_Subset, FS_CardinalityType
  <2>3. Cardinality(Passed') = Cardinality(Passed) + 1
    BY <1>5, <1>6, FS_AddElement
  <2>4. ASSUME CheckType', check'.on,
               \A x \in Ids' : x < check'.expected,
               check'.expected = 1 \/ check'.expected - 1 \in Ids',
               check'.gap = Cardinality((1 .. check'.expected - 1) \ Ids'),
               check'.dup = Cardinality(Passed') - Cardinality(Ids')
        PROVE  GapInv'
    <3>1. GapsAreRejections'
      BY <2>4 DEF GapsAreRejections, Ids
    <3> QED BY <2>4, <3>1 DEF GapInv
  <2>5. CASE id < e
    <3>1. id = e - 1 /\ id \in Ids
      BY <1>8, <1>10, <2>1, <2>5
    <3>2. Ids' = Ids
      BY <1>9, <3>1
    <3>4. /\ check' \in [on : BOOLEAN, expected : Nat \ {0}, gap : Nat, dup : Nat, last : Nat]
          /\ check'.on /\ check'.expected = e /\ check'.gap = check.gap /\ check'.dup = check.dup + 1
      BY <1>11, <1>13, <2>5, CountedFields DEF GapInv
    <3>5. check'.gap = Cardinality((1 .. check'.expected - 1) \ Ids')
      BY <2>1, <3>2, <3>4
    <3>6. check'.dup = Cardinality(Passed') - Cardinality(Ids')
      BY <2>1, <2>2, <2>3, <3>2, <3>4
    <3>7. \A x \in Ids' : x < check'.expected
      BY <2>1, <3>2, <3>4
    <3> QED BY <2>1, <2>4, <3>2, <3>4, <3>5, <3>6, <3>7 DEF CheckType
  <2>6. CASE id >= e
    <3>2. /\ check' \in [on : BOOLEAN, expected : Nat \ {0}, gap : Nat, dup : Nat, last : Nat]
          /\ check'.on /\ check'.expected = id + 1 /\ check'.gap = check.gap + (id - e) /\ check'.dup = check.dup
      BY <1>11, <1>13, <2>6, CountedFields DEF GapInv
    <3>3. id \notin Ids
      BY <2>1, <2>6
    <3>4. Cardinality(Ids') = Cardinality(Ids) + 1
      BY <1>9, <2>2, <3>3, FS_AddElement
    <3>5. Cardinality((1 .. id) \ (Ids \cup {id})) = Cardinality((1 .. e - 1) \ Ids) + (id - e)
      <4>1. \A x \in Ids : x < e
        BY <2>1
      <4> HIDE DEF e
      <4> QED BY <1>8, <2>1, <2>6, <4>1, GapGrows
    <3>6. check'.gap = Cardinality((1 .. check'.expected - 1) \ Ids')
      <4>1. check'.expected - 1 = id
        BY <3>2
      <4> QED BY <1>9, <2>1, <3>2, <3>5, <4>1
    <3>7. check'.dup = Cardinality(Passed') - Cardinality(Ids')
      BY <2>1, <2>2, <2>3, <3>2, <3>4
    <3>8. (\A x \in Ids' : x < check'.expected) /\ check'.expected - 1 \in Ids'
      BY <1>9, <2>1, <2>6, <3>2
    <3> QED BY <2>4, <3>2, <3>6, <3>7, <3>8 DEF CheckType
  <2> QED BY <2>1, <2>5, <2>6
<1> QED BY <1>12, <1>13

(* The check is turned on before the first request.                        *)
LEMMA EnableStep ==
  ASSUME PathInv, OrderInv, EnableCorrectnessCheck
  PROVE  GapInv'
<1>1. /\ UNCHANGED <<admitted, queue, buffer, dispatcherAt, todo>> /\ todo = Program
      /\ check' = [on |-> TRUE, expected |-> 1, gap |-> 0, dup |-> 0, last |-> 0]
  BY DEF EnableCorrectnessCheck, callerVars
<1>2. \A i \in 1 .. Len(admitted) : admitted[i] = Barrier
  <2>1. \A c \in Callers : ~(Len(todo[c]) < Len(Program[c]))
    BY <1>1, LegacyAssumption, LenProperties
  <2> QED BY <2>1 DEF OrderInv
<1>3. Passed' = {}
  <2>1. Passed' = Passed
    BY <1>1 DEF Passed
  <2> QED BY <1>2, <2>1, PassedIsFinite
<1>4. Ids' = {}
  BY <1>3 DEF Ids
<1>5. CheckType' /\ check'.on /\ check'.expected = 1 /\ check'.gap = 0 /\ check'.dup = 0
  BY <1>1 DEF CheckType
<1>6. (1 .. check'.expected - 1) \ Ids' = {}
  BY <1>5
<1>7. Cardinality({}) = 0
  BY FS_EmptySet
<1>8. GapsAreRejections'
  BY <1>3, <1>4, <1>5, <1>6, <1>7 DEF GapsAreRejections, Ids
<1> QED BY <1>4, <1>5, <1>8 DEF GapInv

LEMMA PassedKept ==
  ASSUME PathInv, \A i \in 1 .. Len(admitted) : admitted'[i] = admitted[i],
         \/ PassedTo' = PassedTo
         \/ PassedTo' = PassedTo + 1 /\ admitted'[PassedTo + 1] = Barrier
  PROVE  Passed' = Passed
<1>1. Passed' = {i \in 1 .. PassedTo' : admitted'[i] # Barrier}
  BY DEF Passed, PassedTo, Routed
<1>2. PassedTo \in Nat /\ PassedTo <= Len(admitted) /\ Len(admitted) \in Nat
      /\ Passed = {i \in 1 .. PassedTo : admitted[i] # Barrier}
  BY PassedIsFinite
<1>3. \A i \in 1 .. PassedTo : admitted'[i] = admitted[i]
  BY <1>2
<1>4. {i \in 1 .. PassedTo' : admitted'[i] # Barrier} = {i \in 1 .. PassedTo : admitted'[i] # Barrier}
  BY <1>2
<1> QED BY <1>1, <1>2, <1>3, <1>4

LEMMA GapStep == InOrder /\ PathInv /\ PathInv' /\ OrderInv /\ GapInv /\ [Next]_vars => GapInv'
<1> SUFFICES ASSUME InOrder, PathInv, PathInv', OrderInv, GapInv, [Next]_vars PROVE GapInv'
  OBVIOUS
<1>0. \A i \in 1 .. Len(admitted) : admitted'[i] = admitted[i]
  BY HistoryGrows
<1>1. ASSUME UNCHANGED <<check, dispatcherAt>>, Routed' = Routed PROVE GapInv'
  <2>1. PassedTo' = PassedTo
    BY <1>1 DEF PassedTo
  <2> QED BY <1>0, <1>1, <2>1, PassedKept, GapKept
<1>2. ASSUME NEW c \in Callers, CheckAdmission(c) \/ TryEnqueue(c) PROVE GapInv'
  BY <1>1, <1>2, CallerEffect DEF CallerQuiet
<1>3. CASE CountRequest
  BY <1>3, CountStep
<1>4. CASE LoopTest \/ PopBatch \/ StartBarrier
  <2>1. Routed' = Routed /\ UNCHANGED check /\ dispatcherAt # "push" /\ dispatcherAt' # "push"
    BY <1>4, PrepareEffect DEF LoopTest, PopBatch, StartBarrier, DispatcherGoes
  <2>2. PassedTo' = PassedTo
    BY <2>1 DEF PassedTo
  <2> QED BY <1>0, <2>1, <2>2, PassedKept, GapKept
<1>5. CASE PushRequest \/ FanBarrier
  <2>1. UNCHANGED check /\ (dispatcherAt' # "push" \/ UNCHANGED dispatcherAt)
    BY <1>5 DEF PushRequest, FanBarrier, RouteNext, DispatcherGoes
  <2>2. Routed \in Nat /\ Routed' \in Nat
    BY DEF PathInv
  <2>3. PassedTo' = PassedTo \/ (PassedTo' = PassedTo + 1 /\ admitted[PassedTo + 1] = Barrier /\ PassedTo + 1 <= Len(admitted))
    <3>1. CASE dispatcherAt = "push"
      <4>1. Routed' = Routed + 1 /\ dispatcherAt' # "push"
        BY <1>5, <3>1, HandOverEffect DEF PushRequest, FanBarrier, RouteNext, DispatcherGoes
      <4> QED BY <2>2, <3>1, <4>1 DEF PassedTo
    <3>2. CASE dispatcherAt = "fan"
      <4>1. /\ Routed' = Routed \/ Routed' = Routed + 1
            /\ admitted[Routed + 1] = Barrier /\ Routed + 1 <= Len(admitted) /\ dispatcherAt' # "push"
        <5>1. /\ Head(buffer) = admitted[Routed + 1] /\ Routed + 1 <= Len(admitted)
              /\ Head(buffer) = Barrier /\ (Routed' = Routed \/ Routed' = Routed + 1)
          BY <1>5, <3>2, HandOverEffect
        <5>2. dispatcherAt' # "push"
          BY <2>1, <3>2
        <5> QED BY <5>1, <5>2
      <4>2. PassedTo = Routed /\ PassedTo' = Routed'
        BY <3>2, <4>1 DEF PassedTo
      <4> QED BY <4>1, <4>2
    <3> QED BY <1>5, <3>1, <3>2 DEF PushRequest, FanBarrier
  <2>4. Passed' = Passed
    <3>1. PassedTo + 1 \in 1 .. Len(admitted) => admitted'[PassedTo + 1] = admitted[PassedTo + 1]
      BY <1>0
    <3>2. PassedTo \in Nat /\ Len(admitted) \in Nat
      BY PassedIsFinite
    <3> QED BY <1>0, <2>3, <3>1, <3>2, PassedKept
  <2> QED BY <1>0, <2>1, <2>4, GapKept
<1>6. ASSUME NEW w \in Workers, Work(w) PROVE GapInv'
  BY <1>1, <1>6, WorkerStep DEF WorkQuiet
<1>7. ASSUME NEW d \in Drainers, DrainInject(d) PROVE GapInv'
  BY <1>1, <1>7, InjectEffect DEF InjectQuiet
<1>8. CASE EnableCorrectnessCheck
  BY <1>8, EnableStep
<1>9. CASE PollResult \/ RequestStop \/ Join \/ UNCHANGED vars \/ \E d \in Drainers : DrainCall(d) \/ DrainReturn(d)
  <2>1. PathQuiet /\ Routed' = Routed
    BY <1>9, ControlEffect
  <2>2. UNCHANGED check
    BY <1>9 DEF PollResult, RequestStop, Join, JoinDispatcher, JoinWorkers, StopWorker, StopUnchanged,
                DrainCall, DrainReturn, DrainUnchanged, vars, dispatcherVars
  <2> QED BY <1>1, <2>1, <2>2 DEF PathQuiet
<1> QED BY <1>2, <1>3, <1>4, <1>5, <1>6, <1>7, <1>8, <1>9 DEF Next, Dispatcher

(* The counts of GetConsumerStats.  If there is one caller and it numbers  *)
(* its requests in order, gap_count is the number of ids below the one     *)
(* expected that have not been admitted, however the admissions, batches   *)
(* and barriers fall, and dup_count that of the repetitions admitted.      *)
THEOREM GapsAreTurnedAway == InOrder => (Spec => []GapsAreRejections)
<1> SUFFICES ASSUME InOrder PROVE Spec => []GapsAreRejections
  OBVIOUS
<1>1. Init => OrderInv
  BY OrderInit
<1>2. Init => GapInv
  BY DEF Init, GapInv, CheckType, GapsAreRejections
<1>3. PathInv /\ PathInv' /\ OrderInv /\ [Next]_vars => OrderInv'
  BY OrderStep
<1>4. PathInv /\ PathInv' /\ OrderInv /\ GapInv /\ [Next]_vars => GapInv'
  BY GapStep
<1>5. GapInv => GapsAreRejections
  BY DEF GapInv
<1> QED BY <1>1, <1>2, <1>3, <1>4, <1>5, PathInvariant, PTL DEF Spec

=============================================================================
