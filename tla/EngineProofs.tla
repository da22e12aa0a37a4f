---------------------------- MODULE EngineProofs ----------------------------
(***************************************************************************)
(* Proofs about the engine's request path, for any number of shards,       *)
(* callers and drains and any capacities.                                  *)
(***************************************************************************)
EXTENDS Engine, Sums, SequenceTheorems

(* How the sequences on the path are cut and joined.                       *)
LEMMA Associative ==
  ASSUME NEW S, NEW u \in Seq(S), NEW v \in Seq(S), NEW w \in Seq(S)
  PROVE  (u \o v) \o w = u \o (v \o w)
OBVIOUS

LEMMA HeadConcatTail ==
  ASSUME NEW S, NEW s \in Seq(S), s # <<>>
  PROVE  Head(s) \in S /\ Tail(s) \in Seq(S) /\ <<Head(s)>> \o Tail(s) = s
<1>1. Head(s) \in S /\ Tail(s) \in Seq(S) /\ Len(s) \in Nat \ {0}
  BY HeadTailProperties, EmptySeq
<1>2. Tail(s) = SubSeq(s, 2, Len(s)) /\ Head(s) = s[1]
  BY <1>1, TailIsSubSeq
<1>3. SubSeq(s, 1, Len(s)) = <<s[1]>> \o SubSeq(s, 2, Len(s))
  BY <1>1, SubSeqRecursiveFirst
<1> QED BY <1>1, <1>2, <1>3, SubSeqFull

LEMMA AppendConcat ==
  ASSUME NEW S, NEW s \in Seq(S), NEW x \in S
  PROVE  Append(s, x) \in Seq(S) /\ <<x>> \in Seq(S) /\ Append(s, x) = s \o <<x>>
BY AppendIsConcat, AppendProperties

(* A request that enters the input queue extends the path at its end.      *)
Ends(a, f, p, m) == a = f \o (p \o m)

LEMMA PutMove ==
  ASSUME NEW S, NEW a, NEW f \in Seq(S), NEW p \in Seq(S), NEW m \in Seq(S), NEW x \in S, Ends(a, f, p, m)
  PROVE  Ends(Append(a, x), f, p, Append(m, x))
<1>1. p \o m \in Seq(S) /\ f \o (p \o m) \in Seq(S)
  BY ConcatProperties
<1>2. p \o Append(m, x) = (p \o m) \o <<x>>
  BY AppendConcat, ConcatAssociative
<1>3. f \o ((p \o m) \o <<x>>) = (f \o (p \o m)) \o <<x>>
  BY <1>1, AppendConcat, ConcatAssociative
<1>4. Append(f \o (p \o m), x) = f \o (p \o Append(m, x))
  BY <1>1, <1>2, <1>3, AppendConcat
<1> QED BY <1>4 DEF Ends

(* The dispatcher picks it up ...                                          *)
LEMMA PopMove ==
  ASSUME NEW S, NEW p \in Seq(S), NEW m \in Seq(S), m # <<>>
  PROVE  (p \o <<>>) \o m = (p \o <<Head(m)>>) \o Tail(m)
<1>1. Head(m) \in S /\ Tail(m) \in Seq(S) /\ <<Head(m)>> \in Seq(S) /\ <<Head(m)>> \o Tail(m) = m
  BY HeadConcatTail
<1>2. (p \o <<Head(m)>>) \o Tail(m) = p \o (<<Head(m)>> \o Tail(m))
  BY <1>1, ConcatAssociative
<1> QED BY <1>1, <1>2, ConcatEmptySeq

(* ... and hands it to its worker.                                         *)
LEMMA PushMove ==
  ASSUME NEW S, NEW b \in Seq(S), NEW s \in Seq(S), NEW x \in S
  PROVE  (b \o s) \o <<x>> = (b \o Append(s, x)) \o <<>>
<1>1. b \o Append(s, x) = (b \o s) \o <<x>>
  BY AppendConcat, ConcatAssociative
<1>2. b \o Append(s, x) \in Seq(S)
  BY AppendConcat, ConcatProperties
<1> QED BY <1>1, <1>2, ConcatEmptySeq

(* The worker takes the first n as its batch ...                           *)
LEMMA TakeMove ==
  ASSUME NEW S, NEW s \in Seq(S), NEW n \in 0 .. Len(s)
  PROVE  /\ SubSeq(s, 1, n) \in Seq(S) /\ SubSeq(s, n + 1, Len(s)) \in Seq(S)
         /\ SubSeq(s, 1, n) \o SubSeq(s, n + 1, Len(s)) = <<>> \o s
<1>1. Len(s) \in Nat
  BY LenProperties
<1>2. SubSeq(s, 1, n) \in Seq(S) /\ SubSeq(s, n + 1, Len(s)) \in Seq(S)
  BY <1>1, SubSeqProperties
<1>3. 1 \in 1 .. Len(s) + 1 /\ n \in 1 - 1 .. Len(s) /\ Len(s) \in n .. Len(s)
  BY <1>1
<1>4. SubSeq(s, 1, n) \o SubSeq(s, n + 1, Len(s)) = SubSeq(s, 1, Len(s))
  BY <1>3, ConcatAdjacentSubSeq
<1> QED BY <1>2, <1>4, SubSeqFull, ConcatEmptySeq

(* What the moves do to the whole path: a, all that was admitted, is f,     *)
(* all that is finished, and then the stations of the path.                *)
Split(a, f, b, s, i, m) == a = f \o (b \o s \o i \o m)

LEMMA SplitPut ==
  ASSUME NEW S, NEW a, NEW f \in Seq(S), NEW b \in Seq(S), NEW s \in Seq(S), NEW i \in Seq(S),
         NEW m \in Seq(S), NEW x \in S, Split(a, f, b, s, i, m)
  PROVE  Split(Append(a, x), f, b, s, i, Append(m, x))
<1>1. b \o s \in Seq(S)
  BY ConcatProperties
<1>2. PICK p \in Seq(S) : p = b \o s \o i
  BY <1>1, ConcatProperties
<1>3. Ends(a, f, p, m)
  BY <1>2 DEF Split, Ends
<1>4. Ends(Append(a, x), f, p, Append(m, x))
  BY <1>3, PutMove
<1> QED BY <1>2, <1>4 DEF Split, Ends

LEMMA SplitPop ==
  ASSUME NEW S, NEW a, NEW f, NEW b \in Seq(S), NEW s \in Seq(S), NEW m \in Seq(S), m # <<>>,
         Split(a, f, b, s, <<>>, m)
  PROVE  Split(a, f, b, s, <<Head(m)>>, Tail(m))
<1>1. PICK p \in Seq(S) : p = b \o s
  BY ConcatProperties
<1>2. (p \o <<>>) \o m = (p \o <<Head(m)>>) \o Tail(m)
  BY PopMove, SMTT(60)
<1> QED BY <1>1, <1>2 DEF Split

LEMMA SplitPush ==
  ASSUME NEW S, NEW a, NEW f, NEW b \in Seq(S), NEW s \in Seq(S), NEW m, NEW x \in S,
         Split(a, f, b, s, <<x>>, m)
  PROVE  Split(a, f, b, Append(s, x), <<>>, m)
BY PushMove DEF Split

LEMMA SplitTake ==
  ASSUME NEW S, NEW a, NEW f, NEW s \in Seq(S), NEW i, NEW m, NEW n \in 0 .. Len(s),
         Split(a, f, <<>>, s, i, m)
  PROVE  Split(a, f, SubSeq(s, 1, n), SubSeq(s, n + 1, Len(s)), i, m)
BY TakeMove DEF Split

LEMMA SplitDone ==
  ASSUME NEW S, NEW a, NEW f \in Seq(S), NEW b \in Seq(S), NEW s \in Seq(S), NEW i \in Seq(S),
         NEW m \in Seq(S), b # <<>>, Split(a, f, b, s, i, m)
  PROVE  Split(a, Append(f, Head(b)), Tail(b), s, i, m)
<1>1. PICK h \in S, t \in Seq(S) : h = Head(b) /\ t = Tail(b) /\ <<h>> \o t = b
  BY HeadConcatTail
<1>2. PICK x \in Seq(S) : x = <<h>> /\ Append(f, h) = f \o x
  BY AppendConcat
<1>3. PICK y \in Seq(S) : y = t \o s
  BY ConcatProperties
<1>4. PICK z \in Seq(S) : z = y \o i
  BY ConcatProperties
<1>5. PICK r \in Seq(S) : r = z \o m
  BY ConcatProperties
<1>6. (x \o t) \o s = x \o (t \o s)
  BY SMTT(60)
<1>7. (x \o y) \o i = x \o (y \o i)
  BY SMTT(60)
<1>8. (x \o z) \o m = x \o (z \o m)
  BY SMTT(60)
<1>9. f \o (x \o r) = (f \o x) \o r
  BY SMTT(60)
<1>10. b \o s \o i \o m = x \o r
  BY <1>1, <1>2, <1>3, <1>4, <1>5, <1>6, <1>7, <1>8
<1>11. f \o (b \o s \o i \o m) = Append(f, Head(b)) \o (Tail(b) \o s \o i \o m)
  BY <1>1, <1>2, <1>3, <1>4, <1>5, <1>9, <1>10
<1> QED BY <1>11 DEF Split

-----------------------------------------------------------------------------
(* The inductive invariant: which thread holds something, by its control   *)
(* state, is what makes each move of the path safe.                        *)
Carried == /\ mq \in [Shards -> Seq(Elements)]
           /\ sq \in [Shards -> Seq(Elements)]
           /\ batch \in [Shards -> Seq(Elements)]
           /\ hand \in [Shards -> Elements \cup {None}]
           /\ admitted \in [Shards -> Seq(Elements)]
           /\ finished \in [Shards -> Seq(Elements)]

Controlled == /\ dispatcherAt \in [Shards -> {"check", "pop", "push", "exited"}]
              /\ workerAt \in [Shards -> {"poll", "empty", "recheck", "popped", "process", "log", "answer", "exited"}]

HandInPush == \A h \in Shards : dispatcherAt[h] = "push" <=> hand[h] # None

BatchInProcess ==
  \A h \in Shards :
    /\ workerAt[h] \in {"poll", "empty", "recheck", "exited"} => batch[h] = <<>>
    /\ workerAt[h] \in {"log", "answer"} => batch[h] # <<>>

PathInv == Carried /\ Controlled /\ HandInPush /\ BatchInProcess /\ FifoConservation

(* The types of one shard's path.                                          *)
LEMMA PathTypes ==
  ASSUME Carried, NEW h \in Shards
  PROVE  /\ mq[h] \in Seq(Elements) /\ sq[h] \in Seq(Elements) /\ batch[h] \in Seq(Elements)
         /\ admitted[h] \in Seq(Elements) /\ finished[h] \in Seq(Elements)
         /\ InHand(h) \in Seq(Elements)
BY DEF Carried, InHand

LEMMA FifoIsSplit ==
  FifoConservation <=>
    \A h \in Shards : Split(admitted[h], finished[h], batch[h], sq[h], InHand(h), mq[h])
BY DEF FifoConservation, Path, Split

(* Enqueue and DrainInject.                                                *)
LEMMA PutStep ==
  ASSUME PathInv, NEW h \in Shards, NEW x \in Elements, Put(h, x),
         UNCHANGED <<hand, dispatcherAt, sq, workerAt, batch, finished>>
  PROVE  PathInv'
<1>1. Carried' /\ Controlled' /\ HandInPush' /\ BatchInProcess'
  BY AppendProperties DEF PathInv, Put, Carried, Controlled, HandInPush, BatchInProcess
<1>2. ASSUME NEW k \in Shards
      PROVE  Split(admitted'[k], finished'[k], batch'[k], sq'[k], InHand(k)', mq'[k])
  <2>1. Split(admitted[k], finished[k], batch[k], sq[k], InHand(k), mq[k])
    BY FifoIsSplit DEF PathInv
  <2>2. InHand(k)' = InHand(k) /\ finished'[k] = finished[k] /\ batch'[k] = batch[k] /\ sq'[k] = sq[k]
    BY DEF InHand
  <2>3. CASE k = h
    <3>1. mq'[k] = Append(mq[k], x) /\ admitted'[k] = Append(admitted[k], x)
      BY <2>3 DEF PathInv, Carried, Put
    <3> QED BY <2>1, <2>2, <3>1, PathTypes, SplitPut DEF PathInv
  <2>4. CASE k # h
    <3>1. mq'[k] = mq[k] /\ admitted'[k] = admitted[k]
      BY <2>4 DEF PathInv, Carried, Put
    <3> QED BY <2>1, <2>2, <3>1
  <2> QED BY <2>3, <2>4
<1>3. FifoConservation'
  BY <1>2 DEF FifoConservation, Path, Split
<1> QED BY <1>1, <1>3 DEF PathInv

LEMMA PopStep ==
  ASSUME PathInv, NEW h \in Shards, DispatcherPop(h)
  PROVE  PathInv'
<1>1. CASE mq[h] = <<>>
  BY <1>1 DEF DispatcherPop, DispatcherUnchanged, callerVars, workerVars, PathInv, Carried, Controlled,
     HandInPush, BatchInProcess, FifoConservation, Path, InHand
<1>2. CASE mq[h] # <<>>
  <2>1. /\ hand' = [hand EXCEPT ![h] = Head(mq[h])]
        /\ mq' = [mq EXCEPT ![h] = Tail(@)]
        /\ dispatcherAt' = [dispatcherAt EXCEPT ![h] = "push"]
        /\ dispatcherAt[h] = "pop" /\ hand[h] = None
        /\ UNCHANGED <<sq, workerAt, batch, admitted, finished>>
    BY <1>2 DEF DispatcherPop, DispatcherUnchanged, callerVars, workerVars, PathInv, HandInPush
  <2>2. mq[h] \in Seq(Elements) /\ Head(mq[h]) \in Elements /\ Tail(mq[h]) \in Seq(Elements)
    BY <1>2, PathTypes, HeadTailProperties DEF PathInv
  <2>3. Carried' /\ Controlled' /\ BatchInProcess'
    BY <2>1, <2>2 DEF PathInv, Carried, Controlled, BatchInProcess
  <2>4. HandInPush'
    BY <2>1, <2>2, EngineAssumption DEF PathInv, Carried, Controlled, HandInPush, Elements
  <2>5. ASSUME NEW k \in Shards
        PROVE  Split(admitted'[k], finished'[k], batch'[k], sq'[k], InHand(k)', mq'[k])
    <3>1. Split(admitted[k], finished[k], batch[k], sq[k], InHand(k), mq[k])
      BY FifoIsSplit DEF PathInv
    <3>2. CASE k = h
      <4>1. InHand(k) = <<>> /\ InHand(k)' = <<Head(mq[k])>> /\ mq'[k] = Tail(mq[k])
        BY <2>1, <2>2, <3>2, EngineAssumption DEF PathInv, Carried, InHand, Elements
      <4>2. Split(admitted[k], finished[k], batch[k], sq[k], <<Head(mq[k])>>, Tail(mq[k]))
        BY <1>2, <3>1, <3>2, <4>1, PathTypes, SplitPop DEF PathInv
      <4> QED BY <2>1, <4>1, <4>2
    <3>3. CASE k # h
      BY <2>1, <3>1, <3>3 DEF PathInv, Carried, InHand
    <3> QED BY <3>2, <3>3
  <2>6. FifoConservation'
    BY <2>5 DEF FifoConservation, Path, Split
  <2> QED BY <2>3, <2>4, <2>6 DEF PathInv
<1> QED BY <1>1, <1>2

LEMMA PushStep ==
  ASSUME PathInv, NEW h \in Shards, DispatcherPush(h)
  PROVE  PathInv'
<1>1. /\ sq' = [sq EXCEPT ![h] = Append(@, hand[h])]
      /\ hand' = [hand EXCEPT ![h] = None]
      /\ dispatcherAt' = [dispatcherAt EXCEPT ![h] = "check"]
      /\ hand[h] # None
      /\ UNCHANGED <<mq, workerAt, batch, admitted, finished>>
  BY DEF DispatcherPush, DispatcherUnchanged, callerVars, workerVars, PathInv, HandInPush
<1>2. hand[h] \in Elements /\ Append(sq[h], hand[h]) \in Seq(Elements)
  BY <1>1, PathTypes, AppendProperties DEF PathInv, Carried
<1>3. Carried' /\ Controlled' /\ BatchInProcess'
  BY <1>1, <1>2 DEF PathInv, Carried, Controlled, BatchInProcess
<1>4. HandInPush'
  BY <1>1 DEF PathInv, Carried, Controlled, HandInPush
<1>5. ASSUME NEW k \in Shards
      PROVE  Split(admitted'[k], finished'[k], batch'[k], sq'[k], InHand(k)', mq'[k])
  <2>1. Split(admitted[k], finished[k], batch[k], sq[k], InHand(k), mq[k])
    BY FifoIsSplit DEF PathInv
  <2>2. CASE k = h
    <3>1. InHand(k) = <<hand[k]>> /\ InHand(k)' = <<>> /\ sq'[k] = Append(sq[k], hand[k])
      BY <1>1, <2>2 DEF PathInv, Carried, InHand
    <3>2. Split(admitted[k], finished[k], batch[k], Append(sq[k], hand[k]), <<>>, mq[k])
      BY <1>2, <2>1, <2>2, <3>1, PathTypes, SplitPush DEF PathInv
    <3> QED BY <1>1, <3>1, <3>2
  <2>3. CASE k # h
    BY <1>1, <2>1, <2>3 DEF PathInv, Carried, InHand
  <2> QED BY <2>2, <2>3
<1>6. FifoConservation'
  BY <1>5 DEF FifoConservation, Path, Split
<1> QED BY <1>3, <1>4, <1>6 DEF PathInv

LEMMA TakeStep ==
  ASSUME PathInv, NEW h \in Shards, TakeBatch(h), batch[h] = <<>>,
         UNCHANGED <<mq, hand, dispatcherAt, admitted, finished>>
  PROVE  PathInv'
<1> DEFINE n == IF Len(sq[h]) < BatchMax THEN Len(sq[h]) ELSE BatchMax
<1>1. /\ batch' = [batch EXCEPT ![h] = SubSeq(sq[h], 1, n)]
      /\ sq' = [sq EXCEPT ![h] = SubSeq(sq[h], n + 1, Len(sq[h]))]
      /\ workerAt' = [workerAt EXCEPT ![h] = "popped"]
  BY DEF TakeBatch
<1>2. sq[h] \in Seq(Elements) /\ n \in 0 .. Len(sq[h])
  BY PathTypes, LenProperties, EngineAssumption DEF PathInv
<1> HIDE DEF n
<1>3. SubSeq(sq[h], 1, n) \in Seq(Elements) /\ SubSeq(sq[h], n + 1, Len(sq[h])) \in Seq(Elements)
  BY <1>2, TakeMove
<1>4. Carried' /\ Controlled' /\ HandInPush' /\ BatchInProcess'
  BY <1>1, <1>3 DEF PathInv, Carried, Controlled, HandInPush, BatchInProcess
<1>5. ASSUME NEW k \in Shards
      PROVE  Split(admitted'[k], finished'[k], batch'[k], sq'[k], InHand(k)', mq'[k])
  <2>1. Split(admitted[k], finished[k], batch[k], sq[k], InHand(k), mq[k]) /\ InHand(k)' = InHand(k)
    BY FifoIsSplit DEF PathInv, InHand
  <2>2. CASE k = h
    <3>1. batch[k] = <<>> /\ batch'[k] = SubSeq(sq[k], 1, n) /\ sq'[k] = SubSeq(sq[k], n + 1, Len(sq[k]))
      BY <1>1, <2>2 DEF PathInv, Carried
    <3>2. Split(admitted[k], finished[k], SubSeq(sq[k], 1, n), SubSeq(sq[k], n + 1, Len(sq[k])), InHand(k), mq[k])
      BY <1>2, <2>1, <2>2, <3>1, SplitTake
    <3> QED BY <2>1, <3>1, <3>2
  <2>3. CASE k # h
    BY <1>1, <2>1, <2>3 DEF PathInv, Carried
  <2> QED BY <2>2, <2>3
<1>6. FifoConservation'
  BY <1>5 DEF FifoConservation, Path, Split
<1> QED BY <1>4, <1>6 DEF PathInv

LEMMA DoneStep ==
  ASSUME PathInv, NEW h \in Shards, Done(h), batch[h] # <<>>,
         UNCHANGED <<mq, hand, dispatcherAt, sq, admitted>>
  PROVE  PathInv'
<1>1. /\ finished' = [finished EXCEPT ![h] = Append(@, Head(batch[h]))]
      /\ batch' = [batch EXCEPT ![h] = Tail(@)]
      /\ workerAt' = [workerAt EXCEPT ![h] = "process"]
  BY DEF Done
<1>2. batch[h] \in Seq(Elements) /\ Head(batch[h]) \in Elements /\ Tail(batch[h]) \in Seq(Elements)
  BY PathTypes, HeadTailProperties DEF PathInv
<1>3. Append(finished[h], Head(batch[h])) \in Seq(Elements)
  BY <1>2, PathTypes, AppendProperties DEF PathInv
<1>4. Carried' /\ Controlled' /\ HandInPush' /\ BatchInProcess'
  BY <1>1, <1>2, <1>3 DEF PathInv, Carried, Controlled, HandInPush, BatchInProcess
<1>5. ASSUME NEW k \in Shards
      PROVE  Split(admitted'[k], finished'[k], batch'[k], sq'[k], InHand(k)', mq'[k])
  <2>1. Split(admitted[k], finished[k], batch[k], sq[k], InHand(k), mq[k]) /\ InHand(k)' = InHand(k)
    BY FifoIsSplit DEF PathInv, InHand
  <2>2. CASE k = h
    <3>1. batch'[k] = Tail(batch[k]) /\ finished'[k] = Append(finished[k], Head(batch[k]))
      BY <1>1, <2>2 DEF PathInv, Carried
    <3>2. Split(admitted[k], Append(finished[k], Head(batch[k])), Tail(batch[k]), sq[k], InHand(k), mq[k])
      BY <2>1, <2>2, PathTypes, SplitDone DEF PathInv
    <3> QED BY <2>1, <3>1, <3>2
  <2>3. CASE k # h
    BY <1>1, <2>1, <2>3 DEF PathInv, Carried
  <2> QED BY <2>2, <2>3
<1>6. FifoConservation'
  BY <1>5 DEF FifoConservation, Path, Split
<1> QED BY <1>4, <1>6 DEF PathInv

(* Steps that move nothing.                                                *)
pathVars == <<mq, hand, dispatcherAt, sq, workerAt, batch, admitted, finished>>

LEMMA StillStep ==
  ASSUME PathInv, UNCHANGED pathVars
  PROVE  PathInv'
BY DEF PathInv, pathVars, Carried, Controlled, HandInPush, BatchInProcess, FifoConservation, Path, InHand

LEMMA GoStep ==
  ASSUME PathInv, NEW h \in Shards,
         NEW there \in {"poll", "empty", "recheck", "popped", "process", "log", "answer", "exited"},
         WorkerGoes(h, there),
         there \in {"poll", "empty", "recheck", "exited"} => batch[h] = <<>>,
         there \in {"log", "answer"} => batch[h] # <<>>,
         UNCHANGED <<mq, hand, dispatcherAt, admitted, finished>>
  PROVE  PathInv'
BY DEF WorkerGoes, PathInv, Carried, Controlled, HandInPush, BatchInProcess, FifoConservation, Path, InHand

LEMMA CheckStep ==
  ASSUME PathInv, NEW h \in Shards, DispatcherCheck(h)
  PROVE  PathInv'
BY DEF DispatcherCheck, DispatcherUnchanged, callerVars, workerVars,
   PathInv, Carried, Controlled, HandInPush, BatchInProcess, FifoConservation, Path, InHand

LEMMA WorkerLoopStep ==
  ASSUME PathInv, NEW h \in Shards, WorkerLoop(h)
  PROVE  PathInv'
<1> USE DEF LoopUnchanged, callerVars, dispatcherVars
<1>1. CASE WorkerPoll(h)
  <2>1. batch[h] = <<>>
    BY <1>1 DEF WorkerPoll, PathInv, BatchInProcess
  <2> QED BY <1>1, <2>1, TakeStep, GoStep DEF WorkerPoll
<1>2. CASE WorkerReadRunning(h)
  <2>1. batch[h] = <<>>
    BY <1>2 DEF WorkerReadRunning, PathInv, BatchInProcess
  <2> QED BY <1>2, <2>1, GoStep DEF WorkerReadRunning
<1>3. CASE WorkerRecheck(h)
  <2>1. batch[h] = <<>>
    BY <1>3 DEF WorkerRecheck, PathInv, BatchInProcess
  <2> QED BY <1>3, <2>1, TakeStep, GoStep DEF WorkerRecheck
<1>4. CASE WorkerBegin(h)
  BY <1>4, GoStep DEF WorkerBegin
<1>5. CASE WorkerEnd(h)
  BY <1>5, GoStep DEF WorkerEnd
<1> QED BY <1>1, <1>2, <1>3, <1>4, <1>5 DEF WorkerLoop

LEMMA ProcessStep ==
  ASSUME PathInv, NEW h \in Shards, Process(h)
  PROVE  PathInv'
<1> USE DEF ProcessUnchanged, callerVars, dispatcherVars
<1>1. CASE ProcessBarrier(h)
  BY <1>1, DoneStep DEF ProcessBarrier
<1>2. CASE ProcessSilently(h)
  BY <1>2, DoneStep DEF ProcessSilently, Processing
<1>3. CASE ProcessBench(h)
  BY <1>3, GoStep DEF ProcessBench, Processing
<1>4. CASE ProcessOrder(h)
  <2>1. batch[h] # <<>>
    BY <1>4 DEF ProcessOrder, Processing
  <2>2. WorkerGoes(h, "log") \/ WorkerGoes(h, "answer")
    BY <1>4 DEF ProcessOrder
  <2>3. UNCHANGED <<mq, hand, dispatcherAt, admitted, finished>>
    BY <1>4 DEF ProcessOrder
  <2> QED BY <2>1, <2>2, <2>3, GoStep
<1>5. CASE WriteToWal(h)
  <2>1. batch[h] # <<>>
    BY <1>5 DEF WriteToWal, PathInv, BatchInProcess
  <2> QED BY <1>5, <2>1, GoStep DEF WriteToWal
<1>6. CASE PushResult(h)
  <2>1. batch[h] # <<>>
    BY <1>6 DEF PushResult, PathInv, BatchInProcess
  <2> QED BY <1>6, <2>1, DoneStep DEF PushResult
<1> QED BY <1>1, <1>2, <1>3, <1>4, <1>5, <1>6 DEF Process

LEMMA CallerStep ==
  ASSUME PathInv, NEW s \in Submissions, Caller(s)
  PROVE  PathInv'
<1> USE DEF CallerUnchanged, dispatcherVars, workerVars
<1>1. CASE CheckAdmission(s)
  BY <1>1, StillStep DEF CheckAdmission, pathVars
<1>2. CASE Enqueue(s)
  <2>1. ShardOf[RequestOf[s].sku] \in Shards /\ s \in Elements
    BY EngineAssumption DEF Elements
  <2> QED BY <1>2, <2>1, PutStep, StillStep DEF Enqueue, pathVars
<1> QED BY <1>1, <1>2 DEF Caller

LEMMA DrainStep ==
  ASSUME PathInv, NEW d \in Drainers, Drain(d)
  PROVE  PathInv'
<1> USE DEF DrainUnchanged, dispatcherVars, workerVars
<1>1. CASE DrainCall(d)
  BY <1>1, StillStep DEF DrainCall, pathVars
<1>2. CASE DrainReturn(d)
  BY <1>2, StillStep DEF DrainReturn, pathVars
<1>3. ASSUME NEW h \in Shards, DrainInject(d, h)
      PROVE  PathInv'
  BY <1>3, PutStep DEF DrainInject, Elements
<1> QED BY <1>1, <1>2, <1>3 DEF Drain

LEMMA StopStep ==
  ASSUME PathInv, Stop
  PROVE  PathInv'
BY StillStep DEF Stop, RequestStop, DispatchersJoined, WorkersJoined, StopWorker, StopUnchanged,
   callerVars, dispatcherVars, workerVars, pathVars

LEMMA PathInvariant == Spec => []PathInv
<1>1. Init => PathInv
  <2> SUFFICES ASSUME Init PROVE PathInv
    OBVIOUS
  <2>1. Carried /\ Controlled /\ HandInPush /\ BatchInProcess
    BY DEF Init, Carried, Controlled, HandInPush, BatchInProcess
  <2>2. FifoConservation
    BY DEF Init, FifoConservation, Path, InHand
  <2> QED BY <2>1, <2>2 DEF PathInv
<1>2. PathInv /\ [Next]_vars => PathInv'
  <2> SUFFICES ASSUME PathInv, [Next]_vars PROVE PathInv'
    OBVIOUS
  <2>1. CASE \E s \in Submissions : Caller(s)
    BY <2>1, CallerStep
  <2>2. ASSUME NEW h \in Shards, Dispatcher(h)
        PROVE  PathInv'
    BY <2>2, CheckStep, PopStep, PushStep DEF Dispatcher
  <2>3. ASSUME NEW h \in Shards, WorkerLoop(h) \/ Process(h)
        PROVE  PathInv'
    BY <2>3, WorkerLoopStep, ProcessStep
  <2>4. CASE PollResult
    BY <2>4, StillStep DEF PollResult, callerVars, dispatcherVars, workerVars, pathVars
  <2>5. CASE Stop
    BY <2>5, StopStep
  <2>6. CASE \E d \in Drainers : Drain(d)
    BY <2>6, DrainStep
  <2>7. CASE UNCHANGED vars
    BY <2>7, StillStep DEF vars, callerVars, dispatcherVars, workerVars, pathVars
  <2> QED BY <2>1, <2>2, <2>3, <2>4, <2>5, <2>6, <2>7 DEF Next
<1> QED BY <1>1, <1>2, PTL DEF Spec

(* For any number of shards and any interleaving with callers, drains and  *)
(* the stop, what was put into an input queue is what its worker has       *)
(* finished followed by what lies on the path, in that order.              *)
THEOREM FifoIsConserved == Spec => []FifoConservation
<1>1. PathInv => FifoConservation
  BY DEF PathInv
<1> QED BY <1>1, PathInvariant, PTL

-----------------------------------------------------------------------------
(* The stop: the dispatchers are gone before any worker is told to stop,   *)
(* so a queue that such a worker finds empty stays empty.                  *)
StopOrdered ==
  /\ workerRunning \in [Shards -> BOOLEAN]
  /\ stopAt \in {"workers", "stopped"} => \A h \in Shards : dispatcherAt[h] = "exited"
  /\ \A h \in Shards : ~workerRunning[h] => stopAt \in {"workers", "stopped"}

LeavesEmpty ==
  /\ \A h \in Shards : workerAt[h] \in {"recheck", "exited"} => ~workerRunning[h]
  /\ \A h \in Shards : workerAt[h] = "exited" => sq[h] = <<>>
  /\ stopAt = "stopped" => \A h \in Shards : workerAt[h] = "exited"

StopInv == StopOrdered /\ LeavesEmpty

(* Steps that touch neither the stop nor a worker.                         *)
stopPathVars == <<workerRunning, stopAt, dispatcherAt, workerAt, sq>>

LEMMA StopStill ==
  ASSUME StopInv, UNCHANGED stopPathVars
  PROVE  StopInv'
BY DEF StopInv, StopOrdered, LeavesEmpty, stopPathVars

(* A worker at work goes on, with its batch taken or finished.             *)
LEMMA StopGo ==
  ASSUME PathInv, StopInv, NEW h \in Shards,
         workerAt[h] \notin {"exited"},
         NEW there \in {"poll", "empty", "popped", "process", "log", "answer"},
         workerAt' = [workerAt EXCEPT ![h] = there],
         \A g \in Shards : g # h => sq'[g] = sq[g],
         UNCHANGED <<workerRunning, stopAt, dispatcherAt>>
  PROVE  StopInv'
<1>1. \A g \in Shards : workerAt'[g] = IF g = h THEN there ELSE workerAt[g]
  BY DEF PathInv, Controlled
<1>2. stopAt # "stopped"
  BY DEF StopInv, LeavesEmpty
<1>3. StopOrdered'
  BY DEF StopInv, StopOrdered
<1>4. LeavesEmpty'
  BY <1>1, <1>2 DEF StopInv, LeavesEmpty
<1> QED BY <1>3, <1>4 DEF StopInv

LEMMA TakeElsewhere ==
  ASSUME PathInv, NEW h \in Shards, TakeBatch(h)
  PROVE  \A g \in Shards : g # h => sq'[g] = sq[g]
BY DEF TakeBatch, PathInv, Carried

LEMMA StopDispatcher ==
  ASSUME PathInv, StopInv, NEW h \in Shards, Dispatcher(h)
  PROVE  StopInv'
<1>1. dispatcherAt[h] # "exited"
  BY DEF Dispatcher, DispatcherCheck, DispatcherPop, DispatcherPush
<1>2. stopAt \notin {"workers", "stopped"}
  BY <1>1 DEF StopInv, StopOrdered
<1>3. UNCHANGED <<workerRunning, stopAt, workerAt>>
  BY DEF Dispatcher, DispatcherCheck, DispatcherPop, DispatcherPush, DispatcherUnchanged, workerVars, stopVars
<1>4. \A g \in Shards : workerRunning[g] /\ workerAt[g] \notin {"recheck", "exited"}
  BY <1>2 DEF StopInv, StopOrdered, LeavesEmpty
<1> QED BY <1>2, <1>3, <1>4 DEF StopInv, StopOrdered, LeavesEmpty

LEMMA StopWorkerLoop ==
  ASSUME PathInv, StopInv, NEW h \in Shards, WorkerLoop(h)
  PROVE  StopInv'
<1> USE DEF LoopUnchanged, dispatcherVars, stopVars, WorkerGoes
<1>1. CASE WorkerPoll(h)
  BY <1>1, StopGo, TakeElsewhere DEF WorkerPoll, TakeBatch
<1>2. CASE WorkerReadRunning(h)
  <2>1. CASE workerRunning[h]
    BY <1>2, <2>1, StopGo DEF WorkerReadRunning
  <2>2. CASE ~workerRunning[h]
    BY <1>2, <2>2 DEF WorkerReadRunning, PathInv, Controlled, StopInv, StopOrdered, LeavesEmpty
  <2> QED BY <2>1, <2>2
<1>3. CASE WorkerRecheck(h)
  <2>1. CASE TakeBatch(h)
    BY <1>3, <2>1, StopGo, TakeElsewhere DEF WorkerRecheck, TakeBatch
  <2>2. CASE sq[h] = <<>> /\ WorkerGoes(h, "exited")
    BY <1>3, <2>2 DEF WorkerRecheck, PathInv, Controlled, StopInv, StopOrdered, LeavesEmpty
  <2> QED BY <1>3, <2>1, <2>2 DEF WorkerRecheck
<1>4. CASE WorkerBegin(h)
  BY <1>4, StopGo DEF WorkerBegin
<1>5. CASE WorkerEnd(h)
  BY <1>5, StopGo DEF WorkerEnd
<1> QED BY <1>1, <1>2, <1>3, <1>4, <1>5 DEF WorkerLoop

LEMMA StopProcess ==
  ASSUME PathInv, StopInv, NEW h \in Shards, Process(h)
  PROVE  StopInv'
<1>1. workerAt[h] \in {"process", "log", "answer"}
  BY DEF Process, ProcessBarrier, ProcessSilently, ProcessBench, ProcessOrder, WriteToWal, PushResult, Processing
<1>2. UNCHANGED <<workerRunning, stopAt, dispatcherAt, sq>>
  BY DEF Process, ProcessBarrier, ProcessSilently, ProcessBench, ProcessOrder, WriteToWal, PushResult,
     ProcessUnchanged, dispatcherVars, stopVars, WorkerGoes
<1>3. \E there \in {"process", "log", "answer"} : workerAt' = [workerAt EXCEPT ![h] = there]
  BY DEF Process, ProcessBarrier, ProcessSilently, ProcessBench, ProcessOrder, WriteToWal, PushResult,
     WorkerGoes, Done
<1> QED BY <1>1, <1>2, <1>3, StopGo

LEMMA StopsInOrder ==
  ASSUME PathInv, StopInv, Stop
  PROVE  StopInv'
<1> USE DEF StopUnchanged, dispatcherVars, workerVars, StopInv, StopOrdered, LeavesEmpty
<1>1. CASE RequestStop
  BY <1>1 DEF RequestStop
<1>2. CASE DispatchersJoined
  BY <1>2 DEF DispatchersJoined
<1>3. CASE WorkersJoined
  BY <1>3 DEF WorkersJoined
<1>4. ASSUME NEW h \in Shards, StopWorker(h)
      PROVE  StopInv'
  BY <1>4 DEF StopWorker
<1> QED BY <1>1, <1>2, <1>3, <1>4 DEF Stop

(* However the last hand-over and the stop of the worker race, nothing     *)
(* that reached a worker's queue is left behind by StopEngine.             *)
THEOREM StopLeavesNothingDispatched == Spec => []StopFinishesDispatched
<1>1. Init => StopInv
  BY DEF Init, StopInv, StopOrdered, LeavesEmpty
<1>2. PathInv /\ StopInv /\ [Next]_vars => StopInv'
  <2> SUFFICES ASSUME PathInv, StopInv, [Next]_vars PROVE StopInv'
    OBVIOUS
  <2> USE DEF dispatcherVars, workerVars, stopVars, stopPathVars
  <2>1. ASSUME NEW s \in Submissions, Caller(s)
        PROVE  StopInv'
    BY <2>1, StopStill DEF Caller, CheckAdmission, Enqueue, CallerUnchanged
  <2>2. ASSUME NEW h \in Shards, Dispatcher(h) \/ WorkerLoop(h) \/ Process(h)
        PROVE  StopInv'
    BY <2>2, StopDispatcher, StopWorkerLoop, StopProcess
  <2>3. CASE PollResult
    BY <2>3, StopStill DEF PollResult
  <2>4. CASE Stop
    BY <2>4, StopsInOrder
  <2>5. ASSUME NEW d \in Drainers, Drain(d)
        PROVE  StopInv'
    BY <2>5, StopStill DEF Drain, DrainCall, DrainReturn, DrainInject, DrainUnchanged
  <2>6. CASE UNCHANGED vars
    BY <2>6, StopStill DEF vars
  <2> QED BY <2>1, <2>2, <2>3, <2>4, <2>5, <2>6 DEF Next
<1>3. PathInv /\ StopInv => StopFinishesDispatched
  BY DEF PathInv, HandInPush, BatchInProcess, StopInv, StopOrdered, LeavesEmpty, StopFinishesDispatched
<1> QED BY <1>1, <1>2, <1>3, PathInvariant, PTL DEF Spec

-----------------------------------------------------------------------------
(* What lies on the path of a shard was routed to it.                      *)
Routed ==
  \A h \in Shards : \A i \in 1 .. Len(admitted[h]) :
    admitted[h][i] \in Submissions => ShardOf[RequestOf[admitted[h][i]].sku] = h

LEMMA ConcatFirst ==
  ASSUME NEW S, NEW s \in Seq(S), NEW t \in Seq(S), Len(s) \in Nat \ {0}
  PROVE  s \o t \in Seq(S) /\ Len(s \o t) \in Nat \ {0} /\ (s \o t)[1] = s[1]
<1>1. Len(t) \in Nat /\ 1 \in 1 .. Len(s) + Len(t) /\ 1 <= Len(s)
  BY LenProperties
<1>2. s \o t \in Seq(S) /\ Len(s \o t) = Len(s) + Len(t)
  BY ConcatProperties
<1>3. \A i \in 1 .. Len(s) + Len(t) : (s \o t)[i] = IF i <= Len(s) THEN s[i] ELSE t[i - Len(s)]
  BY ConcatProperties
<1> QED BY <1>1, <1>2, <1>3

(* The next request of worker h, by its place among all h was ever given.  *)
LEMMA HeadIsAdmitted ==
  ASSUME PathInv, NEW h \in Shards, batch[h] # <<>>
  PROVE  /\ Len(finished[h]) \in Nat /\ Len(admitted[h]) \in Nat
         /\ Len(finished[h]) < Len(admitted[h])
         /\ admitted[h][Len(finished[h]) + 1] = Head(batch[h])
         /\ Head(batch[h]) \in Elements
<1>1. /\ mq[h] \in Seq(Elements) /\ sq[h] \in Seq(Elements) /\ batch[h] \in Seq(Elements)
      /\ finished[h] \in Seq(Elements) /\ InHand(h) \in Seq(Elements)
  BY PathTypes DEF PathInv
<1>2. PICK x \in Seq(Elements) : x = batch[h] \o sq[h]
  BY <1>1, ConcatProperties
<1>3. PICK y \in Seq(Elements) : y = x \o InHand(h)
  BY <1>1, ConcatProperties
<1>4. Path(h) = y \o mq[h]
  BY <1>2, <1>3 DEF Path
<1>5. /\ Len(batch[h]) \in Nat \ {0} /\ Len(sq[h]) \in Nat /\ Len(InHand(h)) \in Nat /\ Len(mq[h]) \in Nat
      /\ Len(finished[h]) \in Nat
  BY <1>1, EmptySeq, LenProperties
<1>6. Len(x) \in Nat \ {0} /\ x[1] = batch[h][1]
  BY <1>1, <1>2, <1>5, ConcatFirst
<1>7. Len(y) \in Nat \ {0} /\ y[1] = x[1]
  BY <1>1, <1>3, <1>5, <1>6, ConcatFirst
<1>8. PICK z \in Seq(Elements) : z = y \o mq[h]
  BY <1>1, ConcatProperties
<1>9. Len(z) \in Nat \ {0} /\ z[1] = y[1]
  BY <1>1, <1>5, <1>7, <1>8, ConcatFirst
<1>10. /\ Len(finished[h] \o z) = Len(finished[h]) + Len(z)
       /\ (finished[h] \o z)[Len(finished[h]) + 1] = z[1]
  BY <1>1, <1>5, <1>9, ConcatProperties
<1>11. admitted[h] = finished[h] \o z
  BY <1>4, <1>8 DEF PathInv, FifoConservation
<1>12. Head(batch[h]) = batch[h][1] /\ batch[h][1] \in Elements
  BY <1>1, <1>5, ElementOfSeq
<1> QED BY <1>5, <1>6, <1>7, <1>9, <1>10, <1>11, <1>12

LEMMA HeadIsRouted ==
  ASSUME PathInv, Routed, NEW h \in Shards, batch[h] # <<>>, Head(batch[h]) # Barrier
  PROVE  /\ Head(batch[h]) \in Submissions
         /\ ShardOf[RequestOf[Head(batch[h])].sku] = h
<1> DEFINE i == Len(finished[h]) + 1
<1>1. i \in 1 .. Len(admitted[h]) /\ admitted[h][i] = Head(batch[h]) /\ Head(batch[h]) \in Submissions
  BY HeadIsAdmitted DEF Elements
<1> HIDE DEF i
<1> QED BY <1>1 DEF Routed

LEMMA AdmittedStep ==
  ASSUME [Next]_vars
  PROVE  \/ \E s \in Submissions : Put(ShardOf[RequestOf[s].sku], s)
         \/ \E h \in Shards, d \in Drainers : DrainInject(d, h)
         \/ UNCHANGED admitted
<1>1. ASSUME NEW s \in Submissions, Caller(s)
      PROVE  Put(ShardOf[RequestOf[s].sku], s) \/ UNCHANGED admitted
  BY <1>1 DEF Caller, CheckAdmission, Enqueue
<1>2. ASSUME NEW h \in Shards, Dispatcher(h) \/ WorkerLoop(h) \/ Process(h)
      PROVE  UNCHANGED admitted
  BY <1>2 DEF Dispatcher, DispatcherCheck, DispatcherPop, DispatcherPush, DispatcherUnchanged,
     WorkerLoop, WorkerPoll, WorkerReadRunning, WorkerRecheck, WorkerBegin, WorkerEnd, LoopUnchanged,
     Process, ProcessBarrier, ProcessSilently, ProcessBench, ProcessOrder, WriteToWal, PushResult,
     ProcessUnchanged, callerVars
<1>3. PollResult \/ Stop => UNCHANGED admitted
  BY DEF PollResult, Stop, RequestStop, DispatchersJoined, WorkersJoined, StopWorker, StopUnchanged, callerVars
<1>4. ASSUME NEW d \in Drainers, Drain(d)
      PROVE  UNCHANGED admitted \/ \E h \in Shards : DrainInject(d, h)
  BY <1>4 DEF Drain, DrainCall, DrainReturn
<1>5. UNCHANGED vars => UNCHANGED admitted
  BY DEF vars, callerVars
<1> QED BY <1>1, <1>2, <1>3, <1>4, <1>5 DEF Next

LEMMA RoutedInvariant == Spec => []Routed
<1>1. Init => Routed
  BY DEF Init, Routed
<1>2. PathInv /\ Routed /\ [Next]_vars => Routed'
  <2> SUFFICES ASSUME PathInv, Routed, [Next]_vars PROVE Routed'
    OBVIOUS
  <2>1. ASSUME NEW g \in Shards, NEW x \in Elements, Put(g, x),
               x \in Submissions => ShardOf[RequestOf[x].sku] = g
        PROVE  Routed'
    <3> SUFFICES ASSUME NEW h \in Shards, NEW i \in 1 .. Len(admitted'[h]), admitted'[h][i] \in Submissions
                 PROVE  ShardOf[RequestOf[admitted'[h][i]].sku] = h
      BY DEF Routed
    <3>1. admitted[h] \in Seq(Elements) /\ Len(admitted[h]) \in Nat
      BY PathTypes, LenProperties DEF PathInv
    <3>2. admitted'[h] = IF h = g THEN Append(admitted[h], x) ELSE admitted[h]
      BY <2>1 DEF Put, PathInv, Carried
    <3>3. CASE h = g /\ i = Len(admitted[h]) + 1
      BY <2>1, <3>1, <3>2, <3>3, AppendProperties
    <3>4. CASE ~(h = g /\ i = Len(admitted[h]) + 1)
      <4>1. i \in 1 .. Len(admitted[h]) /\ admitted'[h][i] = admitted[h][i]
        BY <3>1, <3>2, <3>4, AppendProperties
      <4> QED BY <4>1 DEF Routed
    <3> QED BY <3>3, <3>4
  <2>2. ASSUME NEW s \in Submissions PROVE s \in Elements /\ ShardOf[RequestOf[s].sku] \in Shards
    BY EngineAssumption DEF Elements
  <2>3. ASSUME NEW d \in Drainers, NEW h \in Shards, DrainInject(d, h)
        PROVE  Put(h, Barrier) /\ Barrier \in Elements /\ Barrier \notin Submissions
    BY <2>3, EngineAssumption DEF DrainInject, Elements
  <2>4. UNCHANGED admitted => Routed'
    BY DEF Routed
  <2> QED BY <2>1, <2>2, <2>3, <2>4, AdmittedStep
<1> QED BY <1>1, <1>2, PathInvariant, PTL DEF Spec

-----------------------------------------------------------------------------
(* The worker's own state.  Only four of its steps change its stock, its   *)
(* log or the results, or bring it to where the next one does.             *)
Answering == {"log", "answer"}

Quiet == /\ UNCHANGED <<stockVars, rq, replied, status>>
         /\ \A h \in Shards : workerAt[h] \in Answering \/ workerAt'[h] \in Answering =>
              workerAt'[h] = workerAt[h] /\ batch'[h] = batch[h]

LEMMA StepKinds ==
  ASSUME PathInv, [Next]_vars
  PROVE  \/ \E h \in Shards : ProcessOrder(h) \/ ProcessBench(h) \/ WriteToWal(h) \/ PushResult(h)
         \/ PollResult
         \/ Quiet
<1> USE DEF Quiet, Answering
<1>1. ASSUME NEW s \in Submissions, Caller(s) PROVE Quiet
  BY <1>1 DEF Caller, CheckAdmission, Enqueue, CallerUnchanged, workerVars
<1>2. ASSUME NEW h \in Shards, Dispatcher(h) PROVE Quiet
  BY <1>2 DEF Dispatcher, DispatcherCheck, DispatcherPop, DispatcherPush, DispatcherUnchanged, workerVars
<1>3. ASSUME NEW h \in Shards, NEW there \in {"poll", "empty", "recheck", "popped", "process", "exited"},
             workerAt' = [workerAt EXCEPT ![h] = there],
             batch' \in {batch, [batch EXCEPT ![h] = batch'[h]]},
             UNCHANGED <<stockVars, rq, replied, status>>, workerAt[h] \notin Answering
      PROVE  Quiet
  <2> SUFFICES ASSUME NEW g \in Shards, workerAt[g] \in Answering \/ workerAt'[g] \in Answering
               PROVE  workerAt'[g] = workerAt[g] /\ batch'[g] = batch[g]
    BY <1>3
  <2>1. g # h
    BY <1>3 DEF PathInv, Controlled
  <2> QED BY <1>3, <2>1 DEF PathInv, Controlled, Carried
<1>4. ASSUME NEW h \in Shards, WorkerLoop(h) PROVE Quiet
  <2>1. UNCHANGED <<stockVars, rq, replied, status>>
    BY <1>4 DEF WorkerLoop, WorkerPoll, WorkerReadRunning, WorkerRecheck, WorkerBegin, WorkerEnd, LoopUnchanged
  <2>2. batch' \in {batch, [batch EXCEPT ![h] = batch'[h]]}
    BY <1>4 DEF WorkerLoop, WorkerPoll, WorkerReadRunning, WorkerRecheck, WorkerBegin, WorkerEnd,
                WorkerGoes, TakeBatch, PathInv, Carried
  <2>3. \E there \in {"poll", "empty", "recheck", "popped", "process", "exited"} :
          workerAt' = [workerAt EXCEPT ![h] = there]
    BY <1>4 DEF WorkerLoop, WorkerPoll, WorkerReadRunning, WorkerRecheck, WorkerBegin, WorkerEnd,
                WorkerGoes, TakeBatch
  <2>4. workerAt[h] \notin Answering
    BY <1>4 DEF WorkerLoop, WorkerPoll, WorkerReadRunning, WorkerRecheck, WorkerBegin, WorkerEnd
  <2> QED BY <1>3, <2>1, <2>2, <2>3, <2>4
<1>5. ASSUME NEW h \in Shards, ProcessBarrier(h) \/ ProcessSilently(h) PROVE Quiet
  <2>1. UNCHANGED <<stockVars, rq, replied, status>> /\ Done(h)
    BY <1>5 DEF ProcessBarrier, ProcessSilently, ProcessUnchanged
  <2>2. batch' = [batch EXCEPT ![h] = batch'[h]] /\ workerAt' = [workerAt EXCEPT ![h] = "process"]
    BY <2>1 DEF Done, PathInv, Carried
  <2>3. workerAt[h] \notin Answering
    BY <1>5 DEF ProcessBarrier, ProcessSilently, Processing
  <2> QED BY <1>3, <2>1, <2>2, <2>3
<1>6. Stop => Quiet
  BY DEF Stop, RequestStop, DispatchersJoined, WorkersJoined, StopWorker, StopUnchanged, workerVars
<1>7. ASSUME NEW d \in Drainers, Drain(d) PROVE Quiet
  BY <1>7 DEF Drain, DrainCall, DrainReturn, DrainInject, DrainUnchanged, workerVars
<1>8. UNCHANGED vars => Quiet
  BY DEF vars, workerVars
<1> QED BY <1>1, <1>2, <1>4, <1>5, <1>6, <1>7, <1>8 DEF Next, Process

(* The requests a worker processes.                                        *)
LEMMA HeadTypes ==
  ASSUME PathInv, Routed, NEW h \in Shards, NEW kind, Processing(h, kind)
  PROVE  /\ batch[h] # <<>> /\ Head(batch[h]) \in Submissions
         /\ RequestOf[Head(batch[h])] \in [kind : Kinds, sku : Skus, qty : Nat \ {0}, id : Nat]
         /\ RequestOf[Head(batch[h])].kind = kind
         /\ ShardOf[RequestOf[Head(batch[h])].sku] = h
BY HeadIsRouted, EngineAssumption DEF Processing

FlagInv ==
  /\ inventory \in [Skus -> Nat \cup {NoEntry}]
  /\ soldOut \in [Skus -> BOOLEAN]
  /\ FlagImpliesEmpty

LEMMA FlagInvariant == Spec => []FlagInv
<1>1. Init => FlagInv
  BY EngineAssumption DEF Init, FlagInv, FlagImpliesEmpty
<1>2. PathInv /\ Routed /\ FlagInv /\ [Next]_vars => FlagInv'
  <2> SUFFICES ASSUME PathInv, Routed, FlagInv, [Next]_vars PROVE FlagInv'
    OBVIOUS
  <2>1. ASSUME NEW h \in Shards, ProcessOrder(h) PROVE FlagInv'
    <3> DEFINE r == RequestOf[Head(batch[h])]
    <3>1. r.sku \in Skus /\ r.qty \in Nat \ {0}
      BY <2>1, HeadTypes DEF ProcessOrder
    <3>2. /\ inventory' = [inventory EXCEPT ![r.sku] = Left(r)]
          /\ soldOut' = [soldOut EXCEPT ![r.sku] = @ \/ SellsOut(r)]
      BY <2>1 DEF ProcessOrder
    <3> HIDE DEF r
    <3>3. Left(r) \in Nat \cup {NoEntry} /\ (inventory[r.sku] = 0 => Left(r) = 0)
      BY <3>1, EngineAssumption DEF Left, Verdict, FlagInv
    <3>4. SellsOut(r) \in BOOLEAN /\ (SellsOut(r) => Left(r) = 0)
      BY DEF SellsOut
    <3>5. inventory' \in [Skus -> Nat \cup {NoEntry}] /\ soldOut' \in [Skus -> BOOLEAN]
      BY <3>1, <3>2, <3>3, <3>4 DEF FlagInv
    <3>6. ASSUME NEW k \in Skus, soldOut'[k] PROVE inventory'[k] = 0
      BY <3>1, <3>2, <3>3, <3>4, <3>6 DEF FlagInv, FlagImpliesEmpty
    <3> QED BY <3>5, <3>6 DEF FlagInv, FlagImpliesEmpty
  <2>2. ASSUME NEW h \in Shards, ProcessBench(h) \/ WriteToWal(h) \/ PushResult(h)
        PROVE  UNCHANGED <<inventory, soldOut>>
    BY <2>2 DEF ProcessBench, WriteToWal, PushResult, stockVars
  <2>3. PollResult \/ Quiet => UNCHANGED <<inventory, soldOut>>
    BY DEF PollResult, Quiet, workerVars, stockVars
  <2>4. UNCHANGED <<inventory, soldOut>> => FlagInv'
    BY DEF FlagInv, FlagImpliesEmpty
  <2> QED BY <2>1, <2>2, <2>3, <2>4, StepKinds
<1> QED BY <1>1, <1>2, PathInvariant, RoutedInvariant, PTL DEF Spec

(* No buyer is turned away while there is stock: the sold-out flag is only *)
(* up where the inventory is zero.                                         *)
THEOREM FlagsAreTrue == Spec => []FlagImpliesEmpty
<1>1. FlagInv => FlagImpliesEmpty
  BY DEF FlagInv
<1> QED BY <1>1, FlagInvariant, PTL

-----------------------------------------------------------------------------
(* The write-ahead log.                                                    *)
Logged(s) == \E i \in DOMAIN wal[ShardOf[RequestOf[s].sku]] : wal[ShardOf[RequestOf[s].sku]][i] = s
LoggedOrder(s) == RequestOf[s].kind = "order" => Logged(s)

WalTypes ==
  /\ wal \in [Shards -> Seq(Submissions)]
  /\ rq \in Seq(Results) /\ replied \subseteq Results
  /\ status \in [Shards -> 0 .. 2]
  /\ \A h \in Shards : workerAt[h] \in Answering => Head(batch[h]) \in Submissions

(* A success is in the log from the write on, until it is polled and after.*)
LogInv ==
  /\ \A h \in Shards : workerAt[h] = "answer" /\ status[h] = 1 => LoggedOrder(Head(batch[h]))
  /\ \A i \in 1 .. Len(rq) : rq[i].status = 1 => LoggedOrder(rq[i].sub)
  /\ \A r \in replied : r.status = 1 => LoggedOrder(r.sub)

(* What WriteToWal does to the logs.                                       *)
LEMMA WriteEffect ==
  ASSUME PathInv, Routed, WalTypes, NEW h \in Shards, WriteToWal(h)
  PROVE  /\ batch[h] # <<>> /\ Head(batch[h]) \in Submissions
         /\ ShardOf[RequestOf[Head(batch[h])].sku] = h
         /\ wal' \in {wal, [wal EXCEPT ![h] = Append(@, Head(batch[h]))]}
         /\ wal' \in [Shards -> Seq(Submissions)]
         /\ \A g \in Shards : g # h => wal'[g] = wal[g]
         /\ \A s \in Submissions : Logged(s) => Logged(s)'
<1>1. batch[h] # <<>> /\ Head(batch[h]) \in Submissions
  BY DEF WriteToWal, WalTypes, Answering, PathInv, BatchInProcess
<1>2. ShardOf[RequestOf[Head(batch[h])].sku] = h
  BY <1>1, HeadIsRouted, EngineAssumption
<1>3. wal' \in {wal, [wal EXCEPT ![h] = Append(@, Head(batch[h]))]}
  BY DEF WriteToWal
<1>4. wal' \in [Shards -> Seq(Submissions)] /\ \A g \in Shards : g # h => wal'[g] = wal[g]
  <2>1. wal[h] \in Seq(Submissions) /\ Append(wal[h], Head(batch[h])) \in Seq(Submissions)
    BY <1>1, AppendProperties DEF WalTypes
  <2> QED BY <1>3, <2>1 DEF WalTypes
<1>5. ASSUME NEW s \in Submissions, Logged(s) PROVE Logged(s)'
  <2> DEFINE g == ShardOf[RequestOf[s].sku]
  <2>1. g \in Shards /\ wal[g] \in Seq(Submissions)
    BY EngineAssumption DEF WalTypes
  <2>2. PICK i \in DOMAIN wal[g] : wal[g][i] = s
    BY <1>5 DEF Logged
  <2>3. i \in DOMAIN wal'[g] /\ wal'[g][i] = s
    <3>1. wal'[g] = wal[g] \/ wal'[g] = Append(wal[g], Head(batch[h]))
      BY <1>3, <2>1 DEF WalTypes
    <3> HIDE DEF g
    <3> QED BY <1>1, <2>1, <2>2, <3>1, AppendProperties, LenProperties
  <2> QED BY <2>3 DEF Logged
<1> QED BY <1>1, <1>2, <1>3, <1>4, <1>5

LEMMA WalTypesStep == PathInv /\ Routed /\ WalTypes /\ [Next]_vars => WalTypes'
<1> SUFFICES ASSUME PathInv, Routed, WalTypes, [Next]_vars PROVE WalTypes'
  OBVIOUS
<1>1. ASSUME NEW h \in Shards, ProcessOrder(h) \/ ProcessBench(h)
      PROVE  WalTypes'
  <2>1. Head(batch[h]) \in Submissions
    BY <1>1, HeadTypes DEF ProcessOrder, ProcessBench
  <2>2. UNCHANGED <<wal, rq, replied, batch>>
    BY <1>1 DEF ProcessOrder, ProcessBench, stockVars, WorkerGoes
  <2>3. \E v \in 0 .. 2 : status' = [status EXCEPT ![h] = v]
    BY <1>1 DEF ProcessOrder, ProcessBench, Verdict
  <2>4. \A g \in Shards : g # h => workerAt'[g] = workerAt[g]
    BY <1>1 DEF ProcessOrder, ProcessBench, WorkerGoes, PathInv, Controlled
  <2> QED BY <2>1, <2>2, <2>3, <2>4 DEF WalTypes
<1>2. ASSUME NEW h \in Shards, WriteToWal(h) PROVE WalTypes'
  <2>1. UNCHANGED <<rq, replied, batch, status>> /\ \A g \in Shards : g # h => workerAt'[g] = workerAt[g]
    BY <1>2 DEF WriteToWal, WorkerGoes, PathInv, Controlled
  <2> QED BY <1>2, <2>1, WriteEffect DEF WalTypes
<1>3. ASSUME NEW h \in Shards, PushResult(h) PROVE WalTypes'
  <2>1. /\ UNCHANGED <<wal, status, replied>>
        /\ rq' = Append(rq, [sub |-> Head(batch[h]), status |-> status[h]])
        /\ Done(h) /\ workerAt[h] = "answer"
    BY <1>3 DEF PushResult, ProcessUnchanged, stockVars
  <2>2. [sub |-> Head(batch[h]), status |-> status[h]] \in Results
    <3>1. Head(batch[h]) \in Submissions /\ status[h] \in 0 .. 2
      BY <2>1 DEF WalTypes, Answering
    <3> QED BY <3>1 DEF Results
  <2>3. rq' \in Seq(Results)
    <3>1. rq \in Seq(Results)
      BY DEF WalTypes
    <3> QED BY <2>1, <2>2, <3>1, AppendProperties
  <2>4. \A g \in Shards : workerAt'[g] \in Answering => workerAt[g] = workerAt'[g] /\ batch'[g] = batch[g]
    BY <2>1 DEF Done, PathInv, Controlled, Carried, Answering
  <2> QED BY <2>1, <2>3, <2>4 DEF WalTypes
<1>4. CASE PollResult
  <2>1. /\ UNCHANGED <<wal, status, workerAt, batch>> /\ rq # <<>> /\ rq' = Tail(rq)
        /\ replied' = replied \cup {Head(rq)}
    BY <1>4 DEF PollResult, workerVars, stockVars
  <2>2. rq' \in Seq(Results) /\ replied' \subseteq Results
    BY <2>1, HeadTailProperties DEF WalTypes
  <2> QED BY <2>1, <2>2 DEF WalTypes
<1>5. CASE Quiet
  BY <1>5 DEF Quiet, WalTypes, stockVars
<1> QED BY <1>1, <1>2, <1>3, <1>4, <1>5, StepKinds

LEMMA WalTypesInvariant == Spec => []WalTypes
<1>1. Init => WalTypes
  BY EmptySeq DEF Init, WalTypes, Answering
<1> QED BY <1>1, WalTypesStep, PathInvariant, RoutedInvariant, PTL DEF Spec

LEMMA LogStep == ~WalMayFail /\ PathInv /\ Routed /\ WalTypes /\ LogInv /\ [Next]_vars => LogInv'
<1> SUFFICES ASSUME ~WalMayFail, PathInv, Routed, WalTypes, LogInv, [Next]_vars PROVE LogInv'
  OBVIOUS
<1>1. ASSUME UNCHANGED <<wal, rq, replied>>, NEW h \in Shards, UNCHANGED batch,
             \A g \in Shards : g # h => workerAt'[g] = workerAt[g] /\ status'[g] = status[g],
             workerAt'[h] = "answer" /\ status'[h] = 1 => RequestOf[Head(batch[h])].kind # "order"
      PROVE  LogInv'
  BY <1>1 DEF LogInv, LoggedOrder, Logged
<1>2. ASSUME NEW h \in Shards, ProcessOrder(h) \/ ProcessBench(h)
      PROVE  LogInv'
  <2>1. UNCHANGED <<wal, rq, replied, batch>>
    BY <1>2 DEF ProcessOrder, ProcessBench, stockVars, WorkerGoes
  <2>2. \A g \in Shards : g # h => workerAt'[g] = workerAt[g] /\ status'[g] = status[g]
    BY <1>2 DEF ProcessOrder, ProcessBench, WorkerGoes, PathInv, Controlled, WalTypes
  <2>3. CASE ProcessOrder(h)
    <3>1. workerAt'[h] = "answer" => status'[h] # 1
      BY <2>3 DEF ProcessOrder, WorkerGoes, PathInv, Controlled, WalTypes
    <3> QED BY <1>1, <2>1, <2>2, <3>1
  <2>4. CASE ProcessBench(h)
    <3>1. RequestOf[Head(batch[h])].kind # "order"
      BY <2>4 DEF ProcessBench, Processing
    <3> QED BY <1>1, <2>1, <2>2, <3>1
  <2> QED BY <1>2, <2>3, <2>4
<1>3. ASSUME NEW h \in Shards, WriteToWal(h) PROVE LogInv'
  <2>1. /\ UNCHANGED <<rq, replied, batch, status>>
        /\ wal' = [wal EXCEPT ![h] = Append(@, Head(batch[h]))]
        /\ \A g \in Shards : g # h => workerAt'[g] = workerAt[g]
    BY <1>3 DEF WriteToWal, WorkerGoes, PathInv, Controlled
  <2>2. /\ Head(batch[h]) \in Submissions /\ ShardOf[RequestOf[Head(batch[h])].sku] = h
        /\ \A s \in Submissions : LoggedOrder(s) => LoggedOrder(s)'
    BY <1>3, WriteEffect DEF LoggedOrder
  <2>3. Logged(Head(batch[h]))'
    <3>1. wal[h] \in Seq(Submissions) /\ Len(wal[h]) \in Nat /\ wal'[h] = Append(wal[h], Head(batch[h]))
      BY <2>1, LenProperties DEF WalTypes
    <3>2. Len(wal[h]) + 1 \in DOMAIN wal'[h] /\ wal'[h][Len(wal[h]) + 1] = Head(batch[h])
      BY <2>2, <3>1, AppendProperties, LenProperties
    <3> QED BY <2>1, <2>2, <3>2 DEF Logged
  <2>4. ASSUME NEW g \in Shards, workerAt'[g] = "answer", status'[g] = 1
        PROVE  LoggedOrder(Head(batch[g]))'
    <3>1. CASE g = h
      BY <2>1, <2>3, <3>1 DEF LoggedOrder, Logged
    <3>2. CASE g # h
      <4>1. Head(batch[g]) \in Submissions /\ LoggedOrder(Head(batch[g]))
        BY <2>1, <2>4, <3>2 DEF WalTypes, Answering, LogInv
      <4>2. LoggedOrder(Head(batch[g]))'
        BY <2>1, <2>2, <4>1 DEF LoggedOrder, Logged
      <4> QED BY <4>2
    <3> QED BY <3>1, <3>2
  <2>5. ASSUME NEW i \in 1 .. Len(rq), rq[i].status = 1 PROVE LoggedOrder(rq[i].sub)'
    <3>1. rq[i] \in Results /\ LoggedOrder(rq[i].sub)
      BY <2>5, ElementOfSeq DEF WalTypes, LogInv
    <3> QED BY <2>1, <2>2, <3>1 DEF LoggedOrder, Logged, Results
  <2>6. ASSUME NEW r \in replied, r.status = 1 PROVE LoggedOrder(r.sub)'
    BY <2>2, <2>6 DEF WalTypes, LogInv, Results
  <2> QED BY <2>1, <2>4, <2>5, <2>6 DEF LogInv, LoggedOrder, Logged
<1>4. ASSUME NEW h \in Shards, PushResult(h) PROVE LogInv'
  <2> DEFINE x == [sub |-> Head(batch[h]), status |-> status[h]]
  <2>1. /\ UNCHANGED <<wal, status, replied>> /\ rq' = Append(rq, x)
        /\ Done(h) /\ workerAt[h] = "answer"
    BY <1>4 DEF PushResult, ProcessUnchanged, stockVars
  <2>2. x \in Results /\ rq \in Seq(Results)
    <3>1. Head(batch[h]) \in Submissions /\ status[h] \in 0 .. 2
      BY <2>1 DEF WalTypes, Answering
    <3> QED BY <3>1 DEF Results, WalTypes
  <2>3. x.status = 1 => LoggedOrder(x.sub)
    BY <2>1 DEF LogInv
  <2>4. \A g \in Shards : workerAt'[g] = "answer" => workerAt[g] = "answer" /\ batch'[g] = batch[g]
    BY <2>1 DEF Done, PathInv, Controlled, Carried
  <2> HIDE DEF x
  <2>5. ASSUME NEW i \in 1 .. Len(rq'), rq'[i].status = 1 PROVE LoggedOrder(rq'[i].sub)
    <3>1. Len(rq) \in Nat /\ Len(rq') = Len(rq) + 1 /\ rq'[Len(rq) + 1] = x
          /\ \A j \in 1 .. Len(rq) : rq'[j] = rq[j]
      BY <2>1, <2>2, AppendProperties, LenProperties
    <3>2. i = Len(rq) + 1 \/ i \in 1 .. Len(rq)
      BY <3>1
    <3> QED BY <2>3, <2>5, <3>1, <3>2 DEF LogInv
  <2>6. \A s : LoggedOrder(s)' <=> LoggedOrder(s)
    BY <2>1 DEF LoggedOrder, Logged
  <2>7. \A g \in Shards : workerAt'[g] = "answer" /\ status'[g] = 1 => LoggedOrder(Head(batch'[g]))
    BY <2>1, <2>4 DEF LogInv
  <2>8. \A r \in replied' : r.status = 1 => LoggedOrder(r.sub)
    BY <2>1 DEF LogInv
  <2> QED BY <2>5, <2>6, <2>7, <2>8 DEF LogInv
<1>5. CASE PollResult
  <2>1. /\ UNCHANGED <<wal, status, workerAt, batch>> /\ rq # <<>> /\ rq' = Tail(rq)
        /\ replied' = replied \cup {Head(rq)}
    BY <1>5 DEF PollResult, workerVars, stockVars
  <2>2. rq \in Seq(Results) /\ Len(rq) \in Nat \ {0}
    BY <2>1, EmptySeq DEF WalTypes
  <2>3. Head(rq) = rq[1] /\ Len(rq') = Len(rq) - 1 /\ \A i \in 1 .. Len(rq') : rq'[i] = rq[i + 1]
    BY <2>1, <2>2, HeadTailProperties
  <2>4. \A i \in 1 .. Len(rq') : i + 1 \in 1 .. Len(rq)
    BY <2>2, <2>3
  <2>5. Head(rq).status = 1 => LoggedOrder(Head(rq).sub)
    BY <2>2, <2>3 DEF LogInv
  <2>6. \A i \in 1 .. Len(rq') : rq'[i].status = 1 => LoggedOrder(rq'[i].sub)
    BY <2>3, <2>4 DEF LogInv
  <2> QED BY <2>1, <2>5, <2>6 DEF LogInv, LoggedOrder, Logged
<1>6. CASE Quiet
  BY <1>6 DEF Quiet, LogInv, LoggedOrder, Logged, stockVars, Answering
<1> QED BY <1>2, <1>3, <1>4, <1>5, <1>6, StepKinds

(* A success that Go has seen is in the log, where a restart finds it,     *)
(* unless a write to the log failed.                                       *)
THEOREM ReportsAreLogged == ~WalMayFail => (Spec => []ReportedIsLogged)
<1> SUFFICES ASSUME ~WalMayFail PROVE Spec => []ReportedIsLogged
  OBVIOUS
<1>1. Init => LogInv
  BY DEF Init, LogInv
<1>2. PathInv /\ Routed /\ WalTypes /\ LogInv /\ [Next]_vars => LogInv'
  BY LogStep
<1>3. LogInv => ReportedIsLogged
  BY DEF LogInv, LoggedOrder, Logged, ReportedIsLogged
<1> QED BY <1>1, <1>2, <1>3, PathInvariant, RoutedInvariant, WalTypesInvariant, PTL DEF Spec

-----------------------------------------------------------------------------
(* One id is sold once, as long as seen_requests_ is never cleared: a      *)
(* shard sees at most SeenLimit different ids.                             *)
IdsOf(h) ==
  {RequestOf[s].id :
     s \in {x \in Submissions : RequestOf[x].kind = "order" /\ ShardOf[RequestOf[x].sku] = h}}

FewIds == \A h \in Shards : IsFiniteSet(IdsOf(h)) /\ Cardinality(IdsOf(h)) <= SeenLimit

IdAt(h, i) == RequestOf[wal[h][i]].id
HeadId(h) == RequestOf[Head(batch[h])].id

(* Every id in the log was seen, and so is the one about to be written,    *)
(* which is not in the log.                                                *)
SoldOn(h) ==
  /\ seen[h] \subseteq IdsOf(h)
  /\ \A i \in DOMAIN wal[h] : IdAt(h, i) \in seen[h]
  /\ workerAt[h] = "log" => HeadId(h) \in seen[h] /\ \A i \in DOMAIN wal[h] : IdAt(h, i) # HeadId(h)
  /\ \A i, j \in DOMAIN wal[h] : IdAt(h, i) = IdAt(h, j) => i = j

SoldInv == seen \in [Shards -> SUBSET Nat] /\ \A h \in Shards : SoldOn(h)

LEMMA SoldStep == FewIds /\ PathInv /\ Routed /\ WalTypes /\ SoldInv /\ [Next]_vars => SoldInv'
<1> SUFFICES ASSUME FewIds, PathInv, Routed, WalTypes, SoldInv, [Next]_vars PROVE SoldInv'
  OBVIOUS
<1>1. ASSUME UNCHANGED <<seen, wal>>,
             \A g \in Shards : workerAt'[g] = "log" => workerAt[g] = "log" /\ batch'[g] = batch[g]
      PROVE  SoldInv'
  BY <1>1 DEF SoldInv, SoldOn, IdAt, HeadId
<1>2. ASSUME NEW h \in Shards, ProcessOrder(h) PROVE SoldInv'
  <2> DEFINE id == HeadId(h)
  <2>1. /\ Head(batch[h]) \in Submissions /\ RequestOf[Head(batch[h])].kind = "order"
        /\ ShardOf[RequestOf[Head(batch[h])].sku] = h /\ id \in Nat
    BY <1>2, HeadTypes DEF ProcessOrder, HeadId
  <2>2. /\ id \notin seen[h] /\ seen' = [seen EXCEPT ![h] = Remembered(h, id)]
        /\ UNCHANGED <<wal, batch>>
        /\ \A g \in Shards : g # h => workerAt'[g] = workerAt[g]
    BY <1>2 DEF ProcessOrder, IsDuplicate, HeadId, WorkerGoes, PathInv, Controlled
  <2>3. id \in IdsOf(h)
    BY <2>1 DEF IdsOf, HeadId
  <2> HIDE DEF id
  <2>4. Remembered(h, id) = seen[h] \cup {id}
    <3>1. seen[h] \cup {id} \in SUBSET IdsOf(h) /\ IsFiniteSet(IdsOf(h)) /\ Cardinality(IdsOf(h)) <= SeenLimit
      BY <2>3 DEF SoldInv, SoldOn, FewIds
    <3>2. /\ IsFiniteSet(seen[h] \cup {id})
          /\ Cardinality(seen[h] \cup {id}) <= Cardinality(IdsOf(h))
      BY <3>1, FS_Subset
    <3>3. Cardinality(seen[h] \cup {id}) \in Nat /\ Cardinality(IdsOf(h)) \in Nat /\ SeenLimit \in Nat
      BY <3>1, <3>2, FS_CardinalityType, EngineAssumption
    <3>4. ~(Cardinality(seen[h] \cup {id}) > SeenLimit)
      BY <3>1, <3>2, <3>3
    <3> QED BY <3>4 DEF Remembered, TooMany
  <2>5. \A g \in Shards : seen'[g] = IF g = h THEN seen[h] \cup {id} ELSE seen[g]
    BY <2>2, <2>4 DEF SoldInv
  <2>6. seen' \in [Shards -> SUBSET Nat]
    BY <2>1, <2>2, <2>4 DEF SoldInv
  <2>7. SoldOn(h)'
    <3>1. HeadId(h)' = id
      BY <2>2 DEF HeadId, id
    <3> QED BY <2>2, <2>3, <2>5, <3>1 DEF SoldInv, SoldOn, IdAt
  <2>8. ASSUME NEW g \in Shards, g # h PROVE SoldOn(g)'
    BY <2>2, <2>5, <2>8 DEF SoldInv, SoldOn, IdAt, HeadId
  <2> QED BY <2>6, <2>7, <2>8 DEF SoldInv
<1>3. ASSUME NEW h \in Shards, WriteToWal(h) PROVE SoldInv'
  <2>1. /\ UNCHANGED <<seen, batch>> /\ workerAt[h] = "log" /\ workerAt'[h] = "answer"
        /\ \A g \in Shards : g # h => workerAt'[g] = workerAt[g]
    BY <1>3 DEF WriteToWal, WorkerGoes, PathInv, Controlled
  <2>2. /\ Head(batch[h]) \in Submissions
        /\ wal' \in {wal, [wal EXCEPT ![h] = Append(@, Head(batch[h]))]}
        /\ \A g \in Shards : g # h => wal'[g] = wal[g]
    BY <1>3, WriteEffect
  <2>3. SoldOn(h)'
    <3>1. CASE wal'[h] = wal[h]
      BY <2>1, <3>1 DEF SoldInv, SoldOn, IdAt
    <3>2. CASE wal'[h] = Append(wal[h], Head(batch[h]))
      <4>1. PICK n \in Nat :
            /\ DOMAIN wal[h] = 1 .. n /\ DOMAIN wal'[h] = 1 .. n + 1
            /\ wal'[h][n + 1] = Head(batch[h]) /\ \A i \in 1 .. n : wal'[h][i] = wal[h][i]
        BY <2>2, <3>2, AppendProperties, LenProperties DEF WalTypes
      <4>2. /\ RequestOf[wal'[h][n + 1]].id = HeadId(h)
            /\ \A i \in 1 .. n : RequestOf[wal'[h][i]].id = IdAt(h, i)
        BY <4>1 DEF IdAt, HeadId
      <4>3. /\ HeadId(h) \in seen[h] /\ \A i \in 1 .. n : IdAt(h, i) # HeadId(h) /\ IdAt(h, i) \in seen[h]
            /\ \A i, j \in 1 .. n : IdAt(h, i) = IdAt(h, j) => i = j
            /\ seen[h] \subseteq IdsOf(h)
        BY <2>1, <4>1 DEF SoldInv, SoldOn
      <4>4. \A i \in 1 .. n + 1 : i = n + 1 \/ i \in 1 .. n
        BY <4>1
      <4> QED BY <2>1, <4>1, <4>2, <4>3, <4>4 DEF SoldOn, IdAt
    <3> QED BY <2>2, <3>1, <3>2 DEF WalTypes
  <2>4. ASSUME NEW g \in Shards, g # h PROVE SoldOn(g)'
    BY <2>1, <2>2, <2>4 DEF SoldInv, SoldOn, IdAt, HeadId
  <2> QED BY <2>1, <2>3, <2>4 DEF SoldInv
<1>4. ASSUME NEW h \in Shards, ProcessBench(h) \/ PushResult(h) PROVE SoldInv'
  <2>1. UNCHANGED <<seen, wal>>
    BY <1>4 DEF ProcessBench, PushResult, stockVars
  <2>2. \A g \in Shards : workerAt'[g] = "log" => workerAt[g] = "log" /\ batch'[g] = batch[g]
    BY <1>4 DEF ProcessBench, PushResult, Done, WorkerGoes, PathInv, Controlled, Carried
  <2> QED BY <1>1, <2>1, <2>2
<1>5. CASE PollResult
  BY <1>1, <1>5 DEF PollResult, workerVars, stockVars
<1>6. CASE Quiet
  BY <1>1, <1>6 DEF Quiet, Answering, stockVars
<1> QED BY <1>2, <1>3, <1>4, <1>5, <1>6, StepKinds

(* One worker never sells twice under one request id, however often it is  *)
(* submitted, while the ids of a shard fit into seen_requests_.            *)
THEOREM IdsAreSoldOnce == FewIds => (Spec => []SoldOncePerId)
<1> SUFFICES ASSUME FewIds PROVE Spec => []SoldOncePerId
  OBVIOUS
<1>1. Init => SoldInv
  BY DEF Init, SoldInv, SoldOn
<1>2. PathInv /\ Routed /\ WalTypes /\ SoldInv /\ [Next]_vars => SoldInv'
  BY SoldStep
<1>3. SoldInv => SoldOncePerId
  BY DEF SoldInv, SoldOn, IdAt, SoldOncePerId
<1> QED BY <1>1, <1>2, <1>3, PathInvariant, RoutedInvariant, WalTypesInvariant, PTL DEF Spec

-----------------------------------------------------------------------------
(* A submission is admitted once, so it has one place on the path, and the *)
(* log holds only what is finished or about to be answered.                *)
OnePlace ==
  \A h \in Shards : \A i \in 1 .. Len(admitted[h]) : admitted[h][i] \in Submissions =>
    /\ callerAt[admitted[h][i]] = "queued"
    /\ \A j \in 1 .. Len(admitted[h]) : admitted[h][j] = admitted[h][i] => j = i

Answered(h, j) == j <= Len(finished[h]) \/ (j = Len(finished[h]) + 1 /\ workerAt[h] = "answer")

LoggedIsAnswered ==
  \A h \in Shards : \A i \in DOMAIN wal[h] : \E j \in 1 .. Len(admitted[h]) :
    admitted[h][j] = wal[h][i] /\ Answered(h, j)

PlaceInv == callerAt \in [Submissions -> {"idle", "checked", "queued", "full", "soldout", "stopped"}]
            /\ OnePlace /\ LoggedIsAnswered

(* What a step does with the callers and the admitted requests.            *)
AdmitsOne(s) == /\ callerAt[s] # "queued" /\ callerAt' = [callerAt EXCEPT ![s] = "queued"]
                /\ Put(ShardOf[RequestOf[s].sku], s)

AnswersOne(s) == /\ callerAt[s] # "queued" /\ UNCHANGED admitted
                 /\ \E a \in {"checked", "full", "soldout", "stopped"} : callerAt' = [callerAt EXCEPT ![s] = a]

LEMMA CallerKinds ==
  ASSUME [Next]_vars
  PROVE  \/ \E s \in Submissions : AdmitsOne(s) \/ AnswersOne(s)
         \/ \E h \in Shards, d \in Drainers : DrainInject(d, h)
         \/ UNCHANGED <<callerAt, admitted>>
<1>1. ASSUME NEW s \in Submissions, Caller(s)
      PROVE  AdmitsOne(s) \/ AnswersOne(s)
  BY <1>1 DEF Caller, CheckAdmission, Enqueue, AdmitsOne, AnswersOne
<1>2. ASSUME NEW h \in Shards, Dispatcher(h) \/ WorkerLoop(h) \/ Process(h)
      PROVE  UNCHANGED <<callerAt, admitted>>
  BY <1>2 DEF Dispatcher, DispatcherCheck, DispatcherPop, DispatcherPush, DispatcherUnchanged,
     WorkerLoop, WorkerPoll, WorkerReadRunning, WorkerRecheck, WorkerBegin, WorkerEnd, LoopUnchanged,
     Process, ProcessBarrier, ProcessSilently, ProcessBench, ProcessOrder, WriteToWal, PushResult,
     ProcessUnchanged, callerVars
<1>3. PollResult \/ Stop => UNCHANGED <<callerAt, admitted>>
  BY DEF PollResult, Stop, RequestStop, DispatchersJoined, WorkersJoined, StopWorker, StopUnchanged, callerVars
<1>4. ASSUME NEW d \in Drainers, Drain(d)
      PROVE  UNCHANGED <<callerAt, admitted>> \/ \E h \in Shards : DrainInject(d, h)
  BY <1>4 DEF Drain, DrainCall, DrainReturn, DrainUnchanged
<1>5. UNCHANGED vars => UNCHANGED <<callerAt, admitted>>
  BY DEF vars, callerVars
<1> QED BY <1>1, <1>2, <1>3, <1>4, <1>5 DEF Next

(* Put appends one request to the history of one shard.                    *)
LEMMA PutAppends ==
  ASSUME PathInv, NEW g \in Shards, NEW x \in Elements, Put(g, x), NEW h \in Shards
  PROVE  \E n \in Nat :
           /\ n = Len(admitted[h])
           /\ Len(admitted'[h]) = IF h = g THEN n + 1 ELSE n
           /\ \A i \in 1 .. n : admitted'[h][i] = admitted[h][i]
           /\ h = g => admitted'[h][n + 1] = x
<1>1. admitted[h] \in Seq(Elements) /\ Len(admitted[h]) \in Nat
  BY PathTypes, LenProperties DEF PathInv
<1>2. admitted'[h] = IF h = g THEN Append(admitted[h], x) ELSE admitted[h]
  BY DEF Put, PathInv, Carried
<1> QED BY <1>1, <1>2, AppendProperties

LEMMA OnePlaceStep ==
  ASSUME PathInv, PlaceInv, [Next]_vars
  PROVE  callerAt' \in [Submissions -> {"idle", "checked", "queued", "full", "soldout", "stopped"}] /\ OnePlace'
<1> USE DEF PlaceInv
<1>1. ASSUME NEW s \in Submissions, AdmitsOne(s)
      PROVE  callerAt' \in [Submissions -> {"idle", "checked", "queued", "full", "soldout", "stopped"}] /\ OnePlace'
  <2>1. PICK g \in Shards : Put(g, s)
    BY <1>1, EngineAssumption DEF AdmitsOne
  <2>2. s \in Elements /\ callerAt'[s] = "queued" /\ callerAt[s] # "queued"
        /\ \A t \in Submissions : t # s => callerAt'[t] = callerAt[t]
    BY <1>1 DEF AdmitsOne, Elements
  <2>3. ASSUME NEW h \in Shards, NEW i \in 1 .. Len(admitted'[h]), admitted'[h][i] \in Submissions
        PROVE  /\ callerAt'[admitted'[h][i]] = "queued"
               /\ \A j \in 1 .. Len(admitted'[h]) : admitted'[h][j] = admitted'[h][i] => j = i
    <3>1. PICK n \in Nat :
           /\ n = Len(admitted[h])
           /\ Len(admitted'[h]) = IF h = g THEN n + 1 ELSE n
           /\ \A k \in 1 .. n : admitted'[h][k] = admitted[h][k]
           /\ h = g => admitted'[h][n + 1] = s
      BY <2>1, <2>2, PutAppends
    <3>2. \A k \in 1 .. n : admitted[h][k] # s
      BY <2>2, <3>1 DEF OnePlace
    <3>3. \A k \in 1 .. Len(admitted'[h]) : k \in 1 .. n \/ (k = n + 1 /\ h = g)
      BY <3>1
    <3>4. \A k \in 1 .. n : admitted[h][k] \in Submissions =>
            callerAt[admitted[h][k]] = "queued" /\ \A j \in 1 .. n : admitted[h][j] = admitted[h][k] => j = k
      BY <3>1 DEF OnePlace
    <3>5. CASE i \in 1 .. n
      <4>1. admitted'[h][i] = admitted[h][i] /\ admitted[h][i] # s /\ callerAt[admitted[h][i]] = "queued"
        BY <2>3, <3>1, <3>2, <3>4, <3>5
      <4>2. callerAt'[admitted'[h][i]] = "queued"
        BY <2>2, <2>3, <4>1
      <4>3. ASSUME NEW j \in 1 .. Len(admitted'[h]), admitted'[h][j] = admitted'[h][i] PROVE j = i
        BY <3>1, <3>3, <3>4, <3>5, <2>3, <4>1, <4>3
      <4> QED BY <4>2, <4>3
    <3>6. CASE i = n + 1 /\ h = g
      <4>1. admitted'[h][i] = s
        BY <3>1, <3>6
      <4>2. ASSUME NEW j \in 1 .. Len(admitted'[h]), admitted'[h][j] = s PROVE j = i
        BY <3>1, <3>2, <3>3, <3>6, <4>2
      <4> QED BY <2>2, <4>1, <4>2
    <3> QED BY <2>3, <3>3, <3>5, <3>6
  <2> QED BY <1>1, <2>3 DEF AdmitsOne, OnePlace
<1>2. ASSUME NEW s \in Submissions, AnswersOne(s)
      PROVE  callerAt' \in [Submissions -> {"idle", "checked", "queued", "full", "soldout", "stopped"}] /\ OnePlace'
  <2>1. UNCHANGED admitted /\ \A t \in Submissions : callerAt[t] = "queued" => callerAt'[t] = "queued"
    BY <1>2 DEF AnswersOne
  <2> QED BY <1>2, <2>1 DEF AnswersOne, OnePlace
<1>3. ASSUME NEW g \in Shards, NEW d \in Drainers, DrainInject(d, g)
      PROVE  callerAt' \in [Submissions -> {"idle", "checked", "queued", "full", "soldout", "stopped"}] /\ OnePlace'
  <2>1. Put(g, Barrier) /\ Barrier \in Elements /\ Barrier \notin Submissions /\ UNCHANGED callerAt
    BY <1>3, EngineAssumption DEF DrainInject, Elements, DrainUnchanged
  <2>2. ASSUME NEW h \in Shards, NEW i \in 1 .. Len(admitted'[h]), admitted'[h][i] \in Submissions
        PROVE  /\ callerAt'[admitted'[h][i]] = "queued"
               /\ \A j \in 1 .. Len(admitted'[h]) : admitted'[h][j] = admitted'[h][i] => j = i
    <3>1. PICK n \in Nat :
           /\ n = Len(admitted[h])
           /\ Len(admitted'[h]) = IF h = g THEN n + 1 ELSE n
           /\ \A k \in 1 .. n : admitted'[h][k] = admitted[h][k]
           /\ h = g => admitted'[h][n + 1] = Barrier
      BY <2>1, PutAppends
    <3>2. \A k \in 1 .. Len(admitted'[h]) : k \in 1 .. n \/ (k = n + 1 /\ h = g)
      BY <3>1
    <3>3. \A k \in 1 .. n : admitted[h][k] \in Submissions =>
            callerAt[admitted[h][k]] = "queued" /\ \A j \in 1 .. n : admitted[h][j] = admitted[h][k] => j = k
      BY <3>1 DEF OnePlace
    <3> QED BY <2>1, <2>2, <3>1, <3>2, <3>3
  <2> QED BY <2>1, <2>2 DEF OnePlace
<1>4. UNCHANGED <<callerAt, admitted>> =>
        callerAt' \in [Submissions -> {"idle", "checked", "queued", "full", "soldout", "stopped"}] /\ OnePlace'
  BY DEF OnePlace
<1> QED BY <1>1, <1>2, <1>3, <1>4, CallerKinds

LEMMA AdmittedGrows ==
  ASSUME PathInv, [Next]_vars, NEW h \in Shards
  PROVE  /\ Len(admitted[h]) \in Nat /\ Len(admitted'[h]) \in Nat /\ Len(admitted[h]) <= Len(admitted'[h])
         /\ \A i \in 1 .. Len(admitted[h]) : admitted'[h][i] = admitted[h][i]
<1>1. Len(admitted[h]) \in Nat
  BY PathTypes, LenProperties DEF PathInv
<1>2. ASSUME NEW g \in Shards, NEW x \in Elements, Put(g, x)
      PROVE  /\ Len(admitted'[h]) \in Nat /\ Len(admitted[h]) <= Len(admitted'[h])
             /\ \A i \in 1 .. Len(admitted[h]) : admitted'[h][i] = admitted[h][i]
  BY <1>1, <1>2, PutAppends
<1>3. \A s \in Submissions : s \in Elements /\ ShardOf[RequestOf[s].sku] \in Shards
  BY EngineAssumption DEF Elements
<1>4. \A g \in Shards, d \in Drainers : DrainInject(d, g) => Put(g, Barrier) /\ Barrier \in Elements
  BY DEF DrainInject, Elements
<1> QED BY <1>1, <1>2, <1>3, <1>4, AdmittedStep

(* What a step does with the logs and with what is answered.               *)
Waits == /\ UNCHANGED <<wal, finished>>
         /\ \A g \in Shards : workerAt[g] = "answer" => workerAt'[g] = "answer"

Finishes(h) == /\ batch[h] # <<>> /\ finished' = [finished EXCEPT ![h] = Append(@, Head(batch[h]))]
               /\ workerAt' = [workerAt EXCEPT ![h] = "process"]
               /\ UNCHANGED wal

LEMMA AnswerKinds ==
  ASSUME PathInv, [Next]_vars
  PROVE  Waits \/ \E h \in Shards : WriteToWal(h) \/ Finishes(h)
<1> USE DEF Waits
<1>1. ASSUME NEW s \in Submissions, Caller(s) PROVE Waits
  BY <1>1 DEF Caller, CheckAdmission, Enqueue, CallerUnchanged, workerVars, stockVars
<1>2. ASSUME NEW h \in Shards, Dispatcher(h) PROVE Waits
  BY <1>2 DEF Dispatcher, DispatcherCheck, DispatcherPop, DispatcherPush, DispatcherUnchanged, workerVars, stockVars
<1>3. ASSUME NEW h \in Shards, UNCHANGED <<wal, finished>>, workerAt[h] # "answer",
             \A g \in Shards : g # h => workerAt'[g] = workerAt[g]
      PROVE  Waits
  BY <1>3
<1>4. ASSUME NEW h \in Shards, WorkerLoop(h) PROVE Waits
  <2>1. UNCHANGED <<wal, finished>> /\ workerAt[h] # "answer"
    BY <1>4 DEF WorkerLoop, WorkerPoll, WorkerReadRunning, WorkerRecheck, WorkerBegin, WorkerEnd,
                LoopUnchanged, stockVars
  <2>2. \A g \in Shards : g # h => workerAt'[g] = workerAt[g]
    BY <1>4 DEF WorkerLoop, WorkerPoll, WorkerReadRunning, WorkerRecheck, WorkerBegin, WorkerEnd,
                WorkerGoes, TakeBatch, PathInv, Controlled
  <2> QED BY <1>3, <2>1, <2>2
<1>5. ASSUME NEW h \in Shards, ProcessBench(h) \/ ProcessOrder(h) PROVE Waits
  <2>1. UNCHANGED <<wal, finished>> /\ workerAt[h] # "answer"
    BY <1>5 DEF ProcessBench, ProcessOrder, Processing, stockVars
  <2>2. \A g \in Shards : g # h => workerAt'[g] = workerAt[g]
    BY <1>5 DEF ProcessBench, ProcessOrder, WorkerGoes, PathInv, Controlled
  <2> QED BY <1>3, <2>1, <2>2
<1>6. ASSUME NEW h \in Shards, ProcessBarrier(h) \/ ProcessSilently(h) \/ PushResult(h)
      PROVE  Finishes(h)
  BY <1>6 DEF Finishes, ProcessBarrier, ProcessSilently, Processing, PushResult, Done, stockVars, PathInv, BatchInProcess
<1>7. PollResult \/ Stop => Waits
  BY DEF PollResult, Stop, RequestStop, DispatchersJoined, WorkersJoined, StopWorker, StopUnchanged, workerVars, stockVars
<1>8. ASSUME NEW d \in Drainers, Drain(d) PROVE Waits
  BY <1>8 DEF Drain, DrainCall, DrainReturn, DrainInject, DrainUnchanged, workerVars, stockVars
<1>9. UNCHANGED vars => Waits
  BY DEF vars, workerVars, stockVars
<1> QED BY <1>1, <1>2, <1>4, <1>5, <1>6, <1>7, <1>8, <1>9 DEF Next, Process

LEMMA PlaceStep == PathInv /\ Routed /\ WalTypes /\ PlaceInv /\ [Next]_vars => PlaceInv'
<1> SUFFICES ASSUME PathInv, Routed, WalTypes, PlaceInv, [Next]_vars PROVE PlaceInv'
  OBVIOUS
<1>1. \A h \in Shards : \A i \in DOMAIN wal[h] : \E j \in 1 .. Len(admitted[h]) :
        admitted[h][j] = wal[h][i] /\ Answered(h, j)
  BY DEF PlaceInv, LoggedIsAnswered
<1>2. ASSUME NEW h \in Shards, wal'[h] = wal[h], \A j \in 1 .. Len(admitted[h]) : Answered(h, j) => Answered(h, j)'
      PROVE  \A i \in DOMAIN wal'[h] : \E j \in 1 .. Len(admitted'[h]) :
               admitted'[h][j] = wal'[h][i] /\ Answered(h, j)'
  <2>1. \A j \in 1 .. Len(admitted[h]) : j \in 1 .. Len(admitted'[h]) /\ admitted'[h][j] = admitted[h][j]
    BY AdmittedGrows
  <2> QED BY <1>1, <1>2, <2>1
<1>3. ASSUME Waits PROVE LoggedIsAnswered'
  <2>1. \A h \in Shards : wal'[h] = wal[h] /\ \A j \in 1 .. Len(admitted[h]) : Answered(h, j) => Answered(h, j)'
    BY <1>3 DEF Waits, Answered
  <2> QED BY <1>2, <2>1 DEF LoggedIsAnswered
<1>4. ASSUME NEW g \in Shards, WriteToWal(g) PROVE LoggedIsAnswered'
  <2>1. /\ workerAt[g] = "log" /\ workerAt'[g] = "answer" /\ UNCHANGED <<finished, admitted>>
        /\ \A h \in Shards : h # g => workerAt'[h] = workerAt[h] /\ wal'[h] = wal[h]
    BY <1>4, WriteEffect DEF WriteToWal, WorkerGoes, PathInv, Controlled, callerVars
  <2>2. \A h \in Shards : \A j \in 1 .. Len(admitted[h]) : Answered(h, j) => Answered(h, j)'
    BY <2>1 DEF Answered
  <2>3. CASE wal'[g] = wal[g]
    BY <1>2, <2>1, <2>2, <2>3 DEF LoggedIsAnswered
  <2>4. CASE wal'[g] = Append(wal[g], Head(batch[g]))
    <3>1. /\ Head(batch[g]) \in Submissions /\ batch[g] # <<>> /\ wal[g] \in Seq(Submissions)
      BY <1>4, WriteEffect DEF WalTypes
    <3>2. PICK n \in Nat :
            /\ DOMAIN wal[g] = 1 .. n /\ DOMAIN wal'[g] = 1 .. n + 1
            /\ wal'[g][n + 1] = Head(batch[g]) /\ \A i \in 1 .. n : wal'[g][i] = wal[g][i]
      BY <2>4, <3>1, AppendProperties, LenProperties
    <3>3. PICK k \in 1 .. Len(admitted[g]) : k = Len(finished[g]) + 1 /\ admitted[g][k] = Head(batch[g])
      BY <3>1, HeadIsAdmitted
    <3>4. Answered(g, k)'
      BY <2>1, <3>3 DEF Answered
    <3>5. ASSUME NEW i \in DOMAIN wal'[g]
          PROVE  \E j \in 1 .. Len(admitted'[g]) : admitted'[g][j] = wal'[g][i] /\ Answered(g, j)'
      <4>1. CASE i = n + 1
        BY <2>1, <3>2, <3>3, <3>4, <4>1
      <4>2. CASE i \in 1 .. n
        BY <1>1, <2>1, <2>2, <3>2, <4>2
      <4> QED BY <3>2, <3>5, <4>1, <4>2
    <3> QED BY <1>2, <2>1, <2>2, <3>5 DEF LoggedIsAnswered
  <2> QED BY <1>4, <2>3, <2>4, WriteEffect DEF WalTypes
<1>5. ASSUME NEW g \in Shards, Finishes(g) PROVE LoggedIsAnswered'
  <2>1. UNCHANGED wal /\ \A h \in Shards : h # g => finished'[h] = finished[h] /\ workerAt'[h] = workerAt[h]
    BY <1>5 DEF Finishes, PathInv, Carried, Controlled
  <2>2. Len(finished[g]) \in Nat /\ Len(finished'[g]) = Len(finished[g]) + 1
    <3>1. finished[g] \in Seq(Elements) /\ Head(batch[g]) \in Elements /\ Len(finished[g]) \in Nat
      BY <1>5, PathTypes, HeadIsAdmitted DEF PathInv, Finishes
    <3>2. finished'[g] = Append(finished[g], Head(batch[g]))
      BY <1>5 DEF Finishes, PathInv, Carried
    <3> QED BY <3>1, <3>2, AppendProperties
  <2>3. \A h \in Shards : \A j \in 1 .. Len(admitted[h]) : Answered(h, j) => Answered(h, j)'
    BY <2>1, <2>2 DEF Answered
  <2> QED BY <1>2, <2>1, <2>3 DEF LoggedIsAnswered
<1>6. LoggedIsAnswered'
  BY <1>3, <1>4, <1>5, AnswerKinds
<1> QED BY <1>6, OnePlaceStep DEF PlaceInv

LEMMA PlaceInvariant == Spec => []PlaceInv
<1>1. Init => PlaceInv
  BY DEF Init, PlaceInv, OnePlace, LoggedIsAnswered
<1> QED BY <1>1, PlaceStep, PathInvariant, RoutedInvariant, WalTypesInvariant, PTL DEF Spec

(* So the log holds nothing of what the worker takes up next.              *)
LEMMA HeadIsNotLogged ==
  ASSUME PathInv, PlaceInv, NEW h \in Shards, batch[h] # <<>>, Head(batch[h]) \in Submissions,
         workerAt[h] = "process"
  PROVE  \A i \in DOMAIN wal[h] : wal[h][i] # Head(batch[h])
<1> SUFFICES ASSUME NEW i \in DOMAIN wal[h], wal[h][i] = Head(batch[h]) PROVE FALSE
  OBVIOUS
<1>1. PICK j \in 1 .. Len(admitted[h]) : admitted[h][j] = Head(batch[h]) /\ j <= Len(finished[h])
  BY DEF PlaceInv, LoggedIsAnswered, Answered
<1>2. PICK k \in 1 .. Len(admitted[h]) : k = Len(finished[h]) + 1 /\ admitted[h][k] = Head(batch[h])
  BY HeadIsAdmitted
<1>3. j = k
  BY <1>1, <1>2 DEF PlaceInv, OnePlace
<1> QED BY <1>1, <1>2, <1>3, HeadIsAdmitted

-----------------------------------------------------------------------------
(* The log accounts for what is gone from the inventory.                   *)
Qty == [s \in Submissions |-> RequestOf[s].qty]

(* What Engine adds up is the sum of the quantities.                       *)
LEMMA TotalIsSum ==
  ASSUME NEW S \in SUBSET Submissions, IsFiniteSet(S)
  PROVE  TotalQty(S) = Sum(Qty, S)
<1> DEFINE Def(h) == h = [s \in SUBSET S |->
                            IF s = {} THEN 0
                            ELSE RequestOf[CHOOSE x \in s : TRUE].qty + h[s \ {CHOOSE x \in s : TRUE}]]
           total == CHOOSE h : Def(h)
<1>1. ASSUME NEW h PROVE Def(h) <=> IsSum(h, Qty, S)
  <2>1. \A s \in SUBSET S : s # {} => Pick(s) \in Submissions
    BY PickInside
  <2>2. \A s \in SUBSET S : s # {} => Qty[Pick(s)] = RequestOf[Pick(s)].qty
    BY <2>1 DEF Qty
  <2>3. [s \in SUBSET S |-> IF s = {} THEN 0 ELSE Qty[Pick(s)] + h[s \ {Pick(s)}]]
          = [s \in SUBSET S |-> IF s = {} THEN 0 ELSE RequestOf[Pick(s)].qty + h[s \ {Pick(s)}]]
    BY <2>2
  <2> QED BY <2>3 DEF IsSum, Pick
<1>2. \E h : IsSum(h, Qty, S)
  BY SumExists
<1> HIDE DEF Def
<1>3. \E h : Def(h)
  BY <1>1, <1>2
<1>4. Def(total)
  BY <1>3
<1>5. total[S] = Sum(Qty, S)
  BY <1>1, <1>4, SumIs
<1>6. TotalQty(S) = total[S]
  BY DEF TotalQty, MapThenSumSet, MapThenFoldSet, Def
<1> QED BY <1>5, <1>6

AllBought == UNION {Bought(h) : h \in Shards}
BoughtOf(k) == {s \in Bought(ShardOf[k]) : RequestOf[s].sku = k}

(* A shard's log and its pending deduction hold only its own requests, and *)
(* together they weigh what is gone.                                       *)
BoughtHere == \A h \in Shards : \A s \in Bought(h) : s \in Submissions /\ ShardOf[RequestOf[s].sku] = h

Accounts ==
  /\ \A k \in Skus : inventory[k] # NoEntry => StockAtStart[k] = inventory[k] + Sum(Qty, BoughtOf(k))
  /\ soldTotal = Sum(Qty, AllBought)

AccountInv == IsFiniteSet(AllBought) /\ BoughtHere /\ Accounts

LEMMA Quantities ==
  ASSUME IsFiniteSet(AllBought), BoughtHere
  PROVE  /\ \A s \in AllBought : s \in Submissions /\ Qty[s] \in Nat \ {0}
         /\ AllBought \in SUBSET Submissions /\ Sum(Qty, AllBought) \in Nat
         /\ \A k \in Skus : BoughtOf(k) \in SUBSET AllBought /\ IsFiniteSet(BoughtOf(k))
                            /\ Sum(Qty, BoughtOf(k)) \in Nat
<1>1. \A s \in AllBought : s \in Submissions /\ Qty[s] \in Nat \ {0}
  BY EngineAssumption DEF AllBought, BoughtHere, Qty
<1>2. Sum(Qty, AllBought) \in Nat
  BY <1>1, SumType
<1>3. ASSUME NEW k \in Skus
      PROVE  BoughtOf(k) \in SUBSET AllBought /\ IsFiniteSet(BoughtOf(k)) /\ Sum(Qty, BoughtOf(k)) \in Nat
  <2>1. BoughtOf(k) \in SUBSET AllBought
    BY EngineAssumption DEF BoughtOf, AllBought
  <2>2. IsFiniteSet(BoughtOf(k))
    BY <2>1, FS_Subset
  <2> QED BY <1>1, <2>1, <2>2, SumType
<1> QED BY <1>1, <1>2, <1>3

(* Most steps sell nothing; the deduction that is written to the log was   *)
(* accounted for before.                                                   *)
LEMMA NothingBought ==
  ASSUME AccountInv, \A h \in Shards : Bought(h)' = Bought(h), UNCHANGED <<inventory, soldTotal>>
  PROVE  AccountInv'
<1>1. AllBought' = AllBought
  BY DEF AllBought
<1>2. \A k \in Skus : BoughtOf(k)' = BoughtOf(k)
  BY EngineAssumption DEF BoughtOf
<1> QED BY <1>1, <1>2 DEF AccountInv, BoughtHere, Accounts

(* A request that is sold was not sold before by its shard, and the other  *)
(* shards hold no request for this SKU.                                    *)
LEMMA OneBought ==
  ASSUME AccountInv, FlagInv, NEW h \in Shards, NEW x \in Submissions, ShardOf[RequestOf[x].sku] = h,
         x \notin Bought(h), Bought(h)' = Bought(h) \cup {x},
         \A g \in Shards : g # h => Bought(g)' = Bought(g),
         inventory[RequestOf[x].sku] # NoEntry, inventory[RequestOf[x].sku] >= RequestOf[x].qty,
         inventory' = [inventory EXCEPT ![RequestOf[x].sku] = @ - RequestOf[x].qty],
         soldTotal' = soldTotal + RequestOf[x].qty
  PROVE  AccountInv'
<1>1. /\ RequestOf[x].sku \in Skus /\ RequestOf[x].qty \in Nat \ {0} /\ Qty[x] = RequestOf[x].qty
      /\ inventory \in [Skus -> Nat \cup {NoEntry}] /\ NoEntry \notin Int
  BY EngineAssumption DEF FlagInv, Qty
<1>2. AllBought' = AllBought \cup {x} /\ x \notin AllBought
  BY DEF AllBought, AccountInv, BoughtHere
<1>3. IsFiniteSet(AllBought') /\ BoughtHere'
  BY <1>2, FS_AddElement DEF AccountInv, BoughtHere
<1>4. Sum(Qty, AllBought)' = Qty[x] + Sum(Qty, AllBought)
  <2>1. \A y \in AllBought \cup {x} : Qty[y] \in Int
    BY <1>1, Quantities DEF AccountInv
  <2>2. Sum(Qty, AllBought \cup {x}) = Qty[x] + Sum(Qty, AllBought)
    BY <1>2, <2>1, SumInsert DEF AccountInv
  <2>3. Sum(Qty, AllBought)' = Sum(Qty, AllBought')
    BY DEF Qty, Sum, IsSum, Pick
  <2> QED BY <1>2, <2>2, <2>3
<1>5. soldTotal' = Sum(Qty, AllBought)'
  BY <1>1, <1>4, Quantities DEF AccountInv, Accounts
<1>6. ASSUME NEW k \in Skus, inventory'[k] # NoEntry
      PROVE  StockAtStart[k] = inventory'[k] + Sum(Qty, BoughtOf(k))'
  <2>1. CASE k = RequestOf[x].sku
    <3>1. BoughtOf(k)' = BoughtOf(k) \cup {x} /\ x \notin BoughtOf(k)
      BY <2>1 DEF BoughtOf
    <3>2. \A y \in BoughtOf(k) \cup {x} : Qty[y] \in Int
      BY <1>1, Quantities DEF AccountInv
    <3>3. Sum(Qty, BoughtOf(k) \cup {x}) = Qty[x] + Sum(Qty, BoughtOf(k))
      BY <3>1, <3>2, SumInsert, Quantities DEF AccountInv
    <3>4. inventory'[k] = inventory[k] - Qty[x] /\ inventory[k] \in Nat /\ inventory[k] # NoEntry
      BY <1>1, <2>1
    <3>5. StockAtStart[k] = inventory[k] + Sum(Qty, BoughtOf(k)) /\ Sum(Qty, BoughtOf(k)) \in Nat
      BY <3>4, Quantities DEF AccountInv, Accounts
    <3> QED BY <1>1, <3>1, <3>3, <3>4, <3>5
  <2>2. CASE k # RequestOf[x].sku
    <3>1. BoughtOf(k)' = BoughtOf(k)
      BY <2>2, EngineAssumption DEF BoughtOf
    <3>2. inventory'[k] = inventory[k]
      BY <1>1, <2>2
    <3> QED BY <1>6, <3>1, <3>2 DEF AccountInv, Accounts
  <2> QED BY <2>1, <2>2
<1> QED BY <1>3, <1>5, <1>6 DEF AccountInv, Accounts

LEMMA AccountStep ==
  ~WalMayFail /\ PathInv /\ Routed /\ WalTypes /\ FlagInv /\ PlaceInv /\ AccountInv /\ [Next]_vars => AccountInv'
<1> SUFFICES ASSUME ~WalMayFail, PathInv, Routed, WalTypes, FlagInv, PlaceInv, AccountInv, [Next]_vars
             PROVE  AccountInv'
  OBVIOUS
<1>1. ASSUME NEW h \in Shards, ProcessOrder(h) PROVE AccountInv'
  <2> DEFINE x == Head(batch[h])
  <2>1. x \in Submissions /\ ShardOf[RequestOf[x].sku] = h /\ RequestOf[x].sku \in Skus
    BY <1>1, HeadTypes DEF ProcessOrder
  <2>2. /\ workerAt[h] = "process" /\ UNCHANGED <<wal, batch>>
        /\ workerAt' = [workerAt EXCEPT ![h] = IF Verdict(RequestOf[x]) = 1 THEN "log" ELSE "answer"]
        /\ inventory' = [inventory EXCEPT ![RequestOf[x].sku] = Left(RequestOf[x])]
        /\ soldTotal' = IF Verdict(RequestOf[x]) = 1 THEN soldTotal + RequestOf[x].qty ELSE soldTotal
    BY <1>1 DEF ProcessOrder, Processing, WorkerGoes
  <2>3. \A g \in Shards : g # h => Bought(g)' = Bought(g)
    BY <2>2 DEF Bought, Written, PathInv, Controlled
  <2>4. CASE Verdict(RequestOf[x]) = 1
    <3>1. Bought(h)' = Bought(h) \cup {x}
      BY <2>2, <2>4 DEF Bought, Written, PathInv, Controlled
    <3>2. x \notin Bought(h)
      <4>1. \A i \in DOMAIN wal[h] : wal[h][i] # x
        BY <1>1, <2>1, <2>2, HeadIsNotLogged DEF ProcessOrder, Processing
      <4> QED BY <2>2, <4>1 DEF Bought, Written
    <3>3. inventory[RequestOf[x].sku] # NoEntry /\ inventory[RequestOf[x].sku] >= RequestOf[x].qty
      BY <2>4 DEF Verdict
    <3>4. /\ inventory' = [inventory EXCEPT ![RequestOf[x].sku] = @ - RequestOf[x].qty]
          /\ soldTotal' = soldTotal + RequestOf[x].qty
      BY <2>2, <2>4 DEF Left
    <3> HIDE DEF x
    <3> QED BY <2>1, <2>3, <3>1, <3>2, <3>3, <3>4, OneBought
  <2>5. CASE Verdict(RequestOf[x]) # 1
    <3>1. Bought(h)' = Bought(h)
      BY <2>2, <2>5 DEF Bought, Written, PathInv, Controlled
    <3>2. UNCHANGED <<inventory, soldTotal>>
      <4> HIDE DEF x
      <4> QED BY <2>1, <2>2, <2>5 DEF Left, FlagInv
    <3> QED BY <2>3, <3>1, <3>2, NothingBought
  <2> QED BY <2>4, <2>5
<1>2. ASSUME NEW h \in Shards, WriteToWal(h) PROVE AccountInv'
  <2>1. /\ workerAt[h] = "log" /\ workerAt' = [workerAt EXCEPT ![h] = "answer"]
        /\ UNCHANGED <<batch, inventory, soldTotal>>
        /\ wal' = [wal EXCEPT ![h] = Append(@, Head(batch[h]))]
    BY <1>2 DEF WriteToWal, WorkerGoes
  <2>2. \A g \in Shards : g # h => Bought(g)' = Bought(g)
    BY <2>1 DEF Bought, Written, WalTypes, PathInv, Controlled
  <2>3. Bought(h)' = Bought(h)
    <3>1. wal[h] \in Seq(Submissions) /\ Head(batch[h]) \in Submissions
      BY <1>2, WriteEffect DEF WalTypes
    <3>2. wal'[h] = Append(wal[h], Head(batch[h]))
      BY <2>1 DEF WalTypes
    <3>3. {wal'[h][i] : i \in DOMAIN wal'[h]} = {wal[h][i] : i \in DOMAIN wal[h]} \cup {Head(batch[h])}
      <4>1. PICK n \in Nat :
            /\ DOMAIN wal[h] = 1 .. n /\ DOMAIN wal'[h] = 1 .. n + 1
            /\ wal'[h][n + 1] = Head(batch[h]) /\ \A i \in 1 .. n : wal'[h][i] = wal[h][i]
        BY <3>1, <3>2, AppendProperties, LenProperties
      <4>2. 1 .. n + 1 = (1 .. n) \cup {n + 1}
        BY <4>1
      <4> QED BY <4>1, <4>2
    <3>4. workerAt'[h] = "answer"
      BY <2>1 DEF PathInv, Controlled
    <3> QED BY <2>1, <3>3, <3>4 DEF Bought, Written
  <2> QED BY <2>1, <2>2, <2>3, NothingBought
<1>3. ASSUME UNCHANGED <<wal, inventory, soldTotal>>,
             \A g \in Shards : /\ workerAt[g] = "log" <=> workerAt'[g] = "log"
                               /\ workerAt[g] = "log" => batch'[g] = batch[g]
      PROVE  AccountInv'
  <2>1. \A g \in Shards : Bought(g)' = Bought(g)
    BY <1>3 DEF Bought, Written
  <2> QED BY <1>3, <2>1, NothingBought
<1>4. ASSUME NEW h \in Shards, ProcessBench(h) \/ PushResult(h) PROVE AccountInv'
  <2>1. UNCHANGED <<wal, inventory, soldTotal>> /\ workerAt[h] # "log"
    BY <1>4 DEF ProcessBench, Processing, PushResult, stockVars
  <2>2. \E there \in {"process", "answer"} : workerAt' = [workerAt EXCEPT ![h] = there]
    BY <1>4 DEF ProcessBench, PushResult, Done, WorkerGoes
  <2>3. \A g \in Shards : g # h => batch'[g] = batch[g]
    BY <1>4 DEF ProcessBench, PushResult, Done, WorkerGoes, PathInv, Carried
  <2>4. \A g \in Shards : /\ workerAt[g] = "log" <=> workerAt'[g] = "log"
                          /\ workerAt[g] = "log" => batch'[g] = batch[g]
    BY <2>1, <2>2, <2>3 DEF PathInv, Controlled
  <2> QED BY <1>3, <2>1, <2>4
<1>5. CASE PollResult
  BY <1>3, <1>5 DEF PollResult, workerVars, stockVars
<1>6. CASE Quiet
  BY <1>3, <1>6 DEF Quiet, Answering, stockVars
<1> QED BY <1>1, <1>2, <1>4, <1>5, <1>6, StepKinds

(* The logs of the workers, each with the one deduction not yet written,   *)
(* account for every item that is gone from the inventory, and sold_total  *)
(* for all of them.                                                        *)
THEOREM LogAccountsForStock == ~WalMayFail => (Spec => []WalAccountsForInventory)
<1> SUFFICES ASSUME ~WalMayFail PROVE Spec => []WalAccountsForInventory
  OBVIOUS
<1>1. Init => AccountInv
  <2> SUFFICES ASSUME Init PROVE AccountInv
    OBVIOUS
  <2>1. \A h \in Shards : Bought(h) = {}
    BY DEF Init, Bought, Written
  <2>2. AllBought = {} /\ \A k \in Skus : BoughtOf(k) = {}
    BY <2>1, EngineAssumption DEF AllBought, BoughtOf
  <2>3. inventory = StockAtStart /\ soldTotal = 0
    BY DEF Init
  <2>4. Sum(Qty, {}) = 0
    BY SumEmpty
  <2>5. \A k \in Skus : inventory[k] # NoEntry => StockAtStart[k] = inventory[k] + 0
    BY <2>3, EngineAssumption
  <2>6. IsFiniteSet(AllBought)
    BY <2>2, FS_EmptySet
  <2> QED BY <2>1, <2>2, <2>3, <2>4, <2>5, <2>6 DEF AccountInv, BoughtHere, Accounts
<1>2. AccountInv => WalAccountsForInventory
  <2> SUFFICES ASSUME AccountInv PROVE WalAccountsForInventory
    OBVIOUS
  <2>1. IsFiniteSet(AllBought) /\ AllBought \in SUBSET Submissions
    BY Quantities DEF AccountInv
  <2>2. TotalQty(AllBought) = Sum(Qty, AllBought)
    BY <2>1, TotalIsSum
  <2>3. \A k \in Skus : TotalQty(BoughtOf(k)) = Sum(Qty, BoughtOf(k))
    <3> SUFFICES ASSUME NEW k \in Skus PROVE TotalQty(BoughtOf(k)) = Sum(Qty, BoughtOf(k))
      OBVIOUS
    <3>1. IsFiniteSet(BoughtOf(k)) /\ BoughtOf(k) \in SUBSET Submissions
      BY <2>1, Quantities DEF AccountInv
    <3> QED BY <3>1, TotalIsSum
  <2> QED BY <2>2, <2>3 DEF AccountInv, Accounts, WalAccountsForInventory, AllBought, BoughtOf
<1>3. PathInv /\ Routed /\ WalTypes /\ FlagInv /\ PlaceInv /\ AccountInv /\ [Next]_vars => AccountInv'
  BY AccountStep
<1> QED BY <1>1, <1>2, <1>3, PathInvariant, RoutedInvariant, WalTypesInvariant, FlagInvariant, PlaceInvariant,
     PTL DEF Spec

-----------------------------------------------------------------------------
(* The drain.  Where the barriers of a shard are among all it was given,   *)
(* and the shards whose worker has come by the barrier of drain d.         *)
Barriers(h) == {i \in 1 .. Len(admitted[h]) : admitted[h][i] = Barrier}

Reached(d) ==
  {h \in Shards : \E i \in Barriers(h) : mark[d][h] < i /\ i <= Len(finished[h])}

Active(d) == drainAt[d] \in {"inject", "wait"}

DrainTypes ==
  /\ drainAt \in [Drainers -> {"out", "inject", "wait", "drained", "ignored"}]
  /\ mark \in [Drainers -> [Shards -> Nat]]

(* The guard lets one drain in.                                            *)
OneDrain ==
  \A d \in Drainers : Active(d) => inside /\ \A e \in Drainers : Active(e) => d = e

(* A drain that is in counts its own barriers: one per shard at most, and  *)
(* the only ones on their way.                                             *)
OwnBarriers ==
  \A d \in Drainers : Active(d) =>
    /\ barrierCount = Cardinality(Reached(d))
    /\ \A h \in Shards : \A i \in Barriers(h) :
         /\ i > Len(finished[h]) => i > mark[d][h]
         /\ \A j \in Barriers(h) : i > mark[d][h] /\ j > mark[d][h] => i = j

NoneLeft ==
  (\A d \in Drainers : ~Active(d)) =>
    \A h \in Shards : \A i \in Barriers(h) : i <= Len(finished[h])

Marks ==
  \A d \in Drainers, h \in Shards :
    /\ mark[d][h] <= Len(admitted[h])
    /\ drainAt[d] = "wait" => \E i \in Barriers(h) : i > mark[d][h]
    /\ drainAt[d] = "drained" => Len(finished[h]) >= mark[d][h]

(* A barrier of a client, or a stop, ends it.                              *)
Counting == NoFalseBarriers /\ running
DrainInv == DrainTypes /\ (Counting => OneDrain /\ OwnBarriers /\ NoneLeft /\ Marks)

LEMMA BarrierTypes ==
  ASSUME PathInv, NEW h \in Shards
  PROVE  /\ Len(admitted[h]) \in Nat /\ Len(finished[h]) \in Nat
         /\ Len(finished[h]) <= Len(admitted[h])
         /\ \A i \in Barriers(h) : i \in Nat \ {0} /\ i <= Len(admitted[h])
<1>1. /\ mq[h] \in Seq(Elements) /\ sq[h] \in Seq(Elements) /\ batch[h] \in Seq(Elements)
      /\ finished[h] \in Seq(Elements) /\ InHand(h) \in Seq(Elements) /\ admitted[h] \in Seq(Elements)
  BY PathTypes DEF PathInv
<1>2. PICK x \in Seq(Elements) : x = batch[h] \o sq[h]
  BY <1>1, ConcatProperties
<1>3. PICK y \in Seq(Elements) : y = x \o InHand(h)
  BY <1>1, ConcatProperties
<1>4. PICK z \in Seq(Elements) : z = Path(h)
  BY <1>1, <1>2, <1>3, ConcatProperties DEF Path
<1>5. Len(finished[h]) \in Nat /\ Len(z) \in Nat /\ Len(finished[h] \o z) = Len(finished[h]) + Len(z)
  BY <1>1, LenProperties, ConcatProperties
<1>6. admitted[h] = finished[h] \o z
  BY <1>4 DEF PathInv, FifoConservation
<1> QED BY <1>1, <1>5, <1>6 DEF Barriers

LEMMA PutBarriers ==
  ASSUME PathInv, NEW g \in Shards, NEW x \in Elements, Put(g, x), NEW h \in Shards
  PROVE  /\ Len(admitted'[h]) = IF h = g THEN Len(admitted[h]) + 1 ELSE Len(admitted[h])
         /\ Barriers(h)' = IF h = g /\ x = Barrier THEN Barriers(h) \cup {Len(admitted[h]) + 1}
                           ELSE Barriers(h)
<1>1. admitted[h] \in Seq(Elements) /\ Len(admitted[h]) \in Nat
  BY PathTypes, LenProperties DEF PathInv
<1>2. admitted'[h] = IF h = g THEN Append(admitted[h], x) ELSE admitted[h]
  BY DEF Put, PathInv, Carried
<1>3. CASE h = g
  <2>1. PICK n \in Nat : n = Len(admitted[h])
    BY <1>1
  <2>2. /\ Len(admitted'[h]) = n + 1 /\ admitted'[h][n + 1] = x
        /\ \A i \in 1 .. n : admitted'[h][i] = admitted[h][i]
    BY <1>1, <1>2, <1>3, <2>1, AppendProperties
  <2>3. 1 .. n + 1 = (1 .. n) \cup {n + 1}
    BY <2>1
  <2>4. Barriers(h)' = Barriers(h) \cup (IF x = Barrier THEN {n + 1} ELSE {})
    BY <2>1, <2>2, <2>3 DEF Barriers
  <2> QED BY <1>3, <2>1, <2>2, <2>4
<1>4. CASE h # g
  BY <1>2, <1>4 DEF Barriers
<1> QED BY <1>3, <1>4

(* A worker is done with its next request.                                 *)
Finish(h) ==
  /\ batch[h] # <<>>
  /\ finished' = [finished EXCEPT ![h] = Append(@, Head(batch[h]))]
  /\ NoFalseBarriers => barrierCount' = IF Head(batch[h]) = Barrier THEN barrierCount + 1 ELSE barrierCount
  /\ UNCHANGED <<admitted, drainVars, running>>

LEMMA FinishBarriers ==
  ASSUME PathInv, NEW h \in Shards, Finish(h)
  PROVE  /\ \A g \in Shards : Barriers(g)' = Barriers(g)
         /\ \A g \in Shards :
              Len(finished'[g]) = IF g = h THEN Len(finished[g]) + 1 ELSE Len(finished[g])
         /\ Head(batch[h]) = Barrier <=> Len(finished[h]) + 1 \in Barriers(h)
<1>1. \A g \in Shards : Barriers(g)' = Barriers(g)
  BY DEF Finish, Barriers
<1>2. finished[h] \in Seq(Elements) /\ Head(batch[h]) \in Elements
  BY PathTypes, HeadIsAdmitted DEF PathInv, Finish
<1>3. Len(Append(finished[h], Head(batch[h]))) = Len(finished[h]) + 1
  BY <1>2, AppendProperties
<1>4. \A g \in Shards : finished'[g] = IF g = h THEN Append(finished[h], Head(batch[h])) ELSE finished[g]
  BY DEF Finish, PathInv, Carried
<1>5. Head(batch[h]) = Barrier <=> Len(finished[h]) + 1 \in Barriers(h)
  BY HeadIsAdmitted DEF Finish, Barriers
<1> QED BY <1>1, <1>3, <1>4, <1>5

LEMMA DrainStepKinds ==
  ASSUME PathInv, WalTypes, [Next]_vars
  PROVE  \/ UNCHANGED <<admitted, finished, drainVars, barrierCount, running>>
         \/ ~running' /\ UNCHANGED drainVars
         \/ \E g \in Shards, s \in Submissions :
              Put(g, s) /\ UNCHANGED <<finished, drainVars, barrierCount, running>>
         \/ \E h \in Shards : Finish(h)
         \/ \E d \in Drainers : Drain(d)
<1> USE DEF drainVars
<1>1. ASSUME NEW s \in Submissions, Caller(s)
      PROVE  \/ UNCHANGED <<admitted, finished, drainVars, barrierCount, running>>
             \/ \E g \in Shards :
                  Put(g, s) /\ UNCHANGED <<finished, drainVars, barrierCount, running>>
  <2>1. ShardOf[RequestOf[s].sku] \in Shards
    BY EngineAssumption
  <2> QED BY <1>1, <2>1 DEF Caller, CheckAdmission, Enqueue, CallerUnchanged, workerVars, stopVars
<1>2. ASSUME NEW h \in Shards, Dispatcher(h) \/ WorkerLoop(h)
      PROVE  UNCHANGED <<admitted, finished, drainVars, barrierCount, running>>
  BY <1>2 DEF Dispatcher, DispatcherCheck, DispatcherPop, DispatcherPush, DispatcherUnchanged,
     WorkerLoop, WorkerPoll, WorkerReadRunning, WorkerRecheck, WorkerBegin, WorkerEnd, LoopUnchanged,
     callerVars, workerVars, stopVars
<1>3. ASSUME NEW h \in Shards, ProcessBarrier(h) \/ ProcessSilently(h)
      PROVE  Finish(h)
  BY <1>3 DEF ProcessBarrier, ProcessSilently, Processing, ProcessUnchanged, Done, Finish,
     IsBarrier, NoFalseBarriers, callerVars, stopVars
<1>4. ASSUME NEW h \in Shards, PushResult(h)
      PROVE  Finish(h)
  <2>1. Head(batch[h]) # Barrier /\ batch[h] # <<>>
    BY <1>4, EngineAssumption DEF PushResult, WalTypes, Answering, PathInv, BatchInProcess
  <2> QED BY <1>4, <2>1 DEF PushResult, ProcessUnchanged, Done, Finish, callerVars, stopVars
<1>5. ASSUME NEW h \in Shards, ProcessBench(h) \/ ProcessOrder(h) \/ WriteToWal(h)
      PROVE  UNCHANGED <<admitted, finished, drainVars, barrierCount, running>>
  BY <1>5 DEF ProcessBench, ProcessOrder, WriteToWal, callerVars, stopVars
<1>6. PollResult => UNCHANGED <<admitted, finished, drainVars, barrierCount, running>>
  BY DEF PollResult, callerVars, workerVars, stopVars
<1>7. Stop => \/ UNCHANGED <<admitted, finished, drainVars, barrierCount, running>>
              \/ ~running' /\ UNCHANGED drainVars
  BY DEF Stop, RequestStop, DispatchersJoined, WorkersJoined, StopWorker, StopUnchanged,
     callerVars, workerVars
<1>8. UNCHANGED vars => UNCHANGED <<admitted, finished, drainVars, barrierCount, running>>
  BY DEF vars, callerVars, workerVars, stopVars
<1> QED BY <1>1, <1>2, <1>3, <1>4, <1>5, <1>6, <1>7, <1>8 DEF Next, Process

LEMMA ReachedFinite ==
  ASSUME NEW d
  PROVE  IsFiniteSet(Reached(d)) /\ Cardinality(Reached(d)) \in Nat
<1>1. IsFiniteSet(Shards)
  BY FS_Interval, EngineAssumption DEF Shards
<1>2. Reached(d) \in SUBSET Shards
  BY DEF Reached
<1> QED BY <1>1, <1>2, FS_Subset, FS_CardinalityType

(* Nothing but the input of one shard changes.                             *)
LEMMA DrainPut ==
  ASSUME PathInv, DrainInv, Counting, NEW g \in Shards, NEW s \in Submissions, Put(g, s),
         UNCHANGED <<finished, drainVars, barrierCount, running>>
  PROVE  DrainInv'
<1>1. s \in Elements /\ s # Barrier
  BY EngineAssumption DEF Elements
<1>2. \A h \in Shards : Barriers(h)' = Barriers(h) /\ Len(admitted[h]) <= Len(admitted'[h])
  BY <1>1, PutBarriers, BarrierTypes
<1>3. \A d \in Drainers : Active(d)' = Active(d) /\ Reached(d)' = Reached(d)
  BY <1>2 DEF drainVars, Active, Reached
<1>4. DrainTypes' /\ OneDrain'
  BY <1>3 DEF DrainInv, DrainTypes, OneDrain, drainVars
<1>5. OwnBarriers' /\ NoneLeft'
  BY <1>2, <1>3 DEF DrainInv, OwnBarriers, NoneLeft, drainVars
<1>6. Marks'
  <2> SUFFICES ASSUME NEW d \in Drainers, NEW h \in Shards
               PROVE  /\ mark'[d][h] <= Len(admitted'[h])
                      /\ drainAt'[d] = "wait" => \E i \in Barriers(h)' : i > mark'[d][h]
                      /\ drainAt'[d] = "drained" => Len(finished'[h]) >= mark'[d][h]
    BY DEF Marks
  <2>1. Len(admitted[h]) \in Nat /\ Len(admitted'[h]) \in Nat /\ mark[d][h] \in Nat
    BY <1>1, BarrierTypes, PutBarriers DEF DrainInv, DrainTypes
  <2> QED BY <1>2, <2>1 DEF DrainInv, Marks, drainVars
<1> QED BY <1>4, <1>5, <1>6 DEF DrainInv

(* A worker is done with a request, which may be the barrier.              *)
LEMMA DrainFinish ==
  ASSUME PathInv, DrainInv, Counting, NEW h \in Shards, Finish(h)
  PROVE  DrainInv'
<1>1. /\ \A g \in Shards : Barriers(g)' = Barriers(g) /\ UNCHANGED <<admitted, drainAt, mark, inside>>
      /\ \A g \in Shards : Len(finished'[g]) = IF g = h THEN Len(finished[g]) + 1 ELSE Len(finished[g])
      /\ Head(batch[h]) = Barrier <=> Len(finished[h]) + 1 \in Barriers(h)
  BY FinishBarriers DEF Finish, drainVars
<1>2. \A g \in Shards : /\ Len(admitted[g]) \in Nat /\ Len(finished[g]) \in Nat
                        /\ \A i \in Barriers(g) : i \in Nat
  BY BarrierTypes
<1>3. DrainTypes' /\ OneDrain'
  BY <1>1 DEF DrainInv, DrainTypes, OneDrain, Active
<1>4. Marks'
  <2> SUFFICES ASSUME NEW d \in Drainers, NEW g \in Shards
               PROVE  /\ mark'[d][g] <= Len(admitted'[g])
                      /\ drainAt'[d] = "wait" => \E i \in Barriers(g)' : i > mark'[d][g]
                      /\ drainAt'[d] = "drained" => Len(finished'[g]) >= mark'[d][g]
    BY DEF Marks
  <2>1. mark[d][g] \in Nat
    BY DEF DrainInv, DrainTypes
  <2> QED BY <1>1, <1>2, <2>1 DEF DrainInv, Marks
<1>5. NoneLeft'
  <2> SUFFICES ASSUME \A d \in Drainers : ~Active(d), NEW g \in Shards, NEW i \in Barriers(g)
               PROVE  i <= Len(finished'[g])
    BY <1>1 DEF NoneLeft, Active
  <2>1. i <= Len(finished[g])
    BY DEF DrainInv, NoneLeft
  <2> QED BY <1>1, <1>2, <2>1
<1>6. OwnBarriers'
  <2> SUFFICES ASSUME NEW d \in Drainers, Active(d)
               PROVE  /\ barrierCount' = Cardinality(Reached(d)')
                      /\ \A g \in Shards : \A i \in Barriers(g) :
                           /\ i > Len(finished'[g]) => i > mark[d][g]
                           /\ \A j \in Barriers(g) : i > mark[d][g] /\ j > mark[d][g] => i = j
    BY <1>1 DEF OwnBarriers, Active
  <2>1. /\ barrierCount = Cardinality(Reached(d))
        /\ \A g \in Shards : mark[d][g] \in Nat
        /\ \A g \in Shards : \A i \in Barriers(g) :
             /\ i > Len(finished[g]) => i > mark[d][g]
             /\ \A j \in Barriers(g) : i > mark[d][g] /\ j > mark[d][g] => i = j
    BY DEF DrainInv, DrainTypes, OwnBarriers
  <2>2. \A g \in Shards : \A i \in Barriers(g) :
             /\ i > Len(finished'[g]) => i > mark[d][g]
             /\ \A j \in Barriers(g) : i > mark[d][g] /\ j > mark[d][g] => i = j
    BY <1>1, <1>2, <2>1
  <2>3. \A g \in Shards : g \in Reached(d)' <=>
          \E i \in Barriers(g) : mark[d][g] < i /\ i <= Len(finished'[g])
    BY <1>1 DEF Reached
  <2>4. \A g \in Shards : g \in Reached(d) <=>
          \E i \in Barriers(g) : mark[d][g] < i /\ i <= Len(finished[g])
    BY DEF Reached
  <2>5. Reached(d) \subseteq Shards /\ Reached(d)' \subseteq Shards
    BY DEF Reached
  <2>6. \A g \in Shards : g # h => (g \in Reached(d)' <=> g \in Reached(d))
    BY <1>1, <2>3, <2>4
  <2>7. CASE Head(batch[h]) = Barrier
    <3> DEFINE n == Len(finished[h]) + 1
    <3>1. n \in Barriers(h) /\ n > mark[d][h]
      BY <1>1, <1>2, <2>1, <2>7
    <3>2. h \notin Reached(d)
      BY <1>2, <2>1, <2>4, <3>1
    <3>3. h \in Reached(d)'
      BY <1>1, <1>2, <2>1, <2>3, <3>1
    <3>4. Reached(d)' = Reached(d) \cup {h}
      BY <2>5, <2>6, <3>3
    <3>5. Cardinality(Reached(d) \cup {h}) = Cardinality(Reached(d)) + 1
      BY <3>2, ReachedFinite, FS_AddElement
    <3>6. barrierCount' = barrierCount + 1
      BY <2>7 DEF Finish, Counting
    <3> QED BY <2>1, <2>2, <3>4, <3>5, <3>6
  <2>8. CASE Head(batch[h]) # Barrier
    <3>1. h \in Reached(d)' <=> h \in Reached(d)
      <4>1. \A i \in Barriers(h) : i <= Len(finished'[h]) <=> i <= Len(finished[h])
        BY <1>1, <1>2, <2>8
      <4> QED BY <2>3, <2>4, <4>1
    <3>2. Reached(d)' = Reached(d)
      BY <2>5, <2>6, <3>1
    <3>3. barrierCount' = barrierCount
      BY <2>8 DEF Finish, Counting
    <3> QED BY <2>1, <2>2, <3>2, <3>3
  <2> QED BY <2>7, <2>8
<1> QED BY <1>3, <1>4, <1>5, <1>6 DEF DrainInv

(* WaitEngineDrained is called.                                            *)
LEMMA DrainCalled ==
  ASSUME PathInv, DrainInv, Counting, NEW d \in Drainers, DrainCall(d)
  PROVE  DrainInv'
<1>1. /\ drainAt[d] = "out" /\ inside'
      /\ mark' = [mark EXCEPT ![d] = [h \in Shards |-> Len(admitted[h])]]
      /\ \A h \in Shards : Barriers(h)' = Barriers(h)
      /\ UNCHANGED <<admitted, finished, running>>
  BY DEF DrainCall, DrainUnchanged, workerVars, stopVars, Barriers
<1>2. \A h \in Shards : /\ Len(admitted[h]) \in Nat /\ Len(finished[h]) \in Nat
                        /\ Len(finished[h]) <= Len(admitted[h])
                        /\ \A i \in Barriers(h) : i \in Nat \ {0} /\ i <= Len(admitted[h])
  BY BarrierTypes
<1>3. /\ \A h \in Shards : mark'[d][h] = Len(admitted[h])
      /\ \A e \in Drainers : e # d => mark'[e] = mark[e]
      /\ mark' \in [Drainers -> [Shards -> Nat]]
  BY <1>1, <1>2 DEF DrainInv, DrainTypes
<1>4. \A e \in Drainers : e # d => Reached(e)' = Reached(e)
  BY <1>1, <1>3 DEF Reached
<1>5. CASE inside /\ drainAt' = [drainAt EXCEPT ![d] = "ignored"] /\ UNCHANGED barrierCount
  <2>1. /\ drainAt' \in [Drainers -> {"out", "inject", "wait", "drained", "ignored"}]
        /\ drainAt'[d] = "ignored" /\ \A e \in Drainers : e # d => drainAt'[e] = drainAt[e]
    BY <1>5 DEF DrainInv, DrainTypes
  <2>2. \A e \in Drainers : Active(e)' = Active(e) /\ (Active(e) => e # d)
    BY <1>1, <2>1 DEF Active
  <2>3. DrainTypes' /\ OneDrain'
    BY <1>1, <1>3, <2>1, <2>2 DEF DrainInv, DrainTypes, OneDrain
  <2>4. OwnBarriers' /\ NoneLeft'
    BY <1>1, <1>3, <1>4, <1>5, <2>2 DEF DrainInv, OwnBarriers, NoneLeft
  <2>5. Marks'
    BY <1>1, <1>2, <1>3, <2>1 DEF DrainInv, Marks
  <2> QED BY <2>3, <2>4, <2>5 DEF DrainInv
<1>6. CASE ~inside /\ drainAt' = [drainAt EXCEPT ![d] = "inject"] /\ barrierCount' = 0
  <2>1. /\ drainAt' \in [Drainers -> {"out", "inject", "wait", "drained", "ignored"}]
        /\ drainAt'[d] = "inject" /\ \A e \in Drainers : e # d => drainAt'[e] = drainAt[e]
    BY <1>6 DEF DrainInv, DrainTypes
  <2>2. \A e \in Drainers : ~Active(e) /\ (Active(e)' => e = d)
    BY <1>6, <2>1 DEF DrainInv, OneDrain, Active
  <2>3. \A h \in Shards : \A i \in Barriers(h) : i <= Len(finished[h])
    BY <2>2 DEF DrainInv, NoneLeft
  <2>4. DrainTypes' /\ OneDrain' /\ NoneLeft'
    BY <1>1, <1>3, <2>1, <2>2, <2>3 DEF DrainInv, DrainTypes, OneDrain, NoneLeft
  <2>5. Reached(d)' = {}
    BY <1>1, <1>2, <1>3 DEF Reached
  <2>6. Cardinality(Reached(d)') = 0
    BY <2>5, FS_EmptySet
  <2>7. OwnBarriers'
    BY <1>1, <1>2, <1>3, <1>6, <2>2, <2>3, <2>6 DEF OwnBarriers
  <2>8. Marks'
    BY <1>1, <1>2, <1>3, <2>1 DEF DrainInv, Marks
  <2> QED BY <2>4, <2>7, <2>8 DEF DrainInv
<1> QED BY <1>5, <1>6 DEF DrainCall

(* A barrier enters the input queue of shard g.                            *)
LEMMA DrainInjected ==
  ASSUME PathInv, DrainInv, Counting, NEW d \in Drainers, NEW g \in Shards, DrainInject(d, g)
  PROVE  DrainInv'
<1>1. /\ drainAt[d] = "inject" /\ Active(d) /\ Put(g, Barrier) /\ Barrier \in Elements
      /\ drainAt' = [drainAt EXCEPT ![d] = IF g = ShardCount - 1 THEN "wait" ELSE @]
      /\ UNCHANGED <<finished, inside, mark, barrierCount, running>>
  BY DEF DrainInject, DrainUnchanged, workerVars, stopVars, Active, Elements
<1>2. \A h \in Shards : /\ Len(admitted[h]) \in Nat /\ Len(finished[h]) \in Nat
                        /\ Len(finished[h]) <= Len(admitted[h])
                        /\ \A i \in Barriers(h) : i \in Nat \ {0} /\ i <= Len(admitted[h])
  BY BarrierTypes
<1>3. \A h \in Shards :
        /\ Len(admitted'[h]) = IF h = g THEN Len(admitted[h]) + 1 ELSE Len(admitted[h])
        /\ Barriers(h)' = IF h = g THEN Barriers(h) \cup {Len(admitted[h]) + 1} ELSE Barriers(h)
  BY <1>1, PutBarriers
<1>4. \A e \in Drainers, h \in Shards : mark[e][h] \in Nat /\ mark[e][h] <= Len(admitted[h])
  BY DEF DrainInv, DrainTypes, Marks
<1>5. \A h \in Shards : Injected(d, h) <=> \E i \in Barriers(h) : i > mark[d][h]
  BY <1>2, <1>4 DEF Injected, Barriers
<1>6. \A i \in Barriers(g) : ~(i > mark[d][g])
  BY <1>5 DEF DrainInject
<1>7. /\ drainAt' \in [Drainers -> {"out", "inject", "wait", "drained", "ignored"}]
      /\ \A e \in Drainers : e # d => drainAt'[e] = drainAt[e]
      /\ drainAt'[d] = IF g = ShardCount - 1 THEN "wait" ELSE "inject"
  BY <1>1 DEF DrainInv, DrainTypes
<1>8. \A e \in Drainers : Active(e)' = Active(e) /\ (Active(e) => e = d)
  BY <1>1, <1>7 DEF Active, DrainInv, OneDrain
<1>9. Reached(d)' = Reached(d)
  <2>1. \A h \in Shards : (\E i \in Barriers(h)' : mark[d][h] < i /\ i <= Len(finished[h])) <=>
                          (\E i \in Barriers(h) : mark[d][h] < i /\ i <= Len(finished[h]))
    BY <1>2, <1>3
  <2> QED BY <1>1, <2>1 DEF Reached
<1>10. DrainTypes' /\ OneDrain' /\ NoneLeft'
  BY <1>1, <1>7, <1>8 DEF DrainInv, DrainTypes, OneDrain, NoneLeft
<1>11. OwnBarriers'
  <2>1. barrierCount' = Cardinality(Reached(d)')
    BY <1>1, <1>9 DEF DrainInv, OwnBarriers
  <2>2. ASSUME NEW h \in Shards, NEW i \in Barriers(h)'
        PROVE  /\ i > Len(finished[h]) => i > mark[d][h]
               /\ \A j \in Barriers(h)' : i > mark[d][h] /\ j > mark[d][h] => i = j
    <3>1. CASE h # g
      BY <1>1, <1>3, <2>2, <3>1 DEF DrainInv, OwnBarriers
    <3>2. CASE h = g
      BY <1>1, <1>2, <1>3, <1>4, <1>6, <2>2, <3>2 DEF DrainInv, OwnBarriers
    <3> QED BY <3>1, <3>2
  <2> QED BY <1>1, <1>8, <2>1, <2>2 DEF OwnBarriers
<1>12. Marks'
  <2>1. \A e \in Drainers, h \in Shards : mark'[e][h] <= Len(admitted'[h])
    BY <1>1, <1>2, <1>3, <1>4
  <2>2. ASSUME NEW e \in Drainers, drainAt'[e] = "wait", NEW h \in Shards
        PROVE  \E i \in Barriers(h)' : i > mark'[e][h]
    <3>1. e = d /\ g = ShardCount - 1
      BY <1>7, <1>8, <2>2 DEF Active
    <3>2. CASE h = g
      <4>1. Len(admitted[h]) + 1 \in Barriers(h)'
        BY <1>3, <3>2
      <4>2. Len(admitted[h]) + 1 > mark'[e][h]
        BY <1>1, <1>2, <1>4
      <4> QED BY <4>1, <4>2
    <3>3. CASE h # g
      <4>1. h < g
        BY <3>1, <3>3, EngineAssumption DEF Shards
      <4>2. Injected(d, h)
        BY <4>1 DEF DrainInject
      <4> QED BY <1>1, <1>3, <1>5, <3>1, <3>3, <4>2
    <3> QED BY <3>2, <3>3
  <2>3. \A e \in Drainers : drainAt'[e] = "drained" =>
          drainAt[e] = "drained"
    BY <1>7
  <2> QED BY <1>1, <2>1, <2>2, <2>3 DEF DrainInv, Marks
<1> QED BY <1>10, <1>11, <1>12 DEF DrainInv

(* Every shard has answered, so everything before its barrier is finished. *)
LEMMA DrainReturned ==
  ASSUME PathInv, DrainInv, Counting, NEW d \in Drainers, DrainReturn(d)
  PROVE  DrainInv'
<1>1. /\ drainAt[d] = "wait" /\ Active(d) /\ barrierCount >= ShardCount
      /\ drainAt' = [drainAt EXCEPT ![d] = "drained"] /\ inside' = FALSE
      /\ \A h \in Shards : Barriers(h)' = Barriers(h)
      /\ UNCHANGED <<admitted, finished, mark, running>>
  BY DEF DrainReturn, DrainUnchanged, workerVars, stopVars, Active, Barriers, Counting
<1>2. \A h \in Shards : /\ Len(admitted[h]) \in Nat /\ Len(finished[h]) \in Nat
                        /\ \A i \in Barriers(h) : i \in Nat
                        /\ mark[d][h] \in Nat
  BY BarrierTypes DEF DrainInv, DrainTypes
<1>3. Reached(d) = Shards
  <2>1. IsFiniteSet(Shards) /\ Cardinality(Shards) = ShardCount
    <3>1. 0 \in Int /\ ShardCount - 1 \in Int /\ ~(0 > ShardCount - 1)
      BY EngineAssumption
    <3>2. /\ IsFiniteSet(0 .. ShardCount - 1)
          /\ Cardinality(0 .. ShardCount - 1) =
               IF 0 > ShardCount - 1 THEN 0 ELSE (ShardCount - 1) - 0 + 1
      BY <3>1, FS_Interval
    <3> QED BY <3>1, <3>2, EngineAssumption DEF Shards
  <2>2. Reached(d) \in SUBSET Shards /\ Cardinality(Reached(d)) >= ShardCount
    BY <1>1 DEF Reached, DrainInv, OwnBarriers
  <2>3. Cardinality(Reached(d)) <= ShardCount
    BY <2>1, <2>2, FS_Subset
  <2>4. Cardinality(Reached(d)) = Cardinality(Shards)
    BY <2>1, <2>2, <2>3, ReachedFinite, EngineAssumption
  <2> QED BY <2>1, <2>2, <2>4, FS_Subset
<1>4. \A h \in Shards : \E i \in Barriers(h) : mark[d][h] < i /\ i <= Len(finished[h])
  BY <1>3 DEF Reached
<1>5. /\ drainAt' \in [Drainers -> {"out", "inject", "wait", "drained", "ignored"}]
      /\ drainAt'[d] = "drained" /\ \A e \in Drainers : e # d => drainAt'[e] = drainAt[e]
  BY <1>1 DEF DrainInv, DrainTypes
<1>6. \A e \in Drainers : ~Active(e)'
  BY <1>1, <1>5 DEF DrainInv, OneDrain, Active
<1>7. DrainTypes' /\ OneDrain' /\ OwnBarriers'
  BY <1>1, <1>5, <1>6 DEF DrainInv, DrainTypes, OneDrain, OwnBarriers
<1>8. NoneLeft'
  <2> SUFFICES ASSUME NEW h \in Shards, NEW i \in Barriers(h) PROVE i <= Len(finished[h])
    BY <1>1 DEF NoneLeft
  <2>1. PICK j \in Barriers(h) : mark[d][h] < j /\ j <= Len(finished[h])
    BY <1>4
  <2>2. i > Len(finished[h]) => i > mark[d][h]
    BY <1>1 DEF DrainInv, OwnBarriers
  <2>3. i > mark[d][h] /\ j > mark[d][h] => i = j
    BY <1>1 DEF DrainInv, OwnBarriers
  <2> QED BY <1>2, <2>1, <2>2, <2>3
<1>9. Marks'
  BY <1>1, <1>2, <1>4, <1>5 DEF DrainInv, Marks
<1> QED BY <1>7, <1>8, <1>9 DEF DrainInv

LEMMA DrainInvStep == PathInv /\ WalTypes /\ DrainInv /\ [Next]_vars => DrainInv'
<1> SUFFICES ASSUME PathInv, WalTypes, DrainInv, [Next]_vars PROVE DrainInv'
  OBVIOUS
<1>1. CASE UNCHANGED <<admitted, finished, drainVars, barrierCount, running>>
  <2>1. /\ \A h \in Shards : Barriers(h)' = Barriers(h)
        /\ UNCHANGED <<finished, admitted, drainAt, inside, mark, barrierCount, running>>
    BY <1>1 DEF Barriers, drainVars
  <2>2. \A d \in Drainers : Active(d)' = Active(d) /\ Reached(d)' = Reached(d)
    BY <2>1 DEF Active, Reached
  <2>3. DrainTypes' /\ (OneDrain => OneDrain') /\ (NoneLeft => NoneLeft') /\ (Marks => Marks')
    BY <2>1, <2>2 DEF DrainInv, DrainTypes, OneDrain, NoneLeft, Marks
  <2>4. OwnBarriers => OwnBarriers'
    BY <2>1, <2>2 DEF OwnBarriers
  <2> QED BY <2>1, <2>3, <2>4 DEF DrainInv, Counting
<1>2. CASE ~running' /\ UNCHANGED drainVars
  BY <1>2 DEF DrainInv, DrainTypes, Counting, drainVars
<1>3. CASE Counting
  BY <1>1, <1>2, <1>3, DrainStepKinds, DrainPut, DrainFinish, DrainCalled, DrainInjected,
     DrainReturned DEF Drain
<1>4. CASE ~Counting
  <2>1. ~running => ~running'
    BY DEF Next, Caller, CheckAdmission, Enqueue, CallerUnchanged,
       Dispatcher, DispatcherCheck, DispatcherPop, DispatcherPush, DispatcherUnchanged,
       WorkerLoop, WorkerPoll, WorkerReadRunning, WorkerRecheck, WorkerBegin, WorkerEnd, LoopUnchanged,
       Process, ProcessBarrier, ProcessSilently, ProcessBench, ProcessOrder, WriteToWal, PushResult,
       ProcessUnchanged, PollResult, Stop, RequestStop, DispatchersJoined, WorkersJoined, StopWorker,
       Drain, DrainCall, DrainInject, DrainReturn, DrainUnchanged, vars, stopVars
  <2>2. DrainTypes'
    <3>1. ASSUME NEW d \in Drainers, Drain(d) PROVE DrainTypes'
      <4>1. \A h \in Shards : Len(admitted[h]) \in Nat
        BY BarrierTypes
      <4>2. mark' \in [Drainers -> [Shards -> Nat]]
        <5>1. UNCHANGED mark \/ mark' = [mark EXCEPT ![d] = [h \in Shards |-> Len(admitted[h])]]
          BY <3>1 DEF Drain, DrainCall, DrainInject, DrainReturn
        <5>2. [h \in Shards |-> Len(admitted[h])] \in [Shards -> Nat]
          BY <4>1
        <5> QED BY <5>1, <5>2 DEF DrainInv, DrainTypes
      <4>3. \E s \in {"ignored", "inject", "wait", "drained"} :
              drainAt' \in {drainAt, [drainAt EXCEPT ![d] = s]}
        <5>1. DrainCall(d) => \/ drainAt' = [drainAt EXCEPT ![d] = "ignored"]
                              \/ drainAt' = [drainAt EXCEPT ![d] = "inject"]
          BY DEF DrainCall
        <5>2. DrainReturn(d) => drainAt' = [drainAt EXCEPT ![d] = "drained"]
          BY DEF DrainReturn
        <5>3. ASSUME NEW h \in Shards, DrainInject(d, h)
              PROVE  \/ drainAt' = [drainAt EXCEPT ![d] = "inject"]
                     \/ drainAt' = [drainAt EXCEPT ![d] = "wait"]
          BY <5>3 DEF DrainInject, DrainInv, DrainTypes
        <5> QED BY <3>1, <5>1, <5>2, <5>3 DEF Drain
      <4> QED BY <4>2, <4>3 DEF DrainInv, DrainTypes
    <3>2. UNCHANGED drainVars => DrainTypes'
      BY DEF DrainInv, DrainTypes, drainVars
    <3>3. \A h \in Shards : Finish(h) => UNCHANGED drainVars
      BY DEF Finish
    <3> QED BY <3>1, <3>2, <3>3, DrainStepKinds
  <2> QED BY <1>4, <2>1, <2>2 DEF DrainInv, Counting
<1> QED BY <1>3, <1>4

(* When a drain that passed the guard returns and the engine runs, all     *)
(* that was admitted before the call is finished: barriers of an earlier   *)
(* drain are never counted, and none of its own is counted twice.  It      *)
(* takes that no client uses the id of a barrier; EnqueueRequest does not  *)
(* refuse it.                                                              *)
THEOREM DrainsProcessEverything == NoFalseBarriers => (Spec => []DrainedMeansProcessed)
<1> SUFFICES ASSUME NoFalseBarriers PROVE Spec => []DrainedMeansProcessed
  OBVIOUS
<1>1. Init => DrainInv
  BY DEF Init, DrainInv, DrainTypes, OneDrain, OwnBarriers, NoneLeft, Marks, Active, Barriers
<1>2. PathInv /\ DrainInv => DrainedMeansProcessed
  BY DEF DrainInv, Counting, Marks, DrainedMeansProcessed
<1> QED BY <1>1, <1>2, DrainInvStep, PathInvariant, WalTypesInvariant, PTL DEF Spec

-----------------------------------------------------------------------------
(* The engine as its callers see it.  What is admitted and not finished is *)
(* the path, so the path changes with those two.                           *)
LEMMA CancelFront ==
  ASSUME NEW S, NEW f \in Seq(S), NEW p \in Seq(S), NEW q \in Seq(S), f \o p = f \o q
  PROVE  p = q
<1>1. \A s, t, v \in Seq(S) : s \o t = s \o v => t = v
  BY ConcatSimplifications, Zenon
<1> QED BY <1>1

LEMMA PathType ==
  ASSUME PathInv, NEW h \in Shards
  PROVE  /\ Path(h) \in Seq(Elements) /\ finished[h] \in Seq(Elements) /\ admitted[h] \in Seq(Elements)
         /\ admitted[h] = finished[h] \o Path(h)
<1>1. /\ mq[h] \in Seq(Elements) /\ sq[h] \in Seq(Elements) /\ batch[h] \in Seq(Elements)
      /\ finished[h] \in Seq(Elements) /\ admitted[h] \in Seq(Elements) /\ InHand(h) \in Seq(Elements)
  BY PathTypes DEF PathInv
<1>2. PICK x \in Seq(Elements) : x = batch[h] \o sq[h]
  BY <1>1, ConcatProperties
<1>3. PICK y \in Seq(Elements) : y = x \o InHand(h)
  BY <1>1, ConcatProperties
<1>4. y \o mq[h] \in Seq(Elements)
  BY <1>1, ConcatProperties
<1> QED BY <1>1, <1>2, <1>3, <1>4 DEF Path, PathInv, FifoConservation

PathTyped ==
  \A h \in Shards :
    /\ Path(h) \in Seq(Elements) /\ finished[h] \in Seq(Elements) /\ admitted[h] \in Seq(Elements)
    /\ admitted[h] = finished[h] \o Path(h)

LEMMA PathTypeNext == PathInv' => PathTyped'
<1>1. PathInv => PathTyped
  BY PathType DEF PathTyped
<1> QED BY <1>1, PTL

(* A batch that is not empty holds the head of the path.                   *)
LEMMA PathHead ==
  ASSUME PathInv, NEW h \in Shards, batch[h] # <<>>
  PROVE  Path(h) # <<>> /\ Head(Path(h)) = Head(batch[h])
<1>1. /\ Len(finished[h]) < Len(admitted[h]) /\ admitted[h][Len(finished[h]) + 1] = Head(batch[h])
      /\ Len(finished[h]) \in Nat
  BY HeadIsAdmitted
<1>2. PICK f \in Seq(Elements), p \in Seq(Elements) : f = finished[h] /\ p = Path(h) /\ admitted[h] = f \o p
  BY PathType
<1>3. /\ Len(f \o p) = Len(f) + Len(p) /\ Len(f) \in Nat /\ Len(p) \in Nat
      /\ \A i \in 1 .. Len(f) + Len(p) : (f \o p)[i] = IF i <= Len(f) THEN f[i] ELSE p[i - Len(f)]
  BY ConcatProperties, LenProperties
<1>4. Len(p) > 0 /\ (f \o p)[Len(f) + 1] = Head(batch[h])
  BY <1>1, <1>2, <1>3
<1>5. p[1] = Head(batch[h])
  BY <1>3, <1>4
<1>6. p # <<>>
  BY <1>4
<1> QED BY <1>2, <1>5, <1>6

(* What is added behind f \o p is added behind p ...                        *)
Adds(b, a, x) == b = Append(a, x)

LEMMA EndOfPath ==
  ASSUME NEW S, NEW f \in Seq(S), NEW p \in Seq(S), NEW q \in Seq(S), NEW x \in S, Adds(f \o q, f \o p, x)
  PROVE  Adds(q, p, x)
<1>1. <<x>> \in Seq(S) /\ f \o p \in Seq(S) /\ p \o <<x>> \in Seq(S)
  BY AppendConcat, ConcatProperties
<1>2. Append(f \o p, x) = (f \o p) \o <<x>> /\ Append(p, x) = p \o <<x>>
  BY <1>1, AppendConcat
<1>3. (f \o p) \o <<x>> = f \o (p \o <<x>>)
  BY <1>1, ConcatAssociative
<1>4. f \o q = f \o (p \o <<x>>)
  BY <1>2, <1>3 DEF Adds
<1>5. q = p \o <<x>>
  BY <1>1, <1>4, CancelFront
<1> QED BY <1>2, <1>5 DEF Adds

(* ... and what f takes over from p is the head of p.                      *)
LEMMA FrontOfPath ==
  ASSUME NEW S, NEW f \in Seq(S), NEW p \in Seq(S), NEW q \in Seq(S), NEW x \in S,
         f \o p = Append(f, x) \o q
  PROVE  q = Tail(p)
<1>1. <<x>> \in Seq(S) /\ <<x>> \o q \in Seq(S)
  BY AppendConcat, ConcatProperties
<1>2. Append(f, x) = f \o <<x>>
  BY AppendConcat
<1>3. (f \o <<x>>) \o q = f \o (<<x>> \o q)
  BY <1>1, ConcatAssociative
<1>4. f \o p = f \o (<<x>> \o q)
  BY <1>2, <1>3
<1>5. p = <<x>> \o q
  BY <1>1, <1>4, CancelFront
<1>6. /\ Len(<<x>> \o q) = 1 + Len(q) /\ Len(q) \in Nat
      /\ \A i \in 1 .. 1 + Len(q) : (<<x>> \o q)[i] = IF i <= 1 THEN x ELSE q[i - 1]
  BY <1>1, ConcatProperties, LenProperties
<1>7. p # <<>> /\ Len(p) = 1 + Len(q) /\ Len(q) \in Nat /\ \A i \in 1 .. Len(q) : p[i + 1] = q[i]
  BY <1>5, <1>6
<1>8. /\ Tail(p) \in Seq(S) /\ Len(Tail(p)) = Len(q)
      /\ \A i \in 1 .. Len(q) : Tail(p)[i] = p[i + 1]
  BY <1>7, HeadTailProperties
<1>9. \A i \in 1 .. Len(q) : Tail(p)[i] = q[i]
  BY <1>7, <1>8
<1> QED BY <1>8, <1>9, SeqEqual

LEMMA PathStays ==
  ASSUME PathInv, PathInv', NEW h \in Shards, admitted'[h] = admitted[h], finished'[h] = finished[h]
  PROVE  Path(h)' = Path(h)
<1>1. PICK f \in Seq(Elements), p \in Seq(Elements), q \in Seq(Elements) :
        f = finished[h] /\ p = Path(h) /\ q = Path(h)' /\ f \o p = f \o q
  BY PathType, PathTypeNext DEF PathTyped
<1> QED BY <1>1, CancelFront

LEMMA PathGrows ==
  ASSUME PathInv, PathInv', NEW h \in Shards, NEW x \in Elements,
         admitted'[h] = Append(admitted[h], x), finished'[h] = finished[h]
  PROVE  Path(h)' = Append(Path(h), x)
<1>1. PICK f \in Seq(Elements), p \in Seq(Elements), q \in Seq(Elements) :
        f = finished[h] /\ p = Path(h) /\ q = Path(h)' /\ Adds(f \o q, f \o p, x)
  BY PathType, PathTypeNext DEF PathTyped, Adds
<1>2. Adds(q, p, x)
  BY <1>1, EndOfPath
<1> QED BY <1>1, <1>2 DEF Adds

LEMMA PathMoves ==
  ASSUME PathInv, PathInv', NEW h \in Shards, NEW x \in Elements,
         admitted'[h] = admitted[h], finished'[h] = Append(finished[h], x)
  PROVE  Path(h)' = Tail(Path(h))
<1>1. PICK f \in Seq(Elements), p \in Seq(Elements), q \in Seq(Elements) :
        f = finished[h] /\ p = Path(h) /\ q = Path(h)' /\ f \o p = Append(f, x) \o q
  BY PathType, PathTypeNext DEF PathTyped
<1>2. q = Tail(p)
  <2>1. \A f1, p1, q1 \in Seq(Elements) : f1 \o p1 = Append(f1, x) \o q1 => q1 = Tail(p1)
    BY FrontOfPath
  <2> QED BY <1>1, <2>1, Zenon
<1> QED BY <1>1, <1>2, Zenon

-----------------------------------------------------------------------------
(* Each result is of a request that is finished, and the only one of it.   *)
Served == {s \in Submissions :
  \E j \in 1 .. Len(admitted[ShardOf[RequestOf[s].sku]]) :
    j <= Len(finished[ShardOf[RequestOf[s].sku]]) /\ admitted[ShardOf[RequestOf[s].sku]][j] = s}

AnswerInv ==
  /\ \A i \in 1 .. Len(rq) : rq[i].sub \in Served
  /\ \A r \in replied : r.sub \in Served
  /\ \A i \in 1 .. Len(rq) : \A r \in replied : r.sub # rq[i].sub
  /\ \A i, j \in 1 .. Len(rq) : rq[i].sub = rq[j].sub => i = j

LEMMA FinishedGrows ==
  ASSUME PathInv, [Next]_vars, NEW h \in Shards
  PROVE  /\ Len(finished[h]) \in Nat /\ Len(finished'[h]) \in Nat /\ Len(finished[h]) <= Len(finished'[h])
         /\ \A g \in Shards : Finishes(g) => Len(finished'[g]) = Len(finished[g]) + 1
<1>1. \A g \in Shards : finished[g] \in Seq(Elements) /\ Len(finished[g]) \in Nat
  BY PathTypes, LenProperties DEF PathInv
<1>2. ASSUME NEW g \in Shards, Finishes(g)
      PROVE  /\ Len(finished'[g]) = Len(finished[g]) + 1
             /\ \A k \in Shards : k # g => finished'[k] = finished[k]
  <2>1. finished'[g] = Append(finished[g], Head(batch[g])) /\ \A k \in Shards : k # g => finished'[k] = finished[k]
    BY <1>2 DEF Finishes, PathInv, Carried
  <2>2. Head(batch[g]) \in Elements
    BY <1>2, HeadIsAdmitted DEF Finishes
  <2> QED BY <1>1, <2>1, <2>2, AppendProperties
<1>3. Waits \/ (\E g \in Shards : WriteToWal(g)) => UNCHANGED finished
  BY DEF Waits, WriteToWal
<1> QED BY <1>1, <1>2, <1>3, AnswerKinds

LEMMA ServedGrows ==
  ASSUME PathInv, [Next]_vars
  PROVE  Served \subseteq Served'
<1> SUFFICES ASSUME NEW s \in Submissions, s \in Served PROVE s \in Served'
  BY DEF Served
<1> DEFINE h == ShardOf[RequestOf[s].sku]
<1>1. h \in Shards
  BY EngineAssumption
<1>2. PICK j \in 1 .. Len(admitted[h]) : j <= Len(finished[h]) /\ admitted[h][j] = s
  BY DEF Served
<1> HIDE DEF h
<1>3. /\ Len(admitted[h]) \in Nat /\ Len(admitted'[h]) \in Nat /\ Len(admitted[h]) <= Len(admitted'[h])
      /\ \A i \in 1 .. Len(admitted[h]) : admitted'[h][i] = admitted[h][i]
  BY <1>1, AdmittedGrows
<1>4. Len(finished[h]) \in Nat /\ Len(finished'[h]) \in Nat /\ Len(finished[h]) <= Len(finished'[h])
  BY <1>1, FinishedGrows
<1>5. j \in 1 .. Len(admitted'[h]) /\ j <= Len(finished'[h]) /\ admitted'[h][j] = s
  BY <1>2, <1>3, <1>4
<1> QED BY <1>5 DEF Served, h

LEMMA HeadIsNotServed ==
  ASSUME PathInv, Routed, PlaceInv, NEW h \in Shards, batch[h] # <<>>, Head(batch[h]) \in Submissions
  PROVE  Head(batch[h]) \notin Served
<1>1. PICK k \in 1 .. Len(admitted[h]) : k = Len(finished[h]) + 1 /\ admitted[h][k] = Head(batch[h])
  BY HeadIsAdmitted
<1>2. ShardOf[RequestOf[Head(batch[h])].sku] = h
  BY HeadIsRouted, EngineAssumption
<1>3. ASSUME Head(batch[h]) \in Served
      PROVE  \E j \in 1 .. Len(admitted[h]) : j <= Len(finished[h]) /\ admitted[h][j] = Head(batch[h])
  BY <1>2, <1>3 DEF Served
<1>4. \A j \in 1 .. Len(admitted[h]) : admitted[h][j] = Head(batch[h]) => j = k
  BY <1>1 DEF PlaceInv, OnePlace
<1>5. Len(finished[h]) \in Nat
  BY HeadIsAdmitted
<1> QED BY <1>1, <1>3, <1>4, <1>5

LEMMA AnswerStep ==
  ASSUME PathInv, Routed, WalTypes, PlaceInv, AnswerInv, [Next]_vars
  PROVE  AnswerInv'
<1>0. rq \in Seq(Results) /\ Len(rq) \in Nat /\ replied \subseteq Results
      /\ \A i \in 1 .. Len(rq) : rq[i] \in Results /\ rq[i].sub \in Submissions
  <2>1. rq \in Seq(Results) /\ replied \subseteq Results
    BY DEF WalTypes
  <2>2. \A i \in 1 .. Len(rq) : rq[i] \in Results
    BY <2>1, ElementOfSeq
  <2> QED BY <2>1, <2>2, LenProperties DEF Results
<1>1. Served \subseteq Served'
  BY ServedGrows
<1>3. ASSUME NEW h \in Shards, PushResult(h) PROVE AnswerInv'
  <2> DEFINE n == Len(rq)
  <2>0. PICK s : s = Head(batch[h])
    OBVIOUS
  <2>1. /\ UNCHANGED replied /\ Done(h) /\ workerAt[h] = "answer"
        /\ rq' = Append(rq, [sub |-> s, status |-> status[h]])
    BY <1>3, <2>0 DEF PushResult, ProcessUnchanged
  <2>2. s \in Submissions /\ batch[h] # <<>> /\ status[h] \in 0 .. 2
    BY <2>0, <2>1 DEF WalTypes, Answering, PathInv, BatchInProcess
  <2>3. s \notin Served
    BY <2>0, <2>2, HeadIsNotServed
  <2>4. s \in Served'
    <3>1. Finishes(h)
      BY <1>3, <2>1, <2>2 DEF Finishes, PushResult, Done, stockVars
    <3>2. Len(finished[h]) \in Nat /\ Len(finished'[h]) = Len(finished[h]) + 1
      BY <3>1, FinishedGrows
    <3>3. PICK k \in 1 .. Len(admitted[h]) : k = Len(finished[h]) + 1 /\ admitted[h][k] = s
      BY <2>0, <2>2, HeadIsAdmitted
    <3>4. ShardOf[RequestOf[s].sku] = h
      BY <2>0, <2>2, HeadIsRouted, EngineAssumption
    <3>5. UNCHANGED admitted
      BY <1>3 DEF PushResult, ProcessUnchanged, callerVars
    <3>6. k \in 1 .. Len(admitted'[h]) /\ k <= Len(finished'[h]) /\ admitted'[h][k] = s
      BY <3>2, <3>3, <3>5
    <3> QED BY <2>2, <3>4, <3>6 DEF Served
  <2>5. [sub |-> s, status |-> status[h]] \in Results
    BY <2>2 DEF Results
  <2>6. Len(rq') = n + 1 /\ \A i \in 1 .. n : rq'[i] = rq[i]
    BY <1>0, <2>1, <2>5, AppendProperties
  <2>7. rq'[n + 1].sub = s
    <3>1. rq'[n + 1] = [sub |-> s, status |-> status[h]]
      BY <1>0, <2>1, <2>5, AppendProperties
    <3> QED BY <3>1
  <2>8. \A i \in 1 .. n : rq[i].sub # s
    BY <2>3 DEF AnswerInv
  <2>9. \A r \in replied : r.sub # s
    BY <2>3 DEF AnswerInv
  <2>10. \A i \in 1 .. n + 1 : i \in 1 .. n \/ i = n + 1
    BY <1>0
  <2> HIDE DEF n
  <2>11. \A i \in 1 .. n + 1 : rq'[i].sub \in Served'
    <3>1. \A i \in 1 .. n : rq'[i].sub \in Served'
      BY <1>1, <2>6 DEF AnswerInv, n
    <3>2. rq'[n + 1].sub \in Served'
      BY <2>4, <2>7 DEF Served
    <3> QED BY <2>10, <3>1, <3>2
  <2>12. \A r \in replied' : r.sub \in Served'
    BY <1>1, <2>1 DEF AnswerInv
  <2>13. \A i \in 1 .. n + 1 : \A r \in replied' : r.sub # rq'[i].sub
    BY <2>1, <2>6, <2>7, <2>9, <2>10 DEF AnswerInv, n
  <2>14. \A i, j \in 1 .. n + 1 : rq'[i].sub = rq'[j].sub => i = j
    BY <2>6, <2>7, <2>8, <2>10 DEF AnswerInv, n
  <2> QED BY <2>6, <2>11, <2>12, <2>13, <2>14 DEF AnswerInv
<1>4. ASSUME PollResult PROVE AnswerInv'
  <2>1. rq # <<>> /\ rq' = Tail(rq) /\ replied' = replied \cup {Head(rq)}
    BY <1>4 DEF PollResult
  <2>2. PICK n \in Nat : Len(rq) = n + 1 /\ Len(rq') = n /\ \A i \in 1 .. n : rq'[i] = rq[i + 1]
    <3>1. Len(rq) \in Nat \ {0}
      BY <1>0, <2>1, EmptySeq
    <3>2. Len(rq') = Len(rq) - 1 /\ \A i \in 1 .. Len(rq') : rq'[i] = rq[i + 1]
      BY <1>0, <2>1, HeadTailProperties
    <3> QED BY <3>1, <3>2
  <2>3. Head(rq) = rq[1]
    BY <1>0, <2>1
  <2>4. \A i \in 1 .. n : i + 1 \in 1 .. Len(rq) /\ 1 \in 1 .. Len(rq) /\ i + 1 # 1
    BY <2>2
  <2>5. 1 \in 1 .. Len(rq)
    BY <2>2
  <2>6. \A i \in 1 .. n : rq'[i].sub \in Served'
    BY <1>1, <2>2, <2>4 DEF AnswerInv
  <2>7. \A r \in replied' : r.sub \in Served'
    BY <1>0, <1>1, <2>1, <2>3, <2>5 DEF AnswerInv
  <2>8. \A i \in 1 .. n : \A r \in replied' : r.sub # rq'[i].sub
    BY <2>1, <2>2, <2>3, <2>4 DEF AnswerInv
  <2>9. \A i, j \in 1 .. n : rq'[i].sub = rq'[j].sub => i = j
    <3>1. ASSUME NEW i \in 1 .. n, NEW j \in 1 .. n, rq'[i].sub = rq'[j].sub PROVE i + 1 = j + 1
      BY <2>2, <2>4, <3>1 DEF AnswerInv
    <3> QED BY <3>1
  <2> QED BY <2>2, <2>6, <2>7, <2>8, <2>9 DEF AnswerInv
<1>5. ASSUME UNCHANGED <<rq, replied>> PROVE AnswerInv'
  BY <1>1, <1>5 DEF AnswerInv
<1>6. \A h \in Shards : ProcessOrder(h) \/ ProcessBench(h) \/ WriteToWal(h) => UNCHANGED <<rq, replied>>
  BY DEF ProcessOrder, ProcessBench, WriteToWal
<1>7. Quiet => UNCHANGED <<rq, replied>>
  BY DEF Quiet
<1> QED BY <1>3, <1>4, <1>5, <1>6, <1>7, StepKinds

LEMMA AnswerInvariant == Spec => []AnswerInv
<1>1. Init => AnswerInv
  BY DEF Init, AnswerInv
<1> QED BY <1>1, AnswerStep, PathInvariant, RoutedInvariant, WalTypesInvariant, PlaceInvariant, PTL DEF Spec

-----------------------------------------------------------------------------
(* The refinement: what each step does to the line and to the result that  *)
(* is being given.                                                         *)
LEMMA LineTypes ==
  /\ Line = [h \in Shards |-> Line[h]] /\ ToAnswer = [h \in Shards |-> ToAnswer[h]]
  /\ \A h \in Shards : Line[h] = IF InService(h) THEN Tail(Path(h)) ELSE Path(h)
  /\ \A h \in Shards : ToAnswer[h] = IF InService(h) THEN [sub |-> Head(batch[h]), status |-> status[h]]
                                     ELSE [sub |-> Barrier, status |-> 0]
BY DEF Line, ToAnswer

LEMMA LineTypesNext ==
  /\ Line' = [h \in Shards |-> Line'[h]] /\ ToAnswer' = [h \in Shards |-> ToAnswer'[h]]
  /\ \A h \in Shards : Line'[h] = IF InService(h)' THEN Tail(Path(h)') ELSE Path(h)'
  /\ \A h \in Shards : ToAnswer'[h] = IF InService(h)' THEN [sub |-> Head(batch'[h]), status |-> status'[h]]
                                      ELSE [sub |-> Barrier, status |-> 0]
BY DEF Line, ToAnswer

(* Nothing moves between path and server of shard h.                       *)
Rests(h) == /\ InService(h)' = InService(h) /\ status'[h] = status[h]
            /\ InService(h) => batch'[h] = batch[h]

LEMMA QuietRests == ASSUME Quiet, NEW h \in Shards PROVE Rests(h)
BY DEF Quiet, Rests, InService, Answering

LEMMA ShardStays ==
  ASSUME PathInv, PathInv', NEW h \in Shards, admitted'[h] = admitted[h], finished'[h] = finished[h], Rests(h)
  PROVE  Line'[h] = Line[h] /\ ToAnswer'[h] = ToAnswer[h]
<1>1. Path(h)' = Path(h)
  BY PathStays
<1>2. CASE InService(h)
  <2>1. InService(h)' /\ batch'[h] = batch[h] /\ status'[h] = status[h]
    BY <1>2 DEF Rests
  <2>2. Line[h] = Tail(Path(h)) /\ Line'[h] = Tail(Path(h)')
    BY <1>2, <2>1, LineTypes, LineTypesNext
  <2>3. /\ ToAnswer[h] = [sub |-> Head(batch[h]), status |-> status[h]]
        /\ ToAnswer'[h] = [sub |-> Head(batch'[h]), status |-> status'[h]]
    BY <1>2, <2>1, LineTypes, LineTypesNext
  <2> QED BY <1>1, <2>1, <2>2, <2>3, Zenon
<1>3. CASE ~InService(h)
  <2>1. ~InService(h)'
    BY <1>3 DEF Rests
  <2> QED BY <1>1, <1>3, <2>1, LineTypes, LineTypesNext
<1> QED BY <1>2, <1>3

(* The server of h has a request in hand only while the path is not empty. *)
LEMMA ServiceHead ==
  ASSUME PathInv, NEW h \in Shards, InService(h)
  PROVE  batch[h] # <<>> /\ Path(h) # <<>> /\ Head(Path(h)) = Head(batch[h])
BY PathHead DEF InService, PathInv, BatchInProcess

LEMMA ShardPut ==
  ASSUME PathInv, PathInv', NEW h \in Shards, NEW x \in Elements,
         admitted'[h] = Append(admitted[h], x), finished'[h] = finished[h], Rests(h)
  PROVE  Line'[h] = Append(Line[h], x) /\ ToAnswer'[h] = ToAnswer[h]
<1>1. PICK p \in Seq(Elements) : p = Path(h) /\ Append(p, x) = Path(h)'
  BY PathGrows, PathType
<1>2. ToAnswer'[h] = ToAnswer[h]
  BY LineTypes, LineTypesNext DEF Rests
<1>3. CASE InService(h)
  <2>1. p # <<>>
    BY <1>1, <1>3, ServiceHead
  <2>2. Tail(Append(p, x)) = Append(Tail(p), x)
    BY <2>1, HeadTailAppend
  <2> QED BY <1>1, <1>2, <1>3, <2>2, LineTypes, LineTypesNext DEF Rests
<1>4. CASE ~InService(h)
  BY <1>1, <1>2, <1>4, LineTypes, LineTypesNext DEF Rests
<1> QED BY <1>3, <1>4

Admits(g, x) == Put(g, x) /\ Quiet /\ UNCHANGED finished

LEMMA LinePut ==
  ASSUME PathInv, PathInv', NEW g \in Shards, NEW x \in Elements, Admits(g, x)
  PROVE  Line' = [Line EXCEPT ![g] = Append(@, x)] /\ ToAnswer' = ToAnswer
<1>1. admitted'[g] = Append(admitted[g], x) /\ \A h \in Shards : h # g => admitted'[h] = admitted[h]
  BY DEF Admits, Put, PathInv, Carried
<1>2. \A h \in Shards : finished'[h] = finished[h] /\ Rests(h)
  BY QuietRests DEF Admits
<1>3. Line'[g] = Append(Line[g], x) /\ ToAnswer'[g] = ToAnswer[g]
  BY <1>1, <1>2, ShardPut
<1>4. \A h \in Shards : h # g => Line'[h] = Line[h] /\ ToAnswer'[h] = ToAnswer[h]
  BY <1>1, <1>2, ShardStays
<1>5. PICK old, new : /\ old = Line /\ new = Line'
                     /\ old = [h \in Shards |-> old[h]] /\ new = [h \in Shards |-> new[h]]
  BY LineTypes, LineTypesNext
<1>6. new = [old EXCEPT ![g] = Append(@, x)]
  BY <1>3, <1>4, <1>5
<1>7. ToAnswer = [h \in Shards |-> ToAnswer[h]] /\ ToAnswer' = [h \in Shards |-> ToAnswer'[h]]
  BY LineTypes, LineTypesNext
<1>8. ToAnswer' = ToAnswer
  BY <1>3, <1>4, <1>7
<1> QED BY <1>5, <1>6, <1>8

LEMMA LineStays ==
  ASSUME PathInv, PathInv', UNCHANGED <<admitted, finished>>, \A h \in Shards : Rests(h)
  PROVE  Line' = Line /\ ToAnswer' = ToAnswer
<1>1. \A h \in Shards : Line'[h] = Line[h] /\ ToAnswer'[h] = ToAnswer[h]
  BY ShardStays
<1>2. /\ Line = [h \in Shards |-> Line[h]] /\ ToAnswer = [h \in Shards |-> ToAnswer[h]]
      /\ Line' = [h \in Shards |-> Line'[h]] /\ ToAnswer' = [h \in Shards |-> ToAnswer'[h]]
  BY LineTypes, LineTypesNext
<1> QED BY <1>1, <1>2

(* A caller: the request gets in line, or the caller is turned away.       *)
otherVars == <<inventory, seen, rq, replied>>

LEMMA CallerRefines ==
  ASSUME PathInv, PathInv', FlagInv, PlaceInv, NEW s \in Submissions, Caller(s)
  PROVE  Server!ServingNext \/ UNCHANGED Server!servingVars
<1> USE DEF Server!servingVars
<1>1. Quiet /\ UNCHANGED finished /\ UNCHANGED otherVars
  BY DEF Caller, CheckAdmission, Enqueue, CallerUnchanged, workerVars, stockVars, Quiet, otherVars
<1>2. \A h \in Shards : Rests(h)
  BY <1>1, QuietRests
<1>3. callerAt \in [Submissions -> {"idle", "checked", "queued", "full", "soldout", "stopped"}]
  BY DEF PlaceInv
<1>4. ASSUME UNCHANGED admitted PROVE Line' = Line /\ ToAnswer' = ToAnswer
  BY <1>1, <1>2, <1>4, LineStays
<1>5. ASSUME NEW there \in {"checked", "stopped", "full"}, callerAt[s] \in {"idle", "checked"},
             callerAt' = [callerAt EXCEPT ![s] = there]
      PROVE  CallersAt("queued")' = CallersAt("queued") /\ CallersAt("soldout")' = CallersAt("soldout")
  BY <1>3, <1>5 DEF CallersAt
<1>6. CASE CheckAdmission(s)
  <2>1. UNCHANGED admitted
    BY <1>6 DEF CheckAdmission
  <2>2. CASE running /\ TurnedAway(s)
    <3>1. callerAt[s] = "idle" /\ callerAt' = [callerAt EXCEPT ![s] = "soldout"]
      BY <1>6, <2>2 DEF CheckAdmission
    <3>2. inventory[RequestOf[s].sku] = 0
      BY <2>2, EngineAssumption DEF TurnedAway, FlagInv, FlagImpliesEmpty
    <3>3. /\ CallersAt("queued")' = CallersAt("queued")
          /\ CallersAt("soldout")' = CallersAt("soldout") \cup {s}
          /\ s \notin CallersAt("queued") \cup CallersAt("soldout")
      BY <1>3, <3>1 DEF CallersAt
    <3>4. Server!Refuse(s)
      BY <1>1, <1>4, <2>1, <3>2, <3>3 DEF Server!Refuse, otherVars
    <3> QED BY <3>4 DEF Server!ServingNext
  <2>3. CASE ~(running /\ TurnedAway(s))
    <3>1. /\ callerAt[s] = "idle"
          /\ \E there \in {"checked", "stopped"} : callerAt' = [callerAt EXCEPT ![s] = there]
      BY <1>6, <2>3 DEF CheckAdmission
    <3>2. CallersAt("queued")' = CallersAt("queued") /\ CallersAt("soldout")' = CallersAt("soldout")
      BY <1>5, <3>1
    <3> QED BY <1>1, <1>4, <2>1, <3>2 DEF otherVars
  <2> QED BY <2>2, <2>3
<1>7. CASE Enqueue(s)
  <2> DEFINE g == ShardOf[RequestOf[s].sku]
  <2>1. g \in Shards /\ s \in Elements
    BY EngineAssumption DEF Elements
  <2>2. callerAt[s] = "checked"
    BY <1>7 DEF Enqueue
  <2>3. CASE Put(g, s) /\ callerAt' = [callerAt EXCEPT ![s] = "queued"]
    <3>1. Admits(g, s)
      BY <1>1, <2>3 DEF Admits
    <3>2. Line' = [Line EXCEPT ![g] = Append(@, s)] /\ ToAnswer' = ToAnswer
      BY <2>1, <3>1, LinePut
    <3>3. /\ CallersAt("queued")' = CallersAt("queued") \cup {s}
          /\ CallersAt("soldout")' = CallersAt("soldout")
          /\ s \notin CallersAt("queued") \cup CallersAt("soldout")
      BY <1>3, <2>2, <2>3 DEF CallersAt
    <3>4. Server!Accept(s)
      BY <1>1, <3>2, <3>3 DEF Server!Accept, otherVars
    <3> QED BY <3>4 DEF Server!ServingNext
  <2>4. CASE UNCHANGED admitted /\ callerAt' = [callerAt EXCEPT ![s] = "full"]
    <3>1. CallersAt("queued")' = CallersAt("queued") /\ CallersAt("soldout")' = CallersAt("soldout")
      BY <1>5, <2>2, <2>4
    <3> QED BY <1>1, <1>4, <2>4, <3>1 DEF otherVars
  <2> QED BY <1>7, <2>3, <2>4 DEF Enqueue
<1> QED BY <1>6, <1>7 DEF Caller

(* The worker: a request leaves the line when it is decided or passed over.*)
LEMMA SkipRefines ==
  ASSUME PathInv, PathInv', Routed, NEW h \in Shards, ProcessBarrier(h) \/ ProcessSilently(h)
  PROVE  Server!ServingNext
<1>1. /\ Done(h) /\ workerAt[h] = "process" /\ batch[h] # <<>>
      /\ UNCHANGED <<callerVars, inventory, seen, rq, replied, status>>
  BY DEF ProcessBarrier, ProcessSilently, Processing, ProcessUnchanged, stockVars
<1>2. /\ finished'[h] = Append(finished[h], Head(batch[h])) /\ workerAt'[h] = "process"
      /\ \A g \in Shards : g # h => /\ finished'[g] = finished[g] /\ workerAt'[g] = workerAt[g]
                                    /\ batch'[g] = batch[g]
  BY <1>1 DEF Done, PathInv, Carried, Controlled
<1>3. Head(batch[h]) \in Elements /\ Path(h) # <<>> /\ Head(Path(h)) = Head(batch[h]) /\ UNCHANGED admitted
  BY <1>1, HeadIsAdmitted, PathHead DEF callerVars
<1>4. Path(h)' = Tail(Path(h))
  BY <1>2, <1>3, PathMoves
<1>5. Line'[h] = Tail(Line[h]) /\ ToAnswer'[h] = ToAnswer[h] /\ ToAnswer[h] = [sub |-> Barrier, status |-> 0]
      /\ Line[h] = Path(h)
  BY <1>1, <1>2, <1>4, LineTypes, LineTypesNext DEF InService
<1>6. \A g \in Shards : g # h => Line'[g] = Line[g] /\ ToAnswer'[g] = ToAnswer[g]
  BY <1>1, <1>2, <1>3, ShardStays DEF Rests, InService
<1>7. Line' = [Line EXCEPT ![h] = Tail(@)] /\ ToAnswer' = ToAnswer
  <2>1. PICK old, new : /\ old = Line /\ new = Line'
                        /\ old = [g \in Shards |-> old[g]] /\ new = [g \in Shards |-> new[g]]
    BY LineTypes, LineTypesNext
  <2>2. new = [old EXCEPT ![h] = Tail(@)]
    BY <1>5, <1>6, <2>1
  <2>3. ToAnswer = [g \in Shards |-> ToAnswer[g]] /\ ToAnswer' = [g \in Shards |-> ToAnswer'[g]]
    BY LineTypes, LineTypesNext
  <2>4. ToAnswer' = ToAnswer
    BY <1>5, <1>6, <2>3
  <2> QED BY <2>1, <2>2, <2>4
<1>8. CallersAt("queued")' = CallersAt("queued") /\ CallersAt("soldout")' = CallersAt("soldout")
  BY <1>1 DEF CallersAt, callerVars
<1>9. \/ Head(Line[h]) = Barrier
      \/ Server!Turn(h, "warmup") \/ Server!Turn(h, "max")
      \/ Server!Turn(h, "order") /\ RequestOf[Head(Line[h])].id \in seen[h]
  BY <1>1, <1>3, <1>5 DEF ProcessBarrier, ProcessSilently, Processing, IsBarrier, FalseBarriers,
     IsDuplicate, Server!Turn, Server!Nobody
<1>10. Server!Skip(h)
  BY <1>1, <1>3, <1>5, <1>7, <1>8, <1>9 DEF Server!Skip, Server!Advance, Server!Nobody
<1> QED BY <1>10 DEF Server!ServingNext

(* What a step that takes up the head of the batch does.                   *)
TakesUp(h, kind, there) ==
  /\ Processing(h, kind) /\ workerAt' = [workerAt EXCEPT ![h] = there] /\ there \in {"log", "answer"}
  /\ status' = [status EXCEPT ![h] = status'[h]]
  /\ UNCHANGED <<batch, finished, admitted, callerAt, rq, replied>>

LEMMA TakesUpDecides ==
  ASSUME PathInv, PathInv', Routed, WalTypes, NEW h \in Shards, NEW kind, NEW there, TakesUp(h, kind, there)
  PROVE  Server!Turn(h, kind) /\ Server!Decide(h, status'[h]) /\ Head(Line[h]) = Head(batch[h])
<1>1. /\ workerAt[h] = "process" /\ batch[h] # <<>> /\ Head(batch[h]) # Barrier
      /\ RequestOf[Head(batch[h])].kind = kind
  BY DEF TakesUp, Processing
<1>2. workerAt'[h] = there /\ \A g \in Shards : g # h => workerAt'[g] = workerAt[g] /\ status'[g] = status[g]
  BY DEF TakesUp, PathInv, Controlled, WalTypes
<1>3. Path(h) # <<>> /\ Head(Path(h)) = Head(batch[h]) /\ Path(h)' = Path(h)
  BY <1>1, PathHead, PathStays DEF TakesUp
<1>4. /\ Line[h] = Path(h) /\ ToAnswer[h] = [sub |-> Barrier, status |-> 0]
      /\ Line'[h] = Tail(Path(h)) /\ ToAnswer'[h] = [sub |-> Head(batch[h]), status |-> status'[h]]
  BY <1>1, <1>2, <1>3, LineTypes, LineTypesNext DEF InService, TakesUp
<1>5. \A g \in Shards : g # h => Line'[g] = Line[g] /\ ToAnswer'[g] = ToAnswer[g]
  BY <1>2, ShardStays DEF Rests, InService, TakesUp
<1>6. Line' = [Line EXCEPT ![h] = Tail(@)]
  <2>1. PICK old, new : /\ old = Line /\ new = Line'
                        /\ old = [g \in Shards |-> old[g]] /\ new = [g \in Shards |-> new[g]]
    BY LineTypes, LineTypesNext
  <2>2. new = [old EXCEPT ![h] = Tail(@)]
    BY <1>4, <1>5, <2>1
  <2> QED BY <2>1, <2>2
<1>7. ToAnswer' = [ToAnswer EXCEPT ![h] = [sub |-> Head(Line[h]), status |-> status'[h]]]
  <2>1. PICK old, new, r : /\ old = ToAnswer /\ new = ToAnswer' /\ r = [sub |-> Head(Line[h]), status |-> status'[h]]
                           /\ old = [g \in Shards |-> old[g]] /\ new = [g \in Shards |-> new[g]]
    BY LineTypes, LineTypesNext
  <2>2. new[h] = r /\ \A g \in Shards : g # h => new[g] = old[g]
    BY <1>3, <1>4, <1>5, <2>1
  <2>3. new = [old EXCEPT ![h] = r]
    BY <2>1, <2>2
  <2> QED BY <2>1, <2>3
<1>8. CallersAt("queued")' = CallersAt("queued") /\ CallersAt("soldout")' = CallersAt("soldout")
  BY DEF CallersAt, TakesUp
<1>9. Server!Decide(h, status'[h])
  BY <1>6, <1>7, <1>8 DEF Server!Decide, Server!Advance, TakesUp
<1>10. Server!Turn(h, kind)
  BY <1>1, <1>3, <1>4 DEF Server!Turn, Server!Nobody
<1> QED BY <1>3, <1>4, <1>9, <1>10

LEMMA BenchRefines ==
  ASSUME PathInv, PathInv', Routed, WalTypes, NEW h \in Shards, ProcessBench(h)
  PROVE  Server!ServingNext
<1>1. status'[h] = 1 /\ TakesUp(h, "bench", "answer") /\ UNCHANGED <<inventory, seen>>
  BY DEF ProcessBench, WorkerGoes, TakesUp, WalTypes, callerVars, stockVars
<1>2. Server!Turn(h, "bench") /\ Server!Decide(h, 1)
  BY <1>1, TakesUpDecides
<1>3. Server!Bench(h)
  BY <1>1, <1>2 DEF Server!Bench
<1> QED BY <1>3 DEF Server!ServingNext

LEMMA OrderRefines ==
  ASSUME PathInv, PathInv', Routed, WalTypes, FlagInv, seen \in [Shards -> SUBSET Nat],
         NEW h \in Shards, ProcessOrder(h)
  PROVE  Server!ServingNext
<1> DEFINE r == RequestOf[Head(batch[h])]
           v == Verdict(r)
<1>1. /\ Processing(h, "order") /\ r.id \notin seen[h]
      /\ seen' = [seen EXCEPT ![h] = Remembered(h, r.id)]
      /\ status' = [status EXCEPT ![h] = v]
      /\ inventory' = [inventory EXCEPT ![r.sku] = Left(r)]
      /\ WorkerGoes(h, IF v = 1 THEN "log" ELSE "answer")
      /\ UNCHANGED <<finished, rq, callerVars, replied>>
  BY DEF ProcessOrder, IsDuplicate
<1>2. r.sku \in Skus /\ r.qty \in Nat \ {0} /\ r.id \in Nat
  <2>1. r \in [kind : Kinds, sku : Skus, qty : Nat \ {0}, id : Nat]
    BY <1>1, HeadTypes, Zenon
  <2> QED BY <2>1
<1>3. v \in 0 .. 2 /\ status'[h] = v
  <2>1. v \in 0 .. 2
    BY DEF Verdict
  <2> QED BY <1>1, <2>1 DEF WalTypes
<1>4. \E there \in {"log", "answer"} : TakesUp(h, "order", there)
  BY <1>1, <1>3 DEF WorkerGoes, TakesUp, WalTypes, callerVars
<1>5. Server!Turn(h, "order") /\ Server!Decide(h, v) /\ Head(Line[h]) = Head(batch[h])
  BY <1>3, <1>4, TakesUpDecides
<1> HIDE DEF r, v
<1>6. Server!Learn(h, r.id)
  <2>1. CASE TooMany(seen[h] \cup {r.id})
    <3>1. Remembered(h, r.id) = {}
      BY <2>1, Zenon DEF Remembered
    <3>2. seen' = [seen EXCEPT ![h] = {}]
      BY <1>1, <3>1, Zenon
    <3> QED BY <2>1, <3>2, Zenon DEF Server!Learn
  <2>2. CASE ~TooMany(seen[h] \cup {r.id})
    <3>1. Remembered(h, r.id) = seen[h] \cup {r.id}
      BY <2>2, Zenon DEF Remembered
    <3>2. seen' = [seen EXCEPT ![h] = seen[h] \cup {r.id}]
      BY <1>1, <3>1, Zenon
    <3> QED BY <2>2, <3>2, Zenon DEF Server!Learn
  <2> QED BY <2>1, <2>2
<1>7. inventory \in [Skus -> Nat \cup {NoEntry}] /\ NoEntry \notin Int
  BY EngineAssumption DEF FlagInv
<1>8. CASE inventory[r.sku] = NoEntry
  <2>1. v = 0 /\ Left(r) = inventory[r.sku]
    BY <1>8 DEF v, Verdict, Left
  <2>2. UNCHANGED inventory
    BY <1>1, <1>2, <1>7, <2>1
  <2>3. Server!Order(h)
    BY <1>1, <1>5, <1>6, <1>8, <2>1, <2>2 DEF Server!Order, r
  <2> QED BY <2>3 DEF Server!ServingNext
<1>9. CASE inventory[r.sku] # NoEntry /\ inventory[r.sku] >= r.qty
  <2>1. v = 1 /\ Left(r) = inventory[r.sku] - r.qty
    BY <1>9 DEF v, Verdict, Left
  <2>2. inventory' = [inventory EXCEPT ![r.sku] = @ - r.qty]
    BY <1>1, <2>1
  <2>3. Server!Order(h)
    BY <1>1, <1>5, <1>6, <1>9, <2>1, <2>2 DEF Server!Order, r
  <2> QED BY <2>3 DEF Server!ServingNext
<1>10. CASE inventory[r.sku] # NoEntry /\ inventory[r.sku] < r.qty
  <2>1. v = 2 /\ Left(r) = inventory[r.sku]
    BY <1>2, <1>7, <1>10 DEF v, Verdict, Left
  <2>2. UNCHANGED inventory
    BY <1>1, <1>2, <1>7, <2>1
  <2>3. Server!Order(h)
    BY <1>1, <1>5, <1>6, <1>10, <2>1, <2>2 DEF Server!Order, r
  <2> QED BY <2>3 DEF Server!ServingNext
<1> QED BY <1>2, <1>7, <1>8, <1>9, <1>10

LEMMA AnswerRefines ==
  ASSUME PathInv, PathInv', WalTypes, NEW h \in Shards, PushResult(h)
  PROVE  Server!ServingNext
<1>1. /\ Done(h) /\ workerAt[h] = "answer" /\ batch[h] # <<>> /\ Head(batch[h]) \in Submissions
      /\ rq' = Append(rq, [sub |-> Head(batch[h]), status |-> status[h]])
      /\ UNCHANGED <<callerAt, admitted, inventory, seen, replied, status>>
  BY DEF PushResult, ProcessUnchanged, callerVars, stockVars, WalTypes, Answering, PathInv, BatchInProcess
<1>2. /\ finished'[h] = Append(finished[h], Head(batch[h])) /\ workerAt'[h] = "process"
      /\ \A g \in Shards : g # h => /\ finished'[g] = finished[g] /\ workerAt'[g] = workerAt[g]
                                    /\ batch'[g] = batch[g]
  BY <1>1 DEF Done, PathInv, Carried, Controlled
<1>3. Head(batch[h]) \in Elements
  BY <1>1, HeadIsAdmitted
<1>4. Path(h)' = Tail(Path(h))
  BY <1>1, <1>2, <1>3, PathMoves
<1>5. /\ Line'[h] = Line[h] /\ ToAnswer[h] = [sub |-> Head(batch[h]), status |-> status[h]]
      /\ ToAnswer'[h] = [sub |-> Barrier, status |-> 0]
  <2>1. InService(h) /\ ~InService(h)'
    BY <1>1, <1>2 DEF InService
  <2>2. Line[h] = Tail(Path(h)) /\ Line'[h] = Path(h)'
    BY <2>1, LineTypes, LineTypesNext
  <2>3. /\ ToAnswer[h] = [sub |-> Head(batch[h]), status |-> status[h]]
        /\ ToAnswer'[h] = [sub |-> Barrier, status |-> 0]
    BY <2>1, LineTypes, LineTypesNext
  <2> QED BY <1>4, <2>2, <2>3, Zenon
<1>6. \A g \in Shards : g # h => Line'[g] = Line[g] /\ ToAnswer'[g] = ToAnswer[g]
  BY <1>1, <1>2, ShardStays DEF Rests, InService
<1>7. Line' = Line
  <2>1. Line = [g \in Shards |-> Line[g]] /\ Line' = [g \in Shards |-> Line'[g]]
    BY LineTypes, LineTypesNext
  <2> QED BY <1>5, <1>6, <2>1
<1>8. ToAnswer' = [ToAnswer EXCEPT ![h] = [sub |-> Barrier, status |-> 0]]
  <2>1. PICK old, new, r : /\ old = ToAnswer /\ new = ToAnswer' /\ r = [sub |-> Barrier, status |-> 0]
                           /\ old = [g \in Shards |-> old[g]] /\ new = [g \in Shards |-> new[g]]
    BY LineTypes, LineTypesNext
  <2>2. new = [old EXCEPT ![h] = r]
    BY <1>5, <1>6, <2>1
  <2> QED BY <2>1, <2>2
<1>9. ToAnswer[h] # [sub |-> Barrier, status |-> 0]
  BY <1>1, <1>5, EngineAssumption
<1>10. CallersAt("queued")' = CallersAt("queued") /\ CallersAt("soldout")' = CallersAt("soldout")
  BY <1>1 DEF CallersAt
<1>11. Server!Answer(h)
  BY <1>1, <1>5, <1>7, <1>8, <1>9, <1>10 DEF Server!Answer, Server!Nobody
<1> QED BY <1>11 DEF Server!ServingNext

(* Steps that callers do not see.                                          *)
LEMMA HiddenRefines ==
  ASSUME PathInv, PathInv', UNCHANGED <<callerAt, admitted, finished, inventory, seen, rq, replied>>,
         \A h \in Shards : Rests(h)
  PROVE  UNCHANGED Server!servingVars
<1>1. Line' = Line /\ ToAnswer' = ToAnswer
  BY LineStays
<1>2. CallersAt("queued")' = CallersAt("queued") /\ CallersAt("soldout")' = CallersAt("soldout")
  BY DEF CallersAt
<1> QED BY <1>1, <1>2 DEF Server!servingVars

LEMMA PollRefines ==
  ASSUME PathInv, PathInv', WalTypes, AnswerInv, PollResult
  PROVE  Server!ServingNext
<1>1. /\ rq # <<>> /\ replied' = replied \cup {Head(rq)} /\ rq' = Tail(rq)
      /\ UNCHANGED <<callerAt, admitted, finished, inventory, seen, workerAt, batch, status>>
  BY DEF PollResult, callerVars, workerVars, stockVars
<1>2. Line' = Line /\ ToAnswer' = ToAnswer
  BY <1>1, LineStays DEF Rests, InService
<1>3. CallersAt("queued")' = CallersAt("queued") /\ CallersAt("soldout")' = CallersAt("soldout")
  BY <1>1 DEF CallersAt
<1>4. \A r \in replied : r.sub # Head(rq).sub
  <2>1. 1 \in 1 .. Len(rq) /\ Head(rq) = rq[1]
    BY <1>1, EmptySeq DEF WalTypes
  <2> QED BY <2>1 DEF AnswerInv
<1>5. Server!Tell
  BY <1>1, <1>2, <1>3, <1>4 DEF Server!Tell
<1> QED BY <1>5 DEF Server!ServingNext

LEMMA DrainRefines ==
  ASSUME PathInv, PathInv', NEW d \in Drainers, Drain(d)
  PROVE  Server!ServingNext \/ UNCHANGED Server!servingVars
<1>1. Quiet /\ UNCHANGED <<callerAt, finished, inventory, seen, rq, replied>>
  BY DEF Drain, DrainCall, DrainReturn, DrainInject, DrainUnchanged, Quiet, workerVars, stockVars
<1>2. \A h \in Shards : Rests(h)
  BY <1>1, QuietRests
<1>3. ASSUME NEW h \in Shards, DrainInject(d, h) PROVE Server!ServingNext
  <2>1. Put(h, Barrier) /\ Barrier \in Elements
    BY <1>3 DEF DrainInject, Elements
  <2>2. Line' = [Line EXCEPT ![h] = Append(@, Barrier)] /\ ToAnswer' = ToAnswer
    BY <1>1, <2>1, LinePut DEF Admits
  <2>3. CallersAt("queued")' = CallersAt("queued") /\ CallersAt("soldout")' = CallersAt("soldout")
    BY <1>1 DEF CallersAt
  <2>4. Server!Mark(h)
    BY <1>1, <2>2, <2>3 DEF Server!Mark
  <2> QED BY <2>4 DEF Server!ServingNext
<1>4. CASE DrainCall(d) \/ DrainReturn(d)
  <2>1. UNCHANGED admitted
    BY <1>4 DEF DrainCall, DrainReturn
  <2> QED BY <1>1, <1>2, <2>1, HiddenRefines
<1> QED BY <1>3, <1>4 DEF Drain

(* The ids a worker remembers.                                             *)
SeenTypes == seen \in [Shards -> SUBSET Nat]

LEMMA SeenTypesStep == PathInv /\ Routed /\ SeenTypes /\ [Next]_vars => SeenTypes'
<1> SUFFICES ASSUME PathInv, Routed, SeenTypes, [Next]_vars PROVE SeenTypes'
  OBVIOUS
<1>1. ASSUME NEW h \in Shards, ProcessOrder(h) PROVE SeenTypes'
  <2>1. RequestOf[Head(batch[h])].id \in Nat
    BY <1>1, HeadTypes DEF ProcessOrder
  <2>2. PICK i \in Nat : i = RequestOf[Head(batch[h])].id
    BY <2>1
  <2>3. seen' = [seen EXCEPT ![h] = Remembered(h, i)]
    BY <1>1, <2>2 DEF ProcessOrder
  <2>4. Remembered(h, i) \in SUBSET Nat
    BY DEF Remembered, SeenTypes
  <2> QED BY <2>3, <2>4 DEF SeenTypes
<1>2. \A h \in Shards : ProcessBench(h) \/ WriteToWal(h) \/ PushResult(h) => UNCHANGED seen
  BY DEF ProcessBench, WriteToWal, PushResult, stockVars
<1>3. PollResult \/ Quiet => UNCHANGED seen
  BY DEF PollResult, Quiet, workerVars, stockVars
<1> QED BY <1>1, <1>2, <1>3, StepKinds DEF SeenTypes

LEMMA SeenTypesInvariant == Spec => []SeenTypes
<1>1. Init => SeenTypes
  BY DEF Init, SeenTypes
<1> QED BY <1>1, SeenTypesStep, PathInvariant, RoutedInvariant, PTL DEF Spec

ServerInv == PathInv /\ Routed /\ WalTypes /\ FlagInv /\ PlaceInv /\ AnswerInv /\ SeenTypes

LEMMA StepRefines ==
  ASSUME ServerInv, PathInv', [Next]_vars
  PROVE  Server!ServingNext \/ UNCHANGED Server!servingVars
<1> USE DEF ServerInv
<1>1. ASSUME Quiet, UNCHANGED <<callerAt, admitted, finished, inventory, seen, rq, replied>>
      PROVE  UNCHANGED Server!servingVars
  BY <1>1, HiddenRefines, QuietRests
<1>2. ASSUME NEW h \in Shards, Dispatcher(h) PROVE UNCHANGED Server!servingVars
  <2>1. UNCHANGED <<callerAt, admitted, finished, inventory, seen, rq, replied, workerAt, batch, status>>
    BY <1>2 DEF Dispatcher, DispatcherCheck, DispatcherPop, DispatcherPush, DispatcherUnchanged,
                callerVars, workerVars, stockVars
  <2> QED BY <2>1, HiddenRefines DEF Rests, InService
<1>3. ASSUME NEW h \in Shards, WorkerLoop(h) PROVE UNCHANGED Server!servingVars
  <2>1. UNCHANGED <<callerAt, admitted, finished, inventory, seen, rq, replied, status>>
    BY <1>3 DEF WorkerLoop, WorkerPoll, WorkerReadRunning, WorkerRecheck, WorkerBegin, WorkerEnd,
                LoopUnchanged, callerVars, stockVars
  <2>2. \A g \in Shards : g # h => workerAt'[g] = workerAt[g] /\ batch'[g] = batch[g]
    BY <1>3 DEF WorkerLoop, WorkerPoll, WorkerReadRunning, WorkerRecheck, WorkerBegin, WorkerEnd,
                WorkerGoes, TakeBatch, PathInv, Controlled, Carried
  <2>3. ~InService(h) /\ ~InService(h)'
    BY <1>3 DEF WorkerLoop, WorkerPoll, WorkerReadRunning, WorkerRecheck, WorkerBegin, WorkerEnd,
                WorkerGoes, TakeBatch, PathInv, Controlled, InService
  <2>4. \A g \in Shards : Rests(g)
    BY <2>1, <2>2, <2>3 DEF Rests, InService
  <2> QED BY <2>1, <2>4, HiddenRefines
<1>4. ASSUME NEW h \in Shards, WriteToWal(h) PROVE UNCHANGED Server!servingVars
  <2>1. UNCHANGED <<callerAt, admitted, finished, inventory, seen, rq, replied, status, batch>>
    BY <1>4 DEF WriteToWal, WorkerGoes, callerVars
  <2>2. /\ workerAt[h] = "log" /\ workerAt'[h] = "answer"
        /\ \A g \in Shards : g # h => workerAt'[g] = workerAt[g]
    BY <1>4 DEF WriteToWal, WorkerGoes, PathInv, Controlled
  <2>3. \A g \in Shards : Rests(g)
    BY <2>1, <2>2 DEF Rests, InService
  <2> QED BY <2>1, <2>3, HiddenRefines
<1>5. ASSUME NEW h \in Shards, Process(h) PROVE Server!ServingNext \/ UNCHANGED Server!servingVars
  BY <1>4, <1>5, SkipRefines, BenchRefines, OrderRefines, AnswerRefines DEF Process, SeenTypes
<1>6. ASSUME Stop PROVE UNCHANGED Server!servingVars
  <2>1. UNCHANGED <<callerAt, admitted, finished, inventory, seen, rq, replied, workerAt, batch, status>>
    BY <1>6 DEF Stop, RequestStop, DispatchersJoined, WorkersJoined, StopWorker, StopUnchanged,
                callerVars, workerVars, stockVars
  <2> QED BY <2>1, HiddenRefines DEF Rests, InService
<1>7. ASSUME UNCHANGED vars PROVE UNCHANGED Server!servingVars
  <2>1. UNCHANGED <<callerAt, admitted, finished, inventory, seen, rq, replied, workerAt, batch, status>>
    BY <1>7 DEF vars, callerVars, workerVars, stockVars
  <2> QED BY <2>1, HiddenRefines DEF Rests, InService
<1>8. CASE Next
  <2>1. CASE \E s \in Submissions : Caller(s)
    BY <2>1, CallerRefines
  <2>2. CASE \E h \in Shards : Dispatcher(h) \/ WorkerLoop(h) \/ Process(h)
    BY <2>2, <1>2, <1>3, <1>5
  <2>3. CASE PollResult
    BY <2>3, PollRefines
  <2>4. CASE \E d \in Drainers : Drain(d)
    BY <2>4, DrainRefines
  <2> QED BY <1>6, <1>8, <2>1, <2>2, <2>3, <2>4 DEF Next
<1> QED BY <1>7, <1>8

LEMMA ServerInit == Init => Server!ServingInit
<1> SUFFICES ASSUME Init PROVE Server!ServingInit
  OBVIOUS
<1>1. CallersAt("queued") = {} /\ CallersAt("soldout") = {}
  BY DEF Init, CallersAt
<1>2. ASSUME NEW h \in Shards PROVE Path(h) = <<>> /\ ~InService(h)
  <2>1. batch[h] = <<>> /\ sq[h] = <<>> /\ mq[h] = <<>> /\ InHand(h) = <<>> /\ ~InService(h)
    BY DEF Init, InHand, InService
  <2>2. <<>> \o <<>> = <<>>
    BY EmptySeq, ConcatEmptySeq
  <2> QED BY <2>1, <2>2 DEF Path
<1>3. Line = [h \in Shards |-> <<>>]
  BY <1>2 DEF Line
<1>4. ToAnswer = [h \in Shards |-> [sub |-> Barrier, status |-> 0]]
  BY <1>2 DEF ToAnswer
<1> QED BY <1>1, <1>3, <1>4 DEF Init, Server!ServingInit, Server!Nobody

(* What a caller sees of the engine is a server per shard that takes the   *)
(* accepted requests in order, decides each on the stock and the ids of    *)
(* the moment and answers it once; and a caller is turned away at the door *)
(* only while nothing is left: for any number of shards, callers, drains   *)
(* and a stop at any moment, and any capacities.                           *)
THEOREM EngineServes == Spec => ImplementsServing
<1>1. Spec => []ServerInv
  BY PathInvariant, RoutedInvariant, WalTypesInvariant, FlagInvariant, PlaceInvariant, AnswerInvariant,
     SeenTypesInvariant, PTL DEF ServerInv
<1>2. ServerInv /\ PathInv' /\ [Next]_vars => [Server!ServingNext]_Server!servingVars
  BY StepRefines
<1>3. ServerInv => PathInv
  BY DEF ServerInv
<1> QED BY <1>1, <1>2, <1>3, ServerInit, PTL DEF Spec, ImplementsServing, Server!ServingSpec

-----------------------------------------------------------------------------
(* The types of the rest of the state.                                     *)
SwitchTypes ==
  /\ running \in BOOLEAN
  /\ workerRunning \in [Shards -> BOOLEAN]
  /\ isProcessing \in [Shards -> BOOLEAN]
  /\ soldTotal \in Nat
  /\ stopAt \in {"up", "dispatchers", "workers", "stopped"}
  /\ inside \in BOOLEAN
  /\ barrierCount \in Nat

LEMMA SwitchStep == PathInv /\ Routed /\ SwitchTypes /\ [Next]_vars => SwitchTypes'
<1> SUFFICES ASSUME PathInv, Routed, SwitchTypes, [Next]_vars PROVE SwitchTypes'
  OBVIOUS
<1> USE DEF SwitchTypes
<1>1. ASSUME NEW s \in Submissions, Caller(s) PROVE SwitchTypes'
  BY <1>1 DEF Caller, CheckAdmission, Enqueue, CallerUnchanged, workerVars, stockVars, drainVars, stopVars
<1>2. ASSUME NEW h \in Shards, Dispatcher(h) PROVE SwitchTypes'
  BY <1>2 DEF Dispatcher, DispatcherCheck, DispatcherPop, DispatcherPush, DispatcherUnchanged,
              workerVars, stockVars, drainVars, stopVars
<1>3. ASSUME NEW h \in Shards, WorkerLoop(h) PROVE SwitchTypes'
  <2>1. isProcessing' \in [Shards -> BOOLEAN]
    BY <1>3 DEF WorkerLoop, WorkerPoll, WorkerReadRunning, WorkerRecheck, WorkerBegin, WorkerEnd
  <2>2. UNCHANGED <<running, workerRunning, soldTotal, stopAt, inside, barrierCount>>
    BY <1>3 DEF WorkerLoop, WorkerPoll, WorkerReadRunning, WorkerRecheck, WorkerBegin, WorkerEnd,
                LoopUnchanged, stockVars, drainVars, stopVars
  <2> QED BY <2>1, <2>2
<1>4. ASSUME NEW h \in Shards, ProcessBarrier(h) PROVE SwitchTypes'
  BY <1>4 DEF ProcessBarrier, ProcessUnchanged, stockVars, drainVars, stopVars
<1>5. ASSUME NEW h \in Shards, ProcessOrder(h) PROVE SwitchTypes'
  <2>1. RequestOf[Head(batch[h])].qty \in Nat
    BY <1>5, HeadTypes DEF ProcessOrder
  <2>2. PICK q \in Nat : q = RequestOf[Head(batch[h])].qty
    BY <2>1
  <2>3. soldTotal' \in {soldTotal, soldTotal + q}
    BY <1>5, <2>2 DEF ProcessOrder
  <2>4. UNCHANGED <<running, workerRunning, isProcessing, stopAt, inside, barrierCount>>
    BY <1>5 DEF ProcessOrder, drainVars, stopVars
  <2> QED BY <2>3, <2>4
<1>6. ASSUME NEW h \in Shards, ProcessSilently(h) \/ ProcessBench(h) \/ WriteToWal(h) \/ PushResult(h)
      PROVE  SwitchTypes'
  BY <1>6 DEF ProcessSilently, ProcessBench, WriteToWal, PushResult, ProcessUnchanged, stockVars, drainVars, stopVars
<1>7. ASSUME PollResult PROVE SwitchTypes'
  BY <1>7 DEF PollResult, workerVars, stockVars, drainVars, stopVars
<1>8. ASSUME Stop PROVE SwitchTypes'
  BY <1>8 DEF Stop, RequestStop, DispatchersJoined, WorkersJoined, StopWorker, StopUnchanged,
              workerVars, stockVars, drainVars
<1>9. ASSUME NEW d \in Drainers, Drain(d) PROVE SwitchTypes'
  <2>1. inside' \in BOOLEAN /\ barrierCount' \in Nat
    <3>1. CASE DrainCall(d)
      BY <3>1 DEF DrainCall
    <3>2. CASE DrainReturn(d)
      BY <3>2 DEF DrainReturn
    <3>3. CASE \E h \in Shards : DrainInject(d, h)
      BY <3>3 DEF DrainInject
    <3> QED BY <1>9, <3>1, <3>2, <3>3 DEF Drain
  <2>2. UNCHANGED <<running, workerRunning, isProcessing, soldTotal, stopAt>>
    BY <1>9 DEF Drain, DrainCall, DrainReturn, DrainInject, DrainUnchanged, workerVars, stockVars, stopVars
  <2> QED BY <2>1, <2>2
<1>10. UNCHANGED vars => SwitchTypes'
  BY DEF vars, workerVars, stockVars, drainVars, stopVars
<1> QED BY <1>1, <1>2, <1>3, <1>4, <1>5, <1>6, <1>7, <1>8, <1>9, <1>10 DEF Next, Process

(* The type invariant of the engine, which the lemmas above prove part by  *)
(* part: each queue carries requests and barriers only, each thread stands *)
(* at a place of its own code, and no counter goes below zero.             *)
THEOREM EngineTypeCorrect == Spec => []EngineTypeOK
<1>1. Init => SwitchTypes
  <2> SUFFICES ASSUME Init PROVE SwitchTypes
    OBVIOUS
  <2>1. running = TRUE /\ soldTotal = 0 /\ stopAt = "up" /\ inside = FALSE /\ barrierCount = 0
    BY DEF Init
  <2>2. workerRunning = [h \in Shards |-> TRUE] /\ isProcessing = [h \in Shards |-> FALSE]
    BY DEF Init
  <2> QED BY <2>1, <2>2 DEF SwitchTypes
<1>2. Init => DrainInv
  BY DEF Init, DrainInv, DrainTypes, OneDrain, OwnBarriers, NoneLeft, Marks, Active, Barriers
<1>3. PathInv /\ WalTypes /\ FlagInv /\ PlaceInv /\ SeenTypes /\ SwitchTypes /\ DrainInv => EngineTypeOK
  BY DEF PathInv, Carried, Controlled, WalTypes, FlagInv, PlaceInv, SeenTypes, SwitchTypes,
         DrainInv, DrainTypes, EngineTypeOK
<1> QED BY <1>1, <1>2, <1>3, SwitchStep, DrainInvStep, PathInvariant, RoutedInvariant, WalTypesInvariant,
           FlagInvariant, PlaceInvariant, SeenTypesInvariant, PTL DEF Spec
=============================================================================
