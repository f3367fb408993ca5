-------------------------- MODULE WorkQueueProofs --------------------------
(***************************************************************************)
(* Proofs about WorkQueue for any keys, workers, channel capacity and      *)
(* bounds.                                                                 *)
(***************************************************************************)
EXTENDS WorkQueue, FiniteSetTheorems, TLAPS

-----------------------------------------------------------------------------
(* Sequences *)

\* Append adds one element to what a sequence holds.
LEMMA RangeOfAppend ==
  ASSUME NEW S, NEW s \in Seq(S), NEW x \in S
  PROVE  Range(Append(s, x)) = Range(s) \cup {x}
<1> DEFINE t == Append(s, x)
<1>1. DOMAIN t = DOMAIN s \cup {Len(s) + 1} /\ t[Len(s) + 1] = x
  OBVIOUS
<1>2. \A i \in DOMAIN s : t[i] = s[i]
  OBVIOUS
<1> HIDE DEF t
<1> QED
  BY <1>1, <1>2 DEF Range, t

\* Head and Tail share what a sequence holds.
LEMMA RangeOfTail ==
  ASSUME NEW S, NEW s \in Seq(S), s # <<>>
  PROVE  /\ Head(s) \in S /\ Tail(s) \in Seq(S)
         /\ Range(s) = Range(Tail(s)) \cup {Head(s)}
<1>1. Head(s) \in S /\ Tail(s) \in Seq(S)
  OBVIOUS
<1>2. ASSUME NEW i \in DOMAIN s PROVE s[i] \in Range(Tail(s)) \cup {Head(s)}
  <2>1. CASE i = 1
    BY <2>1
  <2>2. CASE i # 1
    <3>1. i - 1 \in DOMAIN Tail(s) /\ Tail(s)[i - 1] = s[i]
      BY <2>2
    <3> QED
      BY <3>1 DEF Range
  <2> QED
    BY <2>1, <2>2
<1>3. ASSUME NEW i \in DOMAIN Tail(s) PROVE Tail(s)[i] \in Range(s)
  <2>1. i + 1 \in DOMAIN s /\ s[i + 1] = Tail(s)[i]
    OBVIOUS
  <2> QED
    BY <2>1 DEF Range
<1>4. Head(s) \in Range(s)
  BY DEF Range
<1> QED
  BY <1>1, <1>2, <1>3, <1>4 DEF Range

NoRepeats(s) == \A i, j \in DOMAIN s : s[i] = s[j] => i = j

LEMMA NoRepeatsAppend ==
  ASSUME NEW S, NEW s \in Seq(S), NEW x \in S, NoRepeats(s), x \notin Range(s)
  PROVE  NoRepeats(Append(s, x))
BY DEF Range, NoRepeats

LEMMA NoRepeatsTail ==
  ASSUME NEW S, NEW s \in Seq(S), s # <<>>, NoRepeats(s)
  PROVE  NoRepeats(Tail(s)) /\ Head(s) \notin Range(Tail(s))
<1>1. \A i \in DOMAIN Tail(s) : i + 1 \in DOMAIN s /\ s[i + 1] = Tail(s)[i]
  OBVIOUS
<1>2. NoRepeats(Tail(s))
  BY <1>1 DEF NoRepeats
<1>3. Head(s) \notin Range(Tail(s))
  <2>1. 1 \in DOMAIN s /\ s[1] = Head(s)
    OBVIOUS
  <2>2. \A i \in DOMAIN Tail(s) : i + 1 # 1
    OBVIOUS
  <2> QED
    BY <1>1, <2>1, <2>2 DEF NoRepeats, Range
<1> QED
  BY <1>2, <1>3

-----------------------------------------------------------------------------
(* Type correctness *)

\* Signal wakes at most one sleeping worker and touches no other.
LEMMA SignalledFacts ==
  ASSUME NEW p \in [Workers -> PCs], NEW q \in Signalled(p)
  PROVE  /\ q \in [Workers -> PCs]
         /\ \A w \in Workers : q[w] = p[w] \/ (p[w] = "blocked" /\ q[w] = "get")
BY DEF Signalled, PCs

\* What Add may do to the queue: nothing, mark the key, or queue it as well.
LEMMA AddCases ==
  ASSUME TypeInv, NEW k \in Keys, Add(k)
  PROVE  \/ (shuttingDown \/ k \in dirty) /\ UNCHANGED <<queue, dirty, pc>>
         \/ /\ k \notin dirty /\ k \in processing
            /\ dirty' = dirty \cup {k} /\ UNCHANGED <<queue, pc>>
         \/ /\ k \notin dirty /\ k \notin processing
            /\ dirty' = dirty \cup {k}
            /\ queue' = Append(queue, k) /\ pc' \in Signalled(pc)
BY DEF Add

LEMMA AddType ==
  ASSUME TypeInv, NEW k \in Keys, Add(k)
  PROVE  queue' \in Seq(Keys) /\ dirty' \subseteq Keys /\ pc' \in [Workers -> PCs]
<1>1. Append(queue, k) \in Seq(Keys)
  BY DEF TypeInv
<1>2. ASSUME pc' \in Signalled(pc) PROVE pc' \in [Workers -> PCs]
  BY <1>2, SignalledFacts DEF TypeInv
<1> QED
  BY <1>1, <1>2, AddCases DEF TypeInv

LEMMA AddAfterType ==
  ASSUME TypeInv, NEW k \in Keys, AddAfter(k) PROVE addCh' \in Seq(Keys)
<1>1. Append(addCh, k) \in Seq(Keys)
  BY DEF TypeInv
<1> QED
  BY <1>1 DEF AddAfter, TypeInv

LEMMA InitType == Init => TypeInv
<1> SUFFICES ASSUME Init PROVE TypeInv
  OBVIOUS
<1>1. 0 \in Versions /\ 0 \in 0..MaxFails /\ "get" \in PCs
  BY BoundsAssumption DEF Versions, PCs
<1>2. item \in [Workers -> Keys]
  BY KeysAssumption DEF Init
<1>3. queue \in Seq(Keys) /\ addCh \in Seq(Keys)
  BY DEF Init
<1> QED
  BY <1>1, <1>2, <1>3 DEF Init, TypeInv

LEMMA WorkerType ==
  ASSUME TypeInv, NEW w \in Workers,
         \/ Get(w) \/ GetNothing(w) \/ Done(w)
         \/ SyncHandler(w) \/ HandlerOK(w) \/ HandlerError(w)
  PROVE  TypeInv'
<1>1. CASE Get(w)
  <2>1. Head(queue) \in Keys /\ Tail(queue) \in Seq(Keys)
    BY <1>1, RangeOfTail DEF Get, TypeInv
  <2> QED
    BY <1>1, <2>1 DEF Get, TypeInv, PCs, Busy, delayVars, objVars
<1>2. CASE GetNothing(w)
  BY <1>2 DEF GetNothing, TypeInv, PCs, queueVars, delayVars, objVars
<1>3. CASE Done(w)
  <2>1. item[w] \in Keys /\ [pc EXCEPT ![w] = "get"] \in [Workers -> PCs]
    BY DEF TypeInv, PCs
  <2>2. Append(queue, item[w]) \in Seq(Keys)
    BY <2>1 DEF TypeInv
  <2>3. pc' \in [Workers -> PCs]
    BY <1>3, <2>1, SignalledFacts DEF Done
  <2> QED
    BY <1>3, <2>2, <2>3 DEF Done, TypeInv, delayVars, objVars
<1>4. CASE SyncHandler(w)
  BY <1>4 DEF SyncHandler, TypeInv, PCs, Busy, queueVars, delayVars, objVars
<1>5. CASE HandlerOK(w)
  BY <1>5 DEF HandlerOK, TypeInv, PCs, Busy, queueVars, delayVars
<1>6. CASE HandlerError(w)
  <2>1. addCh' \in Seq(Keys)
    BY <1>6, AddAfterType DEF HandlerError, TypeInv
  <2>2. fails' \in 0..MaxFails
    BY <1>6, BoundsAssumption DEF HandlerError, TypeInv
  <2>3. pc' \in [Workers -> PCs]
    BY <1>6 DEF HandlerError, TypeInv, PCs, Busy
  <2> QED
    BY <1>6, <2>1, <2>2, <2>3 DEF HandlerError, TypeInv, queueVars, objVars
<1> QED
  BY <1>1, <1>2, <1>3, <1>4, <1>5, <1>6

LEMMA KeyType ==
  ASSUME TypeInv, NEW k \in Keys,
         InformerUpdate(k) \/ HandleObject(k) \/ Enqueue(k) \/ AddReady(k)
  PROVE  TypeInv'
<1>1. CASE InformerUpdate(k)
  BY <1>1, BoundsAssumption
  DEF InformerUpdate, TypeInv, Versions, queueVars, delayVars, workerVars
<1>2. CASE HandleObject(k)
  <2>1. notified' \in [Keys -> Versions]
    <3>1. notified[k] \in 0..MaxVersion /\ store[k] \in 0..MaxVersion
      BY DEF TypeInv, Versions
    <3>2. notified[k] + 1 \in Versions
      BY <1>2, <3>1, BoundsAssumption DEF HandleObject, Versions
    <3> QED
      BY <1>2, <3>2 DEF HandleObject, TypeInv
  <2> QED
    BY <1>2, <2>1, AddAfterType DEF HandleObject, TypeInv, queueVars, workerVars
<1>3. CASE Enqueue(k)
  BY <1>3, AddAfterType DEF Enqueue, TypeInv, queueVars, objVars, workerVars
<1>4. CASE AddReady(k)
  BY <1>4, AddType DEF AddReady, TypeInv, objVars
<1> QED
  BY <1>1, <1>2, <1>3, <1>4

LEMMA NextType == TypeInv /\ [Next]_vars => TypeInv'
<1> SUFFICES ASSUME TypeInv, [Next]_vars PROVE TypeInv'
  OBVIOUS
<1>1. CASE WaitEntry
  <2>1. Head(addCh) \in Keys /\ Tail(addCh) \in Seq(Keys)
    BY <1>1, RangeOfTail DEF WaitEntry, TypeInv
  <2> QED
    BY <1>1, <2>1 DEF WaitEntry, TypeInv, queueVars, objVars, workerVars
<1>2. CASE AddReceived
  <2>1. Head(addCh) \in Keys /\ Tail(addCh) \in Seq(Keys)
    BY <1>2, RangeOfTail DEF AddReceived, TypeInv
  <2>2. queue' \in Seq(Keys) /\ dirty' \subseteq Keys /\ pc' \in [Workers -> PCs]
    BY <1>2, <2>1, AddType DEF AddReceived
  <2> QED
    BY <1>2, <2>1, <2>2 DEF AddReceived, TypeInv, objVars
<1>3. CASE ShutDown
  BY <1>3 DEF ShutDown, TypeInv, PCs, delayVars, objVars
<1>4. CASE UNCHANGED vars
  BY <1>4 DEF vars, TypeInv, queueVars, delayVars, objVars, workerVars
<1> QED
  BY <1>1, <1>2, <1>3, <1>4, WorkerType, KeyType DEF Next, Terminated

\* Every variable keeps its type, whatever the keys, workers and bounds.
THEOREM TypeCorrect == Spec => []TypeInv
BY InitType, NextType, PTL DEF Spec
-----------------------------------------------------------------------------
(* One worker per key: QueueHoldsDirty and OneWorkerPerKey together *)

Exclusion == QueueHoldsDirty /\ OneWorkerPerKey

\* Steps that leave the busy workers busy with the same keys
LEMMA SameBusy ==
  ASSUME OneWorkerPerKey, UNCHANGED <<processing, item>>,
         \A w \in Workers : pc'[w] \in Busy <=> pc[w] \in Busy
  PROVE  OneWorkerPerKey'
BY DEF OneWorkerPerKey, Busy

LEMMA AddExclusion ==
  ASSUME TypeInv, Exclusion, NEW k \in Keys, Add(k), UNCHANGED <<processing, item>>
  PROVE  Exclusion'
<1>1. \A w \in Workers : pc'[w] \in Busy <=> pc[w] \in Busy
  BY AddCases, SignalledFacts DEF TypeInv, Busy
<1>2. OneWorkerPerKey'
  BY <1>1, SameBusy DEF Exclusion
<1>3. QueueHoldsDirty'
  <2>1. CASE UNCHANGED <<queue, dirty>>
    BY <2>1 DEF Exclusion, QueueHoldsDirty, Range
  <2>2. CASE k \in processing /\ dirty' = dirty \cup {k} /\ UNCHANGED queue
    BY <2>2 DEF Exclusion, QueueHoldsDirty, Range
  <2>3. CASE /\ k \notin dirty /\ k \notin processing
             /\ dirty' = dirty \cup {k} /\ queue' = Append(queue, k)
    <3>1. queue \in Seq(Keys) /\ NoRepeats(queue) /\ Range(queue) = dirty \ processing
      BY DEF TypeInv, Exclusion, QueueHoldsDirty, NoRepeats
    <3>2. Range(queue') = Range(queue) \cup {k} /\ NoRepeats(queue')
      BY <2>3, <3>1, RangeOfAppend, NoRepeatsAppend
    <3>3. Range(queue') = dirty' \ processing'
      BY <2>3, <3>1, <3>2
    <3> QED
      BY <3>2, <3>3 DEF QueueHoldsDirty, NoRepeats, Range
  <2> QED
    BY <2>1, <2>2, <2>3, AddCases
<1> QED
  BY <1>2, <1>3 DEF Exclusion

LEMMA GetExclusion ==
  ASSUME TypeInv, Exclusion, NEW w \in Workers, Get(w) PROVE Exclusion'
<1> DEFINE k == Head(queue)
<1>1. queue \in Seq(Keys) /\ queue # <<>> /\ NoRepeats(queue)
      /\ Range(queue) = dirty \ processing
  BY DEF TypeInv, Exclusion, QueueHoldsDirty, NoRepeats, Get
<1>2. /\ Tail(queue) \in Seq(Keys) /\ k \in Keys
      /\ Range(queue) = Range(Tail(queue)) \cup {k}
      /\ NoRepeats(Tail(queue)) /\ k \notin Range(Tail(queue))
  BY <1>1, RangeOfTail, NoRepeatsTail
<1>3. QueueHoldsDirty'
  <2>1. queue' = Tail(queue) /\ dirty' = dirty \ {k} /\ processing' = processing \cup {k}
    BY DEF Get
  <2>2. Range(Tail(queue)) = dirty' \ processing'
    BY <1>1, <1>2, <2>1
  <2> QED
    BY <1>2, <2>1, <2>2 DEF QueueHoldsDirty, NoRepeats, Range
<1>4. k \notin processing
  BY <1>1, <1>2
<1>5. /\ pc[w] \notin Busy /\ pc'[w] \in Busy /\ item'[w] = k
      /\ \A v \in Workers \ {w} : pc'[v] = pc[v] /\ item'[v] = item[v]
  BY DEF Get, TypeInv, Busy
<1>6. OneWorkerPerKey'
  <2> HIDE DEF k
  <2>1. processing' = processing \cup {k}
    BY DEF Get, k
  <2>2. \A v \in Workers : pc[v] \in Busy => item[v] \in processing
    BY DEF Exclusion, OneWorkerPerKey
  <2>3. processing' = {item'[v] : v \in {u \in Workers : pc'[u] \in Busy}}
    <3>1. ASSUME NEW x \in processing
          PROVE  \E v \in Workers : pc'[v] \in Busy /\ item'[v] = x
      BY <3>1, <1>5 DEF Exclusion, OneWorkerPerKey
    <3>2. ASSUME NEW v \in Workers, pc'[v] \in Busy PROVE item'[v] \in processing \cup {k}
      BY <3>2, <1>5, <2>2
    <3> QED
      BY <2>1, <3>1, <3>2, <1>5
  <2>4. ASSUME NEW u \in Workers, NEW v \in Workers,
               pc'[u] \in Busy, pc'[v] \in Busy, item'[u] = item'[v]
        PROVE  u = v
    BY <2>4, <2>2, <1>4, <1>5 DEF Exclusion, OneWorkerPerKey
  <2> QED
    BY <2>3, <2>4 DEF OneWorkerPerKey, Busy
<1> QED
  BY <1>3, <1>6 DEF Exclusion

LEMMA DoneExclusion ==
  ASSUME TypeInv, Exclusion, NEW w \in Workers, Done(w) PROVE Exclusion'
<1> DEFINE k == item[w]
<1>1. k \in Keys /\ k \in processing
  BY DEF TypeInv, Done, Busy, Exclusion, OneWorkerPerKey
<1>2. processing' = processing \ {k} /\ UNCHANGED <<dirty, item>>
  BY DEF Done
<1>3. queue \in Seq(Keys) /\ NoRepeats(queue) /\ Range(queue) = dirty \ processing
  BY DEF TypeInv, Exclusion, QueueHoldsDirty, NoRepeats
<1>4. NoRepeats(queue') /\ Range(queue') = dirty' \ processing'
  <2>1. CASE k \in dirty
    <3>1. queue' = Append(queue, k) /\ k \notin Range(queue)
      BY <2>1, <1>1, <1>3 DEF Done
    <3>2. Range(queue') = Range(queue) \cup {k} /\ NoRepeats(queue')
      BY <3>1, <1>1, <1>3, RangeOfAppend, NoRepeatsAppend
    <3> HIDE DEF k
    <3> QED
      BY <2>1, <3>2, <1>1, <1>2, <1>3
  <2>2. CASE k \notin dirty
    <3>1. queue' = queue
      BY <2>2 DEF Done
    <3> QED
      BY <2>2, <3>1, <1>2, <1>3
  <2> QED
    BY <2>1, <2>2
<1>5. QueueHoldsDirty'
  BY <1>4 DEF QueueHoldsDirty, NoRepeats, Range
<1>6. /\ pc[w] \in Busy /\ pc'[w] \notin Busy
      /\ \A v \in Workers \ {w} : pc'[v] \in Busy <=> pc[v] \in Busy
  <2>1. [pc EXCEPT ![w] = "get"] \in [Workers -> PCs]
    BY DEF TypeInv, PCs
  <2>2. \A v \in Workers : \/ pc'[v] = [pc EXCEPT ![w] = "get"][v]
                           \/ [pc EXCEPT ![w] = "get"][v] = "blocked" /\ pc'[v] = "get"
    BY <2>1, SignalledFacts DEF Done
  <2> QED
    BY <2>2 DEF Done, Busy, TypeInv
<1>7. OneWorkerPerKey'
  <2> HIDE DEF k
  <2>1. \A v \in Workers \ {w} : pc[v] \in Busy => item[v] # k
    BY <1>6 DEF Exclusion, OneWorkerPerKey, k
  <2>2. processing' = {item'[v] : v \in {u \in Workers : pc'[u] \in Busy}}
    <3>1. ASSUME NEW x \in processing, x # k
          PROVE  \E v \in Workers : pc'[v] \in Busy /\ item'[v] = x
      BY <3>1, <1>2, <1>6 DEF Exclusion, OneWorkerPerKey, k
    <3>2. ASSUME NEW v \in Workers, pc'[v] \in Busy PROVE item'[v] \in processing \ {k}
      BY <3>2, <1>2, <1>6, <2>1 DEF Exclusion, OneWorkerPerKey
    <3> QED
      BY <1>2, <3>1, <3>2
  <2>3. ASSUME NEW u \in Workers, NEW v \in Workers,
               pc'[u] \in Busy, pc'[v] \in Busy, item'[u] = item'[v]
        PROVE  u = v
    BY <2>3, <1>2, <1>6 DEF Exclusion, OneWorkerPerKey
  <2> QED
    BY <2>2, <2>3 DEF OneWorkerPerKey, Busy
<1> QED
  BY <1>5, <1>7 DEF Exclusion

LEMMA NextExclusion == TypeInv /\ Exclusion /\ [Next]_vars => Exclusion'
<1> SUFFICES ASSUME TypeInv, Exclusion, [Next]_vars PROVE Exclusion'
  OBVIOUS
<1>1. ASSUME UNCHANGED <<queue, dirty, processing, item>>,
             \A w \in Workers : pc'[w] \in Busy <=> pc[w] \in Busy
      PROVE  Exclusion'
  <2>1. QueueHoldsDirty'
    BY <1>1 DEF Exclusion, QueueHoldsDirty, Range
  <2> QED
    BY <1>1, <2>1, SameBusy DEF Exclusion
<1>2. ASSUME NEW w \in Workers,
             GetNothing(w) \/ SyncHandler(w) \/ HandlerOK(w) \/ HandlerError(w)
      PROVE  Exclusion'
  BY <1>1, <1>2
  DEF GetNothing, SyncHandler, HandlerOK, HandlerError, queueVars, Busy, TypeInv
<1>3. ASSUME NEW w \in Workers, Get(w) \/ Done(w) PROVE Exclusion'
  BY <1>3, GetExclusion, DoneExclusion
<1>4. ASSUME NEW k \in Keys, InformerUpdate(k) \/ HandleObject(k) \/ Enqueue(k)
      PROVE  Exclusion'
  BY <1>1, <1>4 DEF InformerUpdate, HandleObject, Enqueue, queueVars, workerVars
<1>5. ASSUME NEW k \in Keys, AddReady(k) PROVE Exclusion'
  BY <1>5, AddExclusion DEF AddReady
<1>6. CASE AddReceived
  <2>1. Head(addCh) \in Keys
    BY <1>6, RangeOfTail DEF AddReceived, TypeInv
  <2> QED
    BY <1>6, <2>1, AddExclusion DEF AddReceived
<1>7. CASE WaitEntry
  BY <1>1, <1>7 DEF WaitEntry, queueVars, workerVars
<1>8. CASE ShutDown
  BY <1>1, <1>8 DEF ShutDown, Busy, TypeInv
<1>9. CASE UNCHANGED vars
  BY <1>1, <1>9 DEF vars, queueVars, workerVars
<1> QED
  BY <1>2, <1>3, <1>4, <1>5, <1>6, <1>7, <1>8, <1>9 DEF Next, Terminated

LEMMA InitExclusion == Init => Exclusion
BY DEF Init, Exclusion, QueueHoldsDirty, OneWorkerPerKey, Busy, Range

LEMMA ExclusionHolds == Spec => [](TypeInv /\ Exclusion)
BY InitType, NextType, InitExclusion, NextExclusion, PTL DEF Spec

\* The queue holds exactly the dirty keys that are not being processed, each
\* once.
THEOREM QueueCorrect == Spec => []QueueHoldsDirty
<1>1. Exclusion => QueueHoldsDirty
  BY DEF Exclusion
<1> QED
  BY <1>1, ExclusionHolds, PTL

\* No key runs on two workers, for any number of either.
THEOREM OneWorker == Spec => []OneWorkerPerKey
<1>1. Exclusion => OneWorkerPerKey
  BY DEF Exclusion
<1> QED
  BY <1>1, ExclusionHolds, PTL
-----------------------------------------------------------------------------
(* No update is lost, and none is applied after a newer one *)

NoChangeLost == VersionsInOrder /\ LateChangeRequested /\ NoLostUpdate

\* Steps that leave objects and runs alone and keep every request
LEMMA RequestsKept ==
  ASSUME TypeInv, NoChangeLost, UNCHANGED <<store, applied, item, seen, shuttingDown>>,
         \A k \in Keys : notified'[k] <= store[k],
         \A k \in Keys : Requested(k) /\ ~shuttingDown => Requested(k)',
         \A w \in Workers : pc'[w] = pc[w] \/ {pc[w], pc'[w]} \cap {"read", "handle"} = {}
  PROVE  NoChangeLost'
<1>1. VersionsInOrder'
  BY DEF NoChangeLost, VersionsInOrder
<1>2. LateChangeRequested'
  BY DEF NoChangeLost, LateChangeRequested, TypeInv
<1>3. NoLostUpdate'
  <2>1. \A w \in Workers : pc[w] \in {"read", "handle"} => pc'[w] = pc[w]
    OBVIOUS
  <2>2. ASSUME NEW k \in Keys, OnItsWay(k), ~shuttingDown PROVE OnItsWay(k)'
    <3>1. CASE Requested(k)
      BY <2>2, <3>1 DEF OnItsWay
    <3>2. CASE ~Requested(k)
      BY <2>1, <2>2, <3>2 DEF OnItsWay
    <3> QED
      BY <3>1, <3>2
  <2> QED
    BY <2>2 DEF NoChangeLost, NoLostUpdate
<1> QED
  BY <1>1, <1>2, <1>3 DEF NoChangeLost

LEMMA AddMarks ==
  ASSUME TypeInv, NEW k \in Keys, Add(k), ~shuttingDown PROVE dirty' = dirty \cup {k}
BY AddCases

LEMMA AddAfterAppends ==
  ASSUME TypeInv, NEW k \in Keys, AddAfter(k)
  PROVE  /\ Range(addCh) \subseteq Range(addCh')
         /\ ~shuttingDown => k \in Range(addCh')
         /\ Range(addCh') \subseteq Range(addCh) \cup {k}
<1>1. Range(Append(addCh, k)) = Range(addCh) \cup {k}
  BY RangeOfAppend DEF TypeInv
<1> QED
  BY <1>1 DEF AddAfter

\* The steps of waitingLoop and of those who fill its channel
LEMMA DelayVersions ==
  ASSUME TypeInv, NoChangeLost,
         \/ WaitEntry \/ AddReceived
         \/ \E k \in Keys : AddReady(k) \/ HandleObject(k) \/ Enqueue(k)
  PROVE  NoChangeLost'
<1>1. \A k \in Keys : notified[k] <= store[k]
  BY DEF NoChangeLost, VersionsInOrder
<1>2. CASE WaitEntry
  <2>1. Range(addCh) = Range(addCh') \cup {Head(addCh)}
    BY <1>2, RangeOfTail DEF WaitEntry, TypeInv
  <2>2. \A k \in Keys : Requested(k) => Requested(k)'
    BY <1>2, <2>1 DEF WaitEntry, Requested, queueVars, objVars
  <2> QED
    BY <1>1, <1>2, <2>2, RequestsKept DEF WaitEntry, queueVars, objVars, workerVars
<1>3. ASSUME NEW k \in Keys, Add(k), ~shuttingDown
      PROVE  \A w \in Workers :
               pc'[w] = pc[w] \/ {pc[w], pc'[w]} \cap {"read", "handle"} = {}
  BY <1>3, AddCases, SignalledFacts DEF TypeInv
<1>4. CASE AddReceived
  <2>1. Head(addCh) \in Keys /\ Range(addCh) = Range(addCh') \cup {Head(addCh)}
    BY <1>4, RangeOfTail DEF AddReceived, TypeInv
  <2>2. dirty' = dirty \cup {Head(addCh)}
    BY <1>4, <2>1, AddMarks DEF AddReceived
  <2>3. \A k \in Keys : Requested(k) => Requested(k)'
    BY <1>4, <2>1, <2>2 DEF AddReceived, Requested, objVars
  <2> QED
    BY <1>1, <1>3, <1>4, <2>1, <2>3, RequestsKept DEF AddReceived, objVars
<1>5. ASSUME NEW k \in Keys, AddReady(k) PROVE NoChangeLost'
  <2>1. dirty' = dirty \cup {k}
    BY <1>5, AddMarks DEF AddReady
  <2>2. \A x \in Keys : Requested(x) => Requested(x)'
    BY <1>5, <2>1 DEF AddReady, Requested, objVars
  <2> QED
    BY <1>1, <1>3, <1>5, <2>2, RequestsKept DEF AddReady, objVars
<1>6. ASSUME NEW k \in Keys, HandleObject(k) PROVE NoChangeLost'
  <2>1. /\ Range(addCh) \subseteq Range(addCh')
        /\ ~shuttingDown => k \in Range(addCh')
    BY <1>6, AddAfterAppends DEF HandleObject
  <2>2. \A x \in Keys : notified'[x] <= store[x] /\ (x # k => notified'[x] = notified[x])
    BY <1>1, <1>6 DEF HandleObject, TypeInv, Versions
  <2>3. \A x \in Keys : Requested(x) /\ ~shuttingDown => Requested(x)'
    BY <1>6, <2>1, <2>2 DEF HandleObject, Requested, queueVars
  <2> QED
    BY <1>6, <2>2, <2>3, RequestsKept DEF HandleObject, queueVars, workerVars
<1>7. ASSUME NEW k \in Keys, Enqueue(k) PROVE NoChangeLost'
  <2>1. Range(addCh) \subseteq Range(addCh')
    BY <1>7, AddAfterAppends DEF Enqueue
  <2>2. \A x \in Keys : Requested(x) => Requested(x)'
    BY <1>7, <2>1 DEF Enqueue, Requested, queueVars, objVars
  <2> QED
    BY <1>1, <1>7, <2>2, RequestsKept DEF Enqueue, queueVars, objVars, workerVars
<1> QED
  BY <1>2, <1>4, <1>5, <1>6, <1>7

\* Get takes the request and reads the store afterwards.
LEMMA GetVersions ==
  ASSUME TypeInv, Exclusion, NoChangeLost, NEW w \in Workers, Get(w) PROVE NoChangeLost'
<1>1. PICK k \in Keys : k = Head(queue) /\ k \in Range(queue)
  BY RangeOfTail DEF Get, TypeInv
<1>2. \A v \in Workers : pc[v] \in Busy => item[v] # k
  BY <1>1 DEF Exclusion, QueueHoldsDirty, OneWorkerPerKey
<1>3. /\ dirty' = dirty \ {k} /\ pc[w] = "get" /\ pc'[w] = "read" /\ item'[w] = k
      /\ \A v \in Workers \ {w} : pc'[v] = pc[v] /\ item'[v] = item[v]
      /\ UNCHANGED <<shuttingDown, addCh, waiting, store, notified, applied, seen>>
  BY <1>1 DEF Get, TypeInv, delayVars, objVars
<1>4. \A x \in Keys \ {k} : Requested(x) => Requested(x)'
  BY <1>3 DEF Requested
<1>5. VersionsInOrder'
  BY <1>3 DEF NoChangeLost, VersionsInOrder
<1>6. LateChangeRequested'
  BY <1>2, <1>3, <1>4 DEF NoChangeLost, LateChangeRequested, TypeInv, Busy
<1>7. NoLostUpdate'
  <2>1. OnItsWay(k)'
    BY <1>3 DEF OnItsWay
  <2>2. ASSUME NEW x \in Keys \ {k}, OnItsWay(x) PROVE OnItsWay(x)'
    BY <1>3, <1>4, <2>2 DEF OnItsWay
  <2> QED
    BY <1>3, <2>1, <2>2 DEF NoChangeLost, NoLostUpdate
<1> QED
  BY <1>5, <1>6, <1>7 DEF NoChangeLost

LEMMA SyncVersions ==
  ASSUME TypeInv, NoChangeLost, NEW w \in Workers, SyncHandler(w) PROVE NoChangeLost'
<1>1. /\ pc[w] = "read" /\ pc'[w] = "handle" /\ seen'[w] = store[item[w]]
      /\ \A v \in Workers \ {w} : pc'[v] = pc[v] /\ seen'[v] = seen[v]
      /\ UNCHANGED <<item, dirty, shuttingDown, addCh, waiting, store, notified, applied>>
  BY DEF SyncHandler, TypeInv, queueVars, delayVars, objVars
<1>2. item[w] \in Keys /\ \A k \in Keys : store[k] \in Nat
  BY DEF TypeInv, Versions
<1>3. \A k \in Keys : Requested(k)' <=> Requested(k)
  BY <1>1 DEF Requested
<1>4. VersionsInOrder'
  BY <1>1, <1>2 DEF NoChangeLost, VersionsInOrder
<1>5. LateChangeRequested'
  BY <1>1, <1>3 DEF NoChangeLost, LateChangeRequested, TypeInv
<1>6. NoLostUpdate'
  BY <1>1, <1>3 DEF NoChangeLost, NoLostUpdate, OnItsWay
<1> QED
  BY <1>4, <1>5, <1>6 DEF NoChangeLost

\* A run that ends applies what it read; a newer change is requested.
LEMMA HandlerVersions ==
  ASSUME TypeInv, Exclusion, NoChangeLost, NEW w \in Workers, HandlerOK(w) \/ HandlerError(w)
  PROVE  NoChangeLost'
<1>1. /\ pc[w] = "handle" /\ pc'[w] = "done" /\ item[w] \in Keys
      /\ \A v \in Workers \ {w} : pc'[v] = pc[v]
      /\ UNCHANGED <<item, seen, dirty, shuttingDown, waiting, store, notified>>
  BY DEF HandlerOK, HandlerError, TypeInv, queueVars, delayVars, objVars
<1>2. \A v \in Workers \ {w} : pc[v] \in Busy => item[v] # item[w]
  BY <1>1 DEF Exclusion, OneWorkerPerKey, Busy
<1>3. CASE HandlerOK(w)
  <2>1. /\ UNCHANGED addCh /\ applied'[item[w]] = seen[w]
        /\ \A k \in Keys \ {item[w]} : applied'[k] = applied[k]
    BY <1>1, <1>3 DEF HandlerOK, TypeInv, delayVars
  <2>2. \A k \in Keys : Requested(k)' <=> Requested(k)
    BY <1>1, <2>1 DEF Requested
  <2>3. VersionsInOrder'
    BY <1>1, <1>2, <2>1 DEF NoChangeLost, VersionsInOrder, TypeInv, Busy
  <2>4. LateChangeRequested'
    BY <1>1, <2>2 DEF NoChangeLost, LateChangeRequested, TypeInv
  <2>5. NoLostUpdate'
    <3>1. seen[w] # store[item[w]] /\ ~shuttingDown => Requested(item[w])
      BY <1>1 DEF NoChangeLost, LateChangeRequested
    <3>2. ASSUME NEW k \in Keys \ {item[w]}, OnItsWay(k) PROVE OnItsWay(k)'
      BY <1>1, <2>2, <3>2 DEF OnItsWay
    <3> QED
      BY <1>1, <2>1, <2>2, <3>1, <3>2 DEF NoChangeLost, NoLostUpdate, OnItsWay
  <2> QED
    BY <2>3, <2>4, <2>5 DEF NoChangeLost
<1>4. CASE HandlerError(w)
  <2>1. /\ Range(addCh) \subseteq Range(addCh') /\ UNCHANGED applied
        /\ ~shuttingDown => item[w] \in Range(addCh')
    BY <1>1, <1>4, AddAfterAppends DEF HandlerError, objVars
  <2>2. \A k \in Keys : Requested(k) => Requested(k)'
    BY <1>1, <2>1 DEF Requested
  <2>3. ~shuttingDown => Requested(item[w])'
    BY <1>1, <2>1 DEF Requested
  <2>4. VersionsInOrder'
    BY <1>1, <2>1 DEF NoChangeLost, VersionsInOrder
  <2>5. LateChangeRequested'
    BY <1>1, <2>2 DEF NoChangeLost, LateChangeRequested, TypeInv
  <2>6. NoLostUpdate'
    <3>1. ASSUME NEW k \in Keys \ {item[w]}, OnItsWay(k) PROVE OnItsWay(k)'
      BY <1>1, <2>2, <3>1 DEF OnItsWay
    <3> QED
      BY <1>1, <2>1, <2>3, <3>1 DEF NoChangeLost, NoLostUpdate, OnItsWay
  <2> QED
    BY <2>4, <2>5, <2>6 DEF NoChangeLost
<1> QED
  BY <1>3, <1>4

LEMMA InformerVersions ==
  ASSUME TypeInv, NoChangeLost, NEW k \in Keys, InformerUpdate(k) PROVE NoChangeLost'
<1>1. /\ store'[k] = store[k] + 1
      /\ \A x \in Keys \ {k} : store'[x] = store[x]
      /\ UNCHANGED <<pc, item, seen, dirty, shuttingDown, addCh, waiting, notified, applied>>
  BY DEF InformerUpdate, TypeInv, queueVars, delayVars, workerVars
<1>2. /\ \A x \in Keys : store[x] \in Nat /\ notified[x] \in Nat /\ applied[x] \in Nat
      /\ \A w \in Workers : item[w] \in Keys /\ seen[w] \in Nat
  BY DEF TypeInv, Versions
<1>3. Requested(k)' /\ \A x \in Keys : Requested(x) => Requested(x)'
  BY <1>1, <1>2 DEF Requested, NoChangeLost, VersionsInOrder
<1>4. VersionsInOrder'
  BY <1>1, <1>2 DEF NoChangeLost, VersionsInOrder
<1>5. LateChangeRequested'
  BY <1>1, <1>2, <1>3 DEF NoChangeLost, LateChangeRequested
<1>6. NoLostUpdate'
  BY <1>1, <1>3 DEF NoChangeLost, NoLostUpdate, OnItsWay
<1> QED
  BY <1>4, <1>5, <1>6 DEF NoChangeLost

LEMMA NextVersions == TypeInv /\ Exclusion /\ NoChangeLost /\ [Next]_vars => NoChangeLost'
<1> SUFFICES ASSUME TypeInv, Exclusion, NoChangeLost, [Next]_vars PROVE NoChangeLost'
  OBVIOUS
<1>1. \A k \in Keys : notified[k] <= store[k]
  BY DEF NoChangeLost, VersionsInOrder
<1>2. ASSUME NEW w \in Workers, GetNothing(w) \/ Done(w) PROVE NoChangeLost'
  <2>1. \A v \in Workers : pc'[v] = pc[v] \/ {pc[v], pc'[v]} \cap {"read", "handle"} = {}
    <3>1. CASE GetNothing(w)
      BY <3>1 DEF GetNothing, TypeInv
    <3>2. CASE Done(w)
      <4>1. [pc EXCEPT ![w] = "get"] \in [Workers -> PCs]
        BY DEF TypeInv, PCs
      <4> QED
        BY <3>2, <4>1, SignalledFacts DEF Done, TypeInv
    <3> QED
      BY <1>2, <3>1, <3>2
  <2>2. UNCHANGED <<dirty, shuttingDown, delayVars, objVars, item, seen>>
    BY <1>2 DEF GetNothing, Done, queueVars
  <2>3. \A k \in Keys : Requested(k) => Requested(k)'
    BY <2>2 DEF Requested, delayVars, objVars
  <2> QED
    BY <1>1, <2>1, <2>2, <2>3, RequestsKept DEF objVars
<1>3. CASE ShutDown
  <2>1. /\ shuttingDown' /\ UNCHANGED <<store, notified, applied, item, seen>>
        /\ \A w \in Workers : pc'[w] = "handle" => pc[w] = "handle"
    BY <1>3 DEF ShutDown, objVars
  <2> QED
    BY <2>1 DEF NoChangeLost, VersionsInOrder, LateChangeRequested, NoLostUpdate
<1>4. CASE UNCHANGED vars
  <2>1. \A k \in Keys : Requested(k) => Requested(k)'
    BY <1>4 DEF Requested, vars, queueVars, delayVars, objVars
  <2> QED
    BY <1>1, <1>4, <2>1, RequestsKept DEF vars, queueVars, objVars, workerVars
<1> QED
  BY <1>2, <1>3, <1>4, DelayVersions, GetVersions, SyncVersions, HandlerVersions,
     InformerVersions DEF Next, Terminated

LEMMA InitVersions == Init => NoChangeLost
BY DEF Init, NoChangeLost, VersionsInOrder, LateChangeRequested, NoLostUpdate

\* One worker per key, versions in order, and a request behind every change:
\* the invariant the next two theorems rest on.
THEOREM InvCorrect == Spec => []IInv
<1>1. TypeInv /\ Exclusion /\ NoChangeLost /\ [Next]_vars => (TypeInv /\ Exclusion /\ NoChangeLost)'
  BY NextType, NextExclusion, NextVersions
<1>2. Init => TypeInv /\ Exclusion /\ NoChangeLost
  BY InitType, InitExclusion, InitVersions
<1>3. TypeInv /\ Exclusion /\ NoChangeLost => IInv
  BY DEF IInv, Exclusion, NoChangeLost
<1> QED
  BY <1>1, <1>2, <1>3, PTL DEF Spec

\* A change is never lost between the informer and the handlers.
THEOREM NoUpdateLost == Spec => []NoLostUpdate
<1>1. IInv => NoLostUpdate
  BY DEF IInv
<1> QED
  BY <1>1, InvCorrect, PTL

\* The handlers of a key are never left with an older version than before.
THEOREM AppliedInOrder == Spec => NeverBackwards
<1>1. TypeInv /\ IInv /\ [Next]_vars => \A k \in Keys : applied'[k] >= applied[k]
  <2> SUFFICES ASSUME TypeInv, IInv, [Next]_vars, NEW k \in Keys
               PROVE  applied'[k] >= applied[k]
    OBVIOUS
  <2>1. applied[k] \in Nat
    BY DEF TypeInv, Versions
  <2>2. ASSUME NEW w \in Workers, HandlerOK(w) PROVE applied'[k] >= applied[k]
    <3>1. pc[w] = "handle" /\ item[w] \in Keys /\ seen[w] \in Nat
      BY <2>2 DEF HandlerOK, TypeInv, Versions
    <3>2. applied[item[w]] <= seen[w]
      BY <3>1 DEF IInv, VersionsInOrder
    <3>3. applied' = [applied EXCEPT ![item[w]] = seen[w]]
      BY <2>2 DEF HandlerOK
    <3> QED
      BY <2>1, <3>1, <3>2, <3>3 DEF TypeInv
  <2>3. CASE UNCHANGED applied
    BY <2>1, <2>3
  <2>4. \/ UNCHANGED applied
        \/ \E w \in Workers : HandlerOK(w)
    BY DEF Next, Get, GetNothing, Done, SyncHandler, HandlerError, InformerUpdate,
           HandleObject, Enqueue, AddReady, WaitEntry, AddReceived, ShutDown,
           Terminated, vars, objVars
  <2> QED
    BY <2>2, <2>3, <2>4
<1> QED
  BY <1>1, TypeCorrect, InvCorrect, PTL DEF Spec, NeverBackwards
-----------------------------------------------------------------------------
(* No signal is lost *)

Awake(p) == {w \in Workers : p[w] = "get"}
Asleep(p) == {w \in Workers : p[w] = "blocked"}

LEMMA AwakeFinite ==
  ASSUME NEW p PROVE IsFiniteSet(Awake(p)) /\ Cardinality(Awake(p)) \in Nat
<1>1. IsFiniteSet(Awake(p))
  BY FS_Subset, WorkersAssumption DEF Awake
<1> QED
  BY <1>1, FS_CardinalityType

\* A worker that comes to Get, and one that leaves it
LEMMA AwakeOneMore ==
  ASSUME NEW p \in [Workers -> PCs], NEW w \in Workers, p[w] # "get"
  PROVE  Cardinality(Awake([p EXCEPT ![w] = "get"])) = Cardinality(Awake(p)) + 1
<1>1. Awake([p EXCEPT ![w] = "get"]) = Awake(p) \cup {w} /\ w \notin Awake(p)
  BY DEF Awake
<1> QED
  BY <1>1, AwakeFinite, FS_AddElement

LEMMA AwakeOneLess ==
  ASSUME NEW p \in [Workers -> PCs], NEW w \in Workers, p[w] = "get", NEW x, x # "get"
  PROVE  Cardinality(Awake([p EXCEPT ![w] = x])) = Cardinality(Awake(p)) - 1
<1>1. Awake([p EXCEPT ![w] = x]) = Awake(p) \ {w} /\ w \in Awake(p)
  BY DEF Awake
<1> QED
  BY <1>1, AwakeFinite, FS_RemoveElement

\* Signal wakes exactly one worker when there is one to wake.
LEMMA SignalWakes ==
  ASSUME NEW p \in [Workers -> PCs], NEW q \in Signalled(p), Asleep(q) # {}
  PROVE  Cardinality(Awake(q)) = Cardinality(Awake(p)) + 1 /\ Asleep(p) # {}
<1>1. Asleep(p) # {}
  BY SignalledFacts DEF Asleep
<1>2. PICK w \in Asleep(p) : q = [p EXCEPT ![w] = "get"]
  BY <1>1 DEF Signalled, Asleep
<1>3. w \in Workers /\ p[w] # "get"
  BY <1>2 DEF Asleep
<1> QED
  BY <1>1, <1>2, <1>3, AwakeOneMore

SignalsKept == Asleep(pc) # {} => Len(queue) <= Cardinality(Awake(pc))

LEMMA AddSignals ==
  ASSUME TypeInv, SignalsKept, NEW k \in Keys, Add(k) PROVE SignalsKept'
<1>1. CASE UNCHANGED <<queue, pc>>
  BY <1>1 DEF SignalsKept
<1>2. CASE queue' = Append(queue, k) /\ pc' \in Signalled(pc)
  <2>1. Len(queue') = Len(queue) + 1 /\ Len(queue) \in Nat
    BY <1>2 DEF TypeInv
  <2>2. PICK q \in Signalled(pc) : pc' = q
    BY <1>2
  <2>3. Asleep(q) # {} => Asleep(pc) # {} /\ Cardinality(Awake(q)) = Cardinality(Awake(pc)) + 1
    BY SignalWakes DEF TypeInv
  <2>4. Asleep(pc)' = Asleep(q) /\ Awake(pc)' = Awake(q)
    BY <2>2 DEF Asleep, Awake
  <2> QED
    BY <2>1, <2>3, <2>4, AwakeFinite DEF SignalsKept
<1> QED
  BY <1>1, <1>2, AddCases

LEMMA GetSignals ==
  ASSUME TypeInv, SignalsKept, NEW w \in Workers, Get(w) \/ GetNothing(w) \/ Done(w)
  PROVE  SignalsKept'
<1>1. CASE Get(w)
  <2>1. pc' = [pc EXCEPT ![w] = "read"] /\ pc[w] = "get"
    BY <1>1 DEF Get, TypeInv
  <2>2. Cardinality(Awake([pc EXCEPT ![w] = "read"])) = Cardinality(Awake(pc)) - 1
    BY <2>1, AwakeOneLess DEF TypeInv
  <2>3. Asleep(pc)' = Asleep(pc) /\ Awake(pc)' = Awake([pc EXCEPT ![w] = "read"])
    BY <2>1 DEF Asleep, Awake, TypeInv
  <2>4. Cardinality(Awake(pc)) \in Nat
    BY AwakeFinite
  <2>5. Cardinality(Awake(pc)') = Cardinality(Awake(pc)) - 1
    BY <2>2, <2>3
  <2>6. Len(queue) \in Nat /\ Len(queue') = Len(queue) - 1
    BY <1>1 DEF Get, TypeInv
  <2> QED
    BY <2>3, <2>4, <2>5, <2>6 DEF SignalsKept
<1>2. CASE GetNothing(w)
  <2>1. Len(queue') = 0
    BY <1>2 DEF GetNothing, queueVars
  <2>2. Cardinality(Awake(pc)') \in Nat
    BY AwakeFinite
  <2> QED
    BY <2>1, <2>2 DEF SignalsKept
<1>3. CASE Done(w)
  <2>1. PICK p \in [Workers -> PCs] : p = [pc EXCEPT ![w] = "get"]
    BY DEF TypeInv, PCs
  <2>2. /\ Cardinality(Awake(p)) = Cardinality(Awake(pc)) + 1
        /\ Asleep(p) = Asleep(pc)
    BY <1>3, <2>1, AwakeOneMore DEF Done, TypeInv, Asleep
  <2>3. CASE queue' = Append(queue, item[w]) /\ pc' \in Signalled(p)
    <3>1. Len(queue') = Len(queue) + 1 /\ Len(queue) \in Nat
      BY <2>3 DEF TypeInv
    <3>2. PICK q \in Signalled(p) : pc' = q
      BY <2>3
    <3>3. Asleep(q) # {} => Asleep(p) # {} /\ Cardinality(Awake(q)) = Cardinality(Awake(p)) + 1
      BY SignalWakes
    <3>4. Asleep(pc)' = Asleep(q) /\ Awake(pc)' = Awake(q)
      BY <3>2 DEF Asleep, Awake
    <3> QED
      BY <2>2, <3>1, <3>3, <3>4, AwakeFinite DEF SignalsKept
  <2>4. CASE UNCHANGED queue /\ pc' = p
    <3>1. Asleep(pc)' = Asleep(p) /\ Awake(pc)' = Awake(p) /\ Len(queue) \in Nat
      BY <2>4 DEF Asleep, Awake, TypeInv
    <3> QED
      BY <2>2, <2>4, <3>1, AwakeFinite DEF SignalsKept
  <2> QED
    BY <1>3, <2>1, <2>3, <2>4 DEF Done
<1> QED
  BY <1>1, <1>2, <1>3

LEMMA NextSignals == TypeInv /\ SignalsKept /\ [Next]_vars => SignalsKept'
<1> SUFFICES ASSUME TypeInv, SignalsKept, [Next]_vars PROVE SignalsKept'
  OBVIOUS
<1>1. ASSUME UNCHANGED queue, UNCHANGED <<Asleep(pc), Awake(pc)>> PROVE SignalsKept'
  BY <1>1 DEF SignalsKept
<1>2. ASSUME NEW w \in Workers, SyncHandler(w) \/ HandlerOK(w) \/ HandlerError(w)
      PROVE  SignalsKept'
  BY <1>1, <1>2 DEF SyncHandler, HandlerOK, HandlerError, queueVars, Asleep, Awake, TypeInv
<1>3. ASSUME NEW k \in Keys, InformerUpdate(k) \/ HandleObject(k) \/ Enqueue(k)
      PROVE  SignalsKept'
  BY <1>1, <1>3
  DEF InformerUpdate, HandleObject, Enqueue, queueVars, workerVars, Asleep, Awake
<1>4. ASSUME NEW k \in Keys, AddReady(k) PROVE SignalsKept'
  BY <1>4, AddSignals DEF AddReady
<1>5. CASE AddReceived
  <2>1. Head(addCh) \in Keys
    BY <1>5, RangeOfTail DEF AddReceived, TypeInv
  <2> QED
    BY <1>5, <2>1, AddSignals DEF AddReceived
<1>6. CASE WaitEntry
  BY <1>1, <1>6 DEF WaitEntry, queueVars, workerVars, Asleep, Awake
<1>7. CASE ShutDown
  <2>1. Asleep(pc)' = {}
    BY <1>7 DEF ShutDown, Asleep
  <2> QED
    BY <2>1 DEF SignalsKept
<1>8. CASE UNCHANGED vars
  BY <1>1, <1>8 DEF vars, queueVars, workerVars, Asleep, Awake
<1> QED
  BY <1>2, <1>3, <1>4, <1>5, <1>6, <1>7, <1>8, GetSignals DEF Next, Terminated

\* While a worker sleeps in Get there is an awake one for every queued key.
THEOREM SignalsCorrect == Spec => []NoLostSignal
<1>1. Init => SignalsKept
  BY DEF Init, SignalsKept, Asleep
<1>2. SignalsKept => NoLostSignal
  BY DEF SignalsKept, NoLostSignal, Asleep, Awake
<1> QED
  BY <1>1, <1>2, NextSignals, InitType, NextType, PTL DEF Spec

-----------------------------------------------------------------------------
(* WorkQueue implements PendingWork *)

Pending == dirty \cup waiting \cup Range(addCh) \cup {k \in Keys : notified[k] < store[k]}

\* The steps that concern requests alone: one more, the same, or - once the
\* queue is shut down - fewer.
LEMMA RequestSteps ==
  ASSUME TypeInv, [Next]_vars, UNCHANGED <<processing, shuttingDown>>,
         \/ \E k \in Keys : Pending' = Pending \cup {k}
         \/ Pending' = Pending
         \/ shuttingDown /\ Pending' \subseteq Pending
  PROVE  [PW!Next]_(PW!vars)
BY DEF PW!Next, PW!Request, PW!Abandon, PW!vars, Pending

LEMMA StepRefines ==
  ASSUME TypeInv, Exclusion, [Next]_vars PROVE [PW!Next]_(PW!vars)
<1>1. ASSUME NEW k \in Keys, HandleObject(k) PROVE [PW!Next]_(PW!vars)
  <2>1. /\ Range(addCh) \subseteq Range(addCh') /\ Range(addCh') \subseteq Range(addCh) \cup {k}
        /\ ~shuttingDown => k \in Range(addCh')
        /\ shuttingDown => UNCHANGED addCh
    BY <1>1, AddAfterAppends DEF HandleObject, AddAfter
  <2>2. /\ UNCHANGED <<dirty, processing, shuttingDown, waiting, store>>
        /\ notified[k] < store[k] /\ notified'[k] = notified[k] + 1
        /\ \A x \in Keys \ {k} : notified'[x] = notified[x]
    BY <1>1 DEF HandleObject, queueVars, TypeInv
  <2>3. notified[k] \in Nat /\ store[k] \in Nat
    BY DEF TypeInv, Versions
  <2>4. CASE ~shuttingDown
    <3>1. Pending' = Pending
      BY <2>1, <2>2, <2>3, <2>4 DEF Pending
    <3> QED
      BY <2>2, <3>1, RequestSteps
  <2>5. CASE shuttingDown
    <3>1. Pending' \subseteq Pending
      BY <2>1, <2>2, <2>3, <2>5 DEF Pending
    <3> QED
      BY <2>2, <2>5, <3>1, RequestSteps
  <2> QED
    BY <2>4, <2>5
<1>2. ASSUME NEW k \in Keys, AddAfter(k),
             UNCHANGED <<dirty, processing, shuttingDown, waiting, store, notified>>
      PROVE  [PW!Next]_(PW!vars)
  <2>1. Range(addCh') = Range(addCh) \cup {k} \/ UNCHANGED addCh
    <3>1. addCh' = Append(addCh, k) \/ UNCHANGED addCh
      BY <1>2 DEF AddAfter
    <3>2. addCh \in Seq(Keys)
      BY DEF TypeInv
    <3>3. Range(Append(addCh, k)) = Range(addCh) \cup {k}
      BY <3>2, RangeOfAppend
    <3>4. CASE addCh' = Append(addCh, k)
      BY <3>3, <3>4, Zenon
    <3> QED
      BY <3>1, <3>4, Zenon
  <2>2. Pending' = Pending \cup {k} \/ Pending' = Pending
    <3>1. PICK late : late = {j \in Keys : notified[j] < store[j]}
      OBVIOUS
    <3>2. /\ Pending = dirty \cup waiting \cup Range(addCh) \cup late
          /\ Pending' = dirty \cup waiting \cup Range(addCh') \cup late
      BY <1>2, <3>1 DEF Pending
    <3>3. CASE Range(addCh') = Range(addCh) \cup {k}
      BY <3>2, <3>3
    <3>4. CASE UNCHANGED addCh
      <4>1. Range(addCh') = Range(addCh)
        BY <3>4 DEF Range
      <4> QED
        BY <3>2, <4>1
    <3> QED
      BY <2>1, <3>3, <3>4
  <2> QED
    BY <1>2, <2>2, RequestSteps
<1>3. ASSUME NEW k \in Keys, Enqueue(k) PROVE [PW!Next]_(PW!vars)
  BY <1>2, <1>3 DEF Enqueue, queueVars, objVars
<1>4. ASSUME NEW w \in Workers, HandlerError(w) PROVE [PW!Next]_(PW!vars)
  <2>1. PICK k \in Keys : k = item[w]
    BY DEF TypeInv
  <2> QED
    BY <1>2, <1>4, <2>1 DEF HandlerError, queueVars, objVars
<1>5. ASSUME NEW k \in Keys, InformerUpdate(k) PROVE [PW!Next]_(PW!vars)
  <2>1. /\ UNCHANGED <<dirty, processing, shuttingDown, waiting, addCh, notified>>
        /\ store' = [store EXCEPT ![k] = @ + 1]
    BY <1>5 DEF InformerUpdate, queueVars, delayVars
  <2>2. Pending' = Pending \cup {k} \/ Pending' = Pending
    <3>1. store[k] \in Nat /\ notified[k] \in Nat
      BY DEF TypeInv, Versions
    <3>2. \A x \in Keys \ {k} : store'[x] = store[x]
      BY <2>1 DEF TypeInv
    <3>3. store'[k] = store[k] + 1
      BY <2>1 DEF TypeInv
    <3>4. CASE notified[k] <= store[k]
      <4>1. Pending' = Pending \cup {k}
        BY <2>1, <3>1, <3>2, <3>3, <3>4 DEF Pending
      <4> QED
        BY <4>1
    <3>5. CASE notified[k] > store[k]
      <4>1. Pending' = Pending
        BY <2>1, <3>1, <3>2, <3>3, <3>5 DEF Pending
      <4> QED
        BY <4>1
    <3> QED
      BY <3>1, <3>4, <3>5
  <2> QED
    BY <2>1, <2>2, RequestSteps
<1>6. ASSUME NEW k \in Keys, Add(k), ~shuttingDown,
             UNCHANGED <<processing, shuttingDown, store, notified>>,
             waiting \cup Range(addCh) = waiting' \cup Range(addCh') \cup {k}
      PROVE  [PW!Next]_(PW!vars)
  <2>1. dirty' = dirty \cup {k}
    BY <1>6, AddMarks
  <2>2. Pending' = Pending
    BY <1>6, <2>1 DEF Pending
  <2> QED
    BY <1>6, <2>2, RequestSteps
<1>7. ASSUME NEW k \in Keys, AddReady(k) PROVE [PW!Next]_(PW!vars)
  BY <1>6, <1>7 DEF AddReady, objVars
<1>8. CASE AddReceived
  <2>1. PICK k \in Keys : k = Head(addCh) /\ Range(addCh) = Range(Tail(addCh)) \cup {k}
    BY <1>8, RangeOfTail DEF AddReceived, TypeInv
  <2> QED
    BY <1>6, <1>8, <2>1 DEF AddReceived, objVars
<1>9. CASE WaitEntry
  <2>1. Range(addCh) = Range(addCh') \cup {Head(addCh)} /\ waiting' = waiting \cup {Head(addCh)}
    BY <1>9, RangeOfTail DEF WaitEntry, TypeInv
  <2>2. Pending' = Pending /\ UNCHANGED <<processing, shuttingDown>>
    BY <1>9, <2>1 DEF WaitEntry, queueVars, objVars, Pending
  <2> QED
    BY <2>2, RequestSteps
<1>10. ASSUME NEW w \in Workers, Get(w) PROVE [PW!Next]_(PW!vars)
  <2>1. PICK k \in Keys : k = Head(queue) /\ k \in Range(queue)
    BY <1>10, RangeOfTail DEF Get, TypeInv
  <2>2. k \in dirty /\ k \notin processing
    BY <2>1 DEF Exclusion, QueueHoldsDirty
  <2>3. /\ UNCHANGED <<shuttingDown, waiting, addCh, store, notified>>
        /\ dirty' = dirty \ {k} /\ processing' = processing \cup {k}
    BY <1>10, <2>1 DEF Get, delayVars, objVars
  <2>4. k \in Pending /\ Pending' \in {Pending, Pending \ {k}}
    BY <2>2, <2>3 DEF Pending
  <2>5. PW!Start(k)
    BY <2>2, <2>3, <2>4 DEF PW!Start, Pending
  <2> QED
    BY <2>5 DEF PW!Next
<1>11. ASSUME NEW w \in Workers, Done(w) PROVE [PW!Next]_(PW!vars)
  <2>1. PICK k \in Keys : k = item[w]
    BY DEF TypeInv
  <2>2. k \in processing
    BY <1>11, <2>1 DEF Done, Busy, Exclusion, OneWorkerPerKey
  <2>3. PW!Finish(k)
    BY <1>11, <2>1, <2>2 DEF Done, delayVars, objVars, PW!Finish, Range
  <2> QED
    BY <2>3 DEF PW!Next
<1>12. CASE ShutDown
  BY <1>12 DEF ShutDown, delayVars, objVars, PW!Next, PW!Close, Range
<1>13. ASSUME NEW w \in Workers, GetNothing(w) \/ SyncHandler(w) \/ HandlerOK(w)
       PROVE  [PW!Next]_(PW!vars)
  <2>1. UNCHANGED <<dirty, processing, shuttingDown, waiting, addCh, store, notified>>
    BY <1>13 DEF GetNothing, SyncHandler, HandlerOK, queueVars, delayVars, objVars
  <2> QED
    BY <2>1 DEF PW!vars, Range
<1>14. CASE UNCHANGED vars
  BY <1>14 DEF vars, queueVars, delayVars, objVars, PW!vars, Range
<1> QED
  BY <1>1, <1>3, <1>4, <1>5, <1>7, <1>8, <1>9, <1>10, <1>11, <1>12, <1>13, <1>14
  DEF Next, Terminated

\* Every behaviour of the queue is one of PendingWork, under the mapping PW.
THEOREM Refinement == Spec => ImplementsPendingWork
<1>1. Init => PW!Init
  <2> SUFFICES ASSUME Init PROVE PW!Init
    OBVIOUS
  <2>1. Range(addCh) = {} /\ \A k \in Keys : ~(notified[k] < store[k])
    BY DEF Init, Range
  <2> QED
    BY <2>1 DEF Init, PW!Init
<1>2. TypeInv /\ Exclusion /\ [Next]_vars => [PW!Next]_(PW!vars)
  BY StepRefines
<1> QED
  BY <1>1, <1>2, ExclusionHolds, PTL DEF Spec, ImplementsPendingWork
=============================================================================
