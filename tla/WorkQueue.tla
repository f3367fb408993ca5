----------------------------- MODULE WorkQueue -----------------------------
(***************************************************************************)
(* The rate-limited work queue of one controller with its workers, between *)
(* the informer that fills it and the handlers that are run from it:       *)
(*   workqueue.Type           queue, dirty, processing, the condition      *)
(*                            variable its workers sleep on                *)
(*   delayingType             the channel waitingForAddCh and the heap of  *)
(*                            waitingLoop                                  *)
(*   generic.Controller       the workers: Get, syncHandler, AddRateLimited*)
(*                            on an error, Done                            *)
(* A delay is not a number here: an entry of the heap may become ready at  *)
(* any time.  AddRateLimited always asks for a positive delay (the per-key *)
(* limiter starts at 5ms), so it always goes through the channel.          *)
(***************************************************************************)
EXTENDS Naturals, Sequences, FiniteSets, Functions

CONSTANTS
  Keys,         \* the keys (namespace/name) of the controller's objects
  Workers,      \* the goroutines of Controller.run
  ChanCap,      \* capacity of waitingForAddCh (1000 in the code)
  MaxVersion,   \* bound: changes of one object
  MaxFails      \* bound: runs of the handler that end in an error

ASSUME KeysAssumption == IsFiniteSet(Keys) /\ Keys # {}
ASSUME WorkersAssumption == IsFiniteSet(Workers) /\ Workers # {}
ASSUME BoundsAssumption ==
  ChanCap \in Nat \ {0} /\ MaxVersion \in Nat /\ MaxFails \in Nat

VARIABLES
  queue,         \* Type.queue: the order in which keys are handed out
  dirty,         \* Type.dirty: the keys that need processing
  processing,    \* Type.processing: the keys being processed
  shuttingDown,  \* Type.shuttingDown
  addCh,         \* waitingForAddCh: requests waitingLoop has not taken yet
  waiting,       \* the keys in waitingLoop's heap, one entry per key
  store,         \* version of each object in the informer's store
  notified,      \* version up to which handleObject was called
  applied,       \* latest version whose handlers returned no error
  pc,            \* where each worker is
  item,          \* the key each worker holds (meaningful while it is busy)
  seen,          \* the version its syncHandler read from the store
  fails          \* runs that ended in an error so far

queueVars  == <<queue, dirty, processing, shuttingDown>>
delayVars  == <<addCh, waiting>>
objVars    == <<store, notified, applied>>
workerVars == <<pc, item, seen, fails>>
vars == <<queueVars, delayVars, objVars, workerVars>>

\* "blocked" is a worker inside cond.Wait; the busy ones hold a key.
Busy == {"read", "handle", "done"}
PCs  == {"get", "blocked", "exited"} \cup Busy
Versions == 0..MaxVersion

TypeInv ==
  /\ queue \in Seq(Keys)
  /\ dirty \subseteq Keys
  /\ processing \subseteq Keys
  /\ shuttingDown \in BOOLEAN
  /\ addCh \in Seq(Keys)
  /\ waiting \subseteq Keys
  /\ store \in [Keys -> Versions]
  /\ notified \in [Keys -> Versions]
  /\ applied \in [Keys -> Versions]
  /\ pc \in [Workers -> PCs]
  /\ item \in [Workers -> Keys]
  /\ seen \in [Workers -> Versions]
  /\ fails \in 0..MaxFails

Init ==
  /\ queue = <<>> /\ dirty = {} /\ processing = {} /\ shuttingDown = FALSE
  /\ addCh = <<>> /\ waiting = {}
  /\ store = [k \in Keys |-> 0]
  /\ notified = [k \in Keys |-> 0]
  /\ applied = [k \in Keys |-> 0]
  /\ pc = [w \in Workers |-> "get"]
  /\ item = [w \in Workers |-> CHOOSE k \in Keys : TRUE]
  /\ seen = [w \in Workers |-> 0]
  /\ fails = 0

-----------------------------------------------------------------------------
(* workqueue.Type *)

\* cond.Signal: one of the sleeping workers, if there is one, wakes up.
Signalled(p) ==
  LET asleep == {w \in Workers : p[w] = "blocked"}
  IN  IF asleep = {} THEN {p} ELSE {[p EXCEPT ![w] = "get"] : w \in asleep}

\* Faulty variants of Add and ShutDown (see "Mutants" in the README):
\* a key is queued although it is being processed,
AddEvenIfProcessing(k) ==
  \/ (shuttingDown \/ k \in dirty) /\ UNCHANGED <<queue, dirty, pc>>
  \/ /\ ~shuttingDown /\ k \notin dirty
     /\ dirty' = dirty \cup {k}
     /\ queue' = Append(queue, k) /\ pc' \in Signalled(pc)

\* a key being processed is not marked dirty,
AddNotIfProcessing(k) ==
  \/ (shuttingDown \/ k \in dirty \cup processing) /\ UNCHANGED <<queue, dirty, pc>>
  \/ /\ ~shuttingDown /\ k \notin dirty \cup processing
     /\ dirty' = dirty \cup {k}
     /\ queue' = Append(queue, k) /\ pc' \in Signalled(pc)

\* a key is queued and nobody is woken,
AddWithoutSignal(k) ==
  \/ (shuttingDown \/ k \in dirty) /\ UNCHANGED <<queue, dirty, pc>>
  \/ /\ ~shuttingDown /\ k \notin dirty
     /\ dirty' = dirty \cup {k}
     /\ queue' = IF k \in processing THEN queue ELSE Append(queue, k)
     /\ UNCHANGED pc

\* the sleeping workers are not told to end.
ShutDownWithoutBroadcast ==
  /\ ~shuttingDown
  /\ shuttingDown' = TRUE
  /\ UNCHANGED <<queue, dirty, processing, delayVars, objVars, workerVars>>

\* Type.Add
Add(k) ==
  \/ /\ shuttingDown \/ k \in dirty
     /\ UNCHANGED <<queue, dirty, pc>>
  \/ /\ ~shuttingDown /\ k \notin dirty
     /\ dirty' = dirty \cup {k}
     /\ IF k \in processing
        THEN UNCHANGED <<queue, pc>>
        ELSE queue' = Append(queue, k) /\ pc' \in Signalled(pc)

\* Type.Done, called by worker w, which goes on to its next Get
Done(w) ==
  LET k == item[w]
      p == [pc EXCEPT ![w] = "get"]
  IN  /\ pc[w] = "done"
      /\ processing' = processing \ {k}
      /\ IF k \in dirty
         THEN queue' = Append(queue, k) /\ pc' \in Signalled(p)
         ELSE pc' = p /\ UNCHANGED queue
      /\ UNCHANGED <<dirty, shuttingDown, delayVars, objVars, item, seen, fails>>

\* Type.Get with an item to hand out
Get(w) ==
  /\ pc[w] = "get" /\ queue # <<>>
  /\ item' = [item EXCEPT ![w] = Head(queue)]
  /\ queue' = Tail(queue)
  /\ processing' = processing \cup {Head(queue)}
  /\ dirty' = dirty \ {Head(queue)}
  /\ pc' = [pc EXCEPT ![w] = "read"]
  /\ UNCHANGED <<shuttingDown, delayVars, objVars, seen, fails>>

\* Type.Get with nothing to hand out: sleep, or end when shutting down
GetNothing(w) ==
  /\ pc[w] = "get" /\ queue = <<>>
  /\ pc' = [pc EXCEPT ![w] = IF shuttingDown THEN "exited" ELSE "blocked"]
  /\ UNCHANGED <<queueVars, delayVars, objVars, item, seen, fails>>

\* Type.ShutDown through delayingType.ShutDown: Broadcast wakes every worker
ShutDown ==
  /\ ~shuttingDown
  /\ shuttingDown' = TRUE
  /\ pc' = [w \in Workers |-> IF pc[w] = "blocked" THEN "get" ELSE pc[w]]
  /\ UNCHANGED <<queue, dirty, processing, delayVars, objVars, item, seen, fails>>

-----------------------------------------------------------------------------
(* delayingType *)

\* AddAfter with a positive delay: dropped when shutting down, and blocked
\* (not enabled) while the channel is full.
AddAfter(k) ==
  \/ shuttingDown /\ UNCHANGED addCh
  \/ ~shuttingDown /\ Len(addCh) < ChanCap /\ addCh' = Append(addCh, k)

\* waitingLoop takes a request whose time has not come: one entry per key
WaitEntry ==
  /\ ~shuttingDown /\ addCh # <<>>
  /\ addCh' = Tail(addCh)
  /\ waiting' = waiting \cup {Head(addCh)}
  /\ UNCHANGED <<queueVars, objVars, workerVars>>

\* waitingLoop takes a request whose time has come already
AddReceived ==
  /\ ~shuttingDown /\ addCh # <<>>
  /\ addCh' = Tail(addCh)
  /\ Add(Head(addCh))
  /\ UNCHANGED <<processing, shuttingDown, waiting, objVars, item, seen, fails>>

\* waitingLoop pops a ready entry from its heap
AddReady(k) ==
  /\ ~shuttingDown /\ k \in waiting
  /\ waiting' = waiting \ {k}
  /\ Add(k)
  /\ UNCHANGED <<processing, shuttingDown, addCh, objVars, item, seen, fails>>

-----------------------------------------------------------------------------
(* generic.Controller *)

\* The informer stores a new version; its listener calls handleObject later.
InformerUpdate(k) ==
  /\ store[k] < MaxVersion
  /\ store' = [store EXCEPT ![k] = @ + 1]
  /\ UNCHANGED <<queueVars, delayVars, notified, applied, workerVars>>

\* Faulty variants: the listener announces a change twice, a failed run is not
\* tried again.
HandleObjectTwice(k) ==
  /\ notified[k] <= store[k]
  /\ notified' = [notified EXCEPT ![k] = @ + 1]
  /\ AddAfter(k)
  /\ UNCHANGED <<queueVars, waiting, store, applied, workerVars>>

HandlerErrorForgotten(w) ==
  /\ pc[w] = "handle" /\ fails < MaxFails
  /\ fails' = fails + 1
  /\ pc' = [pc EXCEPT ![w] = "done"]
  /\ UNCHANGED <<queueVars, delayVars, objVars, item, seen>>

HandleObject(k) ==
  /\ notified[k] < store[k]
  /\ notified' = [notified EXCEPT ![k] = @ + 1]
  /\ AddAfter(k)
  /\ UNCHANGED <<queueVars, waiting, store, applied, workerVars>>

\* Controller.Enqueue, which the controller's ticker calls
Enqueue(k) ==
  /\ AddAfter(k)
  /\ UNCHANGED <<queueVars, waiting, objVars, workerVars>>

\* syncHandler reads the object from the informer's store ...
SyncHandler(w) ==
  /\ pc[w] = "read"
  /\ seen' = [seen EXCEPT ![w] = store[item[w]]]
  /\ pc' = [pc EXCEPT ![w] = "handle"]
  /\ UNCHANGED <<queueVars, delayVars, objVars, item, fails>>

\* ... and the handlers return without an error (Forget) ...
HandlerOK(w) ==
  /\ pc[w] = "handle"
  /\ applied' = [applied EXCEPT ![item[w]] = seen[w]]
  /\ pc' = [pc EXCEPT ![w] = "done"]
  /\ UNCHANGED <<queueVars, delayVars, store, notified, item, seen, fails>>

\* ... or with one: AddRateLimited comes before the deferred Done.
HandlerError(w) ==
  /\ pc[w] = "handle" /\ fails < MaxFails
  /\ fails' = fails + 1
  /\ AddAfter(item[w])
  /\ pc' = [pc EXCEPT ![w] = "done"]
  /\ UNCHANGED <<queueVars, waiting, objVars, item, seen>>

\* The end of a process whose queue was shut down
AllExited == \A w \in Workers : pc[w] = "exited"
Terminated == AllExited /\ UNCHANGED vars

WorkerStep(w) == \/ Get(w) \/ GetNothing(w) \/ Done(w)
                 \/ SyncHandler(w) \/ HandlerOK(w) \/ HandlerError(w)

Next ==
  \/ \E w \in Workers : \/ Get(w) \/ GetNothing(w) \/ Done(w)
                        \/ SyncHandler(w) \/ HandlerOK(w) \/ HandlerError(w)
  \/ \E k \in Keys : \/ InformerUpdate(k) \/ HandleObject(k)
                     \/ Enqueue(k) \/ AddReady(k)
  \/ WaitEntry
  \/ AddReceived
  \/ ShutDown
  \/ Terminated

\* The scheduler runs every goroutine that can run; delays end.  Nothing
\* obliges the environment to change objects, to tick or to shut down.
Fairness ==
  /\ \A w \in Workers : WF_vars(WorkerStep(w))
  /\ \A k \in Keys : WF_vars(HandleObject(k)) /\ WF_vars(AddReady(k))
  /\ WF_vars(WaitEntry \/ AddReceived)

Spec == Init /\ [][Next]_vars /\ Fairness
-----------------------------------------------------------------------------
(* Properties *)

\* "Every element of queue should be in the dirty set and not in the
\* processing set" (queue.go:66-68), and conversely a dirty key that is not
\* being processed is in the queue, exactly once: Add and Done share the work
\* of keeping this, and a key that falls between them is never run again.
QueueHoldsDirty ==
  /\ Range(queue) = dirty \ processing
  /\ \A i, j \in DOMAIN queue : queue[i] = queue[j] => i = j

\* Get, Add and Done never let two workers run the handlers for one key at the
\* same time, and processing is exactly what the busy workers hold.
OneWorkerPerKey ==
  /\ processing = {item[w] : w \in {v \in Workers : pc[v] \in Busy}}
  /\ \A v, w \in Workers :
       pc[v] \in Busy /\ pc[w] \in Busy /\ item[v] = item[w] => v = w

\* A change that no handler has accepted is still on its way: the listener has
\* to announce it, or a request for the key is in the channel, in the heap or
\* in the dirty set, or a worker is about to read it or has read it.  A change
\* made while the key is being processed, and a run that ended in an error,
\* are the cases that lose it.
Requested(k) == notified[k] < store[k] \/ k \in Range(addCh) \cup waiting \cup dirty
OnItsWay(k) ==
  \/ Requested(k)
  \/ \E w \in Workers : /\ item[w] = k
                        /\ \/ pc[w] = "read"
                           \/ pc[w] = "handle" /\ seen[w] = store[k]
NoLostUpdate ==
  \A k \in Keys : applied[k] # store[k] /\ ~shuttingDown => OnItsWay(k)

\* Signal wakes one worker per appended key: while a worker sleeps in Get there
\* are at least as many awake workers in Get as there are keys to hand out.
NoLostSignal ==
  (\E w \in Workers : pc[w] = "blocked") =>
    Len(queue) <= Cardinality({w \in Workers : pc[w] = "get"})

\* The handlers of a key never go back to an older version of its object: a
\* worker that read the store long ago cannot finish after one that read it
\* later.
NeverBackwards == [][\A k \in Keys : applied'[k] >= applied[k]]_vars

\* Whatever happens between the informer and the workers, the handlers end up
\* having accepted the latest version of every object, unless the process
\* shuts down.
EventuallySynced ==
  <>[](shuttingDown \/ \A k \in Keys : applied[k] = store[k])

\* After ShutDown the workers drain the queue and end ("As soon as the worker
\* goroutines have drained the existing items in the queue, they will be
\* instructed to exit", queue.go:178-180); none sleeps for ever in Get.
ShutdownDrains == shuttingDown ~> (AllExited /\ queue = <<>>)

\* The queue implements the abstract one: a key is pending from the moment the
\* informer stores a change or a request is made until a worker takes it.
PW == INSTANCE PendingWork WITH
  pending <- dirty \cup waiting \cup Range(addCh)
               \cup {k \in Keys : notified[k] < store[k]},
  running <- processing,
  open    <- ~shuttingDown

\* Every step of the queue is a step of PendingWork, or leaves it alone.
ImplementsPendingWork == PW!Init /\ [][PW!Next]_(PW!vars)

\* The two promises of PendingWork's fairness: a request is taken by a run
\* while the queue is open, and a run ends.
KeepsPendingWorkPromises == PW!RequestsAreTaken /\ PW!RunsEnd

-----------------------------------------------------------------------------
(* The inductive invariant behind QueueHoldsDirty, OneWorkerPerKey,         *)
(* NoLostUpdate and NeverBackwards                                          *)

\* Versions only grow on their way from the store through a run to applied.
VersionsInOrder ==
  /\ \A k \in Keys : notified[k] <= store[k] /\ applied[k] <= store[k]
  /\ \A w \in Workers : pc[w] = "handle" =>
       applied[item[w]] <= seen[w] /\ seen[w] <= store[item[w]]

\* A change that came after a worker read the store has a request of its own.
LateChangeRequested ==
  \A w \in Workers :
    pc[w] = "handle" /\ seen[w] # store[item[w]] /\ ~shuttingDown => Requested(item[w])

\* One worker per key is what lets the run of a key be judged alone: what it
\* has read is at least what was applied before, and newer changes are behind it.
IInv == /\ QueueHoldsDirty /\ OneWorkerPerKey /\ VersionsInOrder
        /\ LateChangeRequested /\ NoLostUpdate
=============================================================================
