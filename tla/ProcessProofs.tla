----------------------------- MODULE ProcessProofs -----------------------------
(***************************************************************************)
(* Proofs about Process for any keys and bounds.                           *)
(***************************************************************************)
EXTENDS Process, TLAPS

-----------------------------------------------------------------------------
(* Type correctness of the informers *)

\* A list gives every object the version of one of the writes it saw.
LEMMA ListType ==
  ASSUME NEW t, NEW v \in Nat
  PROVE  List(t, v) \in Caches
<1>1. ASSUME NEW k \in Keys PROVE Living(t, k, v) \subseteq Nat
  BY DEF Living, WritesOf
<1>2. ASSUME NEW k \in Keys, Living(t, k, v) # {}
      PROVE  (CHOOSE i \in Living(t, k, v) : TRUE) \in Nat
  BY <1>1, <1>2
<1> QED
  BY <1>2 DEF List, Caches

\* An informer that is made has the type that was asked for and is not started.
LEMMA DefaultInformerType ==
  ASSUME NEW t \in Types
  PROVE  /\ DefaultInformer(t) \in Informers
         /\ DefaultInformer(t).phase = "new"
<1>1. t \in {"GitWatcher", "GitCommit", "Secret"}
  BY DEF Types, Kinds
<1>2. NewInformer(t) \in Informers /\ NewInformer(t).phase = "new"
  BY DEF NewInformer, NoInformer, Informers, Caches, Empty
<1>3. DefaultInformer(t) = NewInformer(t)
  BY <1>1 DEF DefaultInformer, GitWatcherInformer, GitCommitInformer, SecretInformer
<1> QED
  BY <1>2, <1>3

LEMMA NoInformersType == NoInformers \in [Types -> Informers]
BY DEF NoInformers, NoInformer, Informers, Caches, Empty

\* What Fill makes of the informer it fills
LEMMA FilledInformer ==
  ASSUME NEW i \in Informers, NEW cache \in Caches, NEW version \in Nat,
         NEW j, j = [i EXCEPT !.phase = "watch", !.filled = TRUE,
                              !.cache = cache, !.version = version]
  PROVE  /\ j \in Informers
         /\ j.phase = "watch" /\ j.filled
BY DEF Informers

LEMMA FillType ==
  ASSUME InformersTypeInv, NEW t \in Types, NEW cache \in Caches, NEW version \in Nat,
         Fill(t, cache, version)
  PROVE  /\ InformersTypeInv'
         /\ \A s \in Types : s # t => informers'[s] = informers[s]
         /\ informers'[t].phase = "watch" /\ informers'[t].filled
<1> USE DEF InformersTypeInv
<1>1. PICK j : j = [informers[t] EXCEPT !.phase = "watch", !.filled = TRUE,
                                        !.cache = cache, !.version = version]
  OBVIOUS
<1>2. informers' = [informers EXCEPT ![t] = j]
  BY <1>1 DEF Fill
<1>3. j \in Informers /\ j.phase = "watch" /\ j.filled
  <2>1. informers[t] \in Informers
    OBVIOUS
  <2> QED
    BY <1>1, <2>1, FilledInformer
<1>4. due' \in [Kinds -> SUBSET Keys]
  <2>1. CASE t \in Kinds
    <3>1. PICK ks \in SUBSET Keys : due' = [due EXCEPT ![t] = @ \cup ks]
      BY <2>1 DEF Fill, Announce
    <3> QED
      BY <2>1, <3>1
  <2>2. CASE t \notin Kinds
    BY <2>2 DEF Fill, Announce
  <2> QED
    BY <2>1, <2>2
<1> QED
  BY <1>2, <1>3, <1>4 DEF Fill

\* A list, an event of the watch and its end: the informer stays one that was
\* started, and one that was filled stays filled.
LEMMA InformerStep ==
  ASSUME InformersTypeInv, NEW t \in Types, ListFunc(t) \/ WatchFunc(t) \/ WatchEnds(t)
  PROVE  /\ InformersTypeInv'
         /\ \A s \in Types : s # t => informers'[s] = informers[s]
         /\ informers[t].phase \in {"list", "watch"}
         /\ informers'[t].phase \in {"list", "watch"}
         /\ informers[t].filled => informers'[t].filled
<1>1. CASE ListFunc(t)
  <2>1. PICK v \in {0} \cup Watched(informers[t].type, 0) :
          Fill(t, List(informers[t].type, v), v)
    BY <1>1 DEF ListFunc
  <2>2. v \in Nat
    BY DEF Watched, InformersTypeInv
  <2>3. List(informers[t].type, v) \in Caches
    BY <2>2, ListType
  <2> QED
    BY <1>1, <2>1, <2>2, <2>3, FillType DEF ListFunc
<1>2. CASE WatchFunc(t)
  <2>1. PICK v \in Watched(informers[t].type, informers[t].version) :
          Fill(t, [informers[t].cache EXCEPT ![log[v].key] = IF log[v].live THEN v ELSE 0], v)
    BY <1>2 DEF WatchFunc
  <2>2. v \in 1 .. Len(log)
    BY DEF Watched, InformersTypeInv, Informers
  <2>3. log[v].key \in Keys /\ v \in Nat
    <3>1. log[v] \in Writes
      BY <2>2 DEF InformersTypeInv
    <3> QED
      BY <2>2, <3>1 DEF Writes
  <2>4. informers[t].cache \in Caches
    BY DEF InformersTypeInv, Informers
  <2>5. [informers[t].cache EXCEPT ![log[v].key] = IF log[v].live THEN v ELSE 0] \in Caches
    BY <2>3, <2>4 DEF Caches
  <2> QED
    BY <1>2, <2>1, <2>3, <2>5, FillType DEF WatchFunc
<1>3. CASE WatchEnds(t)
  <2>1. PICK j : j = [informers[t] EXCEPT !.phase = "list"]
    OBVIOUS
  <2>2. j \in Informers /\ j.phase = "list" /\ j.filled = informers[t].filled
    BY <2>1 DEF InformersTypeInv, Informers
  <2>3. informers' = [informers EXCEPT ![t] = j]
    BY <1>3, <2>1 DEF WatchEnds
  <2> QED
    BY <1>3, <2>2, <2>3 DEF WatchEnds, InformersTypeInv
<1> QED
  BY <1>1, <1>2, <1>3
-----------------------------------------------------------------------------
(* Type correctness of the process *)

LEMMA AsksFacts ==
  /\ DOMAIN Asks = {"main", "leader"}
  /\ \A g \in DOMAIN Asks : Len(Asks[g]) \in 0 .. 3
  /\ \A g \in DOMAIN Asks : \A i \in 1 .. Len(Asks[g]) : Asks[g][i] \in Types
  /\ Len(RegisterAsks) = 3 /\ Asks.leader = RegisterAsks
  /\ \A t \in Types : \E i \in 1 .. 3 : RegisterAsks[i] = t
<1>1. /\ HandleHooksAsks = <<"Secret", "GitWatcher">>
      /\ RegisterAsks = <<"Secret", "GitWatcher", "GitCommit">>
  BY DEF HandleHooksAsks, RegisterAsks
<1>2. /\ DOMAIN Asks = {"main", "leader"}
      /\ Asks["main"] = HandleHooksAsks /\ Asks["leader"] = RegisterAsks
  BY DEF Asks
<1>3. Types = {"GitWatcher", "GitCommit", "Secret"}
  BY DEF Types, Kinds
<1> QED
  BY <1>1, <1>2, <1>3

LEMMA InformersInit ==
  /\ NoInformers \in [Types -> Informers]
  /\ NothingDue \in [Kinds -> SUBSET Keys]
  /\ Untold \in [Kinds -> Caches]
BY NoInformersType DEF NothingDue, Untold, Empty, Caches

\* A process starts, and is left when it has ended, with nothing made or begun.
LEMMA NewProcessFacts ==
  ASSUME NEW p \in {NewProcess, [NewProcess EXCEPT !.alive = FALSE]}
  PROVE  /\ p \in Processes
         /\ p.leader = "none" /\ p.elector = "acquire"
         /\ p.running = {} /\ p.controllers = {} /\ p.syncing = Unsynced
         /\ \A g \in DOMAIN Asks : p.asked[g] = 0
<1> DEFINE D == DOMAIN Asks
           a == [g \in D |-> 0]
<1>1. Unsynced \in [Factories -> {"start", "wait", "ok"}]
  BY DEF Unsynced
<1>2. a \in [D -> 0 .. 3] /\ \A g \in D : a[g] = 0
  OBVIOUS
<1>3. NewProcess = [alive |-> TRUE, done |-> FALSE, elector |-> "acquire", leader |-> "none",
                    asked |-> a, syncing |-> Unsynced, controllers |-> {}, running |-> {}]
  BY DEF NewProcess
<1> HIDE DEF a, D
<1>4. NewProcess \in [alive : BOOLEAN, done : BOOLEAN,
             elector : {"acquire", "renew", "stopped"},
             leader : {"none", "register", "sync", "webhook", "core", "work"},
             asked : [D -> 0 .. 3],
             syncing : [Factories -> {"start", "wait", "ok"}],
             controllers : SUBSET Kinds, running : SUBSET Kinds]
  BY <1>1, <1>2, <1>3
<1>5. /\ NewProcess.leader = "none" /\ NewProcess.elector = "acquire"
      /\ NewProcess.running = {} /\ NewProcess.controllers = {} /\ NewProcess.asked = a
      /\ NewProcess.syncing = Unsynced
  BY <1>3
<1>6. NewProcess \in Processes
  BY <1>4 DEF Processes, D
<1> HIDE DEF NewProcess
<1>7. /\ p \in Processes
      /\ p.leader = "none" /\ p.elector = "acquire"
      /\ p.running = {} /\ p.controllers = {} /\ p.asked = a /\ p.syncing = Unsynced
  BY <1>5, <1>6 DEF Processes
<1> QED
  BY <1>2, <1>7 DEF D

LEMMA InitType == Init => TypeInv
<1> SUFFICES ASSUME Init PROVE TypeInv
  OBVIOUS
<1>1. log \in Seq(Writes)
  BY DEF Init
<1>2. proc \in Processes /\ proc.running \subseteq proc.controllers
  BY NewProcessFacts DEF Init
<1> QED
  BY <1>1, <1>2, InformersInit DEF Init, TypeInv, InformersTypeInv

LEMMA EndType ==
  ASSUME TypeInv, End, lock' \in {"free", "ours", "theirs"}, stops' \in Nat
  PROVE  TypeInv'
<1>1. proc' \in Processes /\ proc'.running \subseteq proc'.controllers
  BY NewProcessFacts DEF End
<1> QED
  BY <1>1, InformersInit DEF End, TypeInv, InformersTypeInv

LEMMA AskType ==
  ASSUME TypeInv, NEW g \in DOMAIN Asks, Ask(g)
  PROVE  TypeInv'
<1> DEFINE t == Asks[g][proc.asked[g] + 1]
<1>1. proc \in Processes /\ proc.asked[g] \in 0 .. 3
  BY DEF TypeInv, Processes
<1>2. t \in Types /\ proc.asked[g] + 1 \in 0 .. 3
  BY <1>1, AsksFacts DEF Ask
<1> HIDE DEF t
<1>3. informers' \in [Types -> Informers]
  <2>1. DefaultInformer(t) \in Informers
    BY <1>2, DefaultInformerType
  <2>2. informers' = IF informers[t].phase = "none"
                     THEN [informers EXCEPT ![t] = DefaultInformer(t)] ELSE informers
    BY DEF Ask, InformerFor, t
  <2> QED
    BY <1>2, <2>1, <2>2 DEF TypeInv, InformersTypeInv
<1>4. proc' \in Processes /\ proc'.running = proc.running /\ proc'.controllers = proc.controllers
  <2>1. PICK n \in 0 .. 3 : n = proc.asked[g] + 1
    BY <1>2
  <2>2. proc' = [proc EXCEPT !.asked = [@ EXCEPT ![g] = n]]
    BY <2>1 DEF Ask
  <2>3. [proc.asked EXCEPT ![g] = n] \in [DOMAIN Asks -> 0 .. 3]
    BY <1>1 DEF Processes
  <2> QED
    BY <1>1, <2>2, <2>3 DEF Processes
<1> QED
  BY <1>3, <1>4 DEF Ask, TypeInv, InformersTypeInv

LEMMA OnChangeType == TypeInv /\ OnChange => TypeInv'
<1> SUFFICES ASSUME TypeInv, OnChange PROVE TypeInv'
  OBVIOUS
<1>1. proc' \in Processes /\ proc'.running \subseteq proc'.controllers
  BY DEF TypeInv, OnChange, Processes
<1> QED
  BY <1>1 DEF OnChange, apiVars, TypeInv, InformersTypeInv

LEMMA FactoryStartType ==
  ASSUME TypeInv, NEW f \in Factories, FactoryStart(f)
  PROVE  TypeInv'
<1>1. proc' \in Processes /\ proc'.running \subseteq proc'.controllers
  <2>1. PICK y : y = [proc.syncing EXCEPT ![f] = "wait"]
    OBVIOUS
  <2>2. proc' = [proc EXCEPT !.syncing = y]
    BY <2>1 DEF FactoryStart
  <2>3. y \in [Factories -> {"start", "wait", "ok"}]
    BY <2>1 DEF TypeInv, Processes
  <2> QED
    BY <2>2, <2>3 DEF TypeInv, Processes
<1>2. informers' \in [Types -> Informers]
  <2>1. ASSUME NEW i \in Informers PROVE [i EXCEPT !.phase = "list"] \in Informers
    BY DEF Informers
  <2> QED
    BY <2>1 DEF FactoryStart, TypeInv, InformersTypeInv
<1> QED
  BY <1>1, <1>2 DEF FactoryStart, TypeInv, InformersTypeInv

LEMMA WaitForCacheSyncType ==
  ASSUME TypeInv, NEW f \in Factories, WaitForCacheSync(f)
  PROVE  TypeInv'
<1>1. proc' \in Processes /\ proc'.running \subseteq proc'.controllers
  <2>1. PICK y : y = [proc.syncing EXCEPT ![f] = "ok"]
    OBVIOUS
  <2>2. proc' = [proc EXCEPT !.syncing = y]
    BY <2>1 DEF WaitForCacheSync
  <2>3. y \in [Factories -> {"start", "wait", "ok"}]
    BY <2>1 DEF TypeInv, Processes
  <2> QED
    BY <2>2, <2>3 DEF TypeInv, Processes
<1> QED
  BY <1>1 DEF WaitForCacheSync, apiVars, TypeInv, InformersTypeInv

LEMMA StartControllerType ==
  ASSUME TypeInv, NEW t \in Kinds, StartController(t)
  PROVE  TypeInv'
<1>1. CASE End
  BY <1>1, EndType DEF StartController, TypeInv
<1>2. CASE ~End
  <2>1. proc' = [proc EXCEPT !.running = @ \cup {t}] /\ UNCHANGED <<apiVars, told>>
    BY <1>2 DEF StartController
  <2>2. proc' \in Processes /\ proc'.running \subseteq proc'.controllers
    BY <2>1 DEF StartController, TypeInv, Processes
  <2> QED
    BY <2>1, <2>2 DEF StartController, apiVars, TypeInv, InformersTypeInv
<1> QED
  BY <1>1, <1>2

LEMMA StartAllType == TypeInv /\ StartAll => TypeInv'
<1> SUFFICES ASSUME TypeInv, StartAll PROVE TypeInv'
  OBVIOUS
<1>1. proc' \in Processes /\ proc'.running \subseteq proc'.controllers
  <2>1. PICK l \in {"webhook", "core", "work"} : l = NextPhase(proc.leader)
    BY DEF StartAll, NextPhase
  <2>2. proc' = [proc EXCEPT !.leader = l, !.syncing = Unsynced]
    BY <2>1 DEF StartAll
  <2>3. Unsynced \in [Factories -> {"start", "wait", "ok"}]
    BY DEF Unsynced
  <2> QED
    BY <2>1, <2>2, <2>3 DEF TypeInv, Processes
<1> QED
  BY <1>1 DEF StartAll, apiVars, TypeInv, InformersTypeInv

LEMMA HandleType ==
  ASSUME TypeInv, NEW t \in Kinds, Handle(t)
  PROVE  TypeInv'
<1>1. PICK k \in due[t] : /\ due' = [due EXCEPT ![t] = @ \ {k}]
                          /\ told' = [told EXCEPT ![t][k] = CacheGet(t, k)]
  BY DEF Handle
<1>2. k \in Keys /\ due' \in [Kinds -> SUBSET Keys]
  BY <1>1 DEF TypeInv, InformersTypeInv
<1>3. told' \in [Kinds -> Caches]
  <2>1. informers[t] \in Informers
    BY DEF TypeInv, InformersTypeInv, Types
  <2>2. PICK n \in Nat : n = CacheGet(t, k)
    BY <1>2, <2>1 DEF CacheGet, Informers, Caches
  <2>3. [told[t] EXCEPT ![k] = n] \in Caches
    BY <1>2 DEF TypeInv, Caches
  <2> QED
    BY <1>1, <2>2, <2>3 DEF TypeInv
<1> QED
  BY <1>2, <1>3 DEF Handle, TypeInv, InformersTypeInv

LEMMA TickType == TypeInv /\ Tick => TypeInv'
<1> SUFFICES ASSUME TypeInv, Tick PROVE TypeInv'
  OBVIOUS
<1>1. PICK ks \in SUBSET CacheList("GitWatcher") : Enqueue("GitWatcher", ks)
  BY DEF Tick
<1>2. due' \in [Kinds -> SUBSET Keys]
  BY <1>1 DEF Enqueue, CacheList, TypeInv, InformersTypeInv
<1> QED
  BY <1>2 DEF Tick, TypeInv, InformersTypeInv

LEMMA WriteType == TypeInv /\ Write => TypeInv'
<1> SUFFICES ASSUME TypeInv, NEW t \in Kinds, Call(t), UNCHANGED <<lock, proc, told, stops>>
             PROVE  TypeInv'
  BY DEF Write, GitWatchersCall, GitCommitsCall, Kinds
<1>1. log' \in Seq(Writes)
  <2>1. PICK w \in Writes : log' = Append(log, w)
    BY DEF Call, Writes
  <2> QED
    BY <2>1 DEF TypeInv, InformersTypeInv
<1> QED
  BY <1>1 DEF Call, TypeInv, InformersTypeInv

LEMMA ElectorType ==
  ASSUME TypeInv, Acquire \/ StopRenewing \/ StoppedLeading \/ Signal \/ Restart \/ Others
  PROVE  TypeInv'
<1>1. CASE Acquire
  <2>1. proc' \in Processes /\ proc'.running \subseteq proc'.controllers
    BY <1>1 DEF Acquire, TypeInv, Processes
  <2> QED
    BY <1>1, <2>1 DEF Acquire, apiVars, TypeInv, InformersTypeInv
<1>2. CASE StopRenewing
  <2>1. proc' \in Processes /\ proc'.running \subseteq proc'.controllers
    BY <1>2 DEF StopRenewing, TypeInv, Processes
  <2>2. stops' \in Nat
    BY <1>2 DEF StopRenewing, TypeInv
  <2> QED
    BY <1>2, <2>1, <2>2 DEF StopRenewing, apiVars, TypeInv, InformersTypeInv
<1>3. CASE StoppedLeading
  BY <1>3, EndType DEF StoppedLeading, TypeInv
<1>4. CASE Signal
  <2>1. stops' \in Nat /\ lock' \in {"free", "ours", "theirs"}
    BY <1>4 DEF Signal, TypeInv
  <2>2. CASE End
    BY <2>1, <2>2, EndType
  <2>3. CASE ~End
    <3>1. proc' = [proc EXCEPT !.done = TRUE] /\ UNCHANGED <<apiVars, told>>
      BY <1>4, <2>3 DEF Signal
    <3>2. proc' \in Processes /\ proc'.running \subseteq proc'.controllers
      BY <3>1 DEF TypeInv, Processes
    <3> QED
      BY <2>1, <3>1, <3>2 DEF apiVars, TypeInv, InformersTypeInv
  <2> QED
    BY <2>2, <2>3
<1>5. CASE Restart
  <2>1. proc' \in Processes /\ proc'.running \subseteq proc'.controllers
    BY <1>5, NewProcessFacts DEF Restart
  <2> QED
    BY <1>5, <2>1 DEF Restart, apiVars, TypeInv, InformersTypeInv
<1>6. CASE Others
  BY <1>6 DEF Others, apiVars, TypeInv, InformersTypeInv
<1> QED
  BY <1>1, <1>2, <1>3, <1>4, <1>5, <1>6

LEMMA NextType == TypeInv /\ [Next]_vars => TypeInv'
<1> SUFFICES ASSUME TypeInv, [Next]_vars PROVE TypeInv'
  OBVIOUS
<1>1. CASE HandleHooks \/ Register
  BY <1>1, AskType, AsksFacts DEF HandleHooks, Register
<1>2. CASE OnChange \/ StartAll
  BY <1>2, OnChangeType, StartAllType
<1>3. CASE \E f \in Factories : FactoryStart(f) \/ WaitForCacheSync(f)
  BY <1>3, FactoryStartType, WaitForCacheSyncType
<1>4. CASE \E t \in Kinds : StartController(t) \/ Handle(t)
  BY <1>4, StartControllerType, HandleType
<1>5. CASE \E t \in Types : Informer(ListFunc(t) \/ WatchFunc(t) \/ WatchEnds(t))
  <2>1. PICK t \in Types : Informer(ListFunc(t) \/ WatchFunc(t) \/ WatchEnds(t))
    BY <1>5
  <2>2. InformersTypeInv'
    BY <2>1, InformerStep DEF Informer, TypeInv
  <2> QED
    BY <2>1, <2>2 DEF Informer, TypeInv
<1>6. CASE Tick \/ Write
  BY <1>6, TickType, WriteType
<1>7. CASE Acquire \/ StopRenewing \/ StoppedLeading \/ Signal \/ Restart \/ Others
  BY <1>7, ElectorType
<1>8. CASE UNCHANGED vars
  BY <1>8 DEF vars, apiVars, TypeInv, InformersTypeInv
<1> QED
  BY <1>1, <1>2, <1>3, <1>4, <1>5, <1>6, <1>7, <1>8 DEF Next

\* Every variable of the process, its informers and the API server keeps its type.
THEOREM TypeCorrect == Spec => []TypeInv
<1> QED
  BY InitType, NextType, PTL DEF Spec

-----------------------------------------------------------------------------
(* The start *)

Begun == {"webhook", "core", "work"}   \* both factories were synced once
FactoryStarted(f) == proc.leader \in Begun \/ (proc.leader = "sync" /\ proc.syncing[f] # "start")
FactorySynced(f) == proc.leader \in Begun \/ (proc.leader = "sync" /\ proc.syncing[f] = "ok")

\* Every informer that was asked for is there, and the leader asks for all of them
\* before it starts the factories: so a factory that was started left none behind.
AllAsked ==
  /\ proc.leader \in {"none", "register"} \/ proc.asked.leader = Len(RegisterAsks)
  /\ \A g \in DOMAIN Asks :
       /\ proc.asked[g] <= Len(Asks[g])
       /\ \A i \in 1 .. proc.asked[g] : informers[Asks[g][i]].phase # "none"
AllStarted ==
  \A f \in Factories :
    /\ proc.leader \in {"none", "register"} => proc.syncing[f] = "start"
    /\ FactoryStarted(f) => \A t \in TypesOf(f) : informers[t].phase \in {"list", "watch"}

\* A factory that was waited for is filled, or the context was cancelled, and then
\* no workers begin.
AllFilled ==
  \A f \in Factories : FactorySynced(f) /\ ~proc.done =>
    \A t \in TypesOf(f) : informers[t].filled
WorkersLast ==
  /\ proc.running # {} => proc.leader \in Begun /\ \A t \in Types : informers[t].filled
  /\ proc.elector = "acquire" => proc.leader = "none" /\ proc.running = {}

StartInv == AllAsked /\ AllStarted /\ AllFilled /\ WorkersLast

\* Informers go forward: none is taken away, stopped or emptied.
Forward ==
  \A t \in Types :
    /\ informers[t].phase # "none" => informers'[t].phase # "none"
    /\ informers[t].phase \in {"list", "watch"} =>
         /\ informers'[t].phase \in {"list", "watch"}
         /\ informers[t].filled => informers'[t].filled

LEMMA TypesFacts ==
  /\ Types = UNION {TypesOf(f) : f \in Factories}
  /\ \A f \in Factories : TypesOf(f) \subseteq Types
BY DEF Types, TypesOf, Factories

LEMMA StartInvInit == Init => StartInv
<1> SUFFICES ASSUME Init PROVE StartInv
  OBVIOUS
<1>1. /\ proc.leader = "none" /\ proc.elector = "acquire" /\ proc.running = {}
      /\ \A g \in DOMAIN Asks : proc.asked[g] = 0
      /\ \A f \in Factories : proc.syncing[f] = "start"
  BY NewProcessFacts DEF Init, Unsynced
<1> QED
  BY <1>1, AsksFacts DEF StartInv, AllAsked, AllStarted, AllFilled, WorkersLast,
              FactoryStarted, FactorySynced, Begun

\* A process that ended, or has just started, has begun nothing.
LEMMA StartInvNew ==
  ASSUME proc' \in {NewProcess, [NewProcess EXCEPT !.alive = FALSE]}
  PROVE  StartInv'
<1>1. /\ proc'.leader = "none" /\ proc'.elector = "acquire" /\ proc'.running = {}
      /\ \A g \in DOMAIN Asks : proc'.asked[g] = 0
      /\ \A f \in Factories : proc'.syncing[f] = "start"
  <2>1. PICK p \in {NewProcess, [NewProcess EXCEPT !.alive = FALSE]} : p = proc'
    OBVIOUS
  <2>2. /\ p.leader = "none" /\ p.elector = "acquire" /\ p.running = {}
        /\ p.syncing = Unsynced /\ \A g \in DOMAIN Asks : p.asked[g] = 0
    BY NewProcessFacts
  <2>3. \A f \in Factories : Unsynced[f] = "start"
    BY DEF Unsynced
  <2> QED
    BY <2>1, <2>2, <2>3
<1>2. AllAsked'
  BY <1>1, AsksFacts DEF AllAsked
<1>3. AllStarted' /\ AllFilled'
  BY <1>1 DEF AllStarted, AllFilled, FactoryStarted, FactorySynced, Begun
<1>4. WorkersLast'
  BY <1>1 DEF WorkersLast
<1> QED
  BY <1>2, <1>3, <1>4 DEF StartInv

\* Steps that leave the start alone and let informers go forward
LEMMA StartInvForward ==
  ASSUME TypeInv, StartInv, Forward,
         proc'.leader = proc.leader, proc'.asked = proc.asked, proc'.syncing = proc.syncing,
         proc'.running = proc.running, proc.done => proc'.done,
         proc'.elector = proc.elector \/ proc'.elector # "acquire"
  PROVE  StartInv'
<1>1. AllAsked'
  <2>1. ASSUME NEW g \in DOMAIN Asks, NEW i \in 1 .. proc.asked[g]
        PROVE  informers'[Asks[g][i]].phase # "none"
    <3>1. i \in 1 .. Len(Asks[g])
      BY AsksFacts DEF TypeInv, Processes, StartInv, AllAsked
    <3>2. Asks[g][i] \in Types /\ informers[Asks[g][i]].phase # "none"
      BY <3>1, AsksFacts DEF StartInv, AllAsked
    <3> QED
      BY <3>2 DEF Forward
  <2> QED
    BY <2>1 DEF StartInv, AllAsked
<1>2. AllStarted'
  BY TypesFacts DEF StartInv, AllStarted, FactoryStarted, Forward
<1>3. AllFilled'
  BY TypesFacts DEF StartInv, AllStarted, AllFilled, FactoryStarted, FactorySynced, Forward
<1>4. WorkersLast'
  BY TypesFacts DEF StartInv, AllStarted, WorkersLast, FactoryStarted, Forward
<1> QED
  BY <1>1, <1>2, <1>3, <1>4 DEF StartInv

LEMMA InformerForForward ==
  ASSUME TypeInv, NEW t \in Types, InformerFor(t)
  PROVE  Forward /\ informers'[t].phase # "none"
<1>1. DefaultInformer(t).phase = "new"
  BY DefaultInformerType
<1> QED
  BY <1>1 DEF InformerFor, Forward, TypeInv, InformersTypeInv

LEMMA StartInvAsk ==
  ASSUME TypeInv, StartInv, NEW g \in DOMAIN Asks, Ask(g),
         g = "leader" => proc.leader = "register"
  PROVE  StartInv'
<1> DEFINE n == proc.asked[g] + 1
<1>1. n \in 1 .. Len(Asks[g]) /\ proc.asked[g] \in 0 .. 3
  BY AsksFacts DEF Ask, TypeInv, Processes
<1>2. Forward /\ informers'[Asks[g][n]].phase # "none"
  BY <1>1, AsksFacts, InformerForForward DEF Ask
<1>3. /\ proc'.leader = proc.leader /\ proc'.syncing = proc.syncing
      /\ proc'.running = proc.running /\ proc'.done = proc.done
      /\ proc'.elector = proc.elector
      /\ proc'.asked = [proc.asked EXCEPT ![g] = n]
  BY DEF Ask, TypeInv, Processes
<1> HIDE DEF n
<1>4. AllAsked'
  <2>1. proc.asked \in [DOMAIN Asks -> 0 .. 3]
    BY DEF TypeInv, Processes
  <2>2. proc'.leader \in {"none", "register"} \/ proc'.asked.leader = Len(RegisterAsks)
    BY <1>3, <2>1, AsksFacts DEF StartInv, AllAsked
  <2>3. ASSUME NEW h \in DOMAIN Asks
        PROVE  /\ proc'.asked[h] <= Len(Asks[h])
               /\ \A i \in 1 .. proc'.asked[h] : informers'[Asks[h][i]].phase # "none"
    <3>1. proc'.asked[h] = IF h = g THEN n ELSE proc.asked[h]
      BY <1>3, <2>1
    <3>2. proc'.asked[h] <= Len(Asks[h])
      BY <1>1, <3>1, AsksFacts DEF StartInv, AllAsked
    <3>3. ASSUME NEW i \in 1 .. proc'.asked[h]
          PROVE  informers'[Asks[h][i]].phase # "none"
      <4>1. CASE h = g /\ i = n
        BY <1>2, <4>1
      <4>2. CASE ~(h = g /\ i = n)
        <5>1. i \in 1 .. proc.asked[h] /\ i \in 1 .. Len(Asks[h])
          BY <1>1, <2>1, <3>1, <3>2, <4>2, AsksFacts DEF n
        <5>2. Asks[h][i] \in Types /\ informers[Asks[h][i]].phase # "none"
          BY <5>1, AsksFacts DEF StartInv, AllAsked
        <5> QED
          BY <1>2, <5>2 DEF Forward
      <4> QED
        BY <4>1, <4>2
    <3> QED
      BY <3>2, <3>3
  <2> QED
    BY <2>2, <2>3 DEF AllAsked
<1>5. AllStarted'
  BY <1>2, <1>3, TypesFacts DEF StartInv, AllStarted, FactoryStarted, Forward
<1>6. AllFilled'
  BY <1>2, <1>3, TypesFacts
     DEF StartInv, AllStarted, AllFilled, FactoryStarted, FactorySynced, Forward
<1>7. WorkersLast'
  BY <1>2, <1>3, TypesFacts DEF StartInv, AllStarted, WorkersLast, FactoryStarted, Forward
<1> QED
  BY <1>4, <1>5, <1>6, <1>7 DEF StartInv

\* Before the factories are started every type has an informer.
LEMMA EveryTypeAsked ==
  ASSUME TypeInv, StartInv, proc.leader \notin {"none", "register"}, NEW t \in Types
  PROVE  informers[t].phase # "none"
<1>1. PICK i \in 1 .. 3 : RegisterAsks[i] = t
  BY AsksFacts
<1>2. i \in 1 .. proc.asked["leader"] /\ "leader" \in DOMAIN Asks
  BY AsksFacts DEF StartInv, AllAsked
<1> QED
  BY <1>1, <1>2, AsksFacts DEF StartInv, AllAsked

LEMMA StartInvOnChange == TypeInv /\ StartInv /\ OnChange => StartInv'
<1> SUFFICES ASSUME TypeInv, StartInv, OnChange PROVE StartInv'
  OBVIOUS
<1>1. /\ proc'.leader = "sync" /\ proc'.asked = proc.asked /\ proc'.syncing = proc.syncing
      /\ proc'.running = proc.running /\ proc'.done = proc.done
      /\ proc'.elector = proc.elector /\ informers' = informers
  BY DEF OnChange, TypeInv, Processes, apiVars
<1>2. proc.leader = "register" /\ proc.asked.leader = Len(RegisterAsks)
  BY DEF OnChange
<1>3. AllAsked'
  BY <1>1, <1>2 DEF StartInv, AllAsked
<1>4. AllStarted'
  BY <1>1, <1>2 DEF StartInv, AllStarted, FactoryStarted, Begun
<1>5. AllFilled'
  BY <1>1, <1>2 DEF StartInv, AllStarted, AllFilled, FactorySynced, Begun
<1>6. WorkersLast'
  BY <1>1, <1>2 DEF StartInv, WorkersLast, Begun
<1> QED
  BY <1>3, <1>4, <1>5, <1>6 DEF StartInv

\* The factory starts every informer of its types: each was asked for.
LEMMA StartInvFactoryStart ==
  ASSUME TypeInv, StartInv, NEW f \in Factories, FactoryStart(f)
  PROVE  StartInv'
<1>1. /\ proc'.leader = proc.leader /\ proc'.asked = proc.asked
      /\ proc'.running = proc.running /\ proc'.done = proc.done
      /\ proc'.elector = proc.elector
      /\ proc'.syncing = [proc.syncing EXCEPT ![f] = "wait"]
  BY DEF FactoryStart, TypeInv, Processes
<1>2. proc.leader \in {"sync", "webhook", "core"} /\ proc.syncing[f] = "start"
  BY DEF FactoryStart, Syncs
<1>3. ASSUME NEW t \in Types
      PROVE  /\ informers'[t].filled = informers[t].filled
             /\ informers'[t].phase = IF t \in TypesOf(f) /\ informers[t].phase = "new"
                                     THEN "list" ELSE informers[t].phase
  <2>1. informers[t] \in Informers
    BY DEF TypeInv, InformersTypeInv
  <2> QED
    BY <2>1 DEF FactoryStart, Informers
<1>4. Forward
  BY <1>3 DEF Forward
<1>5. \A t \in TypesOf(f) : informers'[t].phase \in {"list", "watch"}
  <2>1. ASSUME NEW t \in TypesOf(f) PROVE informers'[t].phase \in {"list", "watch"}
    <3>1. t \in Types /\ informers[t].phase # "none"
      BY <1>2, TypesFacts, EveryTypeAsked
    <3>2. informers[t].phase \in {"none", "new", "list", "watch"}
      BY <3>1 DEF TypeInv, InformersTypeInv, Informers
    <3> QED
      BY <1>3, <3>1, <3>2
  <2> QED
    BY <2>1
<1>6. \A h \in Factories : proc'.syncing[h] = IF h = f THEN "wait" ELSE proc.syncing[h]
  BY <1>1 DEF TypeInv, Processes
<1>7. AllAsked'
  <2>1. ASSUME NEW g \in DOMAIN Asks, NEW i \in 1 .. proc.asked[g]
        PROVE  informers'[Asks[g][i]].phase # "none"
    <3>1. i \in 1 .. Len(Asks[g])
      BY AsksFacts DEF TypeInv, Processes, StartInv, AllAsked
    <3>2. Asks[g][i] \in Types /\ informers[Asks[g][i]].phase # "none"
      BY <3>1, AsksFacts DEF StartInv, AllAsked
    <3> QED
      BY <1>4, <3>2 DEF Forward
  <2> QED
    BY <1>1, <2>1 DEF StartInv, AllAsked
<1>8. AllStarted'
  BY <1>1, <1>2, <1>4, <1>5, <1>6, TypesFacts
     DEF StartInv, AllStarted, FactoryStarted, Forward, Begun
<1>9. AllFilled'
  BY <1>1, <1>3, <1>6, TypesFacts DEF StartInv, AllFilled, FactorySynced, Begun
<1>10. WorkersLast'
  BY <1>1, <1>3 DEF StartInv, WorkersLast
<1> QED
  BY <1>7, <1>8, <1>9, <1>10 DEF StartInv

LEMMA StartInvWait ==
  ASSUME TypeInv, StartInv, NEW f \in Factories, WaitForCacheSync(f)
  PROVE  StartInv'
<1>1. /\ proc'.leader = proc.leader /\ proc'.asked = proc.asked
      /\ proc'.running = proc.running /\ proc'.done = proc.done
      /\ proc'.elector = proc.elector /\ informers' = informers
      /\ proc'.syncing = [proc.syncing EXCEPT ![f] = "ok"]
  BY DEF WaitForCacheSync, TypeInv, Processes, apiVars
<1>2. \A h \in Factories : proc'.syncing[h] = IF h = f THEN "ok" ELSE proc.syncing[h]
  BY <1>1 DEF TypeInv, Processes
<1>3. /\ proc.leader \in {"sync", "webhook", "core"} /\ proc.syncing[f] = "wait"
      /\ proc.done \/ Filled(f)
  BY DEF WaitForCacheSync, Syncs
<1>4. FactoryStarted(f)
  BY <1>3 DEF FactoryStarted, Begun
<1>5. AllAsked'
  BY <1>1 DEF StartInv, AllAsked
<1>6. AllStarted'
  BY <1>1, <1>2, <1>3, <1>4 DEF StartInv, AllStarted, FactoryStarted, Begun
<1>7. AllFilled'
  BY <1>1, <1>2, <1>3, <1>4 DEF StartInv, AllStarted, AllFilled, FactorySynced, Filled, Begun
<1>8. WorkersLast'
  BY <1>1 DEF StartInv, WorkersLast
<1> QED
  BY <1>5, <1>6, <1>7, <1>8 DEF StartInv

LEMMA StartInvStartController ==
  ASSUME TypeInv, StartInv, NEW t \in Kinds, StartController(t)
  PROVE  StartInv'
<1>1. CASE End
  BY <1>1, StartInvNew DEF End
<1>2. CASE ~End
  <2>1. /\ proc.leader = "webhook" /\ ~proc.done
        /\ proc' = [proc EXCEPT !.running = @ \cup {t}] /\ informers' = informers
    BY <1>2 DEF StartController, apiVars
  <2>2. /\ proc'.leader = proc.leader /\ proc'.asked = proc.asked
        /\ proc'.syncing = proc.syncing /\ proc'.done = proc.done
        /\ proc'.elector = proc.elector
    BY <2>1 DEF TypeInv, Processes
  <2>3. \A s \in Types : informers[s].filled
    BY <2>1, TypesFacts DEF StartInv, AllFilled, FactorySynced, Begun
  <2>4. AllAsked' /\ AllStarted' /\ AllFilled'
    BY <2>1, <2>2
       DEF StartInv, AllAsked, AllStarted, AllFilled, FactoryStarted, FactorySynced
  <2>5. WorkersLast'
    BY <2>1, <2>2, <2>3 DEF StartInv, WorkersLast, Begun
  <2> QED
    BY <2>4, <2>5 DEF StartInv
<1> QED
  BY <1>1, <1>2

LEMMA StartInvStartAll == TypeInv /\ StartInv /\ StartAll => StartInv'
<1> SUFFICES ASSUME TypeInv, StartInv, StartAll PROVE StartInv'
  OBVIOUS
<1>1. PICK l \in {"webhook", "core", "work"} : l = NextPhase(proc.leader)
  BY DEF StartAll, NextPhase
<1>2. /\ proc'.leader = l /\ proc'.asked = proc.asked /\ proc'.syncing = Unsynced
      /\ proc'.running = proc.running /\ proc'.done = proc.done
      /\ proc'.elector = proc.elector /\ informers' = informers
  BY <1>1 DEF StartAll, TypeInv, Processes, apiVars
<1>3. /\ proc.leader \in {"sync", "webhook", "core"}
      /\ \A f \in Factories : Syncs(f) => proc.syncing[f] = "ok"
  BY DEF StartAll
<1>4. \A f \in Factories : FactoryStarted(f) /\ FactorySynced(f)
  BY <1>3 DEF FactoryStarted, FactorySynced, Syncs, Begun
<1>5. AllAsked'
  BY <1>2, <1>3 DEF StartInv, AllAsked
<1>6. AllStarted'
  BY <1>2, <1>4 DEF StartInv, AllStarted
<1>7. AllFilled'
  BY <1>2, <1>4 DEF StartInv, AllFilled
<1>8. WorkersLast'
  BY <1>2, <1>3 DEF StartInv, WorkersLast, Begun
<1> QED
  BY <1>5, <1>6, <1>7, <1>8 DEF StartInv

LEMMA StartInvAcquire == TypeInv /\ StartInv /\ Acquire => StartInv'
<1> SUFFICES ASSUME TypeInv, StartInv, Acquire PROVE StartInv'
  OBVIOUS
<1>1. /\ proc'.leader = "register" /\ proc'.asked = proc.asked /\ proc'.syncing = proc.syncing
      /\ proc'.running = proc.running /\ proc'.done = proc.done
      /\ proc'.elector = "renew" /\ informers' = informers
  BY DEF Acquire, TypeInv, Processes, apiVars
<1>2. proc.leader = "none" /\ proc.running = {}
  BY DEF Acquire, StartInv, WorkersLast
<1>3. AllAsked' /\ WorkersLast'
  BY <1>1, <1>2 DEF StartInv, AllAsked, WorkersLast
<1>4. AllStarted' /\ AllFilled'
  BY <1>1, <1>2
     DEF StartInv, AllStarted, AllFilled, FactoryStarted, FactorySynced, Begun
<1> QED
  BY <1>3, <1>4 DEF StartInv

\* Steps of the informers, the work, the elector and the environment
LEMMA StartInvOthers ==
  ASSUME TypeInv, StartInv,
         \/ \E t \in Types : Informer(ListFunc(t) \/ WatchFunc(t) \/ WatchEnds(t))
         \/ \E t \in Kinds : Handle(t)
         \/ Tick \/ Write \/ StopRenewing \/ Signal \/ Others \/ UNCHANGED vars,
         ~End
  PROVE  StartInv'
<1>1. Forward
  <2>1. CASE informers' = informers
    BY <2>1 DEF Forward
  <2>2. CASE \E t \in Types : Informer(ListFunc(t) \/ WatchFunc(t) \/ WatchEnds(t))
    <3>1. PICK t \in Types : Informer(ListFunc(t) \/ WatchFunc(t) \/ WatchEnds(t))
      BY <2>2
    <3>2. /\ \A s \in Types : s # t => informers'[s] = informers[s]
          /\ informers'[t].phase \in {"list", "watch"}
          /\ informers[t].filled => informers'[t].filled
      BY <3>1, InformerStep DEF Informer, TypeInv
    <3> QED
      BY <3>2 DEF Forward
  <2> QED
    BY <2>1, <2>2 DEF Handle, Tick, Write, GitWatchersCall, GitCommitsCall, Call,
                      StopRenewing, Signal, Others, vars, apiVars
<1>2. /\ proc'.leader = proc.leader /\ proc'.asked = proc.asked
      /\ proc'.syncing = proc.syncing /\ proc'.running = proc.running
      /\ proc.done => proc'.done
      /\ proc'.elector = proc.elector \/ proc'.elector # "acquire"
  <2>1. CASE proc' = proc
    BY <2>1
  <2>2. CASE StopRenewing \/ Signal
    BY <2>2 DEF StopRenewing, Signal, TypeInv, Processes
  <2> QED
    BY <2>1, <2>2 DEF Informer, Handle, Tick, Write, Others, vars
<1> QED
  BY <1>1, <1>2, StartInvForward

LEMMA StartInvNext == TypeInv /\ StartInv /\ [Next]_vars => StartInv'
<1> SUFFICES ASSUME TypeInv, StartInv, [Next]_vars PROVE StartInv'
  OBVIOUS
<1>1. CASE End
  BY <1>1, StartInvNew DEF End
<1>2. CASE ~End
  <2>1. CASE HandleHooks \/ Register
    BY <2>1, StartInvAsk, AsksFacts DEF HandleHooks, Register
  <2>2. CASE OnChange \/ StartAll
    BY <2>2, StartInvOnChange, StartInvStartAll
  <2>3. CASE \E f \in Factories : FactoryStart(f) \/ WaitForCacheSync(f)
    BY <2>3, StartInvFactoryStart, StartInvWait
  <2>4. CASE \E t \in Kinds : StartController(t)
    BY <2>4, StartInvStartController
  <2>5. CASE Acquire
    BY <2>5, StartInvAcquire
  <2>6. CASE Restart
    BY <2>6, StartInvNew DEF Restart
  <2>7. CASE \/ \E t \in Types : Informer(ListFunc(t) \/ WatchFunc(t) \/ WatchEnds(t))
             \/ \E t \in Kinds : Handle(t)
             \/ Tick \/ Write \/ StopRenewing \/ Signal \/ Others \/ UNCHANGED vars
    BY <1>2, <2>7, StartInvOthers
  <2>8. CASE StoppedLeading
    BY <1>2, <2>8 DEF StoppedLeading
  <2> QED
    BY <2>1, <2>2, <2>3, <2>4, <2>5, <2>6, <2>7, <2>8 DEF Next
<1> QED
  BY <1>1, <1>2

LEMMA StartInvHolds == Spec => [](TypeInv /\ StartInv)
<1> QED
  BY InitType, NextType, StartInvInit, StartInvNext, PTL DEF Spec

\* No controller has workers before the caches of both factories were filled
\* (start.All, Factory.Sync, Controller.Run).
THEOREM WorkersSeeCaches == Spec => []WorkersSeeFilledCaches
<1>1. StartInv => WorkersSeeFilledCaches
  BY DEF StartInv, WorkersLast, WorkersSeeFilledCaches
<1> QED
  BY <1>1, StartInvHolds, PTL

\* A leader that works has started every informer, whichever of main and the
\* leader's goroutine asked for it first (InformerFor, Factory.Start).
THEOREM InformersRun == Spec => []EveryInformerRuns
<1>1. StartInv => EveryInformerRuns
  BY TypesFacts DEF StartInv, AllStarted, FactoryStarted, Begun, EveryInformerRuns
<1> QED
  BY <1>1, StartInvHolds, PTL
=============================================================================
