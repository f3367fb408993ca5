---------------------- MODULE WebhookControllerProofs ----------------------
(***************************************************************************)
(* Proofs about WebhookController for any number of replicas and watchers, *)
(* any specs and any bounds.                                               *)
(***************************************************************************)
EXTENDS WebhookController, TLAPS

-----------------------------------------------------------------------------
(* The objects *)

LEMMA NewObjectType ==
  ASSUME NEW uid \in Nat, NEW s \in Specs
  PROVE  NewObject(uid, s) \in Objects
BY DEF NewObject, Objects

\* The changes that users and runs make to an object leave an object.
LEMMA ObjectUpdates ==
  ASSUME NEW o \in Objects, NEW n \in Nat, NEW s \in Specs
  PROVE  /\ [o EXCEPT !.rv = n, !.spec = s] \in Objects
         /\ [o EXCEPT !.rv = n] \in Objects
         /\ [o EXCEPT !.token = n] \in Objects
         /\ [o EXCEPT !.hookID = n] \in Objects
         /\ [o EXCEPT !.firstCommit = n] \in Objects
         /\ o.uid \in Nat /\ o.token \in Nat
BY DEF Objects

LEMMA AbsentType ==
  Absent \in Objects /\ ~Present(Absent) /\ Absent.hookID = 0 /\ Absent.rv = 0
BY SpecsAssumption, NewObjectType DEF Absent, Present, NewObject

LEMMA NoJobType == NoJob \in Jobs /\ NoJob.pc = "idle"
BY AbsentType DEF NoJob, Jobs

\* Spend leaves a count of every bound.
LEMMA SpendType ==
  ASSUME used \in [BoundNames -> Nat], NEW S, Spend(S)
  PROVE  used' \in [BoundNames -> Nat]
BY DEF Spend

-----------------------------------------------------------------------------
(* Type correctness *)

LEMMA InitType == Init => TypeInv
<1> SUFFICES ASSUME Init PROVE TypeInv
  OBVIOUS
<1>1. api \in [Watchers -> Objects]
  <2>1. {Absent} \cup {NewObject(1, s) : s \in Specs} \subseteq Objects
    BY AbsentType, NewObjectType
  <2> QED
    BY <2>1 DEF Init
<1>2. job \in [Procs -> [Watchers -> Jobs]]
  BY NoJobType DEF Init
<1> QED
  BY <1>1, <1>2 DEF Init, TypeInv, Modes, BoundNames

LEMMA StoreType ==
  ASSUME TypeInv, NEW w \in Watchers, NEW o \in Objects, Store(w, o)
  PROVE  api' \in [Watchers -> Objects] /\ ver' \in [Watchers -> Nat]
BY DEF TypeInv, Store

LEMMA UserStepType ==
  ASSUME TypeInv, UserStep PROVE TypeInv'
<1>1. ASSUME NEW w \in Watchers, CreateWatcher(w) PROVE TypeInv'
  <2>1. PICK s \in Specs : Store(w, NewObject(ver[w] + 1, s))
    BY <1>1 DEF CreateWatcher
  <2>2. NewObject(ver[w] + 1, s) \in Objects
    BY NewObjectType DEF TypeInv
  <2>3. used' \in [BoundNames -> Nat]
    BY <1>1, SpendType DEF CreateWatcher, Use, TypeInv
  <2> QED
    BY <1>1, <2>1, <2>2, <2>3, StoreType
    DEF CreateWatcher, TypeInv, extVars, procVars, workVars
<1>2. ASSUME NEW w \in Watchers, EditWatcher(w) PROVE TypeInv'
  <2>1. PICK s \in Specs : Store(w, [api[w] EXCEPT !.rv = ver[w] + 1, !.spec = s])
    BY <1>2 DEF EditWatcher
  <2>2. [api[w] EXCEPT !.rv = ver[w] + 1, !.spec = s] \in Objects
    <3>1. api[w] \in Objects /\ ver[w] + 1 \in Nat
      BY DEF TypeInv
    <3> QED
      BY <3>1, ObjectUpdates
  <2>3. used' \in [BoundNames -> Nat]
    BY <1>2, SpendType DEF EditWatcher, Use, TypeInv
  <2> QED
    BY <1>2, <2>1, <2>2, <2>3, StoreType
    DEF EditWatcher, TypeInv, extVars, procVars, workVars
<1>3. ASSUME NEW w \in Watchers, DeleteWatcher(w) PROVE TypeInv'
  <2>1. used' \in [BoundNames -> Nat]
    BY <1>3, SpendType DEF DeleteWatcher, Use, TypeInv
  <2> QED
    BY <1>3, <2>1, AbsentType, StoreType
    DEF DeleteWatcher, TypeInv, extVars, procVars, workVars
<1>4. ASSUME NEW w \in Watchers, Push(w) PROVE TypeInv'
  BY <1>4 DEF Push, TypeInv, apiVars, procVars, workVars
<1>5. ASSUME NEW n \in SecretNames, ChangeSecret(n) PROVE TypeInv'
  <2>1. used' \in [BoundNames -> Nat]
    BY <1>5, SpendType DEF ChangeSecret, Use, TypeInv
  <2> QED
    BY <1>5, <2>1 DEF ChangeSecret, TypeInv, apiVars, procVars, workVars
<1> QED
  BY <1>1, <1>2, <1>3, <1>4, <1>5 DEF UserStep

LEMMA ReplicaStepType ==
  ASSUME TypeInv, NEW p \in Procs, ReplicaStep(p) PROVE TypeInv'
<1>1. CASE Acquire(p)
  <2>1. PICK list \in {api} \cup {cache[q] : q \in Procs} :
          /\ cache' = [cache EXCEPT ![p] = list]
          /\ pending' = [pending EXCEPT ![p] = {w \in Watchers : Present(list[w])}]
    BY <1>1 DEF Acquire
  <2>2. list \in [Watchers -> Objects]
    BY DEF TypeInv
  <2>3. cache' \in [Procs -> [Watchers -> Objects]] /\ pending' \in [Procs -> SUBSET Watchers]
    BY <2>1, <2>2 DEF TypeInv
  <2> QED
    BY <1>1, <2>3 DEF Acquire, TypeInv, Modes, apiVars, extVars
<1>2. CASE Stop(p)
  <2>1. used' \in [BoundNames -> Nat]
    BY <1>2, SpendType DEF Stop, Use, TypeInv
  <2> QED
    BY <1>2, <2>1 DEF Stop, TypeInv, Modes, apiVars, extVars, workVars
<1>3. CASE Release(p) \/ Renew(p)
  BY <1>3 DEF Release, Renew, TypeInv, apiVars, extVars, workVars
<1>4. ASSUME Idle(p)
      PROVE  pending' \in [Procs -> SUBSET Watchers] /\ job' \in [Procs -> [Watchers -> Jobs]]
  BY <1>4, NoJobType DEF Idle, TypeInv
<1>5. CASE Exit(p)
  BY <1>5, <1>4 DEF Exit, TypeInv, Modes, apiVars, extVars
<1>6. CASE Crash(p)
  <2>1. used' \in [BoundNames -> Nat]
    BY <1>6, SpendType DEF Crash, Use, TypeInv
  <2> QED
    BY <1>6, <1>4, <2>1 DEF Crash, TypeInv, Modes, apiVars, extVars
<1>7. CASE LoseLease(p)
  <2>1. used' \in [BoundNames -> Nat]
    BY <1>7, SpendType DEF LoseLease, Use, TypeInv
  <2> QED
    BY <1>7, <2>1 DEF LoseLease, TypeInv, apiVars, extVars, workVars
<1>8. CASE GiveUp(p)
  BY <1>8 DEF GiveUp, TypeInv, Modes, apiVars, extVars, workVars
<1> QED
  BY <1>1, <1>2, <1>3, <1>5, <1>6, <1>7, <1>8 DEF ReplicaStep

\* Goto and Return leave a well-typed run behind.
LEMMA GotoType ==
  ASSUME TypeInv, NEW p \in Procs, NEW w \in Watchers, NEW state \in Running,
         NEW n \in Objects, NEW err \in Errors \cup {NoError}, Goto(p, w, state, n, err)
  PROVE  job' \in [Procs -> [Watchers -> Jobs]]
BY DEF TypeInv, Goto, Jobs

LEMMA ReturnType ==
  ASSUME TypeInv, NEW p \in Procs, NEW w \in Watchers, NEW failed, Return(p, w, failed)
  PROVE  /\ job' \in [Procs -> [Watchers -> Jobs]]
         /\ pending' \in [Procs -> SUBSET Watchers]
BY NoJobType DEF TypeInv, Return

LEMMA RunType ==
  ASSUME TypeInv, NEW p \in Procs, NEW w \in Watchers
  PROVE  /\ job[p][w] \in Jobs
         /\ job[p][w].old \in Objects /\ job[p][w].new \in Objects
         /\ NewHook(w, job[p][w].new) \in Hooks
         /\ Applied(w, job[p][w].new) \subseteq Commits
<1>1. job[p][w] \in Jobs
  BY DEF TypeInv
<1>2. job[p][w].old \in Objects /\ job[p][w].new \in Objects
  BY <1>1 DEF Jobs
<1>3. NewHook(w, job[p][w].new) \in Hooks
  BY <1>2, ObjectUpdates, SpecsAssumption DEF NewHook, Hooks
<1>4. Applied(w, job[p][w].new) \subseteq Commits
  <2>1. job[p][w].new.uid \in Nat /\ head[w] \in Nat
    BY <1>2, ObjectUpdates, SpecsAssumption DEF TypeInv
  <2> QED
    BY <2>1 DEF Applied, Commits, TypeInv
<1> QED
  BY <1>1, <1>2, <1>3, <1>4

LEMMA CreateHookType ==
  ASSUME TypeInv, NEW p \in Procs, NEW w \in Watchers, CreateHook(p, w) PROVE TypeInv'
<1> DEFINE n == [job[p][w].new EXCEPT !.token = used["creates"] + 1]
<1>1. n \in Objects /\ [n EXCEPT !.hookID = Len(hooks) + 1] \in Objects
  <2>1. used["creates"] + 1 \in Nat /\ Len(hooks) + 1 \in Nat
    BY DEF TypeInv, BoundNames
  <2>2. n \in Objects
    BY <2>1, RunType, ObjectUpdates, SpecsAssumption
  <2> QED
    BY <2>1, <2>2, ObjectUpdates, SpecsAssumption
<1>2. NewHook(w, n) \in Hooks
  <2> HIDE DEF n
  <2> QED
    BY <1>1, ObjectUpdates, SpecsAssumption DEF NewHook, Hooks
<1>3. Append(hooks, NewHook(w, n)) \in Seq(Hooks)
  BY <1>2 DEF TypeInv
<1>4. hooks' \in Seq(Hooks)
  BY <1>3 DEF CreateHook, TypeInv
<1>5. used' \in [BoundNames -> Nat]
  BY SpendType DEF CreateHook, TypeInv
<1>6. {"secret", "hook", NoError} \subseteq Errors \cup {NoError} /\ {"ref", "write"} \subseteq Running
  BY DEF Errors, Running
<1>7. job' \in [Procs -> [Watchers -> Jobs]]
  <2> HIDE DEF n
  <2> QED
    BY <1>1, <1>6, RunType, GotoType DEF CreateHook, n
<1> QED
  BY <1>4, <1>5, <1>7 DEF CreateHook, TypeInv, apiVars, procVars

LEMMA FirstCommitType ==
  ASSUME TypeInv, NEW p \in Procs, NEW w \in Watchers, GetFirstCommit(p, w) \/ Poll(p, w)
  PROVE  TypeInv'
<1> DEFINE o == job[p][w].new
           n == [o EXCEPT !.firstCommit = head[w]]
<1>1. o \in Objects /\ n \in Objects
  BY RunType, ObjectUpdates, SpecsAssumption DEF TypeInv
<1>2. {"ref", "apply", "git", NoError} \subseteq Errors \cup {NoError} /\ "write" \in Running
  BY DEF Errors, Running
<1>3. commits' \subseteq Commits
  BY RunType DEF GetFirstCommit, Poll, TypeInv
<1>4. used' \in [BoundNames -> Nat]
  BY SpendType DEF GetFirstCommit, Poll, TypeInv
<1>5. job' \in [Procs -> [Watchers -> Jobs]]
  <2>1. CASE GetFirstCommit(p, w)
    BY <2>1, <1>1, <1>2, GotoType DEF GetFirstCommit
  <2>2. CASE Poll(p, w)
    BY <2>2, <1>1, <1>2, GotoType DEF Poll
  <2> QED
    BY <2>1, <2>2
<1> QED
  BY <1>3, <1>4, <1>5 DEF GetFirstCommit, Poll, TypeInv, apiVars, procVars

LEMMA ResultType == ASSUME NEW j \in Jobs PROVE Result(j) \in Objects
BY DEF Result, Jobs, Objects

LEMMA UpdateType ==
  ASSUME TypeInv, NEW p \in Procs, NEW w \in Watchers, Update(p, w) PROVE TypeInv'
<1> DEFINE n == Result(job[p][w])
<1>1. [n EXCEPT !.rv = ver[w] + 1] \in Objects
  <2>1. n \in Objects
    BY RunType, ResultType
  <2>2. ver[w] + 1 \in Nat
    BY DEF TypeInv
  <2> QED
    BY <2>1, <2>2, ObjectUpdates, SpecsAssumption
<1>2. api' \in [Watchers -> Objects] /\ ver' \in [Watchers -> Nat]
  <2>1. CASE UNCHANGED apiVars
    BY <2>1 DEF apiVars, TypeInv
  <2>2. CASE Store(w, [n EXCEPT !.rv = ver[w] + 1])
    BY <2>2, <1>1, StoreType
  <2> QED
    BY <2>1, <2>2 DEF Update, apiVars
<1>3. used' \in [BoundNames -> Nat]
  BY SpendType DEF Update, TypeInv
<1>4. job' \in [Procs -> [Watchers -> Jobs]] /\ pending' \in [Procs -> SUBSET Watchers]
  BY ReturnType DEF Update
<1> QED
  BY <1>2, <1>3, <1>4 DEF Update, TypeInv, extVars, procVars

LEMMA BeginType ==
  ASSUME TypeInv, NEW p \in Procs, NEW w \in Watchers, Begin(p, w) PROVE TypeInv'
<1>1. used' \in [BoundNames -> Nat]
  BY SpendType DEF Begin, TypeInv
<1>2. FirstStep(cache[p][w]) \in {"idle"} \cup Running
  BY DEF FirstStep, Running
<1>3. job' \in [Procs -> [Watchers -> Jobs]]
  BY <1>2 DEF Begin, TypeInv, Jobs
<1> QED
  BY <1>1, <1>3 DEF Begin, TypeInv, apiVars, extVars, procVars

\* A list that comes back with older objects brings copies that some cache had already.
LEMMA RelistFacts ==
  ASSUME TypeInv, NEW p \in Procs, Relist(p)
  PROVE  /\ UNCHANGED <<apiVars, hooks, commits, job>> /\ \E S : Spend(S)
         /\ \A q \in Procs, v \in Watchers : \E r \in Procs : cache'[q][v] = cache[r][v]
<1>1. PICK r \in Procs : cache' = [cache EXCEPT ![p] = cache[r]]
  BY DEF Relist
<1>2. \A q \in Procs : cache'[q] = cache[q] \/ cache'[q] = cache[r]
  BY <1>1 DEF TypeInv
<1> QED
  BY <1>2 DEF Relist, Use, extVars

LEMMA RelistType == ASSUME TypeInv, NEW p \in Procs, Relist(p) PROVE TypeInv'
<1>1. PICK list \in {cache[q] : q \in Procs} :
        /\ cache' = [cache EXCEPT ![p] = list]
        /\ pending' = [pending EXCEPT ![p] = @ \cup {w \in Watchers : list[w] # cache[p][w]}]
  BY DEF Relist
<1>2. list \in [Watchers -> Objects]
  BY DEF TypeInv
<1>3. cache' \in [Procs -> [Watchers -> Objects]] /\ pending' \in [Procs -> SUBSET Watchers]
  BY <1>1, <1>2 DEF TypeInv
<1>4. used' \in [BoundNames -> Nat]
  BY SpendType DEF Relist, Use, TypeInv
<1> QED
  BY <1>3, <1>4 DEF Relist, TypeInv, apiVars, extVars, procVars

LEMMA NextType == TypeInv /\ [Next]_vars => TypeInv'
<1> SUFFICES ASSUME TypeInv, [Next]_vars PROVE TypeInv'
  OBVIOUS
<1>1. CASE UserStep
  BY <1>1, UserStepType
<1>2. ASSUME NEW p \in Procs, ReplicaStep(p) PROVE TypeInv'
  BY <1>2, ReplicaStepType
<1>3. ASSUME NEW p \in Procs, Tick(p) PROVE TypeInv'
  BY <1>3 DEF Tick, TypeInv, apiVars, extVars, procVars
<1>4. CASE Expire
  BY <1>4 DEF Expire, TypeInv, apiVars, extVars, workVars
<1>5. ASSUME NEW p \in Procs, NEW w \in Watchers, CacheSync(p, w) PROVE TypeInv'
  BY <1>5 DEF CacheSync, TypeInv, apiVars, extVars, procVars
<1>6. ASSUME NEW p \in Procs, NEW w \in Watchers, RunStep(p, w) PROVE TypeInv'
  BY <1>6, BeginType, CreateHookType, FirstCommitType, UpdateType DEF RunStep
<1>7. CASE UNCHANGED vars
  BY <1>7 DEF vars, apiVars, extVars, procVars, workVars, TypeInv
<1>8. ASSUME NEW p \in Procs, Relist(p) PROVE TypeInv'
  BY <1>8, RelistType
<1> QED
  BY <1>1, <1>2, <1>3, <1>4, <1>5, <1>6, <1>7, <1>8 DEF Next

\* Every variable keeps its type, whatever the replicas, watchers and bounds.
THEOREM TypeCorrect == Spec => []TypeInv
BY InitType, NextType, PTL DEF Spec
-----------------------------------------------------------------------------
(* The inductive invariant *)

\* How a step may change what copies are compared with: GitHub gets another
\* hook, or the API server stores, under a version of its own, an object whose
\* hook signs with its token.
Stored(v, x) == /\ Store(v, x)
                /\ Signs(v, x)
                /\ UNCHANGED hooks
                /\ x = Absent \/ x.rv = ver[v] + 1

\* A hook that is there stays what it is.
LEMMA SignsPreserved ==
  ASSUME TypeInv, NEW w, NEW o \in Objects, Signs(w, o),
         UNCHANGED hooks \/ \E h \in Hooks : hooks' = Append(hooks, h)
  PROVE  Signs(w, o)'
<1>1. hooks \in Seq(Hooks)
  BY DEF TypeInv
<1>2. CASE UNCHANGED hooks
  BY <1>2 DEF Signs, NewHook
<1>3. CASE \E h \in Hooks : hooks' = Append(hooks, h)
  <2>1. PICK h \in Hooks : hooks' = Append(hooks, h)
    BY <1>3
  <2>2. \A i \in DOMAIN hooks : i \in DOMAIN hooks' /\ hooks'[i] = hooks[i]
    BY <1>1, <2>1
  <2> QED
    BY <2>2 DEF Signs, NewHook
<1> QED
  BY <1>2, <1>3

\* A copy of the stored object's version is the stored object, after the API
\* server stored another one as well: that one has a version no copy has.
LEMMA CopyPreservedByStore ==
  ASSUME TypeInv, NEW v \in Watchers, NEW x \in Objects, Stored(v, x),
         NEW w \in Watchers, NEW o \in Objects, CopyOK(w, o)
  PROVE  CopyOK(w, o)'
<1>1. Signs(w, o)'
  BY SignsPreserved DEF Stored, CopyOK
<1>2. ver[w] \in Nat /\ ver[v] \in Nat /\ o.rv \in Nat /\ o.rv <= ver[w]
  BY DEF TypeInv, Objects, CopyOK
<1>3. CASE w # v
  <2>1. api'[w] = api[w] /\ ver'[w] = ver[w]
    BY <1>3 DEF Stored, Store, TypeInv
  <2> QED
    BY <1>1, <2>1 DEF CopyOK
<1>4. CASE w = v
  <2>1. api'[w] = x /\ ver'[w] = ver[w] + 1
    BY <1>4 DEF Stored, Store, TypeInv
  <2>2. Present(x) => o.rv # x.rv
    BY <1>2, <1>4, AbsentType DEF Stored
  <2> QED
    BY <1>1, <1>2, <2>1, <2>2 DEF CopyOK
<1> QED
  BY <1>3, <1>4

LEMMA CopyPreservedByHook ==
  ASSUME TypeInv, UNCHANGED apiVars,
         UNCHANGED hooks \/ \E h \in Hooks : hooks' = Append(hooks, h),
         NEW w \in Watchers, NEW o \in Objects, CopyOK(w, o)
  PROVE  CopyOK(w, o)'
BY SignsPreserved DEF CopyOK, apiVars

\* The steps that keep every copy what it is
Harmless ==
  \/ \E v \in Watchers : \E x \in Objects : Stored(v, x)
  \/ /\ UNCHANGED apiVars
     /\ UNCHANGED hooks \/ \E h \in Hooks : hooks' = Append(hooks, h)

LEMMA CopyPreserved ==
  ASSUME TypeInv, Harmless, NEW w \in Watchers, NEW o \in Objects, CopyOK(w, o)
  PROVE  CopyOK(w, o)'
BY CopyPreservedByStore, CopyPreservedByHook DEF Harmless

LEMMA RunPreserved ==
  ASSUME TypeInv, Harmless, NEW w \in Watchers, NEW j \in Jobs, RunOK(w, j)
  PROVE  RunOK(w, j)'
<1>1. j.old \in Objects /\ j.new \in Objects
  BY DEF Jobs
<1>2. CopyOK(w, j.old)'
  BY <1>1, CopyPreserved DEF RunOK
<1>3. UNCHANGED hooks \/ \E h \in Hooks : hooks' = Append(hooks, h)
  BY DEF Harmless, Stored
<1>4. Signs(w, j.new)'
  BY <1>1, <1>3, SignsPreserved DEF RunOK
<1> QED
  BY <1>2, <1>4 DEF RunOK

LEMMA StoredPreserved ==
  ASSUME TypeInv, IInv, Harmless, NEW w \in Watchers
  PROVE  StoredOK(w)'
<1>1. api[w] \in Objects /\ StoredOK(w) /\ ver[w] \in Nat
  BY DEF TypeInv, IInv
<1>2. CASE api'[w] = api[w]
  <2>1. CopyOK(w, api[w])'
    BY <1>1, <1>2, CopyPreserved DEF StoredOK, CopyOK, Signs, NewHook
  <2> QED
    BY <1>1, <1>2, <2>1 DEF StoredOK
<1>3. ASSUME NEW v \in Watchers, NEW x \in Objects, Stored(v, x), api'[w] # api[w]
      PROVE  StoredOK(w)'
  <2>1. w = v /\ api'[w] = x /\ ver'[w] = ver[w] + 1
    BY <1>3 DEF Stored, Store, TypeInv
  <2>2. Signs(w, x)'
    BY <1>3, <2>1, SignsPreserved DEF Stored
  <2>3. x.rv <= ver'[w] /\ (Present(x) => x.rv > 0)
    BY <1>1, <1>3, <2>1, AbsentType DEF Stored
  <2> QED
    BY <2>1, <2>2, <2>3 DEF StoredOK, CopyOK
<1> QED
  BY <1>2, <1>3 DEF Harmless, apiVars

\* What is left to show of an action: that it is harmless, and that the caches
\* and runs it replaces are in order.
LEMMA IInvPreserved ==
  ASSUME TypeInv, IInv, Harmless,
         \A p \in Procs, w \in Watchers :
           \/ cache'[p][w] = cache[p][w]
           \/ CopyOK(w, cache[p][w])',
         \A p \in Procs, w \in Watchers :
           \/ job'[p][w] = job[p][w]
           \/ RunOK(w, job[p][w])'
  PROVE  IInv'
<1> SUFFICES ASSUME NEW w \in Watchers
             PROVE  /\ StoredOK(w)'
                    /\ \A p \in Procs : CopyOK(w, cache[p][w])' /\ RunOK(w, job[p][w])'
  BY DEF IInv
<1>1. StoredOK(w)'
  BY StoredPreserved
<1>2. ASSUME NEW p \in Procs PROVE CopyOK(w, cache[p][w])' /\ RunOK(w, job[p][w])'
  <2>1. cache[p][w] \in Objects /\ job[p][w] \in Jobs
    BY DEF TypeInv
  <2>2. CopyOK(w, cache[p][w]) /\ RunOK(w, job[p][w])
    BY DEF IInv
  <2>3. ASSUME cache'[p][w] = cache[p][w] PROVE CopyOK(w, cache[p][w])'
    BY <2>1, <2>2, <2>3, CopyPreserved DEF CopyOK, Signs, NewHook
  <2>4. ASSUME job'[p][w] = job[p][w] PROVE RunOK(w, job[p][w])'
    <3>1. PICK j \in Jobs : j = job[p][w]
      BY <2>1
    <3>2. RunOK(w, j)'
      BY <2>2, <3>1, RunPreserved
    <3>3. job'[p][w] = j
      BY <2>4, <3>1
    <3> QED
      BY <3>2, <3>3 DEF RunOK
  <2> QED
    BY <2>3, <2>4
<1> QED
  BY <1>1, <1>2

-----------------------------------------------------------------------------
(* Every step keeps the inductive invariant *)

LEMMA InitInv == Init => IInv
<1> SUFFICES ASSUME Init, NEW w \in Watchers
             PROVE  /\ StoredOK(w)
                    /\ \A p \in Procs : CopyOK(w, cache[p][w]) /\ RunOK(w, job[p][w])
  BY DEF IInv
<1>1. ver[w] = 1 /\ api[w].hookID = 0 /\ api[w].rv <= 1 /\ (Present(api[w]) => api[w].rv = 1)
  BY AbsentType DEF Init, NewObject, Present
<1>2. StoredOK(w)
  BY <1>1 DEF StoredOK, CopyOK, Signs
<1>3. ASSUME NEW p \in Procs PROVE CopyOK(w, cache[p][w]) /\ RunOK(w, job[p][w])
  <2>1. cache[p][w] = api[w] /\ job[p][w] = NoJob
    BY DEF Init
  <2>2. RunOK(w, NoJob)
    BY <1>1, AbsentType DEF RunOK, CopyOK, Signs, Keeps, NoJob
  <2> QED
    BY <1>2, <2>1, <2>2 DEF StoredOK
<1> QED
  BY <1>2, <1>3

\* The run of an idle worker is in order, before and after any harmless step.
LEMMA NoJobOK ==
  ASSUME TypeInv, IInv, NEW w \in Watchers PROVE RunOK(w, NoJob)
<1>1. StoredOK(w) /\ ver[w] \in Nat
  BY DEF IInv, TypeInv
<1> QED
  BY <1>1, AbsentType DEF StoredOK, RunOK, CopyOK, Signs, Keeps, NoJob

LEMMA NoJobOKAfter ==
  ASSUME TypeInv, IInv, Harmless, NEW p, NEW w \in Watchers, job'[p][w] = NoJob
  PROVE  RunOK(w, job[p][w])'
<1>1. RunOK(w, NoJob)'
  BY NoJobOK, NoJobType, RunPreserved
<1> QED
  BY <1>1 DEF RunOK, CopyOK, Signs, NewHook, Keeps, NoJob, Absent, NewObject

LEMMA UserStepInv == ASSUME TypeInv, IInv, UserStep PROVE IInv'
<1>1. UNCHANGED <<cache, job>>
  BY DEF UserStep, CreateWatcher, EditWatcher, DeleteWatcher, Push, ChangeSecret, workVars
<1>2. ASSUME NEW w \in Watchers, NEW s \in Specs, Store(w, NewObject(ver[w] + 1, s)),
             UNCHANGED hooks
      PROVE  Harmless
  <2>1. NewObject(ver[w] + 1, s) \in Objects
    BY NewObjectType DEF TypeInv
  <2>2. Stored(w, NewObject(ver[w] + 1, s))
    BY <1>2 DEF Stored, Signs, NewObject
  <2> QED
    BY <2>1, <2>2 DEF Harmless
<1>3. ASSUME NEW w \in Watchers, NEW s \in Specs,
             Store(w, [api[w] EXCEPT !.rv = ver[w] + 1, !.spec = s]), UNCHANGED hooks
      PROVE  Harmless
  <2> DEFINE x == [api[w] EXCEPT !.rv = ver[w] + 1, !.spec = s]
  <2>1. api[w] \in Objects /\ ver[w] + 1 \in Nat
    BY DEF TypeInv
  <2>2. x \in Objects
    BY <2>1, ObjectUpdates
  <2>3. x.hookID = api[w].hookID /\ x.uid = api[w].uid /\ x.token = api[w].token
        /\ x.rv = ver[w] + 1
    BY <2>1 DEF Objects
  <2>4. Signs(w, x)
    BY <2>3 DEF IInv, StoredOK, CopyOK, Signs, NewHook
  <2>5. Stored(w, x)
    BY <1>3, <2>3, <2>4 DEF Stored
  <2> QED
    BY <2>2, <2>5 DEF Harmless
<1>4. ASSUME NEW w \in Watchers, Store(w, Absent), UNCHANGED hooks PROVE Harmless
  <2>1. Stored(w, Absent)
    BY <1>4, AbsentType DEF Stored, Signs
  <2> QED
    BY <2>1, AbsentType DEF Harmless
<1>5. Harmless
  <2>1. ASSUME NEW w \in Watchers, CreateWatcher(w) \/ EditWatcher(w) \/ DeleteWatcher(w)
        PROVE  Harmless
    BY <2>1, <1>2, <1>3, <1>4 DEF CreateWatcher, EditWatcher, DeleteWatcher, extVars
  <2>2. ASSUME UNCHANGED <<apiVars, hooks>> PROVE Harmless
    BY <2>2 DEF Harmless
  <2> QED
    BY <2>1, <2>2 DEF UserStep, Push, ChangeSecret
<1> QED
  BY <1>1, <1>5, IInvPreserved

LEMMA QuietHarmless == UNCHANGED <<apiVars, hooks>> => Harmless
BY DEF Harmless

LEMMA ReplicaStepInv == ASSUME TypeInv, IInv, NEW p \in Procs, ReplicaStep(p) PROVE IInv'
<1>1. UNCHANGED <<apiVars, hooks>>
  BY DEF ReplicaStep, Acquire, Stop, Release, Exit, Crash, LoseLease, Renew, GiveUp, extVars
<1>2. Harmless
  BY <1>1, QuietHarmless
<1>3. CASE Acquire(p)
  <2>1. PICK list \in {api} \cup {cache[q] : q \in Procs} : cache' = [cache EXCEPT ![p] = list]
    BY <1>3 DEF Acquire
  <2>2. ASSUME NEW q \in Procs, NEW w \in Watchers, cache'[q][w] # cache[q][w]
        PROVE  CopyOK(w, cache[q][w])'
    <3>1. cache'[q][w] = list[w]
      BY <2>1, <2>2 DEF TypeInv
    <3>2. CopyOK(w, list[w])
      BY <2>1 DEF IInv, StoredOK
    <3> QED
      BY <1>1, <3>1, <3>2 DEF CopyOK, Signs, NewHook, apiVars
  <2>3. UNCHANGED job
    BY <1>3 DEF Acquire
  <2> QED
    BY <1>2, <2>2, <2>3, IInvPreserved
<1>4. CASE \/ Stop(p) \/ Release(p) \/ LoseLease(p) \/ Renew(p) \/ GiveUp(p)
  <2>1. UNCHANGED <<cache, job>>
    BY <1>4 DEF Stop, Release, LoseLease, Renew, GiveUp, workVars
  <2> QED
    BY <1>2, <2>1, IInvPreserved
<1>5. CASE Exit(p) \/ Crash(p)
  <2>1. UNCHANGED cache /\ Idle(p)
    BY <1>5 DEF Exit, Crash
  <2>2. ASSUME NEW q \in Procs, NEW w \in Watchers, job'[q][w] # job[q][w]
        PROVE  RunOK(w, job[q][w])'
    <3>1. job'[q][w] = NoJob
      BY <2>1, <2>2 DEF Idle, TypeInv
    <3> QED
      BY <1>2, <3>1, NoJobOKAfter
  <2> QED
    BY <1>2, <2>1, <2>2, IInvPreserved
<1> QED
  BY <1>3, <1>4, <1>5 DEF ReplicaStep

\* Begin, CreateHook, GetFirstCommit and Poll leave the caches and the API
\* server alone and change the run of w on p.
LEMMA RunOfOne ==
  ASSUME TypeInv, IInv, NEW p \in Procs, NEW w \in Watchers, Harmless, UNCHANGED cache,
         NEW j \in Jobs, job' = [job EXCEPT ![p][w] = j],
         RunOK(w, j)'
  PROVE  IInv'
<1>1. ASSUME NEW q \in Procs, NEW v \in Watchers, job'[q][v] # job[q][v]
      PROVE  RunOK(v, job[q][v])'
  <2>1. v = w /\ job'[q][v] = j
    BY <1>1 DEF TypeInv
  <2> QED
    BY <2>1 DEF RunOK, CopyOK, Signs, NewHook, Keeps
<1> QED
  BY <1>1, IInvPreserved

LEMMA BeginInv ==
  ASSUME TypeInv, IInv, NEW p \in Procs, NEW w \in Watchers, Begin(p, w) PROVE IInv'
<1> DEFINE o == cache[p][w]
           j == [pc |-> FirstStep(o), old |-> o, new |-> o, err |-> NoError]
<1>1. Harmless /\ UNCHANGED cache
  BY QuietHarmless DEF Begin, extVars
<1>2. CASE UNCHANGED job
  BY <1>1, <1>2, IInvPreserved
<1>3. CASE job' = [job EXCEPT ![p][w] = j] /\ FirstStep(o) # "idle"
  <2>1. o \in Objects /\ CopyOK(w, o)
    BY DEF TypeInv, IInv
  <2>2. FirstStep(o) \in Running /\ (FirstStep(o) = "create" => o.hookID = 0)
    BY <1>3 DEF FirstStep, Running
  <2>3. j \in Jobs
    BY <2>1, <2>2 DEF Jobs
  <2>4. RunOK(w, j)
    BY <2>1, <2>2 DEF RunOK, CopyOK, Keeps
  <2> HIDE DEF j
  <2>5. PICK r \in Jobs : r = j
    BY <2>3
  <2>6. RunOK(w, r)'
    BY <1>1, <2>4, <2>5, RunPreserved
  <2> QED
    BY <1>1, <1>3, <2>5, <2>6, RunOfOne
<1> QED
  BY <1>2, <1>3 DEF Begin

\* A run goes on with a copy that keeps what it read and whose hook signs.
LEMMA GotoInv ==
  ASSUME TypeInv, IInv, NEW p \in Procs, NEW w \in Watchers, Harmless, UNCHANGED cache,
         NEW state \in {"ref", "write"}, NEW n \in Objects,
         NEW err \in Errors \cup {NoError}, Goto(p, w, state, n, err),
         Keeps(job[p][w].old, n), Signs(w, n)'
  PROVE  IInv'
<1>1. PICK old \in Objects : old = job[p][w].old
  BY RunType
<1>2. PICK j \in Jobs : j = [pc |-> state, old |-> old, new |-> n, err |-> err]
  BY DEF Jobs, Running
<1>3. job' = [job EXCEPT ![p][w] = j]
  BY <1>1, <1>2 DEF Goto, TypeInv
<1>4. CopyOK(w, old)'
  <2>1. CopyOK(w, old)
    BY <1>1 DEF IInv, RunOK
  <2> QED
    BY <2>1, CopyPreserved
<1>5. RunOK(w, j)'
  BY <1>1, <1>2, <1>4 DEF RunOK
<1> QED
  BY <1>3, <1>5, RunOfOne

LEMMA CreateHookInv ==
  ASSUME TypeInv, IInv, NEW p \in Procs, NEW w \in Watchers, CreateHook(p, w) PROVE IInv'
<1>1. PICK o \in Objects : o = job[p][w].new
  BY RunType
<1>2. used["creates"] + 1 \in Nat /\ Len(hooks) + 1 \in Nat /\ hooks \in Seq(Hooks)
  BY DEF TypeInv, BoundNames
<1>3. PICK n \in Objects : n = [o EXCEPT !.token = used["creates"] + 1]
  BY <1>2, ObjectUpdates, SpecsAssumption
<1>4. PICK m \in Objects : m = [n EXCEPT !.hookID = Len(hooks) + 1]
  BY <1>2, ObjectUpdates, SpecsAssumption
<1>5. job[p][w].pc = "create"
  BY DEF CreateHook
<1>6. o.hookID = 0 /\ Keeps(job[p][w].old, o) /\ job[p][w].old.hookID = 0
  <2>1. RunOK(w, job[p][w])
    BY DEF IInv
  <2> QED
    BY <1>1, <1>5, <2>1 DEF RunOK, Keeps
<1>7. n.hookID = 0 /\ Keeps(job[p][w].old, n) /\ Keeps(job[p][w].old, m)
  BY <1>3, <1>4, <1>6 DEF Keeps, Objects
<1>8. NewHook(w, n) \in Hooks
  BY ObjectUpdates, SpecsAssumption DEF NewHook, Hooks
<1>9. hooks' \in {hooks, Append(hooks, NewHook(w, n))}
  BY <1>1, <1>3 DEF CreateHook
<1>10. Harmless /\ UNCHANGED cache
  BY <1>8, <1>9 DEF Harmless, CreateHook
<1>11. Signs(w, o)' /\ Signs(w, n)'
  BY <1>6, <1>7 DEF Signs
<1>12. ASSUME hooks' = Append(hooks, NewHook(w, n)) PROVE Signs(w, m)'
  <2>1. m.hookID = Len(hooks) + 1 /\ NewHook(w, m) = NewHook(w, n)
    BY <1>2, <1>3, <1>4 DEF NewHook, Objects
  <2>2. m.hookID \in DOMAIN hooks' /\ hooks'[m.hookID] = NewHook(w, n)
    BY <1>2, <1>8, <1>12, <2>1
  <2> QED
    BY <2>1, <2>2 DEF Signs, NewHook
<1>13. {"secret", "hook", NoError} \subseteq Errors \cup {NoError}
  BY DEF Errors
<1>14. \/ Goto(p, w, "write", o, "secret")
       \/ hooks' = Append(hooks, NewHook(w, n)) /\ Goto(p, w, "ref", m, NoError)
       \/ Goto(p, w, "ref", n, NoError)
       \/ Goto(p, w, "write", n, "hook")
  BY <1>1, <1>3, <1>4 DEF CreateHook
<1> QED
  BY <1>6, <1>7, <1>10, <1>11, <1>12, <1>13, <1>14, GotoInv

LEMMA FirstCommitInv ==
  ASSUME TypeInv, IInv, NEW p \in Procs, NEW w \in Watchers,
         GetFirstCommit(p, w) \/ Poll(p, w)
  PROVE  IInv'
<1>1. PICK o \in Objects : o = job[p][w].new
  BY RunType
<1>2. PICK n \in Objects : n = [o EXCEPT !.firstCommit = head[w]]
  <2>1. head[w] \in Nat
    BY DEF TypeInv
  <2> QED
    BY <2>1, ObjectUpdates, SpecsAssumption
<1>3. UNCHANGED <<apiVars, hooks, cache>>
  BY DEF GetFirstCommit, Poll
<1>4. Harmless
  BY <1>3, QuietHarmless
<1>5. Keeps(job[p][w].old, o) /\ Signs(w, o)
  BY <1>1 DEF IInv, RunOK
<1>6. Signs(w, o)' /\ Signs(w, n)'
  BY <1>2, <1>3, <1>5 DEF Signs, NewHook, Objects
<1>7. o.firstCommit = 0 => Keeps(job[p][w].old, n)
  BY <1>2, <1>5 DEF Keeps, Objects
<1>8. {"ref", "apply", "git", NoError} \subseteq Errors \cup {NoError}
  BY DEF Errors
<1>9. \/ \E err \in Errors \cup {NoError} : Goto(p, w, "write", o, err)
      \/ o.firstCommit = 0 /\ \E err \in Errors \cup {NoError} : Goto(p, w, "write", n, err)
  BY <1>1, <1>2, <1>8 DEF GetFirstCommit, Poll
<1> QED
  BY <1>3, <1>4, <1>5, <1>6, <1>7, <1>9, GotoInv

\* What Update does to the API server: nothing, or it stores what the run made
\* of the stored object itself.
LEMMA UpdateStores ==
  ASSUME TypeInv, IInv, NEW p \in Procs, NEW w \in Watchers, Update(p, w)
  PROVE  \/ UNCHANGED apiVars
         \/ \E x \in Objects : /\ Stored(w, x)
                               /\ Present(api[w])
                               /\ Keeps(api[w], [x EXCEPT !.rv = api[w].rv])
                               /\ job[p][w].old = api[w] /\ job[p][w].new.token = x.token
<1> SUFFICES ASSUME ~(UNCHANGED apiVars)
             PROVE  \E x \in Objects : /\ Stored(w, x)
                                      /\ Present(api[w])
                                      /\ Keeps(api[w], [x EXCEPT !.rv = api[w].rv])
                                      /\ job[p][w].old = api[w] /\ job[p][w].new.token = x.token
                               /\ job[p][w].old = api[w] /\ job[p][w].new.token = x.token
  OBVIOUS
<1>1. PICK j \in Jobs : j = job[p][w]
  BY RunType
<1>2. PICK n \in Objects : n = Result(j)
  BY ResultType
<1>3. PICK x \in Objects : x = [n EXCEPT !.rv = ver[w] + 1]
  <2>1. ver[w] + 1 \in Nat
    BY DEF TypeInv
  <2> QED
    BY <2>1, ObjectUpdates, SpecsAssumption
<1>4. Accepts(w, n) /\ Store(w, x) /\ UNCHANGED hooks
  BY <1>1, <1>2, <1>3 DEF Update, apiVars, extVars
<1>5. RunOK(w, j)
  BY <1>1 DEF IInv
<1>6. Keeps(j.old, n) /\ Signs(w, n)
  BY <1>2, <1>5 DEF RunOK, Result, Keeps, Signs, NewHook, Jobs, Objects
<1>7. j.old = api[w]
  BY <1>4, <1>5, <1>6 DEF Accepts, RunOK, CopyOK, Keeps
<1>8. Stored(w, x)
  BY <1>3, <1>4, <1>6 DEF Stored, Signs, NewHook, Objects
<1>9. Keeps(api[w], [x EXCEPT !.rv = api[w].rv])
  BY <1>3, <1>6, <1>7 DEF Keeps, Objects
<1>10. j.new.token = x.token
  BY <1>2, <1>3 DEF Result, Jobs, Objects
<1> QED
  BY <1>1, <1>4, <1>7, <1>8, <1>9, <1>10 DEF Accepts

LEMMA UpdateInv ==
  ASSUME TypeInv, IInv, NEW p \in Procs, NEW w \in Watchers, Update(p, w) PROVE IInv'
<1>1. UNCHANGED <<hooks, cache>>
  BY DEF Update, extVars
<1>2. Harmless
  BY <1>1, UpdateStores DEF Harmless
<1>3. ASSUME NEW q \in Procs, NEW v \in Watchers, job'[q][v] # job[q][v]
      PROVE  RunOK(v, job[q][v])'
  <2>1. job' = [job EXCEPT ![p][w] = NoJob]
    BY DEF Update, Return
  <2>2. job'[q][v] = NoJob
    BY <1>3, <2>1 DEF TypeInv
  <2> QED
    BY <1>2, <2>2, NoJobOKAfter
<1> QED
  BY <1>1, <1>2, <1>3, IInvPreserved

LEMMA NextInv == TypeInv /\ IInv /\ [Next]_vars => IInv'
<1> SUFFICES ASSUME TypeInv, IInv, [Next]_vars PROVE IInv'
  OBVIOUS
<1>1. CASE UserStep
  BY <1>1, UserStepInv
<1>2. ASSUME NEW p \in Procs, ReplicaStep(p) PROVE IInv'
  BY <1>2, ReplicaStepInv
<1>3. ASSUME UNCHANGED <<apiVars, hooks, cache, job>> PROVE IInv'
  BY <1>3, QuietHarmless, IInvPreserved
<1>4. ASSUME NEW p \in Procs, NEW w \in Watchers, CacheSync(p, w) PROVE IInv'
  <2>1. UNCHANGED <<apiVars, hooks, job>> /\ Harmless
    BY <1>4, QuietHarmless DEF CacheSync, extVars
  <2>2. ASSUME NEW q \in Procs, NEW v \in Watchers, cache'[q][v] # cache[q][v]
        PROVE  CopyOK(v, cache[q][v])'
    <3>1. cache'[q][v] = api[v]
      BY <1>4, <2>2 DEF CacheSync, TypeInv
    <3> QED
      BY <2>1, <3>1 DEF IInv, StoredOK, CopyOK, Signs, NewHook, apiVars
  <2> QED
    BY <2>1, <2>2, IInvPreserved
<1>5. ASSUME NEW p \in Procs, NEW w \in Watchers, RunStep(p, w) PROVE IInv'
  BY <1>5, BeginInv, CreateHookInv, FirstCommitInv, UpdateInv DEF RunStep
<1>6. ASSUME NEW p \in Procs, Tick(p) PROVE IInv'
  BY <1>3, <1>6 DEF Tick, extVars
<1>7. CASE Expire
  BY <1>3, <1>7 DEF Expire, extVars, workVars
<1>8. CASE UNCHANGED vars
  BY <1>3, <1>8 DEF vars, extVars, workVars
<1>9. ASSUME NEW p \in Procs, Relist(p) PROVE IInv'
  <2>1. UNCHANGED <<apiVars, hooks, job>> /\ Harmless
    BY <1>9, RelistFacts, QuietHarmless
  <2>2. ASSUME NEW q \in Procs, NEW v \in Watchers PROVE CopyOK(v, cache[q][v])'
    <3>1. PICK r \in Procs : cache'[q][v] = cache[r][v]
      BY <1>9, RelistFacts
    <3> QED
      BY <2>1, <3>1 DEF IInv, CopyOK, Signs, NewHook, apiVars
  <2> QED
    BY <2>1, <2>2, IInvPreserved
<1> QED
  BY <1>1, <1>2, <1>4, <1>5, <1>6, <1>7, <1>8, <1>9 DEF Next

\* The inductive invariant: however stale, a copy that has the stored version
\* is the stored object, and every recorded hook signs with its token.
THEOREM InvCorrect == Spec => []IInv
BY InitType, NextType, InitInv, NextInv, PTL DEF Spec

-----------------------------------------------------------------------------
(* What the invariant is for *)

\* The hook a watcher records exists, was made for it and signs with its token.
THEOREM HooksSign == Spec => []HookSignsWithToken
<1>1. IInv => HookSignsWithToken
  BY DEF IInv, StoredOK, CopyOK, HookSignsWithToken
<1> QED
  BY <1>1, InvCorrect, PTL

\* An object that lives on through a step keeps its hook with its token and its
\* first commit, and only a user changes its spec.
LEMMA LivingObjects ==
  ASSUME TypeInv, IInv, [Next]_vars, NEW w \in Watchers, api'[w].uid = api[w].uid
  PROVE  /\ api[w].hookID # 0 => api'[w].hookID = api[w].hookID /\ api'[w].token = api[w].token
         /\ api[w].firstCommit # 0 => api'[w].firstCommit = api[w].firstCommit
         /\ api'[w].spec # api[w].spec => UserStep
<1>1. CASE api'[w] = api[w]
  BY <1>1
<1>2. ASSUME NEW v \in Watchers, CreateWatcher(v), api'[w] # api[w] PROVE FALSE
  <2>1. PICK s \in Specs : Store(v, NewObject(ver[v] + 1, s))
    BY <1>2 DEF CreateWatcher
  <2>2. w = v /\ api'[w] = NewObject(ver[w] + 1, s)
    BY <1>2, <2>1 DEF Store, TypeInv
  <2>3. api[w].uid = 0 /\ api'[w].uid = ver[w] + 1 /\ ver[w] \in Nat
    BY <1>2, <2>2 DEF CreateWatcher, Present, NewObject, TypeInv
  <2> QED
    BY <2>3
<1>3. ASSUME NEW v \in Watchers, DeleteWatcher(v), api'[w] # api[w] PROVE FALSE
  <2>1. w = v /\ api'[w] = Absent /\ Present(api[w])
    BY <1>3 DEF DeleteWatcher, Store, TypeInv
  <2> QED
    BY <2>1, AbsentType DEF Present
<1>4. ASSUME NEW v \in Watchers, EditWatcher(v), api'[w] # api[w]
      PROVE  /\ api'[w].hookID = api[w].hookID /\ api'[w].token = api[w].token
             /\ api'[w].firstCommit = api[w].firstCommit
  <2>1. PICK s \in Specs : Store(v, [api[v] EXCEPT !.rv = ver[v] + 1, !.spec = s])
    BY <1>4 DEF EditWatcher
  <2>2. w = v /\ api'[w] = [api[w] EXCEPT !.rv = ver[w] + 1, !.spec = s]
    BY <1>4, <2>1 DEF Store, TypeInv
  <2>3. api[w] \in Objects
    BY DEF TypeInv
  <2> QED
    BY <2>2, <2>3 DEF Objects
<1>5. ASSUME NEW p \in Procs, NEW v \in Watchers, Update(p, v), api'[w] # api[w]
      PROVE  Keeps(api[w], [api'[w] EXCEPT !.rv = api[w].rv])
  <2>1. PICK x \in Objects : /\ Stored(v, x)
                             /\ Keeps(api[v], [x EXCEPT !.rv = api[v].rv])
    BY <1>5, UpdateStores DEF apiVars
  <2>2. w = v /\ api'[w] = x
    BY <1>5, <2>1 DEF Stored, Store, TypeInv
  <2> QED
    BY <2>1, <2>2
<1>6. ASSUME NEW p \in Procs, NEW v \in Watchers, Update(p, v), api'[w] # api[w]
      PROVE  /\ api[w].hookID # 0 =>
                  api'[w].hookID = api[w].hookID /\ api'[w].token = api[w].token
             /\ api[w].firstCommit # 0 => api'[w].firstCommit = api[w].firstCommit
             /\ api'[w].spec = api[w].spec
  <2>1. api'[w] \in Objects
    BY NextType DEF TypeInv
  <2>2. PICK x \in Objects : x = api'[w]
    BY <2>1
  <2> QED
    BY <1>5, <1>6, <2>2 DEF Keeps, Objects
<1>7. ASSUME UNCHANGED apiVars PROVE api'[w] = api[w]
  BY <1>7 DEF apiVars
<1>8. \/ UserStep
      \/ \E p \in Procs, v \in Watchers : Update(p, v)
      \/ UNCHANGED apiVars
  <2>1. ASSUME NEW p \in Procs, ReplicaStep(p) \/ Relist(p) \/ Tick(p) PROVE UNCHANGED apiVars
    BY <2>1, RelistFacts
    DEF ReplicaStep, Acquire, Stop, Release, Exit, Crash, LoseLease, Renew, GiveUp, Tick
  <2>2. ASSUME NEW p \in Procs, NEW v \in Watchers, CacheSync(p, v) \/ RunStep(p, v)
        PROVE  Update(p, v) \/ UNCHANGED apiVars
    BY <2>2 DEF CacheSync, RunStep, Begin, CreateHook, GetFirstCommit, Poll
  <2>3. ASSUME Expire \/ UNCHANGED vars PROVE UNCHANGED apiVars
    BY <2>3 DEF Expire, vars
  <2> QED
    BY <2>1, <2>2, <2>3 DEF Next
<1>9. CASE UserStep
  <2>1. CASE \E v \in Watchers : CreateWatcher(v) \/ EditWatcher(v) \/ DeleteWatcher(v)
    BY <1>1, <1>2, <1>3, <1>4, <1>9, <2>1
  <2>2. CASE UNCHANGED apiVars
    BY <1>1, <1>7, <2>2
  <2> QED
    BY <1>9, <2>1, <2>2 DEF UserStep, Push, ChangeSecret
<1> QED
  BY <1>1, <1>6, <1>7, <1>8, <1>9

\* No step replaces the hook, or the token it signs with, of a living watcher.
THEOREM HooksStay == Spec => HookNeverReplaced
<1>1. TypeInv /\ IInv /\ [Next]_vars =>
        [\A w \in Watchers :
           api[w].hookID # 0 /\ api'[w].uid = api[w].uid =>
             api'[w].hookID = api[w].hookID /\ api'[w].token = api[w].token]_vars
  BY LivingObjects
<1> QED
  BY <1>1, TypeCorrect, InvCorrect, PTL DEF Spec, HookNeverReplaced

\* No step replaces the first commit of a living watcher.
THEOREM FirstCommitsStay == Spec => FirstCommitNeverReplaced
<1>1. TypeInv /\ IInv /\ [Next]_vars =>
        [\A w \in Watchers :
           api[w].firstCommit # 0 /\ api'[w].uid = api[w].uid =>
             api'[w].firstCommit = api[w].firstCommit]_vars
  BY LivingObjects
<1> QED
  BY <1>1, TypeCorrect, InvCorrect, PTL DEF Spec, FirstCommitNeverReplaced

\* No run undoes what a user made of the spec of a living watcher.
THEOREM UserEditsSurvive == Spec => EditsSurvive
<1>1. TypeInv /\ IInv /\ [Next]_vars =>
        [\A w \in Watchers :
           api'[w].uid = api[w].uid /\ api'[w].spec # api[w].spec => UserStep]_vars
  BY LivingObjects
<1> QED
  BY <1>1, TypeCorrect, InvCorrect, PTL DEF Spec, EditsSurvive
-----------------------------------------------------------------------------
(* First commits are applied or reported *)

RunReports(w, j) == /\ j.err = NoError => AppliedOrReported(w, j.new)
                    /\ j.pc # "write" => j.err = NoError

\* GitCommits stay, so what was applied stays applied.
LEMMA ReportKept ==
  ASSUME commits \subseteq commits', NEW w, NEW o, AppliedOrReported(w, o)
  PROVE  /\ o.firstCommit # 0 =>
              \/ [of |-> w, uid |-> o.uid, commit |-> o.firstCommit] \in commits'
              \/ o.cond # NoError
BY DEF AppliedOrReported

\* What is left to show of an action: that it removes no GitCommit, and that the
\* objects, copies and runs it replaces are in order.
LEMMA ReportsPreserved ==
  ASSUME TypeInv, ReportsInv, commits \subseteq commits',
         \A w \in Watchers : api'[w] = api[w] \/ AppliedOrReported(w, api[w])',
         \A p \in Procs, w \in Watchers :
           cache'[p][w] = cache[p][w] \/ AppliedOrReported(w, cache[p][w])',
         \A p \in Procs, w \in Watchers :
           job'[p][w] = job[p][w] \/ RunReports(w, job[p][w])'
  PROVE  ReportsInv'
<1> SUFFICES ASSUME NEW w \in Watchers
             PROVE  /\ AppliedOrReported(w, api[w])'
                    /\ \A p \in Procs : /\ AppliedOrReported(w, cache[p][w])'
                                        /\ RunReports(w, job[p][w])'
  BY DEF ReportsInv, RunReports
<1>1. AppliedOrReported(w, api[w])'
  BY DEF ReportsInv, AppliedOrReported
<1>2. ASSUME NEW p \in Procs PROVE AppliedOrReported(w, cache[p][w])'
  BY DEF ReportsInv, AppliedOrReported
<1>3. ASSUME NEW p \in Procs PROVE RunReports(w, job[p][w])'
  BY DEF ReportsInv, AppliedOrReported, RunReports
<1> QED
  BY <1>1, <1>2, <1>3

LEMMA NoJobReports == ASSUME NEW w PROVE RunReports(w, NoJob) /\ RunReports(w, NoJob)'
BY SpecsAssumption DEF RunReports, NoJob, AppliedOrReported, Absent, NewObject

LEMMA InitReports == Init => ReportsInv
<1> SUFFICES ASSUME Init, NEW w \in Watchers, NEW p \in Procs
             PROVE  /\ AppliedOrReported(w, api[w])
                    /\ AppliedOrReported(w, cache[p][w])
                    /\ RunReports(w, job[p][w])
  <2>1. CASE Procs = {}
    <3>1. ASSUME Init, NEW w \in Watchers PROVE AppliedOrReported(w, api[w])
      BY <3>1 DEF Init, AppliedOrReported, NewObject, Absent
    <3> QED
      BY <2>1, <3>1 DEF ReportsInv
  <2> QED
    BY <2>1 DEF ReportsInv, RunReports
<1>1. api[w].firstCommit = 0 /\ cache[p][w] = api[w] /\ job[p][w] = NoJob
  BY DEF Init, NewObject, Absent
<1> QED
  BY <1>1, NoJobReports DEF AppliedOrReported

LEMMA UserStepReports == ASSUME TypeInv, ReportsInv, UserStep PROVE ReportsInv'
<1>1. UNCHANGED <<commits, cache, job>>
  BY DEF UserStep, CreateWatcher, EditWatcher, DeleteWatcher, Push, ChangeSecret, extVars, workVars
<1>2. ASSUME NEW v \in Watchers, CreateWatcher(v) \/ DeleteWatcher(v)
      PROVE  \A w \in Watchers : api'[w] = api[w] \/ AppliedOrReported(w, api[w])'
  <2>1. \A w \in Watchers \ {v} : api'[w] = api[w]
    BY <1>2 DEF CreateWatcher, DeleteWatcher, Store, TypeInv
  <2>2. api'[v].firstCommit = 0
    BY <1>2 DEF CreateWatcher, DeleteWatcher, Store, TypeInv, NewObject, Absent
  <2> QED
    BY <2>1, <2>2 DEF AppliedOrReported
<1>3. ASSUME NEW v \in Watchers, EditWatcher(v)
      PROVE  \A w \in Watchers : api'[w] = api[w] \/ AppliedOrReported(w, api[w])'
  <2>1. \A w \in Watchers \ {v} : api'[w] = api[w]
    BY <1>3 DEF EditWatcher, Store, TypeInv
  <2>2. /\ api'[v].firstCommit = api[v].firstCommit /\ api'[v].uid = api[v].uid
        /\ api'[v].cond = api[v].cond
    BY <1>3 DEF EditWatcher, Store, TypeInv, Objects
  <2> QED
    BY <1>1, <2>1, <2>2 DEF AppliedOrReported, ReportsInv
<1>4. ASSUME UNCHANGED apiVars
      PROVE  \A w \in Watchers : api'[w] = api[w] \/ AppliedOrReported(w, api[w])'
  BY <1>4 DEF apiVars
<1>5. \A w \in Watchers : api'[w] = api[w] \/ AppliedOrReported(w, api[w])'
  BY <1>2, <1>3, <1>4 DEF UserStep, Push, ChangeSecret
<1> QED
  BY <1>1, <1>5, ReportsPreserved

LEMMA ReplicaStepReports ==
  ASSUME TypeInv, ReportsInv, NEW p \in Procs, ReplicaStep(p) PROVE ReportsInv'
<1>1. UNCHANGED <<api, commits>>
  BY DEF ReplicaStep, Acquire, Stop, Release, Exit, Crash, LoseLease, Renew, GiveUp,
         apiVars, extVars
<1>2. CASE Acquire(p)
  <2>1. PICK list \in {api} \cup {cache[q] : q \in Procs} : cache' = [cache EXCEPT ![p] = list]
    BY <1>2 DEF Acquire
  <2>2. ASSUME NEW q \in Procs, NEW w \in Watchers, cache'[q][w] # cache[q][w]
        PROVE  AppliedOrReported(w, cache[q][w])'
    <3>1. cache'[q][w] = list[w]
      BY <2>1, <2>2 DEF TypeInv
    <3>2. AppliedOrReported(w, list[w])
      BY DEF ReportsInv
    <3> QED
      BY <1>1, <3>1, <3>2 DEF AppliedOrReported
  <2>3. UNCHANGED job
    BY <1>2 DEF Acquire
  <2> QED
    BY <1>1, <2>2, <2>3, ReportsPreserved
<1>3. CASE \/ Stop(p) \/ Release(p) \/ LoseLease(p) \/ Renew(p) \/ GiveUp(p)
  <2>1. UNCHANGED <<cache, job>>
    BY <1>3 DEF Stop, Release, LoseLease, Renew, GiveUp, workVars
  <2> QED
    BY <1>1, <2>1, ReportsPreserved
<1>4. CASE Exit(p) \/ Crash(p)
  <2>1. UNCHANGED cache /\ Idle(p)
    BY <1>4 DEF Exit, Crash
  <2>2. ASSUME NEW q \in Procs, NEW w \in Watchers, job'[q][w] # job[q][w]
        PROVE  RunReports(w, job[q][w])'
    <3>1. job'[q][w] = NoJob
      BY <2>1, <2>2 DEF Idle, TypeInv
    <3> QED
      BY <3>1, NoJobReports DEF RunReports, AppliedOrReported
  <2> QED
    BY <1>1, <2>1, <2>2, ReportsPreserved
<1> QED
  BY <1>2, <1>3, <1>4 DEF ReplicaStep

\* A step of the run for w on p that leaves it with j
LEMMA ReportsOfOne ==
  ASSUME TypeInv, ReportsInv, NEW p \in Procs, NEW w \in Watchers, UNCHANGED <<api, cache>>,
         commits \subseteq commits', NEW j, job' = [job EXCEPT ![p][w] = j],
         RunReports(w, j)'
  PROVE  ReportsInv'
<1>1. ASSUME NEW q \in Procs, NEW v \in Watchers, job'[q][v] # job[q][v]
      PROVE  RunReports(v, job[q][v])'
  <2>1. q = p /\ v = w /\ job'[q][v] = j
    BY <1>1 DEF TypeInv
  <2> QED
    BY <2>1 DEF RunReports, AppliedOrReported
<1> QED
  BY <1>1, ReportsPreserved
\* A run goes on with a copy that is in order unless there is an error to report.
LEMMA GotoReports ==
  ASSUME TypeInv, ReportsInv, NEW p \in Procs, NEW w \in Watchers, UNCHANGED <<api, cache>>,
         commits \subseteq commits', NEW state \in {"ref", "write"}, NEW n \in Objects,
         NEW err \in Errors \cup {NoError}, Goto(p, w, state, n, err),
         state = "ref" => err = NoError,
         err = NoError => AppliedOrReported(w, n)'
  PROVE  ReportsInv'
<1>1. PICK old \in Objects : old = job[p][w].old
  BY RunType
<1>2. PICK j \in Jobs : j = [pc |-> state, old |-> old, new |-> n, err |-> err]
  BY DEF Jobs, Running
<1>3. job' = [job EXCEPT ![p][w] = j]
  BY <1>1, <1>2 DEF Goto, TypeInv
<1>4. RunReports(w, j)'
  BY <1>2 DEF RunReports, AppliedOrReported
<1> QED
  BY <1>3, <1>4, ReportsOfOne

LEMMA BeginReports ==
  ASSUME TypeInv, ReportsInv, NEW p \in Procs, NEW w \in Watchers, Begin(p, w)
  PROVE  ReportsInv'
<1>1. PICK o \in Objects : o = cache[p][w]
  BY DEF TypeInv
<1>2. UNCHANGED <<api, commits, cache>>
  BY DEF Begin, apiVars, extVars
<1>3. CASE UNCHANGED job
  BY <1>2, <1>3, ReportsPreserved
<1>4. CASE job' = [job EXCEPT ![p][w] = [pc |-> FirstStep(o), old |-> o, new |-> o,
                                         err |-> NoError]]
  <2>1. PICK j : j = [pc |-> FirstStep(o), old |-> o, new |-> o, err |-> NoError]
    OBVIOUS
  <2>2. AppliedOrReported(w, o)
    BY <1>1 DEF ReportsInv
  <2>3. RunReports(w, j)'
    BY <1>2, <2>1, <2>2 DEF RunReports, AppliedOrReported
  <2> QED
    BY <1>2, <1>4, <2>1, <2>3, ReportsOfOne
<1> QED
  BY <1>1, <1>3, <1>4 DEF Begin

LEMMA CreateHookReports ==
  ASSUME TypeInv, ReportsInv, NEW p \in Procs, NEW w \in Watchers, CreateHook(p, w)
  PROVE  ReportsInv'
<1>1. PICK o \in Objects : o = job[p][w].new
  BY RunType
<1>2. used["creates"] + 1 \in Nat /\ Len(hooks) + 1 \in Nat
  BY DEF TypeInv, BoundNames
<1>3. PICK n \in Objects : n = [o EXCEPT !.token = used["creates"] + 1]
  BY <1>2, ObjectUpdates, SpecsAssumption
<1>4. PICK m \in Objects : m = [n EXCEPT !.hookID = Len(hooks) + 1]
  BY <1>2, ObjectUpdates, SpecsAssumption
<1>5. UNCHANGED <<api, commits, cache>>
  BY DEF CreateHook, apiVars
<1>6. AppliedOrReported(w, o)
  BY <1>1 DEF CreateHook, ReportsInv
<1>7. \A x \in {n, m} : x.uid = o.uid /\ x.firstCommit = o.firstCommit /\ x.cond = o.cond
  BY <1>3, <1>4 DEF Objects
<1>8. AppliedOrReported(w, n)' /\ AppliedOrReported(w, m)' /\ AppliedOrReported(w, o)'
  BY <1>5, <1>6, <1>7 DEF AppliedOrReported
<1>9. {"secret", "hook", NoError} \subseteq Errors \cup {NoError}
  BY DEF Errors
<1>10. \/ Goto(p, w, "write", o, "secret")
       \/ Goto(p, w, "ref", m, NoError)
       \/ Goto(p, w, "ref", n, NoError)
       \/ Goto(p, w, "write", n, "hook")
  BY <1>1, <1>3, <1>4 DEF CreateHook
<1> QED
  BY <1>5, <1>8, <1>9, <1>10, GotoReports

LEMMA FirstCommitReports ==
  ASSUME TypeInv, ReportsInv, NEW p \in Procs, NEW w \in Watchers,
         GetFirstCommit(p, w) \/ Poll(p, w)
  PROVE  ReportsInv'
<1>1. PICK o \in Objects : o = job[p][w].new
  BY RunType
<1>2. PICK n \in Objects : n = [o EXCEPT !.firstCommit = head[w]]
  <2>1. head[w] \in Nat
    BY DEF TypeInv
  <2> QED
    BY <2>1, ObjectUpdates, SpecsAssumption
<1>3. UNCHANGED <<api, cache>> /\ commits \subseteq commits'
  BY DEF GetFirstCommit, Poll, apiVars, Applied
<1>4. AppliedOrReported(w, o)
  BY <1>1 DEF GetFirstCommit, Poll, ReportsInv
<1>5. AppliedOrReported(w, o)'
  BY <1>3, <1>4 DEF AppliedOrReported
<1>6. commits' = Applied(w, o) => AppliedOrReported(w, n)'
  BY <1>2 DEF Applied, AppliedOrReported, Objects
<1>7. {"ref", "apply", "git", NoError} \subseteq Errors \cup {NoError} /\ NoError # "apply"
  BY DEF Errors, NoError
<1>8. \/ \E err \in Errors \cup {NoError} : Goto(p, w, "write", o, err)
      \/ commits' = Applied(w, o) /\ Goto(p, w, "write", n, NoError)
      \/ Goto(p, w, "write", n, "apply")
  BY <1>1, <1>2, <1>7 DEF GetFirstCommit, Poll
<1> QED
  BY <1>3, <1>5, <1>6, <1>7, <1>8, GotoReports

\* SetError reports what kept the run from applying the first commit.
LEMMA UpdateReports ==
  ASSUME TypeInv, ReportsInv, NEW p \in Procs, NEW w \in Watchers, Update(p, w)
  PROVE  ReportsInv'
<1>1. PICK j \in Jobs : j = job[p][w]
  BY RunType
<1>2. PICK n \in Objects : n = Result(j)
  BY ResultType
<1>3. UNCHANGED <<commits, cache>> /\ job' = [job EXCEPT ![p][w] = NoJob]
  BY DEF Update, extVars, Return
<1>4. AppliedOrReported(w, n)
  <2>1. CASE j.err = NoError
    BY <1>1, <1>2, <2>1 DEF Result, ReportsInv
  <2>2. CASE j.err # NoError
    <3>1. n.cond = j.err
      BY <1>2, <2>2 DEF Result, Jobs, Objects
    <3> QED
      BY <2>2, <3>1 DEF AppliedOrReported
  <2> QED
    BY <2>1, <2>2
<1>5. UNCHANGED api \/ Store(w, [n EXCEPT !.rv = ver[w] + 1])
  BY <1>1, <1>2 DEF Update, apiVars
<1>6. \A v \in Watchers : api'[v] = api[v] \/ AppliedOrReported(v, api[v])'
  <2>1. CASE UNCHANGED api
    BY <2>1
  <2>2. CASE Store(w, [n EXCEPT !.rv = ver[w] + 1])
    <3>1. \A v \in Watchers \ {w} : api'[v] = api[v]
      BY <2>2 DEF Store, TypeInv
    <3>2. api'[w].uid = n.uid /\ api'[w].firstCommit = n.firstCommit /\ api'[w].cond = n.cond
      BY <2>2 DEF Store, TypeInv, Objects
    <3> QED
      BY <1>3, <1>4, <3>1, <3>2 DEF AppliedOrReported
  <2> QED
    BY <1>5, <2>1, <2>2
<1>7. ASSUME NEW q \in Procs, NEW v \in Watchers, job'[q][v] # job[q][v]
      PROVE  RunReports(v, job[q][v])'
  <2>1. job'[q][v] = NoJob
    BY <1>3, <1>7 DEF TypeInv
  <2> QED
    BY <2>1, NoJobReports DEF RunReports, AppliedOrReported
<1> QED
  BY <1>3, <1>6, <1>7, ReportsPreserved

LEMMA NextReports == TypeInv /\ ReportsInv /\ [Next]_vars => ReportsInv'
<1> SUFFICES ASSUME TypeInv, ReportsInv, [Next]_vars PROVE ReportsInv'
  OBVIOUS
<1>1. ASSUME UNCHANGED <<api, commits, cache, job>> PROVE ReportsInv'
  BY <1>1, ReportsPreserved
<1>2. ASSUME NEW p \in Procs, NEW w \in Watchers, CacheSync(p, w) PROVE ReportsInv'
  <2>1. UNCHANGED <<api, commits, job>>
    BY <1>2 DEF CacheSync, apiVars, extVars
  <2>2. ASSUME NEW q \in Procs, NEW v \in Watchers, cache'[q][v] # cache[q][v]
        PROVE  AppliedOrReported(v, cache[q][v])'
    <3>1. cache'[q][v] = api[v]
      BY <1>2, <2>2 DEF CacheSync, TypeInv
    <3> QED
      BY <2>1, <3>1 DEF ReportsInv, AppliedOrReported
  <2> QED
    BY <2>1, <2>2, ReportsPreserved
<1>3. ASSUME NEW p \in Procs, NEW w \in Watchers, RunStep(p, w) PROVE ReportsInv'
  BY <1>3, BeginReports, CreateHookReports, FirstCommitReports, UpdateReports DEF RunStep
<1>4. ASSUME NEW p \in Procs, Tick(p) PROVE ReportsInv'
  BY <1>1, <1>4 DEF Tick, apiVars, extVars
<1>5. CASE Expire
  BY <1>1, <1>5 DEF Expire, apiVars, extVars, workVars
<1>6. CASE UNCHANGED vars
  BY <1>1, <1>6 DEF vars, apiVars, extVars, workVars
<1>7. ASSUME NEW p \in Procs, Relist(p) PROVE ReportsInv'
  <2>1. UNCHANGED <<api, commits, job>>
    BY <1>7, RelistFacts DEF apiVars
  <2>2. ASSUME NEW q \in Procs, NEW v \in Watchers PROVE AppliedOrReported(v, cache[q][v])'
    <3>1. PICK r \in Procs : cache'[q][v] = cache[r][v]
      BY <1>7, RelistFacts
    <3> QED
      BY <2>1, <3>1 DEF ReportsInv, AppliedOrReported
  <2> QED
    BY <2>1, <2>2, ReportsPreserved
<1> QED
  BY <1>2, <1>3, <1>4, <1>5, <1>6, <1>7, UserStepReports, ReplicaStepReports DEF Next

\* A recorded first commit has its GitCommit, or the Registered condition says
\* that something went wrong.
THEOREM FirstCommitsReported == Spec => []FirstCommitAppliedOrReported
<1>1. ReportsInv => FirstCommitAppliedOrReported
  BY DEF ReportsInv, FirstCommitAppliedOrReported
<1> QED
  BY <1>1, InitType, NextType, InitReports, NextReports, PTL DEF Spec
-----------------------------------------------------------------------------
(* Registration *)

\* What the refinement needs besides IInv: identities and tokens were given out
\* before.  A run asks for a hook on behalf of an object, and the token it is about
\* to record is the one it read or one that it drew.
RunKnown(w, j) == /\ j.new.uid <= ver[w]
                  /\ j.pc = "create" => Present(j.new)
                  /\ j.new.token = j.old.token \/ j.new.token \in 1 .. used["creates"]

IdentitiesInv ==
  /\ \A w \in Watchers :
       /\ api[w].uid <= ver[w]
       /\ \A p \in Procs : cache[p][w].uid <= ver[w] /\ RunKnown(w, job[p][w])
  /\ \A h \in DOMAIN hooks : hooks[h].secret \in 1 .. used["creates"]
  /\ used["creates"] <= MaxCreates

\* Versions and tokens only grow, and tokens stay within their bound.
Grows == /\ \A w \in Watchers : ver[w] <= ver'[w]
         /\ used["creates"] <= used'["creates"]
         /\ used["creates"] <= MaxCreates => used'["creates"] <= MaxCreates

LEMMA SpendGrows ==
  ASSUME TypeInv, NEW S, Spend(S)
  PROVE  /\ used'["creates"] = IF "creates" \in S THEN used["creates"] + 1 ELSE used["creates"]
         /\ "creates" \in S => used["creates"] < MaxCreates
BY DEF Spend, BoundNames, Bounds, TypeInv

LEMMA StepsGrow ==
  ASSUME TypeInv, \/ UNCHANGED apiVars
                  \/ \E w \in Watchers, o \in Objects : Store(w, o),
         UNCHANGED used \/ \E S : Spend(S)
  PROVE  Grows
<1>1. used["creates"] \in Nat /\ MaxCreates \in Nat /\ \A w \in Watchers : ver[w] \in Nat
  BY BoundsAssumption DEF TypeInv, BoundNames
<1>2. \A w \in Watchers : ver[w] <= ver'[w]
  <2>1. CASE UNCHANGED apiVars
    BY <1>1, <2>1 DEF apiVars
  <2>2. ASSUME NEW w \in Watchers, NEW o \in Objects, Store(w, o)
        PROVE  \A v \in Watchers : ver[v] <= ver'[v]
    <3>1. ver \in [Watchers -> Nat] /\ ver' = [ver EXCEPT ![w] = @ + 1]
      BY <2>2 DEF Store, TypeInv
    <3> QED
      BY <3>1
  <2> QED
    BY <2>1, <2>2
<1>3. /\ used["creates"] <= used'["creates"]
      /\ used["creates"] <= MaxCreates => used'["creates"] <= MaxCreates
  <2>1. CASE UNCHANGED used
    BY <1>1, <2>1
  <2>2. ASSUME NEW S, Spend(S)
        PROVE  /\ used["creates"] <= used'["creates"]
               /\ used["creates"] <= MaxCreates => used'["creates"] <= MaxCreates
    BY <1>1, <2>2, SpendGrows
  <2> QED
    BY <2>1, <2>2
<1> QED
  BY <1>2, <1>3 DEF Grows

LEMMA KnownStaysKnown ==
  ASSUME TypeInv, TypeInv', Grows, NEW w \in Watchers, NEW j \in Jobs, RunKnown(w, j)
  PROVE  RunKnown(w, j)'
<1>1. j.new \in Objects /\ j.new.uid \in Nat /\ j.new.token \in Nat
  BY DEF Jobs, Objects
<1>2. /\ ver[w] \in Nat /\ ver'[w] \in Nat
      /\ used["creates"] \in Nat /\ used'["creates"] \in Nat
  BY DEF TypeInv, BoundNames
<1> QED
  BY <1>1, <1>2 DEF RunKnown, Grows

\* What is left to show of an action: that the objects, caches and runs it replaces
\* and the hooks it leaves are in order.
LEMMA IdentitiesPreserved ==
  ASSUME TypeInv, TypeInv', IdentitiesInv, Grows,
         \A w \in Watchers : api'[w] = api[w] \/ api'[w].uid <= ver'[w],
         \A p \in Procs, w \in Watchers :
           cache'[p][w] = cache[p][w] \/ cache'[p][w].uid <= ver'[w],
         \A p \in Procs, w \in Watchers : job'[p][w] = job[p][w] \/ RunKnown(w, job[p][w])',
         UNCHANGED hooks \/ \A h \in DOMAIN hooks' : hooks'[h].secret \in 1 .. used'["creates"]
  PROVE  IdentitiesInv'
<1>1. /\ used["creates"] \in Nat /\ used'["creates"] \in Nat /\ MaxCreates \in Nat
      /\ used["creates"] <= used'["creates"] /\ used'["creates"] <= MaxCreates
  BY BoundsAssumption DEF TypeInv, BoundNames, Grows, IdentitiesInv
<1>2. \A h \in DOMAIN hooks' : hooks'[h].secret \in 1 .. used'["creates"]
  <2>1. CASE UNCHANGED hooks
    <3>1. \A h \in DOMAIN hooks : hooks[h] \in Hooks
      BY DEF TypeInv
    <3> QED
      BY <1>1, <2>1, <3>1 DEF IdentitiesInv, Hooks
  <2> QED
    BY <2>1
<1>3. ASSUME NEW w \in Watchers
      PROVE  /\ api'[w].uid <= ver'[w]
             /\ \A p \in Procs : cache'[p][w].uid <= ver'[w] /\ RunKnown(w, job[p][w])'
  <2>1. ver[w] \in Nat /\ ver'[w] \in Nat /\ ver[w] <= ver'[w]
    BY DEF TypeInv, Grows
  <2>2. api[w].uid \in Nat /\ \A p \in Procs : cache[p][w].uid \in Nat
    <3>1. api[w] \in Objects /\ \A p \in Procs : cache[p][w] \in Objects
      BY DEF TypeInv
    <3> QED
      BY <3>1 DEF Objects
  <2>3. api'[w].uid <= ver'[w] /\ \A p \in Procs : cache'[p][w].uid <= ver'[w]
    BY <2>1, <2>2 DEF IdentitiesInv
  <2>4. ASSUME NEW p \in Procs PROVE RunKnown(w, job[p][w])'
    <3>1. PICK j \in Jobs : j = job[p][w]
      BY RunType
    <3>2. RunKnown(w, j)'
      BY <3>1, KnownStaysKnown DEF IdentitiesInv
    <3> QED
      BY <3>1, <3>2 DEF RunKnown
  <2> QED
    BY <2>3, <2>4
<1> QED
  BY <1>1, <1>2, <1>3 DEF IdentitiesInv

LEMMA InitIdentities == Init => IdentitiesInv
<1> SUFFICES ASSUME Init PROVE IdentitiesInv
  OBVIOUS
<1>1. used["creates"] = 0 /\ 0 <= MaxCreates /\ hooks = <<>>
  BY BoundsAssumption DEF Init, BoundNames
<1>2. ASSUME NEW w \in Watchers
      PROVE  /\ api[w].uid <= ver[w]
             /\ \A p \in Procs : cache[p][w].uid <= ver[w] /\ RunKnown(w, job[p][w])
  <2>1. api[w].uid \in {0, 1} /\ ver[w] = 1
    BY <1>2 DEF Init, Absent, NewObject
  <2>2. Absent.uid = 0
    BY DEF Absent, NewObject
  <2>3. RunKnown(w, NoJob)
    BY <2>1, <2>2 DEF RunKnown, NoJob
  <2> QED
    BY <2>1, <2>3 DEF Init
<1> QED
  BY <1>1, <1>2 DEF IdentitiesInv

LEMMA NoJobKnown ==
  ASSUME TypeInv', NEW w \in Watchers, NEW p, job'[p][w] = NoJob
  PROVE  RunKnown(w, job[p][w])'
<1>1. ver'[w] \in Nat
  BY DEF TypeInv
<1>2. Absent.uid = 0
  BY DEF Absent, NewObject
<1> QED
  BY <1>1, <1>2 DEF RunKnown, NoJob

\* What the API server stores has an identity it gave out.
LEMMA StoredIdentity ==
  ASSUME TypeInv, IdentitiesInv, NEW v \in Watchers, NEW x \in Objects, Store(v, x),
         x.uid <= ver[v] + 1
  PROVE  \A w \in Watchers : api'[w] = api[w] \/ api'[w].uid <= ver'[w]
BY DEF Store, TypeInv

LEMMA UserStepIdentities ==
  ASSUME TypeInv, TypeInv', IdentitiesInv, UserStep PROVE IdentitiesInv'
<1>1. UNCHANGED <<hooks, cache, job>> /\ (UNCHANGED used \/ \E S : Spend(S))
  BY DEF UserStep, CreateWatcher, EditWatcher, DeleteWatcher, Push, ChangeSecret, Use,
         extVars, workVars
<1>2. \/ UNCHANGED apiVars
      \/ \E v \in Watchers, x \in Objects : Store(v, x) /\ x.uid <= ver[v] + 1
  <2>1. ASSUME NEW v \in Watchers, CreateWatcher(v)
        PROVE  \E x \in Objects : Store(v, x) /\ x.uid <= ver[v] + 1
    <3>1. PICK s \in Specs : Store(v, NewObject(ver[v] + 1, s))
      BY <2>1 DEF CreateWatcher
    <3>2. ver[v] + 1 \in Nat
      BY DEF TypeInv
    <3>3. NewObject(ver[v] + 1, s) \in Objects /\ NewObject(ver[v] + 1, s).uid = ver[v] + 1
      BY <3>2, NewObjectType DEF NewObject
    <3> QED
      BY <3>1, <3>2, <3>3
  <2>2. ASSUME NEW v \in Watchers, EditWatcher(v)
        PROVE  \E x \in Objects : Store(v, x) /\ x.uid <= ver[v] + 1
    <3>1. PICK s \in Specs : Store(v, [api[v] EXCEPT !.rv = ver[v] + 1, !.spec = s])
      BY <2>2 DEF EditWatcher
    <3>2. PICK o \in Objects : o = api[v]
      BY DEF TypeInv
    <3>3. ver[v] \in Nat /\ o.uid \in Nat /\ o.uid <= ver[v]
      BY <3>2 DEF TypeInv, Objects, IdentitiesInv
    <3>4. PICK x \in Objects : x = [o EXCEPT !.rv = ver[v] + 1, !.spec = s]
      <4>1. ver[v] + 1 \in Nat
        BY <3>3
      <4> QED
        BY <4>1, ObjectUpdates
    <3>5. x.uid <= ver[v] + 1
      BY <3>3, <3>4 DEF Objects
    <3> QED
      BY <3>1, <3>2, <3>4, <3>5
  <2>3. ASSUME NEW v \in Watchers, DeleteWatcher(v)
        PROVE  \E x \in Objects : Store(v, x) /\ x.uid <= ver[v] + 1
    <3>1. Absent.uid = 0 /\ ver[v] \in Nat
      BY DEF Absent, NewObject, TypeInv
    <3> QED
      BY <2>3, <3>1, AbsentType DEF DeleteWatcher
  <2>4. ASSUME NEW v, Push(v) PROVE UNCHANGED apiVars
    BY <2>4 DEF Push
  <2>5. ASSUME NEW n, ChangeSecret(n) PROVE UNCHANGED apiVars
    BY <2>5 DEF ChangeSecret
  <2> QED
    BY <2>1, <2>2, <2>3, <2>4, <2>5 DEF UserStep
<1>3. Grows
  BY <1>1, <1>2, StepsGrow
<1>4. \A w \in Watchers : api'[w] = api[w] \/ api'[w].uid <= ver'[w]
  BY <1>2, StoredIdentity DEF apiVars
<1> QED
  BY <1>1, <1>3, <1>4, IdentitiesPreserved

LEMMA ReplicaStepIdentities ==
  ASSUME TypeInv, TypeInv', IdentitiesInv, NEW p \in Procs, ReplicaStep(p)
  PROVE  IdentitiesInv'
<1>1. UNCHANGED <<apiVars, hooks>> /\ (UNCHANGED used \/ \E S : Spend(S))
  BY DEF ReplicaStep, Acquire, Stop, Release, Exit, Crash, LoseLease, Renew, GiveUp, extVars, Use
<1>2. Grows
  BY <1>1, StepsGrow
<1>3. \A q \in Procs, w \in Watchers :
        cache'[q][w] = cache[q][w] \/ cache'[q][w].uid <= ver'[w]
  <2>1. CASE UNCHANGED cache
    BY <2>1
  <2>2. CASE Acquire(p)
    <3>1. PICK list \in {api} \cup {cache[q] : q \in Procs} : cache' = [cache EXCEPT ![p] = list]
      BY <2>2 DEF Acquire
    <3>2. \A w \in Watchers : list[w].uid <= ver'[w]
      BY <1>1, <3>1 DEF IdentitiesInv, apiVars
    <3> QED
      BY <3>1, <3>2 DEF TypeInv
  <2> QED
    BY <2>1, <2>2 DEF ReplicaStep, Stop, Release, Exit, Crash, LoseLease, Renew, GiveUp, workVars
<1>4. \A q \in Procs, w \in Watchers : job'[q][w] = job[q][w] \/ RunKnown(w, job[q][w])'
  <2>1. CASE UNCHANGED job
    BY <2>1
  <2>2. CASE Idle(p)
    <3>1. \A q \in Procs, w \in Watchers : job'[q][w] = job[q][w] \/ job'[q][w] = NoJob
      BY <2>2 DEF Idle, TypeInv
    <3> QED
      BY <3>1, NoJobKnown
  <2> QED
    BY <2>1, <2>2
    DEF ReplicaStep, Acquire, Stop, Release, Exit, Crash, LoseLease, Renew, GiveUp, workVars
<1> QED
  BY <1>1, <1>2, <1>3, <1>4, IdentitiesPreserved DEF apiVars

\* Begin, CreateHook, GetFirstCommit and Poll change the run of w on p.
LEMMA IdentitiesOfOne ==
  ASSUME TypeInv, TypeInv', IdentitiesInv, NEW p \in Procs, NEW w \in Watchers,
         UNCHANGED <<apiVars, cache>>, UNCHANGED used \/ \E S : Spend(S),
         UNCHANGED hooks \/ \A h \in DOMAIN hooks' : hooks'[h].secret \in 1 .. used'["creates"],
         NEW j \in Jobs, job' = [job EXCEPT ![p][w] = j], RunKnown(w, j)'
  PROVE  IdentitiesInv'
<1>1. Grows
  BY StepsGrow
<1>2. ASSUME NEW q \in Procs, NEW v \in Watchers, job'[q][v] # job[q][v]
      PROVE  RunKnown(v, job[q][v])'
  <2>1. v = w /\ job'[q][v] = j
    BY <1>2 DEF TypeInv
  <2> QED
    BY <2>1 DEF RunKnown
<1> QED
  BY <1>1, <1>2, IdentitiesPreserved DEF apiVars

LEMMA BeginIdentities ==
  ASSUME TypeInv, TypeInv', IdentitiesInv, NEW p \in Procs, NEW w \in Watchers, Begin(p, w)
  PROVE  IdentitiesInv'
<1>1. PICK o \in Objects : o = cache[p][w]
  BY DEF TypeInv
<1>2. UNCHANGED <<apiVars, cache, hooks>> /\ \E S : Spend(S)
  BY DEF Begin, extVars
<1>3. Grows
  BY <1>2, StepsGrow
<1>4. CASE UNCHANGED job
  BY <1>2, <1>3, <1>4, IdentitiesPreserved DEF apiVars
<1>5. CASE ~(UNCHANGED job)
  <2>1. /\ FirstStep(o) # "idle"
        /\ job' = [job EXCEPT ![p][w] = [pc |-> FirstStep(o), old |-> o, new |-> o,
                                         err |-> NoError]]
    BY <1>1, <1>5 DEF Begin
  <2>2. FirstStep(o) \in Running /\ (FirstStep(o) = "create" => Present(o))
    BY <2>1 DEF FirstStep, Running
  <2>3. PICK j \in Jobs : j = [pc |-> FirstStep(o), old |-> o, new |-> o, err |-> NoError]
    BY <2>2 DEF Jobs
  <2>4. o.uid <= ver'[w]
    BY <1>1, <1>2 DEF IdentitiesInv, apiVars
  <2>5. RunKnown(w, j)'
    BY <2>2, <2>3, <2>4 DEF RunKnown, Present
  <2> QED
    BY <1>2, <2>1, <2>3, <2>5, IdentitiesOfOne
<1> QED
  BY <1>4, <1>5

\* A run goes on with a copy of the same identity.
LEMMA GotoIdentities ==
  ASSUME TypeInv, TypeInv', IdentitiesInv, NEW p \in Procs, NEW w \in Watchers,
         UNCHANGED <<apiVars, cache>>, UNCHANGED used \/ \E S : Spend(S),
         UNCHANGED hooks \/ \A h \in DOMAIN hooks' : hooks'[h].secret \in 1 .. used'["creates"],
         NEW state \in {"ref", "write"}, NEW n \in Objects, NEW err \in Errors \cup {NoError},
         Goto(p, w, state, n, err), n.uid = job[p][w].new.uid,
         n.token = job[p][w].new.token \/ n.token \in 1 .. used'["creates"]
  PROVE  IdentitiesInv'
<1>1. PICK old \in Objects, o \in Objects : old = job[p][w].old /\ o = job[p][w].new
  BY RunType
<1>2. PICK j \in Jobs : j = [pc |-> state, old |-> old, new |-> n, err |-> err]
  BY DEF Jobs, Running
<1>3. job' = [job EXCEPT ![p][w] = j]
  BY <1>1, <1>2 DEF Goto, TypeInv
<1>4. /\ o.uid <= ver[w] /\ ver'[w] = ver[w]
      /\ o.token = old.token \/ o.token \in 1 .. used["creates"]
  BY <1>1 DEF IdentitiesInv, RunKnown, apiVars
<1>5. used["creates"] \in Nat /\ used'["creates"] \in Nat /\ used["creates"] <= used'["creates"]
  <2>1. Grows
    BY StepsGrow
  <2> QED
    BY <2>1 DEF Grows, TypeInv, BoundNames
<1>6. o.token = old.token \/ o.token \in 1 .. used'["creates"]
  BY <1>4, <1>5
<1>7. RunKnown(w, j)'
  BY <1>1, <1>2, <1>4, <1>6 DEF RunKnown
<1> QED
  BY <1>2, <1>3, <1>7, IdentitiesOfOne

\* A hook that is asked for is made, if at all, with the next token.
LEMMA CreateHookDoes ==
  ASSUME TypeInv, NEW p \in Procs, NEW w \in Watchers, CreateHook(p, w)
  PROVE  \/ UNCHANGED hooks
         \/ /\ used["creates"] < MaxCreates
            /\ used'["creates"] = used["creates"] + 1
            /\ hooks' = Append(hooks, [of |-> w, uid |-> job[p][w].new.uid,
                                       secret |-> used["creates"] + 1])
<1>1. PICK o \in Objects : o = job[p][w].new
  BY RunType
<1>2. PICK n : n = [o EXCEPT !.token = used["creates"] + 1]
  OBVIOUS
<1>3. NewHook(w, n) = [of |-> w, uid |-> o.uid, secret |-> used["creates"] + 1]
  BY <1>2 DEF NewHook, Objects
<1>4. \/ UNCHANGED hooks
      \/ hooks' = Append(hooks, NewHook(w, n)) /\ \E S : "creates" \in S /\ Spend(S)
  BY <1>1, <1>2 DEF CreateHook
<1>5. UNCHANGED hooks \/ hooks' = Append(hooks, NewHook(w, n))
  BY <1>4
<1>6. ASSUME NEW S, "creates" \in S, Spend(S)
      PROVE  used["creates"] < MaxCreates /\ used'["creates"] = used["creates"] + 1
  BY <1>6, SpendGrows
<1> QED
  BY <1>1, <1>3, <1>4, <1>6

LEMMA CreateHookIdentities ==
  ASSUME TypeInv, TypeInv', IdentitiesInv, NEW p \in Procs, NEW w \in Watchers, CreateHook(p, w)
  PROVE  IdentitiesInv'
<1>1. PICK o \in Objects : o = job[p][w].new
  BY RunType
<1>2. used["creates"] \in Nat /\ Len(hooks) \in Nat /\ hooks \in Seq(Hooks)
  BY DEF TypeInv, BoundNames
<1>3. PICK n \in Objects : n = [o EXCEPT !.token = used["creates"] + 1]
  <2>1. used["creates"] + 1 \in Nat
    BY <1>2
  <2> QED
    BY <2>1, ObjectUpdates, SpecsAssumption
<1>4. PICK m \in Objects : m = [n EXCEPT !.hookID = Len(hooks) + 1]
  <2>1. Len(hooks) + 1 \in Nat
    BY <1>2
  <2> QED
    BY <2>1, ObjectUpdates, SpecsAssumption
<1>5. n.uid = o.uid /\ m.uid = o.uid /\ m.token = n.token /\ n.token = used["creates"] + 1
  BY <1>3, <1>4 DEF Objects
<1>6. UNCHANGED <<apiVars, cache>> /\ (UNCHANGED used \/ \E S : Spend(S))
  BY DEF CreateHook
<1>7. UNCHANGED hooks \/ \A h \in DOMAIN hooks' : hooks'[h].secret \in 1 .. used'["creates"]
  <2>1. SUFFICES ASSUME ~(UNCHANGED hooks)
                 PROVE  \A h \in DOMAIN hooks' : hooks'[h].secret \in 1 .. used'["creates"]
    OBVIOUS
  <2>2. PICK x : x = [of |-> w, uid |-> o.uid, secret |-> used["creates"] + 1]
    OBVIOUS
  <2>3. hooks' = Append(hooks, x) /\ used'["creates"] = used["creates"] + 1
    BY <1>1, <2>1, <2>2, CreateHookDoes
  <2>4. \A h \in DOMAIN hooks : hooks[h].secret \in 1 .. used["creates"]
    BY DEF IdentitiesInv
  <2>5. \A h \in DOMAIN hooks' : hooks'[h] = x \/ (h \in DOMAIN hooks /\ hooks'[h] = hooks[h])
    BY <1>2, <2>3
  <2>6. x.secret \in 1 .. used'["creates"]
    BY <1>2, <2>2, <2>3
  <2> QED
    BY <1>2, <2>3, <2>4, <2>5, <2>6
<1>8. {"secret", "hook", NoError} \subseteq Errors \cup {NoError}
  BY DEF Errors
<1>9. \/ Goto(p, w, "write", o, "secret")
      \/ \E state \in {"ref", "write"}, x \in {n, m}, err \in {"hook", NoError} :
           /\ Goto(p, w, state, x, err)
           /\ \E S : "creates" \in S /\ Spend(S)
  BY <1>1, <1>3, <1>4 DEF CreateHook
<1>10. ASSUME NEW S, "creates" \in S, Spend(S) PROVE n.token \in 1 .. used'["creates"]
  BY <1>2, <1>5, <1>10, SpendGrows
<1> QED
  BY <1>1, <1>5, <1>6, <1>7, <1>8, <1>9, <1>10, GotoIdentities

LEMMA FirstCommitIdentities ==
  ASSUME TypeInv, TypeInv', IdentitiesInv, NEW p \in Procs, NEW w \in Watchers,
         GetFirstCommit(p, w) \/ Poll(p, w)
  PROVE  IdentitiesInv'
<1>1. PICK o \in Objects : o = job[p][w].new
  BY RunType
<1>2. PICK n \in Objects : n = [o EXCEPT !.firstCommit = head[w]]
  <2>1. head[w] \in Nat
    BY DEF TypeInv
  <2> QED
    BY <2>1, ObjectUpdates, SpecsAssumption
<1>3. UNCHANGED <<apiVars, cache, hooks>> /\ (UNCHANGED used \/ \E S : Spend(S))
  BY DEF GetFirstCommit, Poll
<1>4. n.uid = o.uid /\ n.token = o.token
  BY <1>2 DEF Objects
<1>5. {"ref", "apply", "git", NoError} \subseteq Errors \cup {NoError}
  BY DEF Errors
<1>6. \E x \in {o, n}, err \in Errors \cup {NoError} : Goto(p, w, "write", x, err)
  BY <1>1, <1>2, <1>5 DEF GetFirstCommit, Poll
<1> QED
  BY <1>1, <1>3, <1>4, <1>6, GotoIdentities

\* What an Update stores, seen from Registration: the object it read, with a hook that
\* was made with the token beside it if it had none.
LEMMA UpdateRecords ==
  ASSUME TypeInv, IInv, IdentitiesInv, NEW p \in Procs, NEW w \in Watchers, Update(p, w),
         ~(UNCHANGED apiVars)
  PROVE  \E x \in Objects :
           /\ Store(w, x) /\ UNCHANGED hooks
           /\ Present(api[w]) /\ x.uid = api[w].uid
           /\ Signs(w, x)
           /\ api[w].hookID # 0 => x.hookID = api[w].hookID /\ x.token = api[w].token
           /\ x.token = api[w].token \/ x.token \in 1 .. used["creates"]
<1>1. PICK x \in Objects : /\ Stored(w, x)
                           /\ Present(api[w])
                           /\ Keeps(api[w], [x EXCEPT !.rv = api[w].rv])
                           /\ job[p][w].old = api[w] /\ job[p][w].new.token = x.token
  BY UpdateStores
<1>2. PICK o \in Objects : o = api[w]
  BY DEF TypeInv
<1>3. /\ x.uid = o.uid
      /\ o.hookID # 0 => x.hookID = o.hookID /\ x.token = o.token
  BY <1>1, <1>2 DEF Keeps, Objects
<1>4. x.token = o.token \/ x.token \in 1 .. used["creates"]
  BY <1>1, <1>2 DEF IdentitiesInv, RunKnown
<1> QED
  BY <1>1, <1>2, <1>3, <1>4 DEF Stored

LEMMA UpdateIdentities ==
  ASSUME TypeInv, TypeInv', IInv, IdentitiesInv, NEW p \in Procs, NEW w \in Watchers, Update(p, w)
  PROVE  IdentitiesInv'
<1>1. UNCHANGED <<cache, hooks>> /\ (UNCHANGED used \/ \E S : Spend(S))
  BY DEF Update, extVars
<1>2. \/ UNCHANGED apiVars
      \/ \E x \in Objects : Store(w, x) /\ x.uid <= ver[w] + 1
  <2>1. api[w].uid \in Nat /\ ver[w] \in Nat /\ api[w].uid <= ver[w]
    <3>1. api[w] \in Objects
      BY DEF TypeInv
    <3> QED
      BY <3>1 DEF Objects, TypeInv, IdentitiesInv
  <2> QED
    BY <2>1, UpdateRecords
<1>3. Grows
  BY <1>1, <1>2, StepsGrow
<1>4. \A v \in Watchers : api'[v] = api[v] \/ api'[v].uid <= ver'[v]
  BY <1>2, StoredIdentity DEF apiVars
<1>5. \A q \in Procs, v \in Watchers : job'[q][v] = job[q][v] \/ RunKnown(v, job[q][v])'
  <2>1. job' = [job EXCEPT ![p][w] = NoJob]
    BY DEF Update, Return
  <2>2. \A q \in Procs, v \in Watchers : job'[q][v] = job[q][v] \/ job'[q][v] = NoJob
    BY <2>1 DEF TypeInv
  <2> QED
    BY <2>2, NoJobKnown
<1> QED
  BY <1>1, <1>3, <1>4, <1>5, IdentitiesPreserved

LEMMA NextIdentities == TypeInv /\ IInv /\ IdentitiesInv /\ [Next]_vars => IdentitiesInv'
<1> SUFFICES ASSUME TypeInv, IInv, IdentitiesInv, [Next]_vars PROVE IdentitiesInv'
  OBVIOUS
<1>1. TypeInv'
  BY NextType
<1>2. CASE UserStep
  BY <1>1, <1>2, UserStepIdentities
<1>3. ASSUME NEW p \in Procs, ReplicaStep(p) PROVE IdentitiesInv'
  BY <1>1, <1>3, ReplicaStepIdentities
<1>4. ASSUME UNCHANGED <<apiVars, hooks, cache, job, used>> PROVE IdentitiesInv'
  <2>1. Grows
    BY <1>4, StepsGrow
  <2> QED
    BY <1>1, <1>4, <2>1, IdentitiesPreserved DEF apiVars
<1>5. ASSUME NEW p \in Procs, NEW w \in Watchers, CacheSync(p, w) PROVE IdentitiesInv'
  <2>1. UNCHANGED <<apiVars, hooks, job, used>> /\ cache' = [cache EXCEPT ![p][w] = api[w]]
    BY <1>5 DEF CacheSync, extVars
  <2>2. Grows
    BY <2>1, StepsGrow
  <2>3. \A q \in Procs, v \in Watchers :
          cache'[q][v] = cache[q][v] \/ (v = w /\ cache'[q][v] = api[w])
    BY <2>1 DEF TypeInv
  <2>4. api[w].uid <= ver'[w]
    BY <2>1 DEF IdentitiesInv, apiVars
  <2> QED
    BY <1>1, <2>1, <2>2, <2>3, <2>4, IdentitiesPreserved DEF apiVars
<1>6. ASSUME NEW p \in Procs, NEW w \in Watchers, RunStep(p, w) PROVE IdentitiesInv'
  BY <1>1, <1>6, BeginIdentities, CreateHookIdentities, FirstCommitIdentities, UpdateIdentities
  DEF RunStep
<1>7. ASSUME NEW p \in Procs, Tick(p) PROVE IdentitiesInv'
  BY <1>4, <1>7 DEF Tick, extVars
<1>8. CASE Expire
  BY <1>4, <1>8 DEF Expire, extVars, workVars
<1>9. CASE UNCHANGED vars
  BY <1>4, <1>9 DEF vars, extVars, workVars
<1>10. ASSUME NEW p \in Procs, Relist(p) PROVE IdentitiesInv'
  <2>1. UNCHANGED <<apiVars, hooks, job>> /\ \E S : Spend(S)
    BY <1>10, RelistFacts
  <2>2. Grows
    BY <2>1, StepsGrow
  <2>3. ASSUME NEW q \in Procs, NEW v \in Watchers PROVE cache'[q][v].uid <= ver'[v]
    <3>1. PICK r \in Procs : cache'[q][v] = cache[r][v]
      BY <1>10, RelistFacts
    <3> QED
      BY <2>1, <3>1 DEF IdentitiesInv, apiVars
  <2> QED
    BY <1>1, <2>1, <2>2, <2>3, IdentitiesPreserved DEF apiVars
<1> QED
  BY <1>2, <1>3, <1>5, <1>6, <1>7, <1>8, <1>9, <1>10 DEF Next

LEMMA IdentitiesHold == Spec => [](TypeInv /\ IInv /\ IdentitiesInv)
BY InitType, NextType, InitInv, NextInv, InitIdentities, NextIdentities, PTL DEF Spec

-----------------------------------------------------------------------------
(* Every step is one of Registration's, or none that it sees *)

LEMMA StoreMaps ==
  ASSUME TypeInv, NEW w \in Watchers, NEW o, Store(w, o), UNCHANGED hooks
  PROVE  Reg!Store(w, RegistrationOf(o))
BY DEF Store, Reg!Store, TypeInv

LEMMA AbsentMaps ==
  /\ RegistrationOf(Absent) = Reg!NoWatcher
  /\ \A uid, s : RegistrationOf(NewObject(uid, s)) = Reg!New(uid)
BY DEF RegistrationOf, Absent, NewObject, Reg!NoWatcher, Reg!New

LEMMA UserStepMaps ==
  ASSUME TypeInv, UserStep PROVE Reg!Next \/ UNCHANGED Reg!vars
<1> DEFINE regOf == [v \in Watchers |-> RegistrationOf(api[v])]
<1>1. ASSUME NEW w \in Watchers, CreateWatcher(w) PROVE Reg!Create(w)
  <2>1. PICK s \in Specs : Store(w, NewObject(ver[w] + 1, s))
    BY <1>1 DEF CreateWatcher
  <2>2. UNCHANGED hooks /\ api[w].uid = 0
    BY <1>1 DEF CreateWatcher, extVars, Present
  <2>3. Reg!Store(w, Reg!New(ver[w] + 1))
    BY <2>1, <2>2, StoreMaps, AbsentMaps
  <2>4. regOf[w].uid = 0
    BY <2>2 DEF RegistrationOf
  <2> QED
    BY <2>3, <2>4 DEF Reg!Create
<1>2. ASSUME NEW w \in Watchers, EditWatcher(w) PROVE Reg!Change(w)
  <2>1. PICK s \in Specs : Store(w, [api[w] EXCEPT !.rv = ver[w] + 1, !.spec = s])
    BY <1>2 DEF EditWatcher
  <2>2. UNCHANGED hooks /\ api[w].uid # 0 /\ api[w] \in Objects
    BY <1>2 DEF EditWatcher, extVars, Present, TypeInv
  <2>3. RegistrationOf([api[w] EXCEPT !.rv = ver[w] + 1, !.spec = s]) = regOf[w]
    BY <2>2 DEF RegistrationOf, Objects
  <2>4. Reg!Store(w, regOf[w])
    BY <2>1, <2>2, <2>3, StoreMaps
  <2>5. regOf[w].uid # 0
    BY <2>2 DEF RegistrationOf
  <2> QED
    BY <2>4, <2>5 DEF Reg!Change
<1>3. ASSUME NEW w \in Watchers, DeleteWatcher(w) PROVE Reg!Delete(w)
  <2>1. UNCHANGED hooks /\ api[w].uid # 0 /\ Store(w, Absent)
    BY <1>3 DEF DeleteWatcher, extVars, Present
  <2>2. Reg!Store(w, Reg!NoWatcher)
    BY <2>1, StoreMaps, AbsentMaps
  <2>3. regOf[w].uid # 0
    BY <2>1 DEF RegistrationOf
  <2> QED
    BY <2>2, <2>3 DEF Reg!Delete
<1>4. ASSUME UNCHANGED <<apiVars, hooks>> PROVE UNCHANGED Reg!vars
  BY <1>4 DEF apiVars, Reg!vars
<1> QED
  BY <1>1, <1>2, <1>3, <1>4 DEF UserStep, Push, ChangeSecret, Reg!Next

LEMMA CreateHookMaps ==
  ASSUME TypeInv, IdentitiesInv, NEW p \in Procs, NEW w \in Watchers, CreateHook(p, w)
  PROVE  Reg!MakeHook(w) \/ UNCHANGED Reg!vars
<1>1. UNCHANGED apiVars
  BY DEF CreateHook
<1>2. CASE UNCHANGED hooks
  BY <1>1, <1>2 DEF apiVars, Reg!vars
<1>3. CASE ~(UNCHANGED hooks)
  <2>1. PICK uid, t : uid = job[p][w].new.uid /\ t = used["creates"] + 1
    OBVIOUS
  <2>2. /\ used["creates"] < MaxCreates
        /\ hooks' = Append(hooks, [of |-> w, uid |-> uid, secret |-> t])
    BY <1>3, <2>1, CreateHookDoes
  <2>3. uid \in 1 .. ver[w]
    <3>1. uid # 0 /\ uid <= ver[w]
      BY <2>1 DEF CreateHook, IdentitiesInv, RunKnown, Present
    <3>2. job[p][w].new \in Objects
      BY RunType
    <3>3. uid \in Nat /\ ver[w] \in Nat
      BY <2>1, <3>2 DEF Objects, TypeInv
    <3> QED
      BY <3>1, <3>3
  <2>4. used["creates"] \in Nat /\ MaxCreates \in Nat
    BY BoundsAssumption DEF TypeInv, BoundNames
  <2>5. t \in 1 .. MaxCreates
    BY <2>1, <2>2, <2>4
  <2>6. \A h \in DOMAIN hooks : hooks[h].secret # t
    BY <2>1, <2>4 DEF IdentitiesInv
  <2>7. t \in (1 .. MaxCreates) \ {hooks[h].secret : h \in DOMAIN hooks}
    BY <2>5, <2>6
  <2> QED
    BY <1>1, <2>2, <2>3, <2>7 DEF apiVars, Reg!MakeHook
<1> QED
  BY <1>2, <1>3

LEMMA UpdateMaps ==
  ASSUME TypeInv, IInv, IdentitiesInv, NEW p \in Procs, NEW w \in Watchers, Update(p, w)
  PROVE  Reg!Change(w) \/ Reg!Record(w) \/ UNCHANGED Reg!vars
<1>1. CASE UNCHANGED apiVars
  <2>1. UNCHANGED hooks
    BY DEF Update, extVars
  <2> QED
    BY <1>1, <2>1 DEF apiVars, Reg!vars
<1>2. CASE ~(UNCHANGED apiVars)
  <2> DEFINE regOf == [v \in Watchers |-> RegistrationOf(api[v])]
  <2>1. PICK x \in Objects :
           /\ Store(w, x) /\ UNCHANGED hooks
           /\ Present(api[w]) /\ x.uid = api[w].uid
           /\ Signs(w, x)
           /\ api[w].hookID # 0 => x.hookID = api[w].hookID /\ x.token = api[w].token
           /\ x.token = api[w].token \/ x.token \in 1 .. used["creates"]
    BY <1>2, UpdateRecords
  <2>2. Reg!Store(w, RegistrationOf(x))
    BY <2>1, StoreMaps
  <2>3. regOf[w] = [uid |-> api[w].uid, token |-> api[w].token, hook |-> api[w].hookID]
        /\ regOf[w].uid # 0
    BY <2>1 DEF RegistrationOf, Present
  <2>4. RegistrationOf(x) = [uid |-> api[w].uid, token |-> x.token, hook |-> x.hookID]
    BY <2>1 DEF RegistrationOf
  <2>5. CASE x.token = api[w].token /\ x.hookID = api[w].hookID
    <3>1. RegistrationOf(x) = regOf[w]
      BY <2>3, <2>4, <2>5
    <3> QED
      BY <2>2, <2>3, <3>1 DEF Reg!Change
  <2>6. CASE ~(x.token = api[w].token /\ x.hookID = api[w].hookID)
    <3>1. api[w].hookID = 0
      BY <2>1, <2>6
    <3>2. /\ used["creates"] \in Nat /\ MaxCreates \in Nat /\ used["creates"] <= MaxCreates
          /\ 1 .. used["creates"] \subseteq 1 .. MaxCreates
      BY BoundsAssumption DEF TypeInv, BoundNames, IdentitiesInv
    <3>3. x.hookID # 0 =>
            /\ x.hookID \in DOMAIN hooks
            /\ hooks[x.hookID] = [of |-> w, uid |-> api[w].uid, secret |-> x.token]
            /\ x.token \in 1 .. used["creates"]
      BY <2>1 DEF Signs, NewHook, IdentitiesInv
    <3>4. x.token \in 1 .. MaxCreates
      BY <2>1, <2>6, <3>1, <3>2, <3>3
    <3>5. x.hookID \in {0} \cup {i \in DOMAIN hooks :
                                 hooks[i] = [of |-> w, uid |-> regOf[w].uid, secret |-> x.token]}
      BY <2>3, <3>3
    <3>6. Reg!Store(w, [uid |-> regOf[w].uid, token |-> x.token, hook |-> x.hookID])
      BY <2>2, <2>3, <2>4
    <3>7. regOf[w].uid # 0 /\ regOf[w].hook = 0
      BY <2>3, <3>1
    <3> QED
      BY <3>4, <3>5, <3>6, <3>7 DEF Reg!Record
  <2> QED
    BY <2>5, <2>6
<1> QED
  BY <1>1, <1>2

LEMMA NextMaps ==
  TypeInv /\ IInv /\ IdentitiesInv /\ [Next]_vars => [Reg!Next]_(Reg!vars)
<1> SUFFICES ASSUME TypeInv, IInv, IdentitiesInv, [Next]_vars
             PROVE  Reg!Next \/ UNCHANGED Reg!vars
  OBVIOUS
<1>1. CASE UserStep
  BY <1>1, UserStepMaps
<1>2. ASSUME UNCHANGED <<apiVars, hooks>> PROVE UNCHANGED Reg!vars
  BY <1>2 DEF apiVars, Reg!vars
<1>3. ASSUME NEW p \in Procs, ReplicaStep(p) PROVE UNCHANGED <<apiVars, hooks>>
  BY <1>3 DEF ReplicaStep, Acquire, Stop, Release, Exit, Crash, LoseLease, Renew, GiveUp, extVars
<1>4. ASSUME NEW p \in Procs, NEW w \in Watchers,
             Begin(p, w) \/ GetFirstCommit(p, w) \/ Poll(p, w) \/ CacheSync(p, w)
      PROVE  UNCHANGED <<apiVars, hooks>>
  BY <1>4 DEF Begin, GetFirstCommit, Poll, CacheSync, extVars
<1>5. ASSUME NEW p \in Procs, NEW w \in Watchers, CreateHook(p, w)
      PROVE  Reg!Next \/ UNCHANGED Reg!vars
  BY <1>5, CreateHookMaps DEF Reg!Next
<1>6. ASSUME NEW p \in Procs, NEW w \in Watchers, Update(p, w)
      PROVE  Reg!Next \/ UNCHANGED Reg!vars
  BY <1>6, UpdateMaps DEF Reg!Next
<1>7. ASSUME (\E p \in Procs : Relist(p) \/ Tick(p)) \/ Expire \/ UNCHANGED vars
      PROVE  UNCHANGED <<apiVars, hooks>>
  BY <1>7, RelistFacts DEF Tick, Expire, vars, extVars
<1> QED
  BY <1>1, <1>2, <1>3, <1>4, <1>5, <1>6, <1>7 DEF Next, RunStep

\* Whatever runs of onChange, users and replicas do, the handlers of deliveries see
\* the steps of Registration and no others.
THEOREM Refinement == Spec => ImplementsRegistration
<1>1. Init => Reg!Init
  <2> SUFFICES ASSUME Init PROVE Reg!Init
    OBVIOUS
  <2>1. ASSUME NEW w \in Watchers PROVE RegistrationOf(api[w]) \in {Reg!NoWatcher, Reg!New(1)}
    BY <2>1, AbsentMaps DEF Init
  <2> QED
    BY <2>1 DEF Init, Reg!Init
<1>2. TypeInv /\ IInv /\ IdentitiesInv /\ [Next]_vars => [Reg!Next]_(Reg!vars)
  BY NextMaps
<1> QED
  BY <1>1, <1>2, IdentitiesHold, PTL DEF Spec, ImplementsRegistration, Reg!Spec

\* With it come the promises of Registration, which RegistrationProofs proves.
Promises == INSTANCE RegistrationProofs WITH
              watcher <- [w \in Watchers |-> RegistrationOf(api[w])],
              Tokens  <- 1 .. MaxCreates

\* The hooks that stale, failed and overlapping runs have left at GitHub sign with
\* tokens no delivery is checked with: of all hooks, the recorded one alone counts.
THEOREM RecordedHooksSign == Spec => []OnlyRecordedHookSigns
<1>1. Reg!Init => Promises!Init
  BY DEF Reg!Init, Promises!Init, Reg!NoWatcher, Promises!NoWatcher, Reg!New, Promises!New
<1>2. [Reg!Next]_(Reg!vars) => [Promises!Next]_(Promises!vars)
  BY DEF Reg!vars, Promises!vars, Reg!Next, Promises!Next, Reg!Create, Promises!Create,
         Reg!Change, Promises!Change, Reg!Delete, Promises!Delete, Reg!MakeHook,
         Promises!MakeHook, Reg!Record, Promises!Record, Reg!Store, Promises!Store,
         Reg!NoWatcher, Promises!NoWatcher, Reg!New, Promises!New
<1>3. Promises!Spec => []Promises!RecordedHookSigns
  BY Promises!HooksSign
<1>4. Promises!RecordedHookSigns => OnlyRecordedHookSigns
  BY DEF Promises!RecordedHookSigns, Reg!RecordedHookSigns, OnlyRecordedHookSigns
<1> QED
  BY <1>1, <1>2, <1>3, <1>4, Refinement, PTL
  DEF ImplementsRegistration, Reg!Spec, Promises!Spec
=============================================================================
