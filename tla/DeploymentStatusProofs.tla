------------------------ MODULE DeploymentStatusProofs ------------------------
(***************************************************************************)
(* Proofs about ObjectHandlers and DeploymentStatus for any bounds.        *)
(***************************************************************************)
EXTENDS DeploymentStatus, TLAPS

-----------------------------------------------------------------------------
(* Copies *)

Copies == [from : Objects, val : Objects, shared : SUBSET Parts]

\* A deep copy shares with its original no part that the handler of its kind writes.
LEMMA DeepCopyFacts ==
  ASSUME setup \in Setups, NEW o \in Objects
  PROVE  /\ DeepCopy(o) \in Copies
         /\ DeepCopy(o).from = o /\ DeepCopy(o).val = o
         /\ {setup.field, "conditions"} \cap DeepCopy(o).shared = {}
<1>1. GitWatcherDeepCopy(o) = [from |-> o, val |-> o, shared |-> {"githubStatus"}]
  <2>1. GitWatcherSpecDeepCopyInto(Assign(o))
          = [from |-> o, val |-> o, shared |-> {"conditions", "githubStatus"}]
    BY DEF GitWatcherSpecDeepCopyInto, Assign, Own, Parts
  <2> QED
    BY <2>1 DEF GitWatcherDeepCopy, GitWatcherStatusDeepCopyInto, Own
<1>2. GitCommitDeepCopy(o) = [from |-> o, val |-> o, shared |-> {"executionLabels"}]
  BY DEF GitCommitDeepCopy, GitCommitStatusDeepCopyInto, Assign, Own, Parts
<1>3. setup.field \in {"executionLabels", "githubStatus", "buildStatus"}
  BY DEF Setups
<1>4. CASE setup.field = "executionLabels"
  BY <1>1, <1>4 DEF DeepCopy, Copies, Parts
<1>5. CASE setup.field # "executionLabels"
  BY <1>2, <1>3, <1>5 DEF DeepCopy, Copies, Parts
<1> QED
  BY <1>4, <1>5

\* Writing into a part of its own leaves the original of a copy alone.
LEMMA ReportFacts ==
  ASSUME setup \in Setups, NEW h \in Copies, setup.field \notin h.shared, NEW n \in Nat
  PROVE  LET r == Report(h, n) IN
         /\ r \in Copies /\ r.from = h.from /\ r.shared = h.shared
         /\ r.val.rv = h.val.rv /\ r.val.conditions = h.val.conditions
         /\ r.val.githubStatus \in {h.val.githubStatus, n}
         /\ r.val.buildStatus \in {h.val.buildStatus, n}
<1>1. setup.field \in {"executionLabels", "githubStatus", "buildStatus"}
  BY DEF Setups
<1>2. CASE setup.field = "buildStatus"
  BY <1>2 DEF Report, Copies, Objects
<1>3. CASE setup.field = "executionLabels"
  BY <1>3 DEF Report, Write, Copies, Objects
<1>4. CASE setup.field = "githubStatus"
  BY <1>4 DEF Report, Write, Copies, Objects
<1> QED
  BY <1>1, <1>2, <1>3, <1>4

LEMMA SetErrorFacts ==
  ASSUME NEW h \in Copies, "conditions" \notin h.shared, NEW s \in Conditions
  PROVE  LET r == SetError(h, s) IN
         /\ r \in Copies /\ r.from = h.from
         /\ r.val.rv = h.val.rv
         /\ r.val.githubStatus = h.val.githubStatus
         /\ r.val.buildStatus = h.val.buildStatus
<1>1. CASE h.val.conditions = NoCondition
  BY <1>1 DEF SetError, Own, Copies, Objects, Parts
<1>2. CASE h.val.conditions # NoCondition
  BY <1>2 DEF SetError, Write, Copies, Objects, Parts
<1> QED
  BY <1>1, <1>2

\* A run leaves the cached object as it is.  What it sends is of the version it read,
\* and a status handler that failed sends no status of its own.
LEMMA SyncFacts ==
  ASSUME setup \in Setups, NEW o \in Objects, NEW n \in Nat, NEW ok \in BOOLEAN,
         NEW s, s = IF setup.style = "status" THEN SyncStatus(o, n, ok)
                    ELSE UpdateDeepCopyOnChange(o, n, ok)
  PROVE  /\ s.from = o
         /\ s.obj \in Objects /\ s.obj.rv = o.rv
         /\ setup.style = "status" =>
              /\ s.obj.githubStatus = o.githubStatus \/ (ok /\ s.obj.githubStatus = n)
              /\ s.obj.buildStatus = o.buildStatus \/ (ok /\ s.obj.buildStatus = n)
<1>1. PICK h : h = DeepCopy(o)
  OBVIOUS
<1>2. /\ h \in Copies /\ h.from = o /\ h.val = o
      /\ setup.field \notin h.shared /\ "conditions" \notin h.shared
  BY <1>1, DeepCopyFacts
<1>3. PICK r : r = Report(h, n)
  OBVIOUS
<1>4. /\ r \in Copies /\ r.from = o /\ r.shared = h.shared
      /\ r.val.rv = o.rv
      /\ r.val.githubStatus \in {o.githubStatus, n}
      /\ r.val.buildStatus \in {o.buildStatus, n}
  BY <1>2, <1>3, ReportFacts
<1>5. PICK c : c = SetError(r, Outcome(ok))
  OBVIOUS
<1>6. Outcome(ok) \in Conditions
  BY DEF Outcome, Conditions
<1>7. /\ c \in Copies /\ c.from = o /\ c.val.rv = o.rv
      /\ c.val.githubStatus = r.val.githubStatus
      /\ c.val.buildStatus = r.val.buildStatus
  BY <1>2, <1>4, <1>5, <1>6, SetErrorFacts
<1>8. r.val \in Objects /\ c.val \in Objects
  BY <1>4, <1>7 DEF Copies
<1>9. CASE setup.style = "status"
  <2>1. s = SyncStatus(o, n, ok)
    BY <1>9
  <2>2. PICK new : new = IF ~ok THEN c.from
                         ELSE IF r.val.conditions = NoCondition THEN r.val ELSE c.val
    OBVIOUS
  <2>3. s = [from |-> c.from, obj |-> new, changed |-> new # c.from]
    BY <2>1, <2>2, <1>1, <1>3, <1>5 DEF SyncStatus
  <2>4. s.from = o /\ s.obj = new
    BY <2>3, <1>7
  <2>5. CASE ok
    BY <2>2, <2>4, <2>5, <1>4, <1>7, <1>8
  <2>6. CASE ~ok
    BY <2>2, <2>4, <2>6, <1>7
  <2> QED
    BY <2>5, <2>6
<1>10. CASE setup.style # "status"
  <2>1. s = UpdateDeepCopyOnChange(o, n, ok)
    BY <1>10
  <2>2. s = [from |-> c.from, obj |-> c.val, changed |-> c.val # c.from]
    BY <2>1, <1>1, <1>3, <1>5 DEF UpdateDeepCopyOnChange
  <2> QED
    BY <2>2, <1>7, <1>8, <1>10
<1> QED
  BY <1>9, <1>10

LEMMA NextVersionFacts ==
  ASSUME NEW o \in Objects
  PROVE  /\ NextVersion(o) \in Objects /\ NextVersion(o).rv = o.rv + 1
         /\ NextVersion(o).githubStatus = o.githubStatus
         /\ NextVersion(o).buildStatus = o.buildStatus
BY DEF NextVersion, Objects

\* An edit makes the next version with another spec, or removes the object.
LEMMA EditFacts ==
  ASSUME NEW o \in Objects,
         NEW e \in {[NextVersion(o) EXCEPT !.spec = @ + 1], [o EXCEPT !.rv = 0]}
  PROVE  /\ e \in Objects /\ e.rv \in {0, o.rv + 1}
         /\ e.githubStatus = o.githubStatus /\ e.buildStatus = o.buildStatus
<1>1. CASE e = [o EXCEPT !.rv = 0]
  BY <1>1 DEF Objects
<1>2. CASE e = [NextVersion(o) EXCEPT !.spec = @ + 1]
  <2>1. PICK n : n = NextVersion(o)
    OBVIOUS
  <2>2. /\ n \in Objects /\ n.rv = o.rv + 1
        /\ n.githubStatus = o.githubStatus /\ n.buildStatus = o.buildStatus
    BY <2>1, NextVersionFacts
  <2>3. e = [n EXCEPT !.spec = @ + 1]
    BY <1>2, <2>1
  <2> QED
    BY <2>2, <2>3 DEF Objects
<1> QED
  BY <1>1, <1>2

-----------------------------------------------------------------------------
(* The inductive invariant *)

\* No cache has a version from the future, and as long as the object exists
\* neither has missed its creation.
Behind(o) == Exists(api) => 1 <= o.rv /\ o.rv <= api.rv
Whole(o) == o.githubStatus # Half /\ o.buildStatus # Half

\* Nothing half done is in a place where the status handler could take it from.
NoHalfAnywhere ==
  /\ build <= MaxBuilds
  /\ setup.style = "status" => /\ Whole(api) /\ Whole(cache)
                               /\ run.busy => Whole(run.obj)

HandlerInv == TypeInv /\ Behind(cache) /\ CacheIsServerState /\ FailedCallsRunAgain /\ NoHalfAnywhere

\* What the leader has seen is a copy like that in the cache: the one may come to be the other.
SeenInv == /\ Behind(seen)
           /\ seen.rv = api.rv => seen = api
           /\ setup.style = "status" => Whole(seen)

IInv == HandlerInv /\ StatusTypeInv /\ SeenInv /\ NoStateUnposted

LEMMA RunFacts ==
  ASSUME TypeInv, run.busy
  PROVE  run.obj \in Objects
<1>1. NoRun.busy = FALSE
  BY DEF NoRun
<1>2. run \in [busy : {TRUE}, obj : Objects]
  BY <1>1 DEF TypeInv, Runs
<1> QED
  BY <1>2

LEMMA BoundFacts == MaxBuilds \in Nat /\ MaxFaults \in Nat /\ MaxEdits \in Nat /\ Half \in Nat
BY BoundsAssumption DEF Half

LEMMA InitIInv == ASSUME Init PROVE IInv
<1>1. PICK d \in BOOLEAN :
        api = [rv |-> 1, spec |-> 1, executionLabels |-> 0, conditions |-> NoCondition,
               deployment |-> d, githubStatus |-> 0, buildStatus |-> 0]
  BY DEF Init, HandlerInit
<1>2. api \in Objects /\ api.rv = 1 /\ api.githubStatus = 0 /\ api.buildStatus = 0
  BY <1>1 DEF Objects, Conditions, NoCondition
<1>3. /\ cache = api /\ seen = api /\ run = NoRun /\ due = TRUE /\ failed = FALSE
      /\ build = 0 /\ faults = 0 /\ edits = 0 /\ relists = 0 /\ takeovers = 0
      /\ queued \in BOOLEAN /\ ready \in BOOLEAN /\ late = FALSE
      /\ post = 0 /\ stragglers = <<>> /\ shown = 0
      /\ setup \in Setups
  BY DEF Init, HandlerInit, OfGitCommit, NoPost
<1>4. stragglers \in Seq(Nat)
  BY <1>3
<1>5. TypeInv
  <2>1. run \in Runs
    BY <1>3 DEF Runs
  <2>2. api \in Objects /\ cache \in Objects /\ setup \in Setups
    BY <1>2, <1>3
  <2>3. due \in BOOLEAN /\ failed \in BOOLEAN
    BY <1>3
  <2>4. {build, faults, edits, relists} \subseteq Nat
    BY <1>3
  <2> QED
    BY <2>1, <2>2, <2>3, <2>4 DEF TypeInv
<1>6. StatusTypeInv
  <2>1. seen \in Objects /\ {queued, ready, late} \subseteq BOOLEAN
    BY <1>2, <1>3
  <2>2. {post, shown, takeovers} \subseteq Nat
    BY <1>3
  <2> QED
    BY <1>4, <1>5, <2>1, <2>2 DEF StatusTypeInv
<1>7. NoRun.busy = FALSE
  BY DEF NoRun
<1>8. NoHalfAnywhere
  BY <1>2, <1>3, <1>7, BoundFacts DEF NoHalfAnywhere, Whole, Half
<1>9. /\ Behind(cache) /\ CacheIsServerState
      /\ due = TRUE => FailedCallsRunAgain
  BY <1>2, <1>3 DEF Behind, CacheIsServerState, FailedCallsRunAgain
<1>10. SeenInv /\ NoStateUnposted
  <2>1. StateToPost(seen) = 0
    BY <1>2, <1>3 DEF StateToPost
  <2>2. Whole(seen)
    BY <1>2, <1>3, BoundFacts DEF Whole, Half
  <2> QED
    BY <1>2, <1>3, <2>1, <2>2 DEF SeenInv, Behind, NoStateUnposted
<1> QED
  BY <1>3, <1>5, <1>6, <1>8, <1>9, <1>10 DEF IInv, HandlerInv

-----------------------------------------------------------------------------
(* The steps of the controller that writes *)

\* The object is not created again, and its version grows.
Grown == api' = api \/ (Exists(api) /\ (api'.rv = 0 \/ api'.rv > api.rv))

LEMMA CallInv == ASSUME HandlerInv, Call PROVE HandlerInv'
<1>1. CASE ~Exists(cache)
  BY <1>1 DEF Call, HandlerInv, TypeInv, Behind, Exists, CacheIsServerState,
              FailedCallsRunAgain, NoHalfAnywhere, Whole, Half
<1>2. CASE Exists(cache)
  <2>0. PICK ok \in BOOLEAN : \E progress \in IF ok THEN {build} ELSE FailedProgress :
          LET sync == IF setup.style = "status" THEN SyncStatus(cache, progress, ok)
                      ELSE UpdateDeepCopyOnChange(cache, progress, ok)
          IN  /\ faults' = IF ok THEN faults ELSE faults + 1
              /\ failed' = ~ok
              /\ cache' = sync.from
              /\ run' = IF sync.changed THEN [busy |-> TRUE, obj |-> sync.obj] ELSE NoRun
              /\ due' = Returned(sync, ok)
    BY <1>2 DEF Call
  <2>1. PICK n \in IF ok THEN {build} ELSE FailedProgress :
          LET sync == IF setup.style = "status" THEN SyncStatus(cache, n, ok)
                      ELSE UpdateDeepCopyOnChange(cache, n, ok)
          IN  /\ faults' = IF ok THEN faults ELSE faults + 1
              /\ failed' = ~ok
              /\ cache' = sync.from
              /\ run' = IF sync.changed THEN [busy |-> TRUE, obj |-> sync.obj] ELSE NoRun
              /\ due' = Returned(sync, ok)
    BY <2>0
  <2>2. PICK s : s = IF setup.style = "status" THEN SyncStatus(cache, n, ok)
                     ELSE UpdateDeepCopyOnChange(cache, n, ok)
    OBVIOUS
  <2>3. /\ faults' = IF ok THEN faults ELSE faults + 1
        /\ failed' = ~ok
        /\ cache' = s.from
        /\ run' = IF s.changed THEN [busy |-> TRUE, obj |-> s.obj] ELSE NoRun
        /\ due' = (~ok /\ ~s.changed)
    BY <2>1, <2>2 DEF Returned
  <2>4. n \in Nat /\ (ok => n = build)
    BY <2>1, BoundFacts DEF FailedProgress, HandlerInv, TypeInv
  <2>5. setup \in Setups /\ cache \in Objects
    BY DEF HandlerInv, TypeInv
  <2>6. /\ s.from = cache
        /\ s.obj \in Objects /\ s.obj.rv = cache.rv
        /\ setup.style = "status" =>
             /\ s.obj.githubStatus = cache.githubStatus \/ (ok /\ s.obj.githubStatus = n)
             /\ s.obj.buildStatus = cache.buildStatus \/ (ok /\ s.obj.buildStatus = n)
    BY <2>2, <2>4, <2>5, SyncFacts
  <2>7. UNCHANGED <<setup, api, cache, build, edits, relists>>
    BY <2>3, <2>6 DEF Call
  <2>8. TypeInv'
    BY <2>3, <2>6, <2>7 DEF HandlerInv, TypeInv, Runs
  <2>9. Behind(cache)' /\ CacheIsServerState'
    BY <2>7 DEF HandlerInv, Behind, CacheIsServerState
  <2>10. FailedCallsRunAgain'
    BY <2>3 DEF FailedCallsRunAgain
  <2>11. NoHalfAnywhere'
    <3>1. build <= MaxBuilds /\ build \in Nat
      BY DEF HandlerInv, NoHalfAnywhere, TypeInv
    <3>2. build # Half
      BY <3>1, BoundFacts DEF Half
    <3>3. ASSUME setup.style = "status", run'.busy
          PROVE  Whole(run'.obj)
      <4>1. Whole(cache)
        BY <3>3 DEF HandlerInv, NoHalfAnywhere
      <4>2. run'.obj = s.obj
        BY <2>3, <3>3 DEF NoRun
      <4> QED
        BY <2>4, <2>6, <3>2, <3>3, <4>1, <4>2 DEF Whole
    <3> QED
      BY <2>7, <3>1, <3>3 DEF HandlerInv, NoHalfAnywhere, Whole, Half
  <2> QED
    BY <2>8, <2>9, <2>10, <2>11 DEF HandlerInv
<1> QED
  BY <1>1, <1>2

\* What the API server stores is a version of its own.
LEMMA StoreInv == ASSUME HandlerInv, Store PROVE HandlerInv' /\ Grown
<1> USE DEF Exists
<1>1. run.obj \in Objects /\ run.busy /\ api \in Objects /\ cache \in Objects
  BY RunFacts DEF Store, HandlerInv, TypeInv
<1>2. PICK next : next = NextVersion(run.obj)
  OBVIOUS
<1>3. /\ next \in Objects /\ next.rv = run.obj.rv + 1
      /\ next.githubStatus = run.obj.githubStatus
      /\ next.buildStatus = run.obj.buildStatus
  BY <1>1, <1>2, NextVersionFacts
<1>4. /\ api' = api \/ (Accepts(run.obj) /\ api' = next)
      /\ due' = TRUE \/ (due' = due /\ api' = next)
  BY <1>2 DEF Store, Return, HandlerInv, TypeInv
<1>5. run' = NoRun /\ UNCHANGED <<setup, cache, build, failed, edits, relists>>
  BY DEF Store, Return
<1>6. faults' \in Nat
  <2>1. faults \in Nat
    BY DEF HandlerInv, TypeInv
  <2>2. faults' = faults \/ faults' = faults + 1
    BY DEF Store
  <2> QED
    BY <2>1, <2>2
<1>7. ASSUME api' = next, Accepts(run.obj)
      PROVE  /\ api'.rv = api.rv + 1 /\ api.rv > 0
             /\ cache.rv <= api.rv /\ 1 <= cache.rv
  BY <1>1, <1>3, <1>7 DEF Accepts, HandlerInv, Behind
<1>8. api \in Objects /\ api.rv \in Nat /\ cache.rv \in Nat
  BY <1>1 DEF Objects
<1>9. api' \in Objects
  BY <1>3, <1>4, <1>8
<1>10. TypeInv'
  BY <1>4, <1>5, <1>6, <1>9 DEF HandlerInv, TypeInv, Runs
<1>11. Behind(cache)' /\ CacheIsServerState' /\ Grown
  <2>1. CASE api' = api
    BY <2>1, <1>5, <1>8 DEF HandlerInv, Behind, CacheIsServerState, Grown
  <2>2. CASE api' # api
    BY <2>2, <1>4, <1>5, <1>7, <1>8 DEF Behind, CacheIsServerState, Grown
  <2> QED
    BY <2>1, <2>2
<1>12. FailedCallsRunAgain'
  <2>1. CASE due' = TRUE
    BY <2>1 DEF FailedCallsRunAgain
  <2>2. CASE due' # TRUE
    <3>1. api' = next
      BY <2>2, <1>4
    <3>2. CASE Accepts(run.obj)
      BY <3>1, <3>2, <1>5, <1>7, <1>8 DEF FailedCallsRunAgain
    <3>3. CASE ~Accepts(run.obj)
      BY <3>3, <2>2, <1>2, <1>4 DEF Store, Return
    <3> QED
      BY <3>2, <3>3
  <2> QED
    BY <2>1, <2>2
<1>13. NoHalfAnywhere'
  <2>1. ~run'.busy
    BY <1>5 DEF NoRun
  <2>2. ASSUME setup.style = "status" PROVE Whole(api') /\ Whole(cache)
    <3>1. Whole(api) /\ Whole(cache) /\ Whole(run.obj)
      BY <2>2, <1>1 DEF HandlerInv, NoHalfAnywhere
    <3> QED
      BY <3>1, <1>3, <1>4 DEF Whole
  <2> QED
    BY <2>1, <2>2, <1>5 DEF HandlerInv, NoHalfAnywhere, Whole, Half
<1> QED
  BY <1>10, <1>11, <1>12, <1>13 DEF HandlerInv

LEMMA EventInv == ASSUME HandlerInv, Event PROVE HandlerInv'
BY DEF Event, HandlerInv, TypeInv, Behind, Exists, Objects, CacheIsServerState,
       FailedCallsRunAgain, NoHalfAnywhere, Whole, Half

LEMMA ProgressInv == ASSUME HandlerInv, Progress PROVE HandlerInv'
<1>1. MaxBuilds \in Nat /\ build \in Nat /\ build < MaxBuilds /\ build' = build + 1
  BY BoundFacts DEF Progress, HandlerInv, TypeInv
<1>2. build' \in Nat /\ build' <= MaxBuilds
  BY <1>1
<1> QED
  BY <1>2 DEF Progress, HandlerInv, TypeInv, Behind, Exists, CacheIsServerState,
     FailedCallsRunAgain, NoHalfAnywhere, Whole, Half

LEMMA EditInv == ASSUME HandlerInv, Edit PROVE HandlerInv' /\ Grown
<1> USE DEF Exists
<1>1. PICK e \in {[NextVersion(api) EXCEPT !.spec = @ + 1], [api EXCEPT !.rv = 0]} : api' = e
  BY DEF Edit
<1>2. api \in Objects /\ cache \in Objects /\ api.rv > 0
  BY DEF Edit, HandlerInv, TypeInv
<1>3. /\ e \in Objects /\ e.rv \in {0, api.rv + 1}
      /\ e.githubStatus = api.githubStatus /\ e.buildStatus = api.buildStatus
  BY <1>1, <1>2, EditFacts
<1>4. api.rv \in Nat /\ cache.rv \in Nat
  BY <1>2 DEF Objects
<1>5. /\ UNCHANGED <<setup, cache, due, run, failed, build, faults, relists>>
      /\ edits' = edits + 1
  BY DEF Edit, workVars
<1>6. TypeInv'
  BY <1>1, <1>3, <1>5 DEF HandlerInv, TypeInv
<1>7. 1 <= cache.rv /\ cache.rv <= api.rv
  BY <1>2 DEF HandlerInv, Behind
<1>8. Behind(cache)' /\ CacheIsServerState' /\ FailedCallsRunAgain'
  BY <1>1, <1>3, <1>4, <1>5, <1>7 DEF Behind, CacheIsServerState, FailedCallsRunAgain
<1>9. NoHalfAnywhere'
  BY <1>1, <1>3, <1>5 DEF HandlerInv, NoHalfAnywhere, Whole, Half
<1>10. Grown
  BY <1>1, <1>2, <1>3, <1>4 DEF Grown
<1> QED
  BY <1>6, <1>8, <1>9, <1>10 DEF HandlerInv

\* A list of what the leader has seen replaces one copy by another.
LEMMA RelistInv ==
  ASSUME HandlerInv, seen \in Objects, SeenInv, Relist(seen)
  PROVE  HandlerInv'
<1>1. /\ cache' = seen /\ due' = TRUE /\ relists' = relists + 1
      /\ UNCHANGED <<setup, api, run, build, failed, faults, edits>>
  BY DEF Relist
<1>2. TypeInv'
  BY <1>1 DEF HandlerInv, TypeInv
<1>3. Behind(cache)' /\ CacheIsServerState' /\ FailedCallsRunAgain'
  BY <1>1 DEF SeenInv, Behind, Exists, CacheIsServerState, FailedCallsRunAgain
<1>4. NoHalfAnywhere'
  BY <1>1 DEF HandlerInv, SeenInv, NoHalfAnywhere, Whole, Half
<1> QED
  BY <1>2, <1>3, <1>4 DEF HandlerInv

LEMMA HandlerStep ==
  ASSUME HandlerInv, seen \in Objects, SeenInv, HandlerNext \/ Relist(seen)
  PROVE  HandlerInv' /\ Grown /\ UNCHANGED setup
<1>1. CASE Call
  BY <1>1, CallInv DEF Call, Grown
<1>2. CASE Store
  BY <1>2, StoreInv DEF Store
<1>3. CASE Event
  BY <1>3, EventInv DEF Event, Grown
<1>4. CASE Progress
  BY <1>4, ProgressInv DEF Progress, Grown
<1>5. CASE Edit
  BY <1>5, EditInv DEF Edit
<1>6. CASE Relist(seen)
  BY <1>6, RelistInv DEF Relist, Grown
<1> QED
  BY <1>1, <1>2, <1>3, <1>4, <1>5, <1>6 DEF HandlerNext

-----------------------------------------------------------------------------
(* The steps of the leaders *)

\* The steps of leaders leave the writing controller alone.
LEMMA LeaderLeavesHandler ==
  ASSUME HandlerInv, UNCHANGED <<setup, api, cache, due, run, failed, build>>,
         faults' \in Nat, edits' \in Nat, relists' \in Nat
  PROVE  HandlerInv'
BY DEF HandlerInv, TypeInv, Behind, Exists, CacheIsServerState, FailedCallsRunAgain,
       NoHalfAnywhere, Whole, Half

\* Copies stay copies when the API server stores another version.
LEMMA SeenStays ==
  ASSUME api \in Objects, api' \in Objects, seen \in Objects, SeenInv, Grown,
         UNCHANGED <<setup, seen>>
  PROVE  SeenInv'
<1>1. api.rv \in Nat /\ api'.rv \in Nat /\ seen.rv \in Nat
  BY DEF Objects
<1>2. Behind(seen)' /\ (seen.rv = api.rv => seen = api)'
  BY <1>1 DEF SeenInv, Behind, Grown, Exists
<1> QED
  BY <1>2 DEF SeenInv, Whole, Half

\* What a leader lists is a copy, too.
LEMMA SeenListed ==
  ASSUME HandlerInv, SeenInv, seen' \in {seen, cache, api}, UNCHANGED <<setup, api>>
  PROVE  SeenInv'
<1>1. api \in Objects /\ api.rv \in Nat
  BY DEF HandlerInv, TypeInv, Objects
<1>2. CASE seen' = seen
  BY <1>2 DEF SeenInv, Behind, Exists, Whole, Half
<1>3. CASE seen' = cache
  BY <1>3 DEF HandlerInv, NoHalfAnywhere, CacheIsServerState, SeenInv, Behind, Exists, Whole, Half
<1>4. CASE seen' = api
  BY <1>1, <1>4 DEF HandlerInv, NoHalfAnywhere, SeenInv, Behind, Exists, Whole, Half
<1> QED
  BY <1>2, <1>3, <1>4

LEMMA ArrivesFacts ==
  ASSUME StatusTypeInv, Arrives \/ Fails
  PROVE  shown' \in Nat /\ late' \in BOOLEAN /\ stragglers' \in Seq(Nat)
<1>1. /\ post \in Nat /\ shown \in Nat /\ late \in BOOLEAN /\ stragglers \in Seq(Nat)
      /\ Append(stragglers, post) \in Seq(Nat)
  BY DEF StatusTypeInv
<1>2. CASE Arrives
  BY <1>1, <1>2 DEF Arrives
<1>3. CASE Fails
  BY <1>1, <1>3 DEF Fails, Arrives
<1> QED
  BY <1>2, <1>3

LEMMA RemoveAtFacts ==
  ASSUME NEW q \in Seq(Nat), NEW i \in DOMAIN q PROVE RemoveAt(q, i) \in Seq(Nat) /\ q[i] \in Nat
<1>1. Len(q) \in Nat /\ i \in 1 .. Len(q)
  OBVIOUS
<1>2. SubSeq(q, 1, i - 1) \in Seq(Nat) /\ SubSeq(q, i + 1, Len(q)) \in Seq(Nat)
  BY <1>1
<1> QED
  BY <1>1, <1>2 DEF RemoveAt

LEMMA StateFacts == ASSUME NEW o \in Objects PROVE StateToPost(o) \in Nat
BY DEF StateToPost, Objects

LEMMA IInvPreserved == ASSUME IInv, [Next]_vars PROVE IInv'
<1>0. /\ HandlerInv /\ StatusTypeInv /\ SeenInv /\ NoStateUnposted /\ TypeInv
      /\ faults \in Nat /\ edits \in Nat /\ relists \in Nat /\ takeovers \in Nat
      /\ api \in Objects /\ cache \in Objects /\ seen \in Objects
      /\ post \in Nat /\ shown \in Nat /\ stragglers \in Seq(Nat)
      /\ queued \in BOOLEAN /\ ready \in BOOLEAN /\ late \in BOOLEAN
  BY DEF IInv, HandlerInv, TypeInv, StatusTypeInv
<1>2. CASE (HandlerNext \/ Relist(seen)) /\ UNCHANGED leaderVars
  <2>1. HandlerInv' /\ Grown /\ UNCHANGED setup
    BY <1>0, <1>2, HandlerStep
  <2>2. UNCHANGED <<seen, queued, ready, post, stragglers, shown, late, takeovers>>
    BY <1>2 DEF leaderVars
  <2>3. StatusTypeInv'
    BY <1>0, <2>1, <2>2 DEF HandlerInv, StatusTypeInv
  <2>4. api' \in Objects
    BY <2>1 DEF HandlerInv, TypeInv
  <2>5. SeenInv'
    BY <1>0, <2>1, <2>2, <2>4, SeenStays
  <2>6. NoStateUnposted'
    BY <1>0, <2>2 DEF NoStateUnposted, HasDeployment, Exists, StateToPost, NoPost
  <2> QED
    BY <2>1, <2>3, <2>5, <2>6 DEF IInv
<1>3. CASE StatusEvent \/ StatusRelist
  <2>1. /\ seen' \in {seen, cache, api} /\ queued' = TRUE /\ relists' \in Nat
        /\ UNCHANGED <<setup, api, cache, due, run, failed, build, faults, edits>>
        /\ UNCHANGED <<ready, post, stragglers, shown, late, takeovers>>
    BY <1>0, <1>3 DEF StatusEvent, StatusRelist, handlerVars, workVars
  <2>2. HandlerInv'
    BY <1>0, <2>1, LeaderLeavesHandler
  <2>3. seen' \in Objects
    BY <1>0, <2>1
  <2>4. StatusTypeInv'
    BY <1>0, <2>1, <2>2, <2>3 DEF HandlerInv, StatusTypeInv
  <2>5. SeenInv'
    BY <1>0, <2>1, SeenListed
  <2>6. NoStateUnposted'
    BY <2>1 DEF NoStateUnposted
  <2> QED
    BY <2>2, <2>4, <2>5, <2>6 DEF IInv
<1>4. CASE UpdateGithubStatus
  <2>1. PICK p \in Nat : p = StateToPost(seen)
    BY <1>0, StateFacts
  <2>2. PICK d \in BOOLEAN : d = HasDeployment(seen)
    BY <1>0 DEF HasDeployment, Exists, Objects
  <2>3. /\ post = NoPost /\ queued' = (d /\ ~ready)
        /\ post' = IF d /\ ready THEN p ELSE NoPost
        /\ UNCHANGED <<setup, api, cache, due, run, failed, build, faults, edits, relists>>
        /\ UNCHANGED <<seen, ready, stragglers, shown, late, takeovers>>
    BY <1>4, <2>1, <2>2 DEF UpdateGithubStatus, handlerVars, workVars
  <2>4. post' \in Nat /\ queued' \in BOOLEAN
    BY <1>0, <2>3 DEF NoPost
  <2>5. HandlerInv'
    BY <1>0, <2>3, LeaderLeavesHandler
  <2>6. StatusTypeInv'
    BY <1>0, <2>3, <2>4, <2>5 DEF HandlerInv, StatusTypeInv
  <2>7. SeenInv'
    BY <1>0, <2>3 DEF SeenInv, Behind, Exists, Whole, Half
  <2>8. NoStateUnposted'
    <3>1. StateToPost(seen') = p /\ HasDeployment(seen') = d
      BY <2>1, <2>2, <2>3
    <3> QED
      BY <2>3, <3>1 DEF NoStateUnposted, NoPost
  <2> QED
    BY <2>5, <2>6, <2>7, <2>8 DEF IInv
<1>5. CASE CreateDeploymentStatus
  <2>1. /\ post # NoPost /\ post' = NoPost
        /\ \/ Arrives /\ queued' = queued
           \/ Fails /\ queued' = TRUE
        /\ UNCHANGED <<setup, api, cache, due, run, failed, build, edits, relists>>
        /\ UNCHANGED <<seen, ready, takeovers>>
    <3>1. post # NoPost /\ post' = NoPost /\ (Arrives \/ Fails)
      BY <1>5 DEF CreateDeploymentStatus, PostEnds
    <3>2. \/ Arrives /\ queued' = (queued \/ FALSE)
          \/ Fails /\ queued' = (queued \/ TRUE)
      BY <1>5 DEF CreateDeploymentStatus, PostEnds
    <3>3. (queued \/ FALSE) = queued /\ (queued \/ TRUE) = TRUE
      BY <1>0, Zenon
    <3>4. \/ Arrives /\ queued' = queued
          \/ Fails /\ queued' = TRUE
      BY <3>2, <3>3
    <3>5. /\ UNCHANGED <<setup, api, cache, due, run, failed, build, edits, relists>>
          /\ UNCHANGED <<seen, ready, takeovers>>
      BY <1>5 DEF CreateDeploymentStatus, workVars
    <3> QED
      BY <3>1, <3>4, <3>5
  <2>2. faults' \in Nat
    <3>1. faults' = faults \/ faults' = faults + 1
      BY <1>5 DEF CreateDeploymentStatus
    <3> QED
      BY <1>0, <3>1
  <2>3. shown' \in Nat /\ late' \in BOOLEAN /\ stragglers' \in Seq(Nat)
    BY <1>0, <2>1, ArrivesFacts
  <2>4. post' \in Nat /\ queued' \in BOOLEAN
    BY <1>0, <2>1 DEF NoPost
  <2>5. HandlerInv'
    BY <1>0, <2>1, <2>2, LeaderLeavesHandler
  <2>6. StatusTypeInv'
    BY <1>0, <2>1, <2>3, <2>4, <2>5 DEF HandlerInv, StatusTypeInv
  <2>7. SeenInv'
    BY <1>0, <2>1 DEF SeenInv, Behind, Exists, Whole, Half
  <2>8. NoStateUnposted'
    <3>1. CASE queued' = TRUE
      BY <3>1 DEF NoStateUnposted
    <3>2. CASE Arrives /\ queued' = queued
      <4>1. StateToPost(seen') = StateToPost(seen) /\ HasDeployment(seen') = HasDeployment(seen)
        BY <2>1
      <4>2. shown' = post
        BY <3>2 DEF Arrives
      <4> QED
        BY <1>0, <2>1, <3>2, <4>1, <4>2 DEF NoStateUnposted
    <3> QED
      BY <2>1, <3>1, <3>2
  <2> QED
    BY <2>5, <2>6, <2>7, <2>8 DEF IInv
<1>6. CASE Takeover
  <2>1. /\ takeovers' = takeovers + 1 /\ seen' \in {seen, cache, api} /\ queued' = TRUE
        /\ post' = NoPost
        /\ UNCHANGED <<setup, api, cache, due, run, failed, build, faults, edits, relists>>
        /\ UNCHANGED ready
    BY <1>6 DEF Takeover, handlerVars, workVars
  <2>2. shown' \in Nat /\ late' \in BOOLEAN /\ stragglers' \in Seq(Nat)
    <3>1. CASE Fails
      BY <1>0, <3>1, ArrivesFacts
    <3>2. CASE UNCHANGED <<shown, late, stragglers>>
      BY <1>0, <3>2
    <3> QED
      BY <1>6, <3>1, <3>2 DEF Takeover
  <2>3. HandlerInv'
    BY <1>0, <2>1, LeaderLeavesHandler
  <2>4. seen' \in Objects /\ post' \in Nat
    BY <1>0, <2>1 DEF NoPost
  <2>5. StatusTypeInv'
    BY <1>0, <2>1, <2>2, <2>3, <2>4 DEF HandlerInv, StatusTypeInv
  <2>6. SeenInv'
    BY <1>0, <2>1, SeenListed
  <2>7. NoStateUnposted'
    BY <2>1 DEF NoStateUnposted
  <2> QED
    BY <2>3, <2>5, <2>6, <2>7 DEF IInv
<1>7. CASE StragglerArrives
  <2>1. /\ late' = TRUE
        /\ UNCHANGED <<setup, api, cache, due, run, failed, build, faults, edits, relists>>
        /\ UNCHANGED <<seen, queued, ready, post, takeovers>>
    BY <1>7 DEF StragglerArrives, handlerVars, workVars
  <2>2. shown' \in Nat /\ stragglers' \in Seq(Nat)
    <3>1. PICK i \in DOMAIN stragglers :
            shown' = stragglers[i] /\ stragglers' = RemoveAt(stragglers, i)
      BY <1>7 DEF StragglerArrives
    <3> QED
      BY <1>0, <3>1, RemoveAtFacts
  <2>3. HandlerInv'
    BY <1>0, <2>1, LeaderLeavesHandler
  <2>4. StatusTypeInv'
    BY <1>0, <2>1, <2>2, <2>3 DEF HandlerInv, StatusTypeInv
  <2>5. SeenInv'
    BY <1>0, <2>1 DEF SeenInv, Behind, Exists, Whole, Half
  <2>6. NoStateUnposted'
    <3>1. StateToPost(seen') = StateToPost(seen) /\ HasDeployment(seen') = HasDeployment(seen)
      BY <2>1
    <3> QED
      BY <1>0, <2>1, <3>1 DEF NoStateUnposted
  <2> QED
    BY <2>3, <2>4, <2>5, <2>6 DEF IInv
<1>8. CASE ChangeSecret \/ UNCHANGED vars
  <2>1. /\ ready' \in BOOLEAN /\ edits' \in Nat
        /\ UNCHANGED <<setup, api, cache, due, run, failed, build, faults, relists>>
        /\ UNCHANGED <<seen, queued, post, stragglers, shown, late, takeovers>>
    <3>1. CASE ChangeSecret
      <4>1. edits' = edits + 1 /\ ready' = ~ready
        BY <3>1 DEF ChangeSecret
      <4>2. edits' \in Nat
        BY <1>0, <4>1
      <4>3. ready' \in BOOLEAN
        BY <4>1
      <4> QED
        BY <3>1, <4>2, <4>3 DEF ChangeSecret, workVars
    <3>2. CASE UNCHANGED vars
      BY <1>0, <3>2 DEF workVars, vars, handlerVars, leaderVars
    <3> QED
      BY <1>8, <3>1, <3>2
  <2>2. HandlerInv'
    BY <1>0, <2>1, LeaderLeavesHandler
  <2>3. StatusTypeInv'
    BY <1>0, <2>1, <2>2 DEF HandlerInv, StatusTypeInv
  <2>4. SeenInv'
    BY <1>0, <2>1 DEF SeenInv, Behind, Exists, Whole, Half
  <2>5. NoStateUnposted'
    <3>1. StateToPost(seen') = StateToPost(seen) /\ HasDeployment(seen') = HasDeployment(seen)
      BY <2>1
    <3> QED
      BY <1>0, <2>1, <3>1 DEF NoStateUnposted
  <2> QED
    BY <2>2, <2>3, <2>4, <2>5 DEF IInv
<1> QED
  BY <1>2, <1>3, <1>4, <1>5, <1>6, <1>7, <1>8 DEF Next

-----------------------------------------------------------------------------
(* Theorems *)

\* The invariant of both controllers: caches lag and go back but are never wrong, nothing
\* half done is stored or sent, and no state is taken for posted that is not.
THEOREM InvCorrect == Spec => []IInv
<1>1. Init => IInv
  BY InitIInv
<1>2. IInv /\ [Next]_vars => IInv'
  BY IInvPreserved
<1> QED
  BY <1>1, <1>2, PTL DEF Spec

\* Every variable has its type.
THEOREM TypeCorrect == Spec => []StatusTypeInv
<1>1. IInv => StatusTypeInv
  BY DEF IInv
<1> QED
  BY <1>1, InvCorrect, PTL

\* However many builds, conflicts and failures there are, a run writes into no
\* object of the informer's cache: what the cache has under the version of the API
\* server is what the API server stored.
THEOREM CachesAreShared == Spec => []CacheIsServerState
<1>1. IInv => CacheIsServerState
  BY DEF IInv, HandlerInv
<1> QED
  BY <1>1, InvCorrect, PTL

\* The error of a handler that an accepted Update takes the place of is made good
\* by the event of that Update.
THEOREM FailuresRepeat == Spec => []FailedCallsRunAgain
<1>1. IInv => FailedCallsRunAgain
  BY DEF IInv, HandlerInv
<1> QED
  BY <1>1, InvCorrect, PTL

\* A status handler that fails stores nothing of what it wrote.
THEOREM StatusReverted == Spec => []NoHalfStatusStored
<1>1. IInv => NoHalfStatusStored
  BY DEF IInv, HandlerInv, NoHalfAnywhere, NoHalfStatusStored, Whole
<1> QED
  BY <1>1, InvCorrect, PTL

\* Through failing calls, changes under way, older lists and new leaders: as long as
\* GitHub has not got the state of the object a leader has seen, it has a run to make.
THEOREM StatesPosted == Spec => []NoStateUnposted
<1>1. IInv => NoStateUnposted
  BY DEF IInv
<1> QED
  BY <1>1, InvCorrect, PTL
=============================================================================
