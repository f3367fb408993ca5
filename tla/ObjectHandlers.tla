---------------------------- MODULE ObjectHandlers ----------------------------
(***************************************************************************)
(* A controller built on the generated packages: the execution controller  *)
(* of the README, which writes into a GitCommit how far its build is, or   *)
(* one that labels a GitWatcher.  Its handler works on a copy of the       *)
(* cached object, under one of the two wrappers the generator provides:    *)
(* Update...DeepCopyOnChange, or the status handler, which needs a custom  *)
(* resource with a status subresource.  The wrappers of both kinds come    *)
(* from one template.  The repository generates them for such controllers  *)
(* and has no caller itself.                                               *)
(***************************************************************************)
EXTENDS SharedObjects

CONSTANTS
  MaxBuilds,   \* bound: the last progress a build makes
  MaxFaults,   \* bound: handler calls and API calls that fail
  MaxEdits,    \* bound: changes users make
  MaxRelists   \* bound: watches that end

ASSUME BoundsAssumption == {MaxBuilds, MaxFaults, MaxEdits, MaxRelists} \subseteq Nat

VARIABLES
  setup,    \* the kind, the wrapper, the field the handler reports in
  api,      \* the object at the API server
  cache,    \* the object in the informer's cache
  due,      \* is its key in the work queue?
  run,      \* is a run sending an object, and which one?
  build,    \* how far the build is
  failed,   \* did the last call of the handler fail?
  faults, edits, relists

workVars == <<cache, due, run, failed>>
handlerVars == <<setup, api, workVars, build, faults, edits, relists>>

\* GitWatchers are labelled, GitCommits get a deployment state or, where
\* there is no deployment or the controller prefers it, a build status.  The
\* status handler cannot do without the subresource, but it is tried.
Setups == [style : {"update"}, subresource : {FALSE},
           field : {"executionLabels", "githubStatus", "buildStatus"}]
          \cup [style : {"status"}, subresource : BOOLEAN, field : {"githubStatus"}]

NoRun == [busy |-> FALSE]
Runs == {NoRun} \cup [busy : {TRUE}, obj : Objects]

\* What a handler that fails may have written before it did
Half == MaxBuilds + 1

TypeInv ==
  /\ setup \in Setups
  /\ {api, cache} \subseteq Objects
  /\ due \in BOOLEAN /\ failed \in BOOLEAN
  /\ run \in Runs
  /\ {build, faults, edits, relists} \subseteq Nat

\* The informer has just announced the object.  Its deployment is the one it was
\* created with or, as a status subresource drops that, one stored since.
HandlerInit ==
  /\ setup \in Setups
  /\ \E d \in BOOLEAN :
       /\ setup.field = "githubStatus" => d
       /\ setup.field = "executionLabels" => ~d
       /\ api = [rv |-> 1, spec |-> 1, executionLabels |-> 0, conditions |-> NoCondition,
                 deployment |-> d, githubStatus |-> 0, buildStatus |-> 0]
  /\ cache = api /\ due = TRUE /\ run = NoRun
  /\ build = 0 /\ failed = FALSE
  /\ faults = 0 /\ edits = 0 /\ relists = 0
-----------------------------------------------------------------------------
DeepCopy(o) == IF setup.field = "executionLabels" THEN GitWatcherDeepCopy(o) ELSE GitCommitDeepCopy(o)

Report(h, progress) ==
  IF setup.field = "buildStatus" THEN [h EXCEPT !.val.buildStatus = progress]
  ELSE Write(h, setup.field, progress)

Outcome(ok) == IF ok THEN "True" ELSE "False"

\* The handler records its own outcome; what it returns replaces the copy.
UpdateDeepCopyOnChange(o, progress, ok) ==
  LET h == SetError(Report(DeepCopy(o), progress), Outcome(ok))
  IN  [from |-> h.from, obj |-> h.val, changed |-> h.val # h.from]

\* Faulty variant: after an error the status keeps what the handler wrote.
SyncStatusUnreverted(o, progress, ok) ==
  LET h == SetError(Report(DeepCopy(o), progress), Outcome(ok))
  IN  [from |-> h.from, obj |-> h.val, changed |-> h.val # h.from]

\* The handler is given a copy of the object and returns the new status.  After
\* an error that is the status of before, in memory of its own.  SetError then
\* writes into the copy: the new status gets the condition only through the list
\* the two share, when it was there already and the handler succeeded.
SyncStatus(o, progress, ok) ==
  LET h == Report(DeepCopy(o), progress)
      copy == SetError(h, Outcome(ok))
      new == IF ~ok THEN copy.from
             ELSE IF h.val.conditions = NoCondition THEN h.val ELSE copy.val
  IN  [from |-> copy.from, obj |-> new, changed |-> new # copy.from]

\* What a failing handler leaves: something half done, or - the generating
\* handler, when Apply fails after the objects were generated - the whole.
FailedProgress == {Half, build}

\* Faulty variants: the wrapper forgets the error; the run's object is not
\* cleared; the error of the call is.
ReturnedNever(sync, ok) == FALSE
ReturnUncleared(err) == run' = [run EXCEPT !.busy = FALSE] /\ due' = (due \/ err)
ReturnSilent(err) == run' = NoRun /\ UNCHANGED due

\* The handler's error comes back when there is nothing to send.  (A status
\* handler that failed has nothing to send: its status was reverted.)
Returned(sync, ok) == ~ok /\ ~sync.changed

\* The run ends; processSingleItem asks for another one after an error.
Return(err) == run' = NoRun /\ due' = (due \/ err)

\* syncHandler, up to the call of the API server: there is nothing to do for an
\* object that is gone.
Call ==
  /\ due /\ ~run.busy
  /\ \/ /\ ~Exists(cache)
        /\ due' = FALSE /\ failed' = FALSE
        /\ UNCHANGED <<cache, run, faults>>
     \/ /\ Exists(cache)
        /\ \E ok \in BOOLEAN :
           \E progress \in IF ok THEN {build} ELSE FailedProgress :
             LET sync == IF setup.style = "status" THEN SyncStatus(cache, progress, ok)
                         ELSE UpdateDeepCopyOnChange(cache, progress, ok)
             IN  /\ ok \/ faults < MaxFaults
                 /\ faults' = IF ok THEN faults ELSE faults + 1
                 /\ failed' = ~ok
                 /\ cache' = sync.from
                 /\ run' = IF sync.changed THEN [busy |-> TRUE, obj |-> sync.obj] ELSE NoRun
                 /\ due' = Returned(sync, ok)
  /\ UNCHANGED <<setup, api, build, edits, relists>>

\* The API server takes an object of the version it has.  PUT .../status changes
\* nothing but the status, and is not there without the subresource.
Accepts(o) == /\ Exists(api) /\ api.rv = o.rv
              /\ setup.style = "status" => setup.subresource
NextVersion(o) == [o EXCEPT !.rv = @ + 1]

\* Update or UpdateStatus: its result takes the place of the handler's.
Store ==
  /\ run.busy
  /\ \/ /\ Accepts(run.obj)
        /\ api' = NextVersion(run.obj)
        /\ Return(FALSE)
        /\ UNCHANGED faults
     \/ /\ ~Accepts(run.obj)
        /\ Return(TRUE)
        /\ UNCHANGED <<api, faults>>
     \* the call fails before the API server has changed the object, or after
     \/ /\ faults < MaxFaults /\ faults' = faults + 1
        /\ api' \in {api} \cup (IF Accepts(run.obj) THEN {NextVersion(run.obj)} ELSE {})
        /\ Return(TRUE)
  /\ UNCHANGED <<setup, cache, build, failed, edits, relists>>

\* A watch event: an update with the version the cache has is not announced.
Event ==
  /\ cache.rv # api.rv
  /\ cache' = api
  /\ due' = TRUE
  /\ UNCHANGED <<setup, api, run, build, failed, faults, edits, relists>>

\* The watch ended and the informer lists again, with version "0": the API server may
\* answer from a cache of its own, and so with what others still have.
Relist(list) ==
  /\ list.rv # cache.rv /\ relists < MaxRelists
  /\ relists' = relists + 1
  /\ cache' = list
  /\ due' = TRUE
  /\ UNCHANGED <<setup, api, run, build, failed, faults, edits>>

\* The build goes on and the controller enqueues the object.
Progress ==
  /\ build < MaxBuilds
  /\ build' = build + 1
  /\ due' = TRUE
  /\ UNCHANGED <<setup, api, cache, run, failed, faults, edits, relists>>

Edit ==
  /\ Exists(api) /\ edits < MaxEdits /\ edits' = edits + 1
  /\ api' \in {[NextVersion(api) EXCEPT !.spec = @ + 1], [api EXCEPT !.rv = 0]}
  /\ UNCHANGED <<setup, workVars, build, faults, relists>>

HandlerNext == Call \/ Store \/ Event \/ Progress \/ Edit
-----------------------------------------------------------------------------
(* Properties *)

\* An object in the cache is what the API server stored under its version: no
\* handler writes into the memory it shares with every other reader.  If one
\* did, DeepEqual would find nothing to update and the change would be lost.
CacheIsServerState == cache.rv = api.rv => cache = api

\* A call of the handler that failed is made again, although an Update that
\* succeeds takes the place of its error: the update changes the object, and
\* its event brings the key back.
FailedCallsRunAgain == failed => due \/ run.busy \/ cache.rv # api.rv

\* A status handler that fails leaves the status as it was, even if it had
\* written into the status it was given.
NoHalfStatusStored == setup.style = "status" => Half \notin {api.githubStatus, api.buildStatus}
=============================================================================
