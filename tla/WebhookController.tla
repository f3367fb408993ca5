------------------------- MODULE WebhookController -------------------------
(***************************************************************************)
(* The controller that registers GitWatchers: onChange with its two        *)
(* providers, the ticker, and what they act on - the API server, which     *)
(* refuses an update of an old resourceVersion, the informer cache of each *)
(* replica, which lags behind it, and GitHub, which keeps every hook it was*)
(* asked for.  Replicas take turns under a lease; one that is told to stop *)
(* releases the lease before its workers have ended, and one that does not *)
(* renew in time goes on for a while beside its successor.                 *)
(*                                                                         *)
(* The work queue is what PendingWork promises: pending[p] holds the keys  *)
(* to run and job[p][w] is the only run for w on replica p.                *)
(***************************************************************************)
EXTENDS GitWatchers, Sequences, FiniteSets

CONSTANTS
  Procs,        \* the replicas
  Watchers,     \* the names of GitWatcher objects
  MaxCreates,   \* bound: calls to GitHub's CreateHook
  MaxFaults,    \* bound: calls that fail or whose answer is lost
  MaxStops,     \* bound: crashes and shutdowns of replicas, and watches that end
  MaxStalls,    \* bound: leases that a leader does not renew in time
  MaxEdits,     \* bound: changes users make to objects and secrets
  MaxCommit,    \* bound: the last commit pushed to a branch
  MaxStale      \* bound: runs on an object older than the API server's

ASSUME BoundsAssumption ==
  {MaxCreates, MaxFaults, MaxStops, MaxStalls, MaxEdits, MaxCommit, MaxStale} \subseteq Nat

NoProc == "none"
ASSUME ProcsAssumption == NoProc \notin Procs

VARIABLES
  api,       \* the stored object of each name
  ver,       \* the last resourceVersion given out for each name
  secrets,   \* the secrets in the secret caches
  head,      \* the commit at the head of each watcher's branch
  hooks,     \* the hooks at GitHub, by id
  commits,   \* the GitCommits applied so far, with the watcher's uid
  mode,      \* of each replica: standby, leading or stopping
  lease,     \* the replica the lock names
  cache,     \* the informer cache of each replica
  pending,   \* the keys in each replica's work queue
  job,       \* the run of onChange for each key on each replica
  used       \* how much of each bound is used up

apiVars  == <<api, ver>>
extVars  == <<secrets, head, hooks, commits>>
procVars == <<mode, lease>>
workVars == <<cache, pending, job>>
vars == <<apiVars, extVars, procVars, workVars, used>>

BoundNames == {"creates", "faults", "stops", "stalls", "edits", "stale"}
Bounds == [creates |-> MaxCreates, faults |-> MaxFaults, stops |-> MaxStops,
           stalls |-> MaxStalls, edits |-> MaxEdits, stale |-> MaxStale]
Spend(S) == /\ \A b \in S : used[b] < Bounds[b]
            /\ used' = [b \in BoundNames |-> IF b \in S THEN used[b] + 1 ELSE used[b]]
Use(b) == Spend({b})

Hooks   == [of : Watchers, uid : Nat, secret : Nat]
Commits == [of : Watchers, uid : Nat, commit : Nat]
Modes   == {"standby", "leading", "stopping"}
Running == {"create", "ref", "poll", "write"}
\* old is the object the run read, new the copy the provider works on.
Jobs == [pc : {"idle"} \cup Running, old : Objects, new : Objects,
         err : Errors \cup {NoError}]
NoJob == [pc |-> "idle", old |-> Absent, new |-> Absent, err |-> NoError]

TypeInv ==
  /\ api \in [Watchers -> Objects]
  /\ ver \in [Watchers -> Nat]
  /\ secrets \subseteq SecretNames
  /\ head \in [Watchers -> Nat \ {0}]
  /\ hooks \in Seq(Hooks)
  /\ commits \subseteq Commits
  /\ mode \in [Procs -> Modes]
  /\ lease \in Procs \cup {NoProc}
  /\ cache \in [Procs -> [Watchers -> Objects]]
  /\ pending \in [Procs -> SUBSET Watchers]
  /\ job \in [Procs -> [Watchers -> Jobs]]
  /\ used \in [BoundNames -> Nat]

\* A fresh deployment of the replicas in a cluster that may hold new watchers
Init ==
  /\ api \in [Watchers -> {Absent} \cup {NewObject(1, s) : s \in Specs}]
  /\ ver = [w \in Watchers |-> 1]
  /\ secrets \in SUBSET SecretNames
  /\ head = [w \in Watchers |-> 1]
  /\ hooks = <<>> /\ commits = {}
  /\ mode = [p \in Procs |-> "standby"]
  /\ lease = NoProc
  /\ cache = [p \in Procs |-> api]
  /\ pending = [p \in Procs |-> {}]
  /\ job = [p \in Procs |-> [w \in Watchers |-> NoJob]]
  /\ used = [b \in BoundNames |-> 0]

-----------------------------------------------------------------------------
(* Users and the repository *)

Store(w, o) == /\ api' = [api EXCEPT ![w] = o]
               /\ ver' = [ver EXCEPT ![w] = @ + 1]

CreateWatcher(w) ==
  /\ ~Present(api[w]) /\ Use("edits")
  /\ \E s \in Specs : Store(w, NewObject(ver[w] + 1, s))
  /\ UNCHANGED <<extVars, procVars, workVars>>

EditWatcher(w) ==
  /\ Present(api[w]) /\ Use("edits")
  /\ \E s \in Specs \ {api[w].spec} :
       Store(w, [api[w] EXCEPT !.rv = ver[w] + 1, !.spec = s])
  /\ UNCHANGED <<extVars, procVars, workVars>>

DeleteWatcher(w) ==
  /\ Present(api[w]) /\ Use("edits")
  /\ Store(w, Absent)
  /\ UNCHANGED <<extVars, procVars, workVars>>

ChangeSecret(n) ==
  /\ Use("edits")
  /\ secrets' \in {secrets \cup {n}, secrets \ {n}} \ {secrets}
  /\ UNCHANGED <<apiVars, head, hooks, commits, procVars, workVars>>

Push(w) ==
  /\ head[w] < MaxCommit
  /\ head' = [head EXCEPT ![w] = @ + 1]
  /\ UNCHANGED <<apiVars, secrets, hooks, commits, procVars, workVars, used>>

-----------------------------------------------------------------------------
(* Replicas *)

Idle(p) == /\ pending' = [pending EXCEPT ![p] = {}]
           /\ job' = [job EXCEPT ![p] = [w \in Watchers |-> NoJob]]

\* The lock is free, or names this host already.  start.All then fills the
\* cache before any worker runs, from a list the API server may answer from
\* its own cache: as old as what some replica has seen.  The informer announces
\* every listed object.
Acquire(p) ==
  /\ mode[p] = "standby" /\ lease \in {NoProc, p}
  /\ lease' = p
  /\ mode' = [mode EXCEPT ![p] = "leading"]
  /\ \E list \in {api} \cup {cache[q] : q \in Procs} :
       /\ cache' = [cache EXCEPT ![p] = list]
       /\ pending' = [pending EXCEPT ![p] = {w \in Watchers : Present(list[w])}]
  /\ UNCHANGED <<apiVars, extVars, job, used>>

\* SIGTERM cancels the context: informers, ticker and queue stop, runs do not.
Stop(p) ==
  /\ mode[p] = "leading" /\ Use("stops")
  /\ mode' = [mode EXCEPT ![p] = "stopping"]
  /\ UNCHANGED <<apiVars, extVars, lease, workVars>>

\* ReleaseOnCancel, before OnStoppedLeading ends the process
Release(p) ==
  /\ mode[p] = "stopping" /\ lease = p
  /\ lease' = NoProc
  /\ UNCHANGED <<apiVars, extVars, mode, workVars, used>>

\* OnStoppedLeading is logrus.Fatalf; the pod is started again.
Exit(p) ==
  /\ mode[p] = "stopping"
  /\ mode' = [mode EXCEPT ![p] = "standby"]
  /\ Idle(p)
  /\ UNCHANGED <<apiVars, extVars, lease, cache, used>>

\* A leader does not renew in time: it was paused or cut off, or renew has
\* given up and released the lease before it cancels the workers' context.
LoseLease(p) ==
  /\ mode[p] = "leading" /\ lease = p /\ Use("stalls")
  /\ lease' = NoProc
  /\ UNCHANGED <<apiVars, extVars, mode, workVars>>

\* The next tryAcquireOrRenew finds the lock still free, ...
Renew(p) ==
  /\ mode[p] = "leading" /\ lease = NoProc
  /\ lease' = p
  /\ UNCHANGED <<apiVars, extVars, mode, workVars, used>>

\* ... or RenewDeadline passes, and the replica ends like one that is stopped.
GiveUp(p) ==
  /\ mode[p] = "leading" /\ lease # p
  /\ mode' = [mode EXCEPT ![p] = "stopping"]
  /\ UNCHANGED <<apiVars, extVars, lease, workVars, used>>

\* The process is killed.
Crash(p) ==
  /\ mode[p] = "leading" /\ Use("stops")
  /\ mode' = [mode EXCEPT ![p] = "standby"]
  /\ Idle(p)
  /\ UNCHANGED <<apiVars, extVars, lease, cache>>

\* The lease of a replica that no longer renews it runs out.
Expire ==
  /\ lease # NoProc /\ mode[lease] = "standby"
  /\ lease' = NoProc
  /\ UNCHANGED <<apiVars, extVars, mode, workVars, used>>

\* The watch brings the cache up to date and the informer enqueues the key.
CacheSync(p, w) ==
  /\ mode[p] = "leading" /\ cache[p][w] # api[w]
  /\ cache' = [cache EXCEPT ![p][w] = api[w]]
  /\ pending' = [pending EXCEPT ![p] = @ \cup {w}]
  /\ UNCHANGED <<apiVars, extVars, procVars, job, used>>

\* The watch ends, and the list that follows is again as old as what some replica has
\* seen: the cache goes back, until the next watch delivers.
Relist(p) ==
  /\ mode[p] = "leading" /\ Use("stops")
  /\ \E list \in {cache[q] : q \in Procs} \ {cache[p]} :
       /\ cache' = [cache EXCEPT ![p] = list]
       /\ pending' = [pending EXCEPT ![p] = @ \cup {w \in Watchers : list[w] # cache[p][w]}]
  /\ UNCHANGED <<apiVars, extVars, procVars, job>>

\* start: every 30 seconds the watchers that have no hook in the cache
\* (faulty variant: those that have no first commit)
DueWithoutCommit(o) == Present(o) /\ o.firstCommit = 0
Due(o) == Present(o) /\ o.hookID = 0

Tick(p) ==
  /\ mode[p] = "leading"
  /\ pending' = [pending EXCEPT ![p] = @ \cup {w \in Watchers : Due(cache[p][w])}]
  /\ UNCHANGED <<apiVars, extVars, procVars, cache, job, used>>
-----------------------------------------------------------------------------
(* onChange: one run for key w on replica p *)

Goto(p, w, state, n, err) ==
  job' = [job EXCEPT ![p][w] = [pc |-> state, old |-> @.old, new |-> n, err |-> err]]

\* The run ends; processSingleItem asks for another one after an error.
Return(p, w, failed) ==
  /\ job' = [job EXCEPT ![p][w] = NoJob]
  /\ pending' = IF failed /\ mode[p] = "leading"
                THEN [pending EXCEPT ![p] = @ \cup {w}] ELSE pending

\* A failing call costs a fault, but any call of a stopping replica may fail.
Fault(p) == IF mode[p] = "stopping" THEN {} ELSE {"faults"}

\* Faulty variants of FirstStep (see "Mutants" in the README): a watcher that no
\* provider supports is not left alone, a watcher that has a hook gets another,
\* a token is taken for a registration.
FirstStepUnsupported(o) ==
  IF ~Present(o) THEN "idle"
  ELSE IF Provider(o, secrets) = "polling" THEN "poll"
  ELSE IF Provider(o, secrets) = "github" /\ o.hookID = 0 THEN "create"
  ELSE Provider(o, secrets)

FirstStepAgain(o) ==
  IF ~Present(o) \/ Provider(o, secrets) = NoName THEN "idle"
  ELSE IF Provider(o, secrets) = "polling" THEN "poll" ELSE "create"

FirstStepByToken(o) ==
  IF ~Present(o) \/ Provider(o, secrets) = NoName THEN "idle"
  ELSE IF Provider(o, secrets) = "polling" THEN "poll"
  ELSE IF o.token = 0 THEN "create" ELSE "idle"

\* What onChange starts with: nothing for a deleted object, for one that no
\* provider supports, and for one GitHub.Create finds a hook in.
FirstStep(o) ==
  LET provider == Provider(o, secrets)
  IN  IF ~Present(o) THEN "idle"
      ELSE IF provider = "polling" THEN "poll"
      ELSE IF provider = "github" /\ o.hookID = 0 THEN "create"
      ELSE "idle"

\* syncHandler reads the cache and onChange picks the provider.
Begin(p, w) ==
  LET o == cache[p][w]
  IN  /\ mode[p] # "standby" /\ w \in pending[p] /\ job[p][w].pc = "idle"
      /\ Spend(IF o = api[w] THEN {} ELSE {"stale"})
      /\ pending' = [pending EXCEPT ![p] = @ \ {w}]
      /\ job' = IF FirstStep(o) = "idle" THEN job
                ELSE [job EXCEPT ![p][w] = [pc |-> FirstStep(o), old |-> o, new |-> o,
                                            err |-> NoError]]
      /\ UNCHANGED <<apiVars, extVars, procVars, cache>>

\* getClient and createHook: the copy gets a fresh token before the call, and
\* keeps it whatever the answer is.
NewHook(w, o) == [of |-> w, uid |-> o.uid, secret |-> o.token]

CreateHook(p, w) ==
  LET n == [job[p][w].new EXCEPT !.token = used["creates"] + 1]
  IN  /\ job[p][w].pc = "create"
      /\ \/ /\ SecretName(n) \notin secrets
            /\ Goto(p, w, "write", job[p][w].new, "secret")
            /\ UNCHANGED <<hooks, used>>
         \/ /\ SecretName(n) \in secrets /\ mode[p] = "leading"
            /\ hooks' = Append(hooks, NewHook(w, n))
            /\ \/ /\ Spend({"creates"})
                  /\ Goto(p, w, "ref", [n EXCEPT !.hookID = Len(hooks) + 1], NoError)
               \* an answer without an id
               \/ /\ Spend({"creates", "faults"})
                  /\ Goto(p, w, "ref", n, NoError)
         \* refused, or the answer is lost
         \/ /\ SecretName(n) \in secrets
            /\ Spend({"creates"} \cup Fault(p))
            /\ hooks' \in {hooks, Append(hooks, NewHook(w, n))}
            /\ Goto(p, w, "write", n, "hook")
      /\ UNCHANGED <<apiVars, secrets, head, commits, procVars, cache, pending>>

\* What ApplyCommit does to the GitCommits: when it returns an error the
\* GitCommit may be there or not.
Applied(w, o) == commits \cup {[of |-> w, uid |-> o.uid, commit |-> head[w]]}

\* getFirstCommit: the copy gets FirstCommit even when ApplyCommit fails.
GetFirstCommit(p, w) ==
  LET o == job[p][w].new
      n == [o EXCEPT !.firstCommit = head[w]]
      wanted == o.firstCommit = 0 /\ o.spec.branch
  IN  /\ job[p][w].pc = "ref"
      /\ \/ /\ ~wanted
            /\ Goto(p, w, "write", o, NoError)
            /\ UNCHANGED <<commits, used>>
         \/ /\ wanted
            /\ commits' = Applied(w, o)
            /\ Goto(p, w, "write", n, NoError)
            /\ UNCHANGED used
         \/ /\ wanted /\ Spend(Fault(p))
            /\ \/ /\ commits' \in {commits, Applied(w, o)}
                  /\ Goto(p, w, "write", n, "apply")
               \* GetRef fails, or its answer has no object
               \/ /\ \E err \in {"ref", NoError} : Goto(p, w, "write", o, err)
                  /\ UNCHANGED commits
      /\ UNCHANGED <<apiVars, secrets, head, hooks, procVars, cache, pending>>

\* Polling.Create: FirstCommit is set only after ApplyCommit succeeded.
Poll(p, w) ==
  LET o == job[p][w].new
  IN  /\ job[p][w].pc = "poll"
      /\ \/ /\ commits' = Applied(w, o)
            /\ Goto(p, w, "write",
                    IF o.firstCommit = 0 THEN [o EXCEPT !.firstCommit = head[w]] ELSE o,
                    NoError)
            /\ UNCHANGED used
         \/ /\ Spend(Fault(p))
            /\ \/ /\ commits' \in {commits, Applied(w, o)}
                  /\ Goto(p, w, "write", o, "apply")
               \/ /\ UNCHANGED commits
                  /\ Goto(p, w, "write", o, "git")
      /\ UNCHANGED <<apiVars, secrets, head, hooks, procVars, cache, pending>>

\* Faulty variants: the error is not recorded; the version is not compared.
ResultSilent(j) == j.new
AcceptsAnyVersion(w, o) == Present(api[w])

\* SetError on the copy of a failed Create
Result(j) == IF j.err = NoError THEN j.new ELSE [j.new EXCEPT !.cond = j.err]

\* The API server takes an update of the version it has and no other.
Accepts(w, o) == Present(api[w]) /\ api[w].rv = o.rv

Update(p, w) ==
  LET j == job[p][w]
      n == Result(j)
  IN  /\ j.pc = "write"
      /\ \/ /\ n = j.old
            /\ Return(p, w, j.err # NoError)
            /\ UNCHANGED <<apiVars, used>>
         \/ /\ n # j.old /\ Accepts(w, n)
            /\ Store(w, [n EXCEPT !.rv = ver[w] + 1])
            /\ \/ Return(p, w, j.err # NoError) /\ UNCHANGED used
               \/ Return(p, w, TRUE) /\ Spend({"faults"})  \* the answer is lost
         \/ /\ n # j.old /\ ~Accepts(w, n)
            /\ Return(p, w, TRUE)
            /\ UNCHANGED <<apiVars, used>>
         \* the call never reaches the API server
         \/ /\ n # j.old /\ Spend({"faults"})
            /\ Return(p, w, TRUE)
            /\ UNCHANGED apiVars
      /\ UNCHANGED <<extVars, procVars, cache>>

-----------------------------------------------------------------------------
UserStep == \/ \E w \in Watchers : \/ CreateWatcher(w) \/ EditWatcher(w)
                                    \/ DeleteWatcher(w) \/ Push(w)
            \/ \E n \in SecretNames : ChangeSecret(n)

ReplicaStep(p) == \/ Acquire(p) \/ Stop(p) \/ Release(p) \/ Exit(p) \/ Crash(p)
                  \/ LoseLease(p) \/ Renew(p) \/ GiveUp(p)

RunStep(p, w) == \/ Begin(p, w) \/ CreateHook(p, w) \/ GetFirstCommit(p, w)
                 \/ Poll(p, w) \/ Update(p, w)

Next == \/ UserStep
        \/ \E p \in Procs : ReplicaStep(p) \/ Relist(p) \/ Tick(p)
        \/ Expire
        \/ \E p \in Procs, w \in Watchers : CacheSync(p, w) \/ RunStep(p, w)

\* Watches deliver, tickers fire, workers run, leases run out, replicas that
\* ended are started again and ask for the lease.  Users owe nothing.
Fairness ==
  /\ WF_vars(Expire)
  /\ \A p \in Procs : /\ WF_vars(Acquire(p)) /\ WF_vars(Exit(p)) /\ WF_vars(Tick(p))
                      /\ WF_vars(Renew(p) \/ GiveUp(p))
                      /\ \A w \in Watchers : /\ WF_vars(CacheSync(p, w))
                                             /\ WF_vars(RunStep(p, w))

Spec == Init /\ [][Next]_vars /\ Fairness
-----------------------------------------------------------------------------
(* Properties *)

\* The hook a watcher records is a hook GitHub has, made for this very watcher,
\* and it signs with the token the watcher stores: otherwise HandleHook would
\* refuse every delivery.  Failed attempts, conflicting updates, stale runs,
\* deleted and recreated watchers and the runs of two replicas all write tokens.
Signs(w, o) ==
  o.hookID # 0 => /\ o.hookID \in DOMAIN hooks
                  /\ hooks[o.hookID] = NewHook(w, o)
HookSignsWithToken == \A w \in Watchers : Signs(w, api[w])

\* Once a watcher has a hook its HookID and Token stay what they are for as long
\* as the object lives, whatever a run on an older version of it has done.
HookNeverReplaced ==
  [][\A w \in Watchers :
       api[w].hookID # 0 /\ api'[w].uid = api[w].uid =>
         api'[w].hookID = api[w].hookID /\ api'[w].token = api[w].token]_vars

\* FirstCommit is written once: polling again after a push, and a run on an
\* older version of the object, leave it alone.
FirstCommitNeverReplaced ==
  [][\A w \in Watchers :
       api[w].firstCommit # 0 /\ api'[w].uid = api[w].uid =>
         api'[w].firstCommit = api[w].firstCommit]_vars

\* A FirstCommit whose GitCommit was never created is not passed over in
\* silence: getFirstCommit records it and does not come back to it, so the
\* Registered condition must say so.
AppliedOrReported(w, o) ==
  o.firstCommit # 0 => \/ [of |-> w, uid |-> o.uid, commit |-> o.firstCommit] \in commits
                       \/ o.cond # NoError
FirstCommitAppliedOrReported == \A w \in Watchers : AppliedOrReported(w, api[w])

\* A run writes back what it read: an edit a user makes while the providers
\* talk to GitHub is never undone by the run's Update.
EditsSurvive ==
  [][\A w \in Watchers :
       api'[w].uid = api[w].uid /\ api'[w].spec # api[w].spec => UserStep]_vars

\* Seen from the handlers of deliveries, all of this is Registration: a hook is made
\* with a token of its own, and recorded once, with that token, on the object it
\* was made for.
RegistrationOf(o) == [uid |-> o.uid, token |-> o.token, hook |-> o.hookID]
Reg == INSTANCE Registration WITH
         watcher <- [w \in Watchers |-> RegistrationOf(api[w])],
         Tokens  <- 1 .. MaxCreates
ImplementsRegistration == Reg!Spec

\* What that gives to HandleHook: of all the hooks that runs of any replica have made,
\* the recorded one alone signs with the token that deliveries are checked with.
OnlyRecordedHookSigns == Reg!RecordedHookSigns

\* Watchers that GitHub serves and that stay that way get a hook, through
\* refused calls, lost answers, stale caches, conflicts and failovers.
ServedByGitHub(w) == Present(api[w]) /\ GitHubSupports(api[w], secrets)
GitHubWatchersRegister ==
  \A w \in Watchers : <>[]ServedByGitHub(w) => <>[](api[w].hookID # 0)

\* A watcher that is polled gets a GitCommit for the commit its branch ends up
\* with: the ticker comes back to it although nothing in the cluster changes.
Polled(w) == /\ Present(api[w]) /\ api[w].hookID = 0
             /\ Provider(api[w], secrets) = "polling"
HeadApplied(w) == [of |-> w, uid |-> api[w].uid, commit |-> head[w]] \in commits
PolledHeadsAreApplied ==
  \A w \in Watchers : <>[]Polled(w) => <>[]HeadApplied(w)

\* "... or you may have two processes simultaneously acting on the critical
\* path" (leaderelection.go:142-146): the runs of two replicas do not overlap.
OneReplicaRuns ==
  \A p, q \in Procs :
    (\E v, w \in Watchers : job[p][v] # NoJob /\ job[q][w] # NoJob) => p = q

\* "gitWebHookReceiver controller will register a webhook in the repo"
\* (README.md:28): one webhook, when nothing fails and nobody interferes.
OneHookPerWatcher ==
  \A h, i \in DOMAIN hooks : hooks[h].uid = hooks[i].uid /\ hooks[h].of = hooks[i].of => h = i

\* The same sentence, of the sample above it (README.md:13-27): a GitHub watcher
\* that names no githubWebhookToken gets a webhook, sooner or later.
SampleRegisters ==
  \A w \in Watchers : <>[](Present(api[w]) /\ api[w].spec.github) => <>(api[w].hookID # 0)

-----------------------------------------------------------------------------
(* The inductive invariant behind the safety properties *)

\* What a run may make of the object it read: the identity, the version and the
\* spec stay, and so do a hook and a first commit that are there already.
Keeps(o, n) ==
  /\ n.uid = o.uid /\ n.rv = o.rv /\ n.spec = o.spec
  /\ o.hookID # 0 => n.hookID = o.hookID /\ n.token = o.token
  /\ o.firstCommit # 0 => n.firstCommit = o.firstCommit

\* A copy of w's object, in a cache or in a run: if it has the version that the
\* API server has, then it is the object the API server has.
CopyOK(w, o) ==
  /\ Signs(w, o)
  /\ o.rv <= ver[w]
  /\ Present(api[w]) /\ o.rv = api[w].rv => o = api[w]

RunOK(w, j) ==
  /\ CopyOK(w, j.old)
  /\ Signs(w, j.new)
  /\ Keeps(j.old, j.new)
  /\ j.pc = "create" => j.new.hookID = 0

StoredOK(w) == /\ CopyOK(w, api[w])
               /\ Present(api[w]) => api[w].rv > 0

\* Old copies are told apart from the stored object by their version alone, so
\* the API server's check is all that keeps the work of stale runs, of two
\* replicas and of users apart.
IInv == \A w \in Watchers :
          /\ StoredOK(w)
          /\ \A p \in Procs : CopyOK(w, cache[p][w]) /\ RunOK(w, job[p][w])

\* The inductive invariant behind FirstCommitAppliedOrReported: it holds of
\* every copy, and of what a run works on unless the run has an error to report.
ReportsInv ==
  \A w \in Watchers :
    /\ AppliedOrReported(w, api[w])
    /\ \A p \in Procs :
         /\ AppliedOrReported(w, cache[p][w])
         /\ job[p][w].err = NoError => AppliedOrReported(w, job[p][w].new)
         /\ job[p][w].pc # "write" => job[p][w].err = NoError
=============================================================================
