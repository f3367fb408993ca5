---------------------------- MODULE HookHandler ----------------------------
(***************************************************************************)
(* Deliveries of GitHub: HandleHook and handleEvent on the replicas that   *)
(* serve HTTP, with what they depend on - the stored GitWatcher, read      *)
(* live; the secret cache, which only a replica that leads has filled; the *)
(* hooks that registration left at GitHub, recorded or not - and what they *)
(* leave behind: deployments at GitHub and GitCommits.                     *)
(*                                                                         *)
(* A delivery may be lost, be overtaken and be sent again at any time, also*)
(* while the first attempt is still being handled (GitHub stops waiting    *)
(* after ten seconds).  Registration is that of WebhookController, seen    *)
(* from here: a hook is made, and later recorded or not.  All watchers have*)
(* repositories of their own, and every request names its watcher.         *)
(***************************************************************************)
EXTENDS Naturals, Sequences, FiniteSets, Functions

CONSTANTS
  Procs,        \* the replicas, all of which serve HTTP
  Watchers,     \* the names of GitWatcher objects
  Specs,        \* the GitWatcherSpecs users may write
  Branches,     \* the branches of the repositories
  Tags,         \* the tags
  Happenings,   \* the events GitHub delivers: what may happen in a repository, and pings
  MaxHooks,     \* bound: runs of onChange that find no hook
  MaxEvents,    \* bound: events, pings included
  MaxAttempts,  \* bound: deliveries, repeated ones included
  MaxFaults,    \* bound: calls that fail or whose answer is lost, and crashes
  MaxEdits,     \* bound: changes users make to objects
  MaxSecrets    \* bound: secrets users delete or create

None == "none"

\* ref of a push may be a tag; a create event may be about a branch.
Pushes == [kind : {"push"}, ref : Branches \cup {None}, head : BOOLEAN]
Creates == [kind : {"create"}, tag : Tags \cup {None}]
Actions == {"opened", "reopened", "closed", "merged", "synchronize"}
PullRequests == [kind : {"pull_request"}, action : Actions \cup {"labeled"}]
Ping == [kind |-> "ping"]
Subscribable == {"push", "pull_request", "create"}
Events == Pushes \cup Creates \cup PullRequests \cup {Ping}

ASSUME SpecsAssumption ==
  Specs \subseteq [enabled : BOOLEAN, push : BOOLEAN, pr : BOOLEAN, tag : BOOLEAN,
                   deploy : BOOLEAN, branch : Branches \cup {None}, tags : SUBSET Tags]
ASSUME NamesAssumption == None \notin Branches \cup Tags
ASSUME HappeningsAssumption == Happenings \subseteq Events
ASSUME BoundsAssumption ==
  {MaxHooks, MaxEvents, MaxAttempts, MaxFaults, MaxEdits, MaxSecrets} \subseteq Nat

VARIABLES
  watcher,      \* the stored object of each name
  ver,          \* the last resourceVersion given out for each name
  secrets,      \* the watchers whose webhook secret exists
  cached,       \* the replicas whose secret cache is filled
  hooks,        \* the hooks at GitHub, by id
  runs,         \* the runs of onChange that make a hook or have one to record
  events,       \* what happened, in order, with the hook recorded at that time
  attempts,     \* the deliveries, in the order in which GitHub sent them
  deployments,  \* the deployments at GitHub, by id: the attempt that made each
  commits,      \* the GitCommits created from deliveries
  used          \* how much of each bound is used up

watcherVars == <<watcher, ver, secrets, cached>>
hookVars == <<hooks, runs>>
madeVars == <<deployments, commits>>
vars == <<watcherVars, hookVars, events, attempts, madeVars, used>>

BoundNames == {"hooks", "faults", "edits", "secrets"}

Objects == {[uid |-> 0]} \cup [uid : Nat \ {0}, rv : Nat, spec : Specs, token : Nat, hook : Nat]
Absent == [uid |-> 0]
Present(o) == o.uid # 0
Recorded(o) == IF Present(o) THEN o.hook ELSE 0

Ended == {"ok", "unprocessable", "error", "lost"}
Working == {"sent", "event", "create", "answer"}
Attempts == [hook : Nat \ {0}, event : Nat \ {0}, pc : Working \cup Ended, at : Procs \cup {None}, copy : Objects, deployment : Nat]

\* A run has its token before it asks; kinds are what it will ask for.
Runs == [of : Watchers, uid : Nat \ {0}, rv : Nat \ {0}, kinds : SUBSET Subscribable,
         token : Nat \ {0}, hook : Nat, pc : {"create", "update"}]

TypeInv ==
  /\ watcher \in [Watchers -> Objects]
  /\ ver \in [Watchers -> Nat]
  /\ secrets \subseteq Watchers
  /\ cached \subseteq Procs
  /\ hooks \in Seq([of : Watchers, uid : Nat, secret : Nat, kinds : SUBSET Subscribable])
  /\ runs \subseteq Runs
  /\ events \in Seq([what : Events, of : Watchers, uid : Nat, hook : Nat])
  /\ attempts \in Seq(Attempts)
  /\ deployments \in Seq(Nat \ {0})
  /\ commits \in Seq([attempt : Nat \ {0}, owner : Nat \ {0}, deployment : Nat])
  /\ used \in [BoundNames -> Nat]

Bounds == [hooks |-> MaxHooks, faults |-> MaxFaults, edits |-> MaxEdits, secrets |-> MaxSecrets]
Spend(S) == /\ \A b \in S : used[b] < Bounds[b]
            /\ used' = [b \in BoundNames |-> IF b \in S THEN used[b] + 1 ELSE used[b]]
Use(b) == Spend({b})

NewObject(uid, s) == [uid |-> uid, rv |-> uid, spec |-> s, token |-> 0, hook |-> 0]

Init ==
  /\ watcher \in [Watchers -> {NewObject(1, s) : s \in Specs}]
  /\ ver = [w \in Watchers |-> 1]
  /\ secrets = Watchers
  /\ cached = {}
  /\ hooks = <<>> /\ runs = {}
  /\ events = <<>> /\ attempts = <<>>
  /\ deployments = <<>> /\ commits = <<>>
  /\ used = [b \in BoundNames |-> 0]

-----------------------------------------------------------------------------
(* Users, the replicas, and registration *)

Store(w, o) == /\ watcher' = [watcher EXCEPT ![w] = o]
               /\ ver' = [ver EXCEPT ![w] = @ + 1]

EditWatcher ==
  /\ Use("edits")
  /\ \E w \in Watchers :
       \/ /\ ~Present(watcher[w])
          /\ \E s \in Specs : Store(w, NewObject(ver[w] + 1, s))
       \/ /\ Present(watcher[w])
          /\ \E s \in Specs \ {watcher[w].spec} :
               Store(w, [watcher[w] EXCEPT !.rv = ver[w] + 1, !.spec = s])
       \/ Present(watcher[w]) /\ Store(w, Absent)
  /\ UNCHANGED <<secrets, cached, hookVars, events, attempts, madeVars>>

ChangeSecret(w) ==
  /\ Use("secrets")
  /\ secrets' \in {secrets \cup {w}, secrets \ {w}} \ {secrets}
  /\ UNCHANGED <<watcher, ver, cached, hookVars, events, attempts, madeVars>>

\* The callback of RunOrDie starts the caches of the replica that leads; no
\* other replica has any.
StartCaches(p) ==
  /\ p \notin cached
  /\ cached' = cached \cup {p}
  /\ UNCHANGED <<watcher, ver, secrets, hookVars, events, attempts, madeVars, used>>

\* An attempt ends; what its handler held is gone with it.
EndOf(d, pc) == [d EXCEPT !.pc = pc, !.at = None, !.copy = Absent]

\* The end of a process: its caches are gone, and the requests it was handling
Restart(p) ==
  /\ Use("faults")
  /\ cached' = cached \ {p}
  /\ attempts' = [a \in DOMAIN attempts |->
       IF attempts[a].at = p /\ attempts[a].pc \notin Ended
       THEN EndOf(attempts[a], "lost") ELSE attempts[a]]
  /\ UNCHANGED <<watcher, ver, secrets, hookVars, events, madeVars>>

\* A hook without a kind of event gets GitHub's default.
getEvents(s) ==
  LET asked == {k \in Subscribable :
                  \/ k = "push" /\ s.push
                  \/ k = "pull_request" /\ s.pr
                  \/ k = "create" /\ s.tag}
  IN  IF asked = {} THEN {"push"} ELSE asked

Sent(h, e) == [hook |-> h, event |-> e, pc |-> "sent", at |-> None, copy |-> Absent,
               deployment |-> 0]

\* A fresh token for every attempt; faulty variant: none
NoToken == 0
NewToken == used["hooks"] + 1

\* A run of onChange, on a replica that leads or led, finds an object without a
\* hook.  What it makes of that copy comes later, whatever became of the object.
BeginRun(w) ==
  LET o == watcher[w]
  IN  /\ Present(o) /\ o.hook = 0 /\ cached # {} /\ Use("hooks")
      /\ runs' = runs \cup {[of |-> w, uid |-> o.uid, rv |-> o.rv, kinds |-> getEvents(o.spec),
                             token |-> NewToken, hook |-> 0, pc |-> "create"]}
      /\ UNCHANGED <<watcherVars, hooks, events, attempts, madeVars>>

\* GitHub announces a new hook with a ping, which it delivers or loses.
Announce(h, w) ==
  \/ /\ Ping \in Happenings
     /\ Len(events) < MaxEvents /\ Len(attempts) < MaxAttempts
     /\ events' = Append(events, [what |-> Ping, of |-> w, uid |-> watcher[w].uid,
                                  hook |-> Recorded(watcher[w])])
     /\ attempts' = Append(attempts, Sent(h, Len(events) + 1))
  \/ Ping \notin Happenings /\ UNCHANGED <<events, attempts>>

\* The run asks for a hook; GitHub makes one or not, and the run hears its id or not.
CreateHook(r) ==
  LET Asked(h) == runs' = (runs \ {r}) \cup {[r EXCEPT !.hook = h, !.pc = "update"]}
  IN  /\ r.pc = "create"
      /\ \/ /\ hooks' = Append(hooks, [of |-> r.of, uid |-> r.uid, secret |-> r.token,
                                       kinds |-> r.kinds])
            /\ Announce(Len(hooks) + 1, r.of)
            /\ \/ Asked(Len(hooks) + 1) /\ UNCHANGED used
               \/ Asked(0) /\ Use("faults")
         \/ Asked(0) /\ Use("faults") /\ UNCHANGED <<hooks, events, attempts>>
      /\ UNCHANGED <<watcherVars, madeVars>>

\* Faulty variant of the next one: the API server takes any version.
RecordUnchecked(r) ==
  LET o == watcher[r.of]
  IN  /\ r.pc = "update" /\ runs' = runs \ {r}
      /\ Present(o)
      /\ Store(r.of, [o EXCEPT !.rv = ver[r.of] + 1, !.token = r.token, !.hook = r.hook])
      /\ UNCHANGED <<secrets, cached, hooks, events, attempts, madeVars, used>>

\* The run's Update: the API server refuses it when the object has changed.
\* The token is recorded even if GitHub gave no hook for it.
Record(r) ==
  LET o == watcher[r.of]
  IN  /\ r.pc = "update" /\ runs' = runs \ {r}
      /\ \/ /\ Present(o) /\ o.rv = r.rv
            /\ Store(r.of, [o EXCEPT !.rv = ver[r.of] + 1, !.token = r.token, !.hook = r.hook])
            /\ UNCHANGED used
         \/ ~(Present(o) /\ o.rv = r.rv) /\ UNCHANGED <<watcher, ver, used>>
         \/ Use("faults") /\ UNCHANGED <<watcher, ver>>
      /\ UNCHANGED <<secrets, cached, hooks, events, attempts, madeVars>>

-----------------------------------------------------------------------------
(* GitHub *)

\* Something happens, and GitHub tells every hook that asked for this kind, in some
\* order (none is promised, and whoever serves the deliveries may take them in any).
Happen(w, e) ==
  LET told  == {h \in DOMAIN hooks : hooks[h].of = w /\ e.kind \in hooks[h].kinds}
      order == CHOOSE f \in Bijection(1 .. Cardinality(told), told) : TRUE
      id    == Len(events) + 1
  IN  /\ told # {}
      /\ Len(events) < MaxEvents /\ Len(attempts) + Cardinality(told) <= MaxAttempts
      /\ events' = Append(events, [what |-> e, of |-> w, uid |-> watcher[w].uid,
                                    hook |-> Recorded(watcher[w])])
      /\ attempts' = attempts \o [i \in DOMAIN order |-> Sent(order[i], id)]
      /\ UNCHANGED <<watcherVars, hookVars, madeVars, used>>

\* A delivery is sent again: somebody asks for it, whatever became of it.
Redeliver(a) ==
  /\ Len(attempts) < MaxAttempts
  /\ attempts' = Append(attempts, Sent(attempts[a].hook, attempts[a].event))
  /\ UNCHANGED <<watcherVars, hookVars, events, madeVars, used>>

-----------------------------------------------------------------------------
(* HandleHook *)

Goto(a, pc) == attempts' = [attempts EXCEPT ![a].pc = pc]

\* ServeHTTP writes the answer: an error at once, ...
Answer(a, pc) == attempts' = [attempts EXCEPT ![a] = EndOf(@, pc)]

\* Faulty variant (see "Mutants" in the README): any signature will do.
AnySignature(o, h) == TRUE

\* ValidatePayload checks the signature only if there is a token to check with.
ValidSignature(o, h) == o.token = 0 \/ hooks[h].secret = o.token

\* HandleHook up to ParseWebHook: the live object is read and checked, and this
\* copy of it is used from here on.
Receive(a, p) ==
  LET d == attempts[a]
      o == watcher[hooks[d.hook].of]
  IN  /\ d.pc = "sent"
      /\ \/ ~Present(o) /\ Answer(a, "error") /\ UNCHANGED used
         \/ Use("faults") /\ Answer(a, "error")
         \/ Present(o) /\ ~o.spec.enabled /\ Answer(a, "unprocessable") /\ UNCHANGED used
         \/ /\ Present(o) /\ o.spec.enabled /\ ~ValidSignature(o, d.hook)
            /\ Answer(a, "error") /\ UNCHANGED used
         \/ /\ Present(o) /\ o.spec.enabled /\ ValidSignature(o, d.hook)
            /\ attempts' = [attempts EXCEPT ![a].pc = "event", ![a].at = p, ![a].copy = o]
            /\ UNCHANGED used
      /\ UNCHANGED <<watcherVars, hookVars, events, madeVars>>

\* handleEvent: which events of the ones it knows it takes.  Push has no switch
\* of its own here, and anything else (a ping) passes.
Takes(s, e) ==
  \/ e.kind = "create" /\ s.tag /\ e.tag \in s.tags
  \/ e.kind = "push" /\ e.ref \in Branches
  \/ e.kind = "pull_request" /\ s.pr /\ e.action \in Actions
  \/ e.kind = "ping"

\* createDeploymentForProduction, createDeploymentForPullRequest
Deploys(s, e) ==
  /\ s.deploy
  /\ \/ e.kind = "push" /\ e.head /\ e.ref = s.branch
     \/ e.kind = "pull_request" /\ e.action \in {"opened", "synchronize"}

\* Faulty variants of the next two: the deployment is asked for once more when
\* the answer does not come,
HandleEventRetrying(a) ==
  LET d == attempts[a]
      w == hooks[d.hook].of
  IN  /\ d.pc = "event" /\ d.at \in cached /\ w \in secrets
      /\ Takes(d.copy.spec, events[d.event].what)
      /\ deployments' = Append(deployments, a)
      /\ \/ /\ attempts' = [attempts EXCEPT ![a].pc = "create", ![a].deployment = Len(deployments) + 1]
            /\ UNCHANGED used
         \/ Use("faults") /\ UNCHANGED attempts
      /\ UNCHANGED <<watcherVars, hookVars, events, commits>>

\* "OK" will be answered whatever Create says.
CreateCommitUnchecked(a) ==
  LET d == attempts[a]
  IN  /\ d.pc = "create" /\ Goto(a, "answer")
      /\ \/ /\ commits' = Append(commits, [attempt |-> a, owner |-> d.copy.uid,
                                           deployment |-> d.deployment])
            /\ UNCHANGED used
         \/ Use("faults") /\ UNCHANGED commits
      /\ UNCHANGED <<watcherVars, hookVars, events, deployments>>

\* getClient needs the secret in this replica's cache; then handleEvent up to
\* the deployment, which GitHub makes, refuses, or makes without our hearing it.
HandleEvent(a) ==
  LET d == attempts[a]
      e == events[d.event].what
      client == d.at \in cached /\ hooks[d.hook].of \in secrets
      Deployed == deployments' = Append(deployments, a)
  IN  /\ d.pc = "event"
      /\ \/ ~client /\ Answer(a, "error") /\ UNCHANGED <<deployments, used>>
         \/ client /\ ~Takes(d.copy.spec, e) /\ Answer(a, "unprocessable")
            /\ UNCHANGED <<deployments, used>>
         \/ client /\ Takes(d.copy.spec, e) /\ ~Deploys(d.copy.spec, e) /\ Goto(a, "create")
            /\ UNCHANGED <<deployments, used>>
         \/ /\ client /\ Takes(d.copy.spec, e) /\ Deploys(d.copy.spec, e)
            /\ \/ /\ Deployed /\ UNCHANGED used
                  /\ attempts' = [attempts EXCEPT ![a].pc = "create",
                                                  ![a].deployment = Len(deployments) + 1]
               \/ (Deployed \/ UNCHANGED deployments) /\ Answer(a, "error") /\ Use("faults")
      /\ UNCHANGED <<watcherVars, hookVars, events, commits>>

\* Create, with a generated name: stored, refused, or stored without our hearing it
CreateCommit(a) ==
  LET d == attempts[a]
      Created == commits' = Append(commits, [attempt |-> a, owner |-> d.copy.uid,
                                             deployment |-> d.deployment])
  IN  /\ d.pc = "create"
      /\ \/ Created /\ Goto(a, "answer") /\ UNCHANGED used
         \/ (Created \/ UNCHANGED commits) /\ Answer(a, "error") /\ Use("faults")
      /\ UNCHANGED <<watcherVars, hookVars, events, deployments>>

\* ... and "OK" once the GitCommit is there, if the process still is.
AnswerOK(a) ==
  /\ attempts[a].pc = "answer" /\ Answer(a, "ok")
  /\ UNCHANGED <<watcherVars, hookVars, events, madeVars, used>>

\* Nothing is left to do, but hooks that the bounds leave no room for.  Any other
\* standstill is a deadlock.
Quiet == /\ \A r \in runs : r.pc = "create"
         /\ \A a \in DOMAIN attempts : attempts[a].pc \in Ended
         /\ UNCHANGED vars

Next ==
  \/ EditWatcher
  \/ \E p \in Procs : StartCaches(p) \/ Restart(p)
  \/ \E w \in Watchers : ChangeSecret(w) \/ BeginRun(w) \/ \E e \in Happenings : Happen(w, e)
  \/ \E r \in runs : CreateHook(r) \/ Record(r)
  \/ \E a \in DOMAIN attempts : \/ Redeliver(a) \/ HandleEvent(a) \/ CreateCommit(a) \/ AnswerOK(a)
                                \/ \E p \in Procs : Receive(a, p)
  \/ Quiet

Spec == Init /\ [][Next]_vars
-----------------------------------------------------------------------------
(* Properties *)

Made(a) == {c \in DOMAIN commits : commits[c].attempt = a}

\* GitHub is told "OK" only of a delivery that has a GitCommit, and told that a
\* delivery is not for this watcher only if it has none.  An error, or no answer at
\* all, says nothing: a Create whose answer was lost, or a replica that ended after
\* Create, leaves a GitCommit.  One delivery never makes two, whatever fails.
CommitPerDelivery ==
  \A a \in DOMAIN attempts :
    /\ Cardinality(Made(a)) <= 1
    /\ attempts[a].pc \in {"answer", "ok"} => Made(a) # {}
    /\ attempts[a].pc \in {"sent", "event", "create", "unprocessable"} => Made(a) = {}

\* A deployment is made before the GitCommit that names it.  Unless the delivery
\* is still in work, was answered with an error or was lost with its replica,
\* the deployment has its GitCommit; no delivery makes two deployments and no
\* GitCommit names the deployment of another delivery.
DeploymentsAccounted ==
  /\ \A d \in DOMAIN deployments :
       \/ attempts[deployments[d]].pc \in {"create", "error", "lost"}
       \/ \E c \in DOMAIN commits : commits[c].deployment = d
  /\ \A d1, d2 \in DOMAIN deployments : deployments[d1] = deployments[d2] => d1 = d2
  /\ \A c \in DOMAIN commits : commits[c].deployment # 0 =>
       deployments[commits[c].deployment] = commits[c].attempt

\* Registration may leave several hooks at GitHub, and each of them announces
\* what happens.  Once one is recorded, only that one counts: an event has at
\* most as many GitCommits of this watcher as it was delivered through it, so
\* without a redelivery one.
RecordedHookCounts ==
  \A i \in DOMAIN events : events[i].hook # 0 =>
    Cardinality({c \in DOMAIN commits : /\ attempts[commits[c].attempt].event = i
                                       /\ commits[c].owner = events[i].uid})
      <= Cardinality({a \in DOMAIN attempts : /\ attempts[a].event = i
                                              /\ attempts[a].hook = events[i].hook})

\* The hooks, and what watchers record of them, are those of Registration, which
\* WebhookController implements as well.
RegistrationOf(o) == IF Present(o) THEN [uid |-> o.uid, token |-> o.token, hook |-> o.hook]
                     ELSE [uid |-> 0, token |-> 0, hook |-> 0]
HookOf(h) == [of |-> h.of, uid |-> h.uid, secret |-> h.secret]
Reg == INSTANCE Registration WITH
         watcher <- [w \in Watchers |-> RegistrationOf(watcher[w])],
         hooks   <- [h \in DOMAIN hooks |-> HookOf(hooks[h])],
         Tokens  <- 1 .. MaxHooks
ImplementsRegistration == Reg!Spec

\* What that gives to HandleHook: of all hooks that were ever made, the recorded one
\* alone signs with the token that deliveries are checked with.
OnlyRecordedHookSigns == Reg!RecordedHookSigns

\* "Create a PR, an execution will be created by gitwatcher" (README.md:30): a
\* pull request that was announced through the recorded hook, and whose
\* deliveries have all been answered, has its GitCommit.
PullRequestGetsExecution ==
  \A i \in DOMAIN events :
    /\ events[i].what = [kind |-> "pull_request", action |-> "opened"]
    /\ events[i].hook # 0
    /\ \A a \in DOMAIN attempts : attempts[a].event = i => attempts[a].pc \in Ended
    => \E c \in DOMAIN commits : attempts[commits[c].attempt].event = i
=============================================================================
