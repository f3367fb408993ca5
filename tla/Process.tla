-------------------------------- MODULE Process --------------------------------
(***************************************************************************)
(* The life of one gitwatcher process: main, which asks for the caches of  *)
(* the hook server while another goroutine waits to lead; the leader,      *)
(* which asks for the caches of the controllers, starts both informer      *)
(* factories, waits for them, and then starts workers; signals, the loss   *)
(* of the lease, crashes, and the start of the next process.  The lock may *)
(* be another replica's.                                                   *)
(***************************************************************************)
EXTENDS Informers

CONSTANT MaxStops   \* bound: signals, lost leases and crashes

ASSUME StopsAssumption == MaxStops \in Nat

VARIABLES
  lock,   \* free, ours or theirs
  proc,   \* the process
  told,   \* the version of each object that its handlers have read last
  stops

apiVars == <<log, informers, due, breaks>>
vars == <<apiVars, lock, proc, told, stops>>

Factories == {"Webhook", "Core"}
TypesOf(f) == IF f = "Webhook" THEN Kinds ELSE {"Secret"}

\* The informers newHandler and Register ask for, in this order
HandleHooksAsks == <<"Secret", "GitWatcher">>
RegisterAsks == <<"Secret", "GitWatcher", "GitCommit">>
Asks == [main |-> HandleHooksAsks, leader |-> RegisterAsks]

\* done: the context is cancelled; leader: how far OnStartedLeading is; asked: how
\* many informers were asked for; syncing: how far Factory.Sync is; running: the
\* controllers that have workers.
Processes ==
  [alive : BOOLEAN, done : BOOLEAN,
   elector : {"acquire", "renew", "stopped"},
   leader : {"none", "register", "sync", "webhook", "core", "work"},
   asked : [DOMAIN Asks -> 0 .. 3],
   syncing : [Factories -> {"start", "wait", "ok"}],
   controllers : SUBSET Kinds, running : SUBSET Kinds]

TypeInv ==
  /\ InformersTypeInv
  /\ lock \in {"free", "ours", "theirs"}
  /\ proc \in Processes /\ proc.running \subseteq proc.controllers
  /\ told \in [Kinds -> Caches]
  /\ stops \in Nat

Unsynced == [f \in Factories |-> "start"]
Untold == [t \in Kinds |-> Empty]

\* What run and BuildContext start with
NewProcess ==
  [alive |-> TRUE, done |-> FALSE, elector |-> "acquire", leader |-> "none",
   asked |-> [g \in DOMAIN Asks |-> 0], syncing |-> Unsynced,
   controllers |-> {}, running |-> {}]

\* Faulty variant: the controllers are removed, their workers stay.
EndWithWorkers ==
  /\ proc' = [proc EXCEPT !.alive = FALSE, !.controllers = {}]
  /\ informers' = NoInformers /\ due' = NothingDue /\ told' = Untold
  /\ UNCHANGED <<log, breaks>>

\* The process ends; what it had in memory is gone.
End ==
  /\ proc' = [NewProcess EXCEPT !.alive = FALSE]
  /\ informers' = NoInformers /\ due' = NothingDue /\ told' = Untold
  /\ UNCHANGED <<log, breaks>>

Init ==
  /\ log = <<>> /\ informers = NoInformers /\ due = NothingDue /\ breaks = 0
  /\ lock \in {"free", "theirs"}
  /\ proc = NewProcess /\ told = Untold /\ stops = 0
-----------------------------------------------------------------------------
(* Informers and controllers are made *)

\* Faulty variant: every call makes an informer.
InformerForAnew(t) == informers' = [informers EXCEPT ![t] = DefaultInformer(t)]

InformerFor(t) ==
  informers' = IF informers[t].phase = "none"
               THEN [informers EXCEPT ![t] = DefaultInformer(t)] ELSE informers

Ask(g) ==
  /\ proc.alive /\ proc.asked[g] < Len(Asks[g])
  /\ InformerFor(Asks[g][proc.asked[g] + 1])
  /\ proc' = [proc EXCEPT !.asked[g] = @ + 1]
  /\ UNCHANGED <<log, due, breaks, lock, told, stops>>

HandleHooks == Ask("main")
Register == proc.leader = "register" /\ Ask("leader")

\* OnChange adds the handlers, which makes the controllers; the ticker starts.
OnChange ==
  /\ proc.alive /\ proc.leader = "register" /\ proc.asked.leader = Len(RegisterAsks)
  /\ proc' = [proc EXCEPT !.controllers = Kinds, !.leader = "sync"]
  /\ UNCHANGED <<apiVars, lock, told, stops>>

\* start.All syncs both factories side by side; then the Start of each syncs again.
Syncs(f) == \/ proc.leader = "sync"
            \/ proc.leader = "webhook" /\ f = "Webhook"
            \/ proc.leader = "core" /\ f = "Core"

\* The factory runs the informers it has.
FactoryStart(f) ==
  /\ proc.alive /\ Syncs(f) /\ proc.syncing[f] = "start"
  /\ informers' = [t \in Types |-> IF t \in TypesOf(f) /\ informers[t].phase = "new"
                                   THEN [informers[t] EXCEPT !.phase = "list"] ELSE informers[t]]
  /\ proc' = [proc EXCEPT !.syncing[f] = "wait"]
  /\ UNCHANGED <<log, due, breaks, lock, told, stops>>

\* Faulty variant: the secrets are not waited for.
FilledWebhook(f) == f = "Webhook" => \A t \in Kinds : informers[t].filled

\* Those that were not started are not waited for.
Filled(f) == \A t \in TypesOf(f) : informers[t].phase \in {"list", "watch"} => informers[t].filled

\* Sync does not look at the result: a cancelled context ends the wait as well.
WaitForCacheSync(f) ==
  /\ proc.alive /\ Syncs(f) /\ proc.syncing[f] = "wait"
  /\ proc.done \/ Filled(f)
  /\ proc' = [proc EXCEPT !.syncing[f] = "ok"]
  /\ UNCHANGED <<apiVars, lock, told, stops>>

\* Controller.Run waits for its informer.  If the context is cancelled it gives up,
\* runtime.Must panics and the process ends; or it just does not, and its workers
\* end before they begin.
StartController(t) ==
  /\ proc.alive /\ proc.leader = "webhook" /\ proc.syncing["Webhook"] = "ok"
  /\ t \in proc.controllers \ proc.running
  /\ \/ /\ ~proc.done /\ informers[t].filled
        /\ proc' = [proc EXCEPT !.running = @ \cup {t}]
        /\ UNCHANGED <<apiVars, told>>
     \/ proc.done /\ End
  /\ UNCHANGED <<lock, stops>>

Started == proc.running = proc.controllers \/ (proc.done /\ \A t \in Kinds : informers[t].filled)

\* Faulty variant: Start is called for one factory only.
NextPhaseOfCore(p) == CASE p = "sync" -> "core" [] p = "core" -> "work" [] OTHER -> p

\* The phases of start.All; Core has no controllers to start.
NextPhase(p) == CASE p = "sync" -> "webhook" [] p = "webhook" -> "core" [] p = "core" -> "work"

StartAll ==
  /\ proc.alive /\ proc.leader \in {"sync", "webhook", "core"}
  /\ \A f \in Factories : Syncs(f) => proc.syncing[f] = "ok"
  /\ proc.leader = "webhook" => Started
  /\ proc' = [proc EXCEPT !.leader = NextPhase(@), !.syncing = Unsynced]
  /\ UNCHANGED <<apiVars, lock, told, stops>>
-----------------------------------------------------------------------------
(* The work *)

\* The handlers of a key run on what the cache has (the runs of WebhookController).
Handle(t) ==
  /\ proc.alive /\ t \in proc.running
  /\ \E k \in due[t] : /\ due' = [due EXCEPT ![t] = @ \ {k}]
                       /\ told' = [told EXCEPT ![t][k] = CacheGet(t, k)]
  /\ UNCHANGED <<log, informers, breaks, lock, proc, stops>>

Enqueue(t, ks) == due' = [due EXCEPT ![t] = @ \cup ks]

\* The ticker enqueues the watchers that have no hook.  Enqueue needs the lock of
\* the controller manager, which has it itself while it starts the controllers.
Tick ==
  /\ proc.alive /\ ~proc.done
  /\ \/ proc.leader \in {"sync", "core", "work"}
     \/ proc.leader = "webhook" /\ proc.syncing["Webhook"] # "ok"
  /\ \E ks \in SUBSET CacheList("GitWatcher") : Enqueue("GitWatcher", ks)
  /\ UNCHANGED <<log, informers, breaks, lock, proc, told, stops>>

\* The context stops the informers.
Informer(steps) == proc.alive /\ ~proc.done /\ steps /\ UNCHANGED <<lock, proc, told, stops>>

Write == /\ GitWatchersCall \/ GitCommitsCall
         /\ UNCHANGED <<lock, proc, told, stops>>
-----------------------------------------------------------------------------
(* The process *)

Acquire ==
  /\ proc.alive /\ ~proc.done /\ proc.elector = "acquire" /\ lock # "theirs"
  /\ lock' = "ours"
  /\ proc' = [proc EXCEPT !.elector = "renew", !.leader = "register"]
  /\ UNCHANGED <<apiVars, told, stops>>

\* renew returns because of a signal, or because the lease was not renewed in time.
\* Then the lock is released, if that succeeds, or another replica has it; a renewal
\* still under way may take it again.
StopRenewing ==
  /\ proc.alive /\ proc.elector = "renew"
  /\ IF proc.done THEN UNCHANGED stops ELSE stops < MaxStops /\ stops' = stops + 1
  /\ proc' = [proc EXCEPT !.elector = "stopped"]
  /\ lock' \in {"free", "ours", "theirs"}
  /\ UNCHANGED <<apiVars, told>>

\* OnStoppedLeading is Fatalf, and is called by a replica that never led as well.
StoppedLeading ==
  /\ proc.alive
  /\ proc.elector = "stopped" \/ (proc.elector = "acquire" /\ proc.done)
  /\ End
  /\ UNCHANGED <<lock, stops>>

\* SIGTERM; or a second one, an address that is in use, a crash
Signal ==
  /\ proc.alive /\ stops < MaxStops /\ stops' = stops + 1
  /\ \/ ~proc.done /\ proc' = [proc EXCEPT !.done = TRUE] /\ UNCHANGED <<apiVars, told>>
     \/ End
  /\ UNCHANGED lock

Restart ==
  /\ ~proc.alive
  /\ proc' = NewProcess
  /\ UNCHANGED <<apiVars, lock, told, stops>>

\* Another replica takes a lock that is free or ran out, or gives its own back.
Others ==
  /\ \/ lock = "theirs" /\ lock' = "free"
     \/ (lock = "free" \/ (lock = "ours" /\ ~proc.alive)) /\ lock' = "theirs"
  /\ UNCHANGED <<apiVars, proc, told, stops>>

Next ==
  \/ HandleHooks \/ Register \/ OnChange \/ StartAll
  \/ \E f \in Factories : FactoryStart(f) \/ WaitForCacheSync(f)
  \/ \E t \in Kinds : StartController(t) \/ Handle(t)
  \/ \E t \in Types : Informer(ListFunc(t) \/ WatchFunc(t) \/ WatchEnds(t))
  \/ Tick \/ Write
  \/ Acquire \/ StopRenewing \/ StoppedLeading \/ Signal \/ Restart \/ Others

\* Goroutines go on, requests are answered, the process is started again.  The lock
\* may remain with others, and watches, signals and writers owe nothing.
Fairness ==
  /\ WF_vars(HandleHooks) /\ WF_vars(Register) /\ WF_vars(OnChange) /\ WF_vars(StartAll)
  /\ \A f \in Factories : WF_vars(FactoryStart(f)) /\ WF_vars(WaitForCacheSync(f))
  /\ \A t \in Kinds : WF_vars(StartController(t)) /\ WF_vars(Handle(t))
  /\ \A t \in Types : WF_vars(Informer(ListFunc(t) \/ WatchFunc(t)))
  /\ WF_vars(proc.done /\ StopRenewing) /\ WF_vars(StoppedLeading) /\ WF_vars(Restart)

Spec == Init /\ [][Next]_vars /\ Fairness
-----------------------------------------------------------------------------
(* Properties *)

\* No worker runs before every cache was filled once: a controller that does not
\* see a secret yet would take a GitHub watcher for one to be polled.
WorkersSeeFilledCaches == proc.running # {} => \A t \in Types : informers[t].filled

\* Whatever main and the leader do first, the factories leave no informer behind
\* that was asked for and never runs.
EveryInformerRuns == proc.leader = "work" => \A t \in Types : informers[t].phase # "new"

\* A process that gets the lock comes to work, or it ends and others may have it:
\* the main goroutine, the starting controllers and the informers do not wait for
\* each other.
LeaderWorks ==
  (proc.alive /\ proc.elector = "renew")
    ~> (~proc.alive \/ (proc.leader = "work" /\ proc.running = Kinds))

\* In a process that leads, the handlers have read the last version of every object
\* in the end, or that it is gone - whatever watches were missed and lists were old.
CaughtUp == \A t \in Kinds, k \in Keys : told[t][k] = Get(t, k)
=============================================================================
