--------------------------- MODULE HookHandlerProofs ---------------------------
(***************************************************************************)
(* Proofs about HookHandler for any replicas, watchers, specs, happenings  *)
(* and bounds.                                                             *)
(***************************************************************************)
EXTENDS HookHandler, FiniteSetTheorems, TLAPS

-----------------------------------------------------------------------------
(* The invariants *)

\* What an attempt, a deployment or a GitCommit refers to is there, an attempt
\* is about the watcher of its hook, and a handler that went on has a copy.
References ==
  /\ \A a \in DOMAIN attempts :
       /\ attempts[a].hook \in DOMAIN hooks /\ attempts[a].event \in DOMAIN events
       /\ hooks[attempts[a].hook].of = events[attempts[a].event].of
       /\ attempts[a].pc \in {"event", "create"} => Present(attempts[a].copy)
  /\ \A d \in DOMAIN deployments : deployments[d] \in DOMAIN attempts
  /\ \A c \in DOMAIN commits : commits[c].attempt \in DOMAIN attempts

\* An attempt has at most one GitCommit, made by its last step but the answer: "OK",
\* an error when the answer of the API server was lost, none if the replica ended.
CommitsEndAttempts ==
  /\ \A c1, c2 \in DOMAIN commits : commits[c1].attempt = commits[c2].attempt => c1 = c2
  /\ \A c \in DOMAIN commits : attempts[commits[c].attempt].pc \in {"answer"} \cup (Ended \ {"unprocessable"})
  /\ \A a \in DOMAIN attempts : attempts[a].pc \in {"answer", "ok"} =>
       \E c \in DOMAIN commits : commits[c].attempt = a

\* An attempt and its GitCommit name the deployment that was made for the attempt,
\* and one that is to make the GitCommit knows it.
DeploymentsKnown ==
  /\ \A d1, d2 \in DOMAIN deployments : deployments[d1] = deployments[d2] => d1 = d2
  /\ \A d \in DOMAIN deployments :
       attempts[deployments[d]].pc \in {"create", "answer", "ok", "error", "lost"}
  /\ \A d \in DOMAIN deployments :
       attempts[deployments[d]].pc = "create" => attempts[deployments[d]].deployment = d
  /\ \A d \in DOMAIN deployments : attempts[deployments[d]].pc \in {"answer", "ok"} =>
       \E c \in DOMAIN commits : commits[c].deployment = d
  /\ \A a \in DOMAIN attempts : attempts[a].deployment # 0 =>
       /\ attempts[a].deployment \in DOMAIN deployments
       /\ deployments[attempts[a].deployment] = a
  /\ \A c \in DOMAIN commits : commits[c].deployment # 0 =>
       /\ commits[c].deployment \in DOMAIN deployments
       /\ deployments[commits[c].deployment] = commits[c].attempt

\* No two hooks and no two runs have a token in common, and no hook has that of a run
\* that is still to ask for one.
TokensDiffer ==
  /\ \A h \in DOMAIN hooks : hooks[h].secret \in 1 .. used["hooks"]
  /\ \A h1, h2 \in DOMAIN hooks : hooks[h1].secret = hooks[h2].secret => h1 = h2
  /\ \A r \in runs :
       /\ r.token \in 1 .. used["hooks"]
       /\ \A s \in runs : s.token = r.token => s = r
       /\ r.pc = "create" => \A h \in DOMAIN hooks : hooks[h].secret # r.token

\* A hook that is recorded with a watcher was made for it and signs with this token.
Signs(w, uid, hook, token) ==
  hook # 0 => /\ hook \in DOMAIN hooks
              /\ hooks[hook].of = w /\ hooks[hook].uid = uid /\ hooks[hook].secret = token

RunOK(r) ==
  /\ r.uid <= ver[r.of] /\ r.rv <= ver[r.of]
  /\ Signs(r.of, r.uid, r.hook, r.token)
  /\ Present(watcher[r.of]) /\ watcher[r.of].rv = r.rv =>
       watcher[r.of].uid = r.uid /\ watcher[r.of].hook = 0

\* A run that is of use to its watcher began when that had no hook.
InOrder ==
  /\ \A w \in Watchers : Present(watcher[w]) =>
       /\ watcher[w].uid <= ver[w] /\ watcher[w].rv \in 1 .. ver[w]
       /\ Signs(w, watcher[w].uid, watcher[w].hook, watcher[w].token)
  /\ \A r \in runs : RunOK(r)

\* As long as the object lives, the hook that was recorded when an event happened is
\* the one that is recorded.
HooksLast ==
  \A i \in DOMAIN events : events[i].hook # 0 =>
    LET o == watcher[events[i].of] IN
    /\ events[i].hook \in DOMAIN hooks
    /\ events[i].uid \in 1 .. ver[events[i].of]
    /\ Present(o) /\ o.uid = events[i].uid => o.hook = events[i].hook

\* An attempt that goes on for the object that an event was recorded with came
\* through the hook recorded then.
Through(a, uid) ==
  LET e == events[attempts[a].event]
  IN  e.hook # 0 /\ uid = e.uid => attempts[a].hook = e.hook

Sources ==
  /\ \A a \in DOMAIN attempts :
       attempts[a].pc \in {"event", "create"} => Through(a, attempts[a].copy.uid)
  /\ \A c \in DOMAIN commits : Through(commits[c].attempt, commits[c].owner)

IInv == /\ TypeInv /\ References /\ CommitsEndAttempts /\ DeploymentsKnown
        /\ TokensDiffer /\ InOrder /\ HooksLast /\ Sources

-----------------------------------------------------------------------------
(* Sequences and objects *)

LEMMA AppendFacts ==
  ASSUME NEW S, NEW s \in Seq(S), NEW e \in S, NEW t, t = Append(s, e)
  PROVE  /\ t \in Seq(S) /\ DOMAIN t = DOMAIN s \cup {Len(s) + 1}
         /\ Len(s) + 1 \notin DOMAIN s /\ Len(s) + 1 \in Nat \ {0}
         /\ t[Len(s) + 1] = e /\ \A i \in DOMAIN s : t[i] = s[i]
         /\ DOMAIN s \subseteq Nat \ {0}
OBVIOUS

LEMMA ExceptFacts ==
  ASSUME NEW S, NEW s \in Seq(S), NEW i \in DOMAIN s, NEW e \in S,
         NEW t, t = [s EXCEPT ![i] = e]
  PROVE  /\ t \in Seq(S) /\ DOMAIN t = DOMAIN s
         /\ t[i] = e /\ \A j \in DOMAIN s : j # i => t[j] = s[j]
OBVIOUS

Living == [uid : Nat \ {0}, rv : Nat, spec : Specs, token : Nat, hook : Nat]

LEMMA ObjectFacts ==
  /\ Absent \in Objects /\ ~Present(Absent)
  /\ Living \subseteq Objects
  /\ \A o \in Objects : o.uid \in Nat /\ (Present(o) => o \in Living)
  /\ \A o \in Living : Present(o) /\ o.uid \in Nat \ {0} /\ o.rv \in Nat /\ o.token \in Nat /\ o.hook \in Nat
BY DEF Objects, Absent, Present, Living

LEMMA RecordedFacts ==
  ASSUME NEW o \in Objects
  PROVE  o.uid \in Nat /\ Recorded(o) \in Nat
BY ObjectFacts DEF Recorded

LEMMA SpendFacts ==
  ASSUME TypeInv, NEW S, Spend(S)
  PROVE  /\ used' \in [BoundNames -> Nat]
         /\ used'["hooks"] = IF "hooks" \in S THEN used["hooks"] + 1 ELSE used["hooks"]
         /\ used["hooks"] \in Nat
<1>1. used \in [BoundNames -> Nat] /\ "hooks" \in BoundNames
  BY DEF TypeInv, BoundNames
<1>2. used' = [b \in BoundNames |-> IF b \in S THEN used[b] + 1 ELSE used[b]]
  BY DEF Spend
<1> QED
  BY <1>1, <1>2

\* What UNCHANGED used leaves, or a fault or an edit that is spent
Saved == /\ used' \in [BoundNames -> Nat]
         /\ used'["hooks"] = used["hooks"] /\ used["hooks"] \in Nat

LEMMA SavedFacts ==
  ASSUME TypeInv, UNCHANGED used \/ Use("faults") \/ Use("edits") \/ Use("secrets")
  PROVE  Saved
<1>1. CASE UNCHANGED used
  BY <1>1 DEF Saved, TypeInv, BoundNames
<1>2. CASE Use("faults")
  BY <1>2, SpendFacts DEF Saved, Use
<1>3. CASE Use("edits") \/ Use("secrets")
  BY <1>3, SpendFacts DEF Saved, Use
<1> QED
  BY <1>1, <1>2, <1>3

LEMMA EndOfFacts ==
  ASSUME NEW d \in Attempts, NEW pc \in Ended
  PROVE  /\ EndOf(d, pc) \in Attempts
         /\ EndOf(d, pc).pc = pc /\ EndOf(d, pc).hook = d.hook
         /\ EndOf(d, pc).event = d.event /\ EndOf(d, pc).deployment = d.deployment
BY ObjectFacts DEF EndOf, Attempts, Ended

LEMMA SentFacts ==
  ASSUME NEW h \in Nat \ {0}, NEW e \in Nat \ {0}
  PROVE  /\ Sent(h, e) \in Attempts
         /\ Sent(h, e).pc = "sent" /\ Sent(h, e).hook = h
         /\ Sent(h, e).event = e /\ Sent(h, e).deployment = 0
BY ObjectFacts DEF Sent, Attempts, Working

-----------------------------------------------------------------------------
(* What the steps of a delivery do *)

Moves(a, d) ==
  /\ d \in Attempts /\ d.hook = attempts[a].hook /\ d.event = attempts[a].event
  /\ attempts' \in Seq(Attempts) /\ DOMAIN attempts' = DOMAIN attempts
  /\ attempts'[a] = d
  /\ \A b \in DOMAIN attempts : b # a => attempts'[b] = attempts[b]

LEMMA MovesFacts ==
  ASSUME TypeInv, NEW a \in DOMAIN attempts, NEW d \in Attempts,
         d.hook = attempts[a].hook, d.event = attempts[a].event,
         attempts' = [attempts EXCEPT ![a] = d]
  PROVE  Moves(a, d)
<1>1. attempts \in Seq(Attempts)
  BY DEF TypeInv
<1> QED
  BY <1>1, ExceptFacts DEF Moves

LEMMA AttemptFacts ==
  ASSUME TypeInv, NEW a \in DOMAIN attempts
  PROVE  /\ attempts[a] \in Attempts /\ a \in Nat \ {0}
         /\ attempts[a].hook \in Nat \ {0} /\ attempts[a].event \in Nat \ {0}
         /\ attempts[a].copy \in Objects /\ attempts[a].deployment \in Nat
<1>1. attempts[a] \in Attempts /\ a \in Nat \ {0}
  BY DEF TypeInv
<1> QED
  BY <1>1 DEF Attempts

Hooks == [of : Watchers, uid : Nat, secret : Nat, kinds : SUBSET Subscribable]
Announced == [what : Events, of : Watchers, uid : Nat, hook : Nat]

LEMMA HookFacts ==
  ASSUME TypeInv, NEW h \in DOMAIN hooks
  PROVE  hooks[h] \in Hooks /\ hooks[h].of \in Watchers /\ h \in Nat \ {0}
<1>1. hooks[h] \in Hooks /\ h \in Nat \ {0}
  <2>1. hooks \in Seq(Hooks)
    BY DEF TypeInv, Hooks
  <2> QED
    BY <2>1
<1> QED
  BY <1>1 DEF Hooks

LEMMA EventFacts ==
  ASSUME TypeInv, NEW i \in DOMAIN events
  PROVE  /\ events[i] \in Announced /\ events[i].of \in Watchers
         /\ events[i].uid \in Nat /\ events[i].hook \in Nat /\ i \in Nat \ {0}
<1>1. events[i] \in Announced /\ i \in Nat \ {0}
  <2>1. events \in Seq(Announced)
    BY DEF TypeInv, Announced
  <2> QED
    BY <2>1
<1> QED
  BY <1>1 DEF Announced

LEMMA AnswerFacts ==
  ASSUME TypeInv, NEW a \in DOMAIN attempts, NEW pc \in Ended, Answer(a, pc)
  PROVE  \E d : Moves(a, d) /\ d.pc = pc /\ d.deployment = attempts[a].deployment
<1>1. PICK d : d = EndOf(attempts[a], pc)
  OBVIOUS
<1>2. /\ d \in Attempts /\ d.pc = pc /\ d.hook = attempts[a].hook
      /\ d.event = attempts[a].event /\ d.deployment = attempts[a].deployment
  BY <1>1, AttemptFacts, EndOfFacts
<1>3. attempts' = [attempts EXCEPT ![a] = d]
  BY <1>1 DEF Answer
<1> QED
  BY <1>2, <1>3, MovesFacts

\* The copy a delivery goes on with is the stored object, which the hook signs for.
LEMMA ReceiveFacts ==
  ASSUME TypeInv, References, NEW a \in DOMAIN attempts, NEW p \in Procs, Receive(a, p),
         NEW o, o = watcher[hooks[attempts[a].hook].of]
  PROVE  /\ attempts[a].pc = "sent" /\ Saved
         /\ UNCHANGED <<watcher, ver, secrets, cached, hooks, runs, events, deployments, commits>>
         /\ \E d : /\ Moves(a, d) /\ d.deployment = attempts[a].deployment
                   /\ \/ d.pc \in {"error", "unprocessable"}
                      \/ /\ d.pc = "event" /\ d.copy = o /\ Present(o)
                         /\ ValidSignature(o, attempts[a].hook)
<1>1. /\ attempts[a].pc = "sent"
      /\ UNCHANGED <<watcher, ver, secrets, cached, hooks, runs, events, deployments, commits>>
      /\ UNCHANGED used \/ Use("faults")
  BY DEF Receive, watcherVars, hookVars, madeVars
<1>2. o \in Objects
  <2>1. hooks[attempts[a].hook].of \in Watchers
    BY HookFacts DEF References
  <2> QED
    BY <2>1 DEF TypeInv
<1>3. CASE Answer(a, "error") \/ Answer(a, "unprocessable")
  BY <1>1, <1>3, AnswerFacts, SavedFacts DEF Ended
<1>4. CASE /\ Present(o) /\ ValidSignature(o, attempts[a].hook)
           /\ attempts' = [attempts EXCEPT ![a].pc = "event", ![a].at = p, ![a].copy = o]
  <2>1. PICK d : d = [attempts[a] EXCEPT !.pc = "event", !.at = p, !.copy = o]
    OBVIOUS
  <2>2. /\ d \in Attempts /\ d.hook = attempts[a].hook /\ d.event = attempts[a].event
        /\ d.pc = "event" /\ d.copy = o /\ d.deployment = attempts[a].deployment
    BY <2>1, <1>2, AttemptFacts DEF Attempts, Working
  <2>3. attempts' = [attempts EXCEPT ![a] = d]
    BY <1>4, <2>1
  <2> QED
    BY <1>1, <1>4, <2>2, <2>3, MovesFacts, SavedFacts
<1> QED
  BY <1>3, <1>4 DEF Receive

\* A handler goes on with the deployment it was told of, or without one.
LEMMA HandleEventFacts ==
  ASSUME TypeInv, NEW a \in DOMAIN attempts, HandleEvent(a)
  PROVE  /\ attempts[a].pc = "event" /\ Saved
         /\ UNCHANGED <<watcher, ver, secrets, cached, hooks, runs, events, commits>>
         /\ \E d : /\ Moves(a, d)
                   /\ d.pc \in {"error", "unprocessable", "create"}
                   /\ d.pc = "create" => d.copy = attempts[a].copy
                   /\ \/ UNCHANGED deployments /\ d.deployment = attempts[a].deployment
                      \/ /\ deployments' = Append(deployments, a)
                         /\ \/ d.pc = "create" /\ d.deployment = Len(deployments) + 1
                            \/ d.pc = "error" /\ d.deployment = attempts[a].deployment
<1>1. /\ attempts[a].pc = "event"
      /\ UNCHANGED <<watcher, ver, secrets, cached, hooks, runs, events, commits>>
      /\ UNCHANGED used \/ Use("faults")
  BY DEF HandleEvent, watcherVars, hookVars
<1>2. Saved
  BY <1>1, SavedFacts
<1>3. CASE Answer(a, "error") /\ (UNCHANGED deployments \/ deployments' = Append(deployments, a))
  BY <1>1, <1>2, <1>3, AnswerFacts DEF Ended
<1>4. CASE Answer(a, "unprocessable") /\ UNCHANGED deployments
  BY <1>1, <1>2, <1>4, AnswerFacts DEF Ended
<1>5. CASE Goto(a, "create") /\ UNCHANGED deployments
  <2>1. PICK d : d = [attempts[a] EXCEPT !.pc = "create"]
    OBVIOUS
  <2>2. /\ d \in Attempts /\ d.hook = attempts[a].hook /\ d.event = attempts[a].event
        /\ d.pc = "create" /\ d.copy = attempts[a].copy /\ d.deployment = attempts[a].deployment
    BY <2>1, AttemptFacts DEF Attempts, Working
  <2>3. attempts' = [attempts EXCEPT ![a] = d]
    BY <1>5, <2>1 DEF Goto
  <2> QED
    BY <1>1, <1>2, <1>5, <2>2, <2>3, MovesFacts
<1>6. CASE /\ deployments' = Append(deployments, a)
           /\ attempts' = [attempts EXCEPT ![a].pc = "create", ![a].deployment = Len(deployments) + 1]
  <2>1. PICK d : d = [attempts[a] EXCEPT !.pc = "create", !.deployment = Len(deployments) + 1]
    OBVIOUS
  <2>2. Len(deployments) + 1 \in Nat
    BY DEF TypeInv
  <2>3. /\ d \in Attempts /\ d.hook = attempts[a].hook /\ d.event = attempts[a].event
        /\ d.pc = "create" /\ d.copy = attempts[a].copy /\ d.deployment = Len(deployments) + 1
    BY <2>1, <2>2, AttemptFacts DEF Attempts, Working
  <2>4. attempts' = [attempts EXCEPT ![a] = d]
    BY <1>6, <2>1
  <2> QED
    BY <1>1, <1>2, <1>6, <2>3, <2>4, MovesFacts
<1> QED
  BY <1>3, <1>4, <1>5, <1>6 DEF HandleEvent

LEMMA CreateCommitFacts ==
  ASSUME TypeInv, References, NEW a \in DOMAIN attempts, CreateCommit(a),
         NEW c, c = [attempt |-> a, owner |-> attempts[a].copy.uid,
                     deployment |-> attempts[a].deployment]
  PROVE  /\ attempts[a].pc = "create" /\ Saved
         /\ UNCHANGED <<watcher, ver, secrets, cached, hooks, runs, events, deployments>>
         /\ c \in [attempt : Nat \ {0}, owner : Nat \ {0}, deployment : Nat]
         /\ \E d : /\ Moves(a, d) /\ d.deployment = attempts[a].deployment
                   /\ \/ d.pc \in {"answer", "error"} /\ commits' = Append(commits, c)
                      \/ d.pc = "error" /\ UNCHANGED commits
<1>1. /\ attempts[a].pc = "create"
      /\ UNCHANGED <<watcher, ver, secrets, cached, hooks, runs, events, deployments>>
      /\ UNCHANGED used \/ Use("faults")
  BY DEF CreateCommit, watcherVars, hookVars
<1>2. Saved
  BY <1>1, SavedFacts
<1>3. c \in [attempt : Nat \ {0}, owner : Nat \ {0}, deployment : Nat]
  <2>1. Present(attempts[a].copy)
    BY <1>1 DEF References
  <2>2. attempts[a].copy.uid \in Nat \ {0}
    BY <2>1, AttemptFacts, ObjectFacts
  <2> QED
    BY <2>2, AttemptFacts
<1>4. CASE commits' = Append(commits, c) /\ Goto(a, "answer")
  <2>1. PICK d : d = [attempts[a] EXCEPT !.pc = "answer"]
    OBVIOUS
  <2>2. /\ d \in Attempts /\ d.hook = attempts[a].hook /\ d.event = attempts[a].event
        /\ d.pc = "answer" /\ d.deployment = attempts[a].deployment
    BY <2>1, AttemptFacts DEF Attempts, Working
  <2>3. attempts' = [attempts EXCEPT ![a] = d]
    BY <1>4, <2>1 DEF Goto
  <2> QED
    BY <1>1, <1>2, <1>3, <1>4, <2>2, <2>3, MovesFacts
<1>5. CASE (commits' = Append(commits, c) \/ UNCHANGED commits) /\ Answer(a, "error")
  BY <1>1, <1>2, <1>3, <1>5, AnswerFacts DEF Ended
<1> QED
  BY <1>4, <1>5 DEF CreateCommit

\* A crash loses attempts that are being handled; it makes and takes away nothing.
LEMMA RestartFacts ==
  ASSUME TypeInv, NEW p \in Procs, Restart(p)
  PROVE  /\ Saved /\ cached' \subseteq Procs
         /\ UNCHANGED <<watcher, ver, secrets, hooks, runs, events, deployments, commits>>
         /\ attempts' \in Seq(Attempts) /\ DOMAIN attempts' = DOMAIN attempts
         /\ \A a \in DOMAIN attempts :
              \/ attempts'[a] = attempts[a]
              \/ /\ attempts[a].pc \in Working /\ attempts'[a].pc = "lost"
                 /\ attempts'[a].hook = attempts[a].hook
                 /\ attempts'[a].event = attempts[a].event
                 /\ attempts'[a].deployment = attempts[a].deployment
<1>1. /\ Use("faults") /\ cached' = cached \ {p}
      /\ attempts' = [a \in DOMAIN attempts |->
           IF attempts[a].at = p /\ attempts[a].pc \notin Ended
           THEN EndOf(attempts[a], "lost") ELSE attempts[a]]
      /\ UNCHANGED <<watcher, ver, secrets, hooks, runs, events, deployments, commits>>
  BY DEF Restart, hookVars, madeVars
<1>2. ASSUME NEW a \in DOMAIN attempts
      PROVE  /\ attempts'[a] \in Attempts
             /\ \/ attempts'[a] = attempts[a]
                \/ /\ attempts[a].pc \in Working /\ attempts'[a].pc = "lost"
                   /\ attempts'[a].hook = attempts[a].hook
                   /\ attempts'[a].event = attempts[a].event
                   /\ attempts'[a].deployment = attempts[a].deployment
  <2>1. attempts[a] \in Attempts
    BY AttemptFacts
  <2>2. CASE attempts'[a] = attempts[a]
    BY <2>1, <2>2
  <2>3. CASE attempts'[a] # attempts[a]
    <3>1. attempts'[a] = EndOf(attempts[a], "lost") /\ attempts[a].pc \notin Ended
      BY <1>1, <2>3
    <3>2. attempts[a].pc \in Working
      BY <2>1, <3>1 DEF Attempts
    <3> QED
      BY <2>1, <3>1, <3>2, EndOfFacts DEF Ended
  <2> QED
    BY <2>2, <2>3
<1>3. DOMAIN attempts' = DOMAIN attempts /\ attempts' \in Seq(Attempts)
  <2>1. Len(attempts) \in Nat /\ DOMAIN attempts = 1 .. Len(attempts)
    BY DEF TypeInv
  <2>2. attempts' \in [1 .. Len(attempts) -> Attempts]
    BY <1>1, <1>2, <2>1
  <2> QED
    BY <2>1, <2>2
<1>4. cached' \subseteq Procs
  BY <1>1 DEF TypeInv
<1> QED
  BY <1>1, <1>2, <1>3, <1>4, SavedFacts

-----------------------------------------------------------------------------
(* Steps that leave a part of the state alone *)

Grows(s, t) == DOMAIN s \subseteq DOMAIN t /\ \A i \in DOMAIN s : t[i] = s[i]

\* Deliveries that are sent, if any, disturb nothing that was said of the others.
LEMMA DeliveriesSent ==
  ASSUME IInv, UNCHANGED <<deployments, commits>>,
         Grows(hooks, hooks'), Grows(events, events'), Grows(attempts, attempts'),
         \A a \in DOMAIN attempts' \ DOMAIN attempts :
           /\ attempts'[a].pc = "sent" /\ attempts'[a].deployment = 0
           /\ attempts'[a].hook \in DOMAIN hooks' /\ attempts'[a].event \in DOMAIN events'
           /\ hooks'[attempts'[a].hook].of = events'[attempts'[a].event].of
  PROVE  References' /\ CommitsEndAttempts' /\ DeploymentsKnown' /\ Sources'
<1>1. References'
  BY DEF IInv, References, Grows
<1>2. CommitsEndAttempts'
  BY DEF IInv, References, CommitsEndAttempts, Grows
<1>3. DeploymentsKnown'
  BY DEF IInv, References, DeploymentsKnown, Grows
<1>4. ASSUME NEW a \in DOMAIN attempts, NEW uid, Through(a, uid)
      PROVE  Through(a, uid)'
  BY <1>4 DEF IInv, References, Through, Grows
<1>5. Sources'
  <2>1. ASSUME NEW a \in DOMAIN attempts', attempts'[a].pc \in {"event", "create"}
        PROVE  Through(a, attempts[a].copy.uid)'
    <3>1. a \in DOMAIN attempts /\ attempts'[a] = attempts[a]
      BY <2>1 DEF Grows
    <3>2. Through(a, attempts[a].copy.uid)
      BY <2>1, <3>1 DEF IInv, Sources
    <3> QED
      BY <3>1, <3>2, <1>4
  <2>2. ASSUME NEW c \in DOMAIN commits
        PROVE  Through(commits[c].attempt, commits[c].owner)'
    <3>1. commits[c].attempt \in DOMAIN attempts
      BY DEF IInv, References
    <3>2. Through(commits[c].attempt, commits[c].owner)
      BY DEF IInv, Sources
    <3> QED
      BY <3>1, <3>2, <1>4
  <2> QED
    BY <2>1, <2>2 DEF Sources
<1> QED
  BY <1>1, <1>2, <1>3, <1>5

LEMMA RegistrationStays ==
  ASSUME IInv, UNCHANGED <<watcher, ver, hooks, runs, events>>, Saved
  PROVE  TokensDiffer' /\ InOrder' /\ HooksLast'
<1>1. TokensDiffer'
  BY DEF IInv, TokensDiffer, Saved
<1>2. InOrder'
  BY DEF IInv, InOrder, RunOK, Signs
<1>3. HooksLast'
  BY DEF IInv, HooksLast
<1> QED
  BY <1>1, <1>2, <1>3

-----------------------------------------------------------------------------
(* The steps of a delivery keep the invariant *)

Commits == [attempt : Nat \ {0}, owner : Nat \ {0}, deployment : Nat]

\* The types, part by part
Typed == /\ watcher \in [Watchers -> Objects] /\ ver \in [Watchers -> Nat]
         /\ secrets \subseteq Watchers /\ cached \subseteq Procs
         /\ hooks \in Seq(Hooks)
         /\ runs \subseteq Runs
         /\ events \in Seq(Announced) /\ attempts \in Seq(Attempts)
         /\ deployments \in Seq(Nat \ {0}) /\ commits \in Seq(Commits)
         /\ used \in [BoundNames -> Nat]

LEMMA TypeParts == (TypeInv <=> Typed) /\ (TypeInv' <=> Typed')
BY DEF TypeInv, Typed, Hooks, Announced, Commits

LEMMA ReceiveInv ==
  ASSUME IInv, NEW a \in DOMAIN attempts, NEW p \in Procs, Receive(a, p)
  PROVE  IInv'
<1>0. TypeInv /\ References /\ CommitsEndAttempts /\ DeploymentsKnown /\ TokensDiffer
      /\ InOrder /\ HooksLast /\ Sources
  BY DEF IInv
<1>1. PICK o : o = watcher[hooks[attempts[a].hook].of]
  OBVIOUS
<1>2. /\ attempts[a].pc = "sent" /\ Saved
      /\ UNCHANGED <<watcher, ver, secrets, cached, hooks, runs, events, deployments, commits>>
  BY <1>0, <1>1, ReceiveFacts
<1>3. PICK d : /\ Moves(a, d) /\ d.deployment = attempts[a].deployment
               /\ \/ d.pc \in {"error", "unprocessable"}
                  \/ /\ d.pc = "event" /\ d.copy = o /\ Present(o)
                     /\ ValidSignature(o, attempts[a].hook)
  BY <1>0, <1>1, ReceiveFacts
<1>4. TypeInv'
  BY <1>0, <1>2, <1>3, TypeParts DEF Moves, Saved, Typed
<1>5. References'
  BY <1>0, <1>2, <1>3 DEF References, Moves
<1>6. CommitsEndAttempts'
  BY <1>0, <1>2, <1>3 DEF CommitsEndAttempts, References, Moves, Ended
<1>7. DeploymentsKnown'
  BY <1>0, <1>2, <1>3 DEF DeploymentsKnown, References, Moves
<1>8. Sources'
  <2>1. ASSUME attempts'[a].pc = "event" PROVE Through(a, o.uid)
    <3>1. Present(o) /\ ValidSignature(o, attempts[a].hook)
      BY <1>3, <2>1 DEF Moves
    <3> DEFINE e == events[attempts[a].event]
    <3>2. SUFFICES ASSUME e.hook # 0, o.uid = e.uid PROVE attempts[a].hook = e.hook
      BY DEF Through
    <3>3. /\ attempts[a].event \in DOMAIN events /\ attempts[a].hook \in DOMAIN hooks
          /\ o = watcher[e.of] /\ e.of \in Watchers
      BY <1>0, <1>1, EventFacts DEF References
    <3>4. o.hook = e.hook
      BY <1>0, <3>1, <3>2, <3>3 DEF HooksLast
    <3>5. o.hook \in DOMAIN hooks /\ hooks[o.hook].secret = o.token
      BY <1>0, <3>1, <3>2, <3>3, <3>4 DEF InOrder, Signs
    <3>6. o.token # 0
      BY <1>0, <3>5, <1>2 DEF TokensDiffer, Saved
    <3>7. hooks[attempts[a].hook].secret = o.token
      BY <3>1, <3>6 DEF ValidSignature
    <3> QED
      BY <1>0, <3>3, <3>4, <3>5, <3>7 DEF TokensDiffer
  <2> QED
    BY <1>0, <1>2, <1>3, <2>1 DEF Sources, Through, Moves, References
<1> QED
  BY <1>2, <1>4, <1>5, <1>6, <1>7, <1>8, RegistrationStays DEF IInv

LEMMA HandleEventInv ==
  ASSUME IInv, NEW a \in DOMAIN attempts, HandleEvent(a)
  PROVE  IInv'
<1>0. TypeInv /\ References /\ CommitsEndAttempts /\ DeploymentsKnown /\ Sources
  BY DEF IInv
<1>1. /\ attempts[a].pc = "event" /\ Saved
      /\ UNCHANGED <<watcher, ver, secrets, cached, hooks, runs, events, commits>>
  BY <1>0, HandleEventFacts
<1>2. PICK d : /\ Moves(a, d)
               /\ d.pc \in {"error", "unprocessable", "create"}
               /\ d.pc = "create" => d.copy = attempts[a].copy
               /\ \/ UNCHANGED deployments /\ d.deployment = attempts[a].deployment
                  \/ /\ deployments' = Append(deployments, a)
                     /\ \/ d.pc = "create" /\ d.deployment = Len(deployments) + 1
                        \/ d.pc = "error" /\ d.deployment = attempts[a].deployment
  BY <1>0, HandleEventFacts
<1>3. deployments \in Seq(Nat \ {0}) /\ a \in Nat \ {0}
  BY <1>0, AttemptFacts DEF TypeInv
<1>4. PICK n : n = Len(deployments) + 1
  OBVIOUS
\* A deployment that is made is the first of its attempt.
<1>5. ASSUME deployments' # deployments
      PROVE  /\ deployments' \in Seq(Nat \ {0})
             /\ DOMAIN deployments' = DOMAIN deployments \cup {n}
             /\ n \notin DOMAIN deployments /\ n \in Nat \ {0} /\ deployments'[n] = a
             /\ \A i \in DOMAIN deployments : deployments'[i] = deployments[i]
             /\ DOMAIN deployments \subseteq Nat \ {0}
             /\ \/ d.pc = "create" /\ d.deployment = n
                \/ d.pc = "error" /\ d.deployment = attempts[a].deployment
  <2>1. deployments' = Append(deployments, a)
    BY <1>2, <1>5
  <2>2. \/ d.pc = "create" /\ d.deployment = n
        \/ d.pc = "error" /\ d.deployment = attempts[a].deployment
    BY <1>2, <1>4, <1>5
  <2>3. PICK t : t = deployments'
    OBVIOUS
  <2> QED
    BY <1>3, <1>4, <2>1, <2>2, <2>3, AppendFacts
<1>6. deployments' = deployments => d.deployment = attempts[a].deployment
  <2>1. SUFFICES ASSUME deployments' = deployments, deployments' = Append(deployments, a)
                 PROVE  FALSE
    BY <1>2
  <2> QED
    BY <1>3, <2>1
<1>7. deployments' \in Seq(Nat \ {0})
  BY <1>3, <1>5
<1>8. TypeInv'
  BY <1>0, <1>1, <1>2, <1>7, TypeParts DEF Moves, Saved, Typed
<1>9. \A i \in DOMAIN deployments : deployments[i] # a
  BY <1>0, <1>1 DEF DeploymentsKnown
<1>10. References'
  <2>1. CASE deployments' = deployments
    BY <1>0, <1>1, <1>2, <2>1 DEF References, Moves
  <2>2. CASE deployments' # deployments
    BY <1>0, <1>1, <1>2, <1>5, <2>2 DEF References, Moves
  <2> QED
    BY <2>1, <2>2
<1>11. CommitsEndAttempts'
  BY <1>0, <1>1, <1>2 DEF CommitsEndAttempts, References, Moves, Ended
<1>12. DeploymentsKnown'
  <2>1. CASE deployments' = deployments
    BY <1>0, <1>1, <1>2, <1>6, <1>9, <2>1 DEF DeploymentsKnown, References, Moves
  <2>2. CASE deployments' # deployments
    <3>1. \A d1, d2 \in DOMAIN deployments' : deployments'[d1] = deployments'[d2] => d1 = d2
      BY <1>0, <1>5, <1>9, <2>2 DEF DeploymentsKnown
    <3>2. \A i \in DOMAIN deployments' :
            attempts'[deployments'[i]].pc \in {"create", "answer", "ok", "error", "lost"}
      BY <1>0, <1>2, <1>5, <1>9, <2>2 DEF DeploymentsKnown, Moves, References
    <3>3. \A i \in DOMAIN deployments' : attempts'[deployments'[i]].pc = "create" =>
            attempts'[deployments'[i]].deployment = i
      BY <1>0, <1>2, <1>5, <1>9, <2>2 DEF DeploymentsKnown, Moves, References
    <3>4. \A i \in DOMAIN deployments' : attempts'[deployments'[i]].pc \in {"answer", "ok"} =>
            \E c \in DOMAIN commits' : commits'[c].deployment = i
      BY <1>0, <1>1, <1>2, <1>5, <1>9, <2>2 DEF DeploymentsKnown, Moves, References
    <3>5. \A b \in DOMAIN attempts' : attempts'[b].deployment # 0 =>
            /\ attempts'[b].deployment \in DOMAIN deployments'
            /\ deployments'[attempts'[b].deployment] = b
      BY <1>0, <1>2, <1>5, <1>9, <2>2 DEF DeploymentsKnown, Moves
    <3>6. \A c \in DOMAIN commits' : commits'[c].deployment # 0 =>
            /\ commits'[c].deployment \in DOMAIN deployments'
            /\ deployments'[commits'[c].deployment] = commits'[c].attempt
      BY <1>0, <1>1, <1>5, <2>2 DEF DeploymentsKnown
    <3> QED
      BY <3>1, <3>2, <3>3, <3>4, <3>5, <3>6 DEF DeploymentsKnown
  <2> QED
    BY <2>1, <2>2
<1>13. Sources'
  BY <1>0, <1>1, <1>2 DEF Sources, Through, Moves, References
<1> QED
  BY <1>1, <1>8, <1>10, <1>11, <1>12, <1>13, RegistrationStays DEF IInv

LEMMA CreateCommitInv ==
  ASSUME IInv, NEW a \in DOMAIN attempts, CreateCommit(a)
  PROVE  IInv'
<1>0. TypeInv /\ References /\ CommitsEndAttempts /\ DeploymentsKnown /\ Sources
  BY DEF IInv
<1>1. PICK c : c = [attempt |-> a, owner |-> attempts[a].copy.uid,
                    deployment |-> attempts[a].deployment]
  OBVIOUS
<1>2. /\ attempts[a].pc = "create" /\ Saved
      /\ UNCHANGED <<watcher, ver, secrets, cached, hooks, runs, events, deployments>>
      /\ c \in Commits
  BY <1>0, <1>1, CreateCommitFacts DEF Commits
<1>3. PICK d : /\ Moves(a, d) /\ d.deployment = attempts[a].deployment
               /\ \/ d.pc \in {"answer", "error"} /\ commits' = Append(commits, c)
                  \/ d.pc = "error" /\ UNCHANGED commits
  BY <1>0, <1>1, CreateCommitFacts
<1>4. /\ c.attempt = a /\ c.owner = attempts[a].copy.uid
      /\ c.deployment = attempts[a].deployment
  BY <1>1
<1>5. PICK n : n = Len(commits) + 1
  OBVIOUS
<1>6. commits \in Seq(Commits)
  BY <1>0, TypeParts DEF Typed
<1>7. ASSUME NEW b \in DOMAIN attempts, NEW uid, Through(b, uid)
      PROVE  Through(b, uid)'
  BY <1>2, <1>3, <1>7 DEF Through, Moves
<1>8. ASSUME NEW b \in DOMAIN attempts', attempts'[b].pc \in {"event", "create"}, b # a
       PROVE  Through(b, attempts[b].copy.uid)'
  <2>1. attempts'[b] = attempts[b]
    BY <1>3, <1>8 DEF Moves
  <2> QED
    BY <1>0, <1>3, <1>7, <1>8, <2>1 DEF Sources, Moves
<1>9. CASE commits' = commits /\ d.pc = "error"
  <2>1. TypeInv'
    BY <1>0, <1>2, <1>3, <1>9, TypeParts DEF Moves, Saved, Typed
  <2>2. References'
    BY <1>0, <1>2, <1>3, <1>9 DEF References, Moves
  <2>3. CommitsEndAttempts'
    BY <1>0, <1>2, <1>3, <1>9 DEF CommitsEndAttempts, References, Moves, Ended
  <2>4. DeploymentsKnown'
    BY <1>0, <1>2, <1>3, <1>9 DEF DeploymentsKnown, References, Moves
  <2>5. Sources'
    <3>1. ASSUME NEW i \in DOMAIN commits PROVE Through(commits[i].attempt, commits[i].owner)'
      <4>1. commits[i].attempt \in DOMAIN attempts /\ Through(commits[i].attempt, commits[i].owner)
        BY <1>0 DEF Sources, References
      <4> QED
        BY <1>9, <1>7, <4>1
    <3> QED
      BY <1>3, <1>9, <1>8, <3>1 DEF Sources, Moves
  <2> QED
    BY <1>2, <2>1, <2>2, <2>3, <2>4, <2>5, RegistrationStays DEF IInv
<1>10. CASE commits' = Append(commits, c) /\ d.pc \in {"answer", "error"}
  <2>1. /\ commits' \in Seq(Commits) /\ DOMAIN commits' = DOMAIN commits \cup {n}
        /\ n \notin DOMAIN commits /\ commits'[n] = c
        /\ \A i \in DOMAIN commits : commits'[i] = commits[i]
    <3>1. PICK t : t = commits'
      OBVIOUS
    <3> QED
      BY <1>2, <1>5, <1>6, <1>10, <3>1, AppendFacts
  <2>2. TypeInv'
    BY <1>0, <1>2, <1>3, <2>1, TypeParts DEF Moves, Saved, Typed
  <2>3. \A i \in DOMAIN commits : commits[i].attempt # a
    BY <1>0, <1>2 DEF CommitsEndAttempts, Ended
  <2>4. References'
    <3>1. /\ DOMAIN attempts' = DOMAIN attempts
          /\ \A b \in DOMAIN attempts :
               /\ attempts'[b].hook = attempts[b].hook /\ attempts'[b].event = attempts[b].event
               /\ attempts'[b].pc \in {"event", "create"} => attempts'[b] = attempts[b]
      BY <1>3, <1>10 DEF Moves
    <3>2. \A i \in DOMAIN commits' : commits'[i].attempt \in DOMAIN attempts
      BY <1>0, <1>4, <2>1 DEF References
    <3> QED
      BY <1>0, <1>2, <3>1, <3>2 DEF References
  <2>5. CommitsEndAttempts'
    <3>1. \A c1, c2 \in DOMAIN commits' : commits'[c1].attempt = commits'[c2].attempt => c1 = c2
      BY <1>0, <1>4, <2>1, <2>3 DEF CommitsEndAttempts
    <3>2. \A i \in DOMAIN commits' :
            attempts'[commits'[i].attempt].pc \in {"answer"} \cup (Ended \ {"unprocessable"})
      BY <1>0, <1>3, <1>4, <1>10, <2>1, <2>3 DEF CommitsEndAttempts, Moves, References, Ended
    <3>3. \A b \in DOMAIN attempts' : attempts'[b].pc \in {"answer", "ok"} =>
            \E i \in DOMAIN commits' : commits'[i].attempt = b
      BY <1>0, <1>3, <1>4, <2>1 DEF CommitsEndAttempts, Moves
    <3> QED
      BY <3>1, <3>2, <3>3 DEF CommitsEndAttempts
  \* The GitCommit names the deployment of its attempt.
  <2>6. DeploymentsKnown'
    <3>1. /\ \A d1, d2 \in DOMAIN deployments' : deployments'[d1] = deployments'[d2] => d1 = d2
          /\ \A i \in DOMAIN deployments' :
               attempts'[deployments'[i]].pc \in {"create", "answer", "ok", "error", "lost"}
          /\ \A i \in DOMAIN deployments' : attempts'[deployments'[i]].pc = "create" =>
               attempts'[deployments'[i]].deployment = i
      BY <1>0, <1>2, <1>3, <1>10 DEF DeploymentsKnown, Moves, References
    <3>2. \A i \in DOMAIN deployments' : attempts'[deployments'[i]].pc \in {"answer", "ok"} =>
            \E j \in DOMAIN commits' : commits'[j].deployment = i
      <4>1. ASSUME NEW i \in DOMAIN deployments, deployments[i] = a
            PROVE  commits'[n].deployment = i
        BY <1>0, <1>2, <1>4, <2>1, <4>1 DEF DeploymentsKnown
      <4>2. ASSUME NEW i \in DOMAIN deployments, deployments[i] # a,
                   attempts[deployments[i]].pc \in {"answer", "ok"}
            PROVE  \E j \in DOMAIN commits' : commits'[j].deployment = i
        BY <1>0, <2>1, <4>2 DEF DeploymentsKnown
      <4> QED
        BY <1>0, <1>2, <1>3, <2>1, <4>1, <4>2 DEF Moves, References
    <3>3. \A b \in DOMAIN attempts' : attempts'[b].deployment # 0 =>
            /\ attempts'[b].deployment \in DOMAIN deployments'
            /\ deployments'[attempts'[b].deployment] = b
      BY <1>0, <1>2, <1>3 DEF DeploymentsKnown, Moves
    <3>4. \A i \in DOMAIN commits' : commits'[i].deployment # 0 =>
            /\ commits'[i].deployment \in DOMAIN deployments'
            /\ deployments'[commits'[i].deployment] = commits'[i].attempt
      BY <1>0, <1>2, <1>4, <2>1 DEF DeploymentsKnown
    <3> QED
      BY <3>1, <3>2, <3>3, <3>4 DEF DeploymentsKnown
  <2>7. Sources'
    <3>2. Through(a, c.owner)
      BY <1>0, <1>2, <1>4 DEF Sources
    <3>3. ASSUME NEW i \in DOMAIN commits'
          PROVE  Through(commits[i].attempt, commits[i].owner)'
      <4>1. CASE i = n
        BY <1>4, <2>1, <1>7, <3>2, <4>1
      <4>2. CASE i # n
        BY <1>0, <2>1, <1>7, <4>2 DEF Sources, References
      <4> QED
        BY <4>1, <4>2
    <3> QED
      BY <1>3, <1>10, <1>8, <3>3 DEF Sources, Moves
  <2> QED
    BY <1>2, <2>2, <2>4, <2>5, <2>6, <2>7, RegistrationStays DEF IInv
<1> QED
  BY <1>3, <1>9, <1>10

LEMMA AnswerOKInv ==
  ASSUME IInv, NEW a \in DOMAIN attempts, AnswerOK(a)
  PROVE  IInv'
<1>0. TypeInv /\ References /\ CommitsEndAttempts /\ DeploymentsKnown /\ Sources
  BY DEF IInv
<1>1. /\ attempts[a].pc = "answer" /\ Answer(a, "ok")
      /\ UNCHANGED <<watcher, ver, secrets, cached, hooks, runs, events, deployments, commits, used>>
  BY DEF AnswerOK, watcherVars, hookVars, madeVars
<1>2. PICK d : Moves(a, d) /\ d.pc = "ok" /\ d.deployment = attempts[a].deployment
  BY <1>0, <1>1, AnswerFacts DEF Ended
<1>3. Saved
  BY <1>0, <1>1, SavedFacts
<1>4. TypeInv'
  BY <1>0, <1>1, <1>2, TypeParts DEF Moves, Typed
<1>5. References'
  BY <1>0, <1>1, <1>2 DEF References, Moves
<1>6. CommitsEndAttempts'
  BY <1>0, <1>1, <1>2 DEF CommitsEndAttempts, References, Moves, Ended
<1>7. DeploymentsKnown'
  <2>1. /\ \A x \in DOMAIN attempts : x # a => attempts'[x] = attempts[x]
        /\ attempts'[a].pc = "ok" /\ attempts'[a].deployment = attempts[a].deployment
        /\ DOMAIN attempts' = DOMAIN attempts
    BY <1>2 DEF Moves
  <2>2. \A x \in DOMAIN attempts : attempts'[x].deployment = attempts[x].deployment
    BY <2>1
  <2>3. \A x \in DOMAIN deployments :
          attempts'[deployments[x]].pc
            = (IF deployments[x] = a THEN "ok" ELSE attempts[deployments[x]].pc)
    BY <1>0, <2>1 DEF References
  <2> QED
    BY <1>0, <1>1, <2>1, <2>2, <2>3 DEF DeploymentsKnown, References
<1>8. Sources'
  BY <1>0, <1>1, <1>2 DEF Sources, Through, Moves, References
<1> QED
  BY <1>1, <1>3, <1>4, <1>5, <1>6, <1>7, <1>8, RegistrationStays DEF IInv

LEMMA RestartInv ==
  ASSUME IInv, NEW p \in Procs, Restart(p)
  PROVE  IInv'
<1>0. TypeInv /\ References /\ CommitsEndAttempts /\ DeploymentsKnown /\ Sources
  BY DEF IInv
<1>1. /\ Saved /\ cached' \subseteq Procs
      /\ UNCHANGED <<watcher, ver, secrets, hooks, runs, events, deployments, commits>>
      /\ attempts' \in Seq(Attempts) /\ DOMAIN attempts' = DOMAIN attempts
  BY <1>0, RestartFacts
<1>2. \A a \in DOMAIN attempts :
        \/ attempts'[a] = attempts[a]
        \/ /\ attempts[a].pc \in Working /\ attempts'[a].pc = "lost"
           /\ attempts'[a].hook = attempts[a].hook
           /\ attempts'[a].event = attempts[a].event
           /\ attempts'[a].deployment = attempts[a].deployment
  BY <1>0, RestartFacts
<1>3. TypeInv'
  BY <1>0, <1>1, TypeParts DEF Saved, Typed
<1>4. References'
  BY <1>0, <1>1, <1>2 DEF References
<1>5. CommitsEndAttempts'
  BY <1>0, <1>1, <1>2 DEF CommitsEndAttempts, References, Working, Ended
<1>6. DeploymentsKnown'
  BY <1>0, <1>1, <1>2 DEF DeploymentsKnown, References, Working
<1>7. Sources'
  BY <1>0, <1>1, <1>2 DEF Sources, Through, References
<1> QED
  BY <1>1, <1>3, <1>4, <1>5, <1>6, <1>7, RegistrationStays DEF IInv

-----------------------------------------------------------------------------
(* The steps of users, of registration and of GitHub keep the invariant *)

LEMMA GrowsFacts == \A s : Grows(s, s)
BY DEF Grows

\* A step that changes one watcher, under a version of its own
LEMMA StoreInv ==
  ASSUME IInv, NEW w \in Watchers, NEW o \in Objects, Store(w, o), Saved,
         secrets' \subseteq Watchers, runs' \subseteq runs,
         UNCHANGED <<cached, hooks, events, attempts, deployments, commits>>,
         Present(o) => /\ o.uid <= ver[w] + 1 /\ o.rv = ver[w] + 1
                       /\ Signs(w, o.uid, o.hook, o.token)
                       /\ \/ o.uid = ver[w] + 1
                          \/ /\ Present(watcher[w]) /\ o.uid = watcher[w].uid
                             /\ watcher[w].hook # 0 => o.hook = watcher[w].hook
  PROVE  IInv'
<1>0. /\ TypeInv /\ References /\ CommitsEndAttempts /\ DeploymentsKnown /\ TokensDiffer
      /\ InOrder /\ HooksLast /\ Sources
  BY DEF IInv
<1>1. /\ watcher' \in [Watchers -> Objects] /\ ver' \in [Watchers -> Nat]
      /\ watcher'[w] = o /\ ver'[w] = ver[w] + 1
      /\ \A v \in Watchers : v # w => watcher'[v] = watcher[v] /\ ver'[v] = ver[v]
      /\ \A v \in Watchers : ver[v] \in Nat
  BY <1>0, TypeParts DEF Store, Typed
<1>2. runs' \subseteq Runs
  BY <1>0, TypeParts DEF Typed
<1>3. TypeInv'
  BY <1>0, <1>1, <1>2, TypeParts DEF Typed, Saved
<1>4. References' /\ CommitsEndAttempts' /\ DeploymentsKnown' /\ Sources'
  BY DeliveriesSent, GrowsFacts
<1>5. TokensDiffer'
  BY <1>0 DEF TokensDiffer, Saved
<1>6. o.uid \in Nat /\ (Present(o) => o.uid # 0 /\ o.rv \in Nat)
  BY ObjectFacts
<1>7. InOrder'
  <2>1. ASSUME NEW v \in Watchers, Present(watcher'[v])
        PROVE  /\ watcher'[v].uid <= ver'[v] /\ watcher'[v].rv \in 1 .. ver'[v]
               /\ Signs(v, watcher[v].uid, watcher[v].hook, watcher[v].token)'
    <3>1. CASE v = w
      BY <1>1, <1>6, <2>1, <3>1 DEF Signs
    <3>2. CASE v # w
      BY <1>0, <1>1, <2>1, <3>2 DEF InOrder, Signs
    <3> QED
      BY <3>1, <3>2
  <2>2. ASSUME NEW r \in runs'
        PROVE  RunOK(r)'
    <3>1. r \in runs /\ RunOK(r)
      BY <1>0, <1>2 DEF InOrder
    <3>2. r.of \in Watchers /\ r.rv \in Nat /\ r.uid \in Nat
      BY <1>2 DEF Runs
    <3>3. Signs(r.of, r.uid, r.hook, r.token)'
      BY <3>1 DEF RunOK, Signs
    <3>4. CASE r.of = w
      BY <1>1, <3>1, <3>2, <3>3, <3>4 DEF RunOK
    <3>5. CASE r.of # w
      BY <1>1, <3>1, <3>2, <3>3, <3>5 DEF RunOK
    <3> QED
      BY <3>4, <3>5
  <2> QED
    BY <2>1, <2>2 DEF InOrder
<1>8. HooksLast'
  <2>1. ASSUME NEW i \in DOMAIN events, events[i].hook # 0
        PROVE  LET u == watcher'[events[i].of] IN
               /\ events[i].uid \in 1 .. ver'[events[i].of]
               /\ Present(u) /\ u.uid = events[i].uid => u.hook = events[i].hook
    <3>1. /\ events[i].of \in Watchers /\ events[i].uid \in Nat
          /\ events[i].uid \in 1 .. ver[events[i].of]
          /\ Present(watcher[events[i].of]) /\ watcher[events[i].of].uid = events[i].uid
               => watcher[events[i].of].hook = events[i].hook
      BY <1>0, <2>1, EventFacts DEF HooksLast
    <3>2. CASE events[i].of = w
      BY <1>1, <1>6, <2>1, <3>1, <3>2
    <3>3. CASE events[i].of # w
      BY <1>1, <2>1, <3>1, <3>3
    <3> QED
      BY <3>2, <3>3
  <2> QED
    BY <1>0, <2>1 DEF HooksLast
<1> QED
  BY <1>3, <1>4, <1>5, <1>7, <1>8 DEF IInv

LEMMA EditWatcherInv ==
  ASSUME IInv, EditWatcher
  PROVE  IInv'
<1>0. TypeInv /\ InOrder
  BY DEF IInv
<1>1. /\ UNCHANGED <<secrets, cached, hooks, runs, events, attempts, deployments, commits>>
      /\ Saved
  BY <1>0, SavedFacts DEF EditWatcher, hookVars, madeVars
<1>2. PICK w \in Watchers :
        \/ \E s \in Specs : Store(w, NewObject(ver[w] + 1, s))
        \/ /\ Present(watcher[w])
           /\ \E s \in Specs : Store(w, [watcher[w] EXCEPT !.rv = ver[w] + 1, !.spec = s])
        \/ Store(w, Absent)
  BY DEF EditWatcher
<1>3. ver[w] \in Nat /\ watcher[w] \in Objects /\ secrets \subseteq Watchers
  BY <1>0, TypeParts DEF Typed
<1>4. ASSUME NEW s \in Specs, Store(w, NewObject(ver[w] + 1, s))
      PROVE  IInv'
  <2>1. PICK o : o = NewObject(ver[w] + 1, s)
    OBVIOUS
  <2>2. o \in Living /\ o.uid = ver[w] + 1 /\ o.rv = ver[w] + 1 /\ o.hook = 0
    BY <1>3, <2>1 DEF NewObject, Living
  <2>3. o \in Objects /\ Signs(w, o.uid, o.hook, o.token)
    BY <2>2, ObjectFacts DEF Signs
  <2> QED
    BY <1>1, <1>3, <1>4, <2>1, <2>2, <2>3, StoreInv
<1>5. ASSUME NEW s \in Specs, Present(watcher[w]),
             Store(w, [watcher[w] EXCEPT !.rv = ver[w] + 1, !.spec = s])
      PROVE  IInv'
  <2>1. PICK o : o = [watcher[w] EXCEPT !.rv = ver[w] + 1, !.spec = s]
    OBVIOUS
  <2>2. watcher[w] \in Living
    BY <1>3, <1>5, ObjectFacts
  <2>3. /\ o \in Living /\ o.uid = watcher[w].uid /\ o.rv = ver[w] + 1
        /\ o.hook = watcher[w].hook /\ o.token = watcher[w].token
    <3>1. PICK x \in Living, v \in Nat : x = watcher[w] /\ v = ver[w] + 1
      BY <1>3, <2>2
    <3>2. o = [x EXCEPT !.rv = v, !.spec = s]
      BY <2>1, <3>1
    <3>3. /\ o \in Living /\ o.uid = x.uid /\ o.rv = v
          /\ o.token = x.token /\ o.hook = x.hook
      BY <3>2 DEF Living
    <3> QED
      BY <3>1, <3>3
  <2>4. /\ watcher[w].uid <= ver[w] /\ watcher[w].uid \in Nat
        /\ Signs(w, watcher[w].uid, watcher[w].hook, watcher[w].token)
    BY <1>0, <1>5, <2>2 DEF InOrder, Living
  <2>5. o \in Objects /\ Signs(w, o.uid, o.hook, o.token) /\ o.uid <= ver[w] + 1
    BY <1>3, <2>3, <2>4, ObjectFacts
  <2> QED
    BY <1>1, <1>3, <1>5, <2>1, <2>3, <2>5, StoreInv
<1>6. ASSUME Store(w, Absent)
      PROVE  IInv'
  BY <1>1, <1>3, <1>6, ObjectFacts, StoreInv
<1> QED
  BY <1>2, <1>4, <1>5, <1>6

LEMMA ChangeSecretInv ==
  ASSUME IInv, NEW w \in Watchers, ChangeSecret(w)
  PROVE  IInv'
<1>0. TypeInv
  BY DEF IInv
<1>1. /\ UNCHANGED <<watcher, ver, cached, hooks, runs, events, attempts, deployments, commits>>
      /\ Saved
  BY <1>0, SavedFacts DEF ChangeSecret, hookVars, madeVars
<1>2. secrets' \subseteq Watchers
  BY <1>0, TypeParts DEF ChangeSecret, Typed
<1>3. TypeInv'
  BY <1>0, <1>1, <1>2, TypeParts DEF Typed, Saved
<1>4. References' /\ CommitsEndAttempts' /\ DeploymentsKnown' /\ Sources'
  BY <1>1, DeliveriesSent, GrowsFacts
<1> QED
  BY <1>1, <1>3, <1>4, RegistrationStays DEF IInv

LEMMA StartCachesInv ==
  ASSUME IInv, NEW p \in Procs, StartCaches(p)
  PROVE  IInv'
<1>1. /\ UNCHANGED <<watcher, ver, secrets, hooks, runs, events, attempts, deployments, commits, used>>
      /\ cached' = cached \cup {p}
  BY DEF StartCaches, hookVars, madeVars
<1>2. TypeInv /\ Saved
  BY <1>1, SavedFacts DEF IInv
<1>3. TypeInv'
  BY <1>1, <1>2, TypeParts DEF Typed
<1>4. References' /\ CommitsEndAttempts' /\ DeploymentsKnown' /\ Sources'
  BY <1>1, DeliveriesSent, GrowsFacts
<1> QED
  BY <1>1, <1>2, <1>3, <1>4, RegistrationStays DEF IInv

\* What a run records: the hook it was given, or none, on an object without one.
LEMMA RecordInv ==
  ASSUME IInv, NEW r \in runs, Record(r)
  PROVE  IInv'
<1>0. TypeInv /\ InOrder /\ RunOK(r)
  BY DEF IInv, InOrder
<1>1. /\ UNCHANGED <<secrets, cached, hooks, events, attempts, deployments, commits>>
      /\ runs' = runs \ {r} /\ Saved
  BY <1>0, SavedFacts DEF Record, madeVars
<1>2. PICK w : w = r.of
  OBVIOUS
<1>3. /\ w \in Watchers /\ r.rv \in Nat /\ r.token \in Nat \ {0} /\ r.hook \in Nat
      /\ ver[w] \in Nat /\ watcher[w] \in Objects /\ secrets \subseteq Watchers
      /\ runs \subseteq Runs
  BY <1>0, <1>2, TypeParts DEF Typed, Runs
<1>4. PICK o : o = [watcher[w] EXCEPT !.rv = ver[w] + 1, !.token = r.token, !.hook = r.hook]
  OBVIOUS
<1>5. CASE Present(watcher[w]) /\ watcher[w].rv = r.rv /\ Store(w, o)
  <2>1. watcher[w] \in Living
    BY <1>3, <1>5, ObjectFacts
  <2>2. /\ o \in Living /\ o.uid = watcher[w].uid /\ o.rv = ver[w] + 1
        /\ o.hook = r.hook /\ o.token = r.token
    <3>1. PICK x \in Living, v \in Nat : x = watcher[w] /\ v = ver[w] + 1
      BY <1>3, <2>1
    <3>2. o = [x EXCEPT !.rv = v, !.token = r.token, !.hook = r.hook]
      BY <1>4, <3>1
    <3>3. r.token \in Nat /\ r.hook \in Nat
      BY <1>3
    <3>4. /\ o \in Living /\ o.uid = x.uid /\ o.rv = v
          /\ o.token = r.token /\ o.hook = r.hook
      BY <3>2, <3>3 DEF Living
    <3> QED
      BY <3>1, <3>4
  <2>3. /\ watcher[w].uid <= ver[w] /\ watcher[w].uid \in Nat
        /\ Signs(w, watcher[w].uid, r.hook, r.token) /\ watcher[w].hook = 0
    BY <1>0, <1>2, <1>3, <1>5, <2>1 DEF InOrder, RunOK, Living
  <2>4. o \in Objects /\ Signs(w, o.uid, o.hook, o.token) /\ o.uid <= ver[w] + 1
    BY <1>3, <2>2, <2>3, ObjectFacts
  <2>5. runs' \subseteq runs /\ secrets' \subseteq Watchers
    BY <1>1, <1>3
  <2> QED
    BY <1>1, <1>3, <1>5, <2>2, <2>3, <2>4, <2>5, StoreInv
<1>6. CASE UNCHANGED <<watcher, ver>>
  <2>1. TypeInv'
    BY <1>0, <1>1, <1>3, <1>6, TypeParts DEF Typed, Saved
  <2>2. References' /\ CommitsEndAttempts' /\ DeploymentsKnown' /\ Sources'
    BY <1>1, DeliveriesSent, GrowsFacts
  <2>3. TokensDiffer' /\ HooksLast'
    BY <1>1, <1>6 DEF IInv, TokensDiffer, HooksLast, Saved
  <2>4. InOrder'
    BY <1>0, <1>1, <1>6 DEF InOrder, RunOK, Signs
  <2> QED
    BY <2>1, <2>2, <2>3, <2>4 DEF IInv
<1> QED
  BY <1>2, <1>4, <1>5, <1>6 DEF Record

LEMMA SignsGrows ==
  ASSUME Grows(hooks, hooks'), NEW w, NEW u, NEW h, NEW t, Signs(w, u, h, t)
  PROVE  Signs(w, u, h, t)'
BY DEF Grows, Signs

\* What registration keeps while hooks and events are added and runs begin
LEMMA RegistrationGrows ==
  ASSUME IInv, UNCHANGED <<watcher, ver>>,
         Grows(hooks, hooks'), Grows(events, events'),
         \A r \in runs' \ runs : RunOK(r)',
         \A i \in DOMAIN events' \ DOMAIN events :
           /\ events'[i].of \in Watchers
           /\ events'[i].hook # 0 => LET o == watcher[events'[i].of] IN
                /\ Present(o) /\ o.uid = events'[i].uid /\ o.hook = events'[i].hook
  PROVE  InOrder' /\ HooksLast'
<1>0. TypeInv /\ InOrder /\ HooksLast
  BY DEF IInv
<1>1. InOrder'
  <2>1. ASSUME NEW r \in runs'
        PROVE  RunOK(r)'
    <3>1. CASE r \in runs
      <4>1. RunOK(r)
        BY <1>0, <3>1 DEF InOrder
      <4>2. Signs(r.of, r.uid, r.hook, r.token)'
        BY <4>1, SignsGrows DEF RunOK
      <4> QED
        BY <4>1, <4>2 DEF RunOK
    <3>2. CASE r \notin runs
      BY <3>2
    <3> QED
      BY <3>1, <3>2
  <2>2. ASSUME NEW w \in Watchers, Present(watcher[w])
        PROVE  Signs(w, watcher[w].uid, watcher[w].hook, watcher[w].token)'
    <3>1. PICK u, h, t : u = watcher[w].uid /\ h = watcher[w].hook /\ t = watcher[w].token
      OBVIOUS
    <3>2. Signs(w, u, h, t)
      BY <1>0, <2>2, <3>1 DEF InOrder
    <3>3. Signs(w, u, h, t)'
      BY <3>2, SignsGrows
    <3> QED
      BY <3>1, <3>3
  <2> QED
    BY <1>0, <2>1, <2>2 DEF InOrder
<1>2. HooksLast'
  <2> SUFFICES ASSUME NEW i \in DOMAIN events', events'[i].hook # 0
               PROVE  LET o == watcher[events'[i].of] IN
                      /\ events'[i].hook \in DOMAIN hooks'
                      /\ events'[i].uid \in 1 .. ver[events'[i].of]
                      /\ Present(o) /\ o.uid = events'[i].uid => o.hook = events'[i].hook
    BY DEF HooksLast
  <2>1. CASE i \in DOMAIN events
    BY <1>0, <2>1 DEF HooksLast, Grows
  <2>2. CASE i \notin DOMAIN events
    <3>1. PICK o : o = watcher[events'[i].of]
      OBVIOUS
    <3>2. /\ events'[i].of \in Watchers /\ Present(o) /\ o.uid = events'[i].uid
          /\ o.hook = events'[i].hook
      BY <2>2, <3>1
    <3>3. o \in Objects
      BY <1>0, <3>1, <3>2, TypeParts DEF Typed
    <3>4. o.uid \in Nat \ {0}
      BY <3>2, <3>3, ObjectFacts
    <3>5. /\ o.uid <= ver[events'[i].of] /\ ver[events'[i].of] \in Nat
          /\ Signs(events'[i].of, o.uid, o.hook, o.token)
      BY <1>0, <3>1, <3>2, TypeParts DEF InOrder, Typed
    <3>6. o.hook \in DOMAIN hooks
      BY <3>2, <3>5 DEF Signs
    <3> QED
      BY <3>1, <3>2, <3>4, <3>5, <3>6 DEF Grows
  <2> QED
    BY <2>1, <2>2
<1> QED
  BY <1>1, <1>2

\* A run begins with an object that has no hook, and draws a token of its own.
LEMMA BeginRunInv ==
  ASSUME IInv, NEW w \in Watchers, BeginRun(w)
  PROVE  IInv'
<1>0. TypeInv /\ InOrder /\ TokensDiffer /\ Typed
  BY TypeParts DEF IInv
<1>1. PICK o, r : /\ o = watcher[w]
                  /\ r = [of |-> w, uid |-> o.uid, rv |-> o.rv, kinds |-> getEvents(o.spec),
                          token |-> NewToken, hook |-> 0, pc |-> "create"]
  OBVIOUS
<1>2. /\ UNCHANGED <<watcher, ver, secrets, cached, hooks, events, attempts, deployments, commits>>
      /\ runs' = runs \cup {r}
  BY <1>1 DEF BeginRun, watcherVars, madeVars
<1>3. /\ used' \in [BoundNames -> Nat] /\ used["hooks"] \in Nat
      /\ used'["hooks"] = used["hooks"] + 1
  BY <1>0, SpendFacts DEF BeginRun, Use
<1>4. /\ o \in Living /\ o.hook = 0 /\ o.uid <= ver[w] /\ o.rv \in 1 .. ver[w] /\ ver[w] \in Nat
  <2>1. Present(o) /\ o \in Objects /\ o.hook = 0
    BY <1>0, <1>1 DEF BeginRun, Typed
  <2> QED
    BY <1>0, <1>1, <2>1, ObjectFacts DEF InOrder, Typed
<1>5. /\ r.of = w /\ r.uid = o.uid /\ r.rv = o.rv /\ r.hook = 0
      /\ r.token = used["hooks"] + 1 /\ r \in Runs
  <2>1. getEvents(o.spec) \subseteq Subscribable
    BY DEF getEvents, Subscribable
  <2>2. o.uid \in Nat \ {0} /\ o.rv \in Nat \ {0}
    BY <1>4, ObjectFacts
  <2> QED
    BY <1>1, <1>3, <2>1, <2>2 DEF Runs, NewToken
<1>6. TypeInv'
  BY <1>0, <1>2, <1>3, <1>5, TypeParts DEF Typed
<1>7. References' /\ CommitsEndAttempts' /\ DeploymentsKnown' /\ Sources'
  BY <1>2, DeliveriesSent, GrowsFacts
<1>8. TokensDiffer'
  <2>1. /\ \A h \in DOMAIN hooks : hooks[h].secret \in 1 .. used["hooks"]
        /\ \A x \in runs : x.token \in 1 .. used["hooks"]
    BY <1>0 DEF TokensDiffer
  <2> QED
    BY <1>0, <1>2, <1>3, <1>5, <2>1 DEF TokensDiffer
<1>9. InOrder' /\ HooksLast'
  <2>1. RunOK(r)'
    BY <1>1, <1>2, <1>4, <1>5 DEF RunOK, Signs
  <2> QED
    BY <1>2, <2>1, GrowsFacts, RegistrationGrows
<1> QED
  BY <1>6, <1>7, <1>8, <1>9 DEF IInv

\* A run that has asked has its token still, and no other run or hook has it, but
\* a hook that was made for this run.
LEMMA TokensStayApart ==
  ASSUME TokensDiffer, Saved, NEW r \in runs, NEW q, q.token = r.token, q.pc = "update",
         runs' = (runs \ {r}) \cup {q},
         \A h \in DOMAIN hooks' : hooks'[h].secret = r.token
                                 \/ (h \in DOMAIN hooks /\ hooks'[h] = hooks[h])
  PROVE  \A x \in runs' : /\ x.token \in 1 .. used'["hooks"]
                          /\ \A y \in runs' : y.token = x.token => y = x
                          /\ x.pc = "create" => \A h \in DOMAIN hooks' : hooks'[h].secret # x.token
<1>1. \A x \in runs' : x \in runs \ {r} \/ x = q
  OBVIOUS
<1>2. \A x \in runs \ {r} : x.token # r.token
  BY DEF TokensDiffer
<1> QED
  BY <1>1, <1>2 DEF TokensDiffer, Saved

\* A run asks for a hook: GitHub makes it or not, the run hears of it or not.
LEMMA CreateHookInv ==
  ASSUME IInv, NEW r \in runs, CreateHook(r)
  PROVE  IInv'
<1>0. TypeInv /\ InOrder /\ TokensDiffer /\ Typed /\ RunOK(r)
  BY TypeParts DEF IInv, InOrder
<1>1. PICK o, w : w = r.of /\ o = watcher[w]
  OBVIOUS
<1>2. /\ r.pc = "create" /\ w \in Watchers /\ o \in Objects
      /\ r.uid \in Nat \ {0} /\ r.token \in Nat \ {0} /\ r.kinds \subseteq Subscribable
      /\ UNCHANGED <<watcher, ver, secrets, cached, deployments, commits>>
  <2>1. r \in Runs
    BY <1>0 DEF Typed
  <2>2. w \in Watchers
    BY <1>1, <2>1 DEF Runs
  <2> QED
    BY <1>0, <1>1, <2>1, <2>2 DEF CreateHook, Runs, Typed, watcherVars, madeVars
<1>3. PICK hook, event, sent :
        /\ hook = [of |-> w, uid |-> r.uid, secret |-> r.token, kinds |-> r.kinds]
        /\ event = [what |-> Ping, of |-> w, uid |-> o.uid, hook |-> Recorded(o)]
        /\ sent = Sent(Len(hooks) + 1, Len(events) + 1)
  OBVIOUS
<1>4. \/ /\ hooks' = Append(hooks, hook)
         /\ \/ events' = Append(events, event) /\ attempts' = Append(attempts, sent)
            \/ UNCHANGED <<events, attempts>>
         /\ \E h \in {0, Len(hooks) + 1} :
              runs' = (runs \ {r}) \cup {[r EXCEPT !.hook = h, !.pc = "update"]}
      \/ /\ runs' = (runs \ {r}) \cup {[r EXCEPT !.hook = 0, !.pc = "update"]}
         /\ UNCHANGED <<hooks, events, attempts>>
  BY <1>1, <1>3 DEF CreateHook, Announce
<1>5. Saved
  BY <1>0, SavedFacts DEF CreateHook
<1>6. /\ hook \in Hooks /\ hook.of = w /\ hook.uid = r.uid /\ hook.secret = r.token
      /\ event \in Announced /\ event.of = w /\ event.uid = o.uid /\ event.hook = Recorded(o)
  <2>1. Ping \in Events
    BY DEF Events
  <2>2. o.uid \in Nat /\ Recorded(o) \in Nat
    BY <1>2, RecordedFacts
  <2> QED
    BY <1>2, <1>3, <2>1, <2>2 DEF Hooks, Announced
\* The run with hook h is in order, if h is the hook that was made or none.
<1>7. ASSUME NEW h \in Nat, NEW q, q = [r EXCEPT !.hook = h, !.pc = "update"],
             runs' = (runs \ {r}) \cup {q}, Grows(hooks, hooks'), Grows(events, events'),
             Signs(w, r.uid, h, r.token)',
             \A i \in DOMAIN events' \ DOMAIN events : events'[i] = event
      PROVE  /\ InOrder' /\ HooksLast' /\ runs' \subseteq Runs
             /\ q.token = r.token /\ q.pc = "update"
  <2>1. /\ q \in Runs /\ q.of = w /\ q.uid = r.uid /\ q.rv = r.rv
        /\ q.token = r.token /\ q.hook = h /\ q.pc = "update"
    <3>1. r \in Runs
      BY <1>0 DEF Typed
    <3> QED
      BY <1>1, <1>7, <3>1 DEF Runs
  <2>2. RunOK(q)'
    <3>1. Signs(q.of, q.uid, q.hook, q.token)'
      BY <1>7, <2>1
    <3> QED
      BY <1>0, <1>1, <1>2, <2>1, <3>1 DEF RunOK
  <2>3. \A x \in runs' \ runs : RunOK(x)'
    BY <1>7, <2>2
  <2>4. \A i \in DOMAIN events' \ DOMAIN events :
          /\ events'[i].of \in Watchers
          /\ events'[i].hook # 0 => LET u == watcher[events'[i].of] IN
               /\ Present(u) /\ u.uid = events'[i].uid /\ u.hook = events'[i].hook
    BY <1>1, <1>2, <1>6, <1>7 DEF Recorded
  <2> QED
    BY <1>0, <1>2, <1>7, <2>1, <2>3, <2>4, RegistrationGrows DEF Typed
<1>8. CASE /\ runs' = (runs \ {r}) \cup {[r EXCEPT !.hook = 0, !.pc = "update"]}
           /\ UNCHANGED <<hooks, events, attempts>>
  <2>1. PICK q : q = [r EXCEPT !.hook = 0, !.pc = "update"]
    OBVIOUS
  <2>2. Signs(w, r.uid, 0, r.token)'
    BY DEF Signs
  <2>3. /\ InOrder' /\ HooksLast' /\ runs' \subseteq Runs
        /\ q.token = r.token /\ q.pc = "update"
    BY <1>7, <1>8, <2>1, <2>2, GrowsFacts
  <2>4. TypeInv'
    BY <1>0, <1>2, <1>5, <1>8, <2>3, TypeParts DEF Typed, Saved
  <2>5. References' /\ CommitsEndAttempts' /\ DeploymentsKnown' /\ Sources'
    BY <1>2, <1>8, DeliveriesSent, GrowsFacts
  <2>6. TokensDiffer'
    <3>1. \A h \in DOMAIN hooks' : hooks'[h].secret = r.token
                                  \/ (h \in DOMAIN hooks /\ hooks'[h] = hooks[h])
      BY <1>8
    <3>2. \A x \in runs' : /\ x.token \in 1 .. used'["hooks"]
                           /\ \A y \in runs' : y.token = x.token => y = x
                           /\ x.pc = "create" => \A h \in DOMAIN hooks' : hooks'[h].secret # x.token
      BY <1>0, <1>5, <1>8, <2>1, <2>3, <3>1, TokensStayApart
    <3> QED
      BY <1>0, <1>5, <1>8, <3>2 DEF TokensDiffer, Saved
  <2> QED
    BY <2>3, <2>4, <2>5, <2>6 DEF IInv
<1>9. ASSUME hooks' = Append(hooks, hook),
             \/ events' = Append(events, event) /\ attempts' = Append(attempts, sent)
             \/ UNCHANGED <<events, attempts>>,
             NEW h \in {0, Len(hooks) + 1},
             runs' = (runs \ {r}) \cup {[r EXCEPT !.hook = h, !.pc = "update"]}
      PROVE  IInv'
  <2>1. PICK nh, ne, na : nh = Len(hooks) + 1 /\ ne = Len(events) + 1 /\ na = Len(attempts) + 1
    OBVIOUS
  <2>2. hooks \in Seq(Hooks) /\ events \in Seq(Announced) /\ attempts \in Seq(Attempts)
    BY <1>0 DEF Typed
  <2>3. /\ hooks' \in Seq(Hooks) /\ DOMAIN hooks' = DOMAIN hooks \cup {nh}
        /\ nh \notin DOMAIN hooks /\ nh \in Nat \ {0}
        /\ hooks'[nh] = hook /\ \A i \in DOMAIN hooks : hooks'[i] = hooks[i]
    <3>1. PICK t : t = hooks'
      OBVIOUS
    <3> QED
      BY <1>6, <1>9, <2>1, <2>2, <3>1, AppendFacts
  <2>4. ne \in Nat \ {0}
    BY <2>1, <2>2
  <2>5. /\ sent \in Attempts /\ sent.pc = "sent" /\ sent.hook = nh /\ sent.event = ne
        /\ sent.deployment = 0
    BY <1>3, <2>1, <2>3, <2>4, SentFacts
  <2>6. /\ events' \in Seq(Announced) /\ attempts' \in Seq(Attempts)
        /\ Grows(events, events') /\ Grows(attempts, attempts')
        /\ \A i \in DOMAIN events' \ DOMAIN events : events'[i] = event
        /\ \A a \in DOMAIN attempts' \ DOMAIN attempts :
             attempts'[a] = sent /\ ne \in DOMAIN events' /\ events'[ne] = event
    <3>1. CASE UNCHANGED <<events, attempts>>
      BY <2>2, <3>1, GrowsFacts
    <3>2. CASE events' = Append(events, event) /\ attempts' = Append(attempts, sent)
      <4>1. PICK t : t = events'
        OBVIOUS
      <4>2. /\ events' \in Seq(Announced) /\ DOMAIN events' = DOMAIN events \cup {ne}
            /\ events'[ne] = event /\ \A i \in DOMAIN events : events'[i] = events[i]
        BY <1>6, <2>1, <2>2, <3>2, <4>1, AppendFacts
      <4>3. PICK u : u = attempts'
        OBVIOUS
      <4>4. /\ attempts' \in Seq(Attempts) /\ DOMAIN attempts' = DOMAIN attempts \cup {na}
            /\ attempts'[na] = sent /\ \A i \in DOMAIN attempts : attempts'[i] = attempts[i]
        BY <2>1, <2>2, <2>5, <3>2, <4>3, AppendFacts
      <4> QED
        BY <4>2, <4>4 DEF Grows
    <3> QED
      BY <1>9, <3>1, <3>2
  <2>7. Grows(hooks, hooks') /\ Grows(events, events') /\ Grows(attempts, attempts')
    BY <2>3, <2>6 DEF Grows
  <2>8. PICK q : q = [r EXCEPT !.hook = h, !.pc = "update"]
    OBVIOUS
  <2>9. /\ InOrder' /\ HooksLast' /\ runs' \subseteq Runs
        /\ q.token = r.token /\ q.pc = "update"
    <3>1. h \in Nat /\ Signs(w, r.uid, h, r.token)'
      BY <1>6, <1>9, <2>1, <2>3 DEF Signs
    <3>2. \A i \in DOMAIN events' \ DOMAIN events : events'[i] = event
      BY <2>6
    <3> QED
      BY <1>7, <1>9, <2>7, <2>8, <3>1, <3>2
  <2>10. TypeInv'
    BY <1>0, <1>2, <1>5, <2>3, <2>6, <2>9, TypeParts DEF Typed, Saved
  <2>11. References' /\ CommitsEndAttempts' /\ DeploymentsKnown' /\ Sources'
    <3>1. \A a \in DOMAIN attempts' \ DOMAIN attempts :
            /\ attempts'[a].pc = "sent" /\ attempts'[a].deployment = 0
            /\ attempts'[a].hook \in DOMAIN hooks' /\ attempts'[a].event \in DOMAIN events'
            /\ hooks'[attempts'[a].hook].of = events'[attempts'[a].event].of
      BY <1>6, <2>3, <2>5, <2>6
    <3> QED
      BY <1>2, <2>7, <3>1, DeliveriesSent
  <2>12. TokensDiffer'
    <3>1. \A x \in DOMAIN hooks' : hooks'[x].secret \in 1 .. used["hooks"]
      BY <1>0, <1>6, <2>3 DEF TokensDiffer
    <3>2. \A x, y \in DOMAIN hooks' : hooks'[x].secret = hooks'[y].secret => x = y
      BY <1>0, <1>2, <1>6, <2>3 DEF TokensDiffer
    <3>3. \A i \in DOMAIN hooks' : hooks'[i].secret = r.token
                                  \/ (i \in DOMAIN hooks /\ hooks'[i] = hooks[i])
      BY <1>6, <2>3
    <3>4. \A x \in runs' : /\ x.token \in 1 .. used'["hooks"]
                           /\ \A y \in runs' : y.token = x.token => y = x
                           /\ x.pc = "create" => \A i \in DOMAIN hooks' : hooks'[i].secret # x.token
      BY <1>0, <1>5, <1>9, <2>8, <2>9, <3>3, TokensStayApart
    <3> QED
      BY <1>5, <3>1, <3>2, <3>4 DEF TokensDiffer, Saved
  <2> QED
    BY <2>9, <2>10, <2>11, <2>12 DEF IInv
<1> QED
  BY <1>4, <1>8, <1>9

\* Something happened, and its deliveries go out.
LEMMA HappenInv ==
  ASSUME IInv, NEW w \in Watchers, NEW e \in Happenings, Happen(w, e)
  PROVE  IInv'
<1>0. TypeInv /\ TokensDiffer /\ Typed
  BY TypeParts DEF IInv
<1>1. PICK told : told = {h \in DOMAIN hooks : hooks[h].of = w /\ e.kind \in hooks[h].kinds}
  OBVIOUS
<1>2. PICK order : order = CHOOSE f \in Bijection(1 .. Cardinality(told), told) : TRUE
  OBVIOUS
<1>3. PICK event, ne : /\ event = [what |-> e, of |-> w, uid |-> watcher[w].uid,
                                   hook |-> Recorded(watcher[w])]
                       /\ ne = Len(events) + 1
  OBVIOUS
<1>4. PICK new : new = [i \in DOMAIN order |-> Sent(order[i], ne)]
  OBVIOUS
<1>5. /\ events' = Append(events, event) /\ attempts' = attempts \o new
      /\ UNCHANGED <<watcher, ver, secrets, cached, hooks, runs, deployments, commits, used>>
  BY <1>1, <1>2, <1>3, <1>4, SMTT(20) DEF Happen, watcherVars, hookVars, madeVars
<1>6. hooks \in Seq(Hooks) /\ events \in Seq(Announced) /\ attempts \in Seq(Attempts)
  BY <1>0 DEF Typed
<1>7. order \in [1 .. Cardinality(told) -> told] /\ Cardinality(told) \in Nat
  <2>1. IsFiniteSet(DOMAIN hooks)
    <3>1. DOMAIN hooks = 1 .. Len(hooks) /\ 1 \in Int /\ Len(hooks) \in Int
      BY <1>6
    <3> QED
      BY <3>1, FS_Interval
  <2>2. IsFiniteSet(told)
    BY <1>1, <2>1, FS_Subset
  <2>3. Bijection(1 .. Cardinality(told), told) # {} /\ Cardinality(told) \in Nat
    BY <2>2, FS_CardinalityType DEF ExistsBijection
  <2>4. order \in Bijection(1 .. Cardinality(told), told)
    BY <1>2, <2>3
  <2> QED
    BY <2>3, <2>4 DEF Bijection, Injection
<1>8. /\ event \in Announced /\ event.of = w /\ event.uid = watcher[w].uid
      /\ event.hook = Recorded(watcher[w])
  <2>1. watcher[w].uid \in Nat /\ Recorded(watcher[w]) \in Nat
    BY <1>0, RecordedFacts DEF Typed
  <2>2. e \in Events
    BY HappeningsAssumption
  <2> QED
    BY <1>3, <2>1, <2>2 DEF Announced
<1>9. /\ events' \in Seq(Announced) /\ DOMAIN events' = DOMAIN events \cup {ne}
      /\ ne \notin DOMAIN events /\ ne \in Nat \ {0}
      /\ events'[ne] = event /\ \A i \in DOMAIN events : events'[i] = events[i]
  <2>1. PICK t : t = events'
    OBVIOUS
  <2> QED
    BY <1>3, <1>5, <1>6, <1>8, <2>1, AppendFacts
<1>10. ASSUME NEW j \in DOMAIN new
       PROVE  /\ new[j] \in Attempts /\ new[j].pc = "sent" /\ new[j].deployment = 0
              /\ new[j].hook \in DOMAIN hooks /\ new[j].event = ne
              /\ hooks[new[j].hook].of = w
  <2>1. order[j] \in told /\ new[j] = Sent(order[j], ne)
    BY <1>4, <1>7
  <2>2. order[j] \in DOMAIN hooks /\ hooks[order[j]].of = w /\ order[j] \in Nat \ {0}
    BY <1>0, <1>1, <2>1, HookFacts
  <2> QED
    BY <1>9, <2>1, <2>2, SentFacts
<1>11. new \in Seq(Attempts)
  <2>1. DOMAIN new = 1 .. Cardinality(told)
    BY <1>4, <1>7
  <2>2. new \in [1 .. Cardinality(told) -> Attempts]
    BY <1>4, <1>10, <2>1
  <2> QED
    BY <1>7, <2>2
<1>12. /\ attempts' \in Seq(Attempts) /\ Grows(attempts, attempts')
       /\ \A a \in DOMAIN attempts' \ DOMAIN attempts : \E j \in DOMAIN new : attempts'[a] = new[j]
  <2>1. PICK s : s = attempts
    OBVIOUS
  <2>2. PICK u : u = new
    OBVIOUS
  <2>3. PICK t : t = s \o u
    OBVIOUS
  <2>4. s \in Seq(Attempts) /\ u \in Seq(Attempts)
    BY <1>6, <1>11, <2>1, <2>2
  <2>5. attempts' = t
    BY <1>5, <2>1, <2>2, <2>3
  <2>6. /\ t \in Seq(Attempts) /\ DOMAIN s \subseteq DOMAIN t
        /\ \A i \in DOMAIN s : t[i] = s[i]
    BY <2>3, <2>4
  <2>7. ASSUME NEW i \in DOMAIN t \ DOMAIN s
        PROVE  \E j \in DOMAIN u : t[i] = u[j]
    <3>1. i \in Nat /\ Len(s) < i /\ i <= Len(s) + Len(u)
      BY <2>3, <2>4
    <3>2. i - Len(s) \in DOMAIN u /\ t[i] = u[i - Len(s)]
      BY <2>3, <2>4, <3>1
    <3> QED
      BY <3>2
  <2> QED
    BY <2>1, <2>2, <2>5, <2>6, <2>7 DEF Grows
<1>13. Grows(hooks, hooks') /\ Grows(events, events')
  BY <1>5, <1>9, GrowsFacts DEF Grows
<1>14. References' /\ CommitsEndAttempts' /\ DeploymentsKnown' /\ Sources'
  <2>1. \A a \in DOMAIN attempts' \ DOMAIN attempts :
          /\ attempts'[a].pc = "sent" /\ attempts'[a].deployment = 0
          /\ attempts'[a].hook \in DOMAIN hooks' /\ attempts'[a].event \in DOMAIN events'
          /\ hooks'[attempts'[a].hook].of = events'[attempts'[a].event].of
    BY <1>5, <1>8, <1>9, <1>10, <1>12
  <2> QED
    BY <1>5, <1>12, <1>13, <2>1, DeliveriesSent
<1>15. InOrder' /\ HooksLast'
  <2>1. \A i \in DOMAIN events' \ DOMAIN events :
          /\ events'[i].of \in Watchers
          /\ events'[i].hook # 0 => LET u == watcher[events'[i].of] IN
               /\ Present(u) /\ u.uid = events'[i].uid /\ u.hook = events'[i].hook
    BY <1>8, <1>9 DEF Recorded
  <2> QED
    BY <1>5, <1>13, <2>1, RegistrationGrows
<1>16. TypeInv'
  BY <1>0, <1>5, <1>9, <1>12, TypeParts DEF Typed
<1>17. TokensDiffer'
  BY <1>0, <1>5 DEF TokensDiffer
<1> QED
  BY <1>14, <1>15, <1>16, <1>17 DEF IInv

LEMMA RedeliverInv ==
  ASSUME IInv, NEW a \in DOMAIN attempts, Redeliver(a)
  PROVE  IInv'
<1>0. TypeInv /\ References /\ Typed
  BY TypeParts DEF IInv
<1>1. PICK sent : sent = Sent(attempts[a].hook, attempts[a].event)
  OBVIOUS
<1>2. /\ attempts' = Append(attempts, sent)
      /\ UNCHANGED <<watcher, ver, secrets, cached, hooks, runs, events, deployments, commits, used>>
  BY <1>1 DEF Redeliver, watcherVars, hookVars, madeVars
<1>3. /\ sent \in Attempts /\ sent.pc = "sent" /\ sent.deployment = 0
      /\ sent.hook = attempts[a].hook /\ sent.event = attempts[a].event
  BY <1>0, <1>1, AttemptFacts, SentFacts
<1>4. PICK n : n = Len(attempts) + 1
  OBVIOUS
<1>5. /\ attempts' \in Seq(Attempts) /\ DOMAIN attempts' = DOMAIN attempts \cup {n}
      /\ attempts'[n] = sent /\ \A i \in DOMAIN attempts : attempts'[i] = attempts[i]
  <2>1. attempts \in Seq(Attempts)
    BY <1>0 DEF Typed
  <2>2. PICK t : t = attempts'
    OBVIOUS
  <2> QED
    BY <1>2, <1>3, <1>4, <2>1, <2>2, AppendFacts
<1>6. References' /\ CommitsEndAttempts' /\ DeploymentsKnown' /\ Sources'
  <2>1. \A b \in DOMAIN attempts' \ DOMAIN attempts :
          /\ attempts'[b].pc = "sent" /\ attempts'[b].deployment = 0
          /\ attempts'[b].hook \in DOMAIN hooks' /\ attempts'[b].event \in DOMAIN events'
          /\ hooks'[attempts'[b].hook].of = events'[attempts'[b].event].of
    BY <1>0, <1>2, <1>3, <1>5 DEF References
  <2>2. Grows(attempts, attempts')
    BY <1>5 DEF Grows
  <2> QED
    BY <1>2, <2>1, <2>2, DeliveriesSent, GrowsFacts
<1>7. TypeInv'
  BY <1>0, <1>2, <1>5, TypeParts DEF Typed
<1>8. Saved
  BY <1>0, <1>2, SavedFacts
<1> QED
  BY <1>2, <1>6, <1>7, <1>8, RegistrationStays DEF IInv

-----------------------------------------------------------------------------
(* The invariant *)

LEMMA InitIInv == ASSUME Init PROVE IInv
<1>1. /\ watcher \in [Watchers -> {NewObject(1, s) : s \in Specs}]
      /\ ver = [w \in Watchers |-> 1] /\ secrets = Watchers /\ cached = {}
      /\ hooks = <<>> /\ runs = {} /\ events = <<>> /\ attempts = <<>>
      /\ deployments = <<>> /\ commits = <<>>
      /\ used = [b \in BoundNames |-> 0]
  BY DEF Init
<1>2. ASSUME NEW w \in Watchers
      PROVE  /\ watcher[w] \in Objects /\ watcher[w].uid = 1 /\ watcher[w].rv = 1
             /\ watcher[w].hook = 0 /\ ver[w] = 1
  <2>1. PICK s \in Specs : watcher[w] = NewObject(1, s)
    BY <1>1
  <2>2. watcher[w] \in Living
    BY <2>1 DEF NewObject, Living
  <2> QED
    BY <1>1, <2>1, <2>2, ObjectFacts DEF NewObject
<1>3. TypeInv
  <2>1. watcher \in [Watchers -> Objects] /\ ver \in [Watchers -> Nat]
    BY <1>1, <1>2
  <2>2. /\ hooks \in Seq(Hooks) /\ events \in Seq(Announced) /\ attempts \in Seq(Attempts)
        /\ deployments \in Seq(Nat \ {0}) /\ commits \in Seq(Commits)
    BY <1>1
  <2>3. used \in [BoundNames -> Nat]
    BY <1>1
  <2> QED
    BY <1>1, <2>1, <2>2, <2>3, TypeParts DEF Typed
<1>4. References /\ CommitsEndAttempts /\ DeploymentsKnown /\ Sources
  BY <1>1 DEF References, CommitsEndAttempts, DeploymentsKnown, Sources
<1>5. TokensDiffer /\ HooksLast
  BY <1>1 DEF TokensDiffer, HooksLast
<1>6. InOrder
  BY <1>1, <1>2 DEF InOrder, Signs
<1> QED
  BY <1>3, <1>4, <1>5, <1>6 DEF IInv

LEMMA UnchangedInv == ASSUME IInv, UNCHANGED vars PROVE IInv'
<1>1. UNCHANGED <<watcher, ver, secrets, cached, hooks, runs, events, attempts,
                  deployments, commits, used>>
  BY DEF vars, watcherVars, hookVars, madeVars
<1>2. TypeInv /\ Typed /\ Saved
  BY <1>1, TypeParts, SavedFacts DEF IInv
<1>3. TypeInv'
  BY <1>1, <1>2, TypeParts DEF Typed
<1>4. References' /\ CommitsEndAttempts' /\ DeploymentsKnown' /\ Sources'
  BY <1>1, DeliveriesSent, GrowsFacts
<1> QED
  BY <1>1, <1>2, <1>3, <1>4, RegistrationStays DEF IInv

LEMMA IInvPreserved == ASSUME IInv, [Next]_vars PROVE IInv'
<1>1. CASE EditWatcher
  BY <1>1, EditWatcherInv
<1>2. ASSUME NEW p \in Procs, StartCaches(p) \/ Restart(p) PROVE IInv'
  BY <1>2, StartCachesInv, RestartInv
<1>3. ASSUME NEW w \in Watchers,
             ChangeSecret(w) \/ BeginRun(w) \/ \E e \in Happenings : Happen(w, e)
      PROVE  IInv'
  BY <1>3, ChangeSecretInv, BeginRunInv, HappenInv
<1>4. ASSUME NEW r \in runs, CreateHook(r) \/ Record(r) PROVE IInv'
  BY <1>4, CreateHookInv, RecordInv
<1>5. ASSUME NEW a \in DOMAIN attempts,
             Redeliver(a) \/ HandleEvent(a) \/ CreateCommit(a) \/ AnswerOK(a)
      PROVE  IInv'
  BY <1>5, RedeliverInv, HandleEventInv, CreateCommitInv, AnswerOKInv
<1>6. ASSUME NEW a \in DOMAIN attempts, NEW p \in Procs, Receive(a, p) PROVE IInv'
  BY <1>6, ReceiveInv
<1>7. CASE UNCHANGED vars
  BY <1>7, UnchangedInv
<1> QED
  BY <1>1, <1>2, <1>3, <1>4, <1>5, <1>6, <1>7 DEF Next, Quiet

-----------------------------------------------------------------------------
(* Theorems *)

\* The invariant: what attempts, deployments and GitCommits say of each other, what
\* registration says of hooks and tokens, and which hook a handler was called through.
THEOREM InvCorrect == Spec => []IInv
<1>1. Init => IInv
  BY InitIInv
<1>2. IInv /\ [Next]_vars => IInv'
  BY IInvPreserved
<1> QED
  BY <1>1, <1>2, PTL DEF Spec

\* Every variable has its type.
THEOREM TypeCorrect == Spec => []TypeInv
<1>1. IInv => TypeInv
  BY DEF IInv
<1> QED
  BY <1>1, InvCorrect, PTL

\* However deliveries are repeated, overtake each other, fail or are lost with their
\* replica, also between the GitCommit and the answer: a delivery makes at most one
\* GitCommit, and has it if GitHub is told "OK".
THEOREM CommitsPerDelivery == Spec => []CommitPerDelivery
<1>1. IInv => CommitPerDelivery
  <2> SUFFICES ASSUME IInv, NEW a \in DOMAIN attempts
               PROVE  /\ Cardinality(Made(a)) <= 1
                      /\ attempts[a].pc \in {"answer", "ok"} => Made(a) # {}
                      /\ attempts[a].pc \in {"sent", "event", "create", "unprocessable"} =>
                           Made(a) = {}
    BY DEF CommitPerDelivery
  <2>1. CommitsEndAttempts
    BY DEF IInv
  <2>2. Cardinality(Made(a)) <= 1
    <3>1. CASE Made(a) = {}
      BY <3>1, FS_EmptySet
    <3>2. ASSUME NEW c \in Made(a) PROVE Cardinality(Made(a)) <= 1
      <4>1. Made(a) = {c}
        BY <2>1, <3>2 DEF CommitsEndAttempts, Made
      <4>2. Cardinality({c}) = 1
        BY FS_Singleton
      <4> QED
        BY <4>1, <4>2
    <3> QED
      BY <3>1, <3>2
  <2> QED
    BY <2>1, <2>2 DEF CommitsEndAttempts, Made, Ended
<1> QED
  BY <1>1, InvCorrect, PTL

\* A deployment has its GitCommit, or its delivery is in work, answered with an
\* error or lost; deployments and GitCommits of deliveries are never mixed up.
THEOREM DeploymentsCounted == Spec => []DeploymentsAccounted
<1>1. IInv => DeploymentsAccounted
  BY DEF IInv, DeploymentsKnown, DeploymentsAccounted
<1> QED
  BY <1>1, InvCorrect, PTL

\* Once a hook is recorded, the other hooks that registration left at GitHub do not
\* add to the GitCommits of an event, for any number of hooks, deliveries and edits.
THEOREM OtherHooksDoNotCount == Spec => []RecordedHookCounts
<1>1. IInv => RecordedHookCounts
  <2> SUFFICES ASSUME IInv, NEW i \in DOMAIN events, events[i].hook # 0
               PROVE  Cardinality({c \in DOMAIN commits :
                                     /\ attempts[commits[c].attempt].event = i
                                     /\ commits[c].owner = events[i].uid})
                        <= Cardinality({a \in DOMAIN attempts :
                                          /\ attempts[a].event = i
                                          /\ attempts[a].hook = events[i].hook})
    BY DEF RecordedHookCounts
  <2>1. PICK C, A :
          /\ C = {c \in DOMAIN commits : /\ attempts[commits[c].attempt].event = i
                                         /\ commits[c].owner = events[i].uid}
          /\ A = {a \in DOMAIN attempts : /\ attempts[a].event = i
                                          /\ attempts[a].hook = events[i].hook}
    OBVIOUS
  <2>2. References /\ CommitsEndAttempts /\ Sources /\ Typed
    BY TypeParts DEF IInv
  <2>3. IsFiniteSet(A)
    <3>1. DOMAIN attempts = 1 .. Len(attempts) /\ 1 \in Int /\ Len(attempts) \in Int
      BY <2>2 DEF Typed
    <3>2. IsFiniteSet(DOMAIN attempts)
      BY <3>1, FS_Interval
    <3> QED
      BY <2>1, <3>2, FS_Subset
  <2>4. PICK f : f = [c \in C |-> commits[c].attempt]
    OBVIOUS
  <2>5. f \in [C -> A]
    BY <2>1, <2>2, <2>4 DEF References, Sources, Through
  <2>6. \A c1, c2 \in C : f[c1] = f[c2] => c1 = c2
    BY <2>1, <2>2, <2>4 DEF CommitsEndAttempts
  <2>7. f \in Injection(C, A)
    BY <2>5, <2>6 DEF Injection, IsInjective
  <2> QED
    BY <2>1, <2>3, <2>7, FS_Injection
<1> QED
  BY <1>1, InvCorrect, PTL
-----------------------------------------------------------------------------
(* Registration *)

\* The tokens of Registration are numbers up to MaxHooks.
Bounded == used["hooks"] \in Nat /\ used["hooks"] <= MaxHooks

LEMMA BoundedKept == ASSUME TypeInv, Bounded, [Next]_vars PROVE Bounded'
<1>1. ASSUME NEW S, Spend(S) PROVE Bounded'
  <2>1. "hooks" \in S => used["hooks"] < MaxHooks
    BY <1>1 DEF Spend, Bounds
  <2>2. MaxHooks \in Nat
    BY BoundsAssumption
  <2> QED
    BY <1>1, <2>1, <2>2, SpendFacts DEF Bounded
<1>2. UNCHANGED used => Bounded'
  BY DEF Bounded
<1>3. ASSUME NEW b, Use(b) PROVE Bounded'
  BY <1>1, <1>3 DEF Use
<1>4. CASE EditWatcher
  BY <1>3, <1>4 DEF EditWatcher
<1>5. ASSUME NEW p \in Procs, StartCaches(p) \/ Restart(p) PROVE Bounded'
  BY <1>2, <1>3, <1>5 DEF StartCaches, Restart
<1>6. ASSUME NEW w \in Watchers,
             ChangeSecret(w) \/ BeginRun(w) \/ \E e \in Happenings : Happen(w, e)
      PROVE  Bounded'
  BY <1>2, <1>3, <1>6 DEF ChangeSecret, BeginRun, Happen
<1>7. ASSUME NEW r \in runs, CreateHook(r) \/ Record(r) PROVE Bounded'
  BY <1>2, <1>3, <1>7 DEF CreateHook, Record
<1>8. ASSUME NEW a \in DOMAIN attempts,
             \/ Redeliver(a) \/ HandleEvent(a) \/ CreateCommit(a) \/ AnswerOK(a)
             \/ \E p \in Procs : Receive(a, p)
      PROVE  Bounded'
  BY <1>2, <1>3, <1>8 DEF Redeliver, HandleEvent, CreateCommit, AnswerOK, Receive
<1>9. CASE UNCHANGED vars
  BY <1>2, <1>9 DEF vars
<1> QED
  BY <1>4, <1>5, <1>6, <1>7, <1>8, <1>9 DEF Next, Quiet

LEMMA StoreMaps ==
  ASSUME TypeInv, NEW w \in Watchers, NEW o, Store(w, o), UNCHANGED hooks
  PROVE  Reg!Store(w, RegistrationOf(o))
BY DEF Store, Reg!Store, TypeInv

LEMMA NewMaps ==
  /\ RegistrationOf(Absent) = Reg!NoWatcher
  /\ \A uid \in Nat \ {0} : \A s : RegistrationOf(NewObject(uid, s)) = Reg!New(uid)
BY DEF RegistrationOf, Absent, Present, NewObject, Reg!NoWatcher, Reg!New

LEMMA EditWatcherMaps == ASSUME TypeInv, EditWatcher PROVE Reg!Next
<1>1. PICK w \in Watchers :
        \/ /\ ~Present(watcher[w])
           /\ \E s \in Specs : Store(w, NewObject(ver[w] + 1, s))
        \/ /\ Present(watcher[w])
           /\ \E s \in Specs : Store(w, [watcher[w] EXCEPT !.rv = ver[w] + 1, !.spec = s])
        \/ Present(watcher[w]) /\ Store(w, Absent)
  BY DEF EditWatcher
<1>2. PICK regOf : regOf = [v \in Watchers |-> RegistrationOf(watcher[v])]
  OBVIOUS
<1>3. UNCHANGED hooks /\ ver[w] \in Nat /\ watcher[w] \in Objects
  BY DEF EditWatcher, hookVars, TypeInv
<1>4. regOf[w].uid = watcher[w].uid
  BY <1>2, <1>3, ObjectFacts DEF RegistrationOf, Present
<1>5. CASE ~Present(watcher[w]) /\ \E s \in Specs : Store(w, NewObject(ver[w] + 1, s))
  <2>1. Reg!Store(w, Reg!New(ver[w] + 1))
    BY <1>3, <1>5, StoreMaps, NewMaps
  <2> QED
    BY <1>2, <1>4, <1>5, <2>1 DEF Reg!Create, Reg!Next, Present
<1>6. ASSUME Present(watcher[w]), NEW s \in Specs,
             Store(w, [watcher[w] EXCEPT !.rv = ver[w] + 1, !.spec = s])
      PROVE  Reg!Next
  <2>1. PICK x \in Living, v \in Nat : x = watcher[w] /\ v = ver[w] + 1
    BY <1>3, <1>6, ObjectFacts
  <2>2. PICK o : o = [x EXCEPT !.rv = v, !.spec = s]
    OBVIOUS
  <2>3. RegistrationOf(o) = RegistrationOf(x)
    BY <2>2 DEF RegistrationOf, Present, Living
  <2>4. Reg!Store(w, regOf[w])
    BY <1>2, <1>3, <1>6, <2>1, <2>2, <2>3, StoreMaps
  <2> QED
    BY <1>2, <1>4, <1>6, <2>4 DEF Reg!Change, Reg!Next, Present
<1>7. CASE Present(watcher[w]) /\ Store(w, Absent)
  <2>1. Reg!Store(w, Reg!NoWatcher)
    BY <1>3, <1>7, StoreMaps, NewMaps
  <2> QED
    BY <1>2, <1>4, <1>7, <2>1 DEF Reg!Delete, Reg!Next, Present
<1> QED
  BY <1>1, <1>5, <1>6, <1>7

LEMMA AppendMaps ==
  ASSUME NEW s \in Seq(Hooks), NEW e \in Hooks, NEW t, t = Append(s, e)
  PROVE  [h \in DOMAIN t |-> HookOf(t[h])] = Append([h \in DOMAIN s |-> HookOf(s[h])], HookOf(e))
<1>1. PICK f : f = [h \in DOMAIN s |-> HookOf(s[h])]
  OBVIOUS
<1>2. PICK n \in Nat : n = Len(s) /\ DOMAIN s = 1 .. n
  OBVIOUS
<1>3. \A x \in Hooks : HookOf(x) \in [of : Watchers, uid : Nat, secret : Nat]
  BY DEF Hooks, HookOf
<1>4. f \in Seq([of : Watchers, uid : Nat, secret : Nat]) /\ Len(f) = n
  BY <1>1, <1>2, <1>3
<1>5. PICK g : g = Append(f, HookOf(e))
  OBVIOUS
<1>6. /\ g \in Seq([of : Watchers, uid : Nat, secret : Nat]) /\ DOMAIN g = 1 .. (n + 1)
      /\ g[n + 1] = HookOf(e) /\ \A i \in 1 .. n : g[i] = f[i]
  BY <1>3, <1>4, <1>5
<1>7. /\ DOMAIN t = 1 .. (n + 1) /\ t[n + 1] = e /\ \A i \in 1 .. n : t[i] = s[i]
  BY <1>2
<1>8. \A i \in 1 .. (n + 1) : g[i] = HookOf(t[i])
  BY <1>1, <1>2, <1>6, <1>7
<1> QED
  BY <1>1, <1>5, <1>6, <1>7, <1>8

LEMMA CreateHookMaps ==
  ASSUME IInv, Bounded, NEW r \in runs, CreateHook(r)
  PROVE  Reg!MakeHook(r.of) \/ UNCHANGED Reg!vars
<1>0. TypeInv /\ Typed /\ TokensDiffer /\ RunOK(r)
  BY TypeParts DEF IInv, InOrder
<1>1. UNCHANGED <<watcher, ver>>
  BY DEF CreateHook, watcherVars
<1>2. CASE UNCHANGED hooks
  BY <1>1, <1>2 DEF Reg!vars
<1>3. CASE ~(UNCHANGED hooks)
  <2>1. PICK e : e = [of |-> r.of, uid |-> r.uid, secret |-> r.token, kinds |-> r.kinds]
    OBVIOUS
  <2>2. hooks' = Append(hooks, e) /\ r.pc = "create"
    BY <1>3, <2>1 DEF CreateHook
  <2>3. /\ r.of \in Watchers /\ r.uid \in Nat \ {0} /\ r.token \in Nat \ {0}
        /\ r.kinds \subseteq Subscribable /\ hooks \in Seq(Hooks) /\ ver \in [Watchers -> Nat]
    BY <1>0 DEF Typed, Runs
  <2>4. e \in Hooks /\ HookOf(e) = [of |-> r.of, uid |-> r.uid, secret |-> r.token]
    BY <2>1, <2>3 DEF Hooks, HookOf
  <2> DEFINE f == [h \in DOMAIN hooks |-> HookOf(hooks[h])]
  <2>5. PICK t : t = hooks'
    OBVIOUS
  <2>6. [h \in DOMAIN t |-> HookOf(t[h])] = Append(f, HookOf(e))
    BY <2>2, <2>3, <2>4, <2>5, AppendMaps
  <2>7. r.uid \in 1 .. ver[r.of]
    BY <1>0, <2>3 DEF RunOK
  <2>8. r.token \in 1 .. MaxHooks
    <3>1. r.token \in 1 .. used["hooks"] /\ MaxHooks \in Nat
      BY <1>0, BoundsAssumption DEF TokensDiffer
    <3> QED
      BY <3>1 DEF Bounded
  <2>9. \A h \in DOMAIN f : f[h].secret # r.token
    BY <1>0, <2>2 DEF TokensDiffer, HookOf
  <2>10. r.token \in (1 .. MaxHooks) \ {f[h].secret : h \in DOMAIN f}
    BY <2>8, <2>9
  <2>11. Append(f, [of |-> r.of, uid |-> r.uid, secret |-> r.token])
           = [h \in DOMAIN hooks' |-> HookOf(hooks'[h])]
    BY <2>4, <2>5, <2>6
  <2>12. \E uid \in 1 .. ver[r.of], u \in (1 .. MaxHooks) \ {f[h].secret : h \in DOMAIN f} :
           [h \in DOMAIN hooks' |-> HookOf(hooks'[h])]
             = Append(f, [of |-> r.of, uid |-> uid, secret |-> u])
    BY <2>7, <2>10, <2>11
  <2>13. UNCHANGED [v \in Watchers |-> RegistrationOf(watcher[v])]
    BY <1>1
  <2> QED
    BY <1>1, <2>12, <2>13 DEF Reg!MakeHook
<1> QED
  BY <1>2, <1>3

LEMMA RecordMaps ==
  ASSUME IInv, Bounded, NEW r \in runs, Record(r)
  PROVE  Reg!Record(r.of) \/ UNCHANGED Reg!vars
<1>0. TypeInv /\ Typed /\ TokensDiffer /\ RunOK(r)
  BY TypeParts DEF IInv, InOrder
<1>1. UNCHANGED hooks
  BY DEF Record
<1>2. CASE UNCHANGED <<watcher, ver>>
  BY <1>1, <1>2 DEF Reg!vars
<1>3. CASE ~(UNCHANGED <<watcher, ver>>)
  <2>1. PICK w : w = r.of
    OBVIOUS
  <2>2. /\ Present(watcher[w]) /\ watcher[w].rv = r.rv
        /\ Store(w, [watcher[w] EXCEPT !.rv = ver[w] + 1, !.token = r.token, !.hook = r.hook])
    BY <1>3, <2>1 DEF Record
  <2>3. /\ w \in Watchers /\ r.token \in Nat /\ r.hook \in Nat
        /\ watcher[w] \in Objects /\ ver[w] \in Nat
    BY <1>0, <2>1 DEF Typed, Runs
  <2>4. PICK x \in Living, v \in Nat : x = watcher[w] /\ v = ver[w] + 1
    BY <2>2, <2>3, ObjectFacts
  <2>5. PICK o : o = [x EXCEPT !.rv = v, !.token = r.token, !.hook = r.hook]
    OBVIOUS
  <2>6. RegistrationOf(o) = [uid |-> x.uid, token |-> r.token, hook |-> r.hook] /\ x.uid # 0
    BY <2>3, <2>5 DEF RegistrationOf, Present, Living
  <2>7. Reg!Store(w, [uid |-> x.uid, token |-> r.token, hook |-> r.hook])
    BY <1>0, <1>1, <2>2, <2>3, <2>4, <2>5, <2>6, StoreMaps
  <2> DEFINE regOf == [u \in Watchers |-> RegistrationOf(watcher[u])]
             f == [h \in DOMAIN hooks |-> HookOf(hooks[h])]
  <2>8. regOf[w] = RegistrationOf(watcher[w])
    BY <2>3
  <2>9. x.hook = 0 /\ x.uid = r.uid /\ Signs(w, r.uid, r.hook, r.token)
    BY <1>0, <2>1, <2>2, <2>4 DEF RunOK
  <2>10. regOf[w].uid = x.uid /\ regOf[w].hook = 0
    BY <2>4, <2>6, <2>8, <2>9 DEF RegistrationOf, Present
  <2>11. r.token \in 1 .. MaxHooks
    <3>1. r.token \in 1 .. used["hooks"] /\ MaxHooks \in Nat
      BY <1>0, BoundsAssumption DEF TokensDiffer
    <3> QED
      BY <3>1 DEF Bounded
  <2>12. r.hook # 0 => /\ r.hook \in DOMAIN f
                      /\ f[r.hook] = [of |-> w, uid |-> x.uid, secret |-> r.token]
    BY <2>9 DEF Signs, HookOf
  <2>13. r.hook \in {0} \cup {i \in DOMAIN f :
                              f[i] = [of |-> w, uid |-> regOf[w].uid, secret |-> r.token]}
    BY <2>10, <2>12
  <2>14. \E t \in 1 .. MaxHooks :
           \E h \in {0} \cup {i \in DOMAIN f :
                                f[i] = [of |-> w, uid |-> regOf[w].uid, secret |-> t]} :
             Reg!Store(w, [uid |-> regOf[w].uid, token |-> t, hook |-> h])
    BY <2>7, <2>10, <2>11, <2>13
  <2>15. regOf[w].uid # 0 /\ regOf[w].hook = 0
    BY <2>6, <2>10
  <2>16. Reg!Record(w)
    BY <2>14, <2>15 DEF Reg!Record
  <2> QED
    BY <2>1, <2>16
<1> QED
  BY <1>2, <1>3

LEMMA NextMaps == ASSUME IInv, Bounded, [Next]_vars PROVE Reg!Next \/ UNCHANGED Reg!vars
<1>0. TypeInv /\ \A r \in runs : r.of \in Watchers
  BY TypeParts DEF IInv, Typed, Runs
<1>1. ASSUME UNCHANGED <<watcher, ver, hooks>> PROVE UNCHANGED Reg!vars
  BY <1>1 DEF Reg!vars
<1>2. CASE EditWatcher
  BY <1>0, <1>2, EditWatcherMaps
<1>3. ASSUME NEW p \in Procs, StartCaches(p) \/ Restart(p)
      PROVE  UNCHANGED <<watcher, ver, hooks>>
  BY <1>3 DEF StartCaches, Restart, hookVars
<1>4. ASSUME NEW w \in Watchers,
             ChangeSecret(w) \/ BeginRun(w) \/ \E e \in Happenings : Happen(w, e)
      PROVE  UNCHANGED <<watcher, ver, hooks>>
  BY <1>4 DEF ChangeSecret, BeginRun, Happen, watcherVars, hookVars
<1>5. ASSUME NEW r \in runs, CreateHook(r) \/ Record(r)
      PROVE  Reg!Next \/ UNCHANGED Reg!vars
  BY <1>0, <1>5, CreateHookMaps, RecordMaps DEF Reg!Next
<1>6. ASSUME NEW a \in DOMAIN attempts,
             \/ Redeliver(a) \/ HandleEvent(a) \/ CreateCommit(a) \/ AnswerOK(a)
             \/ \E p \in Procs : Receive(a, p)
      PROVE  UNCHANGED <<watcher, ver, hooks>>
  BY <1>6 DEF Redeliver, HandleEvent, CreateCommit, AnswerOK, Receive, watcherVars, hookVars
<1>7. ASSUME UNCHANGED vars PROVE UNCHANGED <<watcher, ver, hooks>>
  BY <1>7 DEF vars, watcherVars, hookVars
<1> QED
  BY <1>1, <1>2, <1>3, <1>4, <1>5, <1>6, <1>7 DEF Next, Quiet

\* What deliveries are checked against changes as Registration says, so what is proved
\* of handlers here rests on nothing that the controller does not do.
THEOREM Refinement == Spec => ImplementsRegistration
<1>1. Init => Reg!Init /\ Bounded
  <2> SUFFICES ASSUME Init PROVE Reg!Init /\ Bounded
    OBVIOUS
  <2>1. ASSUME NEW w \in Watchers PROVE RegistrationOf(watcher[w]) = Reg!New(1)
    <3>1. PICK s \in Specs : watcher[w] = NewObject(1, s)
      BY <2>1 DEF Init
    <3> QED
      BY <3>1, NewMaps
  <2>2. [h \in DOMAIN hooks |-> HookOf(hooks[h])] = <<>>
    BY DEF Init
  <2>3. Bounded
    BY BoundsAssumption DEF Init, Bounded, BoundNames
  <2> QED
    BY <2>1, <2>2, <2>3 DEF Init, Reg!Init
<1>2. TypeInv /\ Bounded /\ [Next]_vars => Bounded'
  BY BoundedKept
<1>3. IInv /\ Bounded /\ [Next]_vars => [Reg!Next]_(Reg!vars)
  BY NextMaps
<1> QED
  BY <1>1, <1>2, <1>3, InvCorrect, TypeCorrect, PTL DEF Spec, ImplementsRegistration, Reg!Spec
\* With it come the promises of Registration, which RegistrationProofs proves.
Promises == INSTANCE RegistrationProofs WITH
              watcher <- [w \in Watchers |-> RegistrationOf(watcher[w])],
              hooks   <- [h \in DOMAIN hooks |-> HookOf(hooks[h])],
              Tokens  <- 1 .. MaxHooks

\* Of all hooks that were ever made, the recorded one alone signs with the token that
\* deliveries are checked with.
THEOREM RecordedHooksSign == Spec => []OnlyRecordedHookSigns
<1>1. Reg!Init => Promises!Init
  BY DEF Reg!Init, Promises!Init, Reg!NoWatcher, Promises!NoWatcher, Reg!New, Promises!New
<1>2. [Reg!Next]_(Reg!vars) => [Promises!Next]_(Promises!vars)
  BY DEF Reg!vars, Promises!vars, Reg!Next, Promises!Next, Reg!Create, Promises!Create,
         Reg!Change, Promises!Change, Reg!Delete, Promises!Delete, Reg!MakeHook,
         Promises!MakeHook, Reg!Record, Promises!Record, Reg!Store, Promises!Store,
         Reg!NoWatcher, Promises!NoWatcher, Reg!New, Promises!New
<1>3. Promises!Spec => []Promises!RecordedHookSigns
  BY Promises!HooksSign
<1>4. Promises!RecordedHookSigns => OnlyRecordedHookSigns
  BY DEF Promises!RecordedHookSigns, Reg!RecordedHookSigns, OnlyRecordedHookSigns
<1> QED
  BY <1>1, <1>2, <1>3, <1>4, Refinement, PTL
  DEF ImplementsRegistration, Reg!Spec, Promises!Spec
=============================================================================
