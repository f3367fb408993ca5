--------------------------- MODULE DeploymentStatus ---------------------------
(***************************************************************************)
(* updateGithubStatus: the leader posts the state of a GitCommit to the    *)
(* deployment at GitHub, on every event and without a record of what was   *)
(* posted before.  The execution controller of ObjectHandlers writes the   *)
(* state.  Leaders are replaced, and go back to an older object when their *)
(* watch ends; a request whose caller has given up, or has ended, may      *)
(* arrive after later ones.                                                *)
(***************************************************************************)
EXTENDS ObjectHandlers, SequencesExt

CONSTANT MaxTakeovers   \* bound: changes of the leader

ASSUME TakeoversAssumption == MaxTakeovers \in Nat

VARIABLES
  seen,        \* the object in the leader's informer cache
  queued,      \* is its key in the leader's work queue?
  ready,       \* are the watcher and its secret in the leader's caches?
  post,        \* the state the leader is posting
  stragglers,  \* the requests under way that nobody waits for any more
  shown,       \* the state GitHub has
  late,        \* did such a request bring it?
  takeovers

leaderVars == <<seen, queued, ready, post, stragglers, shown, late, takeovers>>
vars == <<handlerVars, leaderVars>>

NoPost == 0

StatusTypeInv ==
  /\ TypeInv
  /\ seen \in Objects
  /\ {queued, ready, late} \subseteq BOOLEAN
  /\ {post, shown, takeovers} \subseteq Nat
  /\ stragglers \in Seq(Nat)

\* The leader's controller is one of GitCommits; what happens to a GitWatcher passes it by.
OfGitCommit == setup.field # "executionLabels"

Init ==
  /\ HandlerInit
  /\ seen = api /\ queued = OfGitCommit
  /\ ready \in BOOLEAN
  /\ post = NoPost /\ stragglers = <<>> /\ shown = NoPost
  /\ late = FALSE /\ takeovers = 0
-----------------------------------------------------------------------------
StatusEvent ==
  /\ OfGitCommit /\ seen.rv # api.rv
  /\ seen' = api /\ queued' = TRUE
  /\ UNCHANGED <<handlerVars, ready, post, stragglers, shown, late, takeovers>>

\* The leader's watch ends: its list may be as old as what the other controller has.
StatusRelist ==
  /\ OfGitCommit /\ seen.rv # cache.rv /\ relists < MaxRelists
  /\ relists' = relists + 1
  /\ seen' = cache /\ queued' = TRUE
  /\ UNCHANGED <<setup, api, workVars, build, faults, edits,
                 ready, post, stragglers, shown, late, takeovers>>

\* DeploymentState, or else BuildStatus; 0 is the empty string.
StateToPost(o) == IF o.githubStatus # 0 THEN o.githubStatus ELSE o.buildStatus

\* An object without a deployment is left.
HasDeployment(o) == Exists(o) /\ o.deployment

\* Faulty variant: a run that finds no watcher or no secret ends without an error.
UpdateGithubStatusGivingUp ==
  /\ queued /\ post = NoPost
  /\ queued' = FALSE
  /\ post' = IF HasDeployment(seen) /\ ready THEN StateToPost(seen) ELSE NoPost
  /\ UNCHANGED <<handlerVars, seen, ready, stragglers, shown, late, takeovers>>

\* The watcher, its secret and the repository come from the caches; without them
\* the run fails.  An object without a state is left, too.
UpdateGithubStatus ==
  /\ queued /\ post = NoPost
  /\ queued' = (HasDeployment(seen) /\ ~ready)
  /\ post' = IF HasDeployment(seen) /\ ready THEN StateToPost(seen) ELSE NoPost
  /\ UNCHANGED <<handlerVars, seen, ready, stragglers, shown, late, takeovers>>

Arrives == shown' = post /\ late' = FALSE /\ UNCHANGED stragglers

\* GitHub never hears of a request that failed, or did, or will.
Fails == \/ UNCHANGED <<shown, late, stragglers>>
         \/ Arrives
         \/ stragglers' = Append(stragglers, post) /\ UNCHANGED <<shown, late>>

PostEnds(retry) == post' = NoPost /\ queued' = (queued \/ retry)

\* Faulty variant: an error, or an answer other than 201, is taken for success.
CreateDeploymentStatusUnchecked ==
  /\ post # NoPost
  /\ \/ Arrives /\ PostEnds(FALSE) /\ UNCHANGED faults
     \/ /\ faults < MaxFaults /\ faults' = faults + 1
        /\ Fails /\ PostEnds(FALSE)
  /\ UNCHANGED <<setup, api, relists, workVars, build, edits, seen, ready, takeovers>>

\* An error, or an answer other than 201, brings the key back.
CreateDeploymentStatus ==
  /\ post # NoPost
  /\ \/ Arrives /\ PostEnds(FALSE) /\ UNCHANGED faults
     \/ /\ faults < MaxFaults /\ faults' = faults + 1
        /\ Fails /\ PostEnds(TRUE)
  /\ UNCHANGED <<setup, api, relists, workVars, build, edits, seen, ready, takeovers>>

\* Another replica leads and lists the objects.
Takeover ==
  /\ OfGitCommit /\ takeovers < MaxTakeovers /\ takeovers' = takeovers + 1
  /\ seen' \in {seen, cache, api} /\ queued' = TRUE
  /\ IF post = NoPost THEN UNCHANGED <<shown, late, stragglers>> ELSE Fails
  /\ post' = NoPost
  /\ UNCHANGED <<handlerVars, ready>>

StragglerArrives ==
  /\ \E i \in DOMAIN stragglers :
       /\ shown' = stragglers[i]
       /\ stragglers' = RemoveAt(stragglers, i)
  /\ late' = TRUE
  /\ UNCHANGED <<handlerVars, seen, queued, ready, post, takeovers>>

\* A user adds the watcher's secret, or removes it.
ChangeSecret ==
  /\ edits < MaxEdits /\ edits' = edits + 1
  /\ ready' = ~ready
  /\ UNCHANGED <<setup, api, relists, workVars, build, faults,
                 seen, queued, post, stragglers, shown, late, takeovers>>

Next == \/ (HandlerNext \/ Relist(seen)) /\ UNCHANGED leaderVars
        \/ StatusEvent \/ StatusRelist \/ UpdateGithubStatus \/ CreateDeploymentStatus
        \/ Takeover \/ StragglerArrives \/ ChangeSecret

\* Workers run, calls return, watches deliver.  Builds, users, the change of the
\* leader and the requests nobody waits for owe nothing.
Fairness == /\ WF_vars(Call /\ UNCHANGED leaderVars) /\ WF_vars(Store /\ UNCHANGED leaderVars)
            /\ WF_vars(Event /\ UNCHANGED leaderVars)
            /\ WF_vars(StatusEvent) /\ WF_vars(UpdateGithubStatus)
            /\ WF_vars(CreateDeploymentStatus)

Spec == Init /\ [][Next]_vars /\ Fairness
-----------------------------------------------------------------------------
(* Properties *)

\* However builds, conflicts, failing calls, older lists and new leaders interleave,
\* GitHub ends up with the state the GitCommit has - where the watcher's secret is
\* there, and unless a request that was given up has arrived after those that
\* followed it, which nothing would repair.  (Users change the secret a bounded
\* number of times, so it is there from some time on or it is not.)
Current == HasDeployment(api) /\ api[setup.field] # 0 => shown = api[setup.field]
GitHubFollows == <>[](ready /\ ~late => Current)

\* The execution controller's last progress reaches the object, under either
\* wrapper; the status handler needs the subresource.
Reported == Exists(api) => api[setup.field] = build
HandlersSettle == <>[](setup.style = "update" \/ setup.subresource => Reported)

\* A leader owes a run as long as GitHub has not got the state of the object it has
\* seen: whatever changed under way, failed, went back with an older list, or was
\* left by another leader, no state is taken for posted that is not.  Only a request
\* that comes late makes GitHub differ from it unnoticed.
NoStateUnposted ==
  ~queued /\ HasDeployment(seen) /\ StateToPost(seen) # 0 =>
    IF post # NoPost THEN post = StateToPost(seen) ELSE late \/ shown = StateToPost(seen)
=============================================================================
