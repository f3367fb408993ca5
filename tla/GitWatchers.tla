---------------------------- MODULE GitWatchers ----------------------------
(***************************************************************************)
(* The GitWatcher object and the pure functions of the providers on it.    *)
(* Of the spec three facts matter to the controller: whether provider or   *)
(* repositoryUrl says GitHub, which secret githubWebhookToken names, and   *)
(* whether a branch is given.  Tokens, hook ids and commits are positive   *)
(* numbers, and 0 is the empty string.  Of the Registered condition the    *)
(* kind of the last error is kept: two errors of one kind have one message.*)
(***************************************************************************)
EXTENDS Naturals

CONSTANTS
  Specs,         \* the GitWatcherSpecs users may write
  SecretNames    \* the names of the secrets that may exist

NoName == "none"

ASSUME SpecsAssumption ==
  /\ NoName \notin SecretNames
  /\ Specs \subseteq [github : BOOLEAN,
                      secret : SecretNames \cup {NoName},
                      branch : BOOLEAN]
  /\ Specs # {}

\* The messages SetError writes to the Registered condition
Errors == {"secret", "hook", "ref", "apply", "git"}
NoError == "none"

Objects == [uid : Nat, rv : Nat, spec : Specs, hookID : Nat, token : Nat,
            firstCommit : Nat, cond : Errors \cup {NoError}]

\* What a user's create request stores
NewObject(uid, s) == [uid |-> uid, rv |-> uid, spec |-> s, hookID |-> 0, token |-> 0,
                      firstCommit |-> 0, cond |-> NoError]

\* No object under this name (a nil *GitWatcher)
Absent == NewObject(0, CHOOSE s \in Specs : TRUE)
Present(o) == o.uid # 0

\* GetWebhookSecretName: the deprecated default serves watchers that have a
\* hook already; NoName is its error.
SecretName(o) == IF o.spec.secret = NoName /\ o.hookID # 0
                 THEN "githubtoken" ELSE o.spec.secret

\* GitHub.Supports, on the secrets in the secret cache
GitHubSupports(o, secrets) ==
  /\ SecretName(o) # NoName
  /\ SecretName(o) \in secrets
  /\ o.spec.github

\* Polling.Supports
PollingSupports(o) == o.spec.branch

\* onChange asks GitHub first
Provider(o, secrets) == CASE GitHubSupports(o, secrets) -> "github"
                          [] ~GitHubSupports(o, secrets) /\ PollingSupports(o) -> "polling"
                          [] OTHER -> NoName
=============================================================================
