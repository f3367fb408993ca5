----------------------- MODULE MCWebhookController -----------------------
(* Small instances of WebhookController for TLC. *)
EXTENDS WebhookController

CONSTANTS p1, p2, w1, w2

GitHubSpec  == [github |-> TRUE,  secret |-> "hooktoken", branch |-> TRUE]
NamelessSpec == [github |-> TRUE, secret |-> NoName, branch |-> TRUE]
\* README.md:13-27: no githubWebhookToken and no branch
SampleSpec  == [github |-> TRUE, secret |-> NoName, branch |-> FALSE]
GitSpec     == [github |-> FALSE, secret |-> NoName, branch |-> TRUE]

GitHubOnly  == {GitHubSpec}
BothKinds   == {GitHubSpec, GitSpec}
SampleOnly  == {SampleSpec}
ThreeKinds  == {GitHubSpec, NamelessSpec, GitSpec}

=============================================================================
