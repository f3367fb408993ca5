--------------------------- MODULE MCHookHandler ---------------------------
\* Specs and events for TLC
EXTENDS HookHandler, TLC

CONSTANTS p1, p2, w1

Sample == [enabled |-> TRUE, push |-> FALSE, pr |-> TRUE, tag |-> FALSE,
           deploy |-> FALSE, branch |-> None, tags |-> {}]
Tagging == [Sample EXCEPT !.push = TRUE, !.tag = TRUE, !.tags = {"v1"}]
Everything == [Tagging EXCEPT !.deploy = TRUE, !.branch = "main"]
Disabled == [Sample EXCEPT !.enabled = FALSE]

PR(action) == [kind |-> "pull_request", action |-> action]
Push(branch, head) == [kind |-> "push", ref |-> branch, head |-> head]
Tag(t) == [kind |-> "create", tag |-> t]

SampleOnly == {Sample}
TaggingOnly == {Tagging}
AnySpec == {Everything, Disabled}

OpenedOnly == {PR("opened"), Ping}
TagOnly == {Tag("v1")}
AnyKind == {PR("opened"), PR("labeled"), Push("main", TRUE), Push(None, TRUE),
            Tag("v1"), Tag(None), Ping}

\* No action and no property tells one replica from another.
Replicas == Permutations(Procs)
=============================================================================
