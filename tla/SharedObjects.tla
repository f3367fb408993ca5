---------------------------- MODULE SharedObjects ----------------------------
(***************************************************************************)
(* Objects that are shared.  An informer hands the same object to everyone *)
(* who reads its cache; a handler has to copy it before it writes.  Go's   *)
(* assignment copies the fields of a struct, but maps, slices and pointers *)
(* of the copy remain the original's memory until DeepCopyInto gives the   *)
(* copy some of its own.                                                   *)
(***************************************************************************)
EXTENDS Naturals

\* The parts of a GitWatcher or a GitCommit that are held by reference
Parts == {"executionLabels", "conditions", "githubStatus"}

NoCondition == "none"    \* the condition is not in the list
Conditions == {NoCondition, "True", "False"}

\* A GitWatcher or a GitCommit, as far as handlers tell them apart: spec is
\* what users write, deployment says that Status.GithubStatus is not nil.
\* Version 0 stands for no object.
Objects == [rv : Nat, spec : Nat, executionLabels : Nat, conditions : Conditions,
            deployment : BOOLEAN, githubStatus : Nat, buildStatus : Nat]
Exists(o) == o.rv > 0

\* A copy in hand: the object it was made of, its own value, and the parts
\* of it that are the original's memory.  Assign is *out = *in.
Assign(o) == [from |-> o, val |-> o, shared |-> Parts]
Own(h, parts) == [h EXCEPT !.shared = @ \ parts]
Write(h, part, v) == [h EXCEPT !.val[part] = v,
                               !.from[part] = IF part \in h.shared THEN v ELSE @]

\* Faulty variant: the pointer is copied, not the struct.
GitCommitStatusShallow(h) == Own(h, {"conditions"})

GitCommitStatusDeepCopyInto(h) == Own(h, {"conditions", "githubStatus"})
GitCommitDeepCopy(o) == GitCommitStatusDeepCopyInto(Assign(o))

GitWatcherSpecDeepCopyInto(h) == Own(h, {"executionLabels"})
GitWatcherStatusDeepCopyInto(h) == Own(h, {"conditions"})
GitWatcherDeepCopy(o) ==
  GitWatcherStatusDeepCopyInto(GitWatcherSpecDeepCopyInto(Assign(o)))

\* condition.SetError writes into the element of the list, or appends one,
\* which moves the list to memory of its own.
SetError(h, status) ==
  IF h.val.conditions = NoCondition
  THEN Own([h EXCEPT !.val.conditions = status], {"conditions"})
  ELSE Write(h, "conditions", status)
=============================================================================
