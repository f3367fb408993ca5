---------------------------- MODULE Registration ----------------------------
(***************************************************************************)
(* What registration promises to whoever serves deliveries: however often  *)
(* runs of onChange fail, start from an old object or run on two replicas, *)
(* every hook at GitHub has a token of its own, a watcher is given a hook  *)
(* once, and it is a hook that was made for it, with the token beside it.  *)
(* WebhookController, where the runs are, and HookHandler, where the       *)
(* deliveries are, are both shown to implement this module.                *)
(***************************************************************************)
EXTENDS Naturals, Sequences

CONSTANTS
  Watchers,  \* the names of GitWatcher objects
  Tokens     \* the tokens that may be drawn

VARIABLES
  watcher,   \* of the stored object of each name: identity, token and hook
  ver,       \* the last resourceVersion given out for each name
  hooks      \* the hooks at GitHub, by id

vars == <<watcher, ver, hooks>>

Hooks == [of : Watchers, uid : Nat, secret : Tokens]
NoWatcher == [uid |-> 0, token |-> 0, hook |-> 0]
New(uid) == [NoWatcher EXCEPT !.uid = uid]

TypeOK == /\ watcher \in [Watchers -> [uid : Nat, token : Tokens \cup {0}, hook : Nat]]
          /\ ver \in [Watchers -> Nat]
          /\ hooks \in Seq(Hooks)

Init == /\ watcher \in [Watchers -> {NoWatcher, New(1)}]
        /\ ver = [w \in Watchers |-> 1]
        /\ hooks = <<>>

Store(w, o) == /\ watcher' = [watcher EXCEPT ![w] = o]
               /\ ver' = [ver EXCEPT ![w] = @ + 1]
               /\ UNCHANGED hooks

Create(w) == watcher[w].uid = 0 /\ Store(w, New(ver[w] + 1))

\* A change to the object that has nothing to do with its hook
Change(w) == watcher[w].uid # 0 /\ Store(w, watcher[w])

Delete(w) == watcher[w].uid # 0 /\ Store(w, NoWatcher)

\* GitHub makes a hook for an object that is or was there.
MakeHook(w) ==
  \E uid \in 1 .. ver[w], t \in Tokens \ {hooks[h].secret : h \in DOMAIN hooks} :
    /\ hooks' = Append(hooks, [of |-> w, uid |-> uid, secret |-> t])
    /\ UNCHANGED <<watcher, ver>>

\* A token is recorded with the hook that was made with it, or without a hook when
\* none is known.
Record(w) ==
  /\ watcher[w].uid # 0 /\ watcher[w].hook = 0
  /\ \E t \in Tokens :
       \E h \in {0} \cup {i \in DOMAIN hooks :
                            hooks[i] = [of |-> w, uid |-> watcher[w].uid, secret |-> t]} :
         Store(w, [uid |-> watcher[w].uid, token |-> t, hook |-> h])

Next == \E w \in Watchers : \/ Create(w) \/ Change(w) \/ Delete(w)
                            \/ MakeHook(w) \/ Record(w)

Spec == Init /\ [][Next]_vars
-----------------------------------------------------------------------------
\* A recorded hook was made for this very object, and it and no other hook signs
\* with the recorded token.
RecordedHookSigns ==
  \A w \in Watchers : watcher[w].hook # 0 =>
    LET o == watcher[w]
    IN  /\ o.hook \in DOMAIN hooks
        /\ hooks[o.hook].of = w /\ hooks[o.hook].uid = o.uid
        /\ \A h \in DOMAIN hooks : hooks[h].secret = o.token <=> h = o.hook

\* A hook stays recorded, with its token, as long as the object lives.
RecordedHookStays ==
  [][\A w \in Watchers :
       watcher[w].hook # 0 /\ watcher'[w].uid = watcher[w].uid =>
         watcher'[w] = watcher[w]]_vars
=============================================================================
