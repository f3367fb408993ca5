------------------------- MODULE RegistrationProofs -------------------------
(***************************************************************************)
(* What Registration promises, for any watchers and tokens.  Both modules  *)
(* that implement Registration have these promises from here.              *)
(***************************************************************************)
EXTENDS Registration, TLAPS

\* A hook signs with the token beside it, and no two hooks have one token.
IInv ==
  /\ TypeOK
  /\ \A h1, h2 \in DOMAIN hooks : hooks[h1].secret = hooks[h2].secret => h1 = h2
  /\ \A w \in Watchers : watcher[w].hook # 0 =>
       /\ watcher[w].hook \in DOMAIN hooks
       /\ hooks[watcher[w].hook] = [of |-> w, uid |-> watcher[w].uid,
                                    secret |-> watcher[w].token]
  /\ \A w \in Watchers : watcher[w].uid <= ver[w]

Entries == [uid : Nat, token : Tokens \cup {0}, hook : Nat]

LEMMA InitInv == Init => IInv
<1> SUFFICES ASSUME Init PROVE IInv
  OBVIOUS
<1>1. ASSUME NEW w \in Watchers
      PROVE  watcher[w] \in Entries /\ watcher[w].hook = 0 /\ watcher[w].uid \in {0, 1}
  BY <1>1 DEF Init, NoWatcher, New, Entries
<1>2. hooks = <<>> /\ ver = [w \in Watchers |-> 1]
  BY DEF Init
<1>3. watcher \in [Watchers -> Entries]
  BY <1>1 DEF Init
<1> QED
  BY <1>1, <1>2, <1>3 DEF IInv, TypeOK, Entries, Hooks

\* The object that is stored has an identity of its own time and a hook that signs.
LEMMA StoreInv ==
  ASSUME IInv, NEW w \in Watchers, NEW o \in Entries, Store(w, o), o.uid <= ver[w] + 1,
         o.hook # 0 => /\ o.hook \in DOMAIN hooks
                       /\ hooks[o.hook] = [of |-> w, uid |-> o.uid, secret |-> o.token]
  PROVE  IInv'
<1>1. /\ watcher \in [Watchers -> Entries] /\ ver \in [Watchers -> Nat]
      /\ hooks \in Seq(Hooks)
  BY DEF IInv, TypeOK, Entries
<1>2. /\ watcher' \in [Watchers -> Entries] /\ ver' \in [Watchers -> Nat]
      /\ watcher'[w] = o /\ ver'[w] = ver[w] + 1 /\ UNCHANGED hooks
      /\ \A v \in Watchers : v # w => watcher'[v] = watcher[v] /\ ver'[v] = ver[v]
  BY <1>1 DEF Store
<1>3. TypeOK'
  BY <1>1, <1>2 DEF TypeOK, Entries
<1>4. ASSUME NEW v \in Watchers
      PROVE  /\ watcher'[v].uid <= ver'[v]
             /\ watcher'[v].hook # 0 =>
                  /\ watcher'[v].hook \in DOMAIN hooks'
                  /\ hooks'[watcher'[v].hook] = [of |-> v, uid |-> watcher'[v].uid,
                                                secret |-> watcher'[v].token]
  <2>1. CASE v = w
    BY <1>2, <2>1
  <2>2. CASE v # w
    BY <1>2, <2>2 DEF IInv
  <2> QED
    BY <2>1, <2>2
<1> QED
  BY <1>2, <1>3, <1>4 DEF IInv

LEMMA NewFacts ==
  /\ NoWatcher \in Entries /\ NoWatcher.uid = 0 /\ NoWatcher.hook = 0
  /\ \A uid \in Nat : New(uid) \in Entries /\ New(uid).uid = uid /\ New(uid).hook = 0
BY DEF NoWatcher, New, Entries

LEMMA MakeHookInv == ASSUME IInv, NEW w \in Watchers, MakeHook(w) PROVE IInv'
<1>1. PICK uid \in 1 .. ver[w], t \in Tokens \ {hooks[h].secret : h \in DOMAIN hooks} :
        /\ hooks' = Append(hooks, [of |-> w, uid |-> uid, secret |-> t])
        /\ UNCHANGED <<watcher, ver>>
  BY DEF MakeHook
<1>2. hooks \in Seq(Hooks) /\ ver[w] \in Nat
  BY DEF IInv, TypeOK
<1>3. PICK hook \in Hooks : hook = [of |-> w, uid |-> uid, secret |-> t]
  <2>1. uid \in Nat
    BY <1>2
  <2> QED
    BY <2>1 DEF Hooks
<1>4. /\ hooks' \in Seq(Hooks) /\ DOMAIN hooks' = DOMAIN hooks \cup {Len(hooks) + 1}
      /\ Len(hooks) + 1 \notin DOMAIN hooks /\ hooks'[Len(hooks) + 1] = hook
      /\ \A h \in DOMAIN hooks : hooks'[h] = hooks[h]
  <2>1. PICK s, r : s = hooks /\ r = hooks'
    OBVIOUS
  <2>2. s \in Seq(Hooks) /\ r = Append(s, hook)
    BY <1>1, <1>2, <1>3, <2>1
  <2>3. /\ r \in Seq(Hooks) /\ DOMAIN r = DOMAIN s \cup {Len(s) + 1}
        /\ Len(s) + 1 \notin DOMAIN s /\ r[Len(s) + 1] = hook
        /\ \A h \in DOMAIN s : r[h] = s[h]
    BY <2>2
  <2> QED
    BY <2>1, <2>3
<1>5. \A h \in DOMAIN hooks : hooks[h].secret # hook.secret
  BY <1>3
<1>6. \A h1, h2 \in DOMAIN hooks' : hooks'[h1].secret = hooks'[h2].secret => h1 = h2
  BY <1>4, <1>5 DEF IInv
<1>7. TypeOK'
  BY <1>1, <1>4 DEF IInv, TypeOK
<1> QED
  BY <1>1, <1>4, <1>6, <1>7 DEF IInv

LEMMA NextInv == IInv /\ [Next]_vars => IInv'
<1> SUFFICES ASSUME IInv, [Next]_vars PROVE IInv'
  OBVIOUS
<1>1. \A w \in Watchers : watcher[w] \in Entries /\ ver[w] \in Nat /\ watcher[w].uid <= ver[w]
  BY DEF IInv, TypeOK, Entries
<1>2. ASSUME NEW w \in Watchers, Create(w) PROVE IInv'
  <2>1. ver[w] + 1 \in Nat
    BY <1>1
  <2>2. PICK o \in Entries : o = New(ver[w] + 1) /\ o.uid = ver[w] + 1 /\ o.hook = 0
    BY <2>1, NewFacts
  <2>3. Store(w, o) /\ o.uid <= ver[w] + 1
    BY <1>2, <2>1, <2>2 DEF Create
  <2> QED
    BY <2>2, <2>3, StoreInv
<1>3. ASSUME NEW w \in Watchers, Change(w) PROVE IInv'
  <2>1. PICK o \in Entries : o = watcher[w]
    BY <1>1
  <2>2. o.uid <= ver[w] + 1
    BY <1>1, <2>1 DEF Entries
  <2>3. o.hook # 0 => /\ o.hook \in DOMAIN hooks
                      /\ hooks[o.hook] = [of |-> w, uid |-> o.uid, secret |-> o.token]
    BY <2>1 DEF IInv
  <2> QED
    BY <1>3, <2>1, <2>2, <2>3, StoreInv DEF Change
<1>4. ASSUME NEW w \in Watchers, Delete(w) PROVE IInv'
  <2>1. PICK o \in Entries : o = NoWatcher /\ o.uid = 0 /\ o.hook = 0
    BY NewFacts
  <2>2. o.uid <= ver[w] + 1
    BY <1>1, <2>1
  <2> QED
    BY <1>4, <2>1, <2>2, StoreInv DEF Delete
<1>5. ASSUME NEW w \in Watchers, MakeHook(w) PROVE IInv'
  BY <1>5, MakeHookInv
<1>6. ASSUME NEW w \in Watchers, Record(w) PROVE IInv'
  <2>1. PICK t \in Tokens :
          \E h \in {0} \cup {i \in DOMAIN hooks :
                               hooks[i] = [of |-> w, uid |-> watcher[w].uid, secret |-> t]} :
            Store(w, [uid |-> watcher[w].uid, token |-> t, hook |-> h])
    BY <1>6 DEF Record
  <2>2. PICK h \in {0} \cup {i \in DOMAIN hooks :
                               hooks[i] = [of |-> w, uid |-> watcher[w].uid, secret |-> t]} :
          Store(w, [uid |-> watcher[w].uid, token |-> t, hook |-> h])
    BY <2>1
  <2>3. watcher[w].uid \in Nat /\ h \in Nat
    <3>1. DOMAIN hooks \subseteq Nat
      <4>1. hooks \in Seq(Hooks)
        BY DEF IInv, TypeOK
      <4> QED
        BY <4>1
    <3> QED
      BY <1>1, <2>2, <3>1 DEF Entries
  <2>4. PICK o \in Entries : o = [uid |-> watcher[w].uid, token |-> t, hook |-> h]
    BY <2>3 DEF Entries
  <2>5. o.uid <= ver[w] + 1
    BY <1>1, <2>3, <2>4
  <2>6. o.hook # 0 => /\ o.hook \in DOMAIN hooks
                      /\ hooks[o.hook] = [of |-> w, uid |-> o.uid, secret |-> o.token]
    BY <2>2, <2>4
  <2> QED
    BY <2>2, <2>4, <2>5, <2>6, StoreInv
<1>7. CASE UNCHANGED vars
  BY <1>7 DEF vars, IInv, TypeOK
<1> QED
  BY <1>2, <1>3, <1>4, <1>5, <1>6, <1>7 DEF Next

\* The invariant: types, tokens that differ, and recorded hooks that sign.
THEOREM InvCorrect == Spec => []IInv
BY InitInv, NextInv, PTL DEF Spec

\* A recorded hook was made for this very object, and it and no other hook signs with
\* the recorded token: ValidSignature lets no other hook through.
THEOREM HooksSign == Spec => []RecordedHookSigns
<1>1. IInv => RecordedHookSigns
  <2> SUFFICES ASSUME IInv, NEW w \in Watchers, watcher[w].hook # 0
               PROVE  /\ watcher[w].hook \in DOMAIN hooks
                      /\ hooks[watcher[w].hook].of = w
                      /\ hooks[watcher[w].hook].uid = watcher[w].uid
                      /\ \A h \in DOMAIN hooks :
                           hooks[h].secret = watcher[w].token <=> h = watcher[w].hook
    BY DEF RecordedHookSigns
  <2>1. PICK r : r = watcher[w].hook
    OBVIOUS
  <2>2. /\ r \in DOMAIN hooks
        /\ hooks[r] = [of |-> w, uid |-> watcher[w].uid, secret |-> watcher[w].token]
    BY <2>1 DEF IInv
  <2>3. /\ hooks[r].of = w /\ hooks[r].uid = watcher[w].uid
        /\ hooks[r].secret = watcher[w].token
    BY <2>2
  <2>4. \A h \in DOMAIN hooks : hooks[h].secret = hooks[r].secret => h = r
    BY <2>2 DEF IInv
  <2> QED
    BY <2>1, <2>2, <2>3, <2>4
<1> QED
  BY <1>1, InvCorrect, PTL

\* No step gives a watcher that has a hook another hook or another token.
THEOREM HooksStay == Spec => RecordedHookStays
<1>1. IInv /\ [Next]_vars =>
        [\A w \in Watchers :
           watcher[w].hook # 0 /\ watcher'[w].uid = watcher[w].uid =>
             watcher'[w] = watcher[w]]_vars
  <2> SUFFICES ASSUME IInv, Next, NEW w \in Watchers, watcher[w].hook # 0,
                      watcher'[w].uid = watcher[w].uid
               PROVE  watcher'[w] = watcher[w]
    OBVIOUS
  <2>1. /\ watcher \in [Watchers -> Entries] /\ ver \in [Watchers -> Nat]
        /\ watcher[w].uid <= ver[w] /\ watcher[w].uid \in Nat
    BY DEF IInv, TypeOK, Entries
  <2>2. PICK v \in Watchers : \/ Create(v) \/ Change(v) \/ Delete(v)
                              \/ MakeHook(v) \/ Record(v)
    BY DEF Next
  <2>3. CASE v # w
    BY <2>1, <2>2, <2>3 DEF Create, Change, Delete, MakeHook, Record, Store
  <2>4. CASE v = w
    <3>1. CASE Create(w)
      BY <2>1, <3>1, NewFacts DEF Create, Store
    <3>2. CASE Change(w)
      BY <2>1, <3>2 DEF Change, Store
    <3>3. CASE Delete(w)
      BY <2>1, <3>3, NewFacts DEF Delete, Store
    <3>4. CASE MakeHook(w)
      BY <3>4 DEF MakeHook
    <3>5. CASE Record(w)
      BY <3>5 DEF Record
    <3> QED
      BY <2>2, <2>4, <3>1, <3>2, <3>3, <3>4, <3>5
  <2> QED
    BY <2>3, <2>4
<1> QED
  BY <1>1, InvCorrect, PTL DEF Spec, RecordedHookStays
=============================================================================
