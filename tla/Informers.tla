------------------------------- MODULE Informers -------------------------------
(***************************************************************************)
(* How a process learns of objects: the generated clients, informers and   *)
(* listers.  The API server numbers all writes; log[v] is the write that   *)
(* got version v.  An informer lists, watches from the version of the      *)
(* list, and lists again when the watch ends; it asks with version "0",    *)
(* so a list may be as old as it likes, older than the cache too.  What    *)
(* becomes of an announced key is the subject of WorkQueue.                *)
(***************************************************************************)
EXTENDS Naturals, Sequences

CONSTANTS
  Keys,       \* namespace/name; informers watch all namespaces
  MaxWrites,  \* bound: writes at the API server
  MaxBreaks   \* bound: watches that end

ASSUME InformersAssumption == {MaxWrites, MaxBreaks} \subseteq Nat

VARIABLES
  log,        \* the writes: type, key, and whether the object is there afterwards
              \* (of secrets it only matters whether their cache has been filled)
  informers,  \* of the process, by type
  due,        \* the keys in the work queue of each controller
  breaks

Kinds == {"GitWatcher", "GitCommit"}   \* the types that have a controller
Types == Kinds \cup {"Secret"}

Writes == [type : Kinds, key : Keys, live : BOOLEAN]
Caches == [Keys -> Nat]                \* the version of each object; 0: none
Informers == [type : Types, phase : {"none", "new", "list", "watch"},
              filled : BOOLEAN, cache : Caches, version : Nat]

InformersTypeInv ==
  /\ log \in Seq(Writes)
  /\ informers \in [Types -> Informers]
  /\ due \in [Kinds -> SUBSET Keys]
  /\ breaks \in Nat

Empty == [k \in Keys |-> 0]
NoInformer(t) == [type |-> t, phase |-> "none", filled |-> FALSE, cache |-> Empty, version |-> 0]
NewInformer(t) == [NoInformer(t) EXCEPT !.phase = "new"]

\* No informer, an empty queue: a process that has just started
NoInformers == [t \in Types |-> NoInformer(t)]
NothingDue == [t \in Kinds |-> {}]
-----------------------------------------------------------------------------
(* The clients.  Get and List see all writes, or those up to a version v. *)

WritesOf(t, k, v) == {i \in 1 .. v : log[i].type = t /\ log[i].key = k}
Living(t, k, v) ==
  {i \in WritesOf(t, k, v) : log[i].live /\ \A j \in WritesOf(t, k, v) : j <= i}
List(t, v) ==
  [k \in Keys |-> IF Living(t, k, v) = {} THEN 0 ELSE CHOOSE i \in Living(t, k, v) : TRUE]
Get(t, k) == List(t, Len(log))[k]

\* Watch delivers the writes after version v, one by one
Watched(t, v) == {i \in v + 1 .. Len(log) : log[i].type = t}

\* Create needs an object that is not there; Update, UpdateStatus and Patch, and
\* Delete and DeleteCollection (which deletes one by one) need one that is.
Call(t) ==
  /\ Len(log) < MaxWrites
  /\ \E k \in Keys, live \in BOOLEAN :
       /\ live \/ Get(t, k) > 0
       /\ log' = Append(log, [type |-> t, key |-> k, live |-> live])
  /\ UNCHANGED <<informers, due, breaks>>

GitWatchersCall == Call("GitWatcher")
GitCommitsCall == Call("GitCommit")
-----------------------------------------------------------------------------
(* The informers *)

\* Faulty variant: the generator took the wrong resource.
GitWatcherInformerOfCommits == NewInformer("GitCommit")
GitWatcherInformer == NewInformer("GitWatcher")
GitCommitInformer == NewInformer("GitCommit")
SecretInformer == NewInformer("Secret")
DefaultInformer(t) == CASE t = "GitWatcher" -> GitWatcherInformer
                        [] t = "GitCommit" -> GitCommitInformer
                        [] t = "Secret" -> SecretInformer

\* The listers read the cache; a worker reads it for its key.
CacheGet(t, k) == informers[t].cache[k]
CacheList(t) == {k \in Keys : CacheGet(t, k) > 0}


\* handleObject, for objects added, updated or deleted, known from a watch or only
\* by their absence from a list.  An update must bring another version.
Announce(t, cache) ==
  due' = IF t \in Kinds
         THEN [due EXCEPT ![t] = @ \cup {k \in Keys : cache[k] # CacheGet(t, k)}] ELSE due

Fill(t, cache, version) ==
  /\ informers' = [informers EXCEPT ![t] = [@ EXCEPT !.phase = "watch", !.filled = TRUE,
                                                      !.cache = cache, !.version = version]]
  /\ Announce(t, cache)
  /\ UNCHANGED <<log, breaks>>

ListFunc(t) ==
  /\ informers[t].phase = "list"
  /\ \E v \in {0} \cup Watched(informers[t].type, 0) : Fill(t, List(informers[t].type, v), v)

WatchFunc(t) ==
  LET i == informers[t]
      events == Watched(i.type, i.version)
  IN  /\ i.phase = "watch"
      /\ \E v \in events :
           /\ \A e \in events : v <= e
           /\ Fill(t, [i.cache EXCEPT ![log[v].key] = IF log[v].live THEN v ELSE 0], v)

\* The watch ends, or its version is too old for the API server.
WatchEnds(t) ==
  /\ informers[t].phase = "watch" /\ breaks < MaxBreaks
  /\ breaks' = breaks + 1
  /\ informers' = [informers EXCEPT ![t].phase = "list"]
  /\ UNCHANGED <<log, due>>
=============================================================================
