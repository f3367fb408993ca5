---------------------------- MODULE PendingWork ----------------------------
(***************************************************************************)
(* What a controller's handlers may rely on, and all that the other        *)
(* modules of this project assume of the work queue: a key that was        *)
(* requested while the queue is open is started sooner or later, a key is  *)
(* never run twice at the same time, and a request made while the key runs *)
(* is not lost with the run.  WorkQueue is shown to implement this module. *)
(***************************************************************************)
CONSTANT Keys

VARIABLES
  pending,   \* the keys with a request that no run has taken yet
  running,   \* the keys a worker is running
  open       \* FALSE once the queue was shut down

vars == <<pending, running, open>>

TypeOK == /\ pending \subseteq Keys
          /\ running \subseteq Keys
          /\ open \in BOOLEAN

Init == pending = {} /\ running = {} /\ open = TRUE

Request(k) == /\ pending' = pending \cup {k}
              /\ UNCHANGED <<running, open>>

\* A run takes one request; another one for the same key may be behind it.
Start(k) == /\ k \in pending \ running
            /\ pending' \in {pending, pending \ {k}}
            /\ running' = running \cup {k}
            /\ UNCHANGED open

\* A run that failed has asked for another one before it finishes.
Finish(k) == /\ k \in running
             /\ running' = running \ {k}
             /\ UNCHANGED <<pending, open>>

Close == /\ open' = FALSE
         /\ UNCHANGED <<pending, running>>

\* Only a closed queue forgets a request.
Abandon == /\ ~open
           /\ pending' \subseteq pending
           /\ UNCHANGED <<running, open>>

Next == \/ \E k \in Keys : Request(k) \/ Start(k) \/ Finish(k)
        \/ Close
        \/ Abandon

Fairness == \A k \in Keys : /\ WF_vars(open /\ Start(k))
                            /\ WF_vars(Finish(k))

Spec == Init /\ [][Next]_vars /\ Fairness
\* A request is taken by a run unless the queue closes first.
RequestsAreTaken ==
  \A k \in Keys : (open /\ k \in pending) ~> (k \in running \/ ~open)

\* Every run ends.
RunsEnd == \A k \in Keys : (k \in running) ~> (k \notin running)
=============================================================================
