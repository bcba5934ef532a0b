----------------------------- MODULE RunLifecycle -----------------------------
(***************************************************************************)
(* What the run manager of internal/webserver promises its callers: every  *)
(* accepted run is running, then ends exactly once, and is at some later   *)
(* time discarded.  A run whose cancellation was requested while it ran    *)
(* ends as canceled, and no other run does.  Runs are bounded in number,   *)
(* none is accepted after closing, and "stopped" is announced only when    *)
(* nothing runs any more.                                                  *)
(***************************************************************************)
EXTENDS Integers, FiniteSets

CONSTANTS MaxRuns,    \* runs retained, terminal ones included
          MaxActive,  \* runs that may be running at once
          MaxIds      \* bound on the number of runs ever accepted

VARIABLES life,       \* life[id]: where run id is in its life
          requested,  \* running runs whose cancellation was requested
          accepting,  \* new runs are still accepted
          stopped     \* the manager announced that all work has ended

vars == <<life, requested, accepting, stopped>>

Ids == 1..MaxIds
Ended == {"succeeded", "failed", "canceled"}
InLife(stages) == {id \in Ids : life[id] \in stages}

Init ==
  /\ life = [id \in Ids |-> "new"]
  /\ requested = {}
  /\ accepting = TRUE
  /\ stopped = FALSE

(* Ids are issued in order and never issued again. *)
Start(id) ==
  /\ accepting
  /\ life[id] = "new"
  /\ \A older \in 1..(id - 1) : life[older] # "new"
  /\ Cardinality(InLife({"running"})) < MaxActive
  /\ Cardinality(InLife({"running"} \cup Ended)) < MaxRuns
  /\ life' = [life EXCEPT ![id] = "running"]
  /\ UNCHANGED <<requested, accepting, stopped>>

RequestCancel(id) ==
  /\ life[id] = "running"
  /\ requested' = requested \cup {id}
  /\ UNCHANGED <<life, accepting, stopped>>

End(id, outcome) ==
  /\ life[id] = "running"
  /\ (outcome = "canceled") <=> (id \in requested)
  /\ life' = [life EXCEPT ![id] = outcome]
  /\ requested' = requested \ {id}
  /\ UNCHANGED <<accepting, stopped>>

Discard(id) ==
  /\ life[id] \in Ended
  /\ life' = [life EXCEPT ![id] = "gone"]
  /\ UNCHANGED <<requested, accepting, stopped>>

Close ==
  /\ accepting
  /\ accepting' = FALSE
  /\ UNCHANGED <<life, requested, stopped>>

Stop ==
  /\ ~accepting
  /\ InLife({"running"}) = {}
  /\ stopped' = TRUE
  /\ UNCHANGED <<life, requested, accepting>>

Next ==
  \/ \E id \in Ids :
       \/ Start(id)
       \/ RequestCancel(id)
       \/ \E outcome \in Ended : End(id, outcome)
       \/ Discard(id)
  \/ Close
  \/ Stop

Spec == Init /\ [][Next]_vars
===============================================================================
