---------------------------- MODULE JobLifecycle ----------------------------
(***************************************************************************)
(* What RunJobManager (run_jobs.py) promises its callers, without threads, *)
(* queue, futures or the steps of shutdown(): the life of every job.  At   *)
(* most MaxActive jobs are queued or running, at most MaxHistory ended     *)
(* jobs are remembered, and a job whose cancellation was accepted can only *)
(* end cancelled.                                                          *)
(***************************************************************************)
EXTENDS Naturals, FiniteSets

CONSTANTS Jobs, MaxHistory, MaxActive

VARIABLES
    status,      \* status[j], "new" before and "removed" after its life
    cancelled    \* jobs whose cancellation was accepted

vars == <<status, cancelled>>

Ended  == {"completed", "failed", "cancelled"}
Active == {"queued", "running"}
Having(st, kinds) == {j \in Jobs : st[j] \in kinds}

Init ==
    /\ status = [j \in Jobs |-> "new"]
    /\ cancelled = {}

Admit(j) ==
    /\ status[j] = "new"
    /\ Cardinality(Having(status, Active)) < MaxActive
    /\ status' = [status EXCEPT ![j] = "queued"]
    /\ UNCHANGED cancelled

Abandon(j) ==
    /\ status[j] = "new"
    /\ status' = [status EXCEPT ![j] = "removed"]
    /\ UNCHANGED cancelled

Begin(j) ==
    /\ status[j] = "queued"
    /\ j \notin cancelled
    /\ status' = [status EXCEPT ![j] = "running"]
    /\ UNCHANGED cancelled

RequestCancel(j) ==
    /\ status[j] = "running"
    /\ cancelled' = cancelled \union {j}
    /\ UNCHANGED status

\* Job j ends, and ended jobs are evicted until the history fits.
Ends(j, outcome) ==
    \E evicted \in SUBSET Having(status, Ended) :
        /\ status' = [i \in Jobs |-> IF i = j THEN outcome
                                     ELSE IF i \in evicted THEN "removed"
                                     ELSE status[i]]
        /\ Cardinality(Having(status', Ended)) <= MaxHistory

EndCancelled(j) ==
    /\ status[j] = "running" => j \in cancelled
    /\ status[j] \in Active
    /\ Ends(j, "cancelled")
    /\ cancelled' = cancelled \union {j}

EndRun(j, outcome) ==
    /\ status[j] = "running"
    /\ j \notin cancelled
    /\ Ends(j, outcome)
    /\ UNCHANGED cancelled

Forget(removed) ==
    /\ removed \subseteq Having(status, Ended)
    /\ status' = [j \in Jobs |-> IF j \in removed THEN "removed" ELSE status[j]]
    /\ UNCHANGED cancelled

Next ==
    \/ \E j \in Jobs : \/ Admit(j) \/ Abandon(j) \/ Begin(j)
                       \/ RequestCancel(j) \/ EndCancelled(j)
                       \/ \E outcome \in {"completed", "failed"} : EndRun(j, outcome)
    \/ \E removed \in SUBSET Jobs : Forget(removed)

Spec == Init /\ [][Next]_vars
=============================================================================
