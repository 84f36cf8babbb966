----------------------------- MODULE ScanQueue ------------------------------
(***************************************************************************)
(* The queue of a long scan (scripts/b200_hbm_hbf_scan.py): a manager      *)
(* process starts one worker process per point and takes the results from  *)
(* files.  The manager can stop, be interrupted or be killed; its workers  *)
(* go on, and the next manager adopts them or refuses to start.            *)
(***************************************************************************)
EXTENDS Naturals, Sequences, FiniteSets, SequencesExt, Subsequences

CONSTANTS Points,      \* the points of the manifest are 1 .. Points
          Medium,      \* architecture of a point
          MaxWorkers,  \* --workers
          MaxManagers, \* bound on the starts of a manager
          MaxSpawns    \* bound on the worker processes ever started

Point == 1 .. Points
Reusable == {"completed"}   \* REUSABLE_STATUSES: successes and refusals alike

ASSUME BoundsNat == {Points, MaxWorkers, MaxManagers, MaxSpawns} \subseteq Nat

VARIABLES manager,    \* where the manager is, "none" without one
          starts,     \* managers started so far
          pause,      \* --pause-after-current
          pending, running, finished,  \* of run_queue(); running maps points to workers
          stopReason,
          worker,     \* the workers ever started: [point, pc]
          report,     \* files points/<p>.json
          progress,   \* files progress/<p>.json: [status, pid]
          stopFile,   \* file stop.request
          status,     \* file status.json: the points it says are running
          blind       \* history: workers left by a manager before they reported

own == <<pending, running, finished, stopReason, pause>>
disk == <<report, progress, stopFile, status>>
queueVars == <<manager, starts, own, worker, disk, blind>>

Workers == DOMAIN worker
Live(w) == worker[w].pc # "exited"
Silent == {w \in Workers : worker[w].pc = "spawned"}
Ended == {p \in DOMAIN running : ~Live(running[p])}

------------------------------------------------------------------------------
\* worker()

\* A previous failure is unlinked, the first progress written.
Begin(w) ==
  /\ worker[w].pc = "spawned"
  /\ LET p == worker[w].point IN
       /\ report' = [report EXCEPT ![p] = IF @ = "failed" THEN "none" ELSE @]
       /\ progress' = [progress EXCEPT ![p] = [status |-> "running", pid |-> w]]
  /\ worker' = [worker EXCEPT ![w].pc = "running"]
  /\ UNCHANGED <<manager, starts, own, stopFile, status, blind>>

\* The cancellation callback looks for stop.request.
Publish(w) ==
  /\ worker[w].pc = "running"
  /\ \E s \in Reusable \cup {"failed"} \cup (IF stopFile THEN {"interrupted"} ELSE {}) :
       report' = [report EXCEPT ![worker[w].point] = s]
  /\ worker' = [worker EXCEPT ![w].pc = "published"]
  /\ UNCHANGED <<manager, starts, own, progress, stopFile, status, blind>>

Exit(w) ==
  /\ worker[w].pc = "published"
  /\ LET p == worker[w].point IN
       progress' = [progress EXCEPT ![p] = [status |-> report[p], pid |-> w]]
  /\ worker' = [worker EXCEPT ![w].pc = "exited"]
  /\ UNCHANGED <<manager, starts, own, report, stopFile, status, blind>>

Killed(w) ==
  /\ Live(w)
  /\ worker' = [worker EXCEPT ![w].pc = "exited"]
  /\ UNCHANGED <<manager, starts, own, disk, blind>>

------------------------------------------------------------------------------
\* run_queue() up to its loop; retry is --retry-failed, adopt --adopt-running.

ProcessAlive(p) == progress[p].pid \in Workers /\ Live(progress[p].pid)

\* existing_workers(): None without --adopt-running.
Adoptable == {p \in status.running : ProcessAlive(p)}

NoLiveWorkersListed(adopted) ==   \* mutant: asks only for the points of status.json
  \A p \in status.running \ adopted : progress[p].status = "running" => ~ProcessAlive(p)

\* assert_no_live_workers()
NoLiveWorkers(adopted) ==
  \A p \in Point \ adopted :
    progress[p].status = "running" => ~ProcessAlive(p)

ToRunAll(adopted) ==   \* mutant: the adopted points as well
  ElementsAt([p \in Point |-> p], {p \in Point : report[p] \notin Reusable})
ToRun(adopted) ==
  ElementsAt([p \in Point |-> p], {p \in Point \ adopted : report[p] \notin Reusable})

Start(adopt, retry, stay) ==
  /\ manager = "none" /\ starts < MaxManagers
  /\ adopt => status.written /\ \A p \in status.running : progress[p].pid # 0
  /\ LET adopted == IF adopt THEN Adoptable ELSE {} IN
       /\ Cardinality(adopted) <= MaxWorkers
       /\ NoLiveWorkers(adopted)
       /\ retry \/ \A p \in Point \ adopted : report[p] # "failed"
       /\ pending' = ToRun(adopted)
       /\ finished' = {<<p, report[p]>> : p \in {q \in Point \ adopted : report[q] \in Reusable}}
       /\ running' = [p \in adopted |-> progress[p].pid]
  /\ manager' = "top" /\ starts' = starts + 1 /\ pause' = stay /\ stopReason' = "none"
  /\ UNCHANGED <<worker, disk, blind>>

------------------------------------------------------------------------------
\* The loop of run_queue().

Proceed(where) == manager' = where

Look ==
  /\ manager = "top"
  /\ IF pending = << >> /\ running = << >> THEN Proceed("finally") /\ UNCHANGED stopReason
     ELSE IF stopFile THEN Proceed("finally") /\ stopReason' = "stop_requested"
     ELSE Proceed("launch") /\ UNCHANGED stopReason
  /\ UNCHANGED <<starts, pending, running, finished, pause, worker, disk, blind>>

Free == {i \in 1 .. Len(pending) : \A p \in DOMAIN running : Medium[p] # Medium[pending[i]]}

FirstFree == CHOOSE i \in Free : \A j \in Free : i <= j

MayLaunch == /\ Cardinality(DOMAIN running) < MaxWorkers /\ ~pause
             /\ Free # {}

Launch ==
  /\ manager = "launch" /\ MayLaunch /\ Len(worker) < MaxSpawns
  /\ LET p == pending[FirstFree]
     IN /\ pending' = RemoveAt(pending, FirstFree)
        /\ worker' = Append(worker, [point |-> p, pc |-> "spawned"])
        /\ running' = [q \in DOMAIN running \cup {p} |->
                         IF q = p THEN Len(worker) + 1 ELSE running[q]]
  /\ UNCHANGED <<manager, starts, finished, stopReason, pause, disk, blind>>

\* Popen raises, after the point was taken from the list.
SpawnFails ==
  /\ manager = "launch" /\ MayLaunch
  /\ pending' = RemoveAt(pending, FirstFree)
  /\ Proceed("finally") /\ stopReason' = "manager_failed"
  /\ UNCHANGED <<starts, running, finished, pause, worker, disk, blind>>

Launched ==
  /\ manager = "launch" /\ ~MayLaunch
  /\ Proceed("poll")
  /\ UNCHANGED <<starts, own, worker, disk, blind>>

\* The rows of the workers that have exited, "failed" where there is none.
Row(p) == IF report[p] = "none" THEN "failed" ELSE report[p]
AgainNever(ended) == << >>   \* mutant: an interrupted point is not put back
Again(ended) == SetToSeq({p \in ended : Row(p) = "interrupted"})

BoundaryKept(rest, reason) == FALSE   \* mutant: the pause is not noticed
Boundary(rest, reason) == pause /\ rest = {} /\ reason = "none"

Poll ==
  /\ manager = "poll"
  /\ LET rows == {Row(p) : p \in Ended}
         reason == IF "interrupted" \in rows THEN "worker_interrupted"
                   ELSE IF "failed" \in rows THEN "point_failed" ELSE stopReason
         rest == DOMAIN running \ Ended
     IN /\ report' = [p \in Point |-> IF p \in Ended THEN Row(p) ELSE report[p]]
        /\ finished' = finished \cup {<<p, Row(p)>> : p \in Ended}
        /\ pending' = Again(Ended) \o pending
        /\ running' = [p \in rest |-> running[p]]
        /\ IF Boundary(rest, reason)
             THEN stopReason' = "configuration_boundary" /\ stopFile' = TRUE
             ELSE stopReason' = reason /\ UNCHANGED stopFile
  /\ Proceed("status")
  /\ UNCHANGED <<starts, pause, worker, progress, status, blind>>

WriteStatus ==
  /\ manager = "status"
  /\ status' = [written |-> TRUE, running |-> DOMAIN running]
  /\ Proceed(IF stopReason = "none" THEN "top" ELSE "finally")
  /\ UNCHANGED <<starts, own, worker, report, progress, stopFile, blind>>

\* An exception or the user's interrupt ends the loop.
Interrupt ==
  /\ manager \in {"top", "launch", "poll", "status"}
  /\ Proceed("finally") /\ stopReason' = "manager_interrupted"
  /\ UNCHANGED <<starts, pending, running, finished, pause, worker, disk, blind>>

------------------------------------------------------------------------------
\* The finally clause of run_queue().

AskWorkers ==
  /\ manager = "finally"
  /\ stopFile' = (stopFile \/ running # << >>)
  /\ Proceed("wait")
  /\ UNCHANGED <<starts, own, worker, report, progress, status, blind>>

Gone == /\ pending' = << >> /\ running' = << >> /\ finished' = {} /\ stopReason' = "none"
        /\ pause' = FALSE
        /\ Proceed("none")
        /\ blind' = blind \cup Silent

\* All have ended, or 55 seconds have passed.
Leave ==
  /\ manager = "wait"
  /\ status' = [written |-> TRUE, running |-> DOMAIN running \ Ended]
  /\ Gone
  /\ UNCHANGED <<starts, worker, report, progress, stopFile>>

\* The manager dies: only its lock goes.
KillManager == manager # "none" /\ Gone /\ UNCHANGED <<starts, worker, disk>>

\* The user's stop command, and the removal of the marker before a new start.
RequestStop == /\ ~stopFile /\ stopFile' = TRUE
               /\ UNCHANGED <<manager, starts, own, worker, report, progress, status, blind>>
Resume == /\ manager = "none" /\ stopFile /\ stopFile' = FALSE
          /\ UNCHANGED <<manager, starts, own, worker, report, progress, status, blind>>

------------------------------------------------------------------------------

QueueInit ==
  /\ manager = "none" /\ starts = 0 /\ pending = << >> /\ running = << >> /\ finished = {}
  /\ stopReason = "none" /\ pause = FALSE
  /\ worker = << >>
  /\ report = [p \in Point |-> "none"]
  /\ progress = [p \in Point |-> [status |-> "none", pid |-> 0]]
  /\ stopFile = FALSE /\ status = [written |-> FALSE, running |-> {}] /\ blind = {}

ManagerStep == \/ Look \/ Launch \/ SpawnFails \/ Launched \/ Poll \/ WriteStatus \/ AskWorkers \/ Leave
WorkerStep(w) == Begin(w) \/ Publish(w) \/ Exit(w)

QueueNext ==
  \/ \E adopt, retry, stay \in BOOLEAN : Start(adopt, retry, stay)
  \/ ManagerStep \/ Interrupt \/ KillManager \/ RequestStop \/ Resume
  \/ \E w \in Workers : WorkerStep(w) \/ Killed(w)

\* The manager runs on, and a simulation comes to an end.
QueueFairness == /\ WF_queueVars(ManagerStep)
                 /\ \A w \in 1 .. MaxSpawns : WF_queueVars(w \in Workers /\ WorkerStep(w))

QueueSpec == QueueInit /\ [][QueueNext]_queueVars /\ QueueFairness

------------------------------------------------------------------------------
\* Correctness.

\* Points a manager left before their worker had reported: the progress file of such a
\* point may name another process, or none.
Unseen == {worker[w].point : w \in blind}

\* b200_hbm_hbf_scan.py:572: one job per medium, over all managers, restarts and adoptions,
\* except for the jobs of an unseen point.
OneJobPerMedium ==
  LET known == {w \in Workers : Live(w) /\ worker[w].point \notin Unseen}
  IN \A w, v \in known : Medium[worker[w].point] = Medium[worker[v].point] => w = v

\* A result that can be reused is not lost or replaced, with the same exception.
ResultKept ==
  [][\A p \in Point : report[p] \in Reusable /\ report'[p] # report[p] => p \in Unseen]_queueVars

\* Every point is to be run, being run or finished, never two of them, and what has
\* finished is what its file says, whatever managers and workers did before.
PointsAccounted ==
  manager # "none" => \A p \in Point :
    LET rows == {r \in finished : r[1] = p}
        todo == {i \in 1 .. Len(pending) : pending[i] = p}
        runs == {p} \cap DOMAIN running
    IN IF <<p, "interrupted">> \in rows
         THEN stopReason # "none" /\ Cardinality(todo) = 1 /\ runs = {}
         ELSE /\ Cardinality(rows) + Cardinality(todo) + Cardinality(runs)
                   \in (IF stopReason = "manager_failed" THEN {0, 1} ELSE {1})
              /\ \A r \in rows : r[2] = report[p] \/ p \in Unseen

\* run_queue() returns.
ManagerEnds == manager # "none" ~> manager = "none"
==============================================================================
