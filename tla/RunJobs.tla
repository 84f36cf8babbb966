------------------------------ MODULE RunJobs ------------------------------
(***************************************************************************)
(* RunJobManager of run_jobs.py: simulations run on a finite thread pool,  *)
(* started by callers of submit(), stopped by cancel(), forgotten by       *)
(* prune() and by the bounded history, ended by shutdown().                *)
(*                                                                         *)
(* The manager's lock makes each `with self._lock` block one action; what  *)
(* a method does between two blocks (estimating a scenario, running it,    *)
(* cancelling the shutdown targets one by one) separates actions, so every *)
(* interleaving of the callers' and the workers' threads is explored.      *)
(*                                                                         *)
(* A job's cancel_event and cancellation_requested are set together and    *)
(* never cleared: both are membership of `cancelled`.  Report, result and  *)
(* error are written in the block that writes the terminal status and      *)
(* carry no information of their own here.                                 *)
(***************************************************************************)
EXTENDS Naturals, Sequences, FiniteSets

CONSTANTS
    Jobs,          \* the uuids submit() may draw: bounds the submissions
    Workers,       \* threads of the executor (max_workers)
    Submitters,    \* threads calling submit()
    NoJob,         \* not a job
    MaxHistory,    \* max_history
    MaxActive      \* max_active_jobs

ASSUME RunJobsAssumption ==
    /\ IsFiniteSet(Jobs)
    /\ NoJob \notin Jobs
    /\ MaxHistory \in Nat \ {0}
    /\ MaxActive \in Nat \ {0}

VARIABLES
    status,           \* status[j]; "new" before submit, "removed" once popped from _jobs
    cancelled,        \* jobs whose cancel_event is set
    finishedSequence, \* the manager's _finished_sequence
    finishedAt,       \* finishedAt[j]: job.finished_sequence, 0 for None
    progress,         \* progress[j]: the stage of job.progress
    detail,           \* jobs with a progress_detail
    queue,            \* the executor's work queue
    futureCancelled,  \* jobs whose future.cancel() succeeded
    worker,           \* worker[w]: where thread w is, and its job
    submitter,        \* submitter[s]: where a submit() call is
    closer            \* the shutdown() call

jobVars  == <<status, finishedSequence, finishedAt, progress, detail>>
poolVars == <<queue, futureCancelled>>
vars     == <<jobVars, cancelled, poolVars, worker, submitter, closer>>

Terminal == {"completed", "failed", "cancelled"}
Ongoing  == {"queued", "running"}
Present  == Ongoing \union Terminal

\* Stages a simulation reports.  "serving" stands for serving_cohorts and
\* serving_complete, whose unit is serving_batches; "cohort_tasks" is nested
\* under them; "schedule" stands for every other stage.
Stages == {"serving", "cohort_tasks", "schedule"}

TypeOK ==
    /\ status \in [Jobs -> Present \union {"new", "removed"}]
    /\ cancelled \subseteq Jobs
    /\ finishedSequence \in Nat
    /\ finishedAt \in [Jobs -> Nat]
    /\ progress \in [Jobs -> Stages \union Terminal
                              \union {"none", "queued", "starting", "cancelling"}]
    /\ detail \subseteq Jobs
    /\ queue \in Seq(Jobs)
    /\ futureCancelled \subseteq Jobs
    /\ worker \in [Workers -> [pc : {"idle", "picked", "running", "completed",
                                     "failed", "cancelled", "exited"},
                               job : Jobs \union {NoJob}]]
    /\ submitter \in [Submitters -> {"idle", "estimating"}]
    /\ closer \in [pc : {"open", "cancelling", "joining", "closed"},
                   targets : SUBSET Jobs,
                   pending : BOOLEAN]

Init ==
    /\ status = [j \in Jobs |-> "new"]
    /\ cancelled = {}
    /\ finishedSequence = 0
    /\ finishedAt = [j \in Jobs |-> 0]
    /\ progress = [j \in Jobs |-> "none"]
    /\ detail = {}
    /\ queue = <<>>
    /\ futureCancelled = {}
    /\ worker = [w \in Workers |-> [pc |-> "idle", job |-> NoJob]]
    /\ submitter = [s \in Submitters |-> "idle"]
    /\ closer = [pc |-> "open", targets |-> {}, pending |-> FALSE]

----------------------------------------------------------------------------
(* Helpers: the manager's *_locked methods. *)

ActiveJobs == {j \in Jobs : status[j] \in Ongoing}
HasCapacity == Cardinality(ActiveJobs) < MaxActive
ShutDown == closer.pc # "open"
PoolClosed == closer.pc \in {"joining", "closed"}
Queued(j) == \E i \in 1 .. Len(queue) : queue[i] = j

\* Fault: the history is trimmed from its newest end.
NewestTerminal(st, order, keep) ==
    {j \in Jobs :
        /\ st[j] \in Terminal
        /\ Cardinality({k \in Jobs : st[k] \in Terminal /\ order[k] < order[j]}) >= keep}

\* The terminal jobs `_prune_terminal_locked(keep)` removes, given statuses and
\* terminal order: all but the newest `keep`.
Outdated(st, order, keep) ==
    {j \in Jobs :
        /\ st[j] \in Terminal
        /\ Cardinality({k \in Jobs : st[k] \in Terminal /\ order[k] > order[j]}) >= keep}

Pruned(st, order, keep) ==
    [j \in Jobs |-> IF j \in Outdated(st, order, keep) THEN "removed" ELSE st[j]]

\* Job j becomes terminal: it takes the next finished_sequence and the history
\* is trimmed in the same locked block.
Finish(j, outcome) ==
    /\ finishedSequence' = finishedSequence + 1
    /\ finishedAt' = [finishedAt EXCEPT ![j] = finishedSequence + 1]
    /\ status' = Pruned([status EXCEPT ![j] = outcome], finishedAt', MaxHistory)
    /\ progress' = [progress EXCEPT ![j] = outcome]
    /\ detail' = detail \ {j}

GoTo(w, pc) == worker' = [worker EXCEPT ![w].pc = pc]
Release(w)  == worker' = [worker EXCEPT ![w] = [pc |-> "idle", job |-> NoJob]]

----------------------------------------------------------------------------
(* submit(): check, estimate without the lock, check again and enqueue. *)

CheckSubmit(s) ==
    /\ submitter[s] = "idle"
    /\ ~ShutDown
    /\ HasCapacity
    /\ submitter' = [submitter EXCEPT ![s] = "estimating"]
    /\ UNCHANGED <<jobVars, cancelled, poolVars, worker, closer>>

\* The scenario is rejected while it is prepared, estimated or matched with
\* the retention policy; or the second check finds the manager closed or full.
RefuseSubmit(s) ==
    /\ submitter[s] = "estimating"
    /\ submitter' = [submitter EXCEPT ![s] = "idle"]
    /\ UNCHANGED <<jobVars, cancelled, poolVars, worker, closer>>

CommitSubmit(s) ==
    /\ submitter[s] = "estimating"
    /\ ~ShutDown
    /\ HasCapacity
    /\ submitter' = [submitter EXCEPT ![s] = "idle"]
    /\ \E j \in Jobs :
          /\ status[j] = "new"
          /\ status' = [status EXCEPT ![j] = "queued"]
          /\ progress' = [progress EXCEPT ![j] = "queued"]
          /\ queue' = Append(queue, j)
    /\ UNCHANGED <<cancelled, finishedSequence, finishedAt, detail, futureCancelled,
                   worker, closer>>

\* executor.submit() raises and the job is deleted again.  The executor queues
\* the item before it starts a thread, so the item may stay behind.
FailEnqueue(s) ==
    /\ submitter[s] = "estimating"
    /\ ~ShutDown
    /\ HasCapacity
    /\ submitter' = [submitter EXCEPT ![s] = "idle"]
    /\ \E j \in Jobs :
          /\ status[j] = "new"
          /\ status' = [status EXCEPT ![j] = "removed"]
          /\ queue' \in {queue, Append(queue, j)}
    /\ UNCHANGED <<cancelled, finishedSequence, finishedAt, progress, detail,
                   futureCancelled, worker, closer>>

----------------------------------------------------------------------------
(* cancel() and prune(). *)

\* The locked block of cancel(job_id) for a job that is still active.  A future
\* can be cancelled only while no worker has taken its item.
CancelActive(j) ==
    /\ status[j] \in Ongoing
    /\ cancelled' = cancelled \union {j}
    /\ \/ /\ status[j] = "queued"
          /\ futureCancelled' = IF Queued(j) THEN futureCancelled \union {j}
                                             ELSE futureCancelled
          /\ Finish(j, "cancelled")
       \/ /\ status[j] = "running"
          /\ progress' = [progress EXCEPT ![j] = "cancelling"]
          /\ UNCHANGED <<status, finishedSequence, finishedAt, detail, futureCancelled>>

Cancel(j) ==
    /\ CancelActive(j)
    /\ UNCHANGED <<queue, worker, submitter, closer>>

PruneJob(j) ==
    /\ status[j] \in Terminal
    /\ status' = [status EXCEPT ![j] = "removed"]
    /\ UNCHANGED <<cancelled, finishedSequence, finishedAt, progress, detail, poolVars,
                   worker, submitter, closer>>

PruneKeep(keep) ==
    /\ status' = Pruned(status, finishedAt, keep)
    /\ UNCHANGED <<cancelled, finishedSequence, finishedAt, progress, detail, poolVars,
                   worker, submitter, closer>>

----------------------------------------------------------------------------
(* The executor's threads and _run_job(). *)

\* A worker takes the oldest item; one whose future was cancelled is dropped.
Take(w) ==
    /\ worker[w].pc = "idle"
    /\ queue # <<>>
    /\ queue' = Tail(queue)
    /\ worker' = IF Head(queue) \in futureCancelled
                 THEN worker
                 ELSE [worker EXCEPT ![w] = [pc |-> "picked", job |-> Head(queue)]]
    /\ UNCHANGED <<jobVars, cancelled, futureCancelled, submitter, closer>>

\* Fault: a job that was cancelled after its worker took it is started.
StartAnyway(w) ==
    LET j == worker[w].job IN
    /\ worker[w].pc = "picked"
    /\ status[j] \in Present
    /\ status' = [status EXCEPT ![j] = "running"]
    /\ progress' = [progress EXCEPT ![j] = "starting"]
    /\ GoTo(w, "running")
    /\ UNCHANGED <<cancelled, finishedSequence, finishedAt, detail, poolVars,
                   submitter, closer>>

\* First block of _run_job(): the job may be gone or cancelled by now.
Start(w) ==
    LET j == worker[w].job IN
    /\ worker[w].pc = "picked"
    /\ status[j] \in Present \ {"cancelled"}
    /\ status' = [status EXCEPT ![j] = "running"]
    /\ progress' = [progress EXCEPT ![j] = "starting"]
    /\ GoTo(w, "running")
    /\ UNCHANGED <<cancelled, finishedSequence, finishedAt, detail, poolVars,
                   submitter, closer>>

Skip(w) ==
    /\ worker[w].pc = "picked"
    /\ status[worker[w].job] \notin Present \ {"cancelled"}
    /\ Release(w)
    /\ UNCHANGED <<jobVars, cancelled, poolVars, submitter, closer>>

\* _update_progress(), called back by the running simulation.
Report(w, stage) ==
    LET j == worker[w].job
        nested == stage = "cohort_tasks" /\ progress[j] = "serving"
    IN
    /\ worker[w].pc = "running"
    /\ status[j] = "running"
    /\ j \notin cancelled
    /\ progress' = [progress EXCEPT ![j] = IF nested THEN @ ELSE stage]
    /\ detail' = IF nested THEN detail \union {j}
                 ELSE IF stage = "serving" THEN detail
                 ELSE detail \ {j}
    /\ UNCHANGED <<status, finishedSequence, finishedAt, cancelled, poolVars, worker,
                   submitter, closer>>

\* run_scenario() and the report end: cancelled at a poll that sees the event,
\* with an exception of their own, or normally after the last poll saw none.
EndRun(w, outcome) ==
    LET j == worker[w].job IN
    /\ worker[w].pc = "running"
    /\ \/ outcome = "cancelled" /\ j \in cancelled
       \/ outcome = "failed"
       \/ outcome = "completed" /\ j \notin cancelled
    /\ GoTo(w, outcome)
    /\ UNCHANGED <<jobVars, cancelled, poolVars, submitter, closer>>

\* Fault: the simulation's outcome is kept although the job was cancelled.
CommitOutcome(w) ==
    LET j == worker[w].job IN
    /\ worker[w].pc \in Terminal
    /\ \/ status[j] \in Ongoing /\ Finish(j, worker[w].pc)
       \/ status[j] \notin Ongoing /\ UNCHANGED jobVars
    /\ Release(w)
    /\ UNCHANGED <<cancelled, poolVars, submitter, closer>>

\* The last block of _run_job().  Cancellation wins over the outcome.
CommitRun(w) ==
    LET j == worker[w].job
        outcome == IF j \in cancelled THEN "cancelled" ELSE worker[w].pc
    IN
    /\ worker[w].pc \in Terminal
    /\ \/ status[j] \in Ongoing /\ Finish(j, outcome)
       \/ status[j] \notin Ongoing /\ UNCHANGED jobVars
    /\ Release(w)
    /\ UNCHANGED <<cancelled, poolVars, submitter, closer>>

\* Fault: the threads leave only when the pool has been joined.
ExitAfterJoin(w) ==
    /\ worker[w].pc = "idle"
    /\ closer.pc = "closed"
    /\ queue = <<>>
    /\ GoTo(w, "exited")
    /\ UNCHANGED <<jobVars, cancelled, poolVars, submitter, closer>>

ExitWorker(w) ==
    /\ worker[w].pc = "idle"
    /\ PoolClosed
    /\ queue = <<>>
    /\ GoTo(w, "exited")
    /\ UNCHANGED <<jobVars, cancelled, poolVars, submitter, closer>>

----------------------------------------------------------------------------
(* shutdown(), called once. *)

BeginShutdown(cancelPending, cancelRunning) ==
    /\ ~ShutDown
    /\ closer' = [pc |-> "cancelling",
                  targets |-> {j \in Jobs : \/ cancelPending /\ status[j] = "queued"
                                            \/ cancelRunning /\ status[j] = "running"},
                  pending |-> cancelPending]
    /\ UNCHANGED <<jobVars, cancelled, poolVars, worker, submitter>>

\* self.cancel(target): every target is another locked block, so a queued
\* target may be running, or over, by the time it is cancelled.
CancelTarget(j) ==
    /\ closer.pc = "cancelling"
    /\ j \in closer.targets
    /\ closer' = [closer EXCEPT !.targets = @ \ {j}]
    /\ \/ CancelActive(j)
       \/ /\ status[j] \notin Ongoing
          /\ UNCHANGED <<jobVars, cancelled, futureCancelled>>
    /\ UNCHANGED <<queue, worker, submitter>>

\* Fault: the executor's queue is dropped whether or not its jobs were cancelled.
ClosePoolDropping ==
    /\ closer.pc = "cancelling"
    /\ closer.targets = {}
    /\ closer' = [closer EXCEPT !.pc = "joining"]
    /\ queue' = <<>>
    /\ futureCancelled' = futureCancelled \union {j \in Jobs : Queued(j)}
    /\ UNCHANGED <<jobVars, cancelled, worker, submitter>>

\* executor.shutdown(cancel_futures=cancel_pending)
ClosePool ==
    /\ closer.pc = "cancelling"
    /\ closer.targets = {}
    /\ closer' = [closer EXCEPT !.pc = "joining"]
    /\ queue' = IF closer.pending THEN <<>> ELSE queue
    /\ futureCancelled' = IF closer.pending
                          THEN futureCancelled \union {j \in Jobs : Queued(j)}
                          ELSE futureCancelled
    /\ UNCHANGED <<jobVars, cancelled, worker, submitter>>

JoinPool ==
    /\ closer.pc = "joining"
    /\ \A w \in Workers : worker[w].pc = "exited"
    /\ closer' = [closer EXCEPT !.pc = "closed"]
    /\ UNCHANGED <<jobVars, cancelled, poolVars, worker, submitter>>

----------------------------------------------------------------------------

WorkerStep(w) ==
    \/ Take(w) \/ Start(w) \/ Skip(w)
    \/ \E outcome \in Terminal : EndRun(w, outcome)
    \/ CommitRun(w)
    \/ ExitWorker(w)

CloserStep == (\E j \in Jobs : CancelTarget(j)) \/ ClosePool \/ JoinPool

SubmitStep(s) == CheckSubmit(s) \/ RefuseSubmit(s) \/ CommitSubmit(s) \/ FailEnqueue(s)

Next ==
    \/ \E s \in Submitters : SubmitStep(s)
    \/ \E j \in Jobs : Cancel(j) \/ PruneJob(j)
    \/ \E keep \in 0 .. MaxHistory : PruneKeep(keep)
    \/ \E w \in Workers : WorkerStep(w) \/ \E stage \in Stages : Report(w, stage)
    \/ \E cancelPending, cancelRunning \in BOOLEAN :
          BeginShutdown(cancelPending, cancelRunning)
    \/ CloserStep

Spec == Init /\ [][Next]_vars

\* Threads of the pool are scheduled and run_scenario() terminates (it may
\* report forever only if it never ends); the thread in shutdown() is
\* scheduled.  Nothing obliges a caller to submit, cancel, prune or shut down.
Fairness == (\A w \in Workers : WF_vars(WorkerStep(w))) /\ WF_vars(CloserStep)

FairSpec == Spec /\ Fairness

----------------------------------------------------------------------------
(* Properties. *)

\* submit() re-checks the bound after estimating, so callers that passed the
\* first check together never exceed max_active_jobs.
ActiveBound == Cardinality(ActiveJobs) <= MaxActive

\* A job whose cancellation was accepted never ends completed or failed, even
\* when the simulation returned before it noticed (cancel() answered True).
CancelWins == \A j \in cancelled : status[j] \notin {"completed", "failed"}

\* A queued job is held by the executor: its live item is in the queue or a
\* worker has just taken it.  Otherwise nothing would ever end it.
NeverStranded ==
    \A j \in Jobs : status[j] = "queued" =>
        \/ Queued(j) /\ j \notin futureCancelled
        \/ \E w \in Workers : worker[w] = [pc |-> "picked", job |-> j]

\* A job is running exactly while one worker executes it: no job is run by two
\* workers, is shown running with nobody running it, or leaves the running
\* state under its worker.
RunningIsHeld ==
    /\ \A w \in Workers : worker[w].pc \in Terminal \union {"running"}
          => status[worker[w].job] = "running"
    /\ \A j \in Jobs : status[j] = "running" =>
          \E w \in Workers : worker[w].job = j /\ worker[w].pc \in Terminal \union {"running"}
    /\ \A v, w \in Workers : v # w /\ worker[v].job = worker[w].job => worker[v].job = NoJob

\* A terminal job changes no more except by being removed, a removed one is
\* never back, and a job runs only once.
TerminalIsFinal ==
    [][\A j \in Jobs :
          /\ status[j] \in Terminal => status'[j] \in {status[j], "removed"}
          /\ status[j] = "removed" => status'[j] = "removed"
          /\ status[j] = "running" => status'[j] # "queued"]_vars

\* The history forgets the oldest: a job that ends is remembered, and it evicts
\* another only from a full history whose kept jobs all ended later.
EvictsOldest ==
    [][\A j \in Jobs : status[j] \in Ongoing /\ status'[j] \notin Ongoing =>
          /\ status'[j] \in Terminal
          /\ \A k \in Jobs : status[k] \in Terminal /\ status'[k] = "removed" =>
                /\ Cardinality({i \in Jobs : status'[i] \in Terminal}) = MaxHistory
                /\ \A i \in Jobs : status'[i] \in Terminal => finishedAt'[i] > finishedAt[k]]_vars

\* Every accepted job ends, whatever is cancelled, pruned or shut down.
EveryJobEnds == \A j \in Jobs : status[j] \in Ongoing ~> status[j] \notin Ongoing

\* Threads, queue and locks apart, the manager keeps its promise to callers:
\* every step is a step of the life of one job, or shows them nothing.
Lifecycle == INSTANCE JobLifecycle WITH status <- status, cancelled <- cancelled
ImplementsLifecycle == Lifecycle!Spec

\* shutdown() drains or cancels what is left and every pool thread exits.
ShutdownJoins == ShutDown ~> closer.pc = "closed"
=============================================================================
