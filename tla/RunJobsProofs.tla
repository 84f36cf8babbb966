--------------------------- MODULE RunJobsProofs ---------------------------
(***************************************************************************)
(* Proofs about RunJobs and RunTraces, for any number of jobs, workers,    *)
(* callers, readers and batches.                                           *)
(*                                                                         *)
(* The inductive invariant of RunJobs adds to TypeOK where a job may be    *)
(* while it is in the work queue (QueueInv), in the hands of a worker      *)
(* (WorkerInv), and what shutdown() still has to cancel (CloserInv).  On   *)
(* it rest the bound on active jobs, what the history keeps, and that the  *)
(* manager implements JobLifecycle; RunTraces adds the flights and the     *)
(* cache of trace_page().                                                  *)
(***************************************************************************)
EXTENDS RunTraces, CollectionTheorems

Executing == Terminal \union {"running"}
Unstarted == {"queued", "cancelled", "removed"}

\* Items are distinct, not started, and in no worker's hands; an item whose
\* future was cancelled is not the item of a queued job.
QueueInv ==
    /\ \A i, k \in 1 .. Len(queue) : queue[i] = queue[k] => i = k
    /\ \A i \in 1 .. Len(queue) : status[queue[i]] \in Unstarted
    /\ \A i \in 1 .. Len(queue), w \in Workers : worker[w].job # queue[i]
    /\ \A j \in futureCancelled : status[j] \notin {"new", "queued"}

\* What the worker's place says of its job.
WorkerInv ==
    /\ \A w \in Workers : worker[w].pc \in {"idle", "exited"} => worker[w].job = NoJob
    /\ \A w \in Workers : worker[w].pc = "picked" =>
          worker[w].job \in Jobs /\ status[worker[w].job] \in Unstarted
    /\ \A w \in Workers : worker[w].pc \in Executing =>
          worker[w].job \in Jobs /\ status[worker[w].job] = "running"
    /\ \A v, w \in Workers : v # w /\ worker[v].job = worker[w].job => worker[v].job = NoJob
    /\ \A j \in Jobs : status[j] = "running" =>
          \E w \in Workers : worker[w].job = j /\ worker[w].pc \in Executing

\* A shutdown that cancels pending jobs still has every queued job among its
\* targets until it closes the pool.
CloserInv ==
    ShutDown /\ closer.pending =>
        \A j \in Jobs : status[j] = "queued" =>
            closer.pc = "cancelling" /\ j \in closer.targets

IInv == TypeOK /\ QueueInv /\ WorkerInv /\ CloserInv /\ NeverStranded /\ CancelWins

Statuses == Present \union {"new", "removed"}

----------------------------------------------------------------------------
(* What pruning and the end of a job do to statuses. *)

\* _prune_terminal_locked() only ever removes terminal jobs.
LEMMA PrunedFacts ==
    ASSUME NEW st \in [Jobs -> Statuses], NEW order, NEW keep
    PROVE  /\ Pruned(st, order, keep) \in [Jobs -> Statuses]
           /\ \A j \in Jobs :
                 \/ Pruned(st, order, keep)[j] = st[j]
                 \/ st[j] \in Terminal /\ Pruned(st, order, keep)[j] = "removed"
BY DEF Pruned, Outdated, Statuses, Present, Ongoing, Terminal

\* The end of job j is its outcome or at once its removal; other jobs keep
\* their status or are removed from the history.
LEMMA FinishFacts ==
    ASSUME TypeOK, NEW j \in Jobs, NEW outcome \in Terminal, Finish(j, outcome)
    PROVE  /\ status' \in [Jobs -> Statuses]
           /\ finishedSequence' \in Nat
           /\ finishedAt' \in [Jobs -> Nat]
           /\ progress' \in [Jobs -> Stages \union Terminal
                                   \union {"none", "queued", "starting", "cancelling"}]
           /\ detail' \subseteq Jobs
           /\ status'[j] \in {outcome, "removed"}
           /\ \A i \in Jobs \ {j} :
                 \/ status'[i] = status[i]
                 \/ status[i] \in Terminal /\ status'[i] = "removed"
<1> DEFINE ended == [status EXCEPT ![j] = outcome]
<1>1. ended \in [Jobs -> Statuses]
  BY DEF TypeOK, Statuses, Present
<1>2. status' = Pruned(ended, finishedAt', MaxHistory)
  BY DEF Finish
<1>3. /\ status' \in [Jobs -> Statuses]
      /\ \A i \in Jobs : \/ status'[i] = ended[i]
                         \/ ended[i] \in Terminal /\ status'[i] = "removed"
  <2> HIDE DEF ended
  <2> QED  BY <1>1, <1>2, PrunedFacts
<1>4. /\ status'[j] \in {outcome, "removed"}
      /\ \A i \in Jobs \ {j} : \/ status'[i] = status[i]
                               \/ status[i] \in Terminal /\ status'[i] = "removed"
  BY <1>3 DEF TypeOK
<1>5. /\ finishedSequence' \in Nat
      /\ finishedAt' \in [Jobs -> Nat]
      /\ progress' \in [Jobs -> Stages \union Terminal
                              \union {"none", "queued", "starting", "cancelling"}]
      /\ detail' \subseteq Jobs
  BY DEF Finish, TypeOK
<1> QED  BY <1>3, <1>4, <1>5

----------------------------------------------------------------------------
(* The initial states, and the steps of each thread. *)

LEMMA InitIInv == Init => IInv
BY RunJobsAssumption
   DEF Init, IInv, TypeOK, QueueInv, WorkerInv, CloserInv, NeverStranded, CancelWins,
       ShutDown, Executing, Terminal, Stages, Queued

\* A submit() call that only moves on shows nothing to anybody else.
LEMMA SubmitterMovesKeepsIInv ==
    ASSUME IInv, submitter' \in [Submitters -> {"idle", "estimating"}],
           UNCHANGED <<jobVars, cancelled, poolVars, worker, closer>>
    PROVE  IInv'
<1>1. /\ UNCHANGED <<status, finishedSequence, finishedAt, progress, detail>>
      /\ UNCHANGED <<cancelled, queue, futureCancelled, worker, closer>>
  BY DEF jobVars, poolVars
<1>2. TypeOK'
  BY <1>1 DEF IInv, TypeOK
<1>3. QueueInv' /\ WorkerInv'
  BY <1>1 DEF IInv, QueueInv, WorkerInv
<1>4. CloserInv' /\ NeverStranded' /\ CancelWins'
  BY <1>1 DEF IInv, CloserInv, NeverStranded, CancelWins, ShutDown, Queued
<1> QED  BY <1>2, <1>3, <1>4 DEF IInv

\* An appended item is the last one.
LEMMA Appended ==
    ASSUME TypeOK, NEW j \in Jobs, queue' = Append(queue, j)
    PROVE  /\ Len(queue') = Len(queue) + 1
           /\ Len(queue) \in Nat
           /\ queue'[Len(queue) + 1] = j
           /\ \A i \in 1 .. Len(queue) : queue'[i] = queue[i]
           /\ queue' \in Seq(Jobs)
BY AppendProperties, LenProperties DEF TypeOK

\* A job that was never submitted is in no worker's hands and not in the queue.
LEMMA NewIsUnknown ==
    ASSUME IInv, NEW j \in Jobs, status[j] = "new"
    PROVE  /\ \A w \in Workers : worker[w].job # j
           /\ \A i \in 1 .. Len(queue) : queue[i] \in Jobs /\ queue[i] # j
           /\ j \notin futureCancelled
<1>1. ASSUME NEW w \in Workers PROVE worker[w].job # j
  <2>1. worker[w].pc \in {"idle", "picked", "running", "completed", "failed",
                          "cancelled", "exited"}
    BY DEF IInv, TypeOK
  <2>2. CASE worker[w].pc \in {"idle", "exited"}
    BY <2>2, RunJobsAssumption DEF IInv, WorkerInv
  <2>3. CASE worker[w].pc = "picked"
    BY <2>3 DEF IInv, WorkerInv, Unstarted
  <2>4. CASE worker[w].pc \in Executing
    BY <2>4 DEF IInv, WorkerInv
  <2> QED  BY <2>1, <2>2, <2>3, <2>4 DEF Executing, Terminal
<1>2. \A i \in 1 .. Len(queue) : queue[i] \in Jobs /\ queue[i] # j
  BY ElementOfSeq DEF IInv, TypeOK, QueueInv, Unstarted
<1> QED  BY <1>1, <1>2 DEF IInv, QueueInv

LEMMA SubmitKeepsIInv ==
    ASSUME IInv, NEW s \in Submitters, SubmitStep(s)
    PROVE  IInv'
<1>1. CASE CheckSubmit(s) \/ RefuseSubmit(s)
  <2>1. submitter' \in [Submitters -> {"idle", "estimating"}]
    BY <1>1 DEF CheckSubmit, RefuseSubmit, IInv, TypeOK
  <2>2. UNCHANGED <<jobVars, cancelled, poolVars, worker, closer>>
    BY <1>1 DEF CheckSubmit, RefuseSubmit
  <2> QED  BY <2>1, <2>2, SubmitterMovesKeepsIInv
<1>2. CASE CommitSubmit(s)
  <2>1. PICK j \in Jobs : /\ status[j] = "new"
                         /\ status' = [status EXCEPT ![j] = "queued"]
                         /\ progress' = [progress EXCEPT ![j] = "queued"]
                         /\ queue' = Append(queue, j)
    BY <1>2 DEF CommitSubmit
  <2>2. ~ShutDown /\ UNCHANGED <<cancelled, finishedSequence, finishedAt, detail,
                                 futureCancelled, worker, closer>>
        /\ submitter' = [submitter EXCEPT ![s] = "idle"]
    BY <1>2 DEF CommitSubmit
  <2>3. TypeOK'
    BY <2>1, <2>2, Appended DEF IInv, TypeOK, Present, Ongoing
  <2>a. /\ \A w \in Workers : worker[w].job # j
        /\ \A i \in 1 .. Len(queue) : queue[i] \in Jobs /\ queue[i] # j
        /\ j \notin futureCancelled
    BY <2>1, NewIsUnknown
  <2>c. \A i \in Jobs : status'[i] = IF i = j THEN "queued" ELSE status[i]
    BY <2>1 DEF IInv, TypeOK
  <2>e. /\ Len(queue') = Len(queue) + 1 /\ Len(queue) \in Nat
        /\ queue'[Len(queue) + 1] = j
        /\ \A i \in 1 .. Len(queue) : queue'[i] = queue[i]
    BY <2>1, Appended DEF IInv
  <2>4. QueueInv'
    <3>1. \A i \in 1 .. Len(queue') :
             (queue'[i] = j /\ i = Len(queue) + 1) \/ i \in 1 .. Len(queue)
      BY <2>e
    <3>2. \A i, k \in 1 .. Len(queue') : queue'[i] = queue'[k] => i = k
      BY <2>a, <2>e, <3>1 DEF IInv, QueueInv
    <3>3. \A i \in 1 .. Len(queue') : status'[queue'[i]] \in Unstarted
      BY <2>a, <2>c, <2>e, <3>1 DEF IInv, QueueInv, Unstarted
    <3>4. \A i \in 1 .. Len(queue'), w \in Workers : worker'[w].job # queue'[i]
      BY <2>2, <2>a, <2>e, <3>1 DEF IInv, QueueInv
    <3>5. \A f \in futureCancelled' : status'[f] \notin {"new", "queued"}
      BY <2>2, <2>a, <2>c DEF IInv, TypeOK, QueueInv
    <3> QED  BY <3>2, <3>3, <3>4, <3>5 DEF QueueInv
  <2>5. WorkerInv'
    BY <2>1, <2>2, <2>c DEF IInv, TypeOK, WorkerInv, Unstarted
  <2>6. CloserInv' /\ CancelWins'
    BY <2>1, <2>2 DEF IInv, TypeOK, CloserInv, CancelWins, ShutDown
  <2>7. NeverStranded'
    <3>1. ASSUME NEW k \in Jobs, status'[k] = "queued"
          PROVE  \/ Queued(k)' /\ k \notin futureCancelled'
                 \/ \E w \in Workers : worker'[w] = [pc |-> "picked", job |-> k]
      <4>1. CASE k = j
        BY <4>1, <2>2, <2>a, <2>e DEF Queued
      <4>2. CASE k # j
        <5>1. status[k] = "queued"
          BY <2>c, <3>1, <4>2
        <5>2. Queued(k) => Queued(k)'
          BY <2>e DEF Queued
        <5> QED  BY <2>2, <5>1, <5>2 DEF IInv, NeverStranded
      <4> QED  BY <4>1, <4>2
    <3> QED  BY <3>1 DEF NeverStranded
  <2> QED  BY <2>3, <2>4, <2>5, <2>6, <2>7 DEF IInv
<1>3. CASE FailEnqueue(s)
  <2>1. PICK j \in Jobs : /\ status[j] = "new"
                         /\ status' = [status EXCEPT ![j] = "removed"]
                         /\ queue' \in {queue, Append(queue, j)}
    BY <1>3 DEF FailEnqueue
  <2>2. ~ShutDown /\ UNCHANGED <<cancelled, finishedSequence, finishedAt, progress, detail,
                                 futureCancelled, worker, closer>>
        /\ submitter' = [submitter EXCEPT ![s] = "idle"]
    BY <1>3 DEF FailEnqueue
  <2>3. TypeOK'
    BY <2>1, <2>2, Appended DEF IInv, TypeOK
  <2>a. /\ \A w \in Workers : worker[w].job # j
        /\ \A i \in 1 .. Len(queue) : queue[i] \in Jobs /\ queue[i] # j
        /\ j \notin futureCancelled
    BY <2>1, NewIsUnknown
  <2>c. \A i \in Jobs : status'[i] = IF i = j THEN "removed" ELSE status[i]
    BY <2>1 DEF IInv, TypeOK
  <2>e. /\ \/ queue' = queue
           \/ Len(queue') = Len(queue) + 1 /\ queue'[Len(queue) + 1] = j
        /\ Len(queue) \in Nat
        /\ \A i \in 1 .. Len(queue) : queue'[i] = queue[i]
    BY <2>1, Appended, LenProperties DEF IInv, TypeOK
  <2>4. QueueInv'
    <3>1. \A i \in 1 .. Len(queue') :
             (queue'[i] = j /\ i = Len(queue) + 1) \/ i \in 1 .. Len(queue)
      BY <2>e
    <3>2. \A i, k \in 1 .. Len(queue') : queue'[i] = queue'[k] => i = k
      BY <2>a, <2>e, <3>1 DEF IInv, QueueInv
    <3>3. \A i \in 1 .. Len(queue') : status'[queue'[i]] \in Unstarted
      BY <2>a, <2>c, <2>e, <3>1 DEF IInv, QueueInv, Unstarted
    <3>4. \A i \in 1 .. Len(queue'), w \in Workers : worker'[w].job # queue'[i]
      BY <2>2, <2>a, <2>e, <3>1 DEF IInv, QueueInv
    <3>5. \A f \in futureCancelled' : status'[f] \notin {"new", "queued"}
      BY <2>2, <2>a, <2>c DEF IInv, TypeOK, QueueInv
    <3> QED  BY <3>2, <3>3, <3>4, <3>5 DEF QueueInv
  <2>5. WorkerInv'
    BY <2>1, <2>2, <2>c DEF IInv, TypeOK, WorkerInv, Unstarted
  <2>6. CloserInv' /\ CancelWins'
    BY <2>1, <2>2 DEF IInv, TypeOK, CloserInv, CancelWins, ShutDown
  <2>7. NeverStranded'
    <3>1. ASSUME NEW k \in Jobs, status'[k] = "queued"
          PROVE  \/ Queued(k)' /\ k \notin futureCancelled'
                 \/ \E w \in Workers : worker'[w] = [pc |-> "picked", job |-> k]
      <4>1. status[k] = "queued"
        BY <2>c, <3>1
      <4>2. Queued(k) => Queued(k)'
        BY <2>e DEF Queued
      <4> QED  BY <2>2, <4>1, <4>2 DEF IInv, NeverStranded
    <3> QED  BY <3>1 DEF NeverStranded
  <2> QED  BY <2>3, <2>4, <2>5, <2>6, <2>7 DEF IInv
<1> QED  BY <1>1, <1>2, <1>3 DEF SubmitStep

\* cancel() of an active job, alone or as a step of shutdown().
LEMMA CancelActiveKeepsIInv ==
    ASSUME IInv, NEW j \in Jobs, CancelActive(j),
           UNCHANGED <<queue, worker, submitter>>,
           closer' \in [pc : {"open", "cancelling", "joining", "closed"},
                        targets : SUBSET Jobs, pending : BOOLEAN],
           closer'.pc = closer.pc, closer'.pending = closer.pending,
           closer.targets \ {j} \subseteq closer'.targets
    PROVE  IInv'
<1>0. cancelled' = cancelled \union {j}
  BY DEF CancelActive
<1>1. CASE status[j] = "queued"
  <2>1. /\ Finish(j, "cancelled")
        /\ futureCancelled' = IF Queued(j) THEN futureCancelled \union {j}
                                           ELSE futureCancelled
    BY <1>1 DEF CancelActive
  <2>2. /\ status' \in [Jobs -> Statuses]
        /\ finishedSequence' \in Nat
        /\ finishedAt' \in [Jobs -> Nat]
        /\ progress' \in [Jobs -> Stages \union Terminal
                                \union {"none", "queued", "starting", "cancelling"}]
        /\ detail' \subseteq Jobs
        /\ status'[j] \in {"cancelled", "removed"}
        /\ \A i \in Jobs \ {j} :
              \/ status'[i] = status[i]
              \/ status[i] \in Terminal /\ status'[i] = "removed"
    BY <2>1, FinishFacts DEF IInv, Terminal
  <2>3. TypeOK'
    BY <1>0, <2>1, <2>2 DEF IInv, TypeOK, Statuses
  <2>4. \A i \in Jobs : status[i] \in Unstarted => status'[i] \in Unstarted
    BY <2>2 DEF Unstarted, Terminal
  <2>5. \A i \in Jobs : status'[i] \in Ongoing => status'[i] = status[i] /\ i # j
    BY <2>2 DEF Ongoing, Terminal
  <2>6. QueueInv'
    <3>1. \A i \in 1 .. Len(queue) : queue[i] \in Jobs
      BY ElementOfSeq DEF IInv, TypeOK
    <3>2. \A f \in futureCancelled' : status'[f] \notin {"new", "queued"}
      BY <2>1, <2>2 DEF IInv, TypeOK, QueueInv, Terminal
    <3> QED  BY <2>4, <3>1, <3>2 DEF IInv, QueueInv
  <2>7. \A i \in Jobs : status[i] = "running" => status'[i] = "running"
    BY <1>1, <2>2 DEF Terminal
  <2>8. WorkerInv'
    BY <2>4, <2>5, <2>7 DEF IInv, WorkerInv, Ongoing
  <2>9. CloserInv'
    BY <2>5 DEF IInv, CloserInv, ShutDown, Ongoing
  <2>10. NeverStranded'
    BY <2>1, <2>5 DEF IInv, NeverStranded, Queued, Ongoing
  <2>11. CancelWins'
    BY <1>0, <2>2 DEF IInv, TypeOK, CancelWins, Terminal
  <2> QED  BY <2>3, <2>6, <2>8, <2>9, <2>10, <2>11 DEF IInv
<1>2. CASE status[j] = "running"
  <2>1. /\ progress' = [progress EXCEPT ![j] = "cancelling"]
        /\ UNCHANGED <<status, finishedSequence, finishedAt, detail, futureCancelled>>
    BY <1>2 DEF CancelActive
  <2>2. TypeOK'
    BY <1>0, <2>1 DEF IInv, TypeOK
  <2>3. QueueInv' /\ WorkerInv'
    BY <2>1 DEF IInv, QueueInv, WorkerInv
  <2>4. CloserInv' /\ NeverStranded' /\ CancelWins'
    BY <1>0, <1>2, <2>1 DEF IInv, CloserInv, NeverStranded, CancelWins, ShutDown, Queued
  <2> QED  BY <2>2, <2>3, <2>4 DEF IInv
<1> QED  BY <1>1, <1>2 DEF CancelActive, Ongoing

\* Removing terminal jobs, whichever.
LEMMA RemovalKeepsIInv ==
    ASSUME IInv, status' \in [Jobs -> Statuses],
           \A j \in Jobs : \/ status'[j] = status[j]
                           \/ status[j] \in Terminal /\ status'[j] = "removed",
           UNCHANGED <<cancelled, finishedSequence, finishedAt, progress, detail>>,
           UNCHANGED <<queue, futureCancelled, worker, submitter, closer>>
    PROVE  IInv'
<1>1. TypeOK'
  BY DEF IInv, TypeOK, Statuses
<1>2. \A i \in 1 .. Len(queue) : queue[i] \in Jobs
  BY ElementOfSeq DEF IInv, TypeOK
<1>3. QueueInv'
  BY <1>2 DEF IInv, TypeOK, QueueInv, Unstarted, Terminal
<1>4. WorkerInv'
  BY DEF IInv, WorkerInv, Unstarted, Terminal
<1>5. CloserInv'
  BY DEF IInv, CloserInv, ShutDown
<1>6. NeverStranded'
  BY DEF IInv, NeverStranded, Queued
<1>7. CancelWins'
  BY DEF IInv, TypeOK, CancelWins
<1> QED  BY <1>1, <1>3, <1>4, <1>5, <1>6, <1>7 DEF IInv

LEMMA CallerKeepsIInv ==
    ASSUME IInv,
           \/ \E j \in Jobs : Cancel(j) \/ PruneJob(j)
           \/ \E keep \in 0 .. MaxHistory : PruneKeep(keep)
    PROVE  IInv'
<1>1. ASSUME NEW j \in Jobs, Cancel(j) PROVE IInv'
  BY <1>1, CancelActiveKeepsIInv DEF Cancel, IInv, TypeOK
<1>2. ASSUME NEW j \in Jobs, PruneJob(j) PROVE IInv'
  <2>1. status' \in [Jobs -> Statuses]
    BY <1>2 DEF PruneJob, IInv, TypeOK, Statuses
  <2>2. \A i \in Jobs : \/ status'[i] = status[i]
                        \/ status[i] \in Terminal /\ status'[i] = "removed"
    BY <1>2 DEF PruneJob, IInv, TypeOK, Statuses
  <2>3. UNCHANGED <<cancelled, finishedSequence, finishedAt, progress, detail>>
    BY <1>2 DEF PruneJob
  <2>4. UNCHANGED <<queue, futureCancelled, worker, submitter, closer>>
    BY <1>2 DEF PruneJob, poolVars
  <2> QED  BY <2>1, <2>2, <2>3, <2>4, RemovalKeepsIInv
<1>3. ASSUME NEW keep \in 0 .. MaxHistory, PruneKeep(keep) PROVE IInv'
  <2>0. status \in [Jobs -> Statuses]
    BY DEF IInv, TypeOK, Statuses
  <2>1. status' \in [Jobs -> Statuses]
    BY <1>3, <2>0, PrunedFacts DEF PruneKeep
  <2>2. \A j \in Jobs : \/ status'[j] = status[j]
                        \/ status[j] \in Terminal /\ status'[j] = "removed"
    BY <1>3, <2>0, PrunedFacts DEF PruneKeep
  <2>3. UNCHANGED <<cancelled, finishedSequence, finishedAt, progress, detail>>
    BY <1>3 DEF PruneKeep
  <2>4. UNCHANGED <<queue, futureCancelled, worker, submitter, closer>>
    BY <1>3 DEF PruneKeep, poolVars
  <2> QED  BY <2>1, <2>2, <2>3, <2>4, RemovalKeepsIInv
<1> QED  BY <1>1, <1>2, <1>3

----------------------------------------------------------------------------
(* The pool's threads. *)

\* The worker takes a live item: it leaves the queue for the worker's hands.
LEMMA TakeKeepsIInv ==
    ASSUME IInv, NEW w \in Workers, Take(w)
    PROVE  IInv'
<1>0. PICK head : head = Head(queue)
  OBVIOUS
<1>1. /\ queue # <<>>
      /\ queue' = Tail(queue)
      /\ worker[w].pc = "idle"
      /\ worker' = IF head \in futureCancelled
                   THEN worker ELSE [worker EXCEPT ![w] = [pc |-> "picked", job |-> head]]
      /\ UNCHANGED <<status, finishedSequence, finishedAt, progress, detail>>
      /\ UNCHANGED <<cancelled, futureCancelled, submitter, closer>>
  BY <1>0 DEF Take, jobVars
<1>2. /\ Len(queue) \in Nat \ {0}
      /\ head = queue[1]
      /\ queue' \in Seq(Jobs)
      /\ Len(queue') = Len(queue) - 1
      /\ \A i \in 1 .. Len(queue') : queue'[i] = queue[i + 1]
      /\ \A i \in 1 .. Len(queue) : queue[i] \in Jobs
  BY <1>0, <1>1, HeadTailProperties, LenProperties, ElementOfSeq, EmptySeq DEF IInv, TypeOK
<1>3. TypeOK'
  BY <1>1, <1>2 DEF IInv, TypeOK
<1>4. \A i \in 1 .. Len(queue') : i + 1 \in 1 .. Len(queue) /\ i + 1 # 1
  BY <1>2
<1>5. /\ head \in Jobs
      /\ status[head] \in Unstarted
      /\ \A i \in 1 .. Len(queue') : queue'[i] # head
      /\ \A v \in Workers : worker[v].job # head
  <2>1. 1 \in 1 .. Len(queue)
    BY <1>2
  <2>2. head \in Jobs /\ status[head] \in Unstarted
    BY <1>2, <2>1 DEF IInv, QueueInv
  <2>3. \A i \in 1 .. Len(queue') : queue'[i] # head
    BY <1>2, <1>4, <2>1 DEF IInv, QueueInv
  <2>4. \A v \in Workers : worker[v].job # head
    BY <1>2, <2>1 DEF IInv, QueueInv
  <2> QED  BY <2>2, <2>3, <2>4
<1>6. \A v \in Workers :
         worker'[v] \in {worker[v], IF v = w THEN [pc |-> "picked", job |-> head] ELSE worker[v]}
  <2>1. CASE head \in futureCancelled
    BY <1>1, <2>1
  <2>2. CASE head \notin futureCancelled
    BY <1>1, <2>2 DEF IInv, TypeOK
  <2> QED  BY <2>1, <2>2
<1>7. QueueInv'
  <2>1. \A i, k \in 1 .. Len(queue') : queue'[i] = queue'[k] => i = k
    BY <1>2, <1>4 DEF IInv, QueueInv
  <2>2. \A i \in 1 .. Len(queue') : status'[queue'[i]] \in Unstarted
    BY <1>1, <1>2, <1>4 DEF IInv, QueueInv
  <2>3. \A i \in 1 .. Len(queue'), v \in Workers : worker'[v].job # queue'[i]
    BY <1>2, <1>4, <1>5, <1>6 DEF IInv, QueueInv
  <2> QED  BY <1>1, <2>1, <2>2, <2>3 DEF IInv, QueueInv
<1>8. WorkerInv'
  <2>1. worker[w].job = NoJob
    BY <1>1 DEF IInv, WorkerInv
  <2>2. \A j \in Jobs : status'[j] = "running" =>
           \E v \in Workers : worker'[v].job = j /\ worker'[v].pc \in Executing
    BY <1>1, <1>6, <2>1, RunJobsAssumption DEF IInv, WorkerInv, Executing, Terminal
  <2>3. \A u, v \in Workers : u # v /\ worker'[u].job = worker'[v].job
                              => worker'[u].job = NoJob
    BY <1>5, <1>6 DEF IInv, WorkerInv
  <2>4. \A v \in Workers :
           /\ worker'[v].pc \in {"idle", "exited"} => worker'[v].job = NoJob
           /\ worker'[v].pc = "picked" =>
                 worker'[v].job \in Jobs /\ status'[worker'[v].job] \in Unstarted
           /\ worker'[v].pc \in Executing =>
                 worker'[v].job \in Jobs /\ status'[worker'[v].job] = "running"
    BY <1>1, <1>5, <1>6 DEF IInv, WorkerInv, Executing, Terminal
  <2> QED  BY <2>2, <2>3, <2>4 DEF WorkerInv
<1>9. CloserInv' /\ CancelWins'
  BY <1>1 DEF IInv, CloserInv, CancelWins, ShutDown
<1>10. NeverStranded'
  <2>1. ASSUME NEW j \in Jobs, status'[j] = "queued"
        PROVE  \/ Queued(j)' /\ j \notin futureCancelled'
               \/ \E v \in Workers : worker'[v] = [pc |-> "picked", job |-> j]
    <3>1. status[j] = "queued" /\ j \notin futureCancelled
      BY <1>1, <2>1 DEF IInv, QueueInv
    <3>2. CASE j = head
      BY <1>1, <3>1, <3>2 DEF IInv, TypeOK
    <3>3. CASE j # head /\ Queued(j)
      <4>1. PICK i \in 1 .. Len(queue) : queue[i] = j
        BY <3>3 DEF Queued
      <4>2. i # 1
        BY <1>2, <3>3, <4>1
      <4>3. i - 1 \in 1 .. Len(queue') /\ queue'[i - 1] = j
        BY <1>2, <4>1, <4>2
      <4> QED  BY <1>1, <3>1, <4>3 DEF Queued
    <3>4. CASE ~Queued(j)
      <4>1. PICK v \in Workers : worker[v] = [pc |-> "picked", job |-> j]
        BY <3>1, <3>4 DEF IInv, NeverStranded
      <4>2. v # w
        BY <1>1, <4>1
      <4> QED  BY <1>6, <4>1, <4>2
    <3> QED  BY <3>2, <3>3, <3>4
  <2> QED  BY <2>1 DEF NeverStranded
<1> QED  BY <1>3, <1>7, <1>8, <1>9, <1>10 DEF IInv

\* A worker moves on with its job, or lets go of it, and nothing else changes.
LEMMA WorkerMovesKeepsIInv ==
    ASSUME IInv, NEW w \in Workers, NEW place,
           worker' = [worker EXCEPT ![w] = place],
           \/ /\ worker[w].pc = "running"
              /\ \E pc \in Terminal : place = [pc |-> pc, job |-> worker[w].job]
           \/ /\ worker[w].pc = "picked" /\ status[worker[w].job] # "queued"
              /\ place = [pc |-> "idle", job |-> NoJob]
           \/ /\ worker[w].pc = "idle"
              /\ place = [pc |-> "exited", job |-> NoJob],
           UNCHANGED <<status, finishedSequence, finishedAt, progress, detail>>,
           UNCHANGED <<cancelled, queue, futureCancelled, submitter, closer>>
    PROVE  IInv'
<1>1. /\ place.job \in {worker[w].job, NoJob}
      /\ place \in [pc : {"idle", "exited"} \union Terminal, job : Jobs \union {NoJob}]
  BY DEF IInv, TypeOK
<1>2. worker' \in [Workers -> [pc : {"idle", "picked", "running", "completed",
                                     "failed", "cancelled", "exited"},
                               job : Jobs \union {NoJob}]]
  BY <1>1 DEF IInv, TypeOK, Terminal
<1>3. \A v \in Workers : worker'[v] = IF v = w THEN place ELSE worker[v]
  BY DEF IInv, TypeOK
<1>4. TypeOK'
  BY <1>2 DEF IInv, TypeOK
<1>5. QueueInv'
  <2>1. \A i \in 1 .. Len(queue) : queue[i] \in Jobs
    BY ElementOfSeq DEF IInv, TypeOK
  <2> QED  BY <1>1, <1>3, <2>1, RunJobsAssumption DEF IInv, QueueInv
<1>6. WorkerInv'
  <2>1. \A u, v \in Workers : u # v /\ worker'[u].job = worker'[v].job
                              => worker'[u].job = NoJob
    BY <1>1, <1>3 DEF IInv, WorkerInv
  <2>2. \A j \in Jobs : status'[j] = "running" =>
           \E v \in Workers : worker'[v].job = j /\ worker'[v].pc \in Executing
    BY <1>3 DEF IInv, WorkerInv, Executing, Terminal
  <2>3. \A v \in Workers :
           /\ worker'[v].pc \in {"idle", "exited"} => worker'[v].job = NoJob
           /\ worker'[v].pc = "picked" =>
                 worker'[v].job \in Jobs /\ status'[worker'[v].job] \in Unstarted
           /\ worker'[v].pc \in Executing =>
                 worker'[v].job \in Jobs /\ status'[worker'[v].job] = "running"
    BY <1>3 DEF IInv, WorkerInv, Executing, Terminal
  <2> QED  BY <2>1, <2>2, <2>3 DEF WorkerInv
<1>7. CloserInv' /\ CancelWins'
  BY DEF IInv, CloserInv, CancelWins, ShutDown
<1>8. NeverStranded'
  <2>1. ASSUME NEW j \in Jobs, status'[j] = "queued"
        PROVE  \/ Queued(j)' /\ j \notin futureCancelled'
               \/ \E v \in Workers : worker'[v] = [pc |-> "picked", job |-> j]
    <3>1. Queued(j)' = Queued(j)
      BY DEF Queued
    <3>2. ASSUME NEW v \in Workers, worker[v] = [pc |-> "picked", job |-> j]
          PROVE  worker'[v] = worker[v]
      BY <1>3, <2>1, <3>2
    <3> QED  BY <2>1, <3>1, <3>2 DEF IInv, NeverStranded
  <2> QED  BY <2>1 DEF NeverStranded
<1> QED  BY <1>4, <1>5, <1>6, <1>7, <1>8 DEF IInv

\* The first block of _run_job() and the last one change the job as well.
LEMMA StartKeepsIInv ==
    ASSUME IInv, NEW w \in Workers, Start(w)
    PROVE  IInv'
<1> DEFINE j == worker[w].job
<1>1. /\ worker[w].pc = "picked"
      /\ status[j] \notin {"new", "removed", "cancelled"}
      /\ status' = [status EXCEPT ![j] = "running"]
      /\ progress' = [progress EXCEPT ![j] = "starting"]
      /\ worker' = [worker EXCEPT ![w].pc = "running"]
      /\ UNCHANGED <<cancelled, finishedSequence, finishedAt, detail>>
      /\ UNCHANGED <<queue, futureCancelled, submitter, closer>>
  BY DEF Start, GoTo, poolVars, Present, Ongoing, Terminal
<1>2. j \in Jobs /\ status[j] = "queued"
  BY <1>1 DEF IInv, WorkerInv, Unstarted
<1>3. /\ \A v \in Workers : worker'[v] = IF v = w THEN [pc |-> "running", job |-> j]
                                                  ELSE worker[v]
      /\ \A v \in Workers : v # w => worker[v].job # j
      /\ \A i \in Jobs : status'[i] = IF i = j THEN "running" ELSE status[i]
  BY <1>1, <1>2, RunJobsAssumption DEF IInv, TypeOK, WorkerInv
<1>4. \A i \in 1 .. Len(queue) : queue[i] \in Jobs /\ queue[i] # j
  BY ElementOfSeq DEF IInv, TypeOK, QueueInv
<1>5. TypeOK'
  BY <1>1, <1>2, ZenonT(60) DEF IInv, TypeOK, Present, Ongoing
<1> HIDE DEF j
<1>6. QueueInv'
  BY <1>1, <1>2, <1>3, <1>4 DEF IInv, TypeOK, QueueInv
<1>7. WorkerInv'
  <2>1. \A u, v \in Workers : u # v /\ worker'[u].job = worker'[v].job
                              => worker'[u].job = NoJob
    BY <1>3 DEF IInv, WorkerInv
  <2>2. \A i \in Jobs : status'[i] = "running" =>
           \E v \in Workers : worker'[v].job = i /\ worker'[v].pc \in Executing
    BY <1>1, <1>3 DEF IInv, WorkerInv, Executing, Terminal
  <2>3. \A v \in Workers :
           /\ worker'[v].pc \in {"idle", "exited"} => worker'[v].job = NoJob
           /\ worker'[v].pc = "picked" =>
                 worker'[v].job \in Jobs /\ status'[worker'[v].job] \in Unstarted
           /\ worker'[v].pc \in Executing =>
                 worker'[v].job \in Jobs /\ status'[worker'[v].job] = "running"
    BY <1>2, <1>3 DEF IInv, WorkerInv, Executing, Terminal
  <2> QED  BY <2>1, <2>2, <2>3 DEF WorkerInv
<1>8. CloserInv'
  BY <1>1, <1>3 DEF IInv, CloserInv, ShutDown
<1>9. CancelWins'
  BY <1>1, <1>3 DEF IInv, TypeOK, CancelWins
<1>10. NeverStranded'
  <2>1. ASSUME NEW i \in Jobs, status'[i] = "queued"
        PROVE  \/ Queued(i)' /\ i \notin futureCancelled'
               \/ \E v \in Workers : worker'[v] = [pc |-> "picked", job |-> i]
    <3>1. status[i] = "queued" /\ i # j
      BY <1>3, <2>1
    <3>2. worker[w] # [pc |-> "picked", job |-> i]
      BY <3>1 DEF j
    <3> QED  BY <1>1, <1>3, <3>1, <3>2 DEF IInv, NeverStranded, Queued
  <2> QED  BY <2>1 DEF NeverStranded
<1> QED  BY <1>5, <1>6, <1>7, <1>8, <1>9, <1>10 DEF IInv

LEMMA CommitRunKeepsIInv ==
    ASSUME IInv, NEW w \in Workers, CommitRun(w)
    PROVE  IInv'
<1> DEFINE j == worker[w].job
           outcome == IF j \in cancelled THEN "cancelled" ELSE worker[w].pc
<1>1. /\ worker[w].pc \in Terminal
      /\ worker' = [worker EXCEPT ![w] = [pc |-> "idle", job |-> NoJob]]
      /\ UNCHANGED <<cancelled, queue, futureCancelled, submitter, closer>>
  BY DEF CommitRun, Release, poolVars
<1>2. j \in Jobs /\ status[j] = "running"
  BY <1>1 DEF IInv, WorkerInv, Executing
<1>3. Finish(j, outcome) /\ outcome \in Terminal
  BY <1>1, <1>2 DEF CommitRun, Ongoing, Terminal
<1>4. j \in cancelled => outcome = "cancelled"
  OBVIOUS
<1> HIDE DEF outcome
<1>5. /\ status' \in [Jobs -> Statuses]
      /\ finishedSequence' \in Nat
      /\ finishedAt' \in [Jobs -> Nat]
      /\ progress' \in [Jobs -> Stages \union Terminal
                              \union {"none", "queued", "starting", "cancelling"}]
      /\ detail' \subseteq Jobs
      /\ status'[j] \in {outcome, "removed"}
      /\ \A i \in Jobs \ {j} :
            \/ status'[i] = status[i]
            \/ status[i] \in Terminal /\ status'[i] = "removed"
  BY <1>2, <1>3, FinishFacts DEF IInv
<1>6. /\ \A v \in Workers : worker'[v] = IF v = w THEN [pc |-> "idle", job |-> NoJob]
                                                  ELSE worker[v]
      /\ \A v \in Workers : v # w => worker[v].job # j
  BY <1>1, <1>2, RunJobsAssumption DEF IInv, TypeOK, WorkerInv
<1>7. \A i \in 1 .. Len(queue) : queue[i] \in Jobs /\ queue[i] # j
  BY ElementOfSeq DEF IInv, TypeOK, QueueInv
<1>8. TypeOK'
  BY <1>1, <1>5 DEF IInv, TypeOK, Statuses
<1> HIDE DEF j
<1>9. \A i \in Jobs : status'[i] \in Ongoing => status'[i] = status[i] /\ i # j
  BY <1>3, <1>5 DEF Ongoing, Terminal
<1>10. \A i \in Jobs : status[i] \in Unstarted => status'[i] \in Unstarted
  BY <1>2, <1>5 DEF Unstarted, Terminal
<1>11. QueueInv'
  <2>1. \A i \in 1 .. Len(queue), v \in Workers : worker'[v].job # queue[i]
    BY <1>6, <1>7, RunJobsAssumption DEF IInv, QueueInv
  <2>2. \A f \in futureCancelled : status'[f] \notin {"new", "queued"}
    BY <1>3, <1>5 DEF IInv, TypeOK, QueueInv, Terminal
  <2> QED  BY <1>1, <1>7, <1>10, <2>1, <2>2 DEF IInv, QueueInv
<1>12. WorkerInv'
  <2>1. \A u, v \in Workers : u # v /\ worker'[u].job = worker'[v].job
                              => worker'[u].job = NoJob
    BY <1>6 DEF IInv, WorkerInv
  <2>2. \A i \in Jobs : status'[i] = "running" =>
           \E v \in Workers : worker'[v].job = i /\ worker'[v].pc \in Executing
    <3> SUFFICES ASSUME NEW i \in Jobs, status'[i] = "running"
                 PROVE  \E v \in Workers : worker'[v].job = i /\ worker'[v].pc \in Executing
      OBVIOUS
    <3>1. status[i] = "running" /\ i # j
      BY <1>9 DEF Ongoing
    <3>2. PICK v \in Workers : worker[v].job = i /\ worker[v].pc \in Executing
      BY <3>1 DEF IInv, WorkerInv
    <3>3. v # w
      BY <3>1, <3>2 DEF j
    <3> QED  BY <1>6, <3>2, <3>3
  <2>3. ASSUME NEW v \in Workers
        PROVE  /\ worker'[v].pc \in {"idle", "exited"} => worker'[v].job = NoJob
               /\ worker'[v].pc = "picked" =>
                     worker'[v].job \in Jobs /\ status'[worker'[v].job] \in Unstarted
               /\ worker'[v].pc \in Executing =>
                     worker'[v].job \in Jobs /\ status'[worker'[v].job] = "running"
    <3>1. CASE v = w
      BY <1>6, <3>1 DEF Executing, Terminal
    <3>2. CASE v # w
      BY <1>5, <1>6, <1>10, <3>2 DEF IInv, WorkerInv, Terminal
    <3> QED  BY <3>1, <3>2
  <2> QED  BY <2>1, <2>2, <2>3 DEF WorkerInv
<1>13. CloserInv'
  BY <1>1, <1>9 DEF IInv, CloserInv, ShutDown, Ongoing
<1>14. CancelWins'
  BY <1>1, <1>4, <1>5 DEF IInv, TypeOK, CancelWins, Terminal
<1>15. NeverStranded'
  <2>1. ASSUME NEW i \in Jobs, status'[i] = "queued"
        PROVE  \/ Queued(i)' /\ i \notin futureCancelled'
               \/ \E v \in Workers : worker'[v] = [pc |-> "picked", job |-> i]
    <3>1. status[i] = "queued"
      BY <1>9, <2>1 DEF Ongoing
    <3>2. worker[w] # [pc |-> "picked", job |-> i]
      BY <1>1 DEF Terminal
    <3> QED  BY <1>1, <1>6, <3>1, <3>2 DEF IInv, NeverStranded, Queued
  <2> QED  BY <2>1 DEF NeverStranded
<1> QED  BY <1>8, <1>11, <1>12, <1>13, <1>14, <1>15 DEF IInv

LEMMA ReportKeepsIInv ==
    ASSUME IInv, NEW w \in Workers, NEW stage \in Stages, Report(w, stage)
    PROVE  IInv'
<1>1. /\ progress' \in [Jobs -> Stages \union Terminal
                              \union {"none", "queued", "starting", "cancelling"}]
      /\ detail' \subseteq Jobs
  BY DEF Report, IInv, TypeOK, WorkerInv, Executing
<1>2. /\ UNCHANGED <<status, finishedSequence, finishedAt, cancelled>>
      /\ UNCHANGED <<queue, futureCancelled, worker, submitter, closer>>
  BY DEF Report, poolVars
<1>3. TypeOK'
  BY <1>1, <1>2 DEF IInv, TypeOK
<1>4. QueueInv' /\ WorkerInv'
  BY <1>2 DEF IInv, QueueInv, WorkerInv
<1>5. CloserInv' /\ NeverStranded' /\ CancelWins'
  BY <1>2 DEF IInv, CloserInv, NeverStranded, CancelWins, ShutDown, Queued
<1> QED  BY <1>3, <1>4, <1>5 DEF IInv

\* GoTo() rewrites the worker's place.
LEMMA GoToFacts ==
    ASSUME IInv, NEW w \in Workers, NEW pc, GoTo(w, pc)
    PROVE  worker' = [worker EXCEPT ![w] = [pc |-> pc, job |-> worker[w].job]]
<1>1. worker[w] = [pc |-> worker[w].pc, job |-> worker[w].job]
  BY DEF IInv, TypeOK
<1>2. [worker[w] EXCEPT !.pc = pc] = [pc |-> pc, job |-> worker[w].job]
  BY <1>1
<1>3. worker' = [worker EXCEPT ![w] = [worker[w] EXCEPT !.pc = pc]]
  BY DEF GoTo
<1> QED  BY <1>2, <1>3

LEMMA WorkerKeepsIInv ==
    ASSUME IInv, NEW w \in Workers, WorkerStep(w)
    PROVE  IInv'
<1>1. ASSUME Skip(w) PROVE IInv'
  <2>1. UNCHANGED <<status, finishedSequence, finishedAt, progress, detail>>
    BY <1>1 DEF Skip, jobVars
  <2>2. UNCHANGED <<cancelled, queue, futureCancelled, submitter, closer>>
    BY <1>1 DEF Skip, poolVars
  <2>3. /\ worker[w].pc = "picked" /\ status[worker[w].job] # "queued"
        /\ worker' = [worker EXCEPT ![w] = [pc |-> "idle", job |-> NoJob]]
    BY <1>1 DEF Skip, Release, Present, Ongoing
  <2> QED  BY <2>1, <2>2, <2>3, WorkerMovesKeepsIInv
<1>2. ASSUME NEW outcome \in Terminal, EndRun(w, outcome) PROVE IInv'
  <2>1. UNCHANGED <<status, finishedSequence, finishedAt, progress, detail>>
    BY <1>2 DEF EndRun, jobVars
  <2>2. UNCHANGED <<cancelled, queue, futureCancelled, submitter, closer>>
    BY <1>2 DEF EndRun, poolVars
  <2>3. /\ worker[w].pc = "running"
        /\ worker' = [worker EXCEPT ![w] = [pc |-> outcome, job |-> worker[w].job]]
    BY <1>2, GoToFacts DEF EndRun
  <2> QED  BY <2>1, <2>2, <2>3, WorkerMovesKeepsIInv
<1>3. ASSUME ExitWorker(w) PROVE IInv'
  <2>1. UNCHANGED <<status, finishedSequence, finishedAt, progress, detail>>
    BY <1>3 DEF ExitWorker, jobVars
  <2>2. UNCHANGED <<cancelled, queue, futureCancelled, submitter, closer>>
    BY <1>3 DEF ExitWorker, poolVars
  <2>3. /\ worker[w].pc = "idle"
        /\ worker' = [worker EXCEPT ![w] = [pc |-> "exited", job |-> NoJob]]
    BY <1>3, GoToFacts DEF ExitWorker, IInv, WorkerInv
  <2> QED  BY <2>1, <2>2, <2>3, WorkerMovesKeepsIInv
<1> QED  BY <1>1, <1>2, <1>3, TakeKeepsIInv, StartKeepsIInv, CommitRunKeepsIInv DEF WorkerStep

----------------------------------------------------------------------------
(* shutdown(). *)

LEMMA BeginShutdownKeepsIInv ==
    ASSUME IInv, NEW cancelPending \in BOOLEAN, NEW cancelRunning \in BOOLEAN,
           BeginShutdown(cancelPending, cancelRunning)
    PROVE  IInv'
<1>1. /\ UNCHANGED <<status, finishedSequence, finishedAt, progress, detail>>
      /\ UNCHANGED <<cancelled, queue, futureCancelled, worker, submitter>>
  BY DEF BeginShutdown, jobVars, poolVars
<1>2. TypeOK'
  BY <1>1 DEF BeginShutdown, IInv, TypeOK
<1>3. CloserInv'
  BY <1>1 DEF BeginShutdown, CloserInv
<1>4. QueueInv' /\ WorkerInv'
  BY <1>1 DEF IInv, QueueInv, WorkerInv
<1>5. NeverStranded' /\ CancelWins'
  BY <1>1 DEF IInv, NeverStranded, CancelWins, Queued
<1> QED  BY <1>2, <1>3, <1>4, <1>5 DEF IInv

LEMMA CancelTargetKeepsIInv ==
    ASSUME IInv, NEW j \in Jobs, CancelTarget(j)
    PROVE  IInv'
<1>1. /\ closer.pc = "cancelling"
      /\ closer' = [closer EXCEPT !.targets = @ \ {j}]
      /\ UNCHANGED <<queue, worker, submitter>>
  BY DEF CancelTarget
<1>2. /\ closer' \in [pc : {"open", "cancelling", "joining", "closed"},
                      targets : SUBSET Jobs, pending : BOOLEAN]
      /\ closer'.pc = closer.pc /\ closer'.pending = closer.pending
      /\ closer'.targets = closer.targets \ {j}
  BY <1>1 DEF IInv, TypeOK
<1>3. CASE CancelActive(j)
  BY <1>1, <1>2, <1>3, CancelActiveKeepsIInv
<1>4. CASE status[j] \notin Ongoing /\ UNCHANGED <<jobVars, cancelled, futureCancelled>>
  <2>1. UNCHANGED <<status, finishedSequence, finishedAt, progress, detail,
                    cancelled, futureCancelled>>
    BY <1>4 DEF jobVars
  <2>2. TypeOK'
    BY <1>1, <1>2, <2>1 DEF IInv, TypeOK
  <2>3. CloserInv'
    BY <1>1, <1>2, <1>4, <2>1 DEF IInv, CloserInv, ShutDown, Ongoing
  <2>4. QueueInv' /\ WorkerInv'
    BY <1>1, <2>1 DEF IInv, QueueInv, WorkerInv
  <2>5. NeverStranded' /\ CancelWins'
    BY <1>1, <2>1 DEF IInv, NeverStranded, CancelWins, Queued
  <2> QED  BY <2>2, <2>3, <2>4, <2>5 DEF IInv
<1> QED  BY <1>3, <1>4 DEF CancelTarget

\* Draining the queue strands nobody: every queued job was a target.
LEMMA ClosePoolKeepsIInv ==
    ASSUME IInv, ClosePool
    PROVE  IInv'
<1>1. /\ closer.pc = "cancelling" /\ closer.targets = {}
      /\ closer' = [closer EXCEPT !.pc = "joining"]
      /\ queue' = IF closer.pending THEN <<>> ELSE queue
      /\ futureCancelled' = IF closer.pending
                            THEN futureCancelled \union {j \in Jobs : Queued(j)}
                            ELSE futureCancelled
      /\ UNCHANGED <<status, finishedSequence, finishedAt, progress, detail>>
      /\ UNCHANGED <<cancelled, worker, submitter>>
  BY DEF ClosePool, jobVars
<1>2. closer.pending => \A j \in Jobs : status[j] # "queued"
  BY <1>1 DEF IInv, CloserInv, ShutDown
<1>3. TypeOK'
  <2>1. closer' \in [pc : {"open", "cancelling", "joining", "closed"},
                     targets : SUBSET Jobs, pending : BOOLEAN]
    BY <1>1 DEF IInv, TypeOK
  <2>2. queue' \in Seq(Jobs) /\ futureCancelled' \subseteq Jobs
    BY <1>1, EmptySeq DEF IInv, TypeOK
  <2> QED  BY <1>1, <2>1, <2>2 DEF IInv, TypeOK
<1>4. CloserInv'
  BY <1>1, <1>2 DEF IInv, TypeOK, CloserInv, ShutDown
<1>5. WorkerInv' /\ CancelWins'
  BY <1>1 DEF IInv, WorkerInv, CancelWins
<1>6. CASE closer.pending
  <2>1. \A f \in futureCancelled' : f \in Jobs /\ status[f] \notin {"new", "queued"}
    BY <1>1, <1>2, <1>6 DEF IInv, TypeOK, QueueInv, Queued, Unstarted
  <2>2. QueueInv'
    BY <1>1, <1>6, <2>1 DEF QueueInv
  <2>3. NeverStranded'
    BY <1>1, <1>2, <1>6 DEF NeverStranded
  <2> QED  BY <1>3, <1>4, <1>5, <2>2, <2>3 DEF IInv
<1>7. CASE ~closer.pending
  <2>1. QueueInv' /\ NeverStranded'
    BY <1>1, <1>7 DEF IInv, QueueInv, NeverStranded, Queued
  <2> QED  BY <1>3, <1>4, <1>5, <2>1 DEF IInv
<1> QED  BY <1>6, <1>7

LEMMA JoinPoolKeepsIInv ==
    ASSUME IInv, JoinPool
    PROVE  IInv'
<1>1. /\ closer.pc = "joining" /\ closer' = [closer EXCEPT !.pc = "closed"]
      /\ UNCHANGED <<status, finishedSequence, finishedAt, progress, detail>>
      /\ UNCHANGED <<cancelled, queue, futureCancelled, worker, submitter>>
  BY DEF JoinPool, jobVars, poolVars
<1>2. TypeOK'
  BY <1>1 DEF IInv, TypeOK
<1>3. CloserInv'
  BY <1>1 DEF IInv, TypeOK, CloserInv, ShutDown
<1>4. QueueInv' /\ WorkerInv'
  BY <1>1 DEF IInv, QueueInv, WorkerInv
<1>5. NeverStranded' /\ CancelWins'
  BY <1>1 DEF IInv, NeverStranded, CancelWins, Queued
<1> QED  BY <1>2, <1>3, <1>4, <1>5 DEF IInv

----------------------------------------------------------------------------
(* The invariant, and what follows from it. *)

LEMMA NextKeepsIInv == IInv /\ [Next]_vars => IInv'
<1> SUFFICES ASSUME IInv, [Next]_vars PROVE IInv'
  OBVIOUS
<1>1. ASSUME NEW s \in Submitters, SubmitStep(s) PROVE IInv'
  BY <1>1, SubmitKeepsIInv
<1>2. CASE \/ \E j \in Jobs : Cancel(j) \/ PruneJob(j)
           \/ \E keep \in 0 .. MaxHistory : PruneKeep(keep)
  BY <1>2, CallerKeepsIInv
<1>3. ASSUME NEW w \in Workers, WorkerStep(w) PROVE IInv'
  BY <1>3, WorkerKeepsIInv
<1>4. ASSUME NEW w \in Workers, NEW stage \in Stages, Report(w, stage) PROVE IInv'
  BY <1>4, ReportKeepsIInv
<1>5. CASE \E cancelPending, cancelRunning \in BOOLEAN :
              BeginShutdown(cancelPending, cancelRunning)
  BY <1>5, BeginShutdownKeepsIInv
<1>6. CASE CloserStep
  BY <1>6, CancelTargetKeepsIInv, ClosePoolKeepsIInv, JoinPoolKeepsIInv DEF CloserStep
<1>7. CASE UNCHANGED vars
  <2>1. /\ UNCHANGED <<jobVars, cancelled, poolVars, worker, closer>>
        /\ UNCHANGED submitter
    BY <1>7 DEF vars
  <2>2. submitter' \in [Submitters -> {"idle", "estimating"}]
    BY <2>1 DEF IInv, TypeOK
  <2> QED  BY <2>1, <2>2, SubmitterMovesKeepsIInv
<1> QED  BY <1>1, <1>2, <1>3, <1>4, <1>5, <1>6, <1>7 DEF Next

\* The inductive invariant holds in every reachable state.
THEOREM SpecIInv == Spec => []IInv
BY InitIInv, NextKeepsIInv, PTL DEF Spec

\* Type correctness of the job manager.
THEOREM SpecTypeOK == Spec => []TypeOK
<1>1. IInv => TypeOK
  BY DEF IInv
<1> QED  BY <1>1, SpecIInv, PTL

\* cancel() answered True means the job never ends completed or failed.
THEOREM SpecCancelWins == Spec => []CancelWins
<1>1. IInv => CancelWins
  BY DEF IInv
<1> QED  BY <1>1, SpecIInv, PTL

\* Neither cancellation, nor pruning, nor shutdown ever leaves a queued job
\* that no worker will be handed.
THEOREM SpecNeverStranded == Spec => []NeverStranded
<1>1. IInv => NeverStranded
  BY DEF IInv
<1> QED  BY <1>1, SpecIInv, PTL

\* A job is shown running exactly while one worker executes it.
THEOREM SpecRunningIsHeld == Spec => []RunningIsHeld
<1>1. IInv => RunningIsHeld
  BY DEF IInv, WorkerInv, RunningIsHeld, Executing
<1> QED  BY <1>1, SpecIInv, PTL

----------------------------------------------------------------------------
(* What a step does to statuses, and the bound on active jobs. *)

\* The transitions of a job that is not being admitted.
Moves(from, to) ==
    \/ to = from
    \/ from = "new" /\ to = "removed"
    \/ from = "queued" /\ to = "running"
    \/ from \in Ongoing /\ to \in Terminal \union {"removed"}
    \/ from \in Terminal /\ to = "removed"

\* Job j may only be admitted, and only below the bound; others move.
Admits(j) ==
    /\ status[j] = "new" /\ status'[j] = "queued" /\ HasCapacity
    /\ \A i \in Jobs \ {j} : status'[i] = status[i]

LEMMA FinishMoves ==
    ASSUME TypeOK, NEW j \in Jobs, status[j] \in Ongoing,
           NEW outcome \in Terminal, Finish(j, outcome)
    PROVE  \A i \in Jobs : Moves(status[i], status'[i])
BY FinishFacts DEF Moves

LEMMA StepMoves ==
    ASSUME IInv, [Next]_vars
    PROVE  (\A i \in Jobs : Moves(status[i], status'[i])) \/ (\E j \in Jobs : Admits(j))
<1>1. ASSUME NEW s \in Submitters, SubmitStep(s)
      PROVE (\A i \in Jobs : Moves(status[i], status'[i])) \/ (\E j \in Jobs : Admits(j))
  <2>1. CASE CheckSubmit(s) \/ RefuseSubmit(s)
    BY <2>1 DEF CheckSubmit, RefuseSubmit, jobVars, Moves
  <2>2. CASE CommitSubmit(s)
    BY <2>2 DEF CommitSubmit, Admits, IInv, TypeOK
  <2>3. CASE FailEnqueue(s)
    BY <2>3 DEF FailEnqueue, Moves, IInv, TypeOK
  <2> QED  BY <1>1, <2>1, <2>2, <2>3 DEF SubmitStep
<1>2. ASSUME NEW j \in Jobs, CancelActive(j)
      PROVE \A i \in Jobs : Moves(status[i], status'[i])
  BY <1>2, FinishMoves DEF CancelActive, Moves, IInv, Ongoing, Terminal
<1>3. ASSUME NEW j \in Jobs, PruneJob(j)
      PROVE \A i \in Jobs : Moves(status[i], status'[i])
  BY <1>3 DEF PruneJob, Moves, IInv, TypeOK
<1>4. ASSUME NEW keep \in 0 .. MaxHistory, PruneKeep(keep)
      PROVE \A i \in Jobs : Moves(status[i], status'[i])
  <2>1. status \in [Jobs -> Statuses]
    BY DEF IInv, TypeOK, Statuses
  <2> QED  BY <1>4, <2>1, PrunedFacts DEF PruneKeep, Moves
<1>5. ASSUME NEW w \in Workers, WorkerStep(w)
      PROVE \A i \in Jobs : Moves(status[i], status'[i])
  <2>1. CASE Take(w) \/ Skip(w) \/ ExitWorker(w)
             \/ \E outcome \in Terminal : EndRun(w, outcome)
    BY <2>1 DEF Take, Skip, ExitWorker, EndRun, jobVars, Moves
  <2>2. CASE Start(w)
    BY <2>2 DEF Start, Moves, IInv, TypeOK, WorkerInv, Unstarted, Present, Ongoing, Terminal
  <2>3. CASE CommitRun(w)
    <3>1. worker[w].job \in Jobs /\ status[worker[w].job] \in Ongoing
      BY <2>3 DEF CommitRun, IInv, WorkerInv, Executing, Ongoing
    <3>2. PICK outcome \in Terminal : Finish(worker[w].job, outcome)
      BY <2>3, <3>1 DEF CommitRun, Terminal
    <3> QED  BY <3>1, <3>2, FinishMoves DEF IInv
  <2> QED  BY <1>5, <2>1, <2>2, <2>3 DEF WorkerStep
<1>6. ASSUME NEW w \in Workers, NEW stage \in Stages, Report(w, stage)
      PROVE \A i \in Jobs : Moves(status[i], status'[i])
  BY <1>6 DEF Report, Moves
<1>7. CASE \E cancelPending, cancelRunning \in BOOLEAN :
              BeginShutdown(cancelPending, cancelRunning)
  BY <1>7 DEF BeginShutdown, jobVars, Moves
<1>8. CASE CloserStep
  <2>1. CASE ClosePool \/ JoinPool
    BY <2>1 DEF ClosePool, JoinPool, jobVars, Moves
  <2>2. ASSUME NEW j \in Jobs, CancelTarget(j)
        PROVE \A i \in Jobs : Moves(status[i], status'[i])
    BY <1>2, <2>2 DEF CancelTarget, jobVars, Moves
  <2> QED  BY <1>8, <2>1, <2>2 DEF CloserStep
<1>9. CASE UNCHANGED vars
  BY <1>9 DEF vars, jobVars, Moves
<1> QED  BY <1>1, <1>2, <1>3, <1>4, <1>5, <1>6, <1>7, <1>8, <1>9 DEF Next, Cancel

\* A terminal job only ever disappears, a removed one stays away, and no job
\* runs twice.
THEOREM SpecTerminalIsFinal == Spec => TerminalIsFinal
<1>1. ASSUME IInv, [Next]_vars
      PROVE  \A j \in Jobs :
                /\ status[j] \in Terminal => status'[j] \in {status[j], "removed"}
                /\ status[j] = "removed" => status'[j] = "removed"
                /\ status[j] = "running" => status'[j] # "queued"
  BY <1>1, StepMoves DEF Moves, Admits, Ongoing, Terminal
<1>2. IInv /\ [Next]_vars =>
         [\A j \in Jobs :
             /\ status[j] \in Terminal => status'[j] \in {status[j], "removed"}
             /\ status[j] = "removed" => status'[j] = "removed"
             /\ status[j] = "running" => status'[j] # "queued"]_vars
  BY <1>1
<1> QED  BY <1>2, SpecIInv, PTL DEF Spec, TerminalIsFinal

\* The bound is inductive once steps are known to admit one job at most.
LEMMA ActiveBoundStep ==
    ASSUME IInv, ActiveBound, [Next]_vars
    PROVE  ActiveBound'
<1>1. IsFiniteSet(ActiveJobs) /\ IsFiniteSet(ActiveJobs')
  BY RunJobsAssumption, FS_Subset DEF ActiveJobs
<1>2. /\ Cardinality(ActiveJobs) \in Nat /\ Cardinality(ActiveJobs') \in Nat
      /\ MaxActive \in Nat
  BY <1>1, FS_CardinalityType, RunJobsAssumption
<1>3. CASE \A i \in Jobs : Moves(status[i], status'[i])
  <2>1. ActiveJobs' \subseteq ActiveJobs
    BY <1>3 DEF ActiveJobs, Moves, Ongoing, Terminal
  <2>2. Cardinality(ActiveJobs') <= Cardinality(ActiveJobs)
    BY <1>1, <2>1, FS_Subset
  <2> QED  BY <1>2, <2>2 DEF ActiveBound
<1>4. ASSUME NEW j \in Jobs, Admits(j) PROVE ActiveBound'
  <2>1. ActiveJobs' \subseteq ActiveJobs \union {j}
    BY <1>4 DEF ActiveJobs, Admits
  <2>2. /\ IsFiniteSet(ActiveJobs \union {j})
        /\ Cardinality(ActiveJobs \union {j}) <= Cardinality(ActiveJobs) + 1
    <3>1. /\ IsFiniteSet(ActiveJobs \union {j})
          /\ \/ Cardinality(ActiveJobs \union {j}) = Cardinality(ActiveJobs)
             \/ Cardinality(ActiveJobs \union {j}) = Cardinality(ActiveJobs) + 1
      BY <1>1, FS_AddElement
    <3> QED  BY <1>2, <3>1
  <2>3. Cardinality(ActiveJobs') <= Cardinality(ActiveJobs \union {j})
    BY <2>1, <2>2, FS_Subset
  <2>4. Cardinality(ActiveJobs \union {j}) \in Nat
    BY <2>2, FS_CardinalityType
  <2>5. Cardinality(ActiveJobs) < MaxActive
    BY <1>4 DEF Admits, HasCapacity
  <2> QED  BY <1>2, <2>2, <2>3, <2>4, <2>5 DEF ActiveBound
<1> QED  BY <1>3, <1>4, StepMoves

\* Callers that pass the first capacity check together never exceed
\* max_active_jobs.
THEOREM SpecActiveBound == Spec => []ActiveBound
<1>1. Init => ActiveBound
  <2> SUFFICES ASSUME Init PROVE ActiveBound
    OBVIOUS
  <2>1. ActiveJobs = {}
    BY DEF Init, ActiveJobs, Ongoing
  <2> QED  BY <2>1, FS_EmptySet, RunJobsAssumption DEF ActiveBound
<1>2. IInv /\ ActiveBound /\ [Next]_vars => ActiveBound'
  BY ActiveBoundStep
<1> QED  BY <1>1, <1>2, SpecIInv, PTL DEF Spec

------------------------------------------------------------------------------
(* The history of RunJobs: it keeps the jobs that ended last, exactly MaxHistory of  *)
(* them whenever it had to remove one, and so the manager implements JobLifecycle.   *)

(* Sets of jobs and an order on them. *)

\* A set of jobs has one of greatest order: a smallest set without one loses a job
\* and has one.
LEMMA GreatestJob ==
    ASSUME NEW T \in SUBSET Jobs, T # {}, NEW f \in [Jobs -> Int]
    PROVE  \E j \in T : \A k \in T : f[k] <= f[j]
<1> DEFINE Tops(U) == \E j \in U : \A k \in U : f[k] <= f[j]
           Bad == {U \in FiniteSubsetsOf(Jobs) : U # {} /\ ~Tops(U)}
<1>1. Bad = {}
  <2> SUFFICES ASSUME Bad # {} PROVE FALSE
    OBVIOUS
  <2>1. PICK U \in Bad : \A V \in Bad : <<V, U>> \notin StrictSubsetOrdering(Jobs)
    BY FS_StrictSubsetOrderingWellFounded, WFMin
  <2>2. PICK j \in U : TRUE
    OBVIOUS
  <2>3. U \ {j} \in FiniteSubsetsOf(Jobs) /\ <<U \ {j}, U>> \in StrictSubsetOrdering(Jobs)
    BY <2>2, FS_RemoveElement DEF FiniteSubsetsOf, StrictSubsetOrdering
  <2>4. U \ {j} = {} \/ Tops(U \ {j})
    BY <2>1, <2>3
  <2>5. U \subseteq Jobs
    BY DEF FiniteSubsetsOf
  <2>6. CASE U \ {j} = {}
    <3>1. U = {j} /\ f[j] \in Int
      BY <2>2, <2>5, <2>6
    <3> QED  BY <3>1
  <2>7. CASE Tops(U \ {j})
    <3>1. PICK m \in U \ {j} : \A k \in U \ {j} : f[k] <= f[m]
      BY <2>7
    <3> QED  BY <2>2, <2>5, <3>1
  <2> QED  BY <2>4, <2>6, <2>7
<1>2. T \in FiniteSubsetsOf(Jobs)
  BY RunJobsAssumption, FS_Subset DEF FiniteSubsetsOf
<1> QED  BY <1>1, <1>2

\* And one of least order.
LEMMA LeastJob ==
    ASSUME NEW T \in SUBSET Jobs, T # {}, NEW f \in [Jobs -> Nat]
    PROVE  \E j \in T : \A k \in T : f[j] <= f[k]
<1> DEFINE g == [j \in Jobs |-> 0 - f[j]]
<1>1. g \in [Jobs -> Int]
  OBVIOUS
<1>2. PICK j \in T : \A k \in T : g[k] <= g[j]
  <2> HIDE DEF g
  <2> QED  BY <1>1, GreatestJob
<1>3. \A k \in T : 0 - f[k] <= 0 - f[j] /\ f[k] \in Nat /\ f[j] \in Nat
  BY <1>2
<1> QED  BY <1>3

------------------------------------------------------------------------------
(* _prune_terminal_locked(): what it keeps and what it removes. *)

Ended(st) == {j \in Jobs : st[j] \in Terminal}
Later(st, order, j) == {k \in Jobs : st[k] \in Terminal /\ order[k] > order[j]}
Kept(st, order, keep) == Ended(Pruned(st, order, keep))

\* The kept jobs are the ended ones with fewer than `keep` later ones.
LEMMA KeptFacts ==
    ASSUME NEW st \in [Jobs -> Statuses], NEW order, NEW keep
    PROVE  \A j \in Jobs : j \in Kept(st, order, keep)
              <=> st[j] \in Terminal /\ ~(Cardinality(Later(st, order, j)) >= keep)
BY DEF Kept, Ended, Pruned, Outdated, Later, Terminal

LEMMA LaterFinite ==
    ASSUME NEW st, NEW order, NEW j
    PROVE  /\ IsFiniteSet(Later(st, order, j)) /\ IsFiniteSet(Ended(st))
           /\ Cardinality(Later(st, order, j)) \in Nat /\ Cardinality(Ended(st)) \in Nat
<1>1. Later(st, order, j) \subseteq Jobs /\ Ended(st) \subseteq Jobs
  BY DEF Later, Ended
<1> QED  BY <1>1, RunJobsAssumption, FS_Subset, FS_CardinalityType

\* At most `keep` are kept: the first of them has all the others after it.
LEMMA KeptBound ==
    ASSUME NEW st \in [Jobs -> Statuses], NEW order \in [Jobs -> Nat], NEW keep \in Nat,
           \A i, j \in Ended(st) : order[i] = order[j] => i = j
    PROVE  Cardinality(Kept(st, order, keep)) <= keep
<1> DEFINE K == Kept(st, order, keep)
<1>1. K \subseteq Ended(st) /\ IsFiniteSet(K) /\ Cardinality(K) \in Nat
  BY KeptFacts, LaterFinite DEF Kept, Ended
<1>2. CASE K = {}
  BY <1>2, FS_EmptySet
<1>3. CASE K # {}
  <2>1. K \in SUBSET Jobs
    BY DEF Kept, Ended
  <2>2. PICK j \in K : \A k \in K : order[j] <= order[k]
    <3> HIDE DEF K
    <3> QED  BY <1>3, <2>1, LeastJob
  <2>3. K \ {j} \subseteq Later(st, order, j)
    BY <1>1, <2>1, <2>2 DEF Later, Ended
  <2>4. Cardinality(K \ {j}) <= Cardinality(Later(st, order, j))
    BY <2>3, LaterFinite, FS_Subset
  <2>5. Cardinality(Later(st, order, j)) < keep
    BY <2>1, <2>2, KeptFacts, LaterFinite
  <2>6. Cardinality(K \ {j}) = Cardinality(K) - 1
    BY <1>1, <2>2, FS_RemoveElement
  <2> QED  BY <1>1, <2>4, <2>5, <2>6, LaterFinite
<1> QED  BY <1>2, <1>3

\* Where one was removed, `keep` are kept, and all of them are later than it.
LEMMA RemovalFills ==
    ASSUME NEW st \in [Jobs -> Statuses], NEW order \in [Jobs -> Nat], NEW keep \in Nat,
           \A i, j \in Ended(st) : order[i] = order[j] => i = j,
           NEW k \in Ended(st) \ Kept(st, order, keep)
    PROVE  /\ Cardinality(Kept(st, order, keep)) = keep
           /\ \A i \in Kept(st, order, keep) : order[i] > order[k]
<1> DEFINE K == Kept(st, order, keep)
           out == Ended(st) \ K
<1>0. IsFiniteSet(K) /\ Cardinality(K) \in Nat
  BY LaterFinite DEF Kept
<1>1. /\ K \subseteq Ended(st) /\ Ended(st) \subseteq Jobs /\ IsFiniteSet(K)
      /\ Cardinality(K) \in Nat
  BY <1>0, KeptFacts DEF Kept, Ended
<1>2. PICK r \in out : \A o \in out : order[o] <= order[r]
  <2>1. out \in SUBSET Jobs /\ out # {} /\ order \in [Jobs -> Int]
    BY <1>1
  <2> HIDE DEF out
  <2> QED  BY <2>1, GreatestJob
<1>3. Later(st, order, r) \subseteq K
  BY <1>1, <1>2 DEF Later, Ended
<1>4. Cardinality(Later(st, order, r)) >= keep
  BY <1>1, <1>2, KeptFacts DEF Ended
<1>5. Cardinality(K) >= keep
  <2>1. Cardinality(Later(st, order, r)) <= Cardinality(K)
    BY <1>1, <1>3, FS_Subset
  <2> QED  BY <1>1, <1>4, <2>1, LaterFinite
<1>6. Cardinality(K) = keep
  BY <1>1, <1>5, KeptBound
<1>7. ASSUME NEW i \in K PROVE order[i] > order[k]
  <2> SUFFICES ASSUME order[i] <= order[k] PROVE FALSE
    BY <1>1
  <2>1. i # k /\ i \in Ended(st) /\ i \in Jobs /\ k \in Jobs
    BY <1>1
  <2>2. order[i] < order[k]
    BY <2>1
  <2>3. Later(st, order, k) \subseteq Later(st, order, i)
    BY <2>1, <2>2 DEF Later
  <2>4. Cardinality(Later(st, order, k)) <= Cardinality(Later(st, order, i))
    BY <2>3, LaterFinite, FS_Subset
  <2>5. Cardinality(Later(st, order, k)) >= keep
    BY <2>1, KeptFacts DEF Ended
  <2>6. ~(Cardinality(Later(st, order, i)) >= keep)
    BY <1>7, <2>1, KeptFacts
  <2> QED  BY <2>4, <2>5, <2>6, LaterFinite
<1> QED  BY <1>6, <1>7

------------------------------------------------------------------------------
(* The invariant that goes with it. *)

\* Ended jobs have different numbers, none greater than the last one given.
OrderInv ==
    /\ \A j \in Ended(status) : finishedAt[j] <= finishedSequence
    /\ \A i, j \in Ended(status) : finishedAt[i] = finishedAt[j] => i = j

\* Only jobs that have started or ended are cancelled, and a simulation that ended
\* cancelled was.
CancelledInv ==
    /\ \A j \in cancelled : status[j] \notin {"new", "queued"}
    /\ \A w \in Workers : worker[w].pc = "cancelled" => worker[w].job \in cancelled

HistoryInv == IInv /\ OrderInv /\ CancelledInv

\* The end of a job trims the history behind it.
LEMMA FinishHistory ==
    ASSUME TypeOK, OrderInv, NEW j \in Jobs, status[j] \in Ongoing,
           NEW outcome \in Terminal, Finish(j, outcome)
    PROVE  /\ OrderInv'
           /\ status'[j] = outcome
           /\ Cardinality(Ended(status')) <= MaxHistory
           /\ \A k \in Ended(status) : status'[k] = "removed" =>
                 /\ Cardinality(Ended(status')) = MaxHistory
                 /\ \A i \in Ended(status') : finishedAt'[i] > finishedAt[k]
<1> DEFINE st == [status EXCEPT ![j] = outcome]
<1>1. /\ st \in [Jobs -> Statuses] /\ finishedAt' \in [Jobs -> Nat]
      /\ finishedSequence \in Nat /\ finishedAt \in [Jobs -> Nat]
      /\ MaxHistory \in Nat \ {0}
  BY RunJobsAssumption DEF TypeOK, Finish, Statuses, Present
<1>2. /\ status' = Pruned(st, finishedAt', MaxHistory)
      /\ finishedSequence' = finishedSequence + 1
      /\ finishedAt' = [finishedAt EXCEPT ![j] = finishedSequence + 1]
  BY DEF Finish
<1>3. Ended(st) = Ended(status) \union {j} /\ j \notin Ended(status)
  BY DEF Ended, TypeOK, Ongoing, Terminal
<1>4. \A k \in Ended(status) : finishedAt'[k] = finishedAt[k] /\ finishedAt[k] \in Nat
  BY <1>1, <1>2, <1>3 DEF Ended
<1>5. finishedAt'[j] = finishedSequence + 1
  BY <1>1, <1>2
<1>6. \A i, k \in Ended(st) : finishedAt'[i] = finishedAt'[k] => i = k
  BY <1>1, <1>3, <1>4, <1>5 DEF OrderInv
<1>7. \A k \in Ended(st) : finishedAt'[k] <= finishedSequence + 1
  BY <1>1, <1>3, <1>4, <1>5 DEF OrderInv
<1>8. Ended(status') = Kept(st, finishedAt', MaxHistory)
  BY <1>2 DEF Kept
<1> HIDE DEF st
<1>9. Ended(status') \subseteq Ended(st)
  BY <1>1, <1>8, KeptFacts DEF Kept, Ended
<1>10. OrderInv'
  <2>1. /\ \A k \in Ended(status') : finishedAt'[k] <= finishedSequence'
        /\ \A i, k \in Ended(status') : finishedAt'[i] = finishedAt'[k] => i = k
    BY <1>2, <1>6, <1>7, <1>9
  <2> QED  BY <2>1 DEF OrderInv, Ended
<1>11. status'[j] = outcome
  <2>1. Later(st, finishedAt', j) = {}
    <3>1. \A k \in Ended(st) : ~(finishedAt'[k] > finishedAt'[j])
      BY <1>1, <1>5, <1>7 DEF Ended
    <3> QED  BY <3>1 DEF Later, Ended
  <2>2. Cardinality(Later(st, finishedAt', j)) = 0
    BY <2>1, FS_EmptySet
  <2>3. j \notin Outdated(st, finishedAt', MaxHistory)
    BY <1>1, <2>2 DEF Outdated, Later
  <2>4. status'[j] = st[j]
    BY <1>2, <2>3 DEF Pruned
  <2> QED  BY <2>4 DEF st, TypeOK
<1>12. Cardinality(Ended(status')) <= MaxHistory
  BY <1>1, <1>6, <1>8, KeptBound
<1>13. ASSUME NEW k \in Ended(status), status'[k] = "removed"
       PROVE  /\ Cardinality(Ended(status')) = MaxHistory
              /\ \A i \in Ended(status') : finishedAt'[i] > finishedAt[k]
  <2>1. k \in Ended(st) \ Kept(st, finishedAt', MaxHistory)
    BY <1>3, <1>8, <1>13 DEF Ended, Terminal
  <2>2. /\ Cardinality(Kept(st, finishedAt', MaxHistory)) = MaxHistory
        /\ \A i \in Kept(st, finishedAt', MaxHistory) : finishedAt'[i] > finishedAt'[k]
    BY <1>1, <1>6, <2>1, RemovalFills
  <2> QED  BY <1>4, <1>8, <2>2
<1> QED  BY <1>10, <1>11, <1>12, <1>13

------------------------------------------------------------------------------
(* What a step is in the life of the jobs. *)

\* Job j ends, in the way a caller may see.
Over(j, outcome) ==
    /\ status[j] \in Ongoing
    /\ Finish(j, outcome)
    /\ \/ /\ outcome = "cancelled"
          /\ cancelled' = cancelled \union {j}
          /\ status[j] = "running" => j \in cancelled
       \/ /\ outcome \in {"completed", "failed"}
          /\ status[j] = "running" /\ j \notin cancelled
          /\ cancelled' = cancelled

\* Nothing ends.
Goes ==
    /\ UNCHANGED <<finishedSequence, finishedAt>>
    /\ \/ \E j \in Jobs : \/ Lifecycle!Admit(j) \/ Lifecycle!Abandon(j)
                          \/ Lifecycle!Begin(j) \/ Lifecycle!RequestCancel(j)
       \/ \E removed \in SUBSET Jobs : Lifecycle!Forget(removed)
       \/ UNCHANGED <<status, cancelled>>

Progresses == (\E j \in Jobs, outcome \in Terminal : Over(j, outcome)) \/ Goes

\* Both modules count with the same operator.
LEMMA SameCardinality ==
    ASSUME NEW S
    PROVE  Lifecycle!Cardinality(S) = Cardinality(S)
BY DEF Lifecycle!Cardinality, Cardinality, Lifecycle!IsFiniteSet, IsFiniteSet

LEMMA CancelProgresses ==
    ASSUME HistoryInv, NEW j \in Jobs, CancelActive(j)
    PROVE  Progresses
<1>1. CASE status[j] = "queued"
  <2>1. Finish(j, "cancelled") /\ cancelled' = cancelled \union {j}
    BY <1>1 DEF CancelActive
  <2>2. Over(j, "cancelled") /\ "cancelled" \in Terminal
    BY <1>1, <2>1 DEF Over, Ongoing, Terminal
  <2> QED  BY <2>2 DEF Progresses
<1>2. CASE status[j] = "running"
  <2>1. Lifecycle!RequestCancel(j) /\ UNCHANGED <<finishedSequence, finishedAt>>
    BY <1>2 DEF CancelActive, Lifecycle!RequestCancel
  <2> QED  BY <2>1 DEF Progresses, Goes
<1> QED  BY <1>1, <1>2 DEF CancelActive, Ongoing

LEMMA SubmitProgresses ==
    ASSUME HistoryInv, NEW s \in Submitters, SubmitStep(s)
    PROVE  Progresses
<1>1. CASE CheckSubmit(s) \/ RefuseSubmit(s)
  BY <1>1 DEF CheckSubmit, RefuseSubmit, jobVars, Progresses, Goes
<1>2. CASE CommitSubmit(s)
  <2>1. PICK j \in Jobs : status[j] = "new" /\ status' = [status EXCEPT ![j] = "queued"]
    BY <1>2 DEF CommitSubmit
  <2>2. Lifecycle!Cardinality(Lifecycle!Having(status, Lifecycle!Active)) < MaxActive
    <3>1. Lifecycle!Having(status, Lifecycle!Active) = ActiveJobs
      BY DEF ActiveJobs, Ongoing, Lifecycle!Having, Lifecycle!Active
    <3> QED  BY <1>2, <3>1, SameCardinality DEF CommitSubmit, HasCapacity
  <2>3. Lifecycle!Admit(j) /\ UNCHANGED <<finishedSequence, finishedAt>>
    BY <1>2, <2>1, <2>2 DEF CommitSubmit, Lifecycle!Admit
  <2> QED  BY <2>3 DEF Progresses, Goes
<1>3. CASE FailEnqueue(s)
  <2>1. PICK j \in Jobs : status[j] = "new" /\ status' = [status EXCEPT ![j] = "removed"]
    BY <1>3 DEF FailEnqueue
  <2>2. Lifecycle!Abandon(j) /\ UNCHANGED <<finishedSequence, finishedAt>>
    BY <1>3, <2>1 DEF FailEnqueue, Lifecycle!Abandon
  <2> QED  BY <2>2 DEF Progresses, Goes
<1> QED  BY <1>1, <1>2, <1>3 DEF SubmitStep

\* Removed is a set of ended jobs, whichever call removes them.
LEMMA PruneProgresses ==
    ASSUME HistoryInv
    PROVE  /\ \A j \in Jobs : PruneJob(j) => Progresses
           /\ \A keep \in 0 .. MaxHistory : PruneKeep(keep) => Progresses
<1>0. status \in [Jobs -> Statuses]
  BY DEF HistoryInv, IInv, TypeOK, Statuses
<1>1. ASSUME NEW removed \in SUBSET Jobs, \A j \in removed : status[j] \in Terminal,
             status' = [j \in Jobs |-> IF j \in removed THEN "removed" ELSE status[j]],
             UNCHANGED <<cancelled, finishedSequence, finishedAt>>
      PROVE  Progresses
  <2>1. Lifecycle!Forget(removed)
    BY <1>1 DEF Lifecycle!Forget, Lifecycle!Having, Lifecycle!Ended, Terminal
  <2> QED  BY <1>1, <2>1 DEF Progresses, Goes
<1>2. ASSUME NEW j \in Jobs, PruneJob(j) PROVE Progresses
  <2>1. /\ {j} \in SUBSET Jobs /\ \A k \in {j} : status[k] \in Terminal
        /\ status' = [k \in Jobs |-> IF k \in {j} THEN "removed" ELSE status[k]]
        /\ UNCHANGED <<cancelled, finishedSequence, finishedAt>>
    BY <1>0, <1>2 DEF PruneJob
  <2> QED  BY <1>1, <2>1
<1>3. ASSUME NEW keep \in 0 .. MaxHistory, PruneKeep(keep) PROVE Progresses
  <2> DEFINE removed == Outdated(status, finishedAt, keep)
  <2>1. /\ removed \in SUBSET Jobs /\ \A k \in removed : status[k] \in Terminal
        /\ status' = [k \in Jobs |-> IF k \in removed THEN "removed" ELSE status[k]]
        /\ UNCHANGED <<cancelled, finishedSequence, finishedAt>>
    BY <1>3 DEF PruneKeep, Pruned, Outdated
  <2> HIDE DEF removed
  <2> QED  BY <1>1, <2>1
<1> QED  BY <1>2, <1>3

LEMMA WorkerProgresses ==
    ASSUME HistoryInv, NEW w \in Workers, WorkerStep(w)
    PROVE  Progresses
<1>0. status \in [Jobs -> Statuses] /\ worker[w].pc \in Terminal \union
          {"idle", "picked", "running", "exited"}
  BY DEF HistoryInv, IInv, TypeOK, Statuses, Terminal
<1>1. CASE Take(w) \/ Skip(w) \/ ExitWorker(w) \/ \E outcome \in Terminal : EndRun(w, outcome)
  BY <1>1 DEF Take, Skip, ExitWorker, EndRun, jobVars, Progresses, Goes
<1>2. CASE Start(w)
  <2>1. worker[w].job \in Jobs /\ status[worker[w].job] = "queued"
    BY <1>2 DEF Start, HistoryInv, IInv, WorkerInv, Unstarted, Present, Ongoing, Terminal
  <2>2. worker[w].job \notin cancelled
    BY <2>1 DEF HistoryInv, CancelledInv
  <2>3. /\ Lifecycle!Begin(worker[w].job)
        /\ UNCHANGED <<finishedSequence, finishedAt>>
    BY <1>2, <2>1, <2>2 DEF Start, Lifecycle!Begin
  <2> QED  BY <2>1, <2>3 DEF Progresses, Goes
<1>3. CASE CommitRun(w)
  <2> DEFINE j == worker[w].job
             outcome == IF j \in cancelled THEN "cancelled" ELSE worker[w].pc
  <2>1. worker[w].pc \in Terminal /\ j \in Jobs /\ status[j] = "running"
    BY <1>3 DEF CommitRun, HistoryInv, IInv, WorkerInv, Executing
  <2>2. Finish(j, outcome) /\ cancelled' = cancelled
    BY <1>3, <2>1 DEF CommitRun, Ongoing
  <2>3. worker[w].pc = "cancelled" => j \in cancelled
    BY DEF HistoryInv, CancelledInv
  <2>4. outcome \in Terminal
    BY <2>1 DEF Terminal
  <2>5. \/ outcome = "cancelled" /\ j \in cancelled
        \/ outcome \in {"completed", "failed"} /\ j \notin cancelled
    BY <2>1, <2>3 DEF Terminal
  <2> HIDE DEF outcome
  <2>6. Over(j, outcome)
    BY <2>1, <2>2, <2>5 DEF Over, Ongoing
  <2> QED  BY <2>1, <2>4, <2>6 DEF Progresses
<1> QED  BY <1>1, <1>2, <1>3 DEF WorkerStep

LEMMA StepProgresses ==
    ASSUME HistoryInv, [Next]_vars
    PROVE  Progresses
<1>1. ASSUME NEW s \in Submitters, SubmitStep(s) PROVE Progresses
  BY <1>1, SubmitProgresses
<1>2. ASSUME NEW j \in Jobs, Cancel(j) PROVE Progresses
  BY <1>2, CancelProgresses DEF Cancel
<1>3. CASE \/ \E j \in Jobs : PruneJob(j)
           \/ \E keep \in 0 .. MaxHistory : PruneKeep(keep)
  BY <1>3, PruneProgresses
<1>4. ASSUME NEW w \in Workers, WorkerStep(w) PROVE Progresses
  BY <1>4, WorkerProgresses
<1>5. ASSUME NEW w \in Workers, NEW stage \in Stages, Report(w, stage) PROVE Progresses
  BY <1>5 DEF Report, Progresses, Goes
<1>6. CASE \E cancelPending, cancelRunning \in BOOLEAN :
              BeginShutdown(cancelPending, cancelRunning)
  BY <1>6 DEF BeginShutdown, jobVars, Progresses, Goes
<1>7. CASE ClosePool \/ JoinPool
  BY <1>7 DEF ClosePool, JoinPool, jobVars, Progresses, Goes
<1>8. ASSUME NEW j \in Jobs, CancelTarget(j) PROVE Progresses
  <2>1. CASE CancelActive(j)
    BY <2>1, CancelProgresses
  <2>2. CASE UNCHANGED <<jobVars, cancelled>>
    BY <2>2 DEF jobVars, Progresses, Goes
  <2> QED  BY <1>8, <2>1, <2>2 DEF CancelTarget
<1>9. CASE UNCHANGED vars
  BY <1>9 DEF vars, jobVars, Progresses, Goes
<1> QED  BY <1>1, <1>2, <1>3, <1>4, <1>5, <1>6, <1>7, <1>8, <1>9 DEF Next, CloserStep

------------------------------------------------------------------------------
(* The invariant is kept, and what follows from it. *)

LEMMA OverSteps ==
    ASSUME TypeOK, OrderInv, NEW j \in Jobs, NEW outcome \in Terminal, Over(j, outcome)
    PROVE  /\ OrderInv'
           /\ cancelled \subseteq cancelled'
           /\ status' \in [Jobs -> Statuses] /\ status'[j] = outcome
           /\ \A i \in Jobs \ {j} : \/ status'[i] = status[i]
                                    \/ status[i] \in Terminal /\ status'[i] = "removed"
BY FinishHistory, FinishFacts DEF Over

LEMMA GoesSteps ==
    ASSUME TypeOK, OrderInv, CancelledInv, Goes
    PROVE  /\ OrderInv'
           /\ cancelled \subseteq cancelled'
           /\ \A i \in cancelled' : status'[i] \notin {"new", "queued"}
<1>0. status \in [Jobs -> Statuses] /\ cancelled \subseteq Jobs
  BY DEF TypeOK, Statuses
<1> DEFINE Orderly == /\ Ended(status') \subseteq Ended(status)
                   /\ cancelled \subseteq cancelled'
                   /\ \A i \in cancelled' : status'[i] \notin {"new", "queued"}
<1>1. Orderly
  <2>1. ASSUME NEW j \in Jobs, Lifecycle!Admit(j) \/ Lifecycle!Abandon(j)
                               \/ Lifecycle!Begin(j) \/ Lifecycle!RequestCancel(j)
        PROVE  Orderly
    BY <1>0, <2>1 DEF Lifecycle!Admit, Lifecycle!Abandon, Lifecycle!Begin,
                      Lifecycle!RequestCancel, Ended, Terminal, CancelledInv
  <2>2. ASSUME NEW removed \in SUBSET Jobs, Lifecycle!Forget(removed)
        PROVE  Orderly
    BY <1>0, <2>2 DEF Lifecycle!Forget, Ended, Terminal, CancelledInv
  <2>3. CASE UNCHANGED <<status, cancelled>>
    BY <2>3 DEF Ended, CancelledInv
  <2> QED  BY <2>1, <2>2, <2>3 DEF Goes
<1>2. UNCHANGED <<finishedSequence, finishedAt>>
  BY DEF Goes
<1>3. OrderInv'
  BY <1>1, <1>2 DEF OrderInv, Ended
<1> QED  BY <1>1, <1>3

\* A thread's simulation ends cancelled only after a poll that saw the event.
LEMMA EndsCancelled ==
    ASSUME TypeOK, CancelledInv, cancelled \subseteq cancelled', [Next]_vars
    PROVE  \A w \in Workers : worker'[w].pc = "cancelled" => worker'[w].job \in cancelled'
<1>0. \A w \in Workers : worker[w].pc = "cancelled" => worker[w].job \in cancelled'
  BY DEF CancelledInv
<1>1. ASSUME NEW v \in Workers, WorkerStep(v)
      PROVE \A w \in Workers : worker'[w].pc = "cancelled" => worker'[w].job \in cancelled'
  <2>0. /\ DOMAIN worker = Workers
        /\ \A w \in Workers : worker[w] = [pc |-> worker[w].pc, job |-> worker[w].job]
    BY DEF TypeOK
  <2>1. CASE Take(v)
    BY <1>0, <2>0, <2>1 DEF Take
  <2>2. CASE Start(v) \/ ExitWorker(v)
    BY <1>0, <2>0, <2>2 DEF Start, ExitWorker, GoTo
  <2>3. CASE Skip(v) \/ CommitRun(v)
    BY <1>0, <2>0, <2>3 DEF Skip, CommitRun, Release
  <2>4. ASSUME NEW outcome \in Terminal, EndRun(v, outcome)
        PROVE \A w \in Workers : worker'[w].pc = "cancelled" => worker'[w].job \in cancelled'
    BY <1>0, <2>0, <2>4 DEF EndRun, GoTo
  <2> QED  BY <1>1, <2>1, <2>2, <2>3, <2>4 DEF WorkerStep
<1>2. CASE UNCHANGED worker
  BY <1>0, <1>2
<1>3. ASSUME NEW s \in Submitters, SubmitStep(s) PROVE UNCHANGED worker
  BY <1>3 DEF SubmitStep, CheckSubmit, RefuseSubmit, CommitSubmit, FailEnqueue
<1>4. ASSUME NEW j \in Jobs, Cancel(j) \/ PruneJob(j) PROVE UNCHANGED worker
  BY <1>4 DEF Cancel, PruneJob
<1>5. ASSUME NEW keep \in 0 .. MaxHistory, PruneKeep(keep) PROVE UNCHANGED worker
  BY <1>5 DEF PruneKeep
<1>6. ASSUME NEW w \in Workers, NEW stage \in Stages, Report(w, stage) PROVE UNCHANGED worker
  BY <1>6 DEF Report
<1>7. CASE (\E cancelPending, cancelRunning \in BOOLEAN :
               BeginShutdown(cancelPending, cancelRunning)) \/ CloserStep
  BY <1>2, <1>7 DEF BeginShutdown, CloserStep, CancelTarget, ClosePool, JoinPool
<1>8. CASE UNCHANGED vars
  BY <1>2, <1>8 DEF vars
<1> QED  BY <1>1, <1>2, <1>3, <1>4, <1>5, <1>6, <1>7, <1>8 DEF Next

LEMMA InitHistoryInv == Init => HistoryInv
<1>1. Init => OrderInv /\ CancelledInv
  BY DEF Init, OrderInv, CancelledInv, Ended, Terminal
<1> QED  BY <1>1, InitIInv DEF HistoryInv

LEMMA NextKeepsHistoryInv == HistoryInv /\ [Next]_vars => HistoryInv'
<1> SUFFICES ASSUME HistoryInv, [Next]_vars PROVE HistoryInv'
  OBVIOUS
<1>1. TypeOK /\ IInv /\ OrderInv /\ CancelledInv
  BY DEF HistoryInv, IInv
<1>2. IInv'
  BY <1>1, NextKeepsIInv
<1>3. ASSUME NEW j \in Jobs, NEW outcome \in Terminal, Over(j, outcome)
      PROVE  /\ OrderInv' /\ cancelled \subseteq cancelled'
             /\ \A i \in cancelled' : status'[i] \notin {"new", "queued"}
  <2>1. cancelled' \subseteq cancelled \union {j} /\ cancelled \subseteq Jobs
    BY <1>1, <1>3 DEF Over, TypeOK
  <2> QED  BY <1>1, <1>3, <2>1, OverSteps DEF CancelledInv, Terminal
<1>4. /\ OrderInv' /\ cancelled \subseteq cancelled'
      /\ \A i \in cancelled' : status'[i] \notin {"new", "queued"}
  BY <1>1, <1>3, GoesSteps, StepProgresses DEF Progresses
<1>5. CancelledInv'
  BY <1>1, <1>4, EndsCancelled DEF CancelledInv
<1> QED  BY <1>2, <1>4, <1>5 DEF HistoryInv

\* Ended jobs are numbered in the order they ended, and a job that started was not
\* cancelled before.
THEOREM SpecHistoryInv == Spec => []HistoryInv
BY InitHistoryInv, NextKeepsHistoryInv, PTL DEF Spec

\* A job that ends is remembered, and it evicts another only from a full history
\* whose kept jobs all ended later (_prune_terminal_locked).
THEOREM SpecEvictsOldest == Spec => EvictsOldest
<1> DEFINE Evicts ==
             \A j \in Jobs : status[j] \in Ongoing /\ status'[j] \notin Ongoing =>
                /\ status'[j] \in Terminal
                /\ \A k \in Jobs : status[k] \in Terminal /\ status'[k] = "removed" =>
                      /\ Cardinality({i \in Jobs : status'[i] \in Terminal}) = MaxHistory
                      /\ \A i \in Jobs : status'[i] \in Terminal =>
                            finishedAt'[i] > finishedAt[k]
<1>1. ASSUME HistoryInv, [Next]_vars PROVE Evicts
  <2>1. TypeOK /\ OrderInv /\ status \in [Jobs -> Statuses]
    BY <1>1 DEF HistoryInv, IInv, TypeOK, Statuses
  <2>2. ASSUME NEW j \in Jobs, NEW outcome \in Terminal, Over(j, outcome) PROVE Evicts
    <3>1. Finish(j, outcome) /\ status[j] \in Ongoing
      BY <2>2 DEF Over
    <3>2. /\ status'[j] = outcome
          /\ \A k \in Ended(status) : status'[k] = "removed" =>
                /\ Cardinality(Ended(status')) = MaxHistory
                /\ \A i \in Ended(status') : finishedAt'[i] > finishedAt[k]
      BY <2>1, <3>1, FinishHistory
    <3>3. \A i \in Jobs \ {j} : status[i] \in Ongoing => status'[i] \in Ongoing
      BY <2>1, <2>2, OverSteps DEF Ongoing, Terminal
    <3> QED  BY <3>2, <3>3 DEF Ended
  <2>3. CASE Goes
    <3>1. \A i \in Jobs : status[i] \in Ongoing => status'[i] \in Ongoing
      BY <2>1, <2>3 DEF Goes, Lifecycle!Admit, Lifecycle!Abandon, Lifecycle!Begin,
                        Lifecycle!RequestCancel, Lifecycle!Forget, Lifecycle!Having,
                        Lifecycle!Ended, Ongoing, Terminal
    <3> QED  BY <3>1
  <2> QED  BY <1>1, <2>2, <2>3, StepProgresses DEF Progresses
<1>2. HistoryInv /\ [Next]_vars => [Evicts]_vars
  BY <1>1
<1> QED  BY <1>2, SpecHistoryInv, PTL DEF Spec, EvictsOldest

\* The manager shows its callers a behaviour of JobLifecycle, whatever its threads,
\* its queue, its futures and shutdown() do.
THEOREM SpecImplementsLifecycle == Spec => ImplementsLifecycle
<1>1. Init => Lifecycle!Init
  BY DEF Init, Lifecycle!Init
<1>2. ASSUME HistoryInv, [Next]_vars PROVE [Lifecycle!Next]_(Lifecycle!vars)
  <2>1. TypeOK /\ OrderInv /\ status \in [Jobs -> Statuses]
    BY <1>2 DEF HistoryInv, IInv, TypeOK, Statuses
  <2>2. ASSUME NEW j \in Jobs, NEW outcome \in Terminal, Over(j, outcome)
        PROVE  Lifecycle!Next
    <3> DEFINE evicted == {i \in Jobs \ {j} : status'[i] # status[i]}
    <3>1. /\ Finish(j, outcome) /\ status[j] \in Ongoing
          /\ Cardinality(Ended(status')) <= MaxHistory
      BY <2>1, <2>2, FinishHistory DEF Over
    <3>2. /\ status' \in [Jobs -> Statuses] /\ status'[j] = outcome
          /\ \A i \in Jobs \ {j} : \/ status'[i] = status[i]
                                   \/ status[i] \in Terminal /\ status'[i] = "removed"
      BY <2>1, <2>2, OverSteps
    <3>3. evicted \in SUBSET Lifecycle!Having(status, Lifecycle!Ended)
      BY <3>2 DEF Lifecycle!Having, Lifecycle!Ended, Terminal
    <3>4. status' = [i \in Jobs |-> IF i = j THEN outcome
                                    ELSE IF i \in evicted THEN "removed" ELSE status[i]]
      BY <3>2
    <3>5. Lifecycle!Cardinality(Lifecycle!Having(status', Lifecycle!Ended)) <= MaxHistory
      <4>1. Lifecycle!Having(status', Lifecycle!Ended) = Ended(status')
        BY DEF Lifecycle!Having, Lifecycle!Ended, Ended, Terminal
      <4> QED  BY <3>1, <4>1, SameCardinality
    <3> HIDE DEF evicted
    <3>6. Lifecycle!Ends(j, outcome)
      BY <3>3, <3>4, <3>5 DEF Lifecycle!Ends
    <3>7. \/ outcome = "cancelled" /\ Lifecycle!EndCancelled(j)
          \/ outcome \in {"completed", "failed"} /\ Lifecycle!EndRun(j, outcome)
      BY <2>2, <3>6 DEF Over, Lifecycle!EndCancelled, Lifecycle!EndRun, Lifecycle!Active,
                        Ongoing
    <3> QED  BY <3>7 DEF Lifecycle!Next
  <2>3. CASE Goes
    BY <2>3 DEF Goes, Lifecycle!Next, Lifecycle!vars
  <2> QED  BY <1>2, <2>2, <2>3, StepProgresses DEF Progresses
<1> QED  BY <1>1, <1>2, SpecHistoryInv, PTL DEF Spec, ImplementsLifecycle, Lifecycle!Spec

------------------------------------------------------------------------------
(* RunTraces: a batch has one flight at most, and whoever waits waits for its owner. *)

Places == {"idle", "replaying", "waiting", "answered"}

\* Readers and flights are what they look like.
TypeInv ==
    /\ inflight \in [Keys -> Readers \union {NoReader}]
    /\ DOMAIN reader = Readers
    /\ \A r \in Readers : reader[r].pc \in Places
    /\ \A r \in Readers : reader[r].pc \in {"replaying", "waiting"} => reader[r].key \in Keys
    /\ \A r \in Readers : reader[r].pc = "waiting" => reader[r].owner \in Readers

FlightInv == TypeInv /\ SingleFlight

------------------------------------------------------------------------------

\* Neither the manager's steps nor those of a reader that finds its page, or
\* returns with it, touch a flight.
LEMMA AsidesKeepFlightInv ==
    ASSUME FlightInv, UNCHANGED inflight,
           DOMAIN reader' = Readers,
           \A r \in Readers : \/ reader'[r] = reader[r]
                              \/ /\ reader[r].pc \in {"idle", "answered"}
                                 /\ reader'[r].pc \in {"idle", "answered"}
    PROVE  FlightInv'
<1>1. \A r \in Readers : reader'[r].pc \in {"replaying", "waiting"} => reader'[r] = reader[r]
  OBVIOUS
<1>2. \A r \in Readers : reader[r].pc = "replaying" => reader'[r] = reader[r]
  OBVIOUS
<1>3. TypeInv'
  <2>1. \A r \in Readers : reader'[r].pc \in Places
    BY DEF FlightInv, TypeInv, Places
  <2> QED  BY <1>1, <2>1 DEF FlightInv, TypeInv
<1>4. SingleFlight'
  <2>1. ASSUME NEW k \in Keys, inflight[k] # NoReader
        PROVE  reader'[inflight[k]].pc = "replaying" /\ reader'[inflight[k]].key = k
    <3>1. inflight[k] \in Readers
      BY <2>1 DEF FlightInv, TypeInv
    <3> QED  BY <1>2, <2>1, <3>1 DEF FlightInv, SingleFlight
  <2> QED  BY <1>1, <2>1 DEF FlightInv, SingleFlight
<1> QED  BY <1>3, <1>4 DEF FlightInv

LEMMA JoinKeepsFlightInv ==
    ASSUME FlightInv, NEW r \in Readers, NEW k \in Keys, JoinFlight(r, k)
    PROVE  FlightInv'
<1>1. /\ reader[r].pc = "idle"
      /\ inflight[k] \in Readers
      /\ UNCHANGED inflight
      /\ reader' = [reader EXCEPT ![r] = [pc |-> "waiting", key |-> k, owner |-> inflight[k]]]
  BY DEF JoinFlight, Idle, FlightInv, TypeInv
<1>2. /\ DOMAIN reader' = Readers
      /\ reader'[r] = [pc |-> "waiting", key |-> k, owner |-> inflight[k]]
      /\ \A q \in Readers \ {r} : reader'[q] = reader[q]
  BY <1>1 DEF FlightInv, TypeInv
<1>3. TypeInv'
  BY <1>1, <1>2 DEF FlightInv, TypeInv, Places
<1>4. \A l \in Keys : inflight[l] # NoReader => inflight[l] \in Readers \ {r}
  BY <1>1 DEF FlightInv, TypeInv, SingleFlight
<1>5. SingleFlight'
  BY <1>1, <1>2, <1>4 DEF FlightInv, TypeInv, SingleFlight
<1> QED  BY <1>3, <1>5 DEF FlightInv

LEMMA OwnKeepsFlightInv ==
    ASSUME FlightInv, NEW r \in Readers, NEW k \in Keys, OwnFlight(r, k)
    PROVE  FlightInv'
<1> DEFINE call == [pc |-> "replaying", key |-> k, result |-> Timeline(k[1])]
<1>1. /\ reader[r].pc = "idle" /\ inflight[k] = NoReader
      /\ inflight' = [inflight EXCEPT ![k] = r]
      /\ reader' = [reader EXCEPT ![r] = call]
  BY DEF OwnFlight, Idle
<1>2. call.pc = "replaying" /\ call.key = k
  OBVIOUS
<1> HIDE DEF call
<1>3. /\ DOMAIN reader' = Readers /\ reader'[r] = call
      /\ \A q \in Readers \ {r} : reader'[q] = reader[q]
      /\ inflight'[k] = r /\ \A l \in Keys \ {k} : inflight'[l] = inflight[l]
      /\ inflight' \in [Keys -> Readers \union {NoReader}]
  BY <1>1 DEF FlightInv, TypeInv
<1>4. TypeInv'
  BY <1>2, <1>3 DEF FlightInv, TypeInv, Places
<1>5. \A q \in Readers : reader[q].pc \in {"replaying", "waiting"} => reader[q].key # k
  BY <1>1, RunTracesAssumption DEF FlightInv, TypeInv, SingleFlight
<1>6. \A l \in Keys \ {k} : inflight[l] # NoReader => inflight[l] \in Readers \ {r}
  BY <1>1 DEF FlightInv, TypeInv, SingleFlight
<1>7. SingleFlight'
  BY <1>2, <1>3, <1>5, <1>6 DEF FlightInv, TypeInv, SingleFlight
<1> QED  BY <1>4, <1>7 DEF FlightInv

\* The owner ends its flight and answers everyone who waits for it.
LEMMA PublishKeepsFlightInv ==
    ASSUME FlightInv, NEW r \in Readers, NEW built, Publish(r, built)
    PROVE  FlightInv'
<1> DEFINE k == reader[r].key
           answer == [pc |-> "answered", key |-> k, outcome |-> Published(r, built)]
           Answered(q) == q = r \/ (reader[q].pc = "waiting" /\ reader[q].owner = r)
<1>1. /\ reader[r].pc = "replaying" /\ k \in Keys /\ inflight[k] = r
      /\ inflight' = [inflight EXCEPT ![k] = NoReader]
      /\ reader' = [q \in Readers |-> IF Answered(q) THEN answer ELSE reader[q]]
  BY DEF Publish, FlightInv, TypeInv, SingleFlight
<1>2. answer.pc = "answered"
  OBVIOUS
<1> HIDE DEF answer
<1>3. /\ DOMAIN reader' = Readers
      /\ inflight'[k] = NoReader /\ \A l \in Keys \ {k} : inflight'[l] = inflight[l]
      /\ inflight' \in [Keys -> Readers \union {NoReader}]
      /\ \A q \in Readers : reader'[q] = IF Answered(q) THEN answer ELSE reader[q]
  BY <1>1 DEF FlightInv, TypeInv
<1>4. TypeInv'
  BY <1>2, <1>3 DEF FlightInv, TypeInv, Places
<1>5. \A q \in Readers : reader'[q].pc \in {"replaying", "waiting"} =>
         reader'[q] = reader[q] /\ q # r /\ reader[q].key # k
  BY <1>1, <1>2, <1>3 DEF FlightInv, TypeInv, SingleFlight
<1>6. \A l \in Keys \ {k} : inflight[l] # NoReader =>
         inflight[l] \in Readers /\ ~Answered(inflight[l])
  BY <1>1 DEF FlightInv, TypeInv, SingleFlight
<1>7. SingleFlight'
  <2>1. \A q \in Readers : reader'[q].pc = "replaying" => inflight'[reader'[q].key] = q
    BY <1>3, <1>5 DEF FlightInv, TypeInv, SingleFlight
  <2>2. \A l \in Keys : inflight'[l] # NoReader =>
           reader'[inflight'[l]].pc = "replaying" /\ reader'[inflight'[l]].key = l
    BY <1>3, <1>6 DEF FlightInv, SingleFlight
  <2>3. \A q \in Readers : reader'[q].pc = "waiting" =>
           inflight'[reader'[q].key] = reader'[q].owner
    BY <1>3, <1>5 DEF FlightInv, TypeInv, SingleFlight
  <2> QED  BY <2>1, <2>2, <2>3 DEF SingleFlight
<1> QED  BY <1>4, <1>7 DEF FlightInv

LEMMA NextKeepsFlightInv == FlightInv /\ [TraceNext]_allVars => FlightInv'
<1> SUFFICES ASSUME FlightInv, [TraceNext]_allVars PROVE FlightInv'
  OBVIOUS
<1>0. DOMAIN reader = Readers
  BY DEF FlightInv, TypeInv
<1>1. CASE JobStep \/ UNCHANGED allVars
  BY <1>0, <1>1, AsidesKeepFlightInv DEF JobStep, allVars, traceVars
<1>2. ASSUME NEW r \in Readers, NEW k \in Keys, HitCache(r, k) PROVE FlightInv'
  <2>1. /\ DOMAIN reader' = Readers /\ UNCHANGED inflight
        /\ reader[r].pc = "idle" /\ reader'[r].pc = "answered"
        /\ \A q \in Readers \ {r} : reader'[q] = reader[q]
    BY <1>0, <1>2 DEF HitCache, Idle
  <2> QED  BY <2>1, AsidesKeepFlightInv
<1>3. ASSUME NEW r \in Readers, Return(r) PROVE FlightInv'
  <2>1. /\ DOMAIN reader' = Readers /\ UNCHANGED inflight
        /\ reader[r].pc = "answered" /\ reader'[r].pc = "idle"
        /\ \A q \in Readers \ {r} : reader'[q] = reader[q]
    BY <1>0, <1>3 DEF Return, Idle
  <2> QED  BY <2>1, AsidesKeepFlightInv
<1> QED  BY <1>1, <1>2, <1>3, JoinKeepsFlightInv, OwnKeepsFlightInv, PublishKeepsFlightInv
         DEF TraceNext, ReaderStep

\* No batch is replayed twice at once, and nobody waits for a flight that has ended,
\* whatever happens to the jobs meanwhile.
THEOREM TracesSingleFlight == TraceSpec => []SingleFlight
<1>1. TraceInit => FlightInv
  BY RunTracesAssumption DEF TraceInit, FlightInv, TypeInv, SingleFlight, Idle, Places
<1>2. FlightInv => SingleFlight
  BY DEF FlightInv
<1> QED  BY <1>1, <1>2, NextKeepsFlightInv, PTL DEF TraceSpec

------------------------------------------------------------------------------
(* RunTraces: the cache. *)

CacheInv == cache \in Seq(Keys) /\ CacheOfKeptJobs

\* A sequence without some of its elements has no element twice if it had none twice.
LEMMA KeptElements ==
    ASSUME NEW T, NEW s \in Seq(T), NEW I \in SUBSET DOMAIN s,
           \A i, l \in 1 .. Len(s) : s[i] = s[l] => i = l
    PROVE  LET e == ElementsAt(s, I)
           IN  /\ e \in Seq(T) /\ Len(e) \in Nat /\ Len(e) <= Len(s)
               /\ I # DOMAIN s => Len(e) < Len(s)
               /\ \A n \in 1 .. Len(e) : \E i \in I : e[n] = s[i]
               /\ \A m, n \in 1 .. Len(e) : e[m] = e[n] => m = n
<1> DEFINE e == ElementsAt(s, I)
<1>1. /\ e \in Seq(T) /\ Len(e) \in Nat /\ Len(e) <= Len(s)
      /\ I # DOMAIN s => Len(e) < Len(s)
      /\ \A n \in DOMAIN e : \E i \in I : e[n] = s[i]
      /\ (\A i, l \in DOMAIN s : s[i] = s[l] => i = l) =>
            \A m, n \in DOMAIN e : e[m] = e[n] => m = n
  BY ElementsAtIs
<1>2. DOMAIN s = 1 .. Len(s)
  BY LenProperties
<1> HIDE DEF e
<1>3. DOMAIN e = 1 .. Len(e)
  BY <1>1, LenProperties
<1>4. \A m, n \in 1 .. Len(e) : e[m] = e[n] => m = n
  BY <1>1, <1>2, <1>3
<1>5. \A n \in 1 .. Len(e) : \E i \in I : e[n] = s[i]
  BY <1>1, <1>3
<1> QED  BY <1>1, <1>4, <1>5 DEF e

\* Moving a key to the end, where it was or is new.
LEMMA MovedToEnd ==
    ASSUME CacheInv, NEW k \in Keys, status[k[1]] = "completed"
    PROVE  LET moved == Append(Without(k), k)
           IN  /\ moved \in Seq(Keys) /\ Len(moved) \in Nat \ {0}
               /\ Len(moved) <= Len(cache) + 1
               /\ Cached(k) => Len(moved) <= Len(cache)
               /\ \A n \in 1 .. Len(moved) : status[moved[n][1]] = "completed"
               /\ \A m, n \in 1 .. Len(moved) : moved[m] = moved[n] => m = n
<1> DEFINE I == {i \in DOMAIN cache : cache[i] # k}
<1>1. PICK rest, moved : rest = Without(k) /\ moved = Append(rest, k)
  OBVIOUS
<1>2. /\ cache \in Seq(Keys) /\ DOMAIN cache = 1 .. Len(cache) /\ Len(cache) \in Nat
      /\ \A i \in 1 .. Len(cache) : status[cache[i][1]] = "completed"
      /\ \A i, l \in 1 .. Len(cache) : cache[i] = cache[l] => i = l
  BY LenProperties DEF CacheInv, CacheOfKeptJobs
<1>3. rest = ElementsAt(cache, I)
  BY <1>1 DEF Without
<1>4. I \in SUBSET DOMAIN cache /\ \A i \in I : i \in 1 .. Len(cache) /\ cache[i] # k
  BY <1>2
<1>5. Cached(k) => I # DOMAIN cache
  BY <1>2 DEF Cached
<1> HIDE DEF I
<1>6. /\ rest \in Seq(Keys) /\ Len(rest) \in Nat /\ Len(rest) <= Len(cache)
      /\ I # DOMAIN cache => Len(rest) < Len(cache)
      /\ \A n \in 1 .. Len(rest) : \E i \in I : rest[n] = cache[i]
      /\ \A m, n \in 1 .. Len(rest) : rest[m] = rest[n] => m = n
  BY <1>2, <1>3, <1>4, KeptElements
<1>7. /\ moved \in Seq(Keys) /\ Len(moved) = Len(rest) + 1
      /\ \A n \in 1 .. Len(rest) : moved[n] = rest[n]
      /\ moved[Len(rest) + 1] = k
  BY <1>1, <1>6, AppendProperties
<1>8. /\ Len(moved) \in Nat \ {0} /\ Len(moved) <= Len(cache) + 1
      /\ Cached(k) => Len(moved) <= Len(cache)
  BY <1>2, <1>5, <1>6, <1>7
<1>9. \A n \in 1 .. Len(moved) : n \in 1 .. Len(rest) \/ n = Len(rest) + 1
  BY <1>6, <1>7
<1>10. \A n \in 1 .. Len(rest) : rest[n] # k /\ status[rest[n][1]] = "completed"
  BY <1>2, <1>4, <1>6
<1>11. \A n \in 1 .. Len(moved) : status[moved[n][1]] = "completed"
  BY <1>7, <1>9, <1>10
<1>12. \A m, n \in 1 .. Len(moved) : moved[m] = moved[n] => m = n
  BY <1>6, <1>7, <1>9, <1>10
<1> QED  BY <1>1, <1>7, <1>8, <1>11, <1>12

\* A step of the manager drops the timelines of the jobs it removes.
LEMMA JobStepKeepsCacheInv ==
    ASSUME CacheInv, IInv, JobStep
    PROVE  CacheInv'
<1>1. CASE closer'.pc # "open" /\ ~ShutDown
  <2>1. cache' = <<>>
    BY <1>1 DEF JobStep
  <2> QED  BY <2>1, EmptySeq, RunTracesAssumption DEF CacheInv, CacheOfKeptJobs
<1>2. CASE ~(closer'.pc # "open" /\ ~ShutDown)
  <2> DEFINE I == {i \in DOMAIN cache : status'[cache[i][1]] # "removed"}
  <2>1. cache' = ElementsAt(cache, I)
    BY <1>2 DEF JobStep
  <2>2. /\ cache \in Seq(Keys) /\ DOMAIN cache = 1 .. Len(cache) /\ Len(cache) \in Nat
        /\ \A i \in 1 .. Len(cache) : status[cache[i][1]] = "completed" /\ cache[i] \in Keys
        /\ \A i, l \in 1 .. Len(cache) : cache[i] = cache[l] => i = l
        /\ Len(cache) <= MaxCache
        /\ ShutDown => cache = <<>>
    BY LenProperties, ElementOfSeq DEF CacheInv, CacheOfKeptJobs
  <2>3. \A j \in Jobs : status[j] = "completed" => status'[j] \in {"completed", "removed"}
    BY StepMoves DEF JobStep, Moves, Admits, Ongoing, Terminal
  <2>4. I \in SUBSET DOMAIN cache /\ \A i \in I : status'[cache[i][1]] = "completed"
    BY <2>2, <2>3 DEF Keys
  <2> HIDE DEF I
  <2>5. PICK e : e = cache'
    OBVIOUS
  <2>6. /\ e \in Seq(Keys) /\ Len(e) \in Nat /\ Len(e) <= Len(cache)
        /\ \A n \in 1 .. Len(e) : \E i \in I : e[n] = cache[i]
        /\ \A m, n \in 1 .. Len(e) : e[m] = e[n] => m = n
    BY <2>1, <2>2, <2>4, <2>5, KeptElements
  <2>7. \A n \in 1 .. Len(e) : status'[e[n][1]] = "completed"
    BY <2>4, <2>6
  <2>8. Len(e) <= MaxCache
    BY <2>2, <2>6, RunTracesAssumption
  <2>9. ShutDown' => e = <<>>
    <3>1. ShutDown' => ShutDown
      BY <1>2 DEF ShutDown
    <3>2. ShutDown => Len(e) = 0
      BY <2>2, <2>6, EmptySeq
    <3> QED  BY <2>6, <3>1, <3>2, EmptySeq
  <2> QED  BY <2>5, <2>6, <2>7, <2>8, <2>9 DEF CacheInv, CacheOfKeptJobs
<1> QED  BY <1>1, <1>2

\* Nor does a caller that hits the cache, or publishes a replay, bring anything else in.
LEMMA HitKeepsCacheInv ==
    ASSUME CacheInv, NEW r \in Readers, NEW k \in Keys, HitCache(r, k)
    PROVE  CacheInv'
<1>1. PICK moved : moved = Append(Without(k), k)
  OBVIOUS
<1>2. /\ cache' = moved /\ status' = status /\ ShutDown' = ShutDown /\ Cached(k)
      /\ status[k[1]] = "completed"
  BY <1>1 DEF HitCache, HasTimeline, vars, jobVars, ShutDown
<1>3. Len(cache) \in Nat /\ Len(cache) <= MaxCache /\ ~ShutDown
  BY <1>2, LenProperties, EmptySeq DEF CacheInv, CacheOfKeptJobs, Cached
<1>4. /\ moved \in Seq(Keys) /\ Len(moved) \in Nat /\ Len(moved) <= Len(cache)
      /\ \A n \in 1 .. Len(moved) : status[moved[n][1]] = "completed"
      /\ \A m, n \in 1 .. Len(moved) : moved[m] = moved[n] => m = n
  BY <1>1, <1>2, MovedToEnd
<1>5. Len(moved) <= MaxCache
  BY <1>3, <1>4, RunTracesAssumption
<1> QED  BY <1>2, <1>3, <1>4, <1>5 DEF CacheInv, CacheOfKeptJobs

LEMMA PublishKeepsCacheInv ==
    ASSUME CacheInv, FlightInv, NEW r \in Readers, NEW built, Publish(r, built)
    PROVE  CacheInv'
<1>1. PICK k : k = reader[r].key
  OBVIOUS
<1>2. k \in Keys /\ status' = status /\ ShutDown' = ShutDown
  BY <1>1 DEF Publish, FlightInv, TypeInv, vars, jobVars, ShutDown
<1>3. CASE cache' = cache
  BY <1>2, <1>3 DEF CacheInv, CacheOfKeptJobs
<1>4. CASE cache' # cache
  <2>1. /\ Published(r, built) = "replay" /\ ~ShutDown /\ cache' = Stored(k)
    BY <1>1, <1>4 DEF Publish
  <2>2. status[k[1]] = "completed"
    BY <1>1, <2>1 DEF Published
  <2>3. PICK moved : moved = Append(Without(k), k)
    OBVIOUS
  <2>4. cache' = IF Len(moved) > MaxCache THEN Tail(moved) ELSE moved
    BY <2>1, <2>3 DEF Stored
  <2>5. /\ moved \in Seq(Keys) /\ Len(moved) \in Nat \ {0} /\ Len(moved) <= Len(cache) + 1
        /\ \A n \in 1 .. Len(moved) : status[moved[n][1]] = "completed"
        /\ \A m, n \in 1 .. Len(moved) : moved[m] = moved[n] => m = n
    BY <1>2, <2>2, <2>3, MovedToEnd
  <2>6. Len(cache) \in Nat /\ Len(cache) <= MaxCache /\ MaxCache \in Nat
    BY LenProperties, RunTracesAssumption DEF CacheInv, CacheOfKeptJobs
  <2>7. CASE Len(moved) <= MaxCache
    <3>1. cache' = moved
      BY <2>4, <2>5, <2>6, <2>7
    <3> QED  BY <1>2, <2>1, <2>5, <2>7, <3>1 DEF CacheInv, CacheOfKeptJobs
  <2>8. CASE Len(moved) > MaxCache
    <3>1. PICK tail : tail = Tail(moved)
      OBVIOUS
    <3>2. moved # <<>>
      BY <2>5, EmptySeq
    <3>3. /\ tail \in Seq(Keys) /\ Len(tail) = Len(moved) - 1
          /\ \A n \in 1 .. Len(tail) : tail[n] = moved[n + 1]
      BY <2>5, <3>1, <3>2, HeadTailProperties
    <3>4. Len(tail) <= MaxCache
      BY <2>5, <2>6, <3>3
    <3>5. \A n \in 1 .. Len(tail) : n + 1 \in 1 .. Len(moved)
      BY <2>5, <3>3
    <3>6. \A n \in 1 .. Len(tail) : status[tail[n][1]] = "completed"
      BY <2>5, <3>3, <3>5
    <3>7. \A m, n \in 1 .. Len(tail) : tail[m] = tail[n] => m = n
      <4> SUFFICES ASSUME NEW m \in 1 .. Len(tail), NEW n \in 1 .. Len(tail), tail[m] = tail[n]
                   PROVE  m = n
        OBVIOUS
      <4>1. m + 1 = n + 1
        BY <2>5, <3>3, <3>5
      <4> QED  BY <4>1
    <3>8. cache' = tail
      BY <2>4, <2>8, <3>1
    <3> QED  BY <1>2, <2>1, <3>3, <3>4, <3>6, <3>7, <3>8 DEF CacheInv, CacheOfKeptJobs
  <2> QED  BY <2>5, <2>6, <2>7, <2>8
<1> QED  BY <1>3, <1>4

LEMMA NextKeepsCacheInv ==
    CacheInv /\ IInv /\ FlightInv /\ [TraceNext]_allVars => CacheInv'
<1> SUFFICES ASSUME CacheInv, IInv, FlightInv, [TraceNext]_allVars PROVE CacheInv'
  OBVIOUS
<1>1. CASE UNCHANGED <<vars, cache>>
  BY <1>1 DEF vars, jobVars, CacheInv, CacheOfKeptJobs, ShutDown
<1>2. ASSUME NEW r \in Readers, NEW k \in Keys, JoinFlight(r, k) \/ OwnFlight(r, k)
      PROVE  UNCHANGED <<vars, cache>>
  BY <1>2 DEF JoinFlight, OwnFlight
<1>3. ASSUME NEW r \in Readers, Return(r) PROVE UNCHANGED <<vars, cache>>
  BY <1>3 DEF Return
<1>4. CASE UNCHANGED allVars
  BY <1>1, <1>4 DEF allVars, traceVars
<1>5. CASE JobStep
  BY <1>5, JobStepKeepsCacheInv
<1>6. ASSUME NEW r \in Readers, ReaderStep(r) PROVE CacheInv'
  BY <1>1, <1>3, <1>6, PublishKeepsCacheInv DEF ReaderStep
<1>7. ASSUME NEW r \in Readers, NEW k \in Keys,
             HitCache(r, k) \/ JoinFlight(r, k) \/ OwnFlight(r, k)
      PROVE  CacheInv'
  BY <1>1, <1>2, <1>7, HitKeepsCacheInv
<1> QED  BY <1>4, <1>5, <1>6, <1>7 DEF TraceNext

\* However jobs end, are cancelled and removed while their timelines are replayed, and
\* whenever the manager shuts down, the cache holds timelines of completed jobs that are
\* remembered, each once, within its bound, and none once the manager is shut down.
THEOREM TracesCacheKept == TraceSpec => []CacheOfKeptJobs
<1>1. TraceInit => IInv
  BY InitIInv DEF TraceInit
<1>2. IInv /\ [TraceNext]_allVars => IInv'
  <2>1. [TraceNext]_allVars => [Next]_vars
    BY DEF TraceNext, JobStep, HitCache, JoinFlight, OwnFlight, ReaderStep, Publish, Return,
           allVars
  <2> QED  BY <2>1, NextKeepsIInv
<1>3. TraceInit => FlightInv
  BY RunTracesAssumption DEF TraceInit, FlightInv, TypeInv, SingleFlight, Idle, Places
<1>4. TraceInit => CacheInv
  BY EmptySeq, RunTracesAssumption DEF TraceInit, CacheInv, CacheOfKeptJobs
<1>5. CacheInv => CacheOfKeptJobs
  BY DEF CacheInv
<1> QED  BY <1>1, <1>2, <1>3, <1>4, <1>5, NextKeepsFlightInv, NextKeepsCacheInv, PTL
         DEF TraceSpec
==============================================================================
