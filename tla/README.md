# heterollm-sim: a verification project

heterollm-sim simulates LLM inference on heterogeneous memory (HBM, HBF, DRAM).
This directory holds TLA+ models of its stateful parts, TLC runs that check them
on small instances, and TLAPS proofs. Paths are relative to the repository;
`<file>.py` without a directory is `src/heterollm_sim/<file>.py`.

## Inventory

| Component | State it keeps | Operations | Hard behaviour | What makes it correct | Modules |
|---|---|---|---|---|---|
| Background jobs (`run_jobs.py`) | jobs, finished order, executor queue, trace cache and flights | submit, cancel, prune, shutdown, run, report, trace_page | threads; work between two locked blocks; late results | cancellation wins, every job is held and ends, the history forgets the oldest, one replay per batch | `RunJobs`, `JobLifecycle`, `RunTraces` |
| KV pool (`kv_pool.py`) | pages, request tables, prefixes, pins, pending moves, byte ledger | resize, release, handoff, register and release a prefix, pin, evict, move, prepared restore | shared pages, failures half way, copies under way | bytes and references exact, nothing freed in use | `KVPool` |
| KV transfer executor (`kv_transfer.py`), caches (`cache_state.py`) | bindings, plans and their callbacks, allocators, cache lines | prepare, advance, commit, cancel, roll back, move, snapshot, restore | callbacks of a future that was discarded; failures after physical effects | whatever fails is given back; no written byte is lost | `KVTransfer` (part) |
| Serving scheduler (`serving.py`) | sequences, page counters, cohorts | arrive, admit, reserve, execute, preempt, swap, recover | preemption under pressure, no progress | cohorts are funded, swaps lose nothing, the run ends | `Serving` (part) |
| Event kernel (`event_kernel.py`, `streaming_des.py`) | task graph, ready queues, lanes, leases | submit, step, retain, release; lowering on demand | queue entries that age, graphs that arrive in pieces | every task runs once, after its predecessors, at the time a complete graph would give it | `TaskGraph`, `EventKernel`, `StreamingRun` (part) |
| Residency (`residency.py`) | allocations, views, resident and dirty granules, leases | register, view, lease, access, commit, evict, release | victims among leased granules; copies that must wait for readers | capacity, no dirty byte lost, evictions wait | `Residency` (part) |
| Window shards (`native_window_shards.py`) | claim, record, limit and cancel files of a pass | claim, run, record, cancel, collect, take over | processes that die at any step, files between them | the runs one process would have made | `WindowList`, `WindowShards` |
| Scan scripts (`scripts/b200_hbm_hbf_scan.py`) | manifest, point, progress, status and stop files | run queue, worker, retry, adopt, stop | a manager dies, its workers go on | one job per medium, no point lost, no result replaced | `ScanQueue` (part) |
| Address allocator (`memory_allocator.py`) | free ranges, generations | allocate, release, transactions | rollback | allocations disjoint | - |
| Graph lifecycles (`cuda_graph_lifecycle.py`, `llama_graph_lifecycle.py`) | graph entries and their phase | prepare, commit, fail | prepare and commit apart | a graph is reused only if it matches | - |
| Retained KV, speculative cursors (`retained_kv_state.py`, `mtp.py`) | cursors of a request | advance, roll back | acceptance of drafts | cursors follow the tokens | - |
| DRAM/HBM controllers (`dram_core.py`, `_dram_scheduler.py`, `_hbm_*.py`) | banks, rows, refresh | submit, refresh | reordering, deadlines | hazards kept in order | - |
| NAND controller (`nand_core.py`) | write buffer, staged pages | submit, flush, transactions | rollback | staged data neither lost nor written twice | - |
| HTTP (`web.py`) | the job manager it owns | GET, POST, DELETE | look-up, then act | answers consistent with the manager | - |
| Planner, costs, presets, reporting | none after a call | pure translations | size | - | - |

The web server owns one job manager. A job runs a scenario: the serving scheduler
decides which request gets pages and runs, the KV pool and the transfer
executor keep the pages where they are, the planner lowers each batch to tasks, the
streaming loop hands these to the event kernel as they come due, and residency
makes room for what the tasks touch. A trace request replays a batch of a
finished job. The experiment scripts run many scenarios in processes that share
files: the scan queue starts a worker per point, a point may share its sampled windows with
helpers.

## Modules

Definitions marked "Fault" or "mutant" are not part of any specification: each is a plausible
mistake in one operation, and the properties are shown to reject it.

### RunJobs: `RunJobManager`

Every `with self._lock` block is one action. `CheckSubmit` and `CommitSubmit` are the
two blocks of `submit()`; the estimate lies between them. `Take` is the pool thread
that pops a work item (`set_running_or_notify_cancel`), `Start`/`Skip` the first
block of `_run_job`, `Report` the progress callback, `EndRun` the end of
`run_scenario`, `CommitRun` the last block. `BeginShutdown`, `CancelTarget`,
`ClosePool` and `JoinPool` are the steps of `shutdown()`. A job's `cancel_event` and
`cancellation_requested` are one set, `cancelled`. `prune()` by id is `PruneJob`, by
age or count `PruneKeep`. The thread pool is external: a FIFO of work items, futures
that can be cancelled until taken, threads that leave when the pool is closed and
its queue empty. One call of `shutdown()` is modelled; further calls find nothing to
select and wait for the same threads.

`JobLifecycle` is what a caller may see of the jobs; `Lifecycle` in `RunJobs` is its
instance and `ImplementsLifecycle` states that every step of the manager is a step
of it.

### RunTraces: `trace_page()`

Extends `RunJobs` with readers, the cache and the flights. `HitCache`, `JoinFlight`
and `OwnFlight` are the first locked block, `Publish` the second one, with the event
that wakes the waiters. `kind` fixes what the scenario of each job returns.

### KVPool: `DynamicKVPool`

One action per public call. `page` maps page numbers to records, `requests` and
`prefixes` are tables of page numbers, `recency` is the LRU order of `last_access`,
`used` the shared ledger and `owned` the pool's own bytes. `Grow` has both ends of
`resize`: the commit, and the rollback with what it leaves behind; `Placements` are the
components `_allocate_one` takes one after the other. The component
candidates, their rank and the sizes before and after `set_transfer_executor` are
constants. A second request holding a page, a prefix or a pin are what make
`_drop_ref` interesting, so all three are in the instance.

### KVTransfer: the pool's executor under the serving loop

A prefetch is a batch of transfers. `PreparePage` is one `prepare_restore_page()` of the
batch: target and relay buffers are allocated, the caches above the source written back,
a callback with a fresh token made; `PrepareFails` and `Abort` roll the batch back in
reverse order, each by restoring what it had before. `InFlight` advances a plan whose
phase has ended, `Finishing` are the steps of `_complete_prefetches()`: advance, commit
or cancel whatever is due. Cohorts, publications and batches of moves take a snapshot
first and `Restore` it when they fail: plans in flight continue from it, while the
callbacks made since are refused (`_check_phase_token`, `terminal_epoch`). `current` and
`ended`, as history, say which callback is the last one of its plan on the timeline that led
to this state. `content` counts the versions written to a page, so that "the copy that
arrives is the newest" can be stated; a page is one cache line. Rolling a callback back is
legal only right after its preparation, and a relay buffer is held until the plan is finished.
The cancel flag of a prefetch is not restored when a cohort fails.

### Serving: `_OnlineRuntime`

One thread runs `_run_until_decode_steps()`; `pc` names the function it is in, and a step
is what that function does with one candidate, victim or cohort.

| `pc` | Code | Actions |
|---|---|---|
| `round`, `woken` | the main loop, the start of a pass of `_stabilize_boundary` | `Arrive`, `EndRun` |
| `priority` | `_priority_preempt` | `PriorityPreempt` |
| `fill`, `admit` | `_fill_slots`: its while loop, its candidates | `FillSlots`, `EndFill`, `ResumeSwapped`, `ReserveAdmission`, `AdmitLazily` |
| `reserve` | `_reserve_capacity_with_pressure` | `Granted`, `EvictVictim`, `Denied` |
| `select`, `build` | `_select_cohort`, `_decode_cohort`, `_prefill_cohort` | `SelectCohort`, `ReserveItem`, `EndPhase` |
| `execute` | `_execute_cohort` | `Execute` |
| `idle`, `recover` | no cohort; `_recover_stalled` | `WakeUp`, `Stall`, `PassOver`, `GiveUp`, and the three ways to admit |
| `crashed`, `unstable` | the `RuntimeError` of `_assign_slot`, of `_stabilize_boundary` | none |

`state[r]` is the `_MutableRequest` of a request, `used` and `offloaded` the page
counters of `_KVLedger`, `admission` the order that `admission_sequence` defines, `served`
the rank of a request by `last_service_sequence`, `moved` whether the clock advanced since the pass
began. The code counts pages; `kv` adds, as history, which token positions have been computed
and not dropped since, so that "the context of this item is cached" can be stated. `plan` and
`load` are chosen once, among the settings of the scheduler and the workloads of the
instance. The clock is read by the code for arrivals, ages and the passes of a
boundary: an arrival may fall into any gap, an age counts cohorts, and a transfer of bytes
sets `moved`. Ties are broken as in the code, by request id, so a step is
deterministic but for the arrivals.

### TaskGraph, EventKernel: `UnifiedEventKernel`

`TaskGraph` is the abstract kernel: tasks are accepted when their dependencies are known, and
placed one after the other, after their dependencies, on lanes that are free.
`EventKernel` is the code. `Submit` is one call of `submit()`, which takes all of a
chunk or nothing; `Step` pops the ready queue and executes the task
(`account_task_execution`), `RetainCompleted` and `ReleaseCompleted` are the completion leases
that let a later chunk depend on a task that is over. The ready queue is lazy: one entry
per group of tasks with the same demands, computed from the lanes as they were.
`DropStale` and `Requeue` are the two turns of the loop of `_pop_ready_entry` that find an
entry replaced, or its key grown. `graph` is a constant of a behaviour; `rank` stands for
(phase, sequence, task id), which no two tasks share.

### StreamingRun: `execute_incremental_schedule()`

Extends `EventKernel`. A request is lowered and submitted (`AddRequest`) when its arrival comes
before the next ready task, its next chunk (`AddChunk`) when the terminal task of the last one
has been executed and before that completion is released. Streamed tasks all
have phase and sequence 0, so that their rank is the order of their names. `Batch` is the reference: list
scheduling of the complete graph, written as a function of the graph.

`IsStream` says what a stream of lowered requests is. The requests come by arrival and, at one time, by
name (`_request_iterator`), and their arrival tasks have the order of their names; this is the
code's order unless one request id begins with another. A request is an arrival marker that waits
for nothing and takes nothing, and tasks that each wait for another of its chunk or for the terminal of
the chunk before (`_iter_parallel_request_task_chunks`, `planner.py:18938`, which starts every
chunk from the `end` of the last). Initial states are the graphs that are streams;
`GraphsAreStreams` has TLC check that the instance loses none by it.

### Residency: `AllocationResidencyManager`

Byte ranges are sets of granules. `Register`, `CreateView`, `AcquireLease`, `Access`,
`Commit`, `Evict`, `Release` and their counterparts are one action each, with everything
they evict on the way. `stamp` is the recency of the resident granules, renumbered after each
step to keep it finite. `anchors` are the consumers that released a lease and may still be
running (`_released_consumer_ranges`). Three histories make the properties possible:
`readers` (who leased a granule since it came in), `poolCopy` and `backingCopy` (where its newest
bytes are).

### WindowList, WindowShards: `native_window_shards.py`

`WindowList` is the loop of one process over the windows of a point: a run that proves the
store's reservation too small starts the list again with a larger one, an error ends it.
`WindowShards` shares the list: an action is the work a process does between two looks at
the files of the pass. A process claims a window (`ClaimWindow`), looks at the limit again
(`RecheckLimit`), runs it, saves it or sets a limit and cancels what lies behind; the
primary then collects the records in order, and takes a window over when its owner is dead
(`AskOwner`, `DropClaim`, `GrabWindow`). `Die` may stop a helper anywhere. `ZombiesLookAlive` is what
the operating system answers for a child that died and was not waited for.

### ScanQueue: `b200_hbm_hbf_scan.py`

`manager` is where the manager is in `run_queue()`: `top`, `launch`, `poll`, `status`, then
`finally` and `wait`; a worker is `spawned`, `running`, `published`, `exited`. Both may be
killed anywhere, the manager may be interrupted or leave after its 55 seconds; `Start` adopts live workers,
refuses, or puts the points back. All they share are the files `report`
(results), `progress`, `stopFile` and `status`. `blind` is history: workers that a manager left before their
first progress, of which a new manager can know nothing.

## Runs

| Run | Instance | Shows |
|---|---|---|
| `jobs` | 2 jobs, 2 workers, 2 submitters, history 1, 2 active; 113,362 states | cancellation wins, every job is held and ends, the history forgets the oldest, shutdown returns, `JobLifecycle` is implemented |
| `traces` | 2 jobs, 1 worker, 2 readers of one batch, cache of 1 | one replay at a time, no stale cache entry, every reader that owns or joins a flight answered |
| `traces_detailed` | the same | violated: the timeline of a fast result with a detailed fallback is never served |
| `kv_pool` | 2 requests, 1 prefix key, hbm, flash and hbf with different page sizes, 3 pages; 311,784 states | the ledger and the references are exact, a copy under way keeps its source and its holders |
| `kv_transfer` | one request with 2 swapped pages, one that grows, 3 transfers, 1 restore; 680,884 states | buffers, bindings and plans agree after every failure, stale callbacks are refused, no content is lost, a prefetch ends |
| `serving` | 3 requests, 2 slots, a cache of 3 pages of 2 tokens, 2 offload pages; all policies | pages follow the status, cohorts are funded, swaps keep the history, a lone swapped request resumes, the run ends |
| `event_kernel` | 4 tasks; a diamond, a contended wire under two names, tasks for two lanes | the least ready key of the moment is executed, every accepted task runs, `TaskGraph` is implemented |
| `streaming` | 2 requests in 2 and 2 or 3 chunks, all arrivals and times in 0..2, one or two lanes | the schedule is the one of the complete graph, and the loop drains |
| `residency` | weights, growing KV and a workspace without backing in a pool of 4, 1 lease, 2 consumers; 76,371 states | the pool is consistent, no write is lost, evictions wait for readers and take the least recent |
| `window_shards` | a primary and 2 helpers, 2 windows, 2 scenarios | one process per window, useless runs cancelled, `WindowList` is implemented, the sample ends |
| `window_posix` | the same with zombies that look alive | violated: the window of a helper that died is not run |
| `scan_queue` | 3 points on 2 media, 2 workers at a time, 2 managers, 3 processes; 878,764 states | one job per medium, no point lost, results kept, the manager ends |

### Bounds

Two threads of each kind are enough for every race `RunJobs` guards against: each guard
compares one caller with the state another left. A history of one overflows while
the second job is ending. `Jobs` bounds the number of submissions, `MaxHistory` and
`MaxActive` are the manager's parameters; the proofs are for any of them.

In the pool, `PageLimit` bounds the page numbers drawn, `SizeLimit` the pages of a request and
`GenerationLimit` the moves of a page; the capacities leave room for about two pages on a
component, so that allocation, moves and prepared restores both fit and fail.
`PrepareShared = FALSE` restricts prepared restores to pages of a request, as
`serving.py:4022` does; the pool itself does not, and with `TRUE` `evict()` and
`release_prefix()` free the source of a restore.

In `kv_transfer` two pages in one batch are the least for a batch that fails half way, three
plans let one of them be prepared again after a restore, with the phase it had before.
`Versions` bounds the writes told apart, `CacheLines` = 1 makes every other access a
write-back, and the capacities 3, 3 and 2 leave room for one target too few.

In `serving` two slots and three requests are the least with a waiter and a choice of
victims; the cache holds any request alone but no two of `MixedShapes` at their end, so that
reservations meet pressure; the offload component takes one grown request or two small
ones, and the next one finds it full. `MixedShapes` are a request that is all output and one
whose prompt takes two chunks, `EdgeShapes` an empty request, one without a prompt and
one that is rejected for its size. `TokenLimit` bounds the tokens of a request,
`AgeLimit` the ages counted. `Starvation` is the time of one cohort.

In `event_kernel` four tasks give three groups that contend for two owners, which is what makes an
entry stale in each of the two ways; `LeaseLimit` bounds the leases of a completion. In
`streaming` one of two graphs has a task beside a terminal, which is over before or
after it. In `residency` the pool holds two of the three allocations, so an access evicts one, and
the workspace cannot be. In `window_shards` the reservation proves too small at the second window,
or at the first one before a window that raises; two helpers are the least for two of them
to meet behind a limit. In `scan_queue` two of three points contend for one medium; two managers let
one adopt what another left. With three managers the invariants and `ResultKept` hold as
well (6,996,315 states); liveness was checked with two.

### Fairness

- `jobs`, `traces`: the threads of the pool and the thread in `shutdown()` are scheduled by the
  operating system (weak fairness per thread), and `run_scenario` ends. A job may report for
  ever only if it never ends, which the code does not exclude by itself: weak fairness
  of the worker's other steps says that it does end. Readers that own or wait
  for a flight are scheduled. No caller is obliged to do anything.
- `serving`, `streaming`: one thread that never waits takes a step while it has one.
- `kv_transfer`: a phase ends as simulated time passes, and the loop completes what is
  due before it starts anything else; a preparation and a move go on or fail.
- `event_kernel`: the caller calls `step()` until it returns None, as every driver in the
  repository does; it need not submit anything.
- `window_shards`: a process that lives goes on, a run ends, and a helper exits when its
  primary has. Nobody has to die, and nobody has to stop the point.
- `scan_queue`: a live manager and a live worker go on. Nobody has to start, stop or kill one.

`CHECK_DEADLOCK FALSE` is in every configuration because each of these systems stops: a closed manager
has nothing left to do, neither has a finished simulation, nor a pool all of whose bounded
page numbers are used.

## Proofs

All theorems hold for every value of the constants that satisfies the assumptions of the module.
Each proof has the same argument: a property that is seldom inductive by itself, the invariant that
makes it so, one lemma per action, and the temporal step.

`RunJobsProofs`, the manager: `TypeOK`, `ActiveBound`, `CancelWins`, `NeverStranded`, `RunningIsHeld`
and `TerminalIsFinal`. A queued job can
be shown to be held only if it is known that an item is queued at most once, that it is
not both queued and taken, and that an item whose future was cancelled belongs to a job that
is over; a cancelled job cannot be shown to end cancelled without knowing that a cancelled job
is running or over. `IInv` is the conjunction of these facts. `TerminalIsFinal` uses it to
know that a worker that starts or commits a job holds it. `EvictsOldest` and `ImplementsLifecycle`
rest on `HistoryInv`: ended jobs have distinct numbers below the counter, and only jobs that have
started or ended are cancelled; lemmas on the kept set (the last `MaxHistory` by number) give the
first, the refinement has one step per action. The traces: `SingleFlight`, with what
ties a flight to the one reader that replays it as the invariant, and `CacheOfKeptJobs`, from
`CacheInv`: whatever `prune()` or `shutdown()` does to jobs, it does to their entries in the
same block, and a late `Publish` looks at the job again.

`KVPoolProofs`: `ReferencesExact` and `LedgerConserved`, and, when restores are prepared only for pages a request holds,
`PendingSourceLive` and `InFlightUndisturbed`. `RefInv` adds to the first one that no table
has a page twice and that page numbers lie below the counter: without the former a page that
leaves a table might still be in it, without the latter a new page might be an old one. A freed page
has one reference, so the request or the prefix that gives it up is the only one that lists
it. `PendingHeld` adds to the second one that a request holds the page of a copy: a call on
that request refuses, and a call on a prefix then leaves a reference. `LedgerInv`
states `LedgerConserved` component by component: each call changes the number of pages on
a component and of copies on their way to it, and the ledger by as many pages' sizes
(`Balanced`). The capacity holds after a resize because the last new page placed on a component
was placed there with room left by all those before it (`PlacedWithin`).

`KVTransferProofs`: `OnlyThisTimeline`, `TransfersAccounted` and `ContentMoved`. `TimelineInv` is
for the first: no token was given out twice, and a live plan's token belongs to its last callback.
`TransferInv` is for the others. `Sound` is what holds of pages, bindings, allocators, caches
and plans between two calls: a page with a transfer has one plan, target and relay are allocated
for nothing else, the loop has the last callback of each plan once, a line is dirty only
if the page's buffer is where its newest bytes belong. The same predicate describes a snapshot
(`SavedSound`), which is what survives a `Restore`. A batch that is rolled back passes through
states that were never visible: `UndoSound` says that what the n-th preparation would
restore is what the n - 1 before it left, so undoing them in reverse order, and no other, ends
where the batch began. `TodoPages` is why a page is not prepared or moved twice.

`ServingProofs`: `PagesFollowStatus`, `CohortFunded`, `SwapKeepsHistory` and
`LoneSwappedResumes`. `IInv` says of each request what its status implies about its progress and
its pages (`StateInv`), of the ledger that both counters are the sums of the requests' pages, within
their capacities (`LedgerInv`), and what the function the loop is in relies on. While a
cohort is built, each item's request runs, needs the item and has the pages for
it, and preemptions for a later item take their victims elsewhere (`CohortInv`,
`ReserveInv`): without this a reservation could take the pages of an item already in the
cohort. While a candidate is admitted or recovered, it is still queued, holds nothing, and the
pages it asks for cover its history (`AdmissionInv`, `ReserveInv`). `LoneSwappedResumes` then is
arithmetic: when one unfinished request is left, the sums give it the whole cache.

`EventKernelProofs`: `LeastKeyFirst`, `ImplementsTaskGraph` and `MatchesBatch`. `KernelInv` ties indegrees,
dependents and leases to the tasks that ran; `QueueInv` says that every group with a ready task
has an entry of the current version with a key no greater than its least key: keys only
grow, so the entry that survives both checks of the pop is the least of all.

And `MatchesBatch`, of the loop that lowers requests on demand. `StreamInv` adds to the invariants of the
kernel that exactly the chunks up to each stream's position were submitted (`Lowered`), that a terminal
which ran has had its next chunk unless it is the event in hand (`ChunksFollow`), that
a ready time is the end of some dependency (`ReadyTight`), and that runs and lanes together are
`Scheduled[n]`, the schedule of the complete graph after as many tasks as have run (`OnSchedule`). A step keeps to
it because the task with the least key among the ready ones has the least among all that the
complete graph would offer: of those not yet submitted, only the markers of later requests
could run, and their keys are what the loop compares before it steps. The reference is a
recursive function; `ScheduleExists` builds it for each length, so that it can be unfolded.
`StreamIsKernel` says that the loop is one of the callers `KernelSpec` allows.

`ResidencyProofs`: `EvictionWaits`, since whoever leased a resident granule holds a
lease on it or is anchored to it. `PoolConsistent` and `ContentKept` are inductive together
with `Shape` and `StampsApart` (two allocations never share a recency): `ContentKept` needs the
pool's tables to know what an eviction writes back, and the counter needs the victims to be
resident. `EvictsLeastRecent` is about the victims of `Evict`, `Register` and
`Access`: those candidates before which the bytes freed do not yet cover the need.

`ScriptProofs`, the window shards: `RunExclusively`, `UselessRunsCancelled` and
`ImplementsOneProcess`, from one invariant on claims, records, limits and positions.

And the scan queue: `OneJobPerMedium`, `PointsAccounted` and `ResultKept`, from `QueueInv`. A manager launches after
a look at its own table, so one job per medium needs that every known live worker is in
that table (`RunningKnown`), across restarts too: a new manager refuses or adopts what the
progress files call running, which is enough because a known worker that has reported is the one its
file names (`RunningReported`) and the others are the ones left blind (`LeftBlind`). The two
need each other: a progress file names one worker only as long as no second one runs its
point. That no result is replaced then needs no more than that what runs or is to be run has no reusable
one (`WorkOpen`, `PendingOpen`). The accounts are three disjoint places of a point (`PendingApart`,
`RowsApart`) that together hold all of them (`Covered`), and `StopsLate`: an interrupted point is both put back and
among the rows, which is harmless only because a queue that has a reason to stop launches nothing.

`CollectionTheorems` has what these proofs share: sums over finite sets (adding, removing and changing
an element, unions, bounds), the subsequence of a sequence at a set of positions, and the elements of
a sequence after one was taken out or others were put in front. Where a
statement would need induction over a set's size, the proof takes a smallest counterexample instead.
`Subsequences` defines such a subsequence without recursion; `RunTraces`, `KVTransfer` and `ScanQueue` use
it in place of `SelectSeq`, which the prover cannot expand, and `MCRunTraces` assumes, for TLC to
evaluate, that the two agree on short sequences.

Model-checked only: everything about liveness, which needs fairness and ENABLED
(`EveryJobEnds`, `ShutdownJoins`, `EveryReaderAnswered`, `PrefetchEnds`, `LazyRunEnds`,
`SubmittedRuns`, `StreamDrains`, `SampleEnds`, `ManagerEnds`). Every other property of a passing
run is proved.

## Disagreements found

Each is a run that expects a violation and an entry of `findings` in `PROJECT.json`.

- `traces_detailed`: `trace_page()` never serves a detailed fallback (`run_jobs.py:382`); the
  nested result is compared with the job's own.
- `window_posix`: on POSIX the primary waits for the window of a helper that died, because
  `pid_alive()` (`scripts/run_exploring_hbf_native.py:366`) succeeds for a zombie.

## What the properties leave out

Behaviours of the code met while modelling, which no property of a passing run speaks of.

Serving:
- Eager admissions with preemption evict each other within one boundary without end
  (`serving.py:11724`), and a request's first decoded token releases the pages an eager admission
  reserved for the rest of its output (`serving.py:17189`).
- With the policy "swap" a run that is stuck swaps on instead of giving up
  (`serving.py:17336`), and stall recovery may resume a request when no slot is free
  (`serving.py:17350`).
- Displacement and admission use different ranks, so that with the policy "auto" and several
  priorities a boundary may swap the same request out and in until it "could not stabilize"
  (`serving.py:12996`).
- With aging, when `starvation_ns` is not above the time of a recompute, two requests displace each
  other for ever; the comment at `serving.py:13077` expects a useful value.
- A request preempted in its prompt may go on before its dropped history is recomputed
  (`serving.py:13062`); `SwapKeepsHistory` is about the requests never preempted that way.

`LazyRunEnds` names the settings that remain.

KV pool: a restore prepared for a page that no request holds (`PrepareShared`). Scan queue: a worker that a
manager left before it wrote its first progress; its point may run twice, and
`OneJobPerMedium`, `PointsAccounted` and `ResultKept` name this exception (`Unseen`).

## Not modelled

The map covers about three per cent of the repository's lines, and the rest is
mostly out of a model checker's reach. Half of the code translates: the planner
and its relatives (`planner.py`, 34,800 lines, `control_plane_planner.py`, `data_motion.py`, `ir.py`) build task
graphs from scenarios, `cost_models.py` and the kernel models compute floating-point times,
the presets and schemas are tables, reporting formats results. None of these keeps a state between
two calls that an ordering could disturb; a model would repeat the formulas.
The memory controllers (DRAM, HBM, NAND) do keep state, and decide by comparing real
times: without the arithmetic any order would be allowed, with it the state space is the
arithmetic's. The address allocator is a sequential class, tested in the repository against an oracle over random
calls. A graph lifecycle prepares and commits within one call of one thread; speculative
cursors advance within one step of the serving loop. The HTTP handlers call the job manager
and format what it returns.

Of the modelled components:
- jobs: snapshots, listings, estimates, progress figures, paging of a trace;
- pool: token addresses inside a page, events and counters kept for reports, external ledgers other
  than an atomic one;
- transfers: imports from outside, calendars and costs of the phases, several fast memories at
  once, which request is prefetched and the admission that waits for it;
- caches: lines within a page, write-through and bypassing, transactions;
- serving: prefetches, speculative decoding, linear state, the prompt cache, agents, external imports,
  expert-parallel groups, deadlines, a cost callback that fails;
- kernel: tasks with physical memory accesses and their allocations, the compiled and
  token-frame fast paths, capacities added later, metrics;
- residency: several pools at once, the figures of migration records, deferred validation;
- scan queue: cancellations, revalidation of selected points, reports; of
  `run_exploring_hbf_native.py` everything but its window helpers.

What would come next: prefetch admission in `Serving` as the composition with
`KVTransfer`, the transactions of the allocator and of the NAND write buffer.
