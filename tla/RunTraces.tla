----------------------------- MODULE RunTraces -----------------------------
(***************************************************************************)
(* RunJobManager.trace_page() of run_jobs.py on top of RunJobs: pages of a *)
(* completed job's batch timeline, replayed outside the lock by one caller *)
(* (the owner of a flight) while the others wait on its event, and kept in *)
(* an LRU cache that a removed job and shutdown() empty.                   *)
(*                                                                         *)
(* A timeline is its key <<job, batch>>; paging a replay is left out.      *)
(***************************************************************************)
EXTENDS RunJobs, Subsequences

CONSTANTS
    Readers,       \* threads calling trace_page()
    Batches,       \* batch ids a caller may name
    NoReader,      \* not a reader
    MaxCache       \* max_trace_cache_entries

ASSUME RunTracesAssumption ==
    /\ NoReader \notin Readers
    /\ MaxCache \in Nat \ {0}

VARIABLES
    kind,      \* kind[j]: what run_scenario returns for job j's scenario
    cache,     \* keys of _trace_cache, least recently used first
    inflight,  \* _trace_inflight: the reader that owns the flight of a key
    reader     \* reader[r]: where a trace_page() call is

traceVars == <<kind, cache, inflight, reader>>
allVars   == <<vars, traceVars>>

Keys == Jobs \X Batches

\* An OnlineScenarioResult, a FastScenarioResult with or without an online
\* `detailed` run, or the result of a static workload.
Kinds == {"online", "fast_detailed", "fast", "static"}

\* A call that is replaying holds its key and the object it replays, the job's
\* result <<j, "result">> or the online run inside it, <<j, "detailed">>; one that
\* waits holds its key and the owner of the flight; one that was answered holds
\* its key and an outcome: a "replay", "batch_not_found", "replay_error" or
\* "job_not_found".
Idle == [pc |-> "idle"]

TraceInit ==
    /\ Init
    /\ kind \in [Jobs -> Kinds]
    /\ cache = <<>>
    /\ inflight = [k \in Keys |-> NoReader]
    /\ reader = [r \in Readers |-> Idle]

----------------------------------------------------------------------------

Cached(k) == \E i \in 1 .. Len(cache) : cache[i] = k
Without(k) == ElementsAt(cache, {i \in DOMAIN cache : cache[i] # k})

\* A step of the job manager: removing a job drops its cached timelines, the
\* first block of shutdown() drops all.
JobStep ==
    /\ Next
    /\ cache' = IF closer'.pc # "open" /\ ~ShutDown THEN <<>>
                ELSE ElementsAt(cache, {i \in DOMAIN cache : status'[cache[i][1]] # "removed"})
    /\ UNCHANGED <<kind, inflight, reader>>

\* _trace_result_locked(j) returns a result instead of raising.
HasTimeline(j) == status[j] = "completed" /\ kind[j] \in {"online", "fast_detailed"}

\* What it returns: the `detailed` of a fast result, else the result itself.
Timeline(j) == <<j, IF kind[j] = "fast_detailed" THEN "detailed" ELSE "result">>

HitCache(r, k) ==
    /\ reader[r] = Idle
    /\ HasTimeline(k[1])
    /\ Cached(k)
    /\ cache' = Append(Without(k), k)
    /\ reader' = [reader EXCEPT ![r] = [pc |-> "answered", key |-> k, outcome |-> "replay"]]
    /\ UNCHANGED <<vars, kind, inflight>>

JoinFlight(r, k) ==
    /\ reader[r] = Idle
    /\ HasTimeline(k[1])
    /\ ~Cached(k)
    /\ inflight[k] # NoReader
    /\ reader' = [reader EXCEPT ![r] = [pc |-> "waiting", key |-> k, owner |-> inflight[k]]]
    /\ UNCHANGED <<vars, kind, cache, inflight>>

\* Fault: a caller replays without looking for a flight.
OwnAnyFlight(r, k) ==
    /\ reader[r] = Idle
    /\ HasTimeline(k[1])
    /\ ~Cached(k)
    /\ inflight' = [inflight EXCEPT ![k] = r]
    /\ reader' = [reader EXCEPT ![r] = [pc |-> "replaying", key |-> k,
                                        result |-> Timeline(k[1])]]
    /\ UNCHANGED <<vars, kind, cache>>

OwnFlight(r, k) ==
    /\ reader[r] = Idle
    /\ HasTimeline(k[1])
    /\ ~Cached(k)
    /\ inflight[k] = NoReader
    /\ inflight' = [inflight EXCEPT ![k] = r]
    /\ reader' = [reader EXCEPT ![r] = [pc |-> "replaying", key |-> k,
                                        result |-> Timeline(k[1])]]
    /\ UNCHANGED <<vars, kind, cache>>

\* The owner's second locked block.  A replay is published only if the job is
\* still there, completed, and its result is the object that was replayed.
Published(r, built) ==
    LET j == reader[r].key[1] IN
    IF built = "replay" /\ (status[j] # "completed" \/ reader[r].result # <<j, "result">>)
    THEN "job_not_found"
    ELSE built

Stored(k) ==
    LET appended == Append(Without(k), k)
    IN  IF Len(appended) > MaxCache THEN Tail(appended) ELSE appended

\* Faults: an owner that fails does not signal its flight; a replay that ends
\* after its job or the manager went is cached.
PublishSilently(r, built) ==
    /\ reader[r].pc = "replaying"
    /\ LET k == reader[r].key
           outcome == Published(r, built)
           answer == [pc |-> "answered", key |-> k, outcome |-> outcome]
       IN
       /\ cache' = IF outcome = "replay" /\ ~ShutDown THEN Stored(k) ELSE cache
       /\ inflight' = [inflight EXCEPT ![k] = IF @ = r THEN NoReader ELSE @]
       /\ reader' = [q \in Readers |->
             IF q = r \/ (reader[q].pc = "waiting" /\ reader[q].owner = r /\ outcome = "replay")
             THEN answer ELSE reader[q]]
    /\ UNCHANGED <<vars, kind>>

PublishLate(r, built) ==
    /\ reader[r].pc = "replaying"
    /\ LET k == reader[r].key
           answer == [pc |-> "answered", key |-> k, outcome |-> built]
       IN
       /\ cache' = IF built = "replay" THEN Stored(k) ELSE cache
       /\ inflight' = [inflight EXCEPT ![k] = IF @ = r THEN NoReader ELSE @]
       /\ reader' = [q \in Readers |->
             IF q = r \/ (reader[q].pc = "waiting" /\ reader[q].owner = r)
             THEN answer ELSE reader[q]]
    /\ UNCHANGED <<vars, kind>>

Publish(r, built) ==
    /\ reader[r].pc = "replaying"
    /\ LET k == reader[r].key
           outcome == Published(r, built)
           answer == [pc |-> "answered", key |-> k, outcome |-> outcome]
       IN
       /\ cache' = IF outcome = "replay" /\ ~ShutDown THEN Stored(k) ELSE cache
       /\ inflight' = [inflight EXCEPT ![k] = IF @ = r THEN NoReader ELSE @]
       /\ reader' = [q \in Readers |->
             IF q = r \/ (reader[q].pc = "waiting" /\ reader[q].owner = r)
             THEN answer ELSE reader[q]]
    /\ UNCHANGED <<vars, kind>>

Return(r) ==
    /\ reader[r].pc = "answered"
    /\ reader' = [reader EXCEPT ![r] = Idle]
    /\ UNCHANGED <<vars, kind, cache, inflight>>

ReaderStep(r) ==
    \/ \E built \in {"replay", "batch_not_found", "replay_error"} : Publish(r, built)
    \/ Return(r)

TraceNext ==
    \/ JobStep
    \/ \E r \in Readers :
          \/ \E k \in Keys : HitCache(r, k) \/ JoinFlight(r, k) \/ OwnFlight(r, k)
          \/ ReaderStep(r)

TraceSpec == TraceInit /\ [][TraceNext]_allVars

\* The threads of the manager are scheduled; replay_online_batch_trace() ends, with a
\* replay or an exception, and the threads of callers that were answered run on.
TraceFairSpec == TraceSpec /\ Fairness /\ \A r \in Readers : WF_allVars(ReaderStep(r))

----------------------------------------------------------------------------
(* Properties. *)

\* The cache holds timelines of completed jobs that are still remembered, each
\* once, within its bound, and none once the manager is shut down: a replay
\* that finishes late brings nothing back.
CacheOfKeptJobs ==
    /\ \A i \in 1 .. Len(cache) : status[cache[i][1]] = "completed"
    /\ \A i, l \in 1 .. Len(cache) : cache[i] = cache[l] => i = l
    /\ Len(cache) <= MaxCache
    /\ ShutDown => cache = <<>>

\* No batch is replayed by two callers at once, and a caller that waits waits
\* for a caller that is replaying the batch it wants.
SingleFlight ==
    /\ \A r \in Readers : reader[r].pc = "replaying" => inflight[reader[r].key] = r
    /\ \A k \in Keys : inflight[k] # NoReader =>
          reader[inflight[k]].pc = "replaying" /\ reader[inflight[k]].key = k
    /\ \A r \in Readers : reader[r].pc = "waiting" =>
          inflight[reader[r].key] = reader[r].owner

\* The timeline of a fast forecast that carries a detailed online run, and whose
\* job is completed and remembered, is found.
DetailedTraceServed ==
    \A r \in Readers :
        /\ reader[r].pc = "answered"
        /\ reader[r].outcome = "job_not_found"
        /\ kind[reader[r].key[1]] = "fast_detailed"
        => status[reader[r].key[1]] # "completed"

\* Every call of trace_page() that owns or joined a flight is answered.
EveryReaderAnswered == \A r \in Readers : reader[r].pc # "idle" ~> reader[r].pc = "idle"
=============================================================================
