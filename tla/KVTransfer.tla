------------------------------ MODULE KVTransfer ------------------------------
(***************************************************************************)
(* Moves of KV pages between two memories: PhysicalKVTransferExecutor      *)
(* (kv_transfer.py) under the pool (kv_pool.py) and the serving loop       *)
(* (serving.py) that calls it.  A prefetch is a batch of transfers that    *)
(* advance phase by phase while cohorts run; offloads and restores move at *)
(* once.  Cohorts, publications and batches of moves that fail restore a   *)
(* snapshot, in which the plans in flight continue: the callbacks made     *)
(* since belong to a future that was discarded.                            *)
(***************************************************************************)
EXTENDS Integers, Sequences, FiniteSets, SequencesExt, Subsequences

CONSTANTS Requests, Pages,
          PagesOf,     \* [Requests -> SUBSET Pages]
          InitialTier, \* [Pages -> Tiers]: where each page is at the start
          Capacity,    \* [Tiers \cup {"relay"} -> Nat], in pages
          CacheLines,  \* pages the caches of the fast memory hold
          Steps,       \* phases of a transfer after the read of its source
          Versions,    \* bound: contents of a page told apart
          MaxPlans,    \* bound: transfers prepared
          MaxRestores  \* bound: snapshots restored

Tiers == {"hbm", "hbf"}   \* the serving memory and the one pages are swapped to

ASSUME RequestPages == PagesOf \in [Requests -> SUBSET Pages]
ASSUME TiersGiven == InitialTier \in [Pages -> Tiers \cup {"none"}]
ASSUME StepsPositive == Steps \in Nat \ {0}
ASSUME PagesFinite == IsFiniteSet(Pages)
ASSUME CacheHoldsALine == CacheLines \in Nat \ {0}
ASSUME BoundsNatural == {MaxPlans, MaxRestores} \subseteq Nat /\ Versions \in Nat \ {0}

VARIABLES
  \* What a snapshot holds.
  pool,      \* the pool's view of each page: [tier, gen, pending]
  binding,   \* _bindings: the executor's view of it
  plans,     \* _async_plan_states: [live plan -> [phase, token]]
  media,     \* the allocators: [allocated buffer -> its content]
  cache,     \* lines of the fast memory's caches, least recent first
  content,   \* history: the last content written to each page
  current,   \* history: [plan -> its last callback on this timeline]
  ended,     \* history: the plans committed or cancelled on this timeline
  batch,     \* entry["prepared"]: the callbacks the serving loop holds
  drained,   \* plans of the batch whose submitted phase has ended
  \* What a restore leaves alone.
  nextPlan,  \* _next_async_plan_id
  nextToken, \* _next_async_phase_token
  epoch,     \* _async_restore_epoch
  closed,    \* [finished plan -> terminal_epoch of its callbacks]
  cancelled, \* entry["cancel_requested_ns"] is set
  mode,      \* what the serving loop is doing
  todo,      \* the pages, or callbacks, the operation under way has still to treat
  undo,      \* the state before each preparation of an unfinished batch
  saved,     \* the snapshot taken for the operation under way
  issued     \* history: every callback made

restorable == <<pool, binding, plans, media, cache, content, current, ended,
                batch, drained>>
counters   == <<nextPlan, nextToken, epoch, closed, issued>>
loopState  == <<cancelled, mode, todo, undo, saved>>
vars       == <<restorable, counters, loopState>>

Snapshot == [pool |-> pool, binding |-> binding, plans |-> plans, media |-> media,
             cache |-> cache, content |-> content, current |-> current,
             ended |-> ended, batch |-> batch, drained |-> drained]

------------------------------------------------------------------------------
\* Buffers and caches.

Without(f, S) == [x \in DOMAIN f \ S |-> f[x]]
With(f, x, v) == [y \in DOMAIN f \cup {x} |-> IF y = x THEN v ELSE f[y]]

Buffer(p) == <<p, binding[p].tier, binding[p].gen>>
TargetOf(c) == <<c.page, c.target, c.gen>>
RelayOf(c) == <<c.page, "relay", c.gen>>

Bound == {p \in Pages : binding[p].tier \in Tiers}
Used(t) == Cardinality({b \in DOMAIN media : b[2] = t})

\* flush(): the dirty line of buffer b is written back and stays, clean.
IsDirty(b, l) == l.buffer = b /\ l.dirty
Unflushed(b) == [media |-> media, cache |-> cache]   \* mutant
Flushed(b) ==
  [media |-> [x \in DOMAIN media |->
                IF x = b /\ \E l \in Range(cache) : IsDirty(b, l)
                  THEN (CHOOSE l \in Range(cache) : IsDirty(b, l)).value ELSE media[x]],
   cache |-> [i \in DOMAIN cache |->
                IF cache[i].buffer = b THEN [cache[i] EXCEPT !.dirty = FALSE] ELSE cache[i]]]

\* discard_buffer()
Discarded(lines, S) == ElementsAt(lines, {i \in DOMAIN lines : lines[i].buffer \notin S})

\* _release_allocation() of the buffers of S.
Freed(S) == /\ media' = Without(media, S)
            /\ cache' = Discarded(cache, S)

\* access(): buffer b becomes the most recent line; the least recent makes room,
\* written back if it is dirty.
CacheAccess(b, dirty, value) ==
  LET hit  == {i \in DOMAIN cache : cache[i].buffer = b}
      rest == Discarded(cache, {b})
      full == hit = {} /\ Len(cache) >= CacheLines
      line == [buffer |-> b, value |-> value,
               dirty |-> dirty \/ \E i \in hit : cache[i].dirty]
  IN  /\ cache' = Append(IF full THEN Tail(rest) ELSE rest, line)
      /\ media' = IF full /\ rest[1].dirty
                    THEN [media EXCEPT ![rest[1].buffer] = rest[1].value] ELSE media

\* What a read of page p returns.
ValueOf(p) ==
  IF \E l \in Range(cache) : l.buffer = Buffer(p)
    THEN (CHOOSE l \in Range(cache) : l.buffer = Buffer(p)).value
    ELSE media[Buffer(p)]

------------------------------------------------------------------------------
\* The callbacks of a transfer plan, and when the executor accepts them.

\* _transfer_state(): the state behind callback c, if it has not been discarded.
IsLive(c) == c.plan \in DOMAIN plans
TokenIgnored(c) == TRUE   \* mutant
\* _check_phase_token()
TokenCurrent(c) == plans[c.plan].token = c.token

MayAdvance(c) ==
  /\ IsLive(c) /\ plans[c.plan].phase = c.phase /\ TokenCurrent(c)
  /\ c.phase < c.steps
MayCancel(c) == IsLive(c) /\ plans[c.plan].phase = c.phase /\ TokenCurrent(c)
MayCommit(c) == IsLive(c) /\ plans[c.plan].phase = c.steps /\ TokenCurrent(c)
MayRollBack(c) == IsLive(c) /\ plans[c.plan].phase = 0 /\ TokenCurrent(c)
\* A commit of a plan committed on this timeline returns without an effect.
MayRepeat(c) == ~IsLive(c) /\ c.plan \in DOMAIN closed /\ closed[c.plan] = epoch

Issue(c) == /\ issued' = issued \cup {c}
            /\ current' = With(current, c.plan, c)

\* _finish_transfer() of the plan of callback c.
Finish(c) == /\ plans' = Without(plans, {c.plan})
             /\ closed' = With(closed, c.plan, epoch)
             /\ current' = Without(current, {c.plan})
             /\ ended' = ended \cup {c.plan}

------------------------------------------------------------------------------
\* prepare_prefetch(): a batch of prepare_restore_page() calls, all or none.

Settled ==   \* _complete_prefetches() has nothing to do
  /\ ~cancelled => \A c \in Range(batch) : c.plan \in drained => c.phase = Steps
  /\ batch # <<>> => \E c \in Range(batch) :
       \/ c.plan \notin drained
       \/ ~cancelled /\ c.phase # Steps

Swapped(r) == {p \in PagesOf[r] : pool[p].tier = "hbf"}
Idle(r) == \A p \in PagesOf[r] : ~pool[p].pending

\* can_adjust(): the pages of S fit at t.
Fit(S, t) == Used(t) + Cardinality(S) <= Capacity[t]

StartPrefetch(r) ==
  /\ mode = "boundary" /\ batch = <<>> /\ Swapped(r) # {} /\ Fit(Swapped(r), "hbm")
  /\ nextPlan + Cardinality(Swapped(r)) <= MaxPlans
  /\ mode' = "prepare" /\ todo' = SetToSeq(Swapped(r))
  /\ UNCHANGED <<restorable, counters, cancelled, undo, saved>>

\* prepare_async(): the target and the relay are allocated, the caches written
\* back, the source read.
CallbackFor(p, target, steps, read) ==
  [plan |-> nextPlan, page |-> p, target |-> target, gen |-> binding[p].gen + 1,
   phase |-> 0, steps |-> steps, token |-> nextToken, data |-> read]

NewPlan(c) ==
  /\ Issue(c)
  /\ plans' = With(plans, nextPlan, [phase |-> 0, token |-> nextToken])
  /\ nextPlan' = nextPlan + 1 /\ nextToken' = nextToken + 1
  /\ UNCHANGED <<ended, epoch, closed>>

Room(t) == Used(t) < Capacity[t] /\ Used("relay") < Capacity["relay"]

PreparePage ==
  /\ mode = "prepare" /\ todo # <<>> /\ Room("hbm")
  /\ LET p == todo[1]
         flushed == Flushed(Buffer(p))
         c == CallbackFor(p, "hbm", Steps, flushed.media[Buffer(p)])
     IN  /\ NewPlan(c)
         /\ media' = With(With(flushed.media, TargetOf(c), 0), RelayOf(c), 0)
         /\ cache' = flushed.cache
         /\ pool' = [pool EXCEPT ![p].pending = TRUE]
         /\ batch' = Append(batch, c)
  /\ undo' = Append(undo, [media |-> media, cache |-> cache, binding |-> binding])
  /\ todo' = Tail(todo)
  /\ UNCHANGED <<binding, content, drained, cancelled, mode, saved>>

\* An allocation or a route refuses the next page, or the ledger the one whose
\* copy has just been prepared.
PrepareFails ==
  /\ mode = "prepare"
  /\ mode' = "abort" /\ todo' = <<>>
  /\ UNCHANGED <<restorable, counters, cancelled, undo, saved>>

\* abort_prepared_restore() of the i-th page: back to the state before it.
Abort(i) ==
  /\ mode = "abort" /\ batch # <<>>
  /\ MayRollBack(batch[i])
  /\ Finish(batch[i])
  /\ media' = undo[i].media /\ cache' = undo[i].cache /\ binding' = undo[i].binding
  /\ pool' = [pool EXCEPT ![batch[i].page].pending = FALSE]
  /\ batch' = RemoveAt(batch, i) /\ undo' = RemoveAt(undo, i)
  /\ UNCHANGED <<content, drained, nextPlan, nextToken, epoch, issued,
                 cancelled, mode, todo, saved>>
AbortFirst == Abort(1)   \* mutant: in the order of preparation
AbortLast == Abort(Len(batch))

EndPrepare ==
  /\ \/ mode = "prepare" /\ todo = <<>>
     \/ mode = "abort" /\ batch = <<>>
  /\ mode' = "boundary" /\ undo' = <<>> /\ cancelled' = FALSE
  /\ UNCHANGED <<restorable, counters, todo, saved>>

------------------------------------------------------------------------------
\* A batch in flight: _advance_prefetches_until() and _cancel_prefetch(), at a
\* boundary or between the tasks of a cohort.

Running == mode \in {"boundary", "cohort"}
Final(c) == c.phase = c.steps
Complete == \A c \in Range(batch) : Final(c) /\ c.plan \in drained
AllDrained == \A c \in Range(batch) : c.plan \in drained

\* Time passes: the submitted phase of a callback ends.
PhaseEnds(c) ==
  /\ Running /\ c.plan \notin drained
  /\ drained' = drained \cup {c.plan}
  /\ UNCHANGED <<pool, binding, plans, media, cache, content, current, ended, batch,
                 counters, loopState>>

\* advance(): the next phase is submitted; the last one writes the target.
Advance(i) ==
  /\ Running /\ ~cancelled /\ batch[i].plan \in drained /\ MayAdvance(batch[i])
  /\ LET c == [batch[i] EXCEPT !.phase = @ + 1, !.token = nextToken]
     IN  /\ Issue(c)
         /\ plans' = [plans EXCEPT ![c.plan] = [phase |-> c.phase, token |-> nextToken]]
         /\ batch' = [batch EXCEPT ![i] = c]
         /\ drained' = drained \ {c.plan}
         /\ media' = IF Final(c) THEN [media EXCEPT ![TargetOf(c)] = c.data] ELSE media
  /\ nextToken' = nextToken + 1
  /\ UNCHANGED <<pool, binding, cache, content, ended, nextPlan, epoch, closed, loopState>>

\* The session of the batch's request outlives its time to live.
CancelPrefetch ==
  /\ Running /\ batch # <<>> /\ ~cancelled /\ ~Complete
  /\ cancelled' = TRUE
  /\ UNCHANGED <<restorable, counters, mode, todo, undo, saved>>

------------------------------------------------------------------------------
\* Operations under a snapshot.

NoSnapshot == [none |-> TRUE]

Begin(operation, pages) ==
  /\ mode' = operation /\ todo' = pages /\ saved' = Snapshot
  /\ UNCHANGED <<restorable, counters, cancelled, undo>>

\* The operation raises: _restore_paged_pool_state() and the executor's restore().
Restore ==
  /\ mode \in {"publish", "discard", "offload", "restore", "cohort"}
  /\ epoch < MaxRestores
  /\ pool' = saved.pool /\ binding' = saved.binding /\ plans' = saved.plans
  /\ media' = saved.media /\ cache' = saved.cache /\ content' = saved.content
  /\ current' = saved.current /\ ended' = saved.ended
  /\ batch' = saved.batch /\ drained' = saved.drained
  /\ epoch' = epoch + 1
  /\ mode' = "boundary" /\ todo' = <<>> /\ saved' = NoSnapshot
  /\ UNCHANGED <<nextPlan, nextToken, closed, issued, cancelled, undo>>

\* Page p is at callback c's target now.
Rebind(c) ==
  /\ binding' = [binding EXCEPT ![c.page] = [tier |-> c.target, gen |-> c.gen]]
  /\ pool' = [pool EXCEPT ![c.page] = [tier |-> c.target, gen |-> @.gen + 1, pending |-> FALSE]]

\* complete_prefetch(): every page of the batch is published, or none.
StartPublish ==
  /\ mode = "boundary" /\ batch # <<>> /\ ~cancelled /\ Complete
  /\ Begin("publish", batch)

PublishPage ==
  /\ mode = "publish" /\ todo # <<>>
  /\ LET c == todo[1]
     IN  /\ MayCommit(c)
         /\ pool[c.page].gen + 1 = c.gen
         /\ Freed({Buffer(c.page), RelayOf(c)})
         /\ Rebind(c)
         /\ Finish(c)
  /\ todo' = Tail(todo)
  /\ UNCHANGED <<content, batch, drained, nextPlan, nextToken, epoch, issued,
                 cancelled, mode, undo, saved>>

EndPublish ==
  /\ mode = "publish" /\ todo = <<>>
  /\ mode' = "boundary" /\ batch' = <<>> /\ drained' = {} /\ saved' = NoSnapshot
  /\ UNCHANGED <<pool, binding, plans, media, cache, content, current, ended, counters,
                 cancelled, todo, undo>>

\* A cancelled batch: every submitted phase has ended, its targets are freed.
StartDiscard ==
  /\ mode = "boundary" /\ cancelled /\ batch # <<>> /\ AllDrained
  /\ Begin("discard", batch)

DiscardPage ==
  /\ mode = "discard" /\ todo # <<>>
  /\ LET c == todo[1]
     IN  /\ MayCancel(c)
         /\ pool[c.page].gen + 1 = c.gen
         /\ Freed({TargetOf(c), RelayOf(c)})
         /\ pool' = [pool EXCEPT ![c.page].pending = FALSE]
         /\ Finish(c)
  /\ todo' = Tail(todo)
  /\ UNCHANGED <<binding, content, batch, drained, nextPlan, nextToken, epoch, issued,
                 cancelled, mode, undo, saved>>

\* release() and sync_pages() of the pages of S.
Released(S) ==
  /\ pool' = [p \in Pages |-> IF p \in S THEN [pool[p] EXCEPT !.tier = "gone"] ELSE pool[p]]
  /\ binding' = [p \in Pages |-> IF p \in S THEN [binding[p] EXCEPT !.tier = "gone"]
                                            ELSE binding[p]]
  /\ Freed({Buffer(p) : p \in S})

\* _expire_agent_kv(): the session's pages go.
EndDiscard ==
  /\ mode = "discard" /\ todo = <<>>
  /\ \E r \in Requests : /\ \E c \in Range(batch) : c.page \in PagesOf[r]
                         /\ Released(PagesOf[r] \cap Bound)
  /\ mode' = "boundary" /\ batch' = <<>> /\ drained' = {} /\ saved' = NoSnapshot
  /\ UNCHANGED <<plans, content, current, ended, counters, cancelled, todo, undo>>

------------------------------------------------------------------------------
\* Moves at once: offload() and reclaim_prefetch(), restore().

OtherTier(t) == IF t = "hbm" THEN "hbf" ELSE "hbm"
Target == IF mode = "offload" THEN "hbf" ELSE "hbm"

StartMoves(r) ==
  /\ mode = "boundary" /\ Settled /\ Idle(r)
  /\ \E t \in Tiers : LET S == {p \in PagesOf[r] : pool[p].tier = OtherTier(t)}
                      IN  /\ S # {} /\ Fit(S, t)
                          /\ nextPlan + Cardinality(S) <= MaxPlans
                          /\ Room(t) \/ epoch < MaxRestores   \* else it cannot fail
                          /\ Begin(IF t = "hbf" THEN "offload" ELSE "restore", SetToSeq(S))

\* _transfer() and its commit: the plan begins and ends in one call of _move().
MovePage ==
  /\ mode \in {"offload", "restore"} /\ todo # <<>> /\ Room(Target)
  /\ LET p == todo[1]
         flushed == Flushed(Buffer(p))
         c == CallbackFor(p, Target, 0, flushed.media[Buffer(p)])
     IN  /\ media' = With(Without(flushed.media, {Buffer(p)}), TargetOf(c), c.data)
         /\ cache' = Discarded(flushed.cache, {Buffer(p)})
         /\ Rebind(c)
         /\ issued' = issued \cup {c}
         /\ closed' = With(closed, c.plan, epoch)
         /\ ended' = ended \cup {c.plan}
  /\ nextPlan' = nextPlan + 1 /\ nextToken' = nextToken + 1
  /\ todo' = Tail(todo)
  /\ UNCHANGED <<plans, content, current, batch, drained, epoch, cancelled, mode, undo, saved>>

EndMoves ==
  /\ mode \in {"offload", "restore"} /\ todo = <<>>
  /\ mode' = "boundary" /\ saved' = NoSnapshot
  /\ UNCHANGED <<restorable, counters, cancelled, todo, undo>>

------------------------------------------------------------------------------
\* A cohort: its requests' pages are read and written through the caches.

StartCohort ==
  /\ mode = "boundary" /\ Settled
  /\ Begin("cohort", <<>>)

Resident(r) == Idle(r) /\ \A p \in PagesOf[r] : pool[p].tier \in {"hbm", "none"}

Access(r) ==
  /\ mode = "cohort" /\ Resident(r)
  /\ \E p \in PagesOf[r] \cap Bound :
       \/ /\ content' = [content EXCEPT ![p] = (@ + 1) % Versions]
          /\ CacheAccess(Buffer(p), TRUE, content'[p])
       \/ /\ CacheAccess(Buffer(p), FALSE, ValueOf(p))
          /\ UNCHANGED content
  /\ UNCHANGED <<pool, binding, plans, current, ended, batch, drained, counters, loopState>>

\* resize() and bind_page(): a new page, while the cohort is lowered.
Grow(r) ==
  /\ mode = "cohort" /\ Resident(r) /\ Used("hbm") < Capacity["hbm"]
  /\ \E p \in PagesOf[r] \ Bound :
       /\ pool' = [pool EXCEPT ![p].tier = "hbm"]
       /\ binding' = [binding EXCEPT ![p].tier = "hbm"]
       /\ media' = With(media, <<p, "hbm", 0>>, content[p])
  /\ UNCHANGED <<plans, cache, content, current, ended, batch, drained, counters, loopState>>

FinishCohort ==
  /\ mode = "cohort"
  /\ mode' = "boundary" /\ saved' = NoSnapshot
  /\ UNCHANGED <<restorable, counters, cancelled, todo, undo>>

\* A request ends.
Release(r) ==
  /\ mode = "boundary" /\ Settled /\ Idle(r) /\ PagesOf[r] \cap Bound # {}
  /\ Released(PagesOf[r] \cap Bound)
  /\ UNCHANGED <<plans, content, current, ended, batch, drained, counters, loopState>>

------------------------------------------------------------------------------

Init ==
  /\ pool = [p \in Pages |-> [tier |-> InitialTier[p], gen |-> 0, pending |-> FALSE]]
  /\ binding = [p \in Pages |-> [tier |-> InitialTier[p], gen |-> 0]]
  /\ media = [b \in {Buffer(p) : p \in Bound} |-> 0]
  /\ content = [p \in Pages |-> 0]
  /\ plans = [i \in {} |-> 0] /\ current = [i \in {} |-> 0]
  /\ cache = <<>> /\ batch = <<>> /\ drained = {} /\ ended = {}
  /\ nextPlan = 0 /\ nextToken = 0 /\ epoch = 0 /\ issued = {}
  /\ closed = [i \in {} |-> 0]
  /\ cancelled = FALSE /\ mode = "boundary"
  /\ todo = <<>> /\ undo = <<>> /\ saved = NoSnapshot

MoveOn == mode \in {"offload", "restore"} /\ (MovePage \/ Restore)

InFlight ==
  \/ \E c \in Range(batch) : PhaseEnds(c)
  \/ \E i \in DOMAIN batch : Advance(i)
Finishing ==
  \/ AbortLast \/ EndPrepare
  \/ StartPublish \/ PublishPage \/ EndPublish
  \/ StartDiscard \/ DiscardPage \/ EndDiscard
  \/ EndMoves \/ FinishCohort

Next ==
  \/ InFlight \/ Finishing
  \/ \E r \in Requests : StartPrefetch(r) \/ StartMoves(r) \/ Access(r) \/ Grow(r) \/ Release(r)
  \/ PreparePage \/ PrepareFails \/ CancelPrefetch \/ Restore \/ MovePage \/ StartCohort

\* Phases end as time passes, and the loop completes what is due before it
\* starts anything else.  An operation moves its pages or fails.
Fairness == /\ WF_vars(InFlight) /\ WF_vars(Finishing)
            /\ WF_vars(PreparePage \/ PrepareFails) /\ WF_vars(MoveOn)

Spec == Init /\ [][Next]_vars /\ Fairness
------------------------------------------------------------------------------
\* Correctness.

\* The pool and the executor name the same place for every page, and the
\* allocators hold the pages and the targets and relays of the transfers in
\* flight, nothing else: whatever fails is given back, and nothing else is.
TransfersAccounted ==
  /\ \A p \in Pages : binding[p] = [tier |-> pool[p].tier, gen |-> pool[p].gen]
  /\ DOMAIN media = {Buffer(p) : p \in Bound}
       \cup UNION {{TargetOf(current[i]), RelayOf(current[i])} : i \in DOMAIN plans}
  /\ {p \in Pages : pool[p].pending} = {current[i].page : i \in DOMAIN plans}

\* A callback acts only if it is the last one its plan made on the timeline that
\* led to this state; one of a future that was discarded by a restore never does.
OnlyThisTimeline ==
  \A c \in issued :
    /\ MayAdvance(c) \/ MayCancel(c) \/ MayCommit(c) \/ MayRollBack(c) =>
         c.plan \in DOMAIN current /\ current[c.plan] = c
    /\ MayRepeat(c) => c.plan \in ended

\* Wherever a page has moved, a read of it returns what was last written to it.
ContentMoved == \A p \in Bound : ValueOf(p) = content[p]

\* A prefetch is published or given up.
PrefetchEnds == batch # <<>> ~> batch = <<>>
==============================================================================
