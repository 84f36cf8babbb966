------------------------------ MODULE Serving ------------------------------
(***************************************************************************)
(* The online scheduler of serving.py (_OnlineRuntime): continuous batching*)
(* of requests over a paged KV cache, with chunked prefill, preemption by  *)
(* swap or recompute, and recovery from a stall.  One thread runs the loop *)
(* of _run_until_decode_steps; pc names the function it is in, and one     *)
(* step is one candidate, victim or cohort of that function.               *)
(*                                                                         *)
(* Modelled: the static KV ledger (lazy and eager), one slot group.  Left  *)
(* out: speculative decoding, linear state, prompt cache, prefetch, agents,*)
(* external import, prefill_stop_offsets, the context limit of one slot;   *)
(* deadlines, one more static part of the rank; a failing cost callback,   *)
(* which ends the run.                                                     *)
(* Ages are counted in cohorts: each takes one tick, a swap transfer some  *)
(* time, which is not counted.                                             *)
(***************************************************************************)
EXTENDS Integers, Sequences, FiniteSets, FiniteSetsExt, Functions, SequencesExt

CONSTANTS
    N,              \* requests are 1 .. N, by arrival and then by request_id
    Loads,          \* workloads: request -> [prompt, output, priority, arrival]
    Plans,          \* scheduler settings, see Plan
    Slots,          \* max_num_seqs
    BatchTokens,    \* max_num_batched_tokens
    ChunkTokens,    \* prefill_chunk_tokens
    PageTokens,     \* tokens_per_page
    CapacityPages,  \* capacity_pages of the KV cache
    OffloadPages,   \* pages the offload component takes, 0 without one
    Starvation,     \* starvation_ns, in ticks
    AgeLimit,       \* bound: ages are counted up to it
    TokenLimit      \* bound on prompt and output tokens of a request

Requests == 1 .. N
Policies == {"auto", "swap", "recompute"}

\* preemption_policy; preemption_enabled; allocation_policy = "eager"; policy =
\* "decode_first_aging"; mixed_phase_batching; phase_candidate_order =
\* "stable_admission".
Plan == [policy : Policies, preemption : BOOLEAN, eager : BOOLEAN, aging : BOOLEAN,
         mixed : BOOLEAN, stable : BOOLEAN]
Load == [prompt : 0 .. TokenLimit, output : 0 .. TokenLimit, priority : Nat, arrival : Nat]

ASSUME ServingAssumption ==
    /\ {N, OffloadPages, CapacityPages, AgeLimit, TokenLimit} \subseteq Nat
    /\ {Slots, BatchTokens, ChunkTokens, PageTokens, Starvation} \subseteq Nat \ {0}
    /\ Loads \subseteq [Requests -> Load]
    /\ \A load \in Loads : \A r, s \in Requests :
          r < s => load[r].arrival <= load[s].arrival
    /\ Plans \subseteq Plan

VARIABLES
    load, plan,  \* the run's workload and settings, never changed
    state,       \* state[r]: the _MutableRequest of r
    used,        \* the ledger's used_pages
    offloaded,   \* its offload_used_bytes, in pages
    arrived,     \* _pending_index
    admission,   \* requests by admission_sequence
    served,      \* ranks by last_service_sequence, the latest highest, 0 before any
    pc,          \* the function being executed
    fills,       \* which of the two _fill_slots calls of a boundary
    moved,       \* time has advanced in this pass over the boundary
    passes,      \* and how many passes there were
    queue,       \* candidates the loop of that function has still to try
    owner,       \* request pages are being reserved for, 0 when none
    target,      \* pages it is to have
    victims,     \* requests still to be preempted for it
    asker,       \* the loop the reservation returns to
    agenda,      \* phases still to be tried for the cohort, see Alternatives
    items        \* the items of the cohort so far

ledger   == <<used, offloaded>>
control  == <<queue, owner, target, victims, asker, agenda, items>>
orders   == <<admission, served>>
boundary == <<fills, moved, passes>>
input    == <<load, plan>>
vars     == <<input, state, ledger, arrived, orders, pc, boundary, control>>

MaxPasses == Max({4, 4 * N})

\* A request record: its status ("arrivals" until it arrives), prefill and
\* committed tokens, the recompute cursor and goal (recompute_target), pages and
\* swapped pages, the preemption strategy, its age (now - queued_since_ns), and
\* as history kv: the token positions whose K/V has been computed and not been
\* dropped since.  The code keeps page counts only.  An item of a cohort has a
\* request, a phase ("decode", "prefill" or "recompute"), a context and tokens.

----------------------------------------------------------------------------
(* Requests *)

InStatus(statuses) == {r \in Requests : state[r].status \in statuses}
Running    == InStatus({"running"})
Queued     == InStatus({"waiting", "swapped"})
Unfinished == Queued \union Running
AllTerminal == InStatus({"finished", "rejected"}) = Requests

\* _max_live_kv_tokens(): the last token of an output is never cached.
LiveTokens(prompt, committed) == prompt + Max({0, committed - 1})

Cached(r)   == LiveTokens(state[r].prefill, state[r].committed)
PagesFor(n) == (n + PageTokens - 1) \div PageTokens
Peak(r)     == PagesFor(LiveTokens(load[r].prompt, load[r].output))

\* Ranks are compared like tuples: the smaller is the better.
Before(a, b) == \E i \in DOMAIN a : a[i] < b[i] /\ \A j \in 1 .. i - 1 : a[j] = b[j]

\* _rank()
Rank(r) ==
    LET aging == IF plan.aging THEN state[r].age \div Starvation ELSE 0 IN
    <<-(load[r].priority + aging), load[r].arrival, r>>

CandidateOrder(r) ==
    IF ~plan.stable THEN served[r]
    ELSE IF r \in ToSet(admission) THEN SelectInSeq(admission, LAMBDA s : s = r) - 1 ELSE N

\* _service_rank()
ServiceRank(r) == <<Rank(r)[1], Rank(r)[2], CandidateOrder(r), r>>

Best(rs, rank(_))  == CHOOSE r \in rs : \A s \in rs \ {r} : Before(rank(r), rank(s))
Worst(rs)          == CHOOSE r \in rs : \A s \in rs \ {r} : Before(Rank(s), Rank(r))

\* Every waiting request ages by a tick; `refreshed` have their queued_since_ns
\* set to now.
Aged(st, refreshed) ==
    [r \in Requests |->
        [st[r] EXCEPT !.age = IF r \in refreshed \/ ~plan.aging
                                 \/ st[r].status \notin {"waiting", "running", "swapped"}
                              THEN 0 ELSE Min({@ + 1, AgeLimit})]]

----------------------------------------------------------------------------
(* What happens to the state of one request *)

Resize(st, n) ==
    [st EXCEPT !.pages = n, !.kv = {p \in @ : p < n * PageTokens}]

Run(st) == [st EXCEPT !.status = "running", !.strategy = "none", !.age = 0]

\* Fault: the pages of a finished request are not released.
FinishKeepingPages(st) == [st EXCEPT !.status = "finished"]

Finish(st) == [Resize(st, 0) EXCEPT !.status = "finished"]

----------------------------------------------------------------------------

NewState == [status |-> "arrivals", prefill |-> 0, committed |-> 0, cursor |-> 0, goal |-> 0,
             pages |-> 0, swapped |-> 0, strategy |-> "none", age |-> 0, kv |-> {}]

\* _reject_impossible_requests() has run.
Init ==
    /\ load \in Loads
    /\ plan \in Plans
    /\ state = [r \in Requests |->
                  [NewState EXCEPT !.status = IF Peak(r) > CapacityPages
                                              THEN "rejected" ELSE "arrivals"]]
    /\ used = 0 /\ offloaded = 0 /\ arrived = 0
    /\ admission = <<>> /\ served = [r \in Requests |-> 0]
    /\ pc = "round" /\ fills = 1 /\ moved = FALSE /\ passes = 0
    /\ queue = {} /\ owner = 0 /\ target = 0 /\ victims = {} /\ asker = "admit"
    /\ agenda = <<>> /\ items = <<>>

----------------------------------------------------------------------------
(* A scheduling boundary: _stabilize_boundary() *)

\* _arrive(): requests with equal arrival times arrive together.  An empty one
\* is finished at once.
Arrive ==
    /\ (pc = "round" /\ ~AllTerminal) \/ pc = "woken"
    /\ \E n \in arrived .. N :
         /\ pc = "woken" => n > arrived
         /\ n \in 1 .. N - 1 => load[n].arrival < load[n + 1].arrival
         /\ arrived' = n
         /\ state' = [r \in Requests |->
                        IF r \in arrived + 1 .. n /\ state[r].status = "arrivals"
                        THEN [state[r] EXCEPT !.status =
                                IF load[r].prompt = 0 /\ load[r].output = 0
                                THEN "finished" ELSE "waiting"]
                        ELSE state[r]]
    /\ pc' = "priority"
    /\ moved' = FALSE /\ passes' = passes + 1
    /\ UNCHANGED <<input, ledger, orders, fills, control>>

EndRun ==
    /\ pc = "round" /\ AllTerminal
    /\ pc' = "done"
    /\ UNCHANGED <<input, state, ledger, arrived, orders, boundary, control>>

\* The strategies _preempt() may choose.  "swap" alone fails without room in
\* the offload component; pages are never partly swapped.
CanSwap(r)     == state[r].pages = 0 \/ offloaded + state[r].pages <= OffloadPages
UseSwap(r)     == plan.policy \in {"auto", "swap"} /\ CanSwap(r)

Preemptable(r) == plan.policy # "swap" \/ CanSwap(r)

SwapOut(st) ==
    [st EXCEPT !.status = "swapped", !.strategy = "swap", !.age = 0,
               !.swapped = IF st.pages = 0 THEN @ ELSE st.pages, !.pages = 0]

\* Fault: what was computed is dropped and the recompute target not set.
DropForgotten(st) ==
    [Resize(st, 0) EXCEPT !.status = "swapped", !.strategy = "recompute", !.age = 0]

DropForRecompute(st) ==
    [Resize(st, 0) EXCEPT !.status = "swapped", !.strategy = "recompute", !.age = 0,
                          !.cursor = 0, !.goal = LiveTokens(st.prefill, st.committed)]

\* _preempt(r)
Preempt(r) ==
    /\ used' = used - state[r].pages
    /\ \/ /\ UseSwap(r)
          /\ offloaded' = offloaded + state[r].pages
          /\ state' = [state EXCEPT ![r] = SwapOut(@)]
          /\ moved' = (moved \/ state[r].pages > 0)
       \/ /\ ~UseSwap(r)
          /\ state' = [state EXCEPT ![r] = DropForRecompute(@)]
          /\ UNCHANGED <<offloaded, moved>>

\* _priority_preempt(): the best waiter, when the slots are full, displaces the
\* worst running request of those it precedes that can be preempted.
Displaced ==
    IF plan.preemption /\ Cardinality(Running) >= Slots /\ Queued # {}
    THEN {r \in Running : Preemptable(r) /\ Before(Rank(Best(Queued, Rank)), Rank(r))}
    ELSE {}

PriorityPreempt ==
    /\ pc = "priority"
    /\ \/ Displaced # {} /\ Preempt(Worst(Displaced))
       \/ Displaced = {} /\ UNCHANGED <<state, ledger, moved>>
    /\ pc' = "fill" /\ fills' = 1
    /\ UNCHANGED <<input, arrived, orders, passes, control>>

\* One pass of the while loop of _fill_slots().
FillSlots ==
    /\ pc = "fill"
    /\ Cardinality(Running) < Slots /\ Queued # {}
    /\ queue' = Queued
    /\ pc' = "admit"
    /\ UNCHANGED <<input, state, ledger, arrived, orders, boundary, owner, target, victims, asker,
                   agenda, items>>

\* The boundary is done with when a pass took no time; the number of passes is
\* limited.
EndPass ==
    /\ UNCHANGED fills
    /\ \/ /\ moved
          /\ pc' = IF passes < MaxPasses THEN "round" ELSE "unstable"
          /\ UNCHANGED passes
       \/ /\ ~moved
          /\ pc' = "select" /\ passes' = 0

\* Fault: a pass that admitted nobody is followed by another.
EndFillWhenFull ==
    /\ \/ pc = "fill" /\ fills = 1 /\ fills' = 2 /\ UNCHANGED <<pc, passes>>
       \/ pc = "fill" /\ fills = 2 /\ EndPass
       \/ pc = "admit" /\ queue = {} /\ pc' = "fill" /\ UNCHANGED <<fills, passes>>
    /\ pc = "fill" => Cardinality(Running) >= Slots \/ Queued = {}
    /\ UNCHANGED <<input, state, ledger, arrived, orders, moved, control>>

\* _fill_slots() returns: nothing to fill, or a pass that admitted nobody.
EndFill ==
    /\ \/ pc = "fill" /\ (Cardinality(Running) >= Slots \/ Queued = {})
       \/ pc = "admit" /\ queue = {}
    /\ \/ fills = 1 /\ fills' = 2 /\ pc' = "fill" /\ UNCHANGED passes
       \/ fills = 2 /\ EndPass
    /\ UNCHANGED <<input, state, ledger, arrived, orders, moved, control>>

----------------------------------------------------------------------------
(* Admission and resumption.  The same three ways are taken from _fill_slots, *)
(* which orders candidates by service rank and has a slot for them, and from  *)
(* _recover_stalled, which orders by rank and has not looked at the slots.    *)

Candidate == IF pc = "admit" THEN Best(queue, ServiceRank) ELSE Best(queue, Rank)
Resumable(r) == pc = "recover" => state[r].status = "swapped"

\* The loop is left when its candidate runs; _assign_slot() raises without a slot.
Launched(r) ==
    IF pc = "recover" \/ (asker = "recover" /\ pc = "reserve")
    THEN /\ pc' = IF Cardinality(Running) < Slots THEN "round" ELSE "crashed"
         /\ UNCHANGED admission
    ELSE /\ pc' = "fill"
         /\ admission' = IF r \in ToSet(admission) THEN admission ELSE Append(admission, r)

\* Swapped with bytes to bring back; swapped by a swap of nothing.
HasSwapped(r)   == state[r].strategy = "swap" /\ state[r].swapped > 0
SwappedEmpty(r) == state[r].strategy = "swap" /\ state[r].swapped = 0

\* Fault: pages are charged on both sides while they come back.
RestorePagesTwice(r) == IF plan.eager THEN Peak(r) ELSE 2 * state[r].swapped

RestorePages(r) == IF plan.eager THEN Peak(r) ELSE state[r].swapped

\* _resume_swap(): all pages come back at once and nobody is preempted for them.
ResumeSwapped ==
    /\ pc \in {"admit", "recover"} /\ queue # {}
    /\ LET r == Candidate IN
       /\ Resumable(r)
       /\ HasSwapped(r)
       /\ queue' = queue \ {r}
       /\ \/ /\ used + RestorePages(r) <= CapacityPages
             /\ used' = used + RestorePages(r)
             /\ offloaded' = offloaded - state[r].swapped
             /\ state' = [state EXCEPT ![r] = [Run(@) EXCEPT !.pages = RestorePages(r),
                                                            !.swapped = 0]]
             /\ moved' = TRUE
             /\ Launched(r)
          \/ /\ used + RestorePages(r) > CapacityPages
             /\ UNCHANGED <<state, ledger, pc, admission, moved>>
    /\ UNCHANGED <<input, arrived, served, fills, passes, owner, target, victims, asker, agenda,
                   items>>

\* Fault: the cohort's own requests are victims too.
ReserveUnprotected(r, n, protected) ==
    /\ owner' = r
    /\ target' = IF plan.eager THEN Max({n, state[r].pages}) ELSE n
    /\ victims' = IF plan.preemption THEN {v \in Running \ {r} : state[v].pages > 0} ELSE {}
    /\ asker' = pc
    /\ pc' = "reserve"

\* _reserve_with_pressure(r, n, protected): the eager policy never gives back
\* headroom here.  Victims are looked up once.
Reserve(r, n, protected) ==
    /\ owner' = r
    /\ target' = IF plan.eager THEN Max({n, state[r].pages}) ELSE n
    /\ victims' = IF plan.preemption
                  THEN {v \in Running \ (protected \union {r}) : state[v].pages > 0}
                  ELSE {}
    /\ asker' = pc
    /\ pc' = "reserve"

ReserveAdmission ==
    /\ pc \in {"admit", "recover"} /\ queue # {}
    /\ LET r == Candidate IN
       /\ Resumable(r)
       /\ ~HasSwapped(r)
       /\ plan.eager \/ SwappedEmpty(r)
       /\ queue' = queue \ {r}
       /\ Reserve(r, IF plan.eager THEN Peak(r) ELSE 0, {})
    /\ UNCHANGED <<input, state, ledger, arrived, orders, boundary, agenda, items>>

\* The lazy policy runs a request without pages.
AdmitLazily ==
    /\ pc \in {"admit", "recover"} /\ queue # {}
    /\ LET r == Candidate IN
       /\ Resumable(r)
       /\ ~plan.eager /\ ~HasSwapped(r) /\ ~SwappedEmpty(r)
       /\ queue' = queue \ {r}
       /\ state' = [state EXCEPT ![r] = Run(@)]
       /\ Launched(r)
    /\ UNCHANGED <<input, ledger, arrived, served, boundary, owner, target, victims, asker,
                   agenda, items>>

----------------------------------------------------------------------------
(* _reserve_capacity_with_pressure() *)

Protected == {items[i].request : i \in DOMAIN items}
Fits(r, n) == used + n - state[r].pages <= CapacityPages

\* The tokens an item of the phase computes, and those cached before it.
Context(r, phase) ==
    CASE phase = "recompute" -> state[r].cursor
      [] phase = "prefill"   -> state[r].prefill
      [] phase = "decode"    -> Cached(r)
Remaining(r, phase) ==
    CASE phase = "recompute" -> state[r].goal - state[r].cursor
      [] phase = "prefill"   -> load[r].prompt - state[r].prefill
      [] phase = "decode"    -> Min({1, load[r].output - state[r].committed})
Budget == BatchTokens - SumFunction([i \in DOMAIN items |-> items[i].tokens])
Chunk(r, phase) == Min({Remaining(r, phase), ChunkTokens, Budget})

\* The pages an item needs: a decoded token is the next one's context.
ItemPages(r, phase) ==
    IF phase = "decode" THEN PagesFor(LiveTokens(state[r].prefill, state[r].committed + 1))
    ELSE PagesFor(Context(r, phase) + Chunk(r, phase))

\* The phase of the cohort being filled.
Phase == Head(Head(agenda))

Granted ==
    /\ pc = "reserve"
    /\ Fits(owner, target)
    /\ used' = used + target - state[owner].pages
    /\ \/ /\ asker = "build"
          /\ state' = [state EXCEPT ![owner] = Resize(@, target)]
          /\ items' = Append(items, [request |-> owner, phase |-> Phase,
                                     context |-> Context(owner, Phase),
                                     tokens |-> Chunk(owner, Phase)])
          /\ pc' = "build"
          /\ UNCHANGED admission
       \/ /\ asker # "build"
          /\ state' = [state EXCEPT ![owner] = Run(Resize(@, target))]
          /\ Launched(owner)
          /\ UNCHANGED items
    /\ UNCHANGED <<input, offloaded, arrived, served, boundary, queue, owner, target, victims,
                   asker, agenda>>

\* The worst victim first, whatever the rank of the owner.
EvictVictim ==
    /\ pc = "reserve"
    /\ ~Fits(owner, target)
    /\ victims # {}
    /\ LET v == Worst(victims) IN
       /\ victims' = victims \ {v}
       /\ \/ Preemptable(v) /\ Preempt(v)
          \/ ~Preemptable(v) /\ UNCHANGED <<state, ledger, moved>>
    /\ UNCHANGED <<input, arrived, orders, pc, fills, passes, queue, owner, target, asker, agenda,
                   items>>

Denied ==
    /\ pc = "reserve"
    /\ ~Fits(owner, target)
    /\ victims = {}
    /\ pc' = asker
    /\ UNCHANGED <<input, state, ledger, arrived, orders, boundary, control>>

----------------------------------------------------------------------------
(* _select_cohort() *)

InPhase(r, phase) ==
    LET recomputing == state[r].cursor < state[r].goal
        prefilling  == state[r].prefill < load[r].prompt
    IN
    CASE phase = "recompute" -> recomputing
      [] phase = "prefill"   -> prefilling
      [] phase = "decode"    -> /\ ~recomputing /\ ~prefilling
                                /\ state[r].committed < load[r].output
Candidates(phase) == {r \in Running : InPhase(r, phase)}
BestRank(phase) == Rank(Best(Candidates(phase), Rank))

\* Recompute and prefill, the one with the better ranked request first.
NonDecode ==
    LET present(phase) == IF Candidates(phase) = {} THEN <<>> ELSE <<phase>>
        prefillFirst   == /\ Candidates("recompute") # {} /\ Candidates("prefill") # {}
                          /\ Before(BestRank("prefill"), BestRank("recompute"))
    IN IF prefillFirst THEN present("prefill") \o present("recompute")
                       ELSE present("recompute") \o present("prefill")

ServeNonDecode ==
    /\ NonDecode # <<>>
    /\ \/ Candidates("decode") = {}
       \/ Before(BestRank(NonDecode[1]), BestRank("decode"))

\* What is tried for a cohort, in order: its first phase, without which the next
\* alternative is tried, and the phases that may fill it up.
Alternatives ==
    LET promoted == IF ServeNonDecode THEN <<NonDecode[1]>> ELSE <<>>
        only(phases) == IF phases = <<>> THEN <<>> ELSE <<phases>>
        mixed == IF plan.mixed /\ Candidates("decode") # {}
                 THEN only(IF promoted = <<>> THEN <<>> ELSE Append(promoted, "decode"))
                      \o << <<"decode">> \o NonDecode >>
                 ELSE <<>>
    IN mixed \o only(promoted) \o << <<"decode">>, <<"recompute">>, <<"prefill">> >>

SelectCohort ==
    /\ pc = "select"
    /\ agenda' = Alternatives
    /\ queue' = Candidates(Head(Head(Alternatives)))
    /\ items' = <<>>
    /\ pc' = "build"
    /\ UNCHANGED <<input, state, ledger, arrived, orders, boundary, owner, target, victims, asker>>

\* One candidate of _decode_cohort() or _prefill_cohort().
Room == Len(items) < Slots /\ Budget > 0

ReserveItem ==
    /\ pc = "build"
    /\ queue # {} /\ Room
    /\ LET r == Best(queue, ServiceRank) IN
       /\ queue' = queue \ {r}
       /\ \/ /\ r \in Running \ Protected
             /\ Reserve(r, ItemPages(r, Phase), Protected)
          \/ /\ r \notin Running \ Protected
             /\ UNCHANGED <<owner, target, victims, asker, pc>>
    /\ UNCHANGED <<input, state, ledger, arrived, orders, boundary, agenda, items>>

\* The alternatives left once no candidate or no room is left for this phase.
AgendaLeft ==
    IF items = <<>> THEN Tail(agenda)
    ELSE IF Len(Head(agenda)) > 1 THEN <<Tail(Head(agenda))>> ELSE <<>>

\* The last loop of _select_cohort(), for requests without output whose prompt
\* is done, finds none: Committed has finished them.
EndPhase ==
    /\ pc = "build"
    /\ queue = {} \/ ~Room
    /\ agenda' = AgendaLeft
    /\ queue' = IF AgendaLeft = <<>> THEN {} ELSE Candidates(Head(Head(AgendaLeft)))
    /\ pc' = IF AgendaLeft # <<>> THEN "build"
             ELSE IF items # <<>> THEN "execute" ELSE "idle"
    /\ UNCHANGED <<input, state, ledger, arrived, orders, boundary, owner, target, victims, asker,
                   items>>

----------------------------------------------------------------------------
(* _execute_cohort(): each item is committed; the first output token comes   *)
(* with the last prompt token.                                               *)

Committed(st, item) ==
    LET r        == item.request
        computed == [st EXCEPT !.kv = @ \union (item.context .. item.context + item.tokens - 1)]
        prefill  == st.prefill + item.tokens
        first    == prefill >= load[r].prompt /\ st.committed = 0 /\ load[r].output > 0
        grown    == LiveTokens(st.prefill, st.committed + 1)
        decoded  == [st EXCEPT !.committed = @ + 1, !.kv = @ \union (item.context .. grown - 1)]
        next     ==
            CASE item.phase = "recompute" -> [computed EXCEPT !.cursor = @ + item.tokens]
              [] item.phase = "prefill"   -> [computed EXCEPT !.prefill = prefill,
                                                !.committed = IF first THEN 1 ELSE @]
              [] item.phase = "decode"    ->
                   Resize(decoded, PagesFor(LiveTokens(st.prefill, decoded.committed)))
        finished == /\ item.phase # "recompute"
                    /\ next.prefill >= load[r].prompt
                    /\ next.committed >= load[r].output
    IN IF finished THEN Finish(next) ELSE next

\* Items are executed in order, decode before what was promoted or filled in.
Precedes(i, j) ==
    \/ items[i].phase = "decode" /\ items[j].phase # "decode"
    \/ (items[i].phase = "decode" <=> items[j].phase = "decode") /\ i < j

\* The last services of the requests, those of this cohort after all others.
LastServices ==
    LET slot(r) == CHOOSE i \in DOMAIN items : items[i].request = r
        sequence == [r \in Requests |->
                       IF r \in Protected
                       THEN N + 1 + Cardinality({i \in DOMAIN items : Precedes(i, slot(r))})
                       ELSE served[r]]
        services == {sequence[r] : r \in Requests} \ {0}
    IN [r \in Requests |-> Cardinality({n \in services : n <= sequence[r]})]

Execute ==
    /\ pc = "execute"
    /\ LET item(r) == CHOOSE i \in ToSet(items) : i.request = r
           next    == [r \in Requests |-> IF r \in Protected THEN Committed(state[r], item(r))
                                                             ELSE state[r]]
       IN
       /\ state' = Aged(next, Protected)
       /\ used' = used + SumFunction([r \in Protected |-> next[r].pages - state[r].pages])
       /\ served' = LastServices
    /\ items' = <<>>
    /\ pc' = "round"
    /\ UNCHANGED <<input, offloaded, arrived, admission, boundary, queue, owner, target, victims,
                   asker, agenda>>

----------------------------------------------------------------------------
(* No cohort: sleep until the next arrival, or _recover_stalled() *)

WakeUp ==
    /\ pc = "idle" /\ arrived < N
    /\ state' = Aged(state, {})
    /\ pc' = "woken"
    /\ UNCHANGED <<input, ledger, arrived, orders, boundary, control>>

Stall ==
    /\ pc = "idle" /\ arrived = N
    /\ pc' = IF Unfinished = {} THEN "done" ELSE "recover"
    /\ queue' = Unfinished
    /\ UNCHANGED <<input, state, ledger, arrived, orders, boundary, owner, target, victims, asker,
                   agenda, items>>

\* Only requests swapped out by now are resumed.
PassOver ==
    /\ pc = "recover" /\ queue # {}
    /\ Candidate \notin InStatus({"swapped"})
    /\ queue' = queue \ {Candidate}
    /\ UNCHANGED <<input, state, ledger, arrived, orders, pc, boundary, owner, target, victims,
                   asker, agenda, items>>

\* Nothing can be resumed: everything unfinished is rejected, as it stands.
GiveUp ==
    /\ pc = "recover" /\ queue = {}
    /\ state' = [r \in Requests |-> IF r \in Unfinished
                                    THEN [state[r] EXCEPT !.status = "rejected"] ELSE state[r]]
    /\ pc' = "done"
    /\ UNCHANGED <<input, ledger, arrived, orders, boundary, control>>

----------------------------------------------------------------------------

Next ==
    \/ Arrive \/ EndRun \/ PriorityPreempt
    \/ FillSlots \/ EndFill
    \/ ResumeSwapped \/ ReserveAdmission \/ AdmitLazily
    \/ Granted \/ EvictVictim \/ Denied
    \/ SelectCohort \/ ReserveItem \/ EndPhase \/ Execute
    \/ WakeUp \/ Stall \/ PassOver \/ GiveUp

Spec == Init /\ [][Next]_vars

\* One thread, which never waits: it takes a step while it has one.
FairSpec == Spec /\ WF_vars(Next)

----------------------------------------------------------------------------
(* Properties *)

\* Pages belong to running requests, swapped pages to swapped ones, and a
\* request that ended by itself keeps nothing and has all its tokens.
PagesFollowStatus ==
    \A r \in Requests :
        /\ state[r].pages > 0 => state[r].status \in {"running", "rejected"}
        /\ state[r].swapped > 0 => state[r].status \in {"swapped", "rejected"}
        /\ state[r].status = "finished" =>
             state[r].committed = load[r].output /\ state[r].prefill = load[r].prompt

\* A cohort about to execute: every request in it is still running, in one item,
\* with the pages its item writes, although reserving for the later ones took
\* pages from others; and the cohort is within its limits.
CohortFunded ==
    pc = "execute" =>
        /\ Cardinality(Protected) = Len(items)
        /\ Len(items) <= Slots /\ Budget >= 0
        /\ \A i \in DOMAIN items :
             LET item == items[i] IN
             /\ state[item.request].status = "running"
             /\ item.context = Context(item.request, item.phase)
             /\ LET writes == IF item.phase = "decode" /\ state[item.request].committed = 0
                              THEN 0 ELSE item.tokens
                IN state[item.request].pages * PageTokens >= item.context + writes

\* Attention reads the K/V of every token before its own: "Prefill/recompute
\* still performs attention against historical prompt state" (serving.py,
\* _record_kv_traffic).  All of it has been computed and kept.
HistoryOf(item) == 0 .. item.context - 1 \subseteq state[item.request].kv

\* As long as a request was never preempted by recompute, whatever swaps it went
\* through.
SwapKeepsHistory ==
    pc = "execute" => \A i \in DOMAIN items :
        state[items[i].request].goal = 0 => HistoryOf(items[i])

\* "A lone swapped request must always be resumable because impossible
\* per-request KV footprints were rejected before the simulation"
\* (_recover_stalled): giving up never finds one.
LoneSwappedResumes ==
    [][GiveUp => ~\E r \in Requests : Unfinished = {r} /\ state[r].status = "swapped"]_vars

\* The run comes to an end, every request finished or rejected: "online
\* scheduler made no progress" (_run_until_decode_steps) is never raised.
RunEnds == <>(pc = "done" /\ AllTerminal)

\* It does without preemption, and while victims are made to recompute, ranks are
\* fixed and admission takes no pages from the running; with the swapping of the
\* auto policy, while no request goes before another one.
OnePriority == \A r, s \in Requests : load[r].priority = load[s].priority
LazyRunEnds ==
    (plan.preemption => /\ ~plan.eager /\ ~plan.aging
                        /\ \/ plan.policy = "recompute"
                           \/ plan.policy = "auto" /\ OnePriority)
        => RunEnds
=============================================================================
