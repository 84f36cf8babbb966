----------------------------- MODULE EventKernel -----------------------------
(***************************************************************************)
(* UnifiedEventKernel (event_kernel.py): tasks are submitted in chunks,    *)
(* wait for their dependencies, and are executed one at a time in the      *)
(* order of their ready key.  The keys are queued lazily: one entry per    *)
(* group of tasks with the same demands, versioned, validated when it is   *)
(* popped, because the lanes it was computed from may have moved since.    *)
(***************************************************************************)
EXTENDS Integers, Sequences, FiniteSets, FiniteSetsExt, Functions

CONSTANTS Tasks,      \* task identifiers
          Resources,  \* logical resource names, as the demands give them
          Owners,     \* physical resources
          Graphs,     \* the task graphs of the instance
          LeaseLimit  \* bound: completion leases of one task

\* A graph gives each task its dependencies, a demand (a time for some of the
\* resources, no two of one owner), the earliest start and a rank, unique, that
\* stands for (phase, sequence, task_id); and each owner a number of lanes.
IsGraph(g) ==
  /\ g.deps \in [Tasks -> SUBSET Tasks]
  /\ g.owner \in [Resources -> Owners]
  /\ g.capacity \in [Owners -> Nat \ {0}]
  /\ g.earliest \in [Tasks -> Nat]
  /\ g.rank \in [Tasks -> Nat]
  /\ IsInjective(g.rank)
  /\ DOMAIN g.demand = Tasks
  /\ \A t \in Tasks :
       /\ DOMAIN g.demand[t] \subseteq Resources
       /\ \A l \in DOMAIN g.demand[t] : g.demand[t][l] \in Nat
       /\ \A l, m \in DOMAIN g.demand[t] : g.owner[l] = g.owner[m] => l = m

ASSUME TasksFinite == IsFiniteSet(Tasks) /\ IsFiniteSet(Resources)
ASSUME GraphsWellFormed == \A g \in Graphs : IsGraph(g)
ASSUME LimitPositive == LeaseLimit \in Nat \ {0}

VARIABLES graph,           \* the graph the caller draws its tasks from
          tasks,           \* _tasks: submitted and not yet executed
          seen,            \* _seen_ids
          indegree,        \* _indegree: dependencies still to execute
          dependents,      \* _dependents
          dependencyReady, \* _dependency_ready
          ready,           \* the tasks in the heaps of _ready_by_group
          readyHeap,       \* _ready_heap: entries [key, group, version]
          groupVersion,    \* _group_versions
          lanes,           \* _resource_lane_available, by owner
          leases,          \* _completion_leases
          completedEnd,    \* _completed_end
          ran              \* history: the events step() has returned

graphState == <<tasks, seen, indegree, dependents, dependencyReady, ready>>
queueState == <<readyHeap, groupVersion>>
doneState  == <<lanes, leases, completedEnd, ran>>
kernelVars == <<graph, graphState, queueState, doneState>>

------------------------------------------------------------------------------
\* Ready keys.

Max2(a, b) == IF a >= b THEN a ELSE b

\* Tuple a is before tuple b.
Precedes(a, b) ==
  \E i \in DOMAIN a : a[i] < b[i] /\ \A j \in 1 .. i - 1 : a[j] = b[j]

Group(t) == DOMAIN graph.demand[t]
Groups == {Group(t) : t \in Tasks}

\* The time owner o has its first free lane.
Available(o) == Min(Range(lanes[o]))

EffectiveReady(t) == Max2(dependencyReady[t], graph.earliest[t])

\* When t can start: its dependencies, its own earliest start, all its resources.
StartOf(t) ==
  Max({EffectiveReady(t)} \cup {Available(graph.owner[l]) : l \in Group(t)})

StaticReadyKey(t) ==
  <<EffectiveReady(t), dependencyReady[t], graph.earliest[t], graph.rank[t]>>
ReadyKey(t) ==
  <<StartOf(t), EffectiveReady(t), dependencyReady[t], graph.earliest[t], graph.rank[t]>>

\* The heap of one group, and its top.
InGroup(g) == {t \in ready : Group(t) = g}
Top(g) == CHOOSE t \in InGroup(g) :
            \A u \in InGroup(g) \ {t} : Precedes(StaticReadyKey(t), StaticReadyKey(u))

------------------------------------------------------------------------------
\* The queue of group tops.

QueuedTop(g) == [key |-> ReadyKey(Top(g)), group |-> g, version |-> groupVersion[g]]

\* Entry e is popped before entry f.
Sooner(e, f) == \/ Precedes(e.key, f.key)
                \/ e.key = f.key /\ e.version < f.version
Foremost(e) == e \in readyHeap /\ \A f \in readyHeap \ {e} : Sooner(e, f)

Stale(e) == e.version # groupVersion[e.group] \/ InGroup(e.group) = {}
Unversioned(e) == ~Stale(e)   \* mutant: the key is trusted
Current(e) == ~Stale(e) /\ e.key = ReadyKey(Top(e.group))

\* _refresh_group() of every group of G, with the keys after the step; heap is
\* what the step has left in the queue.
RefreshGroups(G, heap) ==
  /\ groupVersion' = [g \in Groups |-> IF g \in G THEN groupVersion[g] + 1
                                                  ELSE groupVersion[g]]
  /\ readyHeap' = heap \cup {QueuedTop(g)' : g \in {h \in G : InGroup(h)' # {}}}

\* The groups _add_ready_task() reports when the tasks of New become ready: those
\* that get a new top.
Retopped(New) ==
  {g \in {Group(t) : t \in New} : InGroup(g) = {} \/ Top(g)' # Top(g)}

------------------------------------------------------------------------------
\* submit()

\* No cycle inside the chunk: every part of it has a task that waits for no other.
Acyclic(chunk) ==
  \A part \in (SUBSET chunk) \ {{}} : \E t \in part : graph.deps[t] \cap part = {}

Retainable(kept) == \A d \in kept : leases[d] > 0

PendingOnly(chunk, kept) ==   \* mutant: a completed dependency is refused
  /\ chunk \cap seen = {}
  /\ Retainable(kept)
  /\ \A t \in chunk : graph.deps[t] \subseteq chunk \cup tasks
  /\ Acyclic(chunk)

\* Phase 1: the chunk is new, what it retains is there, and so are its dependencies.
Admissible(chunk, kept) ==
  /\ chunk \cap seen = {}
  /\ Retainable(kept)
  /\ \A t \in chunk : graph.deps[t] \subseteq chunk \cup tasks \cup DOMAIN completedEnd
  /\ Acyclic(chunk)

Unresolved(t) == graph.deps[t] \ DOMAIN completedEnd

\* Phase 2.  A chunk that is not admissible raises before anything is written.
Submit(chunk, kept) ==
  /\ Admissible(chunk, kept)
  /\ leases' = [t \in Tasks |-> IF t \in kept THEN leases[t] + 1 ELSE leases[t]]
  /\ tasks' = tasks \cup chunk
  /\ seen' = seen \cup chunk
  /\ indegree' = [t \in Tasks |-> IF t \in chunk THEN Cardinality(Unresolved(t))
                                                 ELSE indegree[t]]
  /\ dependencyReady' =
       [t \in Tasks |-> IF t \in chunk
          THEN Max({0} \cup {completedEnd[d] : d \in graph.deps[t] \cap DOMAIN completedEnd})
          ELSE dependencyReady[t]]
  /\ dependents' =
       [d \in Tasks |-> dependents[d] \cup {t \in chunk : d \in Unresolved(t)}]
  /\ ready' = ready \cup {t \in chunk : Unresolved(t) = {}}
  /\ UNCHANGED <<graph, lanes, completedEnd, ran>>
  /\ RefreshGroups(Retopped({t \in chunk : Unresolved(t) = {}}), readyHeap)

------------------------------------------------------------------------------
\* step() and peek_ready_key(): the loop of _pop_ready_entry(), one iteration an
\* action, then the execution of the entry it returns.

DropStale ==
  \E e \in readyHeap :
    /\ Foremost(e) /\ Stale(e)
    /\ readyHeap' = readyHeap \ {e}
    /\ UNCHANGED <<graph, graphState, groupVersion, doneState>>

DropOutdated ==   \* mutant: an entry with an old key is dropped like a stale one
  \E e \in readyHeap :
    /\ Foremost(e) /\ ~Stale(e) /\ ~Current(e)
    /\ readyHeap' = readyHeap \ {e}
    /\ UNCHANGED <<graph, graphState, groupVersion, doneState>>

\* The lanes have moved since the entry was queued.
Requeue ==
  \E e \in readyHeap :
    /\ Foremost(e) /\ ~Stale(e) /\ ~Current(e)
    /\ UNCHANGED <<graph, graphState, doneState>>
    /\ RefreshGroups({e.group}, readyHeap \ {e})

\* _pop_ready_entry() has nothing left to skip.
Peeked == \A e \in readyHeap : Foremost(e) => Current(e)
NextTask == Top((CHOOSE e \in readyHeap : Foremost(e)).group)

FirstLane(o) == Min(DOMAIN lanes[o])   \* mutant: lanes are not compared
\* The lane of owner o a demand takes: the one free first, the lowest of equals.
SelectLane(o) ==
  Min({i \in DOMAIN lanes[o] : lanes[o][i] = Available(o)})

Service(t, o) ==
  graph.demand[t][CHOOSE l \in Group(t) : graph.owner[l] = o]
UsedBy(t) == {graph.owner[l] : l \in Group(t)}

EndOf(t) == Max({StartOf(t)} \cup {StartOf(t) + Service(t, o) : o \in UsedBy(t)})

\* account_task_execution(): lanes, completion time, its first lease.
Account(t) ==
  /\ lanes' = [o \in Owners |-> IF o \in UsedBy(t)
                 THEN [lanes[o] EXCEPT ![SelectLane(o)] = StartOf(t) + Service(t, o)]
                 ELSE lanes[o]]
  /\ completedEnd' = [u \in DOMAIN completedEnd \cup {t} |->
                        IF u = t THEN EndOf(t) ELSE completedEnd[u]]
  /\ leases' = [leases EXCEPT ![t] = 1]
  /\ ran' = [u \in DOMAIN ran \cup {t} |->
               IF u = t THEN [start |-> StartOf(t), end |-> EndOf(t),
                              lane |-> [o \in UsedBy(t) |-> SelectLane(o)]]
                        ELSE ran[u]]

\* The dependents of t whose last dependency it was.
Freed(t) == {u \in dependents[t] : indegree[u] = 1}

ExecuteTask(t, entry) ==
  /\ tasks' = tasks \ {t}
  /\ Account(t)
  /\ dependencyReady' = [u \in Tasks |->
       IF u \in dependents[t] THEN Max2(dependencyReady[u], EndOf(t))
       ELSE dependencyReady[u]]
  /\ indegree' = [u \in Tasks |-> IF u \in dependents[t] THEN indegree[u] - 1
                                                         ELSE indegree[u]]
  /\ ready' = (ready \ {t}) \cup Freed(t)
  /\ UNCHANGED <<graph, seen, dependents>>
  /\ RefreshGroups({Group(t)} \cup Retopped(Freed(t)), readyHeap \ {entry})

Step ==
  \E e \in readyHeap : Foremost(e) /\ Current(e) /\ ExecuteTask(Top(e.group), e)

------------------------------------------------------------------------------
\* Leases on a completion.

RetainCompleted(t) ==
  /\ leases[t] > 0 /\ t \in DOMAIN completedEnd
  /\ leases[t] < LeaseLimit
  /\ leases' = [leases EXCEPT ![t] = @ + 1]
  /\ UNCHANGED <<graph, graphState, queueState, lanes, completedEnd, ran>>

LastLease(t) == leases[t] = 1

ReleaseCompleted(t) ==
  /\ leases[t] > 0
  /\ leases' = [leases EXCEPT ![t] = @ - 1]
  /\ IF LastLease(t)
       THEN /\ dependents' = [dependents EXCEPT ![t] = {}]
            /\ completedEnd' = Restrict(completedEnd, DOMAIN completedEnd \ {t})
       ELSE UNCHANGED <<dependents, completedEnd>>
  /\ UNCHANGED <<graph, tasks, seen, indegree, dependencyReady, ready, queueState,
                 lanes, ran>>

------------------------------------------------------------------------------
\* A kernel whose caller may do anything it can.

KernelStart ==
  /\ tasks = {} /\ seen = {} /\ ready = {} /\ readyHeap = {}
  /\ indegree = [t \in Tasks |-> 0]
  /\ dependents = [t \in Tasks |-> {}]
  /\ dependencyReady = [t \in Tasks |-> 0]
  /\ groupVersion = [g \in Groups |-> 0]
  /\ lanes = [o \in Owners |-> [i \in 1 .. graph.capacity[o] |-> 0]]
  /\ leases = [t \in Tasks |-> 0]
  /\ completedEnd = [t \in {} |-> 0]
  /\ ran = [t \in {} |-> 0]

KernelInit == graph \in Graphs /\ KernelStart

SubmitSome ==
  \E chunk \in (SUBSET (Tasks \ seen)) \ {{}} : \E kept \in SUBSET Tasks :
    /\ \A d \in kept : leases[d] < LeaseLimit
    /\ Submit(chunk, kept)

KernelNext ==
  \/ SubmitSome
  \/ DropStale
  \/ Requeue
  \/ Step
  \/ \E t \in Tasks : RetainCompleted(t)
  \/ \E t \in Tasks : ReleaseCompleted(t)

\* step() is called until it returns None: assert_drained() follows every use.
KernelFairness == WF_kernelVars(DropStale \/ Requeue \/ Step)

KernelSpec == KernelInit /\ [][KernelNext]_kernelVars /\ KernelFairness
------------------------------------------------------------------------------
\* Correctness.

\* step() executes the least ready key there is, computed from the lanes and the
\* dependencies of that moment, although the queue holds older keys.
LeastKeyFirst ==
  [][\A t \in DOMAIN ran' \ DOMAIN ran : \A u \in ready \ {t} :
       Precedes(ReadyKey(t), ReadyKey(u))]_kernelVars

\* Every accepted task runs, whatever is submitted, retained or released meanwhile.
SubmittedRuns == \A t \in Tasks : t \in tasks ~> t \in DOMAIN ran

\* The kernel is an implementation of TaskGraph.
Abstract == INSTANCE TaskGraph WITH
              graph <- graph, submitted <- tasks \cup DOMAIN ran, schedule <- ran
ImplementsTaskGraph == Abstract!GraphSpec
==============================================================================
