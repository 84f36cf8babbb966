--------------------------- MODULE EventKernelProofs ---------------------------
(***************************************************************************)
(* For any tasks, graphs, owners and lanes: the kernel's counters are      *)
(* exact and its runs are placements of the task graph; the loop that      *)
(* lowers requests on demand makes the schedule of the complete graph.     *)
(***************************************************************************)
EXTENDS StreamingRun, CollectionTheorems

------------------------------------------------------------------------------
(* Greatest and least elements of finite sets.  A smallest finite set      *)
(* without one loses an element and has one.                               *)

\* A finite set of integers has a greatest element, and Max is it.
LEMMA MaxExists ==
  ASSUME NEW S \in SUBSET Int, IsFiniteSet(S), S # {}
  PROVE  Max(S) \in S /\ \A y \in S : y <= Max(S)
<1> DEFINE Tops(U) == \E x \in U : \A y \in U : x >= y
           Bad == {U \in FiniteSubsetsOf(S) : U # {} /\ ~Tops(U)}
<1>1. Bad = {}
  <2> SUFFICES ASSUME Bad # {} PROVE FALSE
    OBVIOUS
  <2>1. PICK U \in Bad : \A V \in Bad : <<V, U>> \notin StrictSubsetOrdering(S)
    BY FS_StrictSubsetOrderingWellFounded, WFMin
  <2>2. PICK x \in U : TRUE
    OBVIOUS
  <2>3. U \ {x} \in FiniteSubsetsOf(S) /\ <<U \ {x}, U>> \in StrictSubsetOrdering(S)
    BY <2>2, FS_RemoveElement DEF FiniteSubsetsOf, StrictSubsetOrdering
  <2>4. U \ {x} = {} \/ Tops(U \ {x})
    BY <2>1, <2>3
  <2>5. CASE U \ {x} = {}
    <3>1. U = {x} /\ x \in Int
      BY <2>2, <2>5 DEF FiniteSubsetsOf
    <3> QED
      BY <3>1
  <2>6. CASE Tops(U \ {x})
    <3>1. PICK m \in U \ {x} : \A y \in U \ {x} : m >= y
      BY <2>6
    <3>2. U \subseteq Int
      BY DEF FiniteSubsetsOf
    <3> QED
      BY <2>2, <3>1, <3>2
  <2> QED
    BY <2>4, <2>5, <2>6
<1>2. Tops(S)
  BY <1>1 DEF FiniteSubsetsOf
<1> QED
  BY <1>2 DEF Max

\* And a least one, which is Min.
LEMMA MinExists ==
  ASSUME NEW S \in SUBSET Int, IsFiniteSet(S), S # {}
  PROVE  Min(S) \in S /\ \A y \in S : Min(S) <= y
<1> DEFINE Bottoms(U) == \E x \in U : \A y \in U : x <= y
           Bad == {U \in FiniteSubsetsOf(S) : U # {} /\ ~Bottoms(U)}
<1>1. Bad = {}
  <2> SUFFICES ASSUME Bad # {} PROVE FALSE
    OBVIOUS
  <2>1. PICK U \in Bad : \A V \in Bad : <<V, U>> \notin StrictSubsetOrdering(S)
    BY FS_StrictSubsetOrderingWellFounded, WFMin
  <2>2. PICK x \in U : TRUE
    OBVIOUS
  <2>3. U \ {x} \in FiniteSubsetsOf(S) /\ <<U \ {x}, U>> \in StrictSubsetOrdering(S)
    BY <2>2, FS_RemoveElement DEF FiniteSubsetsOf, StrictSubsetOrdering
  <2>4. U \ {x} = {} \/ Bottoms(U \ {x})
    BY <2>1, <2>3
  <2>5. CASE U \ {x} = {}
    <3>1. U = {x} /\ x \in Int
      BY <2>2, <2>5 DEF FiniteSubsetsOf
    <3> QED
      BY <3>1
  <2>6. CASE Bottoms(U \ {x})
    <3>1. PICK m \in U \ {x} : \A y \in U \ {x} : m <= y
      BY <2>6
    <3>2. U \subseteq Int
      BY DEF FiniteSubsetsOf
    <3> QED
      BY <2>2, <3>1, <3>2
  <2> QED
    BY <2>4, <2>5, <2>6
<1>2. Bottoms(S)
  BY <1>1 DEF FiniteSubsetsOf
<1> QED
  BY <1>2 DEF Min

\* The values of a function on a finite set are finitely many.
LEMMA ValuesFinite ==
  ASSUME NEW S, IsFiniteSet(S), NEW f, DOMAIN f = S
  PROVE  IsFiniteSet({f[x] : x \in S})
<1> DEFINE g == [x \in S |-> f[x]]
<1>1. g \in Surjection(S, {f[x] : x \in S})
  BY DEF Surjection
<1> QED
  BY <1>1, FS_Surjection

------------------------------------------------------------------------------
(* The order of the keys. *)

\* Precedes on five numbers, written out.
LEMMA PrecedesFive ==
  ASSUME NEW a1, NEW a2, NEW a3, NEW a4, NEW a5, NEW b1, NEW b2, NEW b3, NEW b4, NEW b5
  PROVE  Precedes(<<a1, a2, a3, a4, a5>>, <<b1, b2, b3, b4, b5>>) <=>
           \/ a1 < b1
           \/ a1 = b1 /\ a2 < b2
           \/ a1 = b1 /\ a2 = b2 /\ a3 < b3
           \/ a1 = b1 /\ a2 = b2 /\ a3 = b3 /\ a4 < b4
           \/ a1 = b1 /\ a2 = b2 /\ a3 = b3 /\ a4 = b4 /\ a5 < b5
<1> DEFINE x == <<a1, a2, a3, a4, a5>>
           y == <<b1, b2, b3, b4, b5>>
<1>1. DOMAIN x = {1, 2, 3, 4, 5}
  OBVIOUS
<1>2. \A i \in {1, 2, 3, 4, 5} : 1 .. i - 1 = {j \in {1, 2, 3, 4} : j < i}
  OBVIOUS
<1>3. Precedes(x, y) <=>
        \E i \in {1, 2, 3, 4, 5} : x[i] < y[i] /\ \A j \in {1, 2, 3, 4} : j < i => x[j] = y[j]
  BY <1>1, <1>2 DEF Precedes
<1> QED
  BY <1>3

LEMMA PrecedesFour ==
  ASSUME NEW a1, NEW a2, NEW a3, NEW a4, NEW b1, NEW b2, NEW b3, NEW b4
  PROVE  Precedes(<<a1, a2, a3, a4>>, <<b1, b2, b3, b4>>) <=>
           \/ a1 < b1
           \/ a1 = b1 /\ a2 < b2
           \/ a1 = b1 /\ a2 = b2 /\ a3 < b3
           \/ a1 = b1 /\ a2 = b2 /\ a3 = b3 /\ a4 < b4
<1> DEFINE x == <<a1, a2, a3, a4>>
           y == <<b1, b2, b3, b4>>
<1>1. DOMAIN x = {1, 2, 3, 4}
  OBVIOUS
<1>2. \A i \in {1, 2, 3, 4} : 1 .. i - 1 = {j \in {1, 2, 3} : j < i}
  OBVIOUS
<1>3. Precedes(x, y) <=>
        \E i \in {1, 2, 3, 4} : x[i] < y[i] /\ \A j \in {1, 2, 3} : j < i => x[j] = y[j]
  BY <1>1, <1>2 DEF Precedes
<1> QED
  BY <1>3

------------------------------------------------------------------------------
(* The invariant.                                                          *)

\* What the counters and the sets of tasks are.
TasksTyped ==
  /\ graph \in Graphs
  /\ tasks \subseteq Tasks /\ DOMAIN ran \subseteq Tasks
  /\ tasks \cap DOMAIN ran = {} /\ seen = tasks \cup DOMAIN ran
  /\ ready \subseteq tasks
  /\ indegree \in [Tasks -> Nat] /\ dependencyReady \in [Tasks -> Nat]
  /\ dependents \in [Tasks -> SUBSET Tasks]
  /\ leases \in [Tasks -> Nat]

LanesTyped ==
  /\ DOMAIN lanes = Owners
  /\ \A o \in Owners : lanes[o] \in [1 .. graph.capacity[o] -> Nat]

RunsTyped == \A t \in DOMAIN ran : ran[t].start \in Nat /\ ran[t].end \in Nat

\* A completion that is retained is the one of the task's run, and what is leased
\* is retained.
EndsKept ==
  /\ DOMAIN completedEnd \subseteq DOMAIN ran
  /\ \A d \in DOMAIN completedEnd : completedEnd[d] = ran[d].end
  /\ \A t \in Tasks : leases[t] > 0 => t \in DOMAIN completedEnd

\* The counters are what the graph says they are.
CountersExact ==
  \A t \in tasks :
    /\ graph.deps[t] \subseteq tasks \cup DOMAIN ran
    /\ indegree[t] = Cardinality(graph.deps[t] \cap tasks)
    /\ t \in ready <=> graph.deps[t] \cap tasks = {}

DependentsExact ==
  \A d \in Tasks \ DOMAIN ran : dependents[d] = {t \in tasks : d \in graph.deps[t]}

\* A task is not ready before its dependencies end.
ReadyAfter ==
  \A t \in tasks : \A d \in graph.deps[t] \cap DOMAIN ran :
    ran[d].end <= dependencyReady[t]

\* A lane is not free before the tasks it was given to end.
LanesHeld ==
  \A u \in DOMAIN ran : \A o \in UsedBy(u) :
    /\ ran[u].lane[o] \in 1 .. graph.capacity[o]
    /\ ran[u].start + Service(u, o) <= lanes[o][ran[u].lane[o]]

KernelInv ==
  /\ TasksTyped /\ LanesTyped /\ RunsTyped
  /\ EndsKept /\ CountersExact /\ DependentsExact
  /\ ReadyAfter /\ LanesHeld

------------------------------------------------------------------------------
(* What the operators of the kernel return.                                *)

\* The parts of a graph.
LEMMA GraphParts ==
  ASSUME graph \in Graphs
  PROVE  /\ graph.deps \in [Tasks -> SUBSET Tasks]
         /\ graph.owner \in [Resources -> Owners]
         /\ graph.capacity \in [Owners -> Nat \ {0}]
         /\ graph.earliest \in [Tasks -> Nat]
         /\ graph.rank \in [Tasks -> Nat]
         /\ \A t, u \in Tasks : graph.rank[t] = graph.rank[u] => t = u
         /\ \A t \in Tasks : Group(t) \subseteq Resources /\ UsedBy(t) \subseteq Owners
<1>1. IsGraph(graph)
  BY GraphsWellFormed
<1> QED
  BY <1>1 DEF IsGraph, IsInjective, Group, UsedBy

\* A demand names each owner once, and takes a natural time of it.
LEMMA ServiceIsNat ==
  ASSUME graph \in Graphs, NEW t \in Tasks, NEW o \in UsedBy(t)
  PROVE  Service(t, o) \in Nat
<1>1. IsGraph(graph)
  BY GraphsWellFormed
<1>2. PICK l \in Group(t) : graph.owner[l] = o
  BY DEF UsedBy
<1>3. (CHOOSE m \in Group(t) : graph.owner[m] = o) \in Group(t)
  BY <1>2
<1> QED
  BY <1>1, <1>3 DEF IsGraph, Service, Group

\* The groups of tasks, and the owners they use, are finite sets.
LEMMA GroupsFinite ==
  ASSUME graph \in Graphs, NEW t \in Tasks
  PROVE  IsFiniteSet(Group(t)) /\ IsFiniteSet(UsedBy(t))
<1>1. IsFiniteSet(Group(t))
  BY GraphParts, TasksFinite, FS_Subset
<1> DEFINE own == [l \in Group(t) |-> graph.owner[l]]
<1>2. UsedBy(t) = {own[l] : l \in Group(t)} /\ DOMAIN own = Group(t)
  BY DEF UsedBy
<1> HIDE DEF own
<1> QED
  BY <1>1, <1>2, ValuesFinite

\* The lane a demand takes is a lane of its owner, and the first one free.
LEMMA FirstFreeLane ==
  ASSUME graph \in Graphs, LanesTyped, NEW o \in Owners
  PROVE  /\ Available(o) \in Nat
         /\ SelectLane(o) \in 1 .. graph.capacity[o]
         /\ lanes[o][SelectLane(o)] = Available(o)
         /\ \A i \in 1 .. graph.capacity[o] : Available(o) <= lanes[o][i]
<1> DEFINE all == 1 .. graph.capacity[o]
           times == {lanes[o][i] : i \in all}
           firsts == {i \in all : lanes[o][i] = Available(o)}
<1>1. graph.capacity[o] \in Nat \ {0} /\ lanes[o] \in [all -> Nat]
  BY GraphParts DEF LanesTyped
<1>2. IsFiniteSet(all) /\ 1 \in all
  BY <1>1, FS_Interval
<1>3. Range(lanes[o]) = times
  BY <1>1 DEF Range
<1>4. times \in SUBSET Int /\ times # {} /\ IsFiniteSet(times)
  BY <1>1, <1>2, ValuesFinite
<1>5. Min(times) \in times /\ \A y \in times : Min(times) <= y
  BY <1>4, MinExists
<1>6. Available(o) \in times /\ \A y \in times : Available(o) <= y
  BY <1>3, <1>5 DEF Available
<1>7. firsts \in SUBSET Int /\ firsts # {} /\ IsFiniteSet(firsts)
  BY <1>1, <1>2, <1>6, FS_Subset
<1>8. Min(firsts) \in firsts
  BY <1>7, MinExists
<1>9. SelectLane(o) = Min(firsts)
  BY <1>1 DEF SelectLane
<1> QED
  BY <1>1, <1>6, <1>8, <1>9

\* A task starts when its dependencies, its earliest start and its resources let it.
LEMMA StartIsLate ==
  ASSUME TasksTyped, LanesTyped, NEW t \in Tasks
  PROVE  /\ StartOf(t) \in Nat
         /\ dependencyReady[t] <= StartOf(t) /\ graph.earliest[t] <= StartOf(t)
         /\ \A o \in UsedBy(t) : Available(o) <= StartOf(t)
         /\ StartOf(t) \in {EffectiveReady(t)} \cup {Available(graph.owner[l]) : l \in Group(t)}
<1> DEFINE free == [l \in Group(t) |-> Available(graph.owner[l])]
           limits == {EffectiveReady(t)} \cup {free[l] : l \in Group(t)}
<1>1. graph \in Graphs /\ dependencyReady[t] \in Nat /\ graph.earliest[t] \in Nat
  BY GraphParts DEF TasksTyped
<1>2. EffectiveReady(t) \in Nat /\ dependencyReady[t] <= EffectiveReady(t)
        /\ graph.earliest[t] <= EffectiveReady(t)
  BY <1>1 DEF EffectiveReady, Max2
<1>3. \A l \in Group(t) : graph.owner[l] \in Owners /\ free[l] \in Nat
  BY <1>1, GraphParts, FirstFreeLane
<1>4. limits \in SUBSET Int /\ limits # {}
  BY <1>2, <1>3
<1>5. IsFiniteSet({free[l] : l \in Group(t)})
  BY <1>1, GroupsFinite, ValuesFinite
<1>6. IsFiniteSet(limits)
  BY <1>5, FS_Union, FS_Singleton
<1>7. Max(limits) \in limits /\ \A y \in limits : y <= Max(limits)
  BY <1>4, <1>6, MaxExists
<1>8. StartOf(t) = Max(limits)
  BY DEF StartOf
<1>9. StartOf(t) \in Nat
  BY <1>2, <1>3, <1>7, <1>8
<1>10. \A o \in UsedBy(t) : Available(o) \in limits
  BY DEF UsedBy
<1>11. EffectiveReady(t) <= StartOf(t)
  BY <1>7, <1>8
<1>12. \A o \in UsedBy(t) : Available(o) <= StartOf(t)
  BY <1>7, <1>8, <1>10
<1>13. StartOf(t) \in {EffectiveReady(t)} \cup {Available(graph.owner[l]) : l \in Group(t)}
  BY <1>7, <1>8
<1>14. dependencyReady[t] <= StartOf(t) /\ graph.earliest[t] <= StartOf(t)
  BY <1>1, <1>2, <1>9, <1>11
<1> QED
  BY <1>9, <1>12, <1>13, <1>14

\* It ends when the last of its demands ends.
LEMMA EndIsLate ==
  ASSUME TasksTyped, LanesTyped, NEW t \in Tasks
  PROVE  /\ EndOf(t) \in Nat /\ StartOf(t) <= EndOf(t)
         /\ \A o \in UsedBy(t) : StartOf(t) + Service(t, o) <= EndOf(t)
<1> DEFINE ends == [o \in UsedBy(t) |-> StartOf(t) + Service(t, o)]
           all == {StartOf(t)} \cup {ends[o] : o \in UsedBy(t)}
<1>1. graph \in Graphs /\ StartOf(t) \in Nat
  BY StartIsLate DEF TasksTyped
<1>2. \A o \in UsedBy(t) : ends[o] \in Nat
  BY <1>1, ServiceIsNat
<1>3. all \in SUBSET Int /\ all # {}
  BY <1>1, <1>2
<1>4. IsFiniteSet({ends[o] : o \in UsedBy(t)})
  BY <1>1, GroupsFinite, ValuesFinite
<1>5. IsFiniteSet(all)
  BY <1>4, FS_Union, FS_Singleton
<1>6. Max(all) \in all /\ \A y \in all : y <= Max(all)
  BY <1>3, <1>5, MaxExists
<1>7. EndOf(t) = Max(all)
  BY DEF EndOf
<1> QED
  BY <1>1, <1>2, <1>6, <1>7

\* The demands of the graph do not change.
LEMMA SameGraph ==
  ASSUME graph' = graph
  PROVE  \A t : /\ Group(t)' = Group(t)
                /\ UsedBy(t)' = UsedBy(t)
                /\ \A o : Service(t, o)' = Service(t, o)
<1> SUFFICES ASSUME NEW t
             PROVE  /\ Group(t)' = Group(t)
                    /\ UsedBy(t)' = UsedBy(t)
                    /\ \A o : Service(t, o)' = Service(t, o)
  OBVIOUS
<1>1. Group(t)' = Group(t)
  BY DEF Group
<1>2. UsedBy(t)' = UsedBy(t)
  BY <1>1 DEF UsedBy
<1>3. ASSUME NEW o PROVE Service(t, o)' = Service(t, o)
  BY <1>1, Zenon DEF Service
<1> QED
  BY <1>1, <1>2, <1>3

\* A function on a finite set takes a least value.
LEMMA LeastValue ==
  ASSUME NEW S, IsFiniteSet(S), S # {}, NEW f \in [S -> Nat]
  PROVE  \E x \in S : \A y \in S : f[x] <= f[y]
<1> DEFINE values == {f[x] : x \in S}
<1>1. values \in SUBSET Int /\ values # {} /\ IsFiniteSet(values)
  BY ValuesFinite
<1>2. Min(values) \in values /\ \A y \in values : Min(values) <= y
  BY <1>1, MinExists
<1>3. PICK x \in S : f[x] = Min(values)
  BY <1>2
<1>4. \A y \in S : f[y] \in values
  OBVIOUS
<1> QED
  BY <1>2, <1>3, <1>4

\* Some task of a group that has ready ones is before the others, and the top of
\* the group is that one.
LEMMA TopIsLeast ==
  ASSUME TasksTyped, NEW g, InGroup(g) # {}
  PROVE  /\ Top(g) \in InGroup(g)
         /\ \A u \in InGroup(g) \ {Top(g)} : Precedes(StaticReadyKey(Top(g)), StaticReadyKey(u))
<1> DEFINE G1 == InGroup(g)
           f1 == [t \in G1 |-> EffectiveReady(t)]
           G2 == {t \in G1 : \A u \in G1 : f1[t] <= f1[u]}
           f2 == [t \in G2 |-> dependencyReady[t]]
           G3 == {t \in G2 : \A u \in G2 : f2[t] <= f2[u]}
           f3 == [t \in G3 |-> graph.earliest[t]]
           G4 == {t \in G3 : \A u \in G3 : f3[t] <= f3[u]}
           f4 == [t \in G4 |-> graph.rank[t]]
           G5 == {t \in G4 : \A u \in G4 : f4[t] <= f4[u]}
<1>1. G1 \subseteq Tasks /\ IsFiniteSet(G1) /\ G1 # {}
  BY TasksFinite, FS_Subset DEF InGroup, TasksTyped
<1>2. /\ \A t \in G1 : /\ dependencyReady[t] \in Nat /\ graph.earliest[t] \in Nat
                       /\ graph.rank[t] \in Nat /\ EffectiveReady(t) \in Nat
      /\ \A t, u \in G1 : graph.rank[t] = graph.rank[u] => t = u
  BY <1>1, GraphParts DEF TasksTyped, EffectiveReady, Max2
<1>3. \A G \in SUBSET G1 : IsFiniteSet(G)
  BY <1>1, FS_Subset
<1>4. G2 # {} /\ G2 \in SUBSET G1
  <2>1. f1 \in [G1 -> Nat]
    BY <1>2
  <2>2. \E t \in G1 : \A u \in G1 : f1[t] <= f1[u]
    BY <1>1, <2>1, LeastValue
  <2> QED
    BY <2>2
<1>5. G3 # {} /\ G3 \in SUBSET G2
  <2>1. f2 \in [G2 -> Nat]
    BY <1>2
  <2>2. \E t \in G2 : \A u \in G2 : f2[t] <= f2[u]
    <3> HIDE DEF f2, G2
    <3> QED
      BY <1>3, <1>4, <2>1, LeastValue
  <2> QED
    BY <2>2
<1>6. G4 # {} /\ G4 \in SUBSET G3
  <2>1. f3 \in [G3 -> Nat]
    BY <1>2
  <2>2. \E t \in G3 : \A u \in G3 : f3[t] <= f3[u]
    <3> HIDE DEF f3, G3, G2
    <3> QED
      BY <1>3, <1>4, <1>5, <2>1, LeastValue
  <2> QED
    BY <2>2
<1>7. G5 # {}
  <2>1. f4 \in [G4 -> Nat]
    BY <1>2
  <2>2. \E t \in G4 : \A u \in G4 : f4[t] <= f4[u]
    <3> HIDE DEF f4, G4, G3, G2
    <3> QED
      BY <1>3, <1>4, <1>5, <1>6, <2>1, LeastValue
  <2> QED
    BY <2>2
<1>8. PICK t \in G5 : TRUE
  BY <1>7
<1>9. ASSUME NEW u \in G1, u # t
      PROVE  Precedes(StaticReadyKey(t), StaticReadyKey(u))
  <2>1. t \in G1 /\ t \in G2 /\ t \in G3 /\ t \in G4
    OBVIOUS
  <2>2. EffectiveReady(t) <= EffectiveReady(u)
    BY <1>9, <2>1
  <2>3. EffectiveReady(t) = EffectiveReady(u) =>
           u \in G2 /\ dependencyReady[t] <= dependencyReady[u]
    <3> SUFFICES ASSUME EffectiveReady(t) = EffectiveReady(u)
                 PROVE  u \in G2 /\ dependencyReady[t] <= dependencyReady[u]
      OBVIOUS
    <3>1. u \in G2
      BY <1>9, <2>1
    <3> QED
      BY <2>1, <3>1
  <2>4. u \in G2 /\ dependencyReady[t] = dependencyReady[u] =>
           u \in G3 /\ graph.earliest[t] <= graph.earliest[u]
    <3> SUFFICES ASSUME u \in G2, dependencyReady[t] = dependencyReady[u]
                 PROVE  u \in G3 /\ graph.earliest[t] <= graph.earliest[u]
      OBVIOUS
    <3>1. u \in G3
      BY <2>1
    <3> QED
      BY <2>1, <3>1
  <2>5. u \in G3 /\ graph.earliest[t] = graph.earliest[u] =>
           graph.rank[t] <= graph.rank[u]
    <3> SUFFICES ASSUME u \in G3, graph.earliest[t] = graph.earliest[u]
                 PROVE  graph.rank[t] <= graph.rank[u]
      OBVIOUS
    <3>1. u \in G4
      BY <2>1
    <3> QED
      BY <2>1, <3>1
  <2>6. graph.rank[t] # graph.rank[u]
    BY <1>2, <1>9, <2>1
  <2> HIDE DEF f1, f2, f3, f4, G1, G2, G3, G4, G5
  <2> QED
    BY <1>2, <1>9, <2>1, <2>2, <2>3, <2>4, <2>5, <2>6, PrecedesFour DEF StaticReadyKey
<1>10. t \in InGroup(g)
  OBVIOUS
<1> HIDE DEF G1, G2, G3, G4, G5, f1, f2, f3, f4
<1>11. \E v \in InGroup(g) : \A u \in InGroup(g) \ {v} :
          Precedes(StaticReadyKey(v), StaticReadyKey(u))
  BY <1>9, <1>10 DEF G1
<1> QED
  BY <1>11 DEF Top

------------------------------------------------------------------------------
(* The invariant is kept.                                                  *)

LEMMA InvAtStart == KernelInit => KernelInv
<1> SUFFICES ASSUME KernelInit PROVE KernelInv
  OBVIOUS
<1> USE DEF KernelInit, KernelStart
<1>1. DOMAIN ran = {} /\ DOMAIN completedEnd = {}
  OBVIOUS
<1>2. TasksTyped
  BY <1>1 DEF TasksTyped
<1>3. LanesTyped
  BY GraphParts DEF LanesTyped
<1>4. RunsTyped /\ EndsKept /\ CountersExact /\ ReadyAfter /\ LanesHeld
  BY <1>1 DEF RunsTyped, EndsKept, CountersExact, ReadyAfter, LanesHeld
<1>5. DependentsExact
  BY DEF DependentsExact
<1> QED
  BY <1>2, <1>3, <1>4, <1>5 DEF KernelInv

\* What is not in the queue stays: the invariant does not speak of the queue.
LEMMA InvIgnoresQueue ==
  ASSUME KernelInv, UNCHANGED <<graph, graphState, doneState>>
  PROVE  KernelInv'
<1>1. UNCHANGED <<graph, tasks, seen, indegree, dependents, dependencyReady, ready,
                  lanes, leases, completedEnd, ran>>
  BY DEF graphState, doneState
<1>2. TasksTyped' /\ LanesTyped' /\ RunsTyped' /\ EndsKept' /\ CountersExact'
        /\ DependentsExact' /\ ReadyAfter'
  BY <1>1 DEF KernelInv, TasksTyped, LanesTyped, RunsTyped, EndsKept, CountersExact,
              DependentsExact, ReadyAfter
<1>3. LanesHeld'
  BY <1>1, SameGraph DEF KernelInv, LanesHeld
<1> QED
  BY <1>2, <1>3 DEF KernelInv

LEMMA InvRetain ==
  ASSUME KernelInv, NEW t \in Tasks, RetainCompleted(t)
  PROVE  KernelInv'
<1>1. UNCHANGED <<graph, tasks, seen, indegree, dependents, dependencyReady, ready,
                  lanes, completedEnd, ran>>
  BY DEF RetainCompleted, graphState
<1>2. TasksTyped'
  BY <1>1 DEF KernelInv, TasksTyped, RetainCompleted
<1>3. EndsKept'
  BY <1>1 DEF KernelInv, EndsKept, TasksTyped, RetainCompleted
<1>4. LanesTyped' /\ RunsTyped' /\ CountersExact' /\ DependentsExact' /\ ReadyAfter'
  BY <1>1 DEF KernelInv, LanesTyped, RunsTyped, CountersExact, DependentsExact, ReadyAfter
<1>5. LanesHeld'
  BY <1>1, SameGraph DEF KernelInv, LanesHeld
<1> QED
  BY <1>2, <1>3, <1>4, <1>5 DEF KernelInv

LEMMA InvRelease ==
  ASSUME KernelInv, NEW t \in Tasks, ReleaseCompleted(t)
  PROVE  KernelInv'
<1>1. UNCHANGED <<graph, tasks, seen, indegree, dependencyReady, ready, lanes, ran>>
  BY DEF ReleaseCompleted
<1>2. leases[t] \in Nat /\ leases[t] > 0 /\ t \in DOMAIN ran
  BY DEF KernelInv, TasksTyped, EndsKept, ReleaseCompleted
<1>3. leases' = [leases EXCEPT ![t] = @ - 1]
  BY DEF ReleaseCompleted
<1>4. /\ dependents' \in [Tasks -> SUBSET Tasks]
      /\ \A d \in Tasks \ {t} : dependents'[d] = dependents[d]
  BY DEF KernelInv, TasksTyped, ReleaseCompleted
<1>5. TasksTyped'
  <2>1. leases \in [Tasks -> Nat] /\ leases[t] - 1 \in Nat
    BY <1>2 DEF KernelInv, TasksTyped
  <2>2. leases' \in [Tasks -> Nat]
    BY <1>3, <2>1
  <2> QED
    BY <1>1, <1>4, <2>2 DEF KernelInv, TasksTyped
<1>6. EndsKept'
  <2>1. CASE LastLease(t)
    <3>1. completedEnd' = [d \in DOMAIN completedEnd \ {t} |-> completedEnd[d]] /\ leases[t] = 1
      BY <2>1 DEF ReleaseCompleted, Restrict, LastLease
    <3> QED
      BY <1>1, <1>3, <3>1 DEF KernelInv, TasksTyped, EndsKept
  <2>2. CASE ~LastLease(t)
    <3>1. completedEnd' = completedEnd
      BY <2>2 DEF ReleaseCompleted
    <3> QED
      BY <1>1, <1>2, <1>3, <3>1 DEF KernelInv, TasksTyped, EndsKept
  <2> QED
    BY <2>1, <2>2
<1>7. DependentsExact'
  BY <1>1, <1>2, <1>4 DEF KernelInv, DependentsExact
<1>8. LanesTyped' /\ RunsTyped' /\ CountersExact' /\ ReadyAfter'
  BY <1>1 DEF KernelInv, LanesTyped, RunsTyped, CountersExact, ReadyAfter
<1>9. LanesHeld'
  BY <1>1, SameGraph DEF KernelInv, LanesHeld
<1> QED
  BY <1>5, <1>6, <1>7, <1>8, <1>9 DEF KernelInv

\* submit(): the dependencies that count are those that have not run.
LEMMA InvSubmit ==
  ASSUME KernelInv, NEW chunk \in SUBSET (Tasks \ seen), NEW kept \in SUBSET Tasks,
         Submit(chunk, kept)
  PROVE  KernelInv'
<1>1. UNCHANGED <<graph, lanes, completedEnd, ran>>
  BY DEF Submit
<1>2. /\ graph \in Graphs /\ graph.deps \in [Tasks -> SUBSET Tasks]
      /\ tasks \subseteq Tasks /\ chunk \cap tasks = {} /\ chunk \cap DOMAIN ran = {}
      /\ chunk \subseteq Tasks
  BY GraphParts DEF KernelInv, TasksTyped
<1>3. \A t \in chunk : graph.deps[t] \subseteq chunk \cup tasks \cup DOMAIN completedEnd
  BY DEF Submit, Admissible
<1>4. DOMAIN completedEnd \subseteq DOMAIN ran /\ tasks \cap DOMAIN ran = {}
  BY DEF KernelInv, EndsKept, TasksTyped
<1>5. tasks' = tasks \cup chunk
  BY DEF Submit
<1>6. \A t \in chunk : Unresolved(t) = graph.deps[t] \cap tasks'
  BY <1>2, <1>3, <1>4, <1>5 DEF Unresolved
<1>7. \A t \in tasks : graph.deps[t] \cap tasks' = graph.deps[t] \cap tasks
  BY <1>2, <1>5 DEF KernelInv, CountersExact
<1>8. \A t \in chunk : IsFiniteSet(Unresolved(t)) /\ Cardinality(Unresolved(t)) \in Nat
  BY <1>2, TasksFinite, FS_Subset, FS_CardinalityType DEF Unresolved
<1>9. ASSUME NEW t \in chunk
      PROVE  /\ dependencyReady'[t] \in Nat
             /\ \A d \in graph.deps[t] \cap DOMAIN ran : ran[d].end <= dependencyReady'[t]
  <2> DEFINE done == graph.deps[t] \cap DOMAIN completedEnd
             ends == [d \in done |-> completedEnd[d]]
             all == {0} \cup {ends[d] : d \in done}
  <2>1. IsFiniteSet(done)
    BY <1>2, TasksFinite, FS_Subset
  <2>2. \A d \in done : ends[d] \in Nat /\ ends[d] = ran[d].end
    BY <1>4 DEF KernelInv, EndsKept, RunsTyped
  <2>3. IsFiniteSet({ends[d] : d \in done})
    BY <2>1, ValuesFinite
  <2>4. IsFiniteSet(all)
    BY <2>3, FS_Union, FS_Singleton
  <2>5. all \in SUBSET Nat /\ all \in SUBSET Int /\ all # {}
    <3>1. \A d \in done : ends[d] \in Nat
      BY <2>2
    <3> HIDE DEF ends, done
    <3> QED
      BY <3>1
  <2>6. Max(all) \in all /\ \A y \in all : y <= Max(all)
    BY <2>4, <2>5, MaxExists
  <2>7. dependencyReady'[t] = Max(all)
    BY <1>2 DEF Submit
  <2>8. graph.deps[t] \cap DOMAIN ran = done
    BY <1>2, <1>3, <1>4
  <2>9. \A d \in done : ran[d].end \in all
    BY <2>2
  <2>10. dependencyReady'[t] \in Nat
    <3> HIDE DEF all
    <3> QED
      BY <2>5, <2>6, <2>7
  <2> QED
    BY <2>6, <2>7, <2>8, <2>9, <2>10
<1>10. TasksTyped'
  <2>1. tasks' \subseteq Tasks /\ tasks' \cap DOMAIN ran' = {} /\ seen' = tasks' \cup DOMAIN ran'
    BY <1>1, <1>2, <1>4, <1>5 DEF KernelInv, TasksTyped, Submit
  <2>2. ready' \subseteq tasks'
    BY <1>5 DEF KernelInv, TasksTyped, Submit
  <2>3. indegree' \in [Tasks -> Nat]
    BY <1>8 DEF KernelInv, TasksTyped, Submit
  <2>4. dependencyReady' \in [Tasks -> Nat]
    <3>1. \A t \in Tasks : t \notin chunk => dependencyReady'[t] = dependencyReady[t]
      BY DEF Submit
    <3>2. \A t \in Tasks : dependencyReady'[t] \in Nat
      BY <1>9, <3>1 DEF KernelInv, TasksTyped
    <3> QED
      BY <3>2 DEF Submit
  <2>5. dependents' \in [Tasks -> SUBSET Tasks]
    BY <1>2 DEF KernelInv, TasksTyped, Submit
  <2>6. leases' \in [Tasks -> Nat]
    BY DEF KernelInv, TasksTyped, Submit
  <2> QED
    BY <1>1, <2>1, <2>2, <2>3, <2>4, <2>5, <2>6 DEF KernelInv, TasksTyped
<1>11. LanesTyped' /\ RunsTyped'
  BY <1>1 DEF KernelInv, LanesTyped, RunsTyped
<1>12. EndsKept'
  <2>1. \A t \in Tasks : leases'[t] > 0 => leases[t] > 0
    BY DEF KernelInv, TasksTyped, Submit, Admissible, Retainable
  <2> QED
    BY <1>1, <2>1 DEF KernelInv, EndsKept
<1>13. CountersExact'
  <2>1. ASSUME NEW t \in chunk
        PROVE  /\ graph.deps[t] \subseteq tasks' \cup DOMAIN ran
               /\ indegree'[t] = Cardinality(graph.deps[t] \cap tasks')
               /\ t \in ready' <=> graph.deps[t] \cap tasks' = {}
    <3>1. indegree'[t] = Cardinality(Unresolved(t))
      BY <1>2 DEF Submit
    <3>2. t \notin ready
      BY <1>2 DEF KernelInv, TasksTyped
    <3>3. t \in ready' <=> Unresolved(t) = {}
      BY <3>2 DEF Submit
    <3> QED
      BY <1>3, <1>4, <1>5, <1>6, <3>1, <3>3
  <2>2. ASSUME NEW t \in tasks
        PROVE  /\ graph.deps[t] \subseteq tasks' \cup DOMAIN ran
               /\ indegree'[t] = Cardinality(graph.deps[t] \cap tasks')
               /\ t \in ready' <=> graph.deps[t] \cap tasks' = {}
    <3>1. t \notin chunk /\ t \in Tasks
      BY <1>2
    <3>2. indegree'[t] = indegree[t] /\ (t \in ready' <=> t \in ready)
      BY <3>1 DEF Submit
    <3> QED
      BY <1>5, <1>7, <3>2 DEF KernelInv, CountersExact
  <2> QED
    BY <1>1, <1>5, <2>1, <2>2 DEF CountersExact
<1>14. DependentsExact'
  <2>1. ASSUME NEW d \in Tasks \ DOMAIN ran
        PROVE  dependents'[d] = {t \in tasks' : d \in graph.deps[t]}
    <3>1. dependents'[d] = dependents[d] \cup {t \in chunk : d \in Unresolved(t)}
      BY DEF Submit
    <3>2. dependents[d] = {t \in tasks : d \in graph.deps[t]}
      BY DEF KernelInv, DependentsExact
    <3>3. \A t \in chunk : d \in Unresolved(t) <=> d \in graph.deps[t]
      BY <1>4 DEF Unresolved
    <3> QED
      BY <1>5, <3>1, <3>2, <3>3
  <2> QED
    BY <1>1, <2>1 DEF DependentsExact
<1>15. ReadyAfter'
  <2>1. \A t \in tasks : dependencyReady'[t] = dependencyReady[t]
    BY <1>2 DEF Submit
  <2> QED
    BY <1>1, <1>5, <1>9, <2>1 DEF KernelInv, ReadyAfter
<1>16. LanesHeld'
  BY <1>1, SameGraph DEF KernelInv, LanesHeld
<1> QED
  BY <1>10, <1>11, <1>12, <1>13, <1>14, <1>15, <1>16 DEF KernelInv

\* The task step() executes is ready: it has waited for its last dependency.
LEMMA NextIsReady ==
  ASSUME KernelInv, NEW e \in readyHeap, Current(e)
  PROVE  /\ Top(e.group) \in ready /\ Top(e.group) \in tasks \ DOMAIN ran
         /\ Top(e.group) \in Tasks
         /\ graph.deps[Top(e.group)] \subseteq DOMAIN ran
<1>1. InGroup(e.group) # {}
  BY DEF Current, Stale
<1>2. Top(e.group) \in InGroup(e.group)
  BY <1>1, TopIsLeast DEF KernelInv
<1>3. Top(e.group) \in ready /\ Top(e.group) \in tasks /\ Top(e.group) \in Tasks
  BY <1>2 DEF InGroup, KernelInv, TasksTyped
<1> QED
  BY <1>3 DEF KernelInv, TasksTyped, CountersExact

\* The lane of a run is the one free first, and holds until the run's demand ends.
LEMMA LanesGrow ==
  ASSUME KernelInv, NEW t \in Tasks, graph' = graph, Account(t)
  PROVE  /\ LanesTyped'
         /\ \A o \in Owners : \A i \in 1 .. graph.capacity[o] : lanes[o][i] <= lanes'[o][i]
         /\ \A o \in UsedBy(t) : lanes'[o][SelectLane(o)] = StartOf(t) + Service(t, o)
<1>1. graph \in Graphs /\ UsedBy(t) \subseteq Owners /\ StartOf(t) \in Nat
  BY GraphParts, StartIsLate DEF KernelInv, TasksTyped
<1>2. \A o \in UsedBy(t) : Service(t, o) \in Nat /\ Available(o) <= StartOf(t)
  BY <1>1, ServiceIsNat, StartIsLate DEF KernelInv
<1>3. \A o \in Owners : /\ lanes[o] \in [1 .. graph.capacity[o] -> Nat]
                        /\ SelectLane(o) \in 1 .. graph.capacity[o]
                        /\ lanes[o][SelectLane(o)] = Available(o)
                        /\ Available(o) \in Nat
  BY <1>1, FirstFreeLane DEF KernelInv, LanesTyped
<1>4. /\ DOMAIN lanes' = Owners
      /\ \A o \in Owners \ UsedBy(t) : lanes'[o] = lanes[o]
      /\ \A o \in UsedBy(t) :
           lanes'[o] = [lanes[o] EXCEPT ![SelectLane(o)] = StartOf(t) + Service(t, o)]
  BY <1>1 DEF Account
<1>5. ASSUME NEW o \in UsedBy(t)
      PROVE  /\ lanes'[o] \in [1 .. graph.capacity[o] -> Nat]
             /\ \A i \in 1 .. graph.capacity[o] : lanes[o][i] <= lanes'[o][i]
             /\ lanes'[o][SelectLane(o)] = StartOf(t) + Service(t, o)
  <2> DEFINE until == StartOf(t) + Service(t, o)
             lane == SelectLane(o)
  <2>1. until \in Nat /\ Available(o) <= until
    BY <1>1, <1>2, <1>3
  <2>2. lanes'[o] = [lanes[o] EXCEPT ![lane] = until]
    BY <1>4
  <2>3. /\ lanes[o] \in [1 .. graph.capacity[o] -> Nat] /\ lane \in 1 .. graph.capacity[o]
        /\ lanes[o][lane] = Available(o)
    BY <1>1, <1>3
  <2> HIDE DEF until, lane
  <2>4. lanes'[o] \in [1 .. graph.capacity[o] -> Nat] /\ lanes'[o][lane] = until
    BY <2>1, <2>2, <2>3
  <2>5. ASSUME NEW i \in 1 .. graph.capacity[o]
        PROVE  lanes[o][i] <= lanes'[o][i]
    <3>1. lanes[o][i] \in Nat /\ lanes'[o][i] = IF i = lane THEN until ELSE lanes[o][i]
      BY <2>2, <2>3
    <3>2. i = lane => lanes[o][i] = Available(o)
      BY <2>3
    <3> QED
      BY <2>1, <3>1, <3>2
  <2> QED
    BY <2>4, <2>5 DEF until, lane
<1>6. ASSUME NEW o \in Owners \ UsedBy(t)
      PROVE  /\ lanes'[o] \in [1 .. graph.capacity[o] -> Nat]
             /\ \A i \in 1 .. graph.capacity[o] : lanes[o][i] <= lanes'[o][i]
  <2>1. lanes'[o] = lanes[o] /\ lanes[o] \in [1 .. graph.capacity[o] -> Nat]
    BY <1>3, <1>4
  <2>2. \A i \in 1 .. graph.capacity[o] : lanes[o][i] \in Nat
    BY <2>1
  <2>3. \A i \in 1 .. graph.capacity[o] : lanes[o][i] <= lanes'[o][i]
    BY <2>1, <2>2
  <2> QED
    BY <2>1, <2>3
<1>7. \A o \in Owners : lanes'[o] \in [1 .. graph.capacity[o] -> Nat]
  BY <1>5, <1>6
<1>8. \A o \in Owners : \A i \in 1 .. graph.capacity[o] : lanes[o][i] <= lanes'[o][i]
  BY <1>5, <1>6
<1>9. LanesTyped'
  BY <1>4, <1>7 DEF LanesTyped
<1> QED
  BY <1>5, <1>8, <1>9

\* step(): the dependents of the task wait for one less.
LEMMA InvExecute ==
  ASSUME KernelInv, NEW t \in tasks, t \in ready, t \notin DOMAIN ran, NEW e,
         graph.deps[t] \subseteq DOMAIN ran, graph' = graph, ExecuteTask(t, e)
  PROVE  KernelInv'
<1>1. /\ t \in Tasks /\ tasks \subseteq Tasks /\ tasks \cap DOMAIN ran = {}
      /\ graph \in Graphs /\ graph.deps \in [Tasks -> SUBSET Tasks]
      /\ dependents \in [Tasks -> SUBSET Tasks] /\ indegree \in [Tasks -> Nat]
      /\ dependencyReady \in [Tasks -> Nat]
  BY GraphParts DEF KernelInv, TasksTyped
<1>2. StartOf(t) \in Nat /\ EndOf(t) \in Nat
  BY <1>1, StartIsLate, EndIsLate DEF KernelInv
<1>3. /\ tasks' = tasks \ {t} /\ Account(t) /\ UNCHANGED <<graph, seen, dependents>>
      /\ ready' = (ready \ {t}) \cup Freed(t)
  BY DEF ExecuteTask
<1>4. /\ DOMAIN ran' = DOMAIN ran \cup {t}
      /\ \A u \in DOMAIN ran : ran'[u] = ran[u]
      /\ ran'[t] = [start |-> StartOf(t), end |-> EndOf(t),
                    lane |-> [o \in UsedBy(t) |-> SelectLane(o)]]
  BY <1>3 DEF Account
<1>5. dependents[t] = {u \in tasks : t \in graph.deps[u]}
  BY <1>1 DEF KernelInv, DependentsExact
<1>6. t \notin dependents[t]
  BY <1>5
<1>7. ASSUME NEW u \in dependents[t]
      PROVE  /\ indegree[u] - 1 \in Nat
             /\ indegree[u] - 1 = Cardinality(graph.deps[u] \cap tasks')
             /\ indegree[u] = 1 <=> graph.deps[u] \cap tasks' = {}
             /\ u \notin ready
  <2> DEFINE waits == graph.deps[u] \cap tasks
  <2>1. u \in tasks /\ t \in waits /\ waits \subseteq Tasks
    BY <1>1, <1>5
  <2>2. IsFiniteSet(waits) /\ indegree[u] = Cardinality(waits) /\ u \notin ready
    BY <2>1, TasksFinite, FS_Subset DEF KernelInv, CountersExact
  <2>3. graph.deps[u] \cap tasks' = waits \ {t}
    BY <1>3
  <2> HIDE DEF waits
  <2>4. Cardinality(waits) \in Nat /\ IsFiniteSet(waits \ {t})
          /\ Cardinality(waits \ {t}) = Cardinality(waits) - 1
          /\ Cardinality(waits \ {t}) \in Nat
    BY <2>1, <2>2, FS_RemoveElement, FS_CardinalityType
  <2>5. Cardinality(waits \ {t}) = 0 <=> waits \ {t} = {}
    BY <2>4, FS_EmptySet
  <2>6. indegree[u] = 1 <=> waits \ {t} = {}
    BY <2>2, <2>4, <2>5
  <2>7. indegree[u] - 1 \in Nat /\ indegree[u] - 1 = Cardinality(waits \ {t})
    BY <2>2, <2>4
  <2> QED
    BY <2>2, <2>3, <2>6, <2>7
<1>8. ASSUME NEW u \in Tasks
      PROVE  /\ indegree'[u] = IF u \in dependents[t] THEN indegree[u] - 1 ELSE indegree[u]
             /\ dependencyReady'[u] = IF u \in dependents[t]
                  THEN Max2(dependencyReady[u], EndOf(t)) ELSE dependencyReady[u]
             /\ dependencyReady'[u] \in Nat /\ dependencyReady[u] <= dependencyReady'[u]
             /\ u \in dependents[t] => EndOf(t) <= dependencyReady'[u]
  <2>1. dependencyReady[u] \in Nat
    BY <1>1
  <2>2. /\ indegree'[u] = IF u \in dependents[t] THEN indegree[u] - 1 ELSE indegree[u]
        /\ dependencyReady'[u] = IF u \in dependents[t]
             THEN Max2(dependencyReady[u], EndOf(t)) ELSE dependencyReady[u]
    BY DEF ExecuteTask
  <2> QED
    BY <1>2, <2>1, <2>2 DEF Max2
<1>9. TasksTyped'
  <2>1. tasks' \subseteq Tasks /\ DOMAIN ran' \subseteq Tasks /\ tasks' \cap DOMAIN ran' = {}
          /\ seen' = tasks' \cup DOMAIN ran'
    BY <1>1, <1>3, <1>4 DEF KernelInv, TasksTyped
  <2>2. ready' \subseteq tasks'
    BY <1>3, <1>5, <1>6 DEF KernelInv, TasksTyped, Freed
  <2>3. indegree' \in [Tasks -> Nat]
    <3>1. \A u \in Tasks : indegree'[u] \in Nat
      BY <1>1, <1>7, <1>8
    <3> QED
      BY <3>1 DEF ExecuteTask
  <2>4. dependencyReady' \in [Tasks -> Nat]
    BY <1>8 DEF ExecuteTask
  <2>5. leases' \in [Tasks -> Nat]
    BY <1>3 DEF Account, KernelInv, TasksTyped
  <2> QED
    BY <1>1, <1>3, <2>1, <2>2, <2>3, <2>4, <2>5 DEF TasksTyped
<1>10. LanesTyped'
  BY <1>1, <1>3, LanesGrow
<1>11. RunsTyped'
  BY <1>2, <1>4 DEF KernelInv, RunsTyped
<1>12. EndsKept'
  <2>1. DOMAIN completedEnd' = DOMAIN completedEnd \cup {t}
    BY <1>3 DEF Account
  <2>2. \A d \in DOMAIN completedEnd \cup {t} :
          completedEnd'[d] = IF d = t THEN EndOf(t) ELSE completedEnd[d]
    <3>1. completedEnd' = [u \in DOMAIN completedEnd \cup {t} |->
                             IF u = t THEN EndOf(t) ELSE completedEnd[u]]
      BY <1>3 DEF Account
    <3> QED
      BY <2>1, <3>1
  <2>3. \A d \in Tasks \ {t} : leases'[d] = leases[d]
    BY <1>3 DEF Account, KernelInv, TasksTyped
  <2>4. DOMAIN completedEnd \subseteq DOMAIN ran
          /\ \A d \in DOMAIN completedEnd : completedEnd[d] = ran[d].end
    BY DEF KernelInv, EndsKept
  <2>5. \A d \in DOMAIN completedEnd' : completedEnd'[d] = ran'[d].end
    BY <1>4, <2>1, <2>2, <2>4
  <2>6. \A d \in Tasks : leases'[d] > 0 => d \in DOMAIN completedEnd'
    BY <2>1, <2>3 DEF KernelInv, EndsKept
  <2> QED
    BY <1>4, <2>1, <2>4, <2>5, <2>6 DEF EndsKept
<1>13. CountersExact'
  <2>1. ASSUME NEW u \in tasks'
        PROVE  /\ graph.deps[u] \subseteq tasks' \cup DOMAIN ran'
               /\ indegree'[u] = Cardinality(graph.deps[u] \cap tasks')
               /\ u \in ready' <=> graph.deps[u] \cap tasks' = {}
    <3>1. u \in tasks /\ u # t /\ u \in Tasks
      BY <1>1, <1>3
    <3>2. /\ graph.deps[u] \subseteq tasks \cup DOMAIN ran
          /\ indegree[u] = Cardinality(graph.deps[u] \cap tasks)
          /\ u \in ready <=> graph.deps[u] \cap tasks = {}
      BY <3>1 DEF KernelInv, CountersExact
    <3>3. graph.deps[u] \subseteq tasks' \cup DOMAIN ran'
      BY <1>3, <1>4, <3>2
    <3>4. CASE u \in dependents[t]
      <4>1. u \in ready' <=> indegree[u] = 1
        BY <1>3, <1>7, <3>4 DEF Freed
      <4> QED
        BY <1>7, <1>8, <3>1, <3>3, <3>4, <4>1
    <3>5. CASE u \notin dependents[t]
      <4>1. graph.deps[u] \cap tasks' = graph.deps[u] \cap tasks
        BY <1>3, <1>5, <3>1, <3>5
      <4>2. u \in ready' <=> u \in ready
        BY <1>3, <3>1, <3>5 DEF Freed
      <4> QED
        BY <1>8, <3>1, <3>2, <3>3, <3>5, <4>1, <4>2
    <3> QED
      BY <3>4, <3>5
  <2> QED
    BY <1>3, <2>1 DEF CountersExact
<1>14. DependentsExact'
  <2>1. ASSUME NEW d \in Tasks \ DOMAIN ran'
        PROVE  dependents'[d] = {u \in tasks' : d \in graph.deps[u]}
    <3>1. d \in Tasks \ DOMAIN ran /\ d \notin graph.deps[t]
      BY <1>4
    <3>2. dependents[d] = {u \in tasks : d \in graph.deps[u]}
      BY <3>1 DEF KernelInv, DependentsExact
    <3> QED
      BY <1>3, <3>1, <3>2
  <2> QED
    BY <1>3, <2>1 DEF DependentsExact
<1>15. ReadyAfter'
  <2>1. ASSUME NEW u \in tasks', NEW d \in graph.deps[u] \cap DOMAIN ran'
        PROVE  ran'[d].end <= dependencyReady'[u]
    <3>1. u \in tasks /\ u \in Tasks
      BY <1>1, <1>3
    <3>2. CASE d = t
      <4>1. u \in dependents[t] /\ ran'[d].end = EndOf(t)
        BY <1>4, <1>5, <3>1, <3>2
      <4> QED
        BY <1>8, <3>1, <4>1
    <3>3. CASE d # t
      <4>1. d \in graph.deps[u] \cap DOMAIN ran /\ ran'[d].end = ran[d].end
        BY <1>4, <3>3
      <4>2. ran[d].end \in Nat /\ ran[d].end <= dependencyReady[u]
        BY <3>1, <4>1 DEF KernelInv, RunsTyped, ReadyAfter
      <4> QED
        BY <1>1, <1>8, <3>1, <4>1, <4>2
    <3> QED
      BY <3>2, <3>3
  <2> QED
    BY <1>3, <2>1 DEF ReadyAfter
<1>16. LanesHeld'
  <2>1. ASSUME NEW u \in DOMAIN ran', NEW o \in UsedBy(u)
        PROVE  /\ ran'[u].lane[o] \in 1 .. graph.capacity[o]
               /\ ran'[u].start + Service(u, o) <= lanes'[o][ran'[u].lane[o]]
    <3>1. u \in Tasks /\ o \in Owners
      BY <1>1, <1>4, GraphParts DEF KernelInv, TasksTyped
    <3>2. Service(u, o) \in Nat
      BY <1>1, <3>1, ServiceIsNat
    <3>3. CASE u = t
      <4>1. ran'[u].start = StartOf(t) /\ ran'[u].lane[o] = SelectLane(o)
        BY <1>4, <3>3
      <4>2. SelectLane(o) \in 1 .. graph.capacity[o]
        BY <1>1, <3>1, FirstFreeLane DEF KernelInv
      <4>3. lanes'[o][SelectLane(o)] = StartOf(t) + Service(t, o)
        BY <1>1, <1>3, <3>3, LanesGrow
      <4> QED
        BY <1>2, <3>2, <3>3, <4>1, <4>2, <4>3
    <3>4. CASE u # t
      <4> DEFINE lane == ran[u].lane[o]
      <4>1. u \in DOMAIN ran /\ ran'[u] = ran[u]
        BY <1>4, <3>4
      <4>2. lane \in 1 .. graph.capacity[o] /\ ran[u].start + Service(u, o) <= lanes[o][lane]
        BY <4>1 DEF KernelInv, LanesHeld
      <4>3. lanes[o][lane] <= lanes'[o][lane]
        BY <1>1, <1>3, <3>1, <4>2, LanesGrow
      <4>4. lanes[o][lane] \in Nat
        BY <3>1, <4>2 DEF KernelInv, LanesTyped
      <4>5. lanes'[o][lane] \in Nat
        BY <1>3, <1>10, <3>1, <4>2 DEF LanesTyped
      <4>6. ran[u].start \in Nat
        BY <4>1 DEF KernelInv, RunsTyped
      <4> QED
        BY <3>2, <4>1, <4>2, <4>3, <4>4, <4>5, <4>6
    <3> QED
      BY <3>3, <3>4
  <2> QED
    BY <1>3, <2>1, SameGraph DEF LanesHeld
<1> QED
  BY <1>9, <1>10, <1>11, <1>12, <1>13, <1>14, <1>15, <1>16 DEF KernelInv

\* No action of the kernel breaks the invariant.
LEMMA InvNext == KernelInv /\ [KernelNext]_kernelVars => KernelInv'
<1> SUFFICES ASSUME KernelInv, [KernelNext]_kernelVars PROVE KernelInv'
  OBVIOUS
<1>1. CASE SubmitSome
  BY <1>1, InvSubmit DEF SubmitSome
<1>2. CASE DropStale
  BY <1>2, InvIgnoresQueue DEF DropStale
<1>3. CASE Requeue
  BY <1>3, InvIgnoresQueue DEF Requeue
<1>4. CASE Step
  <2>1. PICK e \in readyHeap : Current(e) /\ ExecuteTask(Top(e.group), e)
    BY <1>4 DEF Step
  <2>2. graph' = graph
    BY <2>1 DEF ExecuteTask
  <2> QED
    BY <2>1, <2>2, NextIsReady, InvExecute
<1>5. CASE \E t \in Tasks : RetainCompleted(t)
  BY <1>5, InvRetain
<1>6. CASE \E t \in Tasks : ReleaseCompleted(t)
  BY <1>6, InvRelease
<1>7. CASE UNCHANGED kernelVars
  BY <1>7, InvIgnoresQueue DEF kernelVars
<1> QED
  BY <1>1, <1>2, <1>3, <1>4, <1>5, <1>6, <1>7 DEF KernelNext

\* The kernel's counters, timestamps and lanes are always what the graph and the
\* runs so far make them.
THEOREM KernelInvariant == KernelSpec => []KernelInv
<1>1. KernelInit => KernelInv
  BY InvAtStart
<1>2. KernelInv /\ [KernelNext]_kernelVars => KernelInv'
  BY InvNext
<1> QED
  BY <1>1, <1>2, PTL DEF KernelSpec

------------------------------------------------------------------------------
(* The kernel implements TaskGraph.                                        *)

\* A run is a placement the task graph allows: after the dependencies, on lanes
\* that are free.
LEMMA RunIsPlacement ==
  ASSUME KernelInv, NEW e \in readyHeap, Current(e), ExecuteTask(Top(e.group), e)
  PROVE  Abstract!Place(Top(e.group))
<1> DEFINE t == Top(e.group)
           p == ran'[t]
<1>1. /\ t \in ready /\ t \in tasks \ DOMAIN ran /\ t \in Tasks
      /\ graph.deps[t] \subseteq DOMAIN ran
  BY NextIsReady
<1>2. tasks' = tasks \ {t} /\ graph' = graph /\ Account(t)
  BY DEF ExecuteTask
<1> HIDE DEF t
<1>3. /\ DOMAIN ran' = DOMAIN ran \cup {t}
      /\ \A u \in DOMAIN ran : ran'[u] = ran[u]
      /\ p.start = StartOf(t) /\ p.end = EndOf(t)
      /\ \A o \in UsedBy(t) : p.lane[o] = SelectLane(o)
  BY <1>1, <1>2 DEF Account
<1> HIDE DEF p
<1>4. \A u : Abstract!Holds(u) = UsedBy(u)
  BY DEF Abstract!Holds, UsedBy, Group
<1>5. \A u, o : Abstract!HoldTime(u, o) = Service(u, o)
  BY DEF Abstract!HoldTime, Service, Group
<1>6. TasksTyped /\ LanesTyped /\ graph \in Graphs /\ UsedBy(t) \subseteq Owners
  BY <1>1, GraphParts DEF KernelInv, TasksTyped
<1>7. /\ StartOf(t) \in Nat /\ dependencyReady[t] <= StartOf(t)
      /\ graph.earliest[t] <= StartOf(t)
      /\ \A o \in UsedBy(t) : Available(o) <= StartOf(t)
  BY <1>1, <1>6, StartIsLate
<1>8. \A o \in UsedBy(t) : /\ SelectLane(o) \in 1 .. graph.capacity[o]
                           /\ lanes[o][SelectLane(o)] = Available(o)
                           /\ Available(o) \in Nat
  BY <1>6, FirstFreeLane
<1>9. Abstract!WellPlaced(t, p)
  <2>1. \A d \in graph.deps[t] : ran[d].end <= p.start
    <3> SUFFICES ASSUME NEW d \in graph.deps[t] PROVE ran[d].end <= p.start
      OBVIOUS
    <3>1. ran[d].end \in Nat /\ ran[d].end <= dependencyReady[t] /\ dependencyReady[t] \in Nat
      BY <1>1 DEF KernelInv, TasksTyped, RunsTyped, ReadyAfter
    <3> QED
      BY <1>3, <1>7, <3>1
  <2>2. /\ EndOf(t) \in Nat /\ StartOf(t) <= EndOf(t)
        /\ \A o \in UsedBy(t) : StartOf(t) + Service(t, o) <= EndOf(t)
    BY <1>1, <1>6, EndIsLate
  <2>3. graph.earliest[t] \in Nat
    BY <1>1, <1>6, GraphParts
  <2>4. p.start >= graph.earliest[t] /\ p.end >= p.start
    BY <1>3, <1>7, <2>2, <2>3
  <2>5. ASSUME NEW o \in Abstract!Holds(t)
        PROVE  /\ p.lane[o] \in 1 .. graph.capacity[o]
               /\ p.start + Abstract!HoldTime(t, o) <= p.end
    BY <1>3, <1>4, <1>5, <1>8, <2>2
  <2> QED
    BY <2>1, <2>4, <2>5 DEF Abstract!WellPlaced
<1>10. Abstract!LanesFree(t, p)
  <2> SUFFICES ASSUME NEW u \in DOMAIN ran, NEW o \in UsedBy(t) \cap UsedBy(u),
                      p.lane[o] = ran[u].lane[o]
               PROVE  ran[u].start + Service(u, o) <= p.start
    BY <1>4, <1>5 DEF Abstract!LanesFree
  <2>1. ran[u].start + Service(u, o) <= lanes[o][SelectLane(o)]
    BY <1>3 DEF KernelInv, LanesHeld
  <2>2. u \in Tasks /\ ran[u].start \in Nat
    BY DEF KernelInv, TasksTyped, RunsTyped
  <2>3. Service(u, o) \in Nat
    BY <1>6, <2>2, ServiceIsNat
  <2> QED
    BY <1>3, <1>7, <1>8, <2>1, <2>2, <2>3
<1>11. t \in (tasks \cup DOMAIN ran) \ DOMAIN ran
  BY <1>1
<1>12. (tasks \cup DOMAIN ran)' = tasks \cup DOMAIN ran
  BY <1>1, <1>2, <1>3
<1> QED
  BY <1>1, <1>2, <1>3, <1>9, <1>10, <1>11, <1>12 DEF Abstract!Place, t, p

\* What submit() accepts has its dependencies among the accepted tasks.
LEMMA SubmitIsAccept ==
  ASSUME KernelInv, NEW chunk \in SUBSET (Tasks \ seen), NEW kept \in SUBSET Tasks,
         Submit(chunk, kept)
  PROVE  Abstract!Accept
<1>1. tasks' = tasks \cup chunk /\ UNCHANGED <<graph, ran>>
  BY DEF Submit
<1>2. \A t \in chunk : graph.deps[t] \subseteq chunk \cup tasks \cup DOMAIN completedEnd
  BY DEF Submit, Admissible
<1>3. DOMAIN completedEnd \subseteq DOMAIN ran
  BY DEF KernelInv, EndsKept
<1> QED
  BY <1>1, <1>2, <1>3 DEF Abstract!Accept

\* Every step of the kernel is a step of the task graph or leaves it alone.
LEMMA StepRefines ==
  KernelInv /\ [KernelNext]_kernelVars => [Abstract!GraphNext]_(Abstract!graphVars)
<1> SUFFICES ASSUME KernelInv, [KernelNext]_kernelVars
             PROVE  Abstract!GraphNext \/ UNCHANGED Abstract!graphVars
  BY DEF Abstract!graphVars
<1>1. CASE SubmitSome
  BY <1>1, SubmitIsAccept DEF SubmitSome, Abstract!GraphNext
<1>2. CASE Step
  <2>1. PICK e \in readyHeap : Current(e) /\ ExecuteTask(Top(e.group), e)
    BY <1>2 DEF Step
  <2> QED
    BY <2>1, NextIsReady, RunIsPlacement DEF Abstract!GraphNext
<1>3. CASE UNCHANGED <<graph, tasks, ran>>
  BY <1>3 DEF Abstract!graphVars
<1>4. CASE DropStale
  BY <1>3, <1>4 DEF DropStale, graphState, doneState
<1>5. CASE Requeue
  BY <1>3, <1>5 DEF Requeue, graphState, doneState
<1>6. CASE \E t \in Tasks : RetainCompleted(t)
  BY <1>3, <1>6 DEF RetainCompleted, graphState
<1>7. CASE \E t \in Tasks : ReleaseCompleted(t)
  BY <1>3, <1>7 DEF ReleaseCompleted
<1>8. CASE UNCHANGED kernelVars
  BY <1>3, <1>8 DEF kernelVars, graphState, doneState
<1> QED
  BY <1>1, <1>2, <1>4, <1>5, <1>6, <1>7, <1>8 DEF KernelNext

\* Whatever is submitted, retained and released, and whatever order the queue takes:
\* a task runs once, after its dependencies, on lanes no other run holds.
THEOREM KernelImplementsTaskGraph == KernelSpec => ImplementsTaskGraph
<1>1. KernelInit => Abstract!GraphInit
  BY DEF KernelInit, KernelStart, Abstract!GraphInit
<1>2. KernelInv /\ [KernelNext]_kernelVars => [Abstract!GraphNext]_(Abstract!graphVars)
  BY StepRefines
<1> QED
  BY <1>1, <1>2, KernelInvariant, PTL DEF KernelSpec, ImplementsTaskGraph, Abstract!GraphSpec

------------------------------------------------------------------------------
(* The order of execution.                                                 *)

Keys == Nat \X Nat \X Nat \X Nat \X Nat
NotAfter(a, b) == a = b \/ Precedes(a, b)

\* The order of the keys is transitive, and strict between keys of other ranks.
LEMMA KeyOrder ==
  ASSUME NEW a \in Keys, NEW b \in Keys, NEW c \in Keys, NotAfter(a, b), NotAfter(b, c)
  PROVE  NotAfter(a, c)
<1>1. /\ a = <<a[1], a[2], a[3], a[4], a[5]>> /\ b = <<b[1], b[2], b[3], b[4], b[5]>>
      /\ c = <<c[1], c[2], c[3], c[4], c[5]>>
  BY DEF Keys
<1>2. \A i \in {1, 2, 3, 4, 5} : a[i] \in Nat /\ b[i] \in Nat /\ c[i] \in Nat
  BY DEF Keys
<1>3. CASE a = b \/ b = c
  BY <1>3 DEF NotAfter
<1>4. CASE Precedes(a, b) /\ Precedes(b, c)
  <2>1. Precedes(a, c)
    BY <1>1, <1>2, <1>4, PrecedesFive
  <2> QED
    BY <2>1 DEF NotAfter
<1> QED
  BY <1>3, <1>4 DEF NotAfter

\* A ready key, component by component.
LEMMA KeyParts ==
  ASSUME NEW t
  PROVE  ReadyKey(t) = <<StartOf(t), EffectiveReady(t), dependencyReady[t],
                         graph.earliest[t], graph.rank[t]>>
BY DEF ReadyKey

LEMMA KeysTyped ==
  ASSUME TasksTyped, LanesTyped, NEW t \in Tasks
  PROVE  ReadyKey(t) \in Keys
<1>1. /\ dependencyReady[t] \in Nat /\ graph.earliest[t] \in Nat
      /\ graph.rank[t] \in Nat /\ EffectiveReady(t) \in Nat
  BY GraphParts DEF TasksTyped, EffectiveReady, Max2
<1>2. StartOf(t) \in Nat
  BY StartIsLate
<1> QED
  BY <1>1, <1>2, KeyParts DEF Keys

\* The top of a group is before the group's other tasks, also by the full key: the
\* group shares its resources.
LEMMA TopIsNext ==
  ASSUME TasksTyped, LanesTyped, NEW g, NEW u \in InGroup(g), u # Top(g)
  PROVE  Precedes(ReadyKey(Top(g)), ReadyKey(u))
<1> DEFINE t == Top(g)
<1>1. t \in InGroup(g) /\ Precedes(StaticReadyKey(t), StaticReadyKey(u))
  BY TopIsLeast
<1>2. t \in Tasks /\ u \in Tasks /\ Group(t) = g /\ Group(u) = g
  BY <1>1 DEF InGroup, TasksTyped
<1> HIDE DEF t
<1>3. \A v \in {t, u} : /\ dependencyReady[v] \in Nat /\ graph.earliest[v] \in Nat
                        /\ graph.rank[v] \in Nat /\ EffectiveReady(v) \in Nat
                        /\ StartOf(v) \in Nat /\ EffectiveReady(v) <= StartOf(v)
  <2>1. \A v \in {t, u} : /\ dependencyReady[v] \in Nat /\ graph.earliest[v] \in Nat
                          /\ graph.rank[v] \in Nat /\ EffectiveReady(v) \in Nat
    BY <1>2, GraphParts DEF TasksTyped, EffectiveReady, Max2
  <2>2. \A v \in {t, u} : /\ StartOf(v) \in Nat /\ dependencyReady[v] <= StartOf(v)
                          /\ graph.earliest[v] <= StartOf(v)
    BY <1>2, StartIsLate
  <2> QED
    BY <2>1, <2>2 DEF EffectiveReady, Max2
<1>4. EffectiveReady(t) <= EffectiveReady(u)
  BY <1>1, <1>3, PrecedesFour DEF StaticReadyKey
<1>5. StartOf(t) <= StartOf(u)
  <2>1. StartOf(t) \in {EffectiveReady(t)} \cup {Available(graph.owner[l]) : l \in g}
    BY <1>2, StartIsLate
  <2>2. \A l \in g : Available(graph.owner[l]) <= StartOf(u)
    <3>1. \A l \in g : graph.owner[l] \in UsedBy(u)
      BY <1>2 DEF UsedBy
    <3> QED
      BY <1>2, <3>1, StartIsLate
  <2> QED
    BY <1>3, <1>4, <2>1, <2>2
<1>6. Precedes(ReadyKey(t), ReadyKey(u))
  <2>1. \/ EffectiveReady(t) < EffectiveReady(u)
        \/ EffectiveReady(t) = EffectiveReady(u) /\ dependencyReady[t] < dependencyReady[u]
        \/ /\ EffectiveReady(t) = EffectiveReady(u) /\ dependencyReady[t] = dependencyReady[u]
           /\ graph.earliest[t] < graph.earliest[u]
        \/ /\ EffectiveReady(t) = EffectiveReady(u) /\ dependencyReady[t] = dependencyReady[u]
           /\ graph.earliest[t] = graph.earliest[u] /\ graph.rank[t] < graph.rank[u]
    BY <1>1, PrecedesFour DEF StaticReadyKey
  <2>2. StartOf(t) < StartOf(u) \/ StartOf(t) = StartOf(u)
    BY <1>3, <1>5
  <2>3. Precedes(<<StartOf(t), EffectiveReady(t), dependencyReady[t], graph.earliest[t],
                   graph.rank[t]>>,
                 <<StartOf(u), EffectiveReady(u), dependencyReady[u], graph.earliest[u],
                   graph.rank[u]>>)
    BY <2>1, <2>2, PrecedesFive
  <2> QED
    BY <2>3, KeyParts
<1> QED
  BY <1>6 DEF t

\* What holds of lanes, starts and tops in every state of the kernel, in the form
\* the next state needs.
KernelFacts ==
  /\ \A o \in Owners : \E i \in 1 .. graph.capacity[o] : lanes[o][i] = Available(o)
  /\ \A t \in Tasks : /\ ReadyKey(t) \in Keys
                      /\ StartOf(t) \in Nat /\ EffectiveReady(t) <= StartOf(t)
                      /\ \A o \in UsedBy(t) : Available(o) <= StartOf(t)
  /\ \A g \in Groups : InGroup(g) # {} => /\ Top(g) \in InGroup(g) /\ Top(g) \in Tasks
                                           /\ ReadyKey(Top(g)) \in Keys
                                           /\ \A u \in InGroup(g) \ {Top(g)} :
                                                Precedes(StaticReadyKey(Top(g)),
                                                         StaticReadyKey(u))

LEMMA FactsHold == KernelInv => KernelFacts
<1> SUFFICES ASSUME KernelInv PROVE KernelFacts
  OBVIOUS
<1>1. TasksTyped /\ LanesTyped /\ graph \in Graphs
  BY DEF KernelInv, TasksTyped
<1>2. \A o \in Owners : \E i \in 1 .. graph.capacity[o] : lanes[o][i] = Available(o)
  BY <1>1, FirstFreeLane
<1>3. ASSUME NEW t \in Tasks
      PROVE  /\ ReadyKey(t) \in Keys /\ StartOf(t) \in Nat
             /\ EffectiveReady(t) <= StartOf(t)
             /\ \A o \in UsedBy(t) : Available(o) <= StartOf(t)
  <2>1. EffectiveReady(t) <= StartOf(t)
    BY <1>1, StartIsLate DEF EffectiveReady, Max2
  <2> QED
    BY <1>1, <2>1, StartIsLate, KeysTyped
<1>4. ASSUME NEW g \in Groups, InGroup(g) # {}
      PROVE  /\ Top(g) \in InGroup(g) /\ Top(g) \in Tasks /\ ReadyKey(Top(g)) \in Keys
             /\ \A u \in InGroup(g) \ {Top(g)} :
                  Precedes(StaticReadyKey(Top(g)), StaticReadyKey(u))
  <2>1. /\ Top(g) \in InGroup(g) /\ Top(g) \in Tasks
        /\ \A u \in InGroup(g) \ {Top(g)} :
             Precedes(StaticReadyKey(Top(g)), StaticReadyKey(u))
    BY <1>1, <1>4, TopIsLeast DEF InGroup, TasksTyped
  <2> QED
    BY <1>3, <2>1
<1> QED
  BY <1>2, <1>3, <1>4 DEF KernelFacts

\* When lanes only move forward, the key of a task whose dependencies do not
\* change only moves forward.
LEMMA KeyGrows ==
  ASSUME KernelInv, KernelInv', graph' = graph, NEW t \in Tasks,
         dependencyReady'[t] = dependencyReady[t],
         \A o \in Owners : \A i \in 1 .. graph.capacity[o] : lanes[o][i] <= lanes'[o][i]
  PROVE  NotAfter(ReadyKey(t), ReadyKey(t)')
<1>1. KernelFacts /\ KernelFacts'
  BY FactsHold, PTL
<1>2. /\ TasksTyped /\ LanesTyped /\ graph \in Graphs
      /\ UsedBy(t) \subseteq Owners /\ UsedBy(t)' = UsedBy(t) /\ Group(t)' = Group(t)
  BY GraphParts, SameGraph DEF KernelInv, TasksTyped
<1>3. ASSUME NEW o \in UsedBy(t) PROVE Available(o) <= StartOf(t)' /\ Available(o) \in Nat
  <2>1. o \in Owners
    BY <1>2
  <2>2. PICK i \in 1 .. graph.capacity[o] : lanes'[o][i] = Available(o)'
    BY <1>1, <2>1 DEF KernelFacts
  <2>3. Available(o) <= lanes[o][i] /\ lanes[o][i] <= lanes'[o][i]
    BY <1>2, <2>1, FirstFreeLane
  <2>4. Available(o)' <= StartOf(t)'
    BY <1>1, <1>2 DEF KernelFacts
  <2>5. Available(o) \in Nat /\ lanes[o][i] \in Nat /\ lanes'[o][i] \in Nat /\ StartOf(t)' \in Nat
    <3>1. Available(o) \in Nat
      BY <1>2, <2>1, FirstFreeLane
    <3>2. StartOf(t)' \in Nat
      BY <1>1 DEF KernelFacts
    <3>3. lanes[o][i] \in Nat
      BY <1>2, <2>1 DEF LanesTyped
    <3>4. lanes'[o][i] \in Nat
      BY <2>1 DEF KernelInv, LanesTyped
    <3> QED
      BY <3>1, <3>2, <3>3, <3>4
  <2> QED
    BY <2>2, <2>3, <2>4, <2>5
<1>4. EffectiveReady(t)' = EffectiveReady(t)
  BY DEF EffectiveReady
<1>5. StartOf(t) <= StartOf(t)' /\ StartOf(t) \in Nat /\ StartOf(t)' \in Nat
  <2>1. StartOf(t) \in {EffectiveReady(t)} \cup {Available(graph.owner[l]) : l \in Group(t)}
    BY <1>2, StartIsLate
  <2>2. \A l \in Group(t) : Available(graph.owner[l]) <= StartOf(t)'
    BY <1>3 DEF UsedBy
  <2>3. EffectiveReady(t) <= StartOf(t)'
    BY <1>1, <1>4 DEF KernelFacts
  <2>4. StartOf(t) \in Nat /\ StartOf(t)' \in Nat
    BY <1>1 DEF KernelFacts
  <2> QED
    BY <2>1, <2>2, <2>3, <2>4
<1>6. ReadyKey(t) = <<StartOf(t), EffectiveReady(t), dependencyReady[t],
                      graph.earliest[t], graph.rank[t]>>
  BY KeyParts
<1>7. ReadyKey(t)' = <<StartOf(t)', EffectiveReady(t), dependencyReady[t],
                       graph.earliest[t], graph.rank[t]>>
  BY <1>4 DEF ReadyKey
<1> QED
  BY <1>5, <1>6, <1>7, PrecedesFive DEF NotAfter

\* Every group with ready tasks is in the queue, under its current version, and
\* not after its place: an old key is a lower bound.
Queued(g) ==
  \E e \in readyHeap : /\ e.group = g /\ e.version = groupVersion[g]
                       /\ NotAfter(e.key, ReadyKey(Top(g)))
QueueInv ==
  /\ \A e \in readyHeap : e.group \in Groups /\ e.key \in Keys
  /\ \A g \in Groups : InGroup(g) # {} => Queued(g)

\* A group that is refreshed is queued with the key of its top.
LEMMA RefreshedIsQueued ==
  ASSUME KernelInv', graph' = graph, NEW G \in SUBSET Groups, NEW heap,
         RefreshGroups(G, heap),
         \A e \in heap : e.group \in Groups /\ e.key \in Keys
  PROVE  /\ \A e \in readyHeap' : e.group \in Groups' /\ e.key \in Keys
         /\ \A g \in G : InGroup(g)' # {} => Queued(g)'
         /\ \A g \in Groups \ G : groupVersion'[g] = groupVersion[g]
         /\ heap \subseteq readyHeap'
<1>1. Groups' = Groups
  BY SameGraph DEF Groups
<1>2. KernelFacts'
  BY FactsHold, PTL
<1>3. ASSUME NEW g \in G, InGroup(g)' # {}
      PROVE  /\ QueuedTop(g)' \in readyHeap' /\ QueuedTop(g)'.group = g
             /\ QueuedTop(g)'.version = groupVersion'[g]
             /\ QueuedTop(g)'.key = ReadyKey(Top(g))' /\ QueuedTop(g)'.key \in Keys
  <2>1. QueuedTop(g)' = [key |-> ReadyKey(Top(g))', group |-> g, version |-> groupVersion'[g]]
    BY DEF QueuedTop
  <2>2. ReadyKey(Top(g))' \in Keys
    BY <1>1, <1>2, <1>3 DEF KernelFacts, Keys
  <2>3. QueuedTop(g)' \in readyHeap'
    BY <1>3 DEF RefreshGroups
  <2> QED
    BY <2>1, <2>2, <2>3
<1>4. readyHeap' = heap \cup {QueuedTop(g)' : g \in {h \in G : InGroup(h)' # {}}}
  BY DEF RefreshGroups
<1>5. \A e \in readyHeap' : e.group \in Groups' /\ e.key \in Keys
  BY <1>1, <1>3, <1>4
<1>6. \A g \in G : InGroup(g)' # {} => Queued(g)'
  BY <1>3 DEF NotAfter, Queued
<1>7. \A g \in Groups \ G : groupVersion'[g] = groupVersion[g]
  BY DEF RefreshGroups
<1> QED
  BY <1>4, <1>5, <1>6, <1>7

\* A group that keeps its entry and its version stays queued when the key of its
\* top does not move back.
LEMMA StillQueued ==
  ASSUME KernelInv, KernelInv', QueueInv, graph' = graph,
         NEW g \in Groups,
         InGroup(g) # {}, InGroup(g)' # {}, Top(g)' = Top(g),
         NotAfter(ReadyKey(Top(g)), ReadyKey(Top(g))'),
         groupVersion'[g] = groupVersion[g],
         \A e \in readyHeap \ readyHeap' : e.group = g => e.version # groupVersion[g]
  PROVE  Queued(g)'
<1>1. Groups' = Groups
  BY SameGraph DEF Groups
<1>2. KernelFacts /\ KernelFacts'
  BY FactsHold, PTL
<1>3. ReadyKey(Top(g)) \in Keys /\ ReadyKey(Top(g))' \in Keys
  BY <1>1, <1>2 DEF KernelFacts, Keys
<1>4. PICK e \in readyHeap : /\ e.group = g /\ e.version = groupVersion[g]
                             /\ NotAfter(e.key, ReadyKey(Top(g)))
  BY DEF QueueInv, Queued
<1>5. e \in readyHeap' /\ e.key \in Keys
  BY <1>4 DEF QueueInv
<1>6. NotAfter(e.key, ReadyKey(Top(g))')
  BY <1>3, <1>4, <1>5, KeyOrder
<1> QED
  BY <1>4, <1>5, <1>6 DEF Queued

\* Of a task that is the top of its group in both states, the key of the top is its key.
LEMMA KeyOfTop ==
  ASSUME NEW g, NEW t, Top(g) = t, Top(g)' = t
  PROVE  ReadyKey(Top(g)) = ReadyKey(t) /\ ReadyKey(Top(g))' = ReadyKey(t)'
<1>1. ReadyKey(Top(g)) = ReadyKey(t)
  OBVIOUS
<1>2. Group(Top(g))' = Group(t)'
  BY DEF Group
<1>3. EffectiveReady(Top(g))' = EffectiveReady(t)'
  BY DEF EffectiveReady
<1>4. StartOf(Top(g))' = StartOf(t)'
  BY <1>2, <1>3, Zenon DEF StartOf
<1>5. ReadyKey(Top(g))' = ReadyKey(t)'
  BY <1>3, <1>4 DEF ReadyKey
<1> QED
  BY <1>1, <1>5

\* The top of a group that is not refreshed is the same task, and its key does not
\* move back.
LEMMA TopMovesOn ==
  ASSUME KernelInv, KernelInv', graph' = graph,
         NEW New \in SUBSET Tasks, NEW g \in Groups, g \notin Retopped(New),
         InGroup(g)' # {},
         \A u \in Tasks : Group(u) = g => (u \in ready' <=> u \in ready \cup New),
         \A u \in ready : dependencyReady'[u] = dependencyReady[u],
         \A o \in Owners : \A i \in 1 .. graph.capacity[o] : lanes[o][i] <= lanes'[o][i]
  PROVE  /\ InGroup(g) # {} /\ Top(g)' = Top(g)
         /\ NotAfter(ReadyKey(Top(g)), ReadyKey(Top(g))')
<1>1. Groups' = Groups /\ ready \subseteq Tasks /\ ready' \subseteq Tasks
  BY SameGraph DEF Groups, KernelInv, TasksTyped
<1>2. InGroup(g)' = {u \in ready' : Group(u) = g}
  BY SameGraph DEF InGroup
<1>3. KernelFacts /\ KernelFacts'
  BY FactsHold, PTL
<1>4. InGroup(g) # {} /\ Top(g)' = Top(g)
  <2>1. CASE g \in {Group(t) : t \in New}
    BY <2>1 DEF Retopped
  <2>2. CASE g \notin {Group(t) : t \in New}
    <3>1. InGroup(g)' = InGroup(g)
      BY <1>1, <1>2, <2>2 DEF InGroup
    <3>2. InGroup(g) # {}
      BY <3>1
    <3>3. PICK t \in InGroup(g) : t = Top(g)
      BY <1>3, <3>2 DEF KernelFacts
    <3>4. PICK u \in InGroup(g) : u = Top(g)'
      BY <1>1, <1>3, <3>1 DEF KernelFacts
    <3>5. ASSUME t # u PROVE FALSE
      <4>1. Precedes(StaticReadyKey(t), StaticReadyKey(u))
        BY <1>3, <3>3, <3>2, <3>4, <3>5, TopIsLeast DEF KernelInv
      <4>2. \A v \in InGroup(g)' \ {Top(g)'} :
               Precedes(StaticReadyKey(Top(g))', StaticReadyKey(v)')
        BY <1>1, <1>3 DEF KernelFacts
      <4>3. StaticReadyKey(Top(g))' = StaticReadyKey(u)'
        BY <3>4 DEF StaticReadyKey, EffectiveReady
      <4>4. \A v \in InGroup(g) : StaticReadyKey(v)' = StaticReadyKey(v)
        BY DEF StaticReadyKey, EffectiveReady, InGroup
      <4>5. Precedes(StaticReadyKey(u), StaticReadyKey(t))
        BY <3>1, <3>3, <3>4, <3>5, <4>2, <4>3, <4>4
      <4>6. \A v \in {t, u} : /\ dependencyReady[v] \in Nat /\ graph.earliest[v] \in Nat
                              /\ graph.rank[v] \in Nat /\ EffectiveReady(v) \in Nat
        <5>1. t \in Tasks /\ u \in Tasks
          BY <1>1 DEF InGroup
        <5> QED
          BY <5>1, GraphParts DEF KernelInv, TasksTyped, EffectiveReady, Max2
      <4> QED
        BY <4>1, <4>5, <4>6, PrecedesFour DEF StaticReadyKey
    <3> QED
      BY <3>2, <3>3, <3>4, <3>5
  <2> QED
    BY <2>1, <2>2
<1>5. PICK t \in Tasks : t = Top(g) /\ t \in ready
  BY <1>3, <1>4 DEF KernelFacts, InGroup
<1>6. NotAfter(ReadyKey(t), ReadyKey(t)')
  BY <1>5, KeyGrows
<1>7. ReadyKey(Top(g)) = ReadyKey(t) /\ ReadyKey(Top(g))' = ReadyKey(t)'
  BY <1>4, <1>5, KeyOfTop
<1> QED
  BY <1>4, <1>6, <1>7

\* The queue stays a queue of lower bounds when the groups of G are refreshed, the
\* others keep their entries, and what gets ready elsewhere changes no top.
LEMMA QueueKept ==
  ASSUME KernelInv, KernelInv', QueueInv, graph' = graph,
         NEW New \in SUBSET Tasks, NEW G \in SUBSET Groups, Retopped(New) \subseteq G,
         \A u \in Tasks : Group(u) \notin G => (u \in ready' <=> u \in ready \cup New),
         \A u \in ready : dependencyReady'[u] = dependencyReady[u],
         \A o \in Owners : \A i \in 1 .. graph.capacity[o] : lanes[o][i] <= lanes'[o][i],
         \A e \in readyHeap' : e.group \in Groups' /\ e.key \in Keys,
         \A g \in G : InGroup(g)' # {} => Queued(g)',
         \A g \in Groups \ G : groupVersion'[g] = groupVersion[g],
         \A e \in readyHeap \ readyHeap' : e.group \in G \/ Stale(e)
  PROVE  QueueInv'
<1>1. Groups' = Groups
  BY SameGraph DEF Groups
<1>2. ASSUME NEW g \in Groups \ G, InGroup(g)' # {}
      PROVE  Queued(g)'
  <2>1. /\ InGroup(g) # {} /\ Top(g)' = Top(g)
        /\ NotAfter(ReadyKey(Top(g)), ReadyKey(Top(g))')
    BY <1>2, TopMovesOn
  <2>2. \A e \in readyHeap \ readyHeap' : e.group = g => e.version # groupVersion[g]
    BY <2>1 DEF Stale
  <2> QED
    BY <1>2, <2>1, <2>2, StillQueued
<1>3. \A g \in Groups' : InGroup(g)' # {} => Queued(g)'
  BY <1>1, <1>2
<1> QED
  BY <1>3 DEF QueueInv

\* Steps that leave the lanes alone do not move them back.
LEMMA LanesStay ==
  ASSUME KernelInv, lanes' = lanes
  PROVE  \A o \in Owners : \A i \in 1 .. graph.capacity[o] : lanes[o][i] <= lanes'[o][i]
<1>1. \A o \in Owners : \A i \in 1 .. graph.capacity[o] : lanes[o][i] \in Nat
  BY DEF KernelInv, LanesTyped
<1> QED
  BY <1>1

\* A step that changes neither tasks nor lanes nor the queue keeps the queue, also
\* when it drops a stale entry.
LEMMA QueueOfSame ==
  ASSUME KernelInv, KernelInv', QueueInv,
         UNCHANGED <<graph, dependencyReady, ready, lanes, groupVersion>>,
         readyHeap' \subseteq readyHeap, \A e \in readyHeap \ readyHeap' : Stale(e)
  PROVE  QueueInv'
<1>1. Groups' = Groups
  BY SameGraph DEF Groups
<1>2. Retopped({}) = {}
  BY DEF Retopped
<1>3. \A e \in readyHeap' : e.group \in Groups' /\ e.key \in Keys
  BY <1>1 DEF QueueInv
<1>4. \A o \in Owners : \A i \in 1 .. graph.capacity[o] : lanes[o][i] <= lanes'[o][i]
  BY LanesStay
<1> DEFINE none == {}
<1>5. none \in SUBSET Tasks /\ none \in SUBSET Groups /\ Retopped(none) \subseteq none
  BY <1>2
<1>6. /\ \A u \in Tasks : Group(u) \notin none => (u \in ready' <=> u \in ready \cup none)
      /\ \A u \in ready : dependencyReady'[u] = dependencyReady[u]
      /\ \A g \in none : InGroup(g)' # {} => Queued(g)'
      /\ \A g \in Groups \ none : groupVersion'[g] = groupVersion[g]
      /\ \A e \in readyHeap \ readyHeap' : e.group \in none \/ Stale(e)
  OBVIOUS
<1> HIDE DEF none
<1> QED
  BY <1>3, <1>4, <1>5, <1>6, QueueKept

LEMMA QueueSubmit ==
  ASSUME KernelInv, KernelInv', QueueInv, NEW chunk \in SUBSET (Tasks \ seen),
         NEW kept \in SUBSET Tasks, Submit(chunk, kept)
  PROVE  QueueInv'
<1> DEFINE New == {t \in chunk : Unresolved(t) = {}}
           G == Retopped(New)
<1>1. graph' = graph /\ lanes' = lanes /\ ready' = ready \cup New
  BY DEF Submit
<1>2. chunk \subseteq Tasks /\ chunk \cap ready = {} /\ ready \subseteq Tasks
  BY DEF KernelInv, TasksTyped
<1>3. New \in SUBSET Tasks
  BY <1>2
<1>4. RefreshGroups(G, readyHeap)
  BY DEF Submit
<1>5. \A u \in ready : dependencyReady'[u] = dependencyReady[u]
  BY <1>2 DEF Submit
<1> HIDE DEF New
<1>6. G \in SUBSET Groups /\ Retopped(New) \subseteq G
  BY <1>3 DEF Retopped, Groups
<1> HIDE DEF G
<1>7. \A e \in readyHeap : e.group \in Groups /\ e.key \in Keys
  BY DEF QueueInv
<1>8. /\ \A e \in readyHeap' : e.group \in Groups' /\ e.key \in Keys
      /\ \A g \in G : InGroup(g)' # {} => Queued(g)'
      /\ \A g \in Groups \ G : groupVersion'[g] = groupVersion[g]
      /\ readyHeap \subseteq readyHeap'
  BY <1>1, <1>4, <1>6, <1>7, RefreshedIsQueued
<1>9. \A u \in Tasks : Group(u) \notin G => (u \in ready' <=> u \in ready \cup New)
  BY <1>1
<1>10. \A o \in Owners : \A i \in 1 .. graph.capacity[o] : lanes[o][i] <= lanes'[o][i]
  BY <1>1, LanesStay
<1> QED
  BY <1>1, <1>3, <1>5, <1>6, <1>8, <1>9, <1>10, QueueKept

LEMMA QueueRequeue ==
  ASSUME KernelInv, KernelInv', QueueInv, Requeue
  PROVE  QueueInv'
<1>1. PICK e \in readyHeap : RefreshGroups({e.group}, readyHeap \ {e})
  BY DEF Requeue
<1>2. UNCHANGED <<graph, dependencyReady, ready, lanes>>
  BY DEF Requeue, graphState, doneState
<1> DEFINE G == {e.group}
           none == {}
           heap == readyHeap \ {e}
<1>3. G \in SUBSET Groups /\ \A f \in heap : f.group \in Groups /\ f.key \in Keys
  BY DEF QueueInv
<1>4. none \in SUBSET Tasks /\ Retopped(none) \subseteq G
  BY DEF Retopped
<1>5. \A u \in Tasks : Group(u) \notin G => (u \in ready' <=> u \in ready \cup none)
  BY <1>2
<1>6. RefreshGroups(G, heap) /\ e.group \in G /\ readyHeap \ heap \subseteq {e}
  BY <1>1
<1> HIDE DEF G, none, heap
<1>7. /\ \A f \in readyHeap' : f.group \in Groups' /\ f.key \in Keys
      /\ \A g \in G : InGroup(g)' # {} => Queued(g)'
      /\ \A g \in Groups \ G : groupVersion'[g] = groupVersion[g]
      /\ heap \subseteq readyHeap'
  BY <1>2, <1>3, <1>6, RefreshedIsQueued
<1>8. \A f \in readyHeap \ readyHeap' : f.group \in G
  BY <1>6, <1>7
<1>9. \A o \in Owners : \A i \in 1 .. graph.capacity[o] : lanes[o][i] <= lanes'[o][i]
  BY <1>2, LanesStay
<1> QED
  BY <1>2, <1>3, <1>4, <1>5, <1>7, <1>8, <1>9, QueueKept

LEMMA QueueStep ==
  ASSUME KernelInv, KernelInv', QueueInv, NEW e \in readyHeap, Current(e),
         ExecuteTask(Top(e.group), e)
  PROVE  QueueInv'
<1> DEFINE t == Top(e.group)
           New == Freed(t)
           G == {Group(t)} \cup Retopped(New)
           heap == readyHeap \ {e}
<1>1. t \in Tasks /\ t \in tasks \ DOMAIN ran /\ t \in ready
  BY NextIsReady
<1>2. Group(t) = e.group
  BY TopIsLeast DEF KernelInv, Current, Stale, InGroup
<1>3. /\ graph' = graph /\ Account(t) /\ ready' = (ready \ {t}) \cup New
      /\ RefreshGroups(G, heap)
  BY DEF ExecuteTask
<1>4. New \subseteq dependents[t] /\ dependents[t] = {u \in tasks : t \in graph.deps[u]}
  BY <1>1 DEF Freed, KernelInv, DependentsExact
<1>5. ready \subseteq tasks /\ tasks \subseteq Tasks
  BY DEF KernelInv, TasksTyped
<1>6. \A u \in ready : u \notin dependents[t]
  BY <1>1, <1>4, <1>5 DEF KernelInv, CountersExact
<1>7. \A u \in ready : dependencyReady'[u] = dependencyReady[u]
  BY <1>5, <1>6 DEF ExecuteTask
<1>8. New \in SUBSET Tasks
  BY <1>4, <1>5
<1> HIDE DEF New
<1>9. G \in SUBSET Groups /\ Retopped(New) \subseteq G
  BY <1>1, <1>8 DEF Retopped, Groups
<1>10. \A u \in Tasks : Group(u) \notin G => (u \in ready' <=> u \in ready \cup New)
  BY <1>3
<1>11. e.group \in G /\ readyHeap \ heap \subseteq {e}
         /\ \A f \in heap : f.group \in Groups /\ f.key \in Keys
  BY <1>2 DEF QueueInv
<1> HIDE DEF G, heap
<1>12. /\ \A f \in readyHeap' : f.group \in Groups' /\ f.key \in Keys
       /\ \A g \in G : InGroup(g)' # {} => Queued(g)'
       /\ \A g \in Groups \ G : groupVersion'[g] = groupVersion[g]
       /\ heap \subseteq readyHeap'
  BY <1>3, <1>9, <1>11, RefreshedIsQueued
<1>13. \A f \in readyHeap \ readyHeap' : f.group \in G
  BY <1>11, <1>12
<1>14. \A o \in Owners : \A i \in 1 .. graph.capacity[o] : lanes[o][i] <= lanes'[o][i]
  BY <1>1, <1>3, LanesGrow
<1> QED
  BY <1>3, <1>7, <1>8, <1>9, <1>10, <1>12, <1>13, <1>14, QueueKept

LEMMA QueueNext ==
  ASSUME KernelInv, KernelInv', QueueInv, [KernelNext]_kernelVars
  PROVE  QueueInv'
<1>1. CASE SubmitSome
  BY <1>1, QueueSubmit DEF SubmitSome
<1>2. CASE DropStale
  <2>1. PICK e \in readyHeap : Stale(e) /\ readyHeap' = readyHeap \ {e}
    BY <1>2 DEF DropStale
  <2>2. UNCHANGED <<graph, dependencyReady, ready, lanes, groupVersion>>
    BY <1>2 DEF DropStale, graphState, doneState
  <2>3. readyHeap' \subseteq readyHeap /\ \A f \in readyHeap \ readyHeap' : Stale(f)
    BY <2>1
  <2> QED
    BY <2>2, <2>3, QueueOfSame
<1>3. CASE Requeue
  BY <1>3, QueueRequeue
<1>4. CASE Step
  BY <1>4, QueueStep DEF Step
<1>5. CASE UNCHANGED <<graph, dependencyReady, ready, lanes, groupVersion, readyHeap>>
  <2>1. readyHeap' \subseteq readyHeap /\ \A f \in readyHeap \ readyHeap' : Stale(f)
    BY <1>5
  <2> QED
    BY <1>5, <2>1, QueueOfSame
<1>6. CASE \E t \in Tasks : RetainCompleted(t)
  BY <1>5, <1>6 DEF RetainCompleted, graphState, queueState
<1>7. CASE \E t \in Tasks : ReleaseCompleted(t)
  BY <1>5, <1>7 DEF ReleaseCompleted, queueState
<1>8. CASE UNCHANGED kernelVars
  BY <1>5, <1>8 DEF kernelVars, graphState, queueState, doneState
<1> QED
  BY <1>1, <1>2, <1>3, <1>4, <1>6, <1>7, <1>8 DEF KernelNext

\* The task whose entry is first and current is before every other ready task: an
\* entry of another group is at most its group's key.
LEMMA FirstIsLeast ==
  ASSUME KernelInv, QueueInv, NEW e \in readyHeap, Foremost(e), Current(e),
         NEW u \in ready, u # Top(e.group)
  PROVE  Precedes(ReadyKey(Top(e.group)), ReadyKey(u))
<1>1. TasksTyped /\ LanesTyped /\ graph \in Graphs /\ u \in Tasks
  BY DEF KernelInv, TasksTyped
<1>2. Top(e.group) \in Tasks
  BY NextIsReady
<1> DEFINE g == Group(u)
           t == Top(e.group)
<1>3. u \in InGroup(g) /\ g \in Groups
  BY <1>1 DEF InGroup, Groups
<1>4. CASE g = e.group
  BY <1>1, <1>3, <1>4, TopIsNext
<1>5. CASE g # e.group
  <2>1. PICK f \in readyHeap : f.group = g /\ NotAfter(f.key, ReadyKey(Top(g)))
    BY <1>3 DEF QueueInv, Queued
  <2>2. NotAfter(e.key, f.key)
    BY <1>5, <2>1 DEF Foremost, Sooner, NotAfter
  <2>3. NotAfter(ReadyKey(Top(g)), ReadyKey(u))
    BY <1>1, <1>3, TopIsNext DEF NotAfter
  <2>4. e.key = ReadyKey(t) /\ e.key \in Keys /\ f.key \in Keys
    BY DEF Current, QueueInv
  <2>5. Top(g) \in Tasks
    <3>1. Top(g) \in InGroup(g)
      BY <1>1, <1>3, TopIsLeast
    <3> QED
      BY <1>1, <3>1 DEF InGroup, TasksTyped
  <2>6. ReadyKey(Top(g)) \in Keys /\ ReadyKey(u) \in Keys
    BY <1>1, <2>5, KeysTyped
  <2>7. NotAfter(ReadyKey(t), ReadyKey(u))
    BY <2>1, <2>2, <2>3, <2>4, <2>6, KeyOrder
  <2>8. ReadyKey(t)[5] = graph.rank[t] /\ ReadyKey(u)[5] = graph.rank[u]
    BY KeyParts
  <2>9. graph.rank[t] # graph.rank[u]
    BY <1>1, <1>2, GraphParts
  <2> QED
    BY <2>7, <2>8, <2>9 DEF NotAfter
<1> QED
  BY <1>4, <1>5

\* Whatever the queue still holds of earlier moments, step() runs the task that is
\* first now: by its start, its readiness, its earliest start and its rank.
THEOREM KernelRunsLeastFirst == KernelSpec => LeastKeyFirst
<1>1. KernelInit => QueueInv
  BY DEF KernelInit, KernelStart, QueueInv, InGroup
<1>2. KernelInv /\ KernelInv' /\ QueueInv /\ [KernelNext]_kernelVars => QueueInv'
  BY QueueNext
<1>3. KernelInv /\ QueueInv /\ [KernelNext]_kernelVars =>
        [\A t \in DOMAIN ran' \ DOMAIN ran : \A u \in ready \ {t} :
           Precedes(ReadyKey(t), ReadyKey(u))]_kernelVars
  <2> SUFFICES ASSUME KernelInv, QueueInv, KernelNext,
                      NEW t \in DOMAIN ran' \ DOMAIN ran, NEW u \in ready \ {t}
               PROVE  Precedes(ReadyKey(t), ReadyKey(u))
    OBVIOUS
  <2>1. Step
    <3>1. SubmitSome => ran' = ran
      BY DEF SubmitSome, Submit
    <3>2. DropStale \/ Requeue => ran' = ran
      BY DEF DropStale, Requeue, doneState
    <3>3. (\E v \in Tasks : RetainCompleted(v) \/ ReleaseCompleted(v)) => ran' = ran
      BY DEF RetainCompleted, ReleaseCompleted
    <3> QED
      BY <3>1, <3>2, <3>3 DEF KernelNext
  <2>2. PICK e \in readyHeap : Foremost(e) /\ Current(e) /\ ExecuteTask(Top(e.group), e)
    BY <2>1 DEF Step
  <2>3. t = Top(e.group)
    BY <2>2 DEF ExecuteTask, Account
  <2> QED
    BY <2>2, <2>3, FirstIsLeast
<1> QED
  BY <1>1, <1>2, <1>3, KernelInvariant, PTL DEF KernelSpec, LeastKeyFirst

------------------------------------------------------------------------------
(* The schedule of the complete graph.                                     *)

\* A set of naturals that has 0, and with each number the next, has them all.
LEMMA AllNaturals ==
  ASSUME NEW Good \in SUBSET Nat, 0 \in Good, \A n \in Good : n + 1 \in Good
  PROVE  Good = Nat
<1> SUFFICES ASSUME NEW k \in Nat, k \notin Good PROVE FALSE
  OBVIOUS
<1> DEFINE S == {n \in 0 .. k : n \notin Good}
<1>1. S \in SUBSET Int /\ S # {} /\ IsFiniteSet(S)
  <2>1. IsFiniteSet(0 .. k) /\ S \subseteq 0 .. k
    BY FS_Interval
  <2> QED
    BY <2>1, FS_Subset
<1>2. PICK m \in S : \A n \in S : m <= n
  <2> HIDE DEF S
  <2> QED
    BY <1>1, LeastInteger
<1>3. m \in Nat /\ m # 0 /\ m - 1 \in 0 .. k /\ m - 1 \in Nat /\ m - 1 + 1 = m
  OBVIOUS
<1>4. m - 1 \in Good
  BY <1>2, <1>3
<1> QED
  BY <1>2, <1>3, <1>4

Unstarted == [ran |-> [t \in {} |-> 0],
              lanes |-> [o \in Owners |-> [i \in 1 .. graph.capacity[o] |-> 0]]]
After(s) == PlaceIn(s, First(s))
IsScheduleUpTo(f, m) ==
  f = [n \in 0 .. m |-> IF n = 0 THEN Unstarted ELSE After(f[n - 1])]

\* The recursive definition of the schedule defines a function.
LEMMA ScheduleExists ==
  ASSUME NEW k \in Nat
  PROVE  \E f : IsScheduleUpTo(f, k)
<1> DEFINE Good == {m \in Nat : \E f : IsScheduleUpTo(f, m)}
<1>1. 0 \in Good
  <2> DEFINE f == [n \in 0 .. 0 |-> Unstarted]
  <2>1. f = [n \in 0 .. 0 |-> IF n = 0 THEN Unstarted ELSE After(f[n - 1])]
    OBVIOUS
  <2> QED
    BY <2>1 DEF IsScheduleUpTo
<1>2. ASSUME NEW m \in Good PROVE m + 1 \in Good
  <2>1. PICK f : IsScheduleUpTo(f, m)
    OBVIOUS
  <2>2. f = [n \in 0 .. m |-> IF n = 0 THEN Unstarted ELSE After(f[n - 1])]
    BY <2>1 DEF IsScheduleUpTo
  <2> DEFINE g == [n \in 0 .. m + 1 |-> IF n = m + 1 THEN After(f[m]) ELSE f[n]]
  <2>3. ASSUME NEW n \in 0 .. m + 1
        PROVE  g[n] = IF n = 0 THEN Unstarted ELSE After(g[n - 1])
    <3>1. CASE n = m + 1
      <4>1. g[n] = After(f[m]) /\ g[n - 1] = f[m] /\ n # 0
        BY <3>1
      <4> QED
        BY <4>1, Zenon
    <3>2. CASE n # m + 1
      <4>1. n \in 0 .. m /\ g[n] = f[n]
        BY <3>2
      <4>2. n # 0 => g[n - 1] = f[n - 1]
        BY <3>2
      <4>3. f[n] = IF n = 0 THEN Unstarted ELSE After(f[n - 1])
        BY <2>2, <4>1
      <4> QED
        BY <4>1, <4>2, <4>3, Zenon
    <3> QED
      BY <3>1, <3>2
  <2>4. g = [n \in 0 .. m + 1 |-> IF n = 0 THEN Unstarted ELSE After(g[n - 1])]
    <3>1. g = [n \in 0 .. m + 1 |-> g[n]]
      OBVIOUS
    <3> HIDE DEF g
    <3> QED
      BY <2>3, <3>1
  <2> HIDE DEF g
  <2>5. \E h : IsScheduleUpTo(h, m + 1)
    BY <2>4 DEF IsScheduleUpTo
  <2> QED
    BY <2>5
<1> HIDE DEF Good
<1>3. Good = Nat
  <2>1. Good \in SUBSET Nat
    BY DEF Good
  <2> QED
    BY <1>1, <1>2, <2>1, AllNaturals
<1> QED
  BY <1>3 DEF Good

LEMMA TaskCount == Cardinality(Tasks) \in Nat
BY TasksFinite, FS_CardinalityType

\* So it can be followed step by step.
LEMMA ScheduleSteps ==
  /\ Scheduled[0] = Unstarted
  /\ \A n \in Nat : n < Cardinality(Tasks) => Scheduled[n + 1] = After(Scheduled[n])
<1>1. PICK N \in Nat : N = Cardinality(Tasks)
  BY TaskCount
<1>2. Scheduled = CHOOSE f : IsScheduleUpTo(f, N)
  BY <1>1 DEF Scheduled, IsScheduleUpTo, After, Unstarted
<1>3. IsScheduleUpTo(Scheduled, N)
  BY <1>2, ScheduleExists
<1>4. PICK f : f = Scheduled
  OBVIOUS
<1>5. f = [n \in 0 .. N |-> IF n = 0 THEN Unstarted ELSE After(f[n - 1])]
  BY <1>3, <1>4 DEF IsScheduleUpTo
<1>6. f[0] = Unstarted
  BY <1>5
<1>7. ASSUME NEW n \in Nat, n < N PROVE f[n + 1] = After(f[n])
  <2>1. n + 1 \in 0 .. N /\ n + 1 # 0 /\ (n + 1) - 1 = n
    BY <1>7
  <2> QED
    BY <1>5, <2>1
<1> QED
  BY <1>1, <1>4, <1>6, <1>7

------------------------------------------------------------------------------
(* The keys of a schedule under construction.                              *)

\* Runs and lanes as they can be.
Sched(s) ==
  /\ DOMAIN s.ran \subseteq Tasks
  /\ \A t \in DOMAIN s.ran : s.ran[t].end \in Nat
  /\ DOMAIN s.lanes = Owners
  /\ \A o \in Owners : s.lanes[o] \in [1 .. graph.capacity[o] -> Nat]

\* A finite set of naturals has its maximum in it.
LEMMA MaxOfNats ==
  ASSUME NEW S \in SUBSET Nat, IsFiniteSet(S), S # {}
  PROVE  Max(S) \in Nat /\ Max(S) \in S /\ \A y \in S : y <= Max(S)
<1>1. S \in SUBSET Int
  OBVIOUS
<1> QED
  BY <1>1, MaxExists

LEMMA MaxWithOne ==
  ASSUME NEW x \in Nat, NEW T \in SUBSET Nat, IsFiniteSet(T)
  PROVE  /\ Max({x} \cup T) \in Nat /\ Max({x} \cup T) \in {x} \cup T
         /\ \A y \in {x} \cup T : y <= Max({x} \cup T)
<1> DEFINE S == {x} \cup T
<1>1. S \in SUBSET Nat /\ IsFiniteSet(S) /\ S # {}
  BY FS_Singleton, FS_Union
<1> HIDE DEF S
<1> QED
  BY <1>1, MaxOfNats DEF S

LEMMA FreeAtIs ==
  ASSUME graph \in Graphs, NEW s, Sched(s), NEW o \in Owners
  PROVE  FreeAt(s, o) \in Nat
<1> DEFINE all == 1 .. graph.capacity[o]
           free == s.lanes[o]
<1>1. graph.capacity[o] \in Nat \ {0} /\ free \in [all -> Nat]
  BY GraphParts DEF Sched
<1>2. IsFiniteSet(all) /\ all # {}
  <2>1. IsFiniteSet(1 .. graph.capacity[o])
    BY <1>1, FS_Interval
  <2>2. 1 \in all
    BY <1>1
  <2> QED
    BY <2>1, <2>2
<1> HIDE DEF all, free
<1>3. Range(free) = {free[i] : i \in all}
  BY <1>1 DEF Range
<1>4. Range(free) \in SUBSET Int /\ Range(free) # {} /\ IsFiniteSet(Range(free))
  BY <1>1, <1>2, <1>3, ValuesFinite
<1>5. Min(Range(free)) \in Range(free)
  BY <1>4, MinExists
<1> QED
  BY <1>1, <1>3, <1>5 DEF FreeAt, free

\* The key of a task all of whose dependencies are placed, component by component.
LEMMA KeyInParts ==
  ASSUME graph \in Graphs, NEW s, Sched(s), NEW t \in Tasks, graph.deps[t] \subseteq DOMAIN s.ran
  PROVE  /\ KeyIn(s, t) \in Keys
         /\ KeyIn(s, t)[5] = graph.rank[t] /\ KeyIn(s, t)[4] = graph.earliest[t]
         /\ KeyIn(s, t)[3] = DepsEnd(s, t) /\ KeyIn(s, t)[1] \in Nat
         /\ KeyIn(s, t)[2] = Max2(DepsEnd(s, t), graph.earliest[t])
         /\ KeyIn(s, t)[2] <= KeyIn(s, t)[1]
<1> DEFINE dep == DepsEnd(s, t)
           ends == {s.ran[d].end : d \in graph.deps[t]}
           free == {FreeAt(s, o) : o \in UsedBy(t)}
           eff == Max2(dep, graph.earliest[t])
           start == Max({eff} \cup free)
<1>1. /\ graph.deps[t] \subseteq Tasks /\ UsedBy(t) \subseteq Owners
      /\ graph.earliest[t] \in Nat /\ graph.rank[t] \in Nat
  BY GraphParts
<1>2. IsFiniteSet(graph.deps[t]) /\ IsFiniteSet(UsedBy(t))
  BY <1>1, TasksFinite, FS_Subset, GroupsFinite
<1>3. ends \in SUBSET Nat /\ IsFiniteSet(ends)
  <2> DEFINE f == [d \in graph.deps[t] |-> s.ran[d].end]
  <2>1. ends = {f[d] : d \in graph.deps[t]} /\ DOMAIN f = graph.deps[t]
    OBVIOUS
  <2>2. IsFiniteSet({f[d] : d \in graph.deps[t]})
    <3> HIDE DEF f
    <3> QED
      BY <1>2, <2>1, ValuesFinite
  <2> QED
    BY <2>1, <2>2 DEF Sched
<1>4. free \in SUBSET Nat /\ IsFiniteSet(free)
  <2> DEFINE f == [o \in UsedBy(t) |-> FreeAt(s, o)]
  <2>1. free = {f[o] : o \in UsedBy(t)} /\ DOMAIN f = UsedBy(t)
    OBVIOUS
  <2>2. IsFiniteSet({f[o] : o \in UsedBy(t)})
    <3> HIDE DEF f
    <3> QED
      BY <1>2, <2>1, ValuesFinite
  <2>3. \A o \in UsedBy(t) : FreeAt(s, o) \in Nat
    BY <1>1, FreeAtIs
  <2> QED
    BY <2>1, <2>2, <2>3
<1>5. dep \in Nat
  <2> HIDE DEF ends
  <2>1. Max({0} \cup ends) \in Nat
    BY <1>3, MaxWithOne
  <2> QED
    BY <2>1 DEF DepsEnd, ends
<1>6. eff \in Nat
  BY <1>1, <1>5 DEF Max2
<1>7. start \in Nat /\ eff <= start
  <2> HIDE DEF free, eff
  <2> QED
    BY <1>4, <1>6, MaxWithOne
<1>8. KeyIn(s, t) = <<start, eff, dep, graph.earliest[t], graph.rank[t]>>
  BY DEF KeyIn
<1> HIDE DEF start, eff, dep
<1>9. /\ KeyIn(s, t)[5] = graph.rank[t] /\ KeyIn(s, t)[4] = graph.earliest[t]
      /\ KeyIn(s, t)[3] = dep /\ KeyIn(s, t)[2] = eff /\ KeyIn(s, t)[1] = start
  BY <1>8
<1>10. KeyIn(s, t) \in Keys
  BY <1>1, <1>5, <1>6, <1>7, <1>8 DEF Keys
<1> QED
  BY <1>7, <1>9, <1>10 DEF dep, eff

\* Two keys are comparable, one way only.
LEMMA KeysCompared ==
  ASSUME NEW a \in Keys, NEW b \in Keys
  PROVE  /\ a = b \/ Precedes(a, b) \/ Precedes(b, a)
         /\ ~(Precedes(a, b) /\ Precedes(b, a)) /\ ~Precedes(a, a)
<1>1. a = <<a[1], a[2], a[3], a[4], a[5]>> /\ b = <<b[1], b[2], b[3], b[4], b[5]>>
  BY DEF Keys
<1>2. \A i \in {1, 2, 3, 4, 5} : a[i] \in Nat /\ b[i] \in Nat
  BY DEF Keys
<1>3. PICK x1, x2, x3, x4, x5, y1, y2, y3, y4, y5 :
        /\ x1 = a[1] /\ x2 = a[2] /\ x3 = a[3] /\ x4 = a[4] /\ x5 = a[5]
        /\ y1 = b[1] /\ y2 = b[2] /\ y3 = b[3] /\ y4 = b[4] /\ y5 = b[5]
  OBVIOUS
<1>4. /\ a = <<x1, x2, x3, x4, x5>> /\ b = <<y1, y2, y3, y4, y5>>
      /\ x1 \in Nat /\ x2 \in Nat /\ x3 \in Nat /\ x4 \in Nat /\ x5 \in Nat
      /\ y1 \in Nat /\ y2 \in Nat /\ y3 \in Nat /\ y4 \in Nat /\ y5 \in Nat
  BY <1>1, <1>2, <1>3
<1> QED
  BY <1>4, PrecedesFive

\* Of finitely many elements with different keys, one has the least.
LEMMA LeastKeyExists ==
  ASSUME NEW S, IsFiniteSet(S), S # {}, NEW K \in [S -> Keys],
         \A x, y \in S : K[x] = K[y] => x = y
  PROVE  \E x \in S : \A y \in S \ {x} : Precedes(K[x], K[y])
<1> DEFINE Least(U) == \E x \in U : \A y \in U \ {x} : Precedes(K[x], K[y])
           Bad == {U \in SUBSET S : U # {} /\ ~Least(U)}
<1> SUFFICES ASSUME Bad # {} PROVE FALSE
  OBVIOUS
<1>1. PICK U \in Bad : \A V \in SUBSET U : V # U => V \notin Bad
  <2>1. Bad \in SUBSET (SUBSET S)
    OBVIOUS
  <2> HIDE DEF Bad
  <2> QED
    BY <2>1, SmallestSubset
<1>2. PICK x \in U : x \in S
  OBVIOUS
<1>3. Least(U)
  <2>1. CASE U = {x}
    BY <2>1
  <2>2. CASE U # {x}
    <3>1. Least(U \ {x})
      <4> HIDE DEF Least
      <4> QED
        BY <1>1, <1>2, <2>2
    <3>2. PICK m \in U \ {x} : \A y \in (U \ {x}) \ {m} : Precedes(K[m], K[y])
      BY <3>1
    <3>3. m \in S /\ m # x /\ K[m] \in Keys /\ K[x] \in Keys /\ K[m] # K[x]
      BY <1>2, <3>2
    <3>4. Precedes(K[m], K[x]) \/ Precedes(K[x], K[m])
      BY <3>3, KeysCompared
    <3>5. CASE Precedes(K[m], K[x])
      BY <3>2, <3>5
    <3>6. CASE Precedes(K[x], K[m])
      <4>1. ASSUME NEW y \in U \ {x} PROVE Precedes(K[x], K[y])
        <5>1. CASE y = m
          BY <3>6, <5>1
        <5>2. CASE y # m
          <6>1. Precedes(K[m], K[y]) /\ K[y] \in Keys /\ K[y] # K[x]
            BY <1>2, <3>2, <5>2
          <6> QED
            BY <3>3, <3>6, <6>1, KeyOrder DEF NotAfter
        <5> QED
          BY <5>1, <5>2
      <4> QED
        BY <1>2, <4>1
    <3> QED
      BY <3>4, <3>5, <3>6
  <2> QED
    BY <2>1, <2>2
<1> HIDE DEF Least
<1> QED
  BY <1>1, <1>3

LEMMA EligibleIs ==
  ASSUME graph \in Graphs, NEW s, Sched(s)
  PROVE  /\ IsFiniteSet(EligibleIn(s)) /\ EligibleIn(s) \subseteq Tasks
         /\ \A t \in EligibleIn(s) : KeyIn(s, t) \in Keys
         /\ \A t, u \in EligibleIn(s) : KeyIn(s, t) = KeyIn(s, u) => t = u
<1>1. IsFiniteSet(EligibleIn(s)) /\ EligibleIn(s) \subseteq Tasks
  BY TasksFinite, FS_Subset DEF EligibleIn
<1>2. ASSUME NEW t \in EligibleIn(s)
      PROVE  KeyIn(s, t) \in Keys /\ KeyIn(s, t)[5] = graph.rank[t]
  BY KeyInParts DEF EligibleIn, Placed
<1> QED
  BY <1>1, <1>2, GraphParts

\* The task placed next is the one with the least key.
LEMMA FirstIs ==
  ASSUME graph \in Graphs, NEW s, Sched(s), EligibleIn(s) # {}
  PROVE  First(s) \in EligibleIn(s)
<1> DEFINE K == [t \in EligibleIn(s) |-> KeyIn(s, t)]
<1>1. /\ K \in [EligibleIn(s) -> Keys]
      /\ \A x, y \in EligibleIn(s) : K[x] = K[y] => x = y
  BY EligibleIs
<1>2. \A t \in EligibleIn(s) : K[t] = KeyIn(s, t)
  OBVIOUS
<1> HIDE DEF K
<1>3. PICK t \in EligibleIn(s) : \A u \in EligibleIn(s) \ {t} : Precedes(K[t], K[u])
  BY <1>1, EligibleIs, LeastKeyExists
<1>4. \A u \in EligibleIn(s) \ {t} : Precedes(KeyIn(s, t), KeyIn(s, u))
  BY <1>2, <1>3
<1> QED
  BY <1>4 DEF First

LEMMA FirstUnique ==
  ASSUME graph \in Graphs, NEW s, Sched(s), NEW t \in EligibleIn(s),
         \A u \in EligibleIn(s) \ {t} : Precedes(KeyIn(s, t), KeyIn(s, u))
  PROVE  First(s) = t
<1>1. PICK f : f = First(s)
  OBVIOUS
<1>2. f \in EligibleIn(s) /\ \A u \in EligibleIn(s) \ {f} : Precedes(KeyIn(s, f), KeyIn(s, u))
  BY <1>1 DEF First
<1>3. KeyIn(s, f) \in Keys /\ KeyIn(s, t) \in Keys
  BY <1>2, EligibleIs
<1>4. f = t
  BY <1>2, <1>3, KeysCompared
<1> QED
  BY <1>1, <1>4

\* Until all tasks are placed one is eligible: they do not wait for each other.
LEMMA EligibleExists ==
  ASSUME graph \in Graphs, IsStream(graph), NEW s, Sched(s), DOMAIN s.ran # Tasks
  PROVE  EligibleIn(s) # {}
<1> DEFINE part == Tasks \ DOMAIN s.ran
<1>1. part # {} /\ part \in SUBSET Tasks
  BY DEF Sched
<1>2. PICK t \in part : graph.deps[t] \cap part = {}
  BY <1>1 DEF IsStream
<1>3. graph.deps[t] \subseteq DOMAIN s.ran
  BY <1>2, GraphParts
<1> QED
  BY <1>3 DEF EligibleIn, Placed

\* A placement adds one run and leaves the others.
LEMMA PlaceInIs ==
  ASSUME graph \in Graphs, NEW s, Sched(s), NEW t \in EligibleIn(s)
  PROVE  /\ Sched(PlaceIn(s, t)) /\ t \notin DOMAIN s.ran
         /\ DOMAIN PlaceIn(s, t).ran = DOMAIN s.ran \cup {t}
         /\ \A u \in DOMAIN s.ran : PlaceIn(s, t).ran[u] = s.ran[u]
<1>1. t \in Tasks /\ t \notin DOMAIN s.ran /\ graph.deps[t] \subseteq DOMAIN s.ran
  BY DEF EligibleIn, Placed
<1>2. PICK start : start = KeyIn(s, t)[1]
  OBVIOUS
<1>3. start \in Nat
  BY <1>1, <1>2, KeyInParts
<1>4. PICK lane : lane = [o \in UsedBy(t) |->
                 Min({i \in DOMAIN s.lanes[o] : s.lanes[o][i] = FreeAt(s, o)})]
  OBVIOUS
<1>5. PICK end : end = Max({start} \cup {start + Service(t, o) : o \in UsedBy(t)})
  OBVIOUS
<1>6. \A o \in UsedBy(t) : start + Service(t, o) \in Nat
  BY <1>1, <1>3, ServiceIsNat
<1>7. end \in Nat
  <2> DEFINE f == [o \in UsedBy(t) |-> start + Service(t, o)]
             E == {f[o] : o \in UsedBy(t)}
  <2>1. DOMAIN f = UsedBy(t) /\ {start + Service(t, o) : o \in UsedBy(t)} = E
    OBVIOUS
  <2>2. E \in SUBSET Nat
    BY <1>6
  <2>3. IsFiniteSet(E)
    <3> HIDE DEF f
    <3> QED
      BY <1>1, <2>1, GroupsFinite, ValuesFinite
  <2> HIDE DEF E
  <2>4. Max({start} \cup E) \in Nat
    BY <1>3, <2>2, <2>3, MaxWithOne
  <2> QED
    BY <1>5, <2>1, <2>4
<1>8. PlaceIn(s, t) =
        [ran |-> [u \in DOMAIN s.ran \cup {t} |->
                    IF u = t THEN [start |-> start, end |-> end, lane |-> lane] ELSE s.ran[u]],
         lanes |-> [o \in Owners |->
                      IF o \in UsedBy(t)
                      THEN [s.lanes[o] EXCEPT ![lane[o]] = start + Service(t, o)]
                      ELSE s.lanes[o]]]
  BY <1>2, <1>4, <1>5, Zenon DEF PlaceIn, Placed
<1>9. PICK p : p = PlaceIn(s, t)
  OBVIOUS
<1>10. /\ DOMAIN p.ran = DOMAIN s.ran \cup {t}
       /\ \A u \in DOMAIN s.ran : p.ran[u] = s.ran[u]
       /\ p.ran[t].end = end
  BY <1>1, <1>8, <1>9
<1>11. DOMAIN p.lanes = Owners
  BY <1>8, <1>9
<1>12. ASSUME NEW o \in Owners
       PROVE  p.lanes[o] \in [1 .. graph.capacity[o] -> Nat]
  <2>1. s.lanes[o] \in [1 .. graph.capacity[o] -> Nat]
    BY DEF Sched
  <2>2. p.lanes[o] = IF o \in UsedBy(t)
                     THEN [s.lanes[o] EXCEPT ![lane[o]] = start + Service(t, o)]
                     ELSE s.lanes[o]
    BY <1>8, <1>9
  <2> QED
    BY <1>6, <2>1, <2>2
<1>13. Sched(p)
  BY <1>1, <1>7, <1>10, <1>11, <1>12 DEF Sched
<1> QED
  BY <1>1, <1>9, <1>10, <1>13

\* After n steps the schedule has n tasks, whose runs stay as they are.
ScheduledSoFar(n) ==
  LET s == Scheduled[n]
  IN  Sched(s) /\ IsFiniteSet(DOMAIN s.ran) /\ Cardinality(DOMAIN s.ran) = n

LEMMA UnstartedIs ==
  ASSUME graph \in Graphs
  PROVE  Sched(Unstarted) /\ DOMAIN Unstarted.ran = {}
BY GraphParts DEF Sched, Unstarted

LEMMA StepOfSchedule ==
  ASSUME graph \in Graphs, IsStream(graph),
         NEW n \in Nat, n < Cardinality(Tasks), ScheduledSoFar(n)
  PROVE  /\ ScheduledSoFar(n + 1)
         /\ \A t \in DOMAIN Scheduled[n].ran : /\ t \in DOMAIN Scheduled[n + 1].ran
                                               /\ Scheduled[n + 1].ran[t] = Scheduled[n].ran[t]
<1>1. PICK s : s = Scheduled[n]
  OBVIOUS
<1>2. Sched(s) /\ IsFiniteSet(DOMAIN s.ran) /\ Cardinality(DOMAIN s.ran) = n
  BY <1>1 DEF ScheduledSoFar
<1>3. DOMAIN s.ran # Tasks
  BY <1>2, TaskCount
<1>4. First(s) \in EligibleIn(s)
  BY <1>2, <1>3, EligibleExists, FirstIs
<1>5. PICK t : t = First(s)
  OBVIOUS
<1>6. Scheduled[n + 1] = PlaceIn(s, t)
  BY <1>1, <1>5, ScheduleSteps DEF After
<1>7. /\ Sched(PlaceIn(s, t)) /\ t \notin DOMAIN s.ran
      /\ DOMAIN PlaceIn(s, t).ran = DOMAIN s.ran \cup {t}
      /\ \A u \in DOMAIN s.ran : PlaceIn(s, t).ran[u] = s.ran[u]
  BY <1>2, <1>4, <1>5, PlaceInIs
<1>8. IsFiniteSet(DOMAIN s.ran \cup {t}) /\ Cardinality(DOMAIN s.ran \cup {t}) = n + 1
  BY <1>2, <1>7, FS_AddElement
<1> QED
  BY <1>1, <1>6, <1>7, <1>8 DEF ScheduledSoFar

LEMMA ScheduleIs ==
  ASSUME graph \in Graphs, IsStream(graph), NEW n \in Nat, n <= Cardinality(Tasks)
  PROVE  ScheduledSoFar(n)
<1> DEFINE Good == {m \in Nat : m <= Cardinality(Tasks) => ScheduledSoFar(m)}
<1>1. 0 \in Good
  <2>1. ScheduledSoFar(0)
    BY ScheduleSteps, UnstartedIs, FS_EmptySet DEF ScheduledSoFar
  <2> QED
    BY <2>1
<1>2. \A m \in Good : m + 1 \in Good
  BY StepOfSchedule, TaskCount
<1>3. Good \in SUBSET Nat
  OBVIOUS
<1> HIDE DEF Good
<1>4. Good = Nat
  BY <1>1, <1>2, <1>3, AllNaturals
<1> QED
  BY <1>4 DEF Good

\* What is placed once is placed that way in the complete schedule.
LEMMA ScheduleGrows ==
  ASSUME graph \in Graphs, IsStream(graph), NEW n \in Nat, n <= Cardinality(Tasks),
         NEW t \in DOMAIN Scheduled[n].ran
  PROVE  Batch[t] = Scheduled[n].ran[t]
<1>1. PICK N \in Nat : N = Cardinality(Tasks)
  BY TaskCount
<1> DEFINE Same(m) == /\ t \in DOMAIN Scheduled[m].ran
                      /\ Scheduled[m].ran[t] = Scheduled[n].ran[t]
           Good == {m \in Nat : n + m <= N => Same(n + m)}
<1>2. 0 \in Good
  OBVIOUS
<1>3. ASSUME NEW m \in Good PROVE m + 1 \in Good
  <2> SUFFICES ASSUME n + (m + 1) <= N PROVE Same(n + (m + 1))
    OBVIOUS
  <2>1. n + m \in Nat /\ n + m < N /\ Same(n + m) /\ n + (m + 1) = (n + m) + 1
    BY <1>1
  <2>2. ScheduledSoFar(n + m)
    BY <1>1, <2>1, ScheduleIs
  <2>3. \A u \in DOMAIN Scheduled[n + m].ran :
          /\ u \in DOMAIN Scheduled[(n + m) + 1].ran
          /\ Scheduled[(n + m) + 1].ran[u] = Scheduled[n + m].ran[u]
    BY <1>1, <2>1, <2>2, StepOfSchedule
  <2> QED
    BY <2>1, <2>3
<1>4. Good \in SUBSET Nat
  OBVIOUS
<1> HIDE DEF Good
<1>5. Good = Nat
  BY <1>2, <1>3, <1>4, AllNaturals
<1>6. N - n \in Good /\ n + (N - n) = N
  BY <1>1, <1>5
<1>7. Same(N)
  BY <1>6 DEF Good
<1> QED
  BY <1>1, <1>7 DEF Batch

------------------------------------------------------------------------------
(* The loop and the requests.                                              *)

\* A place in the stream: chunk k of request i.
ChunkOf(i, k) == Request(i).chunks[k]
ChunksOf(i) == 1 .. Len(Request(i).chunks)

\* The parts of a stream, as the loop uses them.
LEMMA StreamParts ==
  ASSUME IsStream(graph)
  PROVE  /\ Len(graph.requests) \in Nat /\ Requests = 1 .. Len(graph.requests)
         /\ \A i \in Requests :
              /\ Request(i).arrival \in Nat /\ Request(i).marker \in Tasks
              /\ Len(Request(i).chunks) \in Nat \ {0} /\ ChunksOf(i) = DOMAIN Request(i).chunks
              /\ Request(i).marker \in ChunkOf(i, 1)
              /\ graph.deps[Request(i).marker] = {} /\ Group(Request(i).marker) = {}
              /\ graph.earliest[Request(i).marker] = Request(i).arrival
              /\ \A k \in ChunksOf(i) :
                   /\ ChunkOf(i, k) \subseteq Tasks
                   /\ Request(i).terminals[k] \in ChunkOf(i, k)
                   /\ \A t \in ChunkOf(i, k) \ {Request(i).marker} :
                        \/ graph.deps[t] \cap ChunkOf(i, k) # {}
                        \/ k > 1 /\ Request(i).terminals[k - 1] \in graph.deps[t]
<1>1. graph.requests \in Seq(RequestStream)
  BY DEF IsStream
<1>2. ASSUME NEW i \in Requests
      PROVE  /\ Request(i).arrival \in Nat /\ Request(i).marker \in Tasks
             /\ Request(i).chunks \in Seq(SUBSET Tasks) /\ IsRequest(graph, Request(i))
  <2>1. Request(i) \in RequestStream
    BY <1>1 DEF Requests, Request
  <2>2. IsRequest(graph, Request(i))
    BY DEF IsStream, Requests, Request
  <2> QED
    BY <2>1, <2>2 DEF RequestStream
<1>3. ASSUME NEW i \in Requests
      PROVE  /\ Len(Request(i).chunks) \in Nat \ {0} /\ ChunksOf(i) = DOMAIN Request(i).chunks
             /\ \A k \in ChunksOf(i) : ChunkOf(i, k) \subseteq Tasks
  BY <1>2 DEF IsRequest, ChunksOf, ChunkOf
<1>4. Len(graph.requests) \in Nat /\ Requests = 1 .. Len(graph.requests)
  BY <1>1 DEF Requests
<1> QED
  BY <1>2, <1>3, <1>4 DEF IsRequest, ChunkOf, Group

\* Every task has one place.
LEMMA OnePlace ==
  ASSUME IsStream(graph)
  PROVE  /\ \A t \in Tasks : \E i \in Requests : \E k \in ChunksOf(i) : t \in ChunkOf(i, k)
         /\ \A i, j \in Requests : \A k \in ChunksOf(i) : \A m \in ChunksOf(j) :
              \A t \in ChunkOf(i, k) \cap ChunkOf(j, m) : i = j /\ k = m
<1>1. \A i \in Requests : ChunksOf(i) = DOMAIN Request(i).chunks
  BY StreamParts
<1> QED
  BY <1>1 DEF IsStream, Requests, Request, ChunkOf

------------------------------------------------------------------------------
(* What holds of the loop between two steps.                               *)

\* The kernel has the chunks up to the position of each stream, and the requests
\* up to the next one.
Lowered ==
  /\ next \in Nat \ {0} /\ stream \in [Requests -> Nat]
  /\ \A i \in Requests : i < next <=> stream[i] > 0
  /\ \A i \in Requests : stream[i] <= Len(Request(i).chunks)
  /\ \A i \in Requests : \A k \in ChunksOf(i) :
       IF k <= stream[i] THEN ChunkOf(i, k) \subseteq seen ELSE ChunkOf(i, k) \cap seen = {}

\* The event is the task that ran last, until it is released.
EventInv ==
  /\ pc \in {"loop", "observe", "release", "done"}
  /\ event \subseteq DOMAIN ran
  /\ \A t, u \in event : t = u
  /\ pc = "loop" => event = {}

\* A terminal that has run has had its next chunk, unless it is the event.
ChunksFollow ==
  \A i \in Requests :
    (/\ stream[i] \in 1 .. Len(Request(i).chunks) - 1
     /\ Request(i).terminals[stream[i]] \in DOMAIN ran) =>
        pc = "observe" /\ Request(i).terminals[stream[i]] \in event

\* Dependencies are ready when the last of them ends.
ReadyTight ==
  \A t \in tasks : \/ dependencyReady[t] = 0
                   \/ \E d \in graph.deps[t] \cap DOMAIN ran : ran[d].end = dependencyReady[t]

\* The runs and the lanes are those of the complete graph, after as many tasks.
Now == [ran |-> ran, lanes |-> lanes]
OnSchedule ==
  /\ IsFiniteSet(DOMAIN ran) /\ Cardinality(DOMAIN ran) <= Cardinality(Tasks)
  /\ Now = Scheduled[Cardinality(DOMAIN ran)]

StreamInv == /\ IsStream(graph) /\ KernelInv /\ QueueInv
             /\ Lowered /\ EventInv /\ ChunksFollow /\ ReadyTight /\ OnSchedule

LEMMA StreamStarts == StreamInit => StreamInv
<1> SUFFICES ASSUME StreamInit PROVE StreamInv
  OBVIOUS
<1>1. /\ IsStream(graph) /\ graph \in Graphs /\ KernelInit
      /\ tasks = {} /\ seen = {} /\ DOMAIN ran = {} /\ event = {} /\ pc = "loop" /\ next = 1
      /\ stream = [i \in Requests |-> 0]
  BY DEF StreamInit, KernelInit, KernelStart
<1>2. KernelInv
  BY <1>1, InvAtStart
<1>3. QueueInv
  BY <1>1 DEF KernelInit, KernelStart, QueueInv, InGroup
<1>4. Lowered
  BY <1>1, StreamParts DEF Lowered, ChunksOf
<1>5. EventInv /\ ChunksFollow /\ ReadyTight
  BY <1>1 DEF EventInv, ChunksFollow, ReadyTight
<1>6. OnSchedule
  <2>1. Now = Unstarted
    BY DEF Now, Unstarted, StreamInit, KernelStart
  <2>2. Cardinality(DOMAIN ran) = 0 /\ IsFiniteSet(DOMAIN ran)
    BY <1>1, FS_EmptySet
  <2> QED
    BY <2>1, <2>2, ScheduleSteps, TaskCount DEF OnSchedule
<1> QED
  BY <1>1, <1>2, <1>3, <1>4, <1>5, <1>6 DEF StreamInv

\* The loop does to the kernel what a caller may.
LEMMA LoopIsCaller ==
  ASSUME StreamInv, StreamNext
  PROVE  KernelNext \/ UNCHANGED kernelVars
<1>1. /\ \A i \in Requests : \A k \in ChunksOf(i) : ChunkOf(i, k) \subseteq Tasks /\ ChunkOf(i, k) # {}
      /\ \A i \in Requests : Len(Request(i).chunks) \in Nat \ {0}
  BY StreamParts DEF StreamInv
<1>2. ASSUME NEW i \in Requests, NEW k \in ChunksOf(i), Submit(ChunkOf(i, k), {})
      PROVE  KernelNext
  <2>1. ChunkOf(i, k) \cap seen = {}
    BY <1>2 DEF Submit, Admissible
  <2>2. PICK chunk : chunk = ChunkOf(i, k)
    OBVIOUS
  <2>3. chunk \subseteq Tasks /\ chunk # {} /\ chunk \cap seen = {}
    BY <1>1, <2>1, <2>2
  <2>4. chunk \in SUBSET (Tasks \ seen) /\ chunk \notin {{}}
    BY <2>3
  <2>5. SubmitSome
    <3>1. {} \in SUBSET Tasks /\ \A d \in {} : leases[d] < LeaseLimit
      OBVIOUS
    <3>2. Submit(chunk, {})
      BY <1>2, <2>2
    <3>3. chunk \in (SUBSET (Tasks \ seen)) \ {{}}
      BY <2>4
    <3> QED
      BY <3>1, <3>2, <3>3 DEF SubmitSome
  <2> QED
    BY <2>5 DEF KernelNext
<1>3. CASE Peek
  BY <1>3 DEF Peek, KernelNext
<1>4. CASE AddRequest
  <2>1. next \in Requests /\ 1 \in ChunksOf(next) /\ Submit(ChunkOf(next, 1), {})
    BY <1>1, <1>4 DEF AddRequest, ArrivalDue, HasNext, ChunksOf, ChunkOf
  <2> QED
    BY <1>2, <2>1
<1>5. CASE ExecuteNext
  BY <1>5 DEF ExecuteNext, KernelNext
<1>6. CASE AddChunk
  <2>1. PICK i \in Ended : ~Final(i) /\ Submit(Appended(i), {})
    BY <1>6 DEF AddChunk
  <2>2. i \in Requests /\ stream[i] + 1 \in ChunksOf(i)
    BY <1>1, <2>1 DEF Ended, Final, ChunksOf, StreamInv, Lowered
  <2> QED
    BY <1>2, <2>1, <2>2 DEF Appended, ChunkOf
<1>7. CASE NoChunk \/ Finish
  BY <1>7 DEF NoChunk, Finish
<1>8. CASE ReleaseEvent
  <2>1. event \subseteq Tasks
    BY DEF StreamInv, EventInv, KernelInv, TasksTyped
  <2> QED
    BY <1>8, <2>1 DEF ReleaseEvent, KernelNext
<1> QED
  BY <1>3, <1>4, <1>5, <1>6, <1>7, <1>8 DEF StreamNext

------------------------------------------------------------------------------
(* Each part is kept.                                                      *)

LEMMA SameStream ==
  ASSUME graph' = graph
  PROVE  /\ Requests' = Requests /\ \A i : Request(i)' = Request(i)
         /\ \A i : ChunksOf(i)' = ChunksOf(i)
         /\ \A i, k : ChunkOf(i, k)' = ChunkOf(i, k)
BY DEF Requests, Request, ChunksOf, ChunkOf

\* The schedule is one of the graph only.
LEMMA SameStep ==
  ASSUME graph' = graph, NEW s
  PROVE  After(s)' = After(s)
<1>1. \A t : /\ Group(t)' = Group(t) /\ UsedBy(t)' = UsedBy(t)
             /\ \A o : Service(t, o)' = Service(t, o)
  BY SameGraph
<1>2. ASSUME NEW t PROVE KeyIn(s, t)' = KeyIn(s, t)
  BY <1>1, Zenon DEF KeyIn, FreeAt, DepsEnd
<1>3. EligibleIn(s)' = EligibleIn(s)
  BY DEF EligibleIn, Placed
<1>4. First(s)' = First(s)
  BY <1>2, <1>3, Zenon DEF First
<1>5. ASSUME NEW t PROVE PlaceIn(s, t)' = PlaceIn(s, t)
  <2>1. PICK start : start = KeyIn(s, t)[1] /\ start = KeyIn(s, t)'[1]
    BY <1>2
  <2>2. PICK used : used = UsedBy(t) /\ used = UsedBy(t)'
    BY <1>1
  <2>3. PICK takes : takes = [o \in used |-> Service(t, o)]
    OBVIOUS
  <2>4. \A o \in used : takes[o] = Service(t, o) /\ takes[o] = Service(t, o)'
    BY <1>1, <2>3
  <2>5. PICK lane : lane = [o \in used |->
                     Min({i \in DOMAIN s.lanes[o] : s.lanes[o][i] = FreeAt(s, o)})]
    OBVIOUS
  <2>6. PICK end : end = Max({start} \cup {start + takes[o] : o \in used})
    OBVIOUS
  <2>7. PICK after : after = [o \in Owners |->
                       IF o \in used THEN [s.lanes[o] EXCEPT ![lane[o]] = start + takes[o]]
                                     ELSE s.lanes[o]]
    OBVIOUS
  <2> DEFINE Place == [ran |-> [u \in Placed(s) \cup {t} |->
                                 IF u = t THEN [start |-> start, end |-> end, lane |-> lane]
                                          ELSE s.ran[u]],
                       lanes |-> after]
  <2>8. PlaceIn(s, t) = Place
    <3>1. {start + takes[o] : o \in used} = {start + Service(t, o) : o \in used}
      BY <2>4
    <3>2. after = [o \in Owners |->
                     IF o \in used THEN [s.lanes[o] EXCEPT ![lane[o]] = start + Service(t, o)]
                                   ELSE s.lanes[o]]
      BY <2>4, <2>7
    <3> QED
      BY <2>1, <2>2, <2>5, <2>6, <3>1, <3>2, Zenon DEF PlaceIn
  <2>9. PlaceIn(s, t)' = Place
    <3>1. {start + takes[o] : o \in used} = {start + Service(t, o)' : o \in used}
      BY <2>4
    <3>2. after = [o \in Owners |->
                     IF o \in used THEN [s.lanes[o] EXCEPT ![lane[o]] = start + Service(t, o)']
                                   ELSE s.lanes[o]]
      BY <2>4, <2>7
    <3> QED
      BY <2>1, <2>2, <2>5, <2>6, <3>1, <3>2, Zenon DEF PlaceIn, FreeAt, Placed
  <2> QED
    BY <2>8, <2>9
<1> QED
  BY <1>4, <1>5, Zenon DEF After

Follows == /\ Scheduled[0] = Unstarted
           /\ \A n \in Nat : n < Cardinality(Tasks) =>
                \A s : s = Scheduled[n] => Scheduled[n + 1] = After(s)

LEMMA ScheduleFollows == Follows
BY ScheduleSteps DEF Follows

LEMMA SameSchedule ==
  ASSUME graph' = graph, NEW n \in Nat, n <= Cardinality(Tasks)
  PROVE  Scheduled'[n] = Scheduled[n]
<1>1. PICK N \in Nat : N = Cardinality(Tasks)
  BY TaskCount
<1>0. Follows'
  BY ScheduleFollows, PTL
<1> DEFINE Good == {m \in Nat : m <= N => Scheduled'[m] = Scheduled[m]}
<1>2. 0 \in Good
  <2>1. Unstarted' = Unstarted
    BY DEF Unstarted
  <2>2. Scheduled'[0] = Unstarted'
    BY <1>0 DEF Follows
  <2> QED
    BY <2>1, <2>2, ScheduleSteps
<1>3. ASSUME NEW m \in Good PROVE m + 1 \in Good
  <2> SUFFICES ASSUME m < N PROVE Scheduled'[m + 1] = Scheduled[m + 1]
    OBVIOUS
  <2>1. PICK s : s = Scheduled[m] /\ s = Scheduled'[m]
    OBVIOUS
  <2>2. \A k \in Nat : k < Cardinality(Tasks) =>
          \A r : r = Scheduled'[k] => Scheduled'[k + 1] = After(r)'
    BY <1>0 DEF Follows
  <2>3. After(s)' = After(s)
    BY SameStep
  <2>4. Scheduled'[m + 1] = After(s)'
    BY <1>1, <2>1, <2>2
  <2>5. Scheduled[m + 1] = After(s)
    BY <1>1, <2>1, ScheduleSteps
  <2> QED
    BY <2>3, <2>4, <2>5
<1>4. Good \in SUBSET Nat
  OBVIOUS
<1> HIDE DEF Good
<1>5. Good = Nat
  BY <1>2, <1>3, <1>4, AllNaturals
<1> QED
  BY <1>1, <1>5 DEF Good

\* What becomes ready of a submitted chunk waits for the last of its completed dependencies.
LEMMA TightSubmit ==
  ASSUME KernelInv, ReadyTight, NEW chunk \in SUBSET (Tasks \ seen), NEW kept, Submit(chunk, kept)
  PROVE  ReadyTight'
<1>1. /\ graph' = graph /\ ran' = ran /\ tasks' = tasks \cup chunk
      /\ dependencyReady' =
           [t \in Tasks |-> IF t \in chunk
              THEN Max({0} \cup {completedEnd[d] : d \in graph.deps[t] \cap DOMAIN completedEnd})
              ELSE dependencyReady[t]]
  BY DEF Submit
<1>2. /\ tasks \subseteq Tasks /\ tasks \cap chunk = {} /\ chunk \subseteq Tasks
      /\ graph.deps \in [Tasks -> SUBSET Tasks] /\ DOMAIN ran \subseteq Tasks
  BY GraphParts DEF KernelInv, TasksTyped
<1>3. ASSUME NEW t \in chunk
      PROVE  \/ dependencyReady'[t] = 0
             \/ \E d \in graph.deps[t] \cap DOMAIN ran : ran[d].end = dependencyReady'[t]
  <2> DEFINE D == graph.deps[t] \cap DOMAIN completedEnd
             f == [d \in D |-> completedEnd[d]]
             E == {f[d] : d \in D}
  <2>1. /\ DOMAIN completedEnd \subseteq DOMAIN ran
        /\ \A d \in DOMAIN completedEnd : completedEnd[d] = ran[d].end /\ ran[d].end \in Nat
    BY DEF KernelInv, EndsKept, RunsTyped
  <2>2. DOMAIN f = D /\ {completedEnd[d] : d \in D} = E /\ E \in SUBSET Nat
    BY <2>1
  <2>3. IsFiniteSet(D)
    BY <1>2, <2>1, TasksFinite, FS_Subset
  <2>4. \A x \in E : \E d \in D : x = ran[d].end
    BY <2>1
  <2> HIDE DEF f
  <2>5. IsFiniteSet(E)
    BY <2>2, <2>3, ValuesFinite
  <2> HIDE DEF E
  <2>6. Max({0} \cup E) \in {0} \cup E
    BY <2>2, <2>5, MaxWithOne
  <2>7. dependencyReady'[t] = Max({0} \cup E)
    BY <1>1, <1>2, <2>2
  <2> QED
    BY <2>1, <2>4, <2>6, <2>7
<1>4. ASSUME NEW t \in tasks
      PROVE  \/ dependencyReady'[t] = 0
             \/ \E d \in graph.deps[t] \cap DOMAIN ran : ran[d].end = dependencyReady'[t]
  BY <1>1, <1>2 DEF ReadyTight
<1> QED
  BY <1>1, <1>3, <1>4 DEF ReadyTight

LEMMA TightExecute ==
  ASSUME KernelInv, ReadyTight, NEW e \in readyHeap, Current(e), ExecuteTask(Top(e.group), e)
  PROVE  ReadyTight'
<1>1. PICK t : t = Top(e.group)
  OBVIOUS
<1>2. /\ t \in Tasks /\ t \in tasks \ DOMAIN ran
      /\ tasks \subseteq Tasks /\ DOMAIN ran \subseteq Tasks
  BY <1>1, NextIsReady DEF KernelInv, TasksTyped
<1>3. /\ graph' = graph /\ tasks' = tasks \ {t}
      /\ DOMAIN ran' = DOMAIN ran \cup {t} /\ ran'[t].end = EndOf(t)
      /\ \A u \in DOMAIN ran : ran'[u] = ran[u]
      /\ dependencyReady' = [u \in Tasks |-> IF u \in dependents[t]
                               THEN Max2(dependencyReady[u], EndOf(t)) ELSE dependencyReady[u]]
  BY <1>1, <1>2 DEF ExecuteTask, Account
<1>4. dependents[t] = {u \in tasks : t \in graph.deps[u]}
  BY <1>2 DEF KernelInv, DependentsExact
<1>5. ASSUME NEW u \in tasks'
      PROVE  \/ dependencyReady'[u] = 0
             \/ \E d \in graph.deps[u] \cap DOMAIN ran' : ran'[d].end = dependencyReady'[u]
  <2>1. u \in tasks /\ u \in Tasks
    BY <1>2, <1>3
  <2>2. \/ dependencyReady'[u] = dependencyReady[u]
        \/ u \in dependents[t] /\ dependencyReady'[u] = EndOf(t)
    <3>1. dependencyReady'[u] = IF u \in dependents[t]
                                THEN Max2(dependencyReady[u], EndOf(t)) ELSE dependencyReady[u]
      BY <1>3, <2>1
    <3> QED
      BY <3>1 DEF Max2
  <2>3. CASE dependencyReady'[u] = dependencyReady[u]
    BY <1>3, <2>1, <2>3 DEF ReadyTight
  <2>4. CASE u \in dependents[t] /\ dependencyReady'[u] = EndOf(t)
    BY <1>3, <1>4, <2>4
  <2> QED
    BY <2>2, <2>3, <2>4
<1> QED
  BY <1>3, <1>5 DEF ReadyTight

LEMMA TightNext ==
  ASSUME KernelInv, ReadyTight, KernelNext \/ UNCHANGED kernelVars
  PROVE  ReadyTight'
<1>1. CASE SubmitSome
  BY <1>1, TightSubmit DEF SubmitSome
<1>2. CASE UNCHANGED <<graph, tasks, dependencyReady, ran>>
  BY <1>2 DEF ReadyTight
<1>3. CASE DropStale \/ Requeue
  BY <1>2, <1>3 DEF DropStale, Requeue, graphState, doneState
<1>4. CASE Step
  BY <1>4, TightExecute DEF Step
<1>5. CASE \E t \in Tasks : RetainCompleted(t)
  BY <1>2, <1>5 DEF RetainCompleted, graphState
<1>6. CASE \E t \in Tasks : ReleaseCompleted(t)
  BY <1>2, <1>6 DEF ReleaseCompleted
<1>7. CASE UNCHANGED kernelVars
  BY <1>2, <1>7 DEF kernelVars, graphState, doneState
<1> QED
  BY <1>1, <1>3, <1>4, <1>5, <1>6, <1>7 DEF KernelNext

\* A stream that is given its next chunk.
LEMMA LoweredOn ==
  ASSUME IsStream(graph), Lowered, graph' = graph, NEW i \in Requests,
         stream[i] + 1 \in ChunksOf(i),
         stream' = [stream EXCEPT ![i] = stream[i] + 1],
         seen' = seen \cup ChunkOf(i, stream[i] + 1),
         next' \in Nat \ {0}, \A j \in Requests : j < next' <=> j < next \/ j = i
  PROVE  Lowered'
<1>1. /\ stream \in [Requests -> Nat]
      /\ \A j \in Requests : j < next <=> stream[j] > 0
      /\ \A j \in Requests : stream[j] <= Len(Request(j).chunks)
      /\ \A j \in Requests : \A k \in ChunksOf(j) :
           IF k <= stream[j] THEN ChunkOf(j, k) \subseteq seen ELSE ChunkOf(j, k) \cap seen = {}
  BY DEF Lowered
<1>2. /\ Requests' = Requests /\ \A j : Request(j)' = Request(j) /\ ChunksOf(j)' = ChunksOf(j)
      /\ \A j, k : ChunkOf(j, k)' = ChunkOf(j, k)
  BY SameStream
<1>3. PICK at : at = stream[i] + 1
  OBVIOUS
<1>4. at \in Nat /\ at > 0 /\ at \in ChunksOf(i) /\ at <= Len(Request(i).chunks)
  BY <1>1, <1>3, StreamParts DEF ChunksOf
<1>5. /\ stream' \in [Requests -> Nat] /\ stream'[i] = at
      /\ \A j \in Requests \ {i} : stream'[j] = stream[j]
  BY <1>1, <1>3, <1>4
<1>6. \A j \in Requests : \A k \in ChunksOf(j) :
        ChunkOf(j, k) \cap ChunkOf(i, at) = {} \/ (j = i /\ k = at)
  BY <1>4, OnePlace
<1>7. seen' = seen \cup ChunkOf(i, at)
  BY <1>3
<1>8. ASSUME NEW j \in Requests, NEW k \in ChunksOf(j)
      PROVE  IF k <= stream'[j] THEN ChunkOf(j, k) \subseteq seen' ELSE ChunkOf(j, k) \cap seen' = {}
  <2>1. k \in Nat /\ stream[j] \in Nat
    BY <1>1, <1>4, StreamParts DEF ChunksOf
  <2>2. CASE j # i
    BY <1>1, <1>5, <1>6, <1>7, <2>2
  <2>3. CASE j = i /\ k = at
    BY <1>5, <1>7, <2>1, <2>3
  <2>4. CASE j = i /\ k # at
    <3>1. k <= stream'[j] <=> k <= stream[j]
      BY <1>3, <1>5, <2>1, <2>4
    <3> QED
      BY <1>1, <1>6, <1>7, <2>4, <3>1
  <2> QED
    BY <2>2, <2>3, <2>4
<1>9. ASSUME NEW j \in Requests
      PROVE  (j < next' <=> stream'[j] > 0) /\ stream'[j] <= Len(Request(j).chunks)
  BY <1>1, <1>4, <1>5
<1> QED
  BY <1>2, <1>5, <1>8, <1>9 DEF Lowered

LEMMA LoweredSame ==
  ASSUME Lowered, UNCHANGED <<graph, seen, stream, next>>
  PROVE  Lowered'
<1>1. /\ Requests' = Requests /\ \A j : Request(j)' = Request(j) /\ ChunksOf(j)' = ChunksOf(j)
      /\ \A j, k : ChunkOf(j, k)' = ChunkOf(j, k)
  BY SameStream
<1> QED
  BY <1>1 DEF Lowered

\* The chunk that follows is there, and none of it has run.
LEMMA ChunkIsNew ==
  ASSUME IsStream(graph), KernelInv, Lowered, NEW i \in Requests, stream[i] + 1 \in ChunksOf(i)
  PROVE  /\ ChunkOf(i, stream[i] + 1) \cap seen = {}
         /\ Request(i).terminals[stream[i] + 1] \notin DOMAIN ran
<1>1. PICK at : at = stream[i] + 1
  OBVIOUS
<1>2. stream[i] \in Nat /\ at \in ChunksOf(i) /\ ~(at <= stream[i])
  BY <1>1 DEF Lowered
<1>3. ChunkOf(i, at) \cap seen = {}
  BY <1>2 DEF Lowered
<1>4. Request(i).terminals[at] \in ChunkOf(i, at)
  BY <1>2, StreamParts
<1>5. DOMAIN ran \subseteq seen
  BY DEF KernelInv, TasksTyped
<1> QED
  BY <1>1, <1>3, <1>4, <1>5

\* The first chunk of the next request.
LEMMA RequestAdded ==
  ASSUME StreamInv, AddRequest
  PROVE  Lowered' /\ EventInv' /\ ChunksFollow'
<1>1. /\ IsStream(graph) /\ KernelInv /\ Lowered /\ EventInv /\ ChunksFollow
  BY DEF StreamInv
<1>2. /\ next \in Requests /\ Submit(ChunkOf(next, 1), {}) /\ next' = next + 1
      /\ stream' = [stream EXCEPT ![next] = 1] /\ pc = "loop"
      /\ UNCHANGED <<pc, event>>
  BY DEF AddRequest, ArrivalDue, HasNext, ChunkOf
<1>3. /\ graph' = graph /\ ran' = ran /\ seen' = seen \cup ChunkOf(next, 1)
  BY <1>2 DEF Submit
<1>4. next \in Nat \ {0} /\ Requests \subseteq Nat
  BY <1>1, StreamParts DEF Lowered
<1>5. stream \in [Requests -> Nat] /\ stream[next] = 0
  BY <1>1, <1>2, <1>4 DEF Lowered
<1>6. stream[next] + 1 \in ChunksOf(next) /\ stream[next] + 1 = 1
  BY <1>1, <1>2, <1>5, StreamParts DEF ChunksOf
<1>7. \A j \in Requests : j < next' <=> j < next \/ j = next
  BY <1>2, <1>4
<1>8. Lowered'
  <2>1. next' \in Nat \ {0}
    BY <1>2, <1>4
  <2> QED
    BY <1>1, <1>2, <1>3, <1>6, <1>7, <2>1, LoweredOn
<1>9. EventInv'
  BY <1>1, <1>2, <1>3 DEF EventInv
<1>10. ChunksFollow'
  <2> SUFFICES ASSUME NEW i \in Requests, stream'[i] \in 1 .. Len(Request(i).chunks) - 1,
                      Request(i).terminals[stream'[i]] \in DOMAIN ran
               PROVE  FALSE
    BY <1>3, SameStream DEF ChunksFollow
  <2>1. CASE i = next
    <3>1. Request(next).terminals[1] \notin DOMAIN ran
      BY <1>1, <1>2, <1>6, ChunkIsNew
    <3> QED
      BY <1>2, <1>5, <2>1, <3>1
  <2>2. CASE i # next
    <3>1. stream'[i] = stream[i]
      BY <1>2, <1>5, <2>2
    <3> QED
      BY <1>1, <1>2, <3>1 DEF ChunksFollow
  <2> QED
    BY <2>1, <2>2
<1> QED
  BY <1>8, <1>9, <1>10

\* The next chunk of the request whose terminal the event is.
LEMMA ChunkAdded ==
  ASSUME StreamInv, AddChunk
  PROVE  Lowered' /\ EventInv' /\ ChunksFollow'
<1>1. /\ IsStream(graph) /\ KernelInv /\ Lowered /\ EventInv /\ ChunksFollow
  BY DEF StreamInv
<1>2. PICK i \in Ended : /\ ~Final(i) /\ Submit(Appended(i), {})
                         /\ stream' = [stream EXCEPT ![i] = @ + 1]
  BY DEF AddChunk
<1>3. /\ pc = "observe" /\ pc' = "release" /\ UNCHANGED <<next, event>>
  BY DEF AddChunk
<1>4. /\ i \in Requests /\ stream[i] > 0 /\ Request(i).terminals[stream[i]] \in event
      /\ stream[i] # Len(Request(i).chunks)
  BY <1>2 DEF Ended, Final
<1>5. stream \in [Requests -> Nat] /\ stream[i] <= Len(Request(i).chunks)
  BY <1>1, <1>4 DEF Lowered
<1>6. stream[i] + 1 \in ChunksOf(i) /\ stream[i] \in ChunksOf(i)
  BY <1>1, <1>4, <1>5, StreamParts DEF ChunksOf
<1>7. graph' = graph /\ ran' = ran /\ seen' = seen \cup ChunkOf(i, stream[i] + 1)
  BY <1>2 DEF Submit, Appended, ChunkOf
<1>8. Lowered'
  <2>1. \A j \in Requests : j < next' <=> j < next \/ j = i
    BY <1>1, <1>3, <1>4 DEF Lowered
  <2>2. next' \in Nat \ {0} /\ stream' = [stream EXCEPT ![i] = stream[i] + 1]
    BY <1>1, <1>2, <1>3 DEF Lowered
  <2> QED
    BY <1>1, <1>4, <1>6, <1>7, <2>1, <2>2, LoweredOn
<1>9. EventInv'
  BY <1>1, <1>3, <1>7 DEF EventInv
<1>10. ChunksFollow'
  <2> SUFFICES ASSUME NEW j \in Requests, stream'[j] \in 1 .. Len(Request(j).chunks) - 1,
                      Request(j).terminals[stream'[j]] \in DOMAIN ran
               PROVE  FALSE
    BY <1>7, SameStream DEF ChunksFollow
  <2>1. CASE j = i
    <3>1. Request(i).terminals[stream[i] + 1] \notin DOMAIN ran
      BY <1>1, <1>4, <1>6, ChunkIsNew
    <3> QED
      BY <1>2, <1>4, <1>5, <2>1, <3>1
  <2>2. CASE j # i
    <3>1. stream'[j] = stream[j] /\ stream[j] \in Nat
      BY <1>2, <1>5, <2>2
    <3>2. Request(j).terminals[stream[j]] \in event
      BY <1>1, <3>1 DEF ChunksFollow
    <3>3. Request(j).terminals[stream[j]] = Request(i).terminals[stream[i]]
      BY <1>1, <1>4, <3>2 DEF EventInv
    <3>4. Len(Request(j).chunks) \in Nat
      BY <1>1, StreamParts
    <3>5. stream[j] \in ChunksOf(j)
      BY <3>1, <3>4 DEF ChunksOf
    <3>6. /\ Request(i).terminals[stream[i]] \in ChunkOf(i, stream[i])
          /\ Request(j).terminals[stream[j]] \in ChunkOf(j, stream[j])
      BY <1>1, <1>4, <1>6, <3>5, StreamParts
    <3> QED
      BY <1>1, <1>4, <1>6, <2>2, <3>3, <3>5, <3>6, OnePlace
  <2> QED
    BY <2>1, <2>2
<1> QED
  BY <1>8, <1>9, <1>10

\* A task runs, and is the event.
LEMMA EventTaken ==
  ASSUME StreamInv, ExecuteNext
  PROVE  Lowered' /\ EventInv' /\ ChunksFollow'
<1>1. /\ IsStream(graph) /\ KernelInv /\ Lowered /\ EventInv /\ ChunksFollow
  BY DEF StreamInv
<1>2. PICK e \in readyHeap : Current(e) /\ ExecuteTask(Top(e.group), e)
  BY DEF ExecuteNext, Step
<1>3. PICK t : t = Top(e.group)
  OBVIOUS
<1>4. t \in tasks \ DOMAIN ran
  BY <1>1, <1>2, <1>3, NextIsReady
<1>5. /\ graph' = graph /\ seen' = seen /\ DOMAIN ran' = DOMAIN ran \cup {t}
  BY <1>2, <1>3 DEF ExecuteTask, Account
<1>6. /\ pc = "loop" /\ pc' = "observe" /\ event' = {t} /\ UNCHANGED <<next, stream>>
  BY <1>4, <1>5 DEF ExecuteNext
<1>7. Lowered'
  BY <1>1, <1>5, <1>6, LoweredSame
<1>8. EventInv'
  BY <1>5, <1>6 DEF EventInv
<1>9. ChunksFollow'
  <2> SUFFICES ASSUME NEW i \in Requests, stream[i] \in 1 .. Len(Request(i).chunks) - 1,
                      Request(i).terminals[stream[i]] \in DOMAIN ran'
               PROVE  Request(i).terminals[stream[i]] \in event'
    BY <1>5, <1>6, SameStream DEF ChunksFollow
  <2>1. Request(i).terminals[stream[i]] \notin DOMAIN ran
    BY <1>1, <1>6 DEF ChunksFollow
  <2> QED
    BY <1>5, <1>6, <2>1
<1> QED
  BY <1>7, <1>8, <1>9

\* The other steps submit nothing and run nothing.
LEMMA LoopGoesOn ==
  ASSUME StreamInv, Peek \/ NoChunk \/ ReleaseEvent \/ Finish \/ UNCHANGED streamVars
  PROVE  Lowered' /\ EventInv' /\ ChunksFollow'
<1>1. /\ IsStream(graph) /\ KernelInv /\ Lowered /\ EventInv /\ ChunksFollow
  BY DEF StreamInv
<1>2. UNCHANGED <<graph, seen, ran, stream, next>>
  <2>1. CASE Peek
    BY <2>1 DEF Peek, DropStale, Requeue, graphState, doneState, driverVars
  <2>2. CASE NoChunk \/ Finish
    BY <2>2 DEF NoChunk, Finish, kernelVars, graphState, doneState
  <2>3. CASE ReleaseEvent
    BY <2>3 DEF ReleaseEvent, ReleaseCompleted
  <2>4. CASE UNCHANGED streamVars
    BY <2>4 DEF streamVars, kernelVars, graphState, doneState, driverVars
  <2> QED
    BY <2>1, <2>2, <2>3, <2>4
<1>3. Lowered'
  BY <1>1, <1>2, LoweredSame
<1>4. \/ pc' = pc /\ event' = event
      \/ pc = "observe" /\ pc' = "release" /\ event' = event /\ \A i \in Ended : Final(i)
      \/ pc = "release" /\ pc' = "loop" /\ event' = {}
      \/ pc = "loop" /\ pc' = "done" /\ event' = event
  BY DEF Peek, NoChunk, ReleaseEvent, Finish, streamVars, driverVars
<1>5. EventInv'
  BY <1>1, <1>2, <1>4 DEF EventInv
<1>6. ChunksFollow'
  <2>1. CASE pc' = pc /\ event' = event
    BY <1>1, <1>2, <2>1, SameStream DEF ChunksFollow
  <2>2. CASE pc # "observe"
    BY <1>1, <1>2, <2>2, SameStream DEF ChunksFollow
  <2>3. CASE \A i \in Ended : Final(i)
    <3> SUFFICES ASSUME NEW i \in Requests, stream[i] \in 1 .. Len(Request(i).chunks) - 1,
                        Request(i).terminals[stream[i]] \in DOMAIN ran
                 PROVE  FALSE
      BY <1>2, SameStream DEF ChunksFollow
    <3>1. Request(i).terminals[stream[i]] \in event
      BY <1>1 DEF ChunksFollow
    <3>2. Len(Request(i).chunks) \in Nat
      BY <1>1, StreamParts
    <3>3. i \in Ended
      BY <3>1, <3>2 DEF Ended
    <3> QED
      BY <2>3, <3>2, <3>3 DEF Final
  <2> QED
    BY <1>4, <2>1, <2>2, <2>3
<1> QED
  BY <1>3, <1>5, <1>6

------------------------------------------------------------------------------
(* The task step() takes is the next of the schedule.                      *)

\* What the kernel has placed is a schedule so far.
LEMMA NowIs ==
  ASSUME KernelInv
  PROVE  Sched(Now) /\ Now.ran = ran /\ Now.lanes = lanes /\ Placed(Now) = DOMAIN ran
<1>1. Now.ran = ran /\ Now.lanes = lanes
  BY DEF Now
<1> QED
  BY <1>1 DEF Sched, Placed, KernelInv, TasksTyped, RunsTyped, LanesTyped

\* The key of a ready task is the one it has in the schedule.
LEMMA ReadyKeyIs ==
  ASSUME KernelInv, ReadyTight, NEW u \in ready
  PROVE  u \in EligibleIn(Now) /\ KeyIn(Now, u) = ReadyKey(u)
<1>1. /\ u \in Tasks /\ u \in tasks /\ u \notin DOMAIN ran /\ graph \in Graphs
      /\ dependencyReady[u] \in Nat
  BY DEF KernelInv, TasksTyped
<1>2. graph.deps[u] \subseteq DOMAIN ran
  BY <1>1 DEF KernelInv, CountersExact
<1>3. u \in EligibleIn(Now)
  BY <1>1, <1>2, NowIs DEF EligibleIn
<1>4. DepsEnd(Now, u) = dependencyReady[u]
  <2> DEFINE D == graph.deps[u]
             f == [d \in D |-> ran[d].end]
             E == {f[d] : d \in D}
  <2>1. DepsEnd(Now, u) = Max({0} \cup E)
    BY NowIs DEF DepsEnd
  <2>2. IsFiniteSet(D) /\ DOMAIN f = D
    BY <1>1, GraphParts, TasksFinite, FS_Subset
  <2>3. E \in SUBSET Nat
    BY <1>2 DEF KernelInv, RunsTyped
  <2>4. \A x \in E : x <= dependencyReady[u]
    BY <1>1, <1>2 DEF KernelInv, ReadyAfter
  <2>5. dependencyReady[u] \in {0} \cup E
    BY <1>1 DEF ReadyTight
  <2> HIDE DEF f
  <2>6. IsFiniteSet(E)
    BY <2>2, ValuesFinite
  <2> HIDE DEF E
  <2>7. /\ Max({0} \cup E) \in Nat /\ Max({0} \cup E) \in {0} \cup E
        /\ \A y \in {0} \cup E : y <= Max({0} \cup E)
    BY <2>3, <2>6, MaxWithOne
  <2>8. Max({0} \cup E) <= dependencyReady[u]
    BY <1>1, <2>4, <2>7
  <2>9. dependencyReady[u] <= Max({0} \cup E)
    BY <2>5, <2>7
  <2> QED
    BY <1>1, <2>1, <2>7, <2>8, <2>9
<1>5. \A o : FreeAt(Now, o) = Available(o)
  BY NowIs DEF FreeAt, Available
<1>6. {FreeAt(Now, o) : o \in UsedBy(u)} = {Available(graph.owner[l]) : l \in Group(u)}
  BY <1>5 DEF UsedBy
<1> QED
  BY <1>3, <1>4, <1>6 DEF KeyIn, ReadyKey, StartOf, EffectiveReady

\* The key of a request is the one its marker has in the schedule.
LEMMA ArrivalKeyIs ==
  ASSUME IsStream(graph), KernelInv, NEW i \in Requests
  PROVE  KeyIn(Now, Request(i).marker) = ArrivalKey(i)
<1>1. PICK m : m = Request(i).marker
  OBVIOUS
<1>2. PICK at : at = Request(i).arrival
  OBVIOUS
<1>3. /\ at \in Nat /\ graph.deps[m] = {} /\ Group(m) = {} /\ graph.earliest[m] = at
  BY <1>1, <1>2, StreamParts
<1>4. Max({0} \cup {}) = 0 /\ Max({at} \cup {}) = at
  <2>1. {} \in SUBSET Nat /\ IsFiniteSet({})
    BY FS_EmptySet
  <2> QED
    BY <1>3, <2>1, MaxWithOne
<1>5. DepsEnd(Now, m) = 0
  BY <1>3, <1>4 DEF DepsEnd
<1>6. Max2(DepsEnd(Now, m), graph.earliest[m]) = at
  BY <1>3, <1>5 DEF Max2
<1>7. {FreeAt(Now, o) : o \in UsedBy(m)} = {}
  BY <1>3 DEF UsedBy
<1>8. KeyIn(Now, m) = <<at, at, 0, at, graph.rank[m]>>
  BY <1>3, <1>4, <1>5, <1>6, <1>7 DEF KeyIn
<1> QED
  BY <1>1, <1>2, <1>8 DEF ArrivalKey

\* A task that is not submitted and could run is the marker of a request to come.
LEMMA UnsubmittedIsMarker ==
  ASSUME StreamInv, pc = "loop", NEW v \in EligibleIn(Now), v \notin ready
  PROVE  \E i \in Requests : i >= next /\ v = Request(i).marker
<1>1. /\ IsStream(graph) /\ KernelInv /\ Lowered /\ ChunksFollow
  BY DEF StreamInv
<1>2. /\ v \in Tasks /\ v \notin DOMAIN ran /\ graph.deps[v] \subseteq DOMAIN ran
      /\ DOMAIN ran \subseteq seen
  BY <1>1, NowIs DEF EligibleIn, KernelInv, TasksTyped
<1>3. v \notin seen
  BY <1>1, <1>2 DEF KernelInv, TasksTyped, CountersExact
<1>4. PICK i \in Requests : \E k \in ChunksOf(i) : v \in ChunkOf(i, k)
  BY <1>1, <1>2, OnePlace
<1>5. PICK k \in ChunksOf(i) : v \in ChunkOf(i, k)
  BY <1>4
<1>6. /\ k \in Nat /\ Len(Request(i).chunks) \in Nat \ {0}
      /\ stream[i] \in Nat /\ next \in Nat /\ i \in Nat
      /\ 1 <= k /\ k <= Len(Request(i).chunks)
  BY <1>1, <1>5, StreamParts DEF ChunksOf, Lowered
<1>7. stream[i] < k /\ ChunkOf(i, k) \cap seen = {}
  BY <1>1, <1>3, <1>5, <1>6 DEF Lowered
<1>8. v = Request(i).marker
  <2> SUFFICES ASSUME v # Request(i).marker PROVE FALSE
    OBVIOUS
  <2>1. graph.deps[v] \cap ChunkOf(i, k) = {}
    BY <1>2, <1>7
  <2>2. k > 1 /\ Request(i).terminals[k - 1] \in graph.deps[v]
    BY <1>1, <1>5, <2>1, StreamParts
  <2>3. k - 1 \in ChunksOf(i)
    BY <1>6, <2>2 DEF ChunksOf
  <2>4. Request(i).terminals[k - 1] \in ChunkOf(i, k - 1)
    BY <1>1, <2>3, StreamParts
  <2>5. k - 1 <= stream[i]
    BY <1>1, <1>2, <2>2, <2>3, <2>4 DEF Lowered
  <2>6. stream[i] = k - 1 /\ stream[i] \in 1 .. Len(Request(i).chunks) - 1
    BY <1>6, <1>7, <2>2, <2>5
  <2> QED
    BY <1>1, <1>2, <2>2, <2>6 DEF ChunksFollow
<1>9. k = 1
  <2>1. v \in ChunkOf(i, 1) /\ 1 \in ChunksOf(i)
    BY <1>1, <1>6, <1>8, StreamParts DEF ChunksOf
  <2> QED
    BY <1>1, <1>5, <2>1, OnePlace
<1>10. i >= next
  BY <1>1, <1>6, <1>7, <1>9 DEF Lowered
<1> QED
  BY <1>8, <1>10

\* The order of the keys is transitive.
LEMMA KeysChain ==
  ASSUME NEW a \in Keys, NEW b \in Keys, NEW c \in Keys, Precedes(a, b), Precedes(b, c)
  PROVE  Precedes(a, c)
<1>1. NotAfter(a, c)
  BY KeyOrder DEF NotAfter
<1> QED
  BY <1>1, KeysCompared DEF NotAfter

\* The keys of the requests are in the order of the requests.
LEMMA ArrivalsOrdered ==
  ASSUME IsStream(graph), graph \in Graphs, NEW i \in Requests, NEW j \in Requests, i < j
  PROVE  Precedes(ArrivalKey(i), ArrivalKey(j))
<1>1. Precedes(<<Request(i).arrival, graph.rank[Request(i).marker]>>,
               <<Request(j).arrival, graph.rank[Request(j).marker]>>)
  BY DEF IsStream, Requests, Request
<1>2. PICK a, b, r, s : /\ a = Request(i).arrival /\ b = Request(j).arrival
                        /\ r = graph.rank[Request(i).marker] /\ s = graph.rank[Request(j).marker]
  OBVIOUS
<1>3. a \in Nat /\ b \in Nat /\ r \in Nat /\ s \in Nat
  BY <1>2, StreamParts, GraphParts
<1>4. a < b \/ (a = b /\ r < s)
  <2> DEFINE x == <<a, r>>
             y == <<b, s>>
  <2>1. Precedes(x, y) /\ DOMAIN x = {1, 2}
    BY <1>1, <1>2
  <2>2. PICK n \in {1, 2} : x[n] < y[n] /\ \A m \in 1 .. n - 1 : x[m] = y[m]
    BY <2>1 DEF Precedes
  <2>3. x[1] = a /\ x[2] = r /\ y[1] = b /\ y[2] = s
    OBVIOUS
  <2>4. CASE n = 1
    BY <2>2, <2>3, <2>4
  <2>5. CASE n = 2
    <3>1. 1 \in 1 .. n - 1
      BY <2>5
    <3> QED
      BY <2>2, <2>3, <2>5, <3>1
  <2> QED
    BY <2>4, <2>5
<1>5. Precedes(<<a, a, 0, a, r>>, <<b, b, 0, b, s>>)
  BY <1>3, <1>4, PrecedesFive
<1> QED
  BY <1>2, <1>5 DEF ArrivalKey

\* The entry the loop looks at is that of the task that step() takes.
LEMMA NextIsTop ==
  ASSUME KernelInv, QueueInv, Peeked, NEW e \in readyHeap, Foremost(e), Current(e)
  PROVE  NextTask = Top(e.group)
<1>1. PICK f : f = CHOOSE g \in readyHeap : Foremost(g)
  OBVIOUS
<1>2. f \in readyHeap /\ Foremost(f) /\ NextTask = Top(f.group)
  BY <1>1 DEF NextTask
<1>3. Current(f)
  BY <1>2 DEF Peeked
<1>4. PICK t, u : t = Top(e.group) /\ u = Top(f.group)
  OBVIOUS
<1>5. e.key = ReadyKey(t) /\ f.key = ReadyKey(u)
  BY <1>3, <1>4 DEF Current
<1>6. e.key \in Keys /\ f.key \in Keys
  BY <1>2 DEF QueueInv
<1>7. e = f \/ e.key = f.key
  BY <1>2, <1>6, KeysCompared DEF Foremost, Sooner
<1>8. ReadyKey(t) = ReadyKey(u)
  BY <1>5, <1>7
<1>9. graph.rank[t] = graph.rank[u]
  <2>1. ReadyKey(t)[5] = graph.rank[t] /\ ReadyKey(u)[5] = graph.rank[u]
    BY KeyParts
  <2> QED
    BY <1>8, <2>1
<1>10. t \in Tasks /\ u \in Tasks /\ graph \in Graphs
  BY <1>2, <1>3, <1>4, NextIsReady DEF KernelInv, TasksTyped
<1> QED
  BY <1>2, <1>4, <1>9, <1>10, GraphParts

\* What step() takes is first in the schedule: no arrival is due before it.
LEMMA StepIsFirst ==
  ASSUME StreamInv, ExecuteNext, NEW e \in readyHeap, Foremost(e), Current(e)
  PROVE  Top(e.group) \in EligibleIn(Now) /\ First(Now) = Top(e.group)
<1>1. PICK t : t = Top(e.group)
  OBVIOUS
<1>2. /\ IsStream(graph) /\ KernelInv /\ QueueInv /\ Lowered /\ ReadyTight /\ graph \in Graphs
      /\ pc = "loop" /\ Peeked /\ ~ArrivalDue
  BY DEF StreamInv, KernelInv, TasksTyped, ExecuteNext
<1>3. t \in ready /\ t \in Tasks
  BY <1>1, <1>2, NextIsReady
<1>4. t \in EligibleIn(Now) /\ KeyIn(Now, t) = ReadyKey(t)
  BY <1>2, <1>3, ReadyKeyIs
<1>5. ASSUME NEW v \in EligibleIn(Now) \ {t} PROVE Precedes(KeyIn(Now, t), KeyIn(Now, v))
  <2>1. CASE v \in ready
    <3>1. KeyIn(Now, v) = ReadyKey(v)
      BY <1>2, <2>1, ReadyKeyIs
    <3>2. Precedes(ReadyKey(t), ReadyKey(v))
      BY <1>1, <1>2, <1>5, <2>1, FirstIsLeast
    <3> QED
      BY <1>4, <3>1, <3>2
  <2>2. CASE v \notin ready
    <3>1. PICK i \in Requests : i >= next /\ v = Request(i).marker
      BY <1>2, <1>5, <2>2, UnsubmittedIsMarker
    <3>2. KeyIn(Now, v) = ArrivalKey(i)
      BY <1>2, <3>1, ArrivalKeyIs
    <3>3. next \in Requests /\ next \in Nat /\ i \in Nat
      BY <1>2, <3>1, StreamParts DEF Lowered
    <3>4. Precedes(ReadyKey(NextTask), ArrivalKey(next))
      BY <1>2, <3>3 DEF ArrivalDue, HasNext
    <3>5. Precedes(ReadyKey(t), ArrivalKey(next))
      BY <1>1, <1>2, <3>4, NextIsTop
    <3>6. CASE i = next
      BY <1>4, <3>2, <3>5, <3>6
    <3>7. CASE i # next
      <4>1. Precedes(ArrivalKey(next), ArrivalKey(i))
        BY <1>2, <3>1, <3>3, <3>7, ArrivalsOrdered
      <4>2. ReadyKey(t) \in Keys
        BY <1>2, <1>3, KeysTyped DEF KernelInv
      <4>3. ArrivalKey(next) \in Keys /\ ArrivalKey(i) \in Keys
        BY <1>2, <3>1, <3>3, StreamParts, GraphParts DEF ArrivalKey, Keys
      <4>4. Precedes(ReadyKey(t), ArrivalKey(i))
        BY <3>5, <4>1, <4>2, <4>3, KeysChain
      <4> QED
        BY <1>4, <3>2, <4>4
    <3> QED
      BY <3>6, <3>7
  <2> QED
    BY <2>1, <2>2
<1>6. Sched(Now)
  BY <1>2, NowIs
<1>7. First(Now) = t
  BY <1>2, <1>4, <1>5, <1>6, FirstUnique
<1> QED
  BY <1>1, <1>4, <1>7

\* And is placed as the schedule places it.
LEMMA StepPlaces ==
  ASSUME KernelInv, ReadyTight, NEW t \in ready, Account(t)
  PROVE  PlaceIn(Now, t) = Now'
<1>1. KeyIn(Now, t) = ReadyKey(t) /\ Placed(Now) = DOMAIN ran /\ Now.ran = ran /\ Now.lanes = lanes
  BY ReadyKeyIs, NowIs
<1>2. PICK start : start = StartOf(t)
  OBVIOUS
<1>3. KeyIn(Now, t)[1] = start
  BY <1>1, <1>2, KeyParts
<1>4. \A o : FreeAt(Now, o) = Available(o)
  BY <1>1 DEF FreeAt, Available
<1>5. PICK lane : lane = [o \in UsedBy(t) |-> SelectLane(o)]
  OBVIOUS
<1>6. lane = [o \in UsedBy(t) |->
                Min({i \in DOMAIN Now.lanes[o] : Now.lanes[o][i] = FreeAt(Now, o)})]
  BY <1>1, <1>4, <1>5 DEF SelectLane
<1>7. PICK end : end = EndOf(t)
  OBVIOUS
<1>8. end = Max({start} \cup {start + Service(t, o) : o \in UsedBy(t)})
  BY <1>2, <1>7 DEF EndOf
<1>9. PlaceIn(Now, t) =
        [ran |-> [u \in DOMAIN ran \cup {t} |->
                    IF u = t THEN [start |-> start, end |-> end, lane |-> lane] ELSE ran[u]],
         lanes |-> [o \in Owners |->
                      IF o \in UsedBy(t)
                      THEN [lanes[o] EXCEPT ![lane[o]] = start + Service(t, o)]
                      ELSE lanes[o]]]
  BY <1>1, <1>3, <1>6, <1>8, Zenon DEF PlaceIn
<1>10. ran' = [u \in DOMAIN ran \cup {t} |->
                 IF u = t THEN [start |-> start, end |-> end, lane |-> lane] ELSE ran[u]]
  BY <1>2, <1>5, <1>7, Zenon DEF Account
<1>11. lanes' = [o \in Owners |->
                   IF o \in UsedBy(t)
                   THEN [lanes[o] EXCEPT ![lane[o]] = start + Service(t, o)]
                   ELSE lanes[o]]
  BY <1>2, <1>5 DEF Account
<1> QED
  BY <1>9, <1>10, <1>11, Zenon DEF Now

LEMMA ScheduleKept ==
  ASSUME OnSchedule, UNCHANGED <<graph, ran, lanes>>
  PROVE  OnSchedule'
<1>1. Now' = Now
  BY DEF Now
<1>2. PICK n : n = Cardinality(DOMAIN ran)
  OBVIOUS
<1>3. n \in Nat /\ n <= Cardinality(Tasks)
  BY <1>2, FS_CardinalityType DEF OnSchedule
<1>4. Scheduled'[n] = Scheduled[n]
  BY <1>3, SameSchedule
<1> QED
  BY <1>1, <1>2, <1>4 DEF OnSchedule

LEMMA ScheduleStepped ==
  ASSUME StreamInv, ExecuteNext
  PROVE  OnSchedule'
<1>1. PICK e \in readyHeap : Foremost(e) /\ Current(e) /\ ExecuteTask(Top(e.group), e)
  BY DEF ExecuteNext, Step
<1>2. PICK t : t = Top(e.group)
  OBVIOUS
<1>3. KernelInv /\ ReadyTight /\ OnSchedule
  BY DEF StreamInv
<1>4. t \in ready /\ t \in Tasks /\ t \notin DOMAIN ran
  BY <1>1, <1>2, <1>3, NextIsReady
<1>5. graph' = graph /\ Account(t)
  BY <1>1, <1>2 DEF ExecuteTask
<1>6. First(Now) = t
  BY <1>1, <1>2, StepIsFirst
<1>7. PlaceIn(Now, t) = Now'
  BY <1>3, <1>4, <1>5, StepPlaces
<1>8. DOMAIN ran' = DOMAIN ran \cup {t} /\ DOMAIN ran' \subseteq Tasks
  BY <1>3, <1>4, <1>5 DEF Account, KernelInv, TasksTyped
<1>9. PICK n : n = Cardinality(DOMAIN ran)
  OBVIOUS
<1>10. /\ IsFiniteSet(DOMAIN ran) /\ n \in Nat
       /\ IsFiniteSet(DOMAIN ran') /\ Cardinality(DOMAIN ran') = n + 1
  BY <1>3, <1>4, <1>8, <1>9, FS_CardinalityType, FS_AddElement DEF OnSchedule
<1>11. n + 1 <= Cardinality(Tasks)
  BY <1>8, <1>10, TasksFinite, FS_Subset
<1>12. Scheduled[n + 1] = After(Scheduled[n])
  BY <1>10, <1>11, ScheduleSteps, TaskCount
<1>13. Scheduled[n + 1] = Now'
  BY <1>3, <1>6, <1>7, <1>9, <1>12 DEF After, OnSchedule
<1>14. Scheduled'[n + 1] = Scheduled[n + 1]
  BY <1>5, <1>10, <1>11, SameSchedule
<1> QED
  BY <1>10, <1>11, <1>13, <1>14 DEF OnSchedule

------------------------------------------------------------------------------
(* The theorems about the loop.                                            *)

\* The loop keeps to the schedule of the complete graph: what is lowered, what has
\* run, and where, are those of the schedule after as many tasks.
LEMMA StreamKept == StreamInv /\ [StreamNext]_streamVars => StreamInv'
<1> SUFFICES ASSUME StreamInv, [StreamNext]_streamVars PROVE StreamInv'
  OBVIOUS
<1>1. KernelNext \/ UNCHANGED kernelVars
  BY LoopIsCaller DEF streamVars
<1>2. KernelInv /\ QueueInv /\ ReadyTight /\ OnSchedule /\ IsStream(graph)
  BY DEF StreamInv
<1>3. KernelInv'
  BY <1>1, <1>2, InvNext
<1>4. QueueInv'
  BY <1>1, <1>2, <1>3, QueueNext
<1>5. ReadyTight'
  BY <1>1, <1>2, TightNext
<1>6. Lowered' /\ EventInv' /\ ChunksFollow'
  BY RequestAdded, ChunkAdded, EventTaken, LoopGoesOn DEF StreamNext
<1>7. graph' = graph
  <2>1. SubmitSome => graph' = graph
    BY DEF SubmitSome, Submit
  <2>2. DropStale \/ Requeue \/ Step => graph' = graph
    BY DEF DropStale, Requeue, Step, ExecuteTask
  <2>3. (\E t \in Tasks : RetainCompleted(t) \/ ReleaseCompleted(t)) => graph' = graph
    BY DEF RetainCompleted, ReleaseCompleted
  <2> QED
    BY <1>1, <2>1, <2>2, <2>3 DEF KernelNext, kernelVars
<1>8. IsStream(graph)'
  BY <1>2, <1>7
<1>9. OnSchedule'
  <2>1. CASE ExecuteNext
    BY <2>1, ScheduleStepped
  <2>2. CASE AddRequest \/ AddChunk
    <3>1. ran' = ran /\ lanes' = lanes
      BY <2>2 DEF AddRequest, AddChunk, Submit
    <3> QED
      BY <1>2, <1>7, <3>1, ScheduleKept
  <2>3. CASE Peek \/ NoChunk \/ ReleaseEvent \/ Finish \/ UNCHANGED streamVars
    <3>1. ran' = ran /\ lanes' = lanes
      BY <2>3 DEF Peek, DropStale, Requeue, NoChunk, ReleaseEvent, ReleaseCompleted, Finish,
                  streamVars, kernelVars, doneState
    <3> QED
      BY <1>2, <1>7, <3>1, ScheduleKept
  <2> QED
    BY <2>1, <2>2, <2>3 DEF StreamNext
<1> QED
  BY <1>3, <1>4, <1>5, <1>6, <1>8, <1>9 DEF StreamInv

\* The invariant holds in every state the loop of execute_incremental_schedule() gets to.
THEOREM StreamInvariant == StreamSpec => []StreamInv
BY StreamStarts, StreamKept, PTL DEF StreamSpec

\* Lowering on demand changes nothing: every task that has run has the start, the
\* end and the lanes of the schedule of the complete graph.
THEOREM RunMatchesBatch == StreamSpec => []MatchesBatch
<1>1. StreamInv => MatchesBatch
  <2> SUFFICES ASSUME StreamInv, NEW t \in DOMAIN ran PROVE ran[t] = Batch[t]
    BY DEF MatchesBatch
  <2>1. PICK n : n = Cardinality(DOMAIN ran)
    OBVIOUS
  <2>2. n \in Nat /\ n <= Cardinality(Tasks) /\ Now = Scheduled[n]
    BY <2>1, FS_CardinalityType DEF StreamInv, OnSchedule
  <2>3. graph \in Graphs /\ IsStream(graph) /\ Now.ran = ran
    BY NowIs DEF StreamInv, KernelInv, TasksTyped
  <2>4. t \in DOMAIN Scheduled[n].ran /\ Scheduled[n].ran[t] = ran[t]
    BY <2>2, <2>3
  <2> QED
    BY <2>2, <2>3, <2>4, ScheduleGrows
<1> QED
  BY <1>1, StreamInvariant, PTL

\* What the loop does to the kernel, a caller of the kernel may do: what is proved
\* of the kernel holds of it.
THEOREM StreamIsKernel == StreamSpec => KernelInit /\ [][KernelNext]_kernelVars
<1>1. StreamInit => KernelInit
  BY DEF StreamInit, KernelInit
<1>2. StreamInv /\ [StreamNext]_streamVars => [KernelNext]_kernelVars
  BY LoopIsCaller DEF streamVars
<1> QED
  BY <1>1, <1>2, StreamInvariant, PTL DEF StreamSpec

==============================================================================
