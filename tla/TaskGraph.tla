------------------------------ MODULE TaskGraph ------------------------------
(***************************************************************************)
(* What a caller may rely on of the event kernel, whatever order it keeps  *)
(* its queues in: a submitted task is placed once, after the tasks it      *)
(* depends on, not before its earliest start, and on lanes that no other   *)
(* task holds at that time.                                                *)
(***************************************************************************)
EXTENDS Integers

CONSTANT Tasks   \* the task identifiers

VARIABLES graph,     \* the tasks' dependencies and demands: given, never changed
          submitted, \* the tasks the kernel has accepted
          schedule   \* [placed tasks -> [start, end, lane]]

graphVars == <<graph, submitted, schedule>>

\* The physical resources task t holds, and for how long it holds resource o.
Holds(t) == {graph.owner[l] : l \in DOMAIN graph.demand[t]}
HoldTime(t, o) ==
  LET l == CHOOSE l \in DOMAIN graph.demand[t] : graph.owner[l] = o
  IN  graph.demand[t][l]

\* Placement p of task t does not overlap the placed tasks on any lane.
LanesFree(t, p) ==
  \A u \in DOMAIN schedule : \A o \in Holds(t) \cap Holds(u) :
    p.lane[o] = schedule[u].lane[o] =>
      \/ schedule[u].start + HoldTime(u, o) <= p.start
      \/ p.start + HoldTime(t, o) <= schedule[u].start

\* Placement p starts when t may start and ends when its last demand ends.
WellPlaced(t, p) ==
  /\ p.start >= graph.earliest[t]
  /\ \A d \in graph.deps[t] : schedule[d].end <= p.start
  /\ p.end >= p.start
  /\ \A o \in Holds(t) : /\ p.lane[o] \in 1 .. graph.capacity[o]
                         /\ p.start + HoldTime(t, o) <= p.end

------------------------------------------------------------------------------

GraphInit ==
  /\ submitted = {}
  /\ schedule = [t \in {} |-> {}]

\* Accept a set of new tasks whose dependencies are all known.
Accept ==
  /\ submitted \subseteq submitted'
  /\ \A t \in submitted' \ submitted :
       t \in Tasks /\ graph.deps[t] \subseteq submitted'
  /\ UNCHANGED <<graph, schedule>>

\* Place one task; every placement made before it stays.
Place(t) ==
  /\ t \in submitted \ DOMAIN schedule
  /\ graph.deps[t] \subseteq DOMAIN schedule
  /\ DOMAIN schedule' = DOMAIN schedule \cup {t}
  /\ \A u \in DOMAIN schedule : schedule'[u] = schedule[u]
  /\ WellPlaced(t, schedule'[t])
  /\ LanesFree(t, schedule'[t])
  /\ UNCHANGED <<graph, submitted>>

GraphNext == Accept \/ \E t \in Tasks : Place(t)

GraphSpec == GraphInit /\ [][GraphNext]_graphVars
==============================================================================
