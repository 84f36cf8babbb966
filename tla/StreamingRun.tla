---------------------------- MODULE StreamingRun ----------------------------
(***************************************************************************)
(* execute_incremental_schedule() (streaming_des.py) drives the kernel: a  *)
(* request is lowered and submitted when its arrival is the next event, in *)
(* chunks; the next chunk of a request is submitted when the terminal task *)
(* of the last one has been executed, before that completion is released.  *)
(* A graph of this module also has                                         *)
(*   requests: a sequence, in the order of arrival, of                     *)
(*     [arrival, marker, chunks, terminals]: the time of arrival, the task *)
(*     that stands for it, the sets of tasks of the chunks, and the        *)
(*     terminal task of each chunk.                                        *)
(***************************************************************************)
EXTENDS EventKernel

RequestStream == [arrival : Nat, marker : Tasks,
                  chunks : Seq(SUBSET Tasks), terminals : Seq(Tasks)]

\* A request is a marker of its arrival, which waits for nothing and takes nothing,
\* and other tasks, each of which waits for one of its own chunk or for the terminal
\* of the chunk before.
IsRequest(g, r) ==
  /\ Len(r.chunks) > 0 /\ Len(r.terminals) = Len(r.chunks)
  /\ \A k \in DOMAIN r.chunks : r.terminals[k] \in r.chunks[k]
  /\ r.marker \in r.chunks[1] /\ g.deps[r.marker] = {}
  /\ DOMAIN g.demand[r.marker] = {} /\ g.earliest[r.marker] = r.arrival
  /\ \A k \in DOMAIN r.chunks : \A t \in r.chunks[k] \ {r.marker} :
       \/ g.deps[t] \cap r.chunks[k] # {}
       \/ k > 1 /\ r.terminals[k - 1] \in g.deps[t]

\* Every task belongs to one chunk of one request, the requests come by arrival and,
\* at one time, by name, and no tasks wait for each other.
IsStream(g) ==
  /\ g.requests \in Seq(RequestStream)
  /\ \A i \in DOMAIN g.requests : IsRequest(g, g.requests[i])
  /\ \A t \in Tasks : \E i \in DOMAIN g.requests :
       \E k \in DOMAIN g.requests[i].chunks : t \in g.requests[i].chunks[k]
  /\ \A i, j \in DOMAIN g.requests :
       \A k \in DOMAIN g.requests[i].chunks : \A m \in DOMAIN g.requests[j].chunks :
         g.requests[i].chunks[k] \cap g.requests[j].chunks[m] # {} => i = j /\ k = m
  /\ \A i, j \in DOMAIN g.requests : i < j =>
       Precedes(<<g.requests[i].arrival, g.rank[g.requests[i].marker]>>,
                <<g.requests[j].arrival, g.rank[g.requests[j].marker]>>)
  /\ \A part \in (SUBSET Tasks) \ {{}} : \E t \in part : g.deps[t] \cap part = {}

VARIABLES pc,      \* where the loop is: "loop", "observe", "release", "done"
          next,    \* next_request: position in the requests
          stream,  \* streams: position of each request in its chunks, 0 before
          event    \* the task step() has returned, as a set

driverVars == <<pc, next, stream, event>>
streamVars == <<kernelVars, driverVars>>

Requests == DOMAIN graph.requests
Request(i) == graph.requests[i]

------------------------------------------------------------------------------

StreamInit ==
  /\ graph \in {g \in Graphs : IsStream(g)} /\ KernelStart
  /\ pc = "loop" /\ next = 1
  /\ stream = [i \in Requests |-> 0]
  /\ event = {}

\* _arrival_key(): what the key of the arrival task will be.
ArrivalKey(i) ==
  LET at == Request(i).arrival
  IN  <<at, at, 0, at, graph.rank[Request(i).marker]>>

HasNext == next \in Requests
ArrivalWhenIdle == HasNext /\ readyHeap = {}   \* mutant
ArrivalDue ==
  /\ HasNext
  /\ readyHeap # {} => ~Precedes(ReadyKey(NextTask), ArrivalKey(next))

\* peek_ready_key() skips what is stale before the loop decides.
Peek ==
  /\ pc = "loop"
  /\ DropStale \/ Requeue
  /\ UNCHANGED driverVars

AddRequest ==
  /\ pc = "loop" /\ Peeked /\ ArrivalDue
  /\ Submit(Request(next).chunks[1], {})
  /\ stream' = [stream EXCEPT ![next] = 1]
  /\ next' = next + 1
  /\ UNCHANGED <<pc, event>>

ExecuteNext ==
  /\ pc = "loop" /\ Peeked /\ ~ArrivalDue
  /\ Step
  /\ event' = DOMAIN ran' \ DOMAIN ran
  /\ pc' = "observe"
  /\ UNCHANGED <<next, stream>>

\* The streams whose last submitted chunk ended with the event (streams_by_terminal).
Ended == {i \in Requests : stream[i] > 0 /\ Request(i).terminals[stream[i]] \in event}
FinalEarly(i) == stream[i] >= Len(Request(i).chunks) - 1   \* mutant
Final(i) == stream[i] = Len(Request(i).chunks)
Appended(i) == Request(i).chunks[stream[i] + 1]

AddChunk ==
  /\ pc = "observe"
  /\ \E i \in Ended :
       /\ ~Final(i)
       /\ Submit(Appended(i), {})
       /\ stream' = [stream EXCEPT ![i] = @ + 1]
  /\ pc' = "release"
  /\ UNCHANGED <<next, event>>

NoChunk ==
  /\ pc = "observe"
  /\ \A i \in Ended : Final(i)
  /\ pc' = "release"
  /\ UNCHANGED <<kernelVars, next, stream, event>>

ReleaseEvent ==
  /\ pc = "release"
  /\ \E t \in event : ReleaseCompleted(t)
  /\ pc' = "loop" /\ event' = {}
  /\ UNCHANGED <<next, stream>>

Finish ==
  /\ pc = "loop" /\ ~HasNext /\ tasks = {}
  /\ pc' = "done"
  /\ UNCHANGED <<kernelVars, next, stream, event>>

StreamNext == \/ Peek \/ AddRequest \/ ExecuteNext
              \/ AddChunk \/ NoChunk \/ ReleaseEvent \/ Finish

\* One thread runs the loop to its end.
StreamSpec == StreamInit /\ [][StreamNext]_streamVars /\ WF_streamVars(StreamNext)

------------------------------------------------------------------------------
\* The reference: list scheduling of the complete graph, as a caller would get it
\* who knew every task from the start.

Placed(s) == DOMAIN s.ran
FreeAt(s, o) == Min(Range(s.lanes[o]))
EligibleIn(s) == {t \in Tasks \ Placed(s) : graph.deps[t] \subseteq Placed(s)}
DepsEnd(s, t) == Max({0} \cup {s.ran[d].end : d \in graph.deps[t]})
KeyIn(s, t) ==
  LET eff == Max2(DepsEnd(s, t), graph.earliest[t])
  IN  <<Max({eff} \cup {FreeAt(s, o) : o \in UsedBy(t)}),
        eff, DepsEnd(s, t), graph.earliest[t], graph.rank[t]>>

PlaceIn(s, t) ==
  LET start == KeyIn(s, t)[1]
      lane == [o \in UsedBy(t) |->
                 Min({i \in DOMAIN s.lanes[o] : s.lanes[o][i] = FreeAt(s, o)})]
      end == Max({start} \cup {start + Service(t, o) : o \in UsedBy(t)})
  IN  [ran |-> [u \in Placed(s) \cup {t} |->
                  IF u = t THEN [start |-> start, end |-> end, lane |-> lane]
                           ELSE s.ran[u]],
       lanes |-> [o \in Owners |->
                    IF o \in UsedBy(t)
                    THEN [s.lanes[o] EXCEPT ![lane[o]] = start + Service(t, o)]
                    ELSE s.lanes[o]]]

\* The task that is placed next, and what is placed after n tasks.
First(s) == CHOOSE t \in EligibleIn(s) :
              \A u \in EligibleIn(s) \ {t} : Precedes(KeyIn(s, t), KeyIn(s, u))
Scheduled[n \in 0 .. Cardinality(Tasks)] ==
  IF n = 0
  THEN [ran |-> [t \in {} |-> 0],
        lanes |-> [o \in Owners |-> [i \in 1 .. graph.capacity[o] |-> 0]]]
  ELSE LET s == Scheduled[n - 1] IN PlaceIn(s, First(s))
Batch == Scheduled[Cardinality(Tasks)].ran

------------------------------------------------------------------------------
\* Correctness.

\* Lowering on demand changes nothing: every task starts and ends when, and on the
\* lanes where, it would if the complete graph had been submitted at the start.
MatchesBatch == \A t \in DOMAIN ran : ran[t] = Batch[t]

\* The loop executes every task of every request and ends with nothing retained.
StreamDrains == <>(pc = "done" /\ DOMAIN ran = Tasks /\ completedEnd = << >>)
=============================================================================
