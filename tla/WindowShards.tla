---------------------------- MODULE WindowShards ----------------------------
(***************************************************************************)
(* One point's windows shared by several processes                         *)
(* (native_window_shards.py).  Every process goes through the list running *)
(* the windows nobody has claimed; the primary then goes through it again  *)
(* and takes the saved runs in order.  The processes share only the files  *)
(* of a pass: an action is the work between two looks at those files.      *)
(***************************************************************************)
EXTENDS Naturals, Sequences, FiniteSets

CONSTANTS Primary,   \* the process whose samples count
          Helpers,   \* the processes that only run windows
          None,      \* no process
          Windows,   \* the number of windows of the list
          Scenarios, \* [needs, faulty, first]: what the windows turn out to do
          ZombiesLookAlive \* what alive() answers for a helper that died unreaped

Processes == Helpers \cup {Primary}
Positions == 1 .. Windows

ASSUME NamesDiffer == Primary \notin Helpers /\ None \notin Processes
ASSUME WindowsNat == Windows \in Nat
ASSUME ScenariosWellFormed ==
  \A s \in Scenarios : /\ s.needs \in [Positions -> Nat]
                       /\ s.faulty \subseteq Positions
                       /\ s.first \in Nat
ASSUME AnswerBoolean == ZombiesLookAlive \in BOOLEAN

VARIABLES scenario,
          live,        \* the processes that have not died
          pc,          \* where each process is
          pass,        \* self.passes
          pos,         \* self.position, from 1; 0 while the primary stops a whole pass
          prepared,    \* the reservation each process runs windows with
          reservation, \* file reservation.pickle, by pass
          claim,       \* files <position>.claim: [pass, position -> owner]
          record,      \* files <position>.record: <<pass, position, reservation>>
          cancel,      \* files <position>.cancel: <<pass, position>>
          limit,       \* files <position>.limit: <<pass, position>>
          records,     \* the reservations of the runs the primary has taken
          outcome,     \* how sample() has ended in the primary, "sampling" before
          announced    \* history: the limits whose cancels have been touched

files == <<reservation, claim, record, cancel, limit>>
local == <<pc, pass, pos, prepared>>
result == <<records, outcome>>
shardVars == <<scenario, live, local, files, result, announced>>

Here(p) == <<pass[p], pos[p]>>
Claimed(p) == Here(p) \in DOMAIN claim

\* _limit() < position
BeyondLimit(p) == \E l \in limit : l[1] = pass[p] /\ l[2] < pos[p]

Recorded(p) == \E r \in record : r[1] = pass[p] /\ r[2] = pos[p]

\* exceeded(record), of the run of a process.
Exceeds(p) == scenario.needs[pos[p]] > prepared[p]

Goto(p, where) == pc' = [pc EXCEPT ![p] = where]
Advance(p) == pos' = [pos EXCEPT ![p] = @ + 1] /\ Goto(p, "check")
Unlink(at) == claim' = [c \in DOMAIN claim \ {at} |-> claim[c]]
Link(p) == claim' = [c \in DOMAIN claim \cup {Here(p)} |->
                       IF c = Here(p) THEN p ELSE claim[c]]
Save(p) == record' = record \cup {<<pass[p], pos[p], prepared[p]>>}

------------------------------------------------------------------------------
\* _begin_pass()

\* The primary opens the next pass with the reservation it was told.
OpenPass ==
  /\ pc[Primary] = "open"
  /\ pass' = [pass EXCEPT ![Primary] = @ + 1]
  /\ pos' = [pos EXCEPT ![Primary] = 1]
  /\ reservation' = Append(reservation, prepared[Primary])
  /\ Goto(Primary, "check")
  /\ UNCHANGED <<scenario, live, prepared, claim, record, cancel, limit, result, announced>>

JoinKeeping(h) ==   \* mutant: the reservation of the pass is not read
  /\ pc[h] = "wait" /\ pass[h] + 1 <= Len(reservation)
  /\ pass' = [pass EXCEPT ![h] = @ + 1]
  /\ pos' = [pos EXCEPT ![h] = 1]
  /\ Goto(h, "check")
  /\ UNCHANGED <<scenario, live, prepared, files, result, announced>>

\* A helper goes to the pass after its last one when that is open.
JoinPass(h) ==
  /\ pc[h] = "wait" /\ pass[h] + 1 <= Len(reservation)
  /\ pass' = [pass EXCEPT ![h] = @ + 1]
  /\ pos' = [pos EXCEPT ![h] = 1]
  /\ prepared' = [prepared EXCEPT ![h] = reservation[pass[h] + 1]]
  /\ Goto(h, "check")
  /\ UNCHANGED <<scenario, live, files, result, announced>>

------------------------------------------------------------------------------
\* _execute(): the list is only being executed.

EndList(p) ==
  /\ pc[p] = "check" /\ pos[p] > Windows
  /\ IF p = Primary
       THEN pos' = [pos EXCEPT ![p] = 1] /\ Goto(p, "look")
       ELSE UNCHANGED pos /\ Goto(p, "wait")
  /\ UNCHANGED <<scenario, live, pass, prepared, files, result, announced>>

CheckLimit(p) ==
  /\ pc[p] = "check" /\ pos[p] <= Windows
  /\ IF BeyondLimit(p) THEN Advance(p) ELSE Goto(p, "claim") /\ UNCHANGED pos
  /\ UNCHANGED <<scenario, live, pass, prepared, files, result, announced>>

ClaimWindow(p) ==
  /\ pc[p] = "claim"
  /\ IF Claimed(p)
       THEN Advance(p) /\ UNCHANGED claim
       ELSE Link(p) /\ Goto(p, "recheck") /\ UNCHANGED pos
  /\ UNCHANGED <<scenario, live, pass, prepared, reservation, record, cancel, limit, result, announced>>

RunAtOnce(p) ==   \* mutant: the limit is not looked at again
  /\ pc[p] = "recheck"
  /\ Goto(p, "run")
  /\ UNCHANGED <<scenario, live, pass, pos, prepared, files, result, announced>>

\* A limit set just before this claim did not see it to cancel it.
RecheckLimit(p) ==
  /\ pc[p] = "recheck"
  /\ IF BeyondLimit(p)
       THEN Unlink(Here(p)) /\ Advance(p)
       ELSE UNCHANGED <<claim, pos>> /\ Goto(p, "run")
  /\ UNCHANGED <<scenario, live, pass, prepared, reservation, record, cancel, limit, result, announced>>

RunWindow(p) ==
  /\ pc[p] = "run" /\ pos[p] \notin scenario.faulty
  /\ Save(p)
  /\ IF Exceeds(p) THEN Goto(p, "limit") /\ UNCHANGED pos ELSE Advance(p)
  /\ UNCHANGED <<scenario, live, pass, prepared, reservation, claim, cancel, limit, result, announced>>

AbandonKeeping(p) ==   \* mutant: the claim stays
  /\ pc[p] = "run"
  /\ Advance(p)
  /\ UNCHANGED <<scenario, live, pass, prepared, files, result, announced>>

\* The run polls its cancel file, or ends with an error: a window's own, or one of
\* this process.  The claim goes; the error counts when the primary meets it.
AbandonWindow(p) ==
  /\ pc[p] = "run"
  /\ Unlink(Here(p)) /\ Advance(p)
  /\ UNCHANGED <<scenario, live, pass, prepared, reservation, record, cancel, limit, result, announced>>

------------------------------------------------------------------------------
\* _stop_after(): the limit first, the cancels after.

StopLimit(p) ==
  /\ pc[p] = "limit"
  /\ limit' = limit \cup {Here(p)}
  /\ Goto(p, "cancel")
  /\ UNCHANGED <<scenario, live, pass, pos, prepared, reservation, claim, record, cancel, result, announced>>

StopCancel(p) ==
  /\ pc[p] = "cancel"
  /\ cancel' = cancel \cup {c \in DOMAIN claim : c[1] = pass[p] /\ c[2] > pos[p]}
  /\ announced' = announced \cup {Here(p)}
  /\ IF pos[p] = 0 THEN Goto(p, "open") /\ UNCHANGED pos ELSE Advance(p)
  /\ UNCHANGED <<scenario, live, pass, prepared, reservation, claim, record, limit, result>>

------------------------------------------------------------------------------
\* _collect(), in the primary, and the loop around sample() that raises the reservation.

End(how) == outcome' = how /\ Goto(Primary, "ended")

\* The reservation from the runs of this list so far.
Raised == CHOOSE r \in {scenario.needs[j] : j \in 1 .. pos[Primary]} :
            \A j \in 1 .. pos[Primary] : scenario.needs[j] <= r

TakeRecord ==
  /\ pc[Primary] = "look" /\ pos[Primary] <= Windows
  /\ \E r \in record :
       /\ r[1] = pass[Primary] /\ r[2] = pos[Primary]
       /\ IF Exceeds(Primary)
            THEN /\ records' = << >>
                 /\ prepared' = [prepared EXCEPT ![Primary] = Raised]
                 /\ pos' = [pos EXCEPT ![Primary] = 0]
                 /\ Goto(Primary, "limit")
            ELSE /\ records' = Append(records, r[3])
                 /\ pos' = [pos EXCEPT ![Primary] = @ + 1]
                 /\ UNCHANGED <<prepared, pc>>
  /\ UNCHANGED <<scenario, live, pass, files, outcome, announced>>

Done ==
  /\ pc[Primary] = "look" /\ pos[Primary] > Windows
  /\ End("done")
  /\ UNCHANGED <<scenario, live, pass, pos, prepared, files, records, announced>>

NotRecorded ==
  /\ pc[Primary] = "look" /\ pos[Primary] <= Windows /\ ~Recorded(Primary)
  /\ Goto(Primary, "owner")
  /\ UNCHANGED <<scenario, live, pass, pos, prepared, files, result, announced>>

AliveHere(p) == p = Primary   \* mutant: every other owner counts as dead
Alive(p) == p \in live \/ ZombiesLookAlive

\* Poll again while the owner lives, take the window over when it has died.
AskOwner ==
  /\ pc[Primary] = "owner"
  /\ IF ~Claimed(Primary) THEN Goto(Primary, "grab")
     ELSE IF Alive(claim[Here(Primary)]) THEN Goto(Primary, "look")
     ELSE Goto(Primary, "drop")
  /\ UNCHANGED <<scenario, live, pass, pos, prepared, files, result, announced>>

DropClaim ==
  /\ pc[Primary] = "drop"
  /\ Unlink(Here(Primary))
  /\ Goto(Primary, "grab")
  /\ UNCHANGED <<scenario, live, pass, pos, prepared, reservation, record, cancel, limit, result, announced>>

GrabWindow ==
  /\ pc[Primary] = "grab"
  /\ IF Claimed(Primary)
       THEN Goto(Primary, "look") /\ UNCHANGED claim
       ELSE Link(Primary) /\ Goto(Primary, "rerun")
  /\ UNCHANGED <<scenario, live, pass, pos, prepared, reservation, record, cancel, limit, result, announced>>

RerunWindow ==
  /\ pc[Primary] = "rerun"
  /\ IF pos[Primary] \in scenario.faulty
       THEN End("failed") /\ UNCHANGED record
       ELSE Save(Primary) /\ Goto(Primary, "look") /\ UNCHANGED outcome
  /\ UNCHANGED <<scenario, live, pass, pos, prepared, reservation, claim, cancel, limit, records, announced>>

------------------------------------------------------------------------------
\* Ends of processes.

\* raise_if_cancelled() sees the user's stop or the deadline.
StopPrimary ==
  /\ pc[Primary] \in {"run", "look", "rerun"}
  /\ End("stopped")
  /\ UNCHANGED <<scenario, live, pass, pos, prepared, files, records, announced>>

\* A helper is killed, stopped or out of budget, at any point.
Die(h) ==
  /\ live' = live \ {h}
  /\ pc' = [pc EXCEPT ![h] = "dead"]
  /\ pass' = [pass EXCEPT ![h] = 0] /\ pos' = [pos EXCEPT ![h] = 1]
  /\ prepared' = [prepared EXCEPT ![h] = 0]
  /\ UNCHANGED <<scenario, files, result, announced>>

\* Its stdin closes: exit_with_primary().
ExitWithPrimary(h) == outcome # "sampling" /\ Die(h)

------------------------------------------------------------------------------

ShardInit ==
  /\ scenario \in Scenarios
  /\ live = Processes
  /\ pc = [p \in Processes |-> IF p = Primary THEN "open" ELSE "wait"]
  /\ pass = [p \in Processes |-> 0]
  /\ pos = [p \in Processes |-> 1]
  /\ prepared = [p \in Processes |-> scenario.first]
  /\ reservation = << >>
  /\ claim = [c \in {} |-> None]
  /\ record = {} /\ cancel = {} /\ limit = {}
  /\ records = << >> /\ outcome = "sampling" /\ announced = {}

Execute(p) == \/ EndList(p) \/ CheckLimit(p) \/ ClaimWindow(p) \/ RecheckLimit(p)
              \/ RunWindow(p) \/ AbandonWindow(p) \/ StopLimit(p) \/ StopCancel(p)

Collect == \/ TakeRecord \/ Done \/ NotRecorded \/ AskOwner \/ DropClaim
           \/ GrabWindow \/ RerunWindow

PrimaryStep == OpenPass \/ Execute(Primary) \/ Collect
HelperStep(h) == h \in live /\ (JoinPass(h) \/ Execute(h))

ShardNext ==
  \/ PrimaryStep \/ StopPrimary
  \/ \E h \in Helpers : HelperStep(h)
  \/ \E h \in live \cap Helpers : Die(h)

\* A process that lives goes on, and a run comes to an end; a helper whose primary
\* has ended exits.  Nobody has to die before that.
ShardFairness ==
  /\ WF_shardVars(PrimaryStep)
  /\ \A h \in Helpers : WF_shardVars(HelperStep(h)) /\ WF_shardVars(ExitWithPrimary(h))

ShardSpec == ShardInit /\ [][ShardNext]_shardVars /\ ShardFairness

------------------------------------------------------------------------------
\* Correctness.

Running(p) == p \in live /\ pc[p] \in {"run", "rerun"}

\* No two processes run the same window of a pass at the same time, although a claim
\* is taken from an owner that is thought dead.
RunExclusively ==
  \A p, q \in Processes : Running(p) /\ Running(q) /\ Here(p) = Here(q) => p = q

\* A window beyond a limit is cancelled while it runs, unless the process that set the
\* limit has not come, or did not live, to the cancels.
UselessRunsCancelled ==
  \A p \in live : pc[p] = "run" /\ BeyondLimit(p) =>
    \/ Here(p) \in cancel
    \/ \E l \in limit \ announced : l[1] = pass[p] /\ l[2] < pos[p]

\* Whoever runs the windows and dies meanwhile, the primary takes the runs one process
\* would have made: same order, same reservations, same error at the same place.
OneProcess == INSTANCE WindowList WITH
                needs <- scenario.needs, faulty <- scenario.faulty,
                reservation <- prepared[Primary]
ImplementsOneProcess == OneProcess!ListSpec

\* native_window_shards.py:13: the primary runs a window itself when its owner died.
LostWindowsRun ==
  \A i \in Positions :
    /\ pc[Primary] = "look" /\ pos[Primary] = i
    /\ Claimed(Primary) /\ claim[Here(Primary)] \notin live
    ~> outcome # "sampling" \/ Recorded(Primary) \/ pos[Primary] # i

\* sample() comes to an end and takes the helpers with it.
SampleEnds == <>(outcome # "sampling" /\ live = {Primary})
==============================================================================
