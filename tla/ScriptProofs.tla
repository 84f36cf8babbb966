----------------------------- MODULE ScriptProofs ------------------------------
(***************************************************************************)
(* What the scripts promise, for any number of points, windows, processes  *)
(* and managers.                                                           *)
(*   Window shards: windows are run exclusively, useless runs are          *)
(*   cancelled, and the runs the primary takes are those of one process.   *)
(*   Scan queue: one job per medium, no point lost or taken twice, and no  *)
(*   reusable result replaced.                                             *)
(***************************************************************************)
EXTENDS WindowShards, ScanQueue, CollectionTheorems

\* What a reservation can be: a number, or the CHOOSE of Raised (of a set it need not be
\* known to have a largest element of).
Reservations ==
  Nat \cup {CHOOSE r \in {s.needs[j] : j \in 1 .. i} :
               \A j \in 1 .. i : s.needs[j] <= r : s \in Scenarios, i \in Nat}

\* Where a process is while it goes through the list, and the primary when it collects.
Listing == {"check", "claim", "recheck", "run", "limit", "cancel"}
Collecting == {"look", "owner", "drop", "grab", "rerun"}

PlacesOK ==
  /\ live \subseteq Processes /\ Primary \in live
  /\ pc \in [Processes -> Listing \cup Collecting \cup {"open", "wait", "ended", "dead"}]
  /\ \A h \in Helpers : pc[h] \in Listing \cup {"wait", "dead"}
  /\ \A h \in Helpers : pc[h] = "dead" \/ h \in live
  /\ pc[Primary] \notin {"wait", "dead"}

PositionsOK ==
  /\ pos \in [Processes -> Nat]
  /\ \A h \in Helpers : pos[h] # 0

DataOK ==
  /\ scenario \in Scenarios
  /\ pass \in [Processes -> Nat]
  /\ prepared \in [Processes -> Reservations]
  /\ reservation \in Seq(Reservations)
  /\ claim \in [DOMAIN claim -> Processes]
  /\ records \in Seq(Reservations)

TypeOK == PlacesOK /\ PositionsOK /\ DataOK

\* A process has the claim of the window it is about to run or runs, and a claim the
\* primary is about to drop belongs to a process that has died.
HoldsClaim(p) ==
  pc[p] \in {"recheck", "run", "rerun"} => Here(p) \in DOMAIN claim /\ claim[Here(p)] = p
DropsDead ==
  pc[Primary] = "drop" => Here(Primary) \in DOMAIN claim /\ claim[Here(Primary)] \notin live

ClaimsHeld == (\A p \in Processes : HoldsClaim(p)) /\ DropsDead

\* The cancels of a limit are touched after the limit.
AfterLimit(p) == pc[p] = "cancel" => Here(p) \in limit
LimitsFirst == announced \subseteq limit /\ \A p \in Processes : AfterLimit(p)

\* UselessRunsCancelled, process by process.
RunsUsefully(p) ==
  pc[p] = "run" /\ BeyondLimit(p) =>
    \/ Here(p) \in cancel
    \/ \E l \in limit \ announced : l[1] = pass[p] /\ l[2] < pos[p]
RunsUseful == \A p \in Processes : RunsUsefully(p)

\* Everybody runs the windows of a pass with the reservation of that pass, and what is
\* recorded ran with it and did not fail.
PassesAgree ==
  /\ Len(reservation) = pass[Primary]
  /\ \A p \in Processes :
       pc[p] \in Listing \cup Collecting /\ pos[p] # 0 =>
         pass[p] \in 1 .. Len(reservation) /\ prepared[p] = reservation[pass[p]]
  /\ \A r \in record :
       /\ r[1] \in 1 .. Len(reservation) /\ r[3] = reservation[r[1]]
       /\ r[2] \notin scenario.faulty

\* What the primary has taken so far.
Progress ==
  /\ outcome = "sampling" <=> pc[Primary] # "ended"
  /\ pc[Primary] \in Listing \cup {"open"} => records = << >>
  /\ pc[Primary] \in Collecting => pos[Primary] = Len(records) + 1
  /\ pos[Primary] = 0 => pc[Primary] \in {"limit", "cancel", "open"}

IInv == TypeOK /\ ClaimsHeld /\ LimitsFirst /\ RunsUseful /\ PassesAgree /\ Progress

------------------------------------------------------------------------------
(* The steps, one by one. *)

\* A step is one of these: helpers that have died take none.
LEMMA StepCases ==
  ASSUME [ShardNext]_shardVars, TypeOK
  PROVE  \/ OpenPass \/ TakeRecord \/ Done \/ NotRecorded \/ AskOwner \/ DropClaim
         \/ GrabWindow \/ RerunWindow \/ StopPrimary
         \/ \E p \in live : \/ EndList(p) \/ CheckLimit(p) \/ ClaimWindow(p) \/ RecheckLimit(p)
                            \/ RunWindow(p) \/ AbandonWindow(p) \/ StopLimit(p) \/ StopCancel(p)
         \/ \E h \in live \cap Helpers : JoinPass(h) \/ Die(h)
         \/ UNCHANGED shardVars
  BY DEF ShardNext, PrimaryStep, HelperStep, Execute, Collect, TypeOK, PlacesOK, Processes

\* What the primary raises the reservation to is one, and so is a first reservation.
LEMMA ReservationsGiven ==
  /\ Nat \subseteq Reservations
  /\ scenario \in Scenarios /\ pos[Primary] \in Nat => Raised \in Reservations
  BY DEF Reservations, Raised

\* The processes stay where they can be.
LEMMA PlacesStep ==
  ASSUME TypeOK, [ShardNext]_shardVars
  PROVE  PlacesOK'
<1> USE NamesDiffer DEF TypeOK, PlacesOK, PositionsOK, Listing, Collecting, Processes, Positions, files, local, result
<1>1. CASE OpenPass
  BY <1>1 DEF OpenPass, Goto
<1>2. ASSUME NEW p \in live, EndList(p) PROVE PlacesOK'
  BY <1>2 DEF EndList, Goto
<1>3. ASSUME NEW p \in live, CheckLimit(p) PROVE PlacesOK'
  BY <1>3 DEF CheckLimit, Advance, Goto
<1>4. ASSUME NEW p \in live, ClaimWindow(p) PROVE PlacesOK'
  BY <1>4 DEF ClaimWindow, Advance, Goto, Link, Claimed, Here
<1>5. ASSUME NEW p \in live, RecheckLimit(p) PROVE PlacesOK'
  BY <1>5 DEF RecheckLimit, Advance, Goto, Unlink, Here
<1>6. ASSUME NEW p \in live, RunWindow(p) PROVE PlacesOK'
  BY <1>6 DEF RunWindow, Advance, Goto, Save
<1>7. ASSUME NEW p \in live, AbandonWindow(p) PROVE PlacesOK'
  BY <1>7 DEF AbandonWindow, Advance, Goto, Unlink, Here
<1>8. ASSUME NEW p \in live, StopLimit(p) PROVE PlacesOK'
  BY <1>8 DEF StopLimit, Goto, Here
<1>9. ASSUME NEW p \in live, StopCancel(p) PROVE PlacesOK'
  BY <1>9 DEF StopCancel, Advance, Goto, Here
<1>10. CASE TakeRecord
  BY <1>10 DEF TakeRecord, Goto
<1>11. CASE Done
  BY <1>11 DEF Done, End, Goto
<1>12. CASE NotRecorded
  BY <1>12 DEF NotRecorded, Goto
<1>13. CASE AskOwner
  BY <1>13 DEF AskOwner, Goto
<1>14. CASE DropClaim
  BY <1>14 DEF DropClaim, Goto, Unlink, Here
<1>15. CASE GrabWindow
  BY <1>15 DEF GrabWindow, Goto, Link, Claimed, Here
<1>16. CASE RerunWindow
  BY <1>16 DEF RerunWindow, End, Goto, Save
<1>17. CASE StopPrimary
  BY <1>17 DEF StopPrimary, End, Goto
<1>18. ASSUME NEW h \in live \cap Helpers, JoinPass(h) PROVE PlacesOK'
  BY <1>18 DEF JoinPass, Goto
<1>19. ASSUME NEW h \in live \cap Helpers, Die(h) PROVE PlacesOK'
  BY <1>19 DEF Die
<1>20. CASE UNCHANGED shardVars
  BY <1>20 DEF shardVars, files, local, result
<1> QED
  BY <1>1, <1>2, <1>3, <1>4, <1>5, <1>6, <1>7, <1>8, <1>9, <1>10, <1>11, <1>12, <1>13, <1>14, <1>15, <1>16, <1>17, <1>18, <1>19, <1>20, StepCases

\* Positions count, and only the primary's can be 0.
LEMMA PositionsStep ==
  ASSUME TypeOK, [ShardNext]_shardVars
  PROVE  PositionsOK'
<1> USE NamesDiffer DEF TypeOK, PlacesOK, PositionsOK, Processes, Positions, files, local, result
<1>1. CASE OpenPass
  BY <1>1 DEF OpenPass, Goto
<1>2. ASSUME NEW p \in live, EndList(p) PROVE PositionsOK'
  BY <1>2 DEF EndList, Goto
<1>3. ASSUME NEW p \in live, CheckLimit(p) PROVE PositionsOK'
  BY <1>3 DEF CheckLimit, Advance, Goto
<1>4. ASSUME NEW p \in live, ClaimWindow(p) PROVE PositionsOK'
  BY <1>4 DEF ClaimWindow, Advance, Goto, Link, Claimed, Here
<1>5. ASSUME NEW p \in live, RecheckLimit(p) PROVE PositionsOK'
  BY <1>5 DEF RecheckLimit, Advance, Goto, Unlink, Here
<1>6. ASSUME NEW p \in live, RunWindow(p) PROVE PositionsOK'
  BY <1>6 DEF RunWindow, Advance, Goto, Save
<1>7. ASSUME NEW p \in live, AbandonWindow(p) PROVE PositionsOK'
  BY <1>7 DEF AbandonWindow, Advance, Goto, Unlink, Here
<1>8. ASSUME NEW p \in live, StopLimit(p) PROVE PositionsOK'
  BY <1>8 DEF StopLimit, Goto, Here
<1>9. ASSUME NEW p \in live, StopCancel(p) PROVE PositionsOK'
  BY <1>9 DEF StopCancel, Advance, Goto, Here
<1>10. CASE TakeRecord
  BY <1>10 DEF TakeRecord, Goto
<1>11. CASE Done
  BY <1>11 DEF Done, End, Goto
<1>12. CASE NotRecorded
  BY <1>12 DEF NotRecorded, Goto
<1>13. CASE AskOwner
  BY <1>13 DEF AskOwner, Goto
<1>14. CASE DropClaim
  BY <1>14 DEF DropClaim, Goto, Unlink, Here
<1>15. CASE GrabWindow
  BY <1>15 DEF GrabWindow, Goto, Link, Claimed, Here
<1>16. CASE RerunWindow
  BY <1>16 DEF RerunWindow, End, Goto, Save
<1>17. CASE StopPrimary
  BY <1>17 DEF StopPrimary, End, Goto
<1>18. ASSUME NEW h \in live \cap Helpers, JoinPass(h) PROVE PositionsOK'
  BY <1>18 DEF JoinPass, Goto
<1>19. ASSUME NEW h \in live \cap Helpers, Die(h) PROVE PositionsOK'
  BY <1>19 DEF Die
<1>20. CASE UNCHANGED shardVars
  BY <1>20 DEF shardVars, files, local, result
<1> QED
  BY <1>1, <1>2, <1>3, <1>4, <1>5, <1>6, <1>7, <1>8, <1>9, <1>10, <1>11, <1>12, <1>13, <1>14, <1>15, <1>16, <1>17, <1>18, <1>19, <1>20, StepCases

\* The values keep their types.
LEMMA DataStep ==
  ASSUME TypeOK, PassesAgree, [ShardNext]_shardVars
  PROVE  DataOK'
<1> USE NamesDiffer, ReservationsGiven DEF TypeOK, PlacesOK, PositionsOK, DataOK, Processes, Positions, files, local, result
<1>1. CASE OpenPass
  BY <1>1 DEF OpenPass, Goto
<1>2. ASSUME NEW p \in live, EndList(p) PROVE DataOK'
  BY <1>2 DEF EndList, Goto
<1>3. ASSUME NEW p \in live, CheckLimit(p) PROVE DataOK'
  BY <1>3 DEF CheckLimit, Advance, Goto
<1>4. ASSUME NEW p \in live, ClaimWindow(p) PROVE DataOK'
  BY <1>4 DEF ClaimWindow, Advance, Goto, Link, Claimed, Here
<1>5. ASSUME NEW p \in live, RecheckLimit(p) PROVE DataOK'
  BY <1>5 DEF RecheckLimit, Advance, Goto, Unlink, Here
<1>6. ASSUME NEW p \in live, RunWindow(p) PROVE DataOK'
  BY <1>6 DEF RunWindow, Advance, Goto, Save
<1>7. ASSUME NEW p \in live, AbandonWindow(p) PROVE DataOK'
  BY <1>7 DEF AbandonWindow, Advance, Goto, Unlink, Here
<1>8. ASSUME NEW p \in live, StopLimit(p) PROVE DataOK'
  BY <1>8 DEF StopLimit, Goto, Here
<1>9. ASSUME NEW p \in live, StopCancel(p) PROVE DataOK'
  BY <1>9 DEF StopCancel, Advance, Goto, Here
<1>10. CASE TakeRecord
  <2>1. \A r \in record : Append(records, r[3]) \in Seq(Reservations)
    BY DEF PassesAgree
  <2>2. records' = << >> \/ \E r \in record : records' = Append(records, r[3])
    BY <1>10 DEF TakeRecord, Goto
  <2>3. prepared' \in [Processes -> Reservations]
    BY <1>10 DEF TakeRecord, Goto
  <2>4. UNCHANGED <<scenario, pass, reservation, claim>>
    BY <1>10 DEF TakeRecord, Goto
  <2>5. << >> \in Seq(Reservations)
    OBVIOUS
  <2>6. records' \in Seq(Reservations)
    BY <2>1, <2>2, <2>5
  <2> QED
    BY <2>3, <2>4, <2>6
<1>11. CASE Done
  BY <1>11 DEF Done, End, Goto
<1>12. CASE NotRecorded
  BY <1>12 DEF NotRecorded, Goto
<1>13. CASE AskOwner
  BY <1>13 DEF AskOwner, Goto
<1>14. CASE DropClaim
  BY <1>14 DEF DropClaim, Goto, Unlink, Here
<1>15. CASE GrabWindow
  BY <1>15 DEF GrabWindow, Goto, Link, Claimed, Here
<1>16. CASE RerunWindow
  BY <1>16 DEF RerunWindow, End, Goto, Save
<1>17. CASE StopPrimary
  BY <1>17 DEF StopPrimary, End, Goto
<1>18. ASSUME NEW h \in live \cap Helpers, JoinPass(h) PROVE DataOK'
  BY <1>18 DEF JoinPass, Goto
<1>19. ASSUME NEW h \in live \cap Helpers, Die(h) PROVE DataOK'
  BY <1>19 DEF Die
<1>20. CASE UNCHANGED shardVars
  BY <1>20 DEF shardVars, files, local, result
<1> QED
  BY <1>1, <1>2, <1>3, <1>4, <1>5, <1>6, <1>7, <1>8, <1>9, <1>10, <1>11, <1>12, <1>13, <1>14, <1>15, <1>16, <1>17, <1>18, <1>19, <1>20, StepCases

\* Claims are given up only by their owner, or taken from a dead one.
LEMMA ClaimsStep ==
  ASSUME TypeOK, ClaimsHeld, [ShardNext]_shardVars
  PROVE  ClaimsHeld'
<1> USE NamesDiffer DEF TypeOK, PlacesOK, PositionsOK, DataOK, ClaimsHeld, HoldsClaim, DropsDead, Listing, Here, Processes, Positions, files, local, result
<1>1. CASE OpenPass
  BY <1>1 DEF OpenPass, Goto
<1>2. ASSUME NEW p \in live, EndList(p) PROVE ClaimsHeld'
  BY <1>2, ZenonT(60) DEF EndList, Goto
<1>3. ASSUME NEW p \in live, CheckLimit(p) PROVE ClaimsHeld'
  <2>1. ASSUME NEW q \in Processes, q # p PROVE HoldsClaim(q)'
    BY <1>3, <2>1 DEF CheckLimit, Advance, Goto
  <2>2. HoldsClaim(p)'
    BY <1>3 DEF CheckLimit, Advance, Goto
  <2>3. DropsDead'
    BY <1>3, ZenonT(60) DEF CheckLimit, Advance, Goto
  <2> QED
    BY <2>1, <2>2, <2>3
<1>4. ASSUME NEW p \in live, ClaimWindow(p) PROVE ClaimsHeld'
  <2>1. CASE Claimed(p)
    BY <1>4, <2>1, SMTT(30) DEF ClaimWindow, Advance, Goto
  <2>2. CASE ~Claimed(p)
    <3>1. /\ <<pass[p], pos[p]>> \notin DOMAIN claim
          /\ DOMAIN claim' = DOMAIN claim \cup {<<pass[p], pos[p]>>}
          /\ claim'[<<pass[p], pos[p]>>] = p
          /\ \A x \in DOMAIN claim : claim'[x] = claim[x]
      <4>1. Link(p) /\ Here(p) \notin DOMAIN claim
        BY <1>4, <2>2 DEF ClaimWindow, Claimed
      <4> QED
        BY <4>1 DEF Link
    <3>2. /\ UNCHANGED <<pass, pos, live>> /\ pc' = [pc EXCEPT ![p] = "recheck"]
      BY <1>4, <2>2 DEF ClaimWindow, Goto
    <3>3. ASSUME NEW q \in Processes, q # p PROVE HoldsClaim(q)'
      BY <3>1, <3>2, <3>3
    <3>4. HoldsClaim(p)'
      BY <3>1, <3>2
    <3>5. DropsDead'
      BY <3>1, <3>2
    <3> QED
      BY <3>3, <3>4, <3>5
  <2> QED
    BY <2>1, <2>2
<1>5. ASSUME NEW p \in live, RecheckLimit(p) PROVE ClaimsHeld'
  <2>0. HoldsClaim(p) /\ pc[p] = "recheck" /\ UNCHANGED <<pass, live>>
    BY <1>5 DEF RecheckLimit, ClaimsHeld
  <2>1. CASE UNCHANGED <<claim, pos>> /\ pc' = [pc EXCEPT ![p] = "run"]
    BY <2>0, <2>1
  <2>2. CASE /\ Unlink(Here(p))
             /\ pos' = [pos EXCEPT ![p] = @ + 1] /\ pc' = [pc EXCEPT ![p] = "check"]
    <3>1. /\ DOMAIN claim' = DOMAIN claim \ {<<pass[p], pos[p]>>}
          /\ \A x \in DOMAIN claim' : claim'[x] = claim[x]
      BY <2>2 DEF Unlink
    <3>2. ASSUME NEW q \in Processes, q # p PROVE HoldsClaim(q)'
      BY <2>0, <2>2, <3>1, <3>2
    <3>3. HoldsClaim(p)'
      BY <2>2
    <3>4. DropsDead'
      BY <2>0, <2>2, <3>1
    <3> QED
      BY <3>2, <3>3, <3>4
  <2> QED
    BY <1>5, <2>1, <2>2 DEF RecheckLimit, Advance, Goto
<1>6. ASSUME NEW p \in live, RunWindow(p) PROVE ClaimsHeld'
  <2>1. ASSUME NEW q \in Processes, q # p PROVE HoldsClaim(q)'
    BY <1>6, <2>1 DEF RunWindow, Advance, Goto, Save
  <2>2. HoldsClaim(p)'
    BY <1>6 DEF RunWindow, Advance, Goto, Save
  <2>3. DropsDead'
    BY <1>6 DEF RunWindow, Advance, Goto, Save
  <2> QED
    BY <2>1, <2>2, <2>3
<1>7. ASSUME NEW p \in live, AbandonWindow(p) PROVE ClaimsHeld'
  BY <1>7 DEF AbandonWindow, Advance, Goto, Unlink, Here
<1>8. ASSUME NEW p \in live, StopLimit(p) PROVE ClaimsHeld'
  <2>1. ASSUME NEW q \in Processes, q # p PROVE HoldsClaim(q)'
    BY <1>8, <2>1 DEF StopLimit, Goto, Here
  <2>2. HoldsClaim(p)'
    BY <1>8 DEF StopLimit, Goto, Here
  <2>3. DropsDead'
    BY <1>8 DEF StopLimit, Goto, Here
  <2> QED
    BY <2>1, <2>2, <2>3
<1>9. ASSUME NEW p \in live, StopCancel(p) PROVE ClaimsHeld'
  <2>1. ASSUME NEW q \in Processes, q # p PROVE HoldsClaim(q)'
    BY <1>9, <2>1 DEF StopCancel, Advance, Goto, Here
  <2>2. HoldsClaim(p)'
    BY <1>9 DEF StopCancel, Advance, Goto, Here
  <2>3. DropsDead'
    BY <1>9 DEF StopCancel, Advance, Goto, Here
  <2> QED
    BY <2>1, <2>2, <2>3
<1>10. CASE TakeRecord
  BY <1>10 DEF TakeRecord, Goto
<1>11. CASE Done
  BY <1>11 DEF Done, End, Goto
<1>12. CASE NotRecorded
  BY <1>12 DEF NotRecorded, Goto
<1>13. CASE AskOwner
  <2>1. ASSUME NEW q \in Processes, q # Primary PROVE HoldsClaim(q)'
    BY <1>13, <2>1 DEF AskOwner, Goto, Alive, Claimed
  <2>2. HoldsClaim(Primary)'
    BY <1>13 DEF AskOwner, Goto, Alive, Claimed
  <2>3. DropsDead'
    BY <1>13 DEF AskOwner, Goto, Alive, Claimed
  <2> QED
    BY <2>1, <2>2, <2>3
<1>14. CASE DropClaim
  BY <1>14 DEF DropClaim, Goto, Unlink, Here
<1>15. CASE GrabWindow
  BY <1>15 DEF GrabWindow, Goto, Link, Claimed, Here
<1>16. CASE RerunWindow
  BY <1>16 DEF RerunWindow, End, Goto, Save
<1>17. CASE StopPrimary
  BY <1>17 DEF StopPrimary, End, Goto
<1>18. ASSUME NEW h \in live \cap Helpers, JoinPass(h) PROVE ClaimsHeld'
  BY <1>18 DEF JoinPass, Goto
<1>19. ASSUME NEW h \in live \cap Helpers, Die(h) PROVE ClaimsHeld'
  BY <1>19 DEF Die
<1>20. CASE UNCHANGED shardVars
  BY <1>20 DEF shardVars, files, local, result
<1> QED
  BY <1>1, <1>2, <1>3, <1>4, <1>5, <1>6, <1>7, <1>8, <1>9, <1>10, <1>11, <1>12, <1>13, <1>14, <1>15, <1>16, <1>17, <1>18, <1>19, <1>20, StepCases

\* A cancel comes after its limit.
LEMMA LimitsStep ==
  ASSUME TypeOK, LimitsFirst, [ShardNext]_shardVars
  PROVE  LimitsFirst'
<1> USE NamesDiffer DEF TypeOK, PlacesOK, PositionsOK, DataOK, LimitsFirst, AfterLimit, Listing, Here, Processes, Positions, files, local, result
<1>1. CASE OpenPass
  BY <1>1 DEF OpenPass, Goto
<1>2. ASSUME NEW p \in live, EndList(p) PROVE LimitsFirst'
  BY <1>2 DEF EndList, Goto
<1>3. ASSUME NEW p \in live, CheckLimit(p) PROVE LimitsFirst'
  BY <1>3 DEF CheckLimit, Advance, Goto
<1>4. ASSUME NEW p \in live, ClaimWindow(p) PROVE LimitsFirst'
  BY <1>4 DEF ClaimWindow, Advance, Goto, Link, Claimed, Here
<1>5. ASSUME NEW p \in live, RecheckLimit(p) PROVE LimitsFirst'
  BY <1>5 DEF RecheckLimit, Advance, Goto, Unlink, Here
<1>6. ASSUME NEW p \in live, RunWindow(p) PROVE LimitsFirst'
  BY <1>6 DEF RunWindow, Advance, Goto, Save
<1>7. ASSUME NEW p \in live, AbandonWindow(p) PROVE LimitsFirst'
  BY <1>7 DEF AbandonWindow, Advance, Goto, Unlink, Here
<1>8. ASSUME NEW p \in live, StopLimit(p) PROVE LimitsFirst'
  BY <1>8 DEF StopLimit, Goto, Here
<1>9. ASSUME NEW p \in live, StopCancel(p) PROVE LimitsFirst'
  <2>1. ASSUME NEW q \in Processes, q # p PROVE AfterLimit(q)'
    BY <1>9, <2>1 DEF StopCancel, Advance, Goto, Here
  <2>2. AfterLimit(p)'
    BY <1>9 DEF StopCancel, Advance, Goto, Here
  <2>3. (announced \subseteq limit)'
    BY <1>9 DEF StopCancel, Advance, Goto, Here
  <2> QED
    BY <2>1, <2>2, <2>3
<1>10. CASE TakeRecord
  BY <1>10 DEF TakeRecord, Goto
<1>11. CASE Done
  BY <1>11 DEF Done, End, Goto
<1>12. CASE NotRecorded
  BY <1>12 DEF NotRecorded, Goto
<1>13. CASE AskOwner
  BY <1>13 DEF AskOwner, Goto
<1>14. CASE DropClaim
  BY <1>14 DEF DropClaim, Goto, Unlink, Here
<1>15. CASE GrabWindow
  BY <1>15 DEF GrabWindow, Goto, Link, Claimed, Here
<1>16. CASE RerunWindow
  BY <1>16 DEF RerunWindow, End, Goto, Save
<1>17. CASE StopPrimary
  BY <1>17 DEF StopPrimary, End, Goto
<1>18. ASSUME NEW h \in live \cap Helpers, JoinPass(h) PROVE LimitsFirst'
  BY <1>18 DEF JoinPass, Goto
<1>19. ASSUME NEW h \in live \cap Helpers, Die(h) PROVE LimitsFirst'
  BY <1>19 DEF Die
<1>20. CASE UNCHANGED shardVars
  BY <1>20 DEF shardVars, files, local, result
<1> QED
  BY <1>1, <1>2, <1>3, <1>4, <1>5, <1>6, <1>7, <1>8, <1>9, <1>10, <1>11, <1>12, <1>13, <1>14, <1>15, <1>16, <1>17, <1>18, <1>19, <1>20, StepCases

\* A run beyond a new limit has been claimed and is cancelled with it.
LEMMA UselessStep ==
  ASSUME TypeOK, ClaimsHeld, LimitsFirst, RunsUseful, [ShardNext]_shardVars
  PROVE  RunsUseful'
<1> USE NamesDiffer DEF TypeOK, PlacesOK, PositionsOK, DataOK, ClaimsHeld, HoldsClaim, LimitsFirst, AfterLimit, RunsUseful, RunsUsefully, BeyondLimit, Listing, Here, Processes, Positions, files, local, result
<1>1. CASE OpenPass
  <2>1. ASSUME NEW q \in Processes, q # Primary PROVE RunsUsefully(q)'
    BY <1>1, <2>1 DEF OpenPass, Goto
  <2>2. RunsUsefully(Primary)'
    BY <1>1 DEF OpenPass, Goto
  <2> QED
    BY <2>1, <2>2 DEF RunsUseful
<1>2. ASSUME NEW p \in live, EndList(p) PROVE RunsUseful'
  <2>1. ASSUME NEW q \in Processes, q # p PROVE RunsUsefully(q)'
    BY <1>2, <2>1 DEF EndList, Goto
  <2>2. RunsUsefully(p)'
    BY <1>2 DEF EndList, Goto
  <2> QED
    BY <2>1, <2>2 DEF RunsUseful
<1>3. ASSUME NEW p \in live, CheckLimit(p) PROVE RunsUseful'
  <2>1. ASSUME NEW q \in Processes, q # p PROVE RunsUsefully(q)'
    BY <1>3, <2>1 DEF CheckLimit, Advance, Goto
  <2>2. RunsUsefully(p)'
    BY <1>3 DEF CheckLimit, Advance, Goto
  <2> QED
    BY <2>1, <2>2 DEF RunsUseful
<1>4. ASSUME NEW p \in live, ClaimWindow(p) PROVE RunsUseful'
  <2>1. ASSUME NEW q \in Processes, q # p PROVE RunsUsefully(q)'
    BY <1>4, <2>1 DEF ClaimWindow, Advance, Goto, Link, Claimed, Here
  <2>2. RunsUsefully(p)'
    BY <1>4 DEF ClaimWindow, Advance, Goto, Link, Claimed, Here
  <2> QED
    BY <2>1, <2>2 DEF RunsUseful
<1>5. ASSUME NEW p \in live, RecheckLimit(p) PROVE RunsUseful'
  <2>1. ASSUME NEW q \in Processes, q # p PROVE RunsUsefully(q)'
    BY <1>5, <2>1 DEF RecheckLimit, Advance, Goto, Unlink, Here
  <2>2. RunsUsefully(p)'
    BY <1>5 DEF RecheckLimit, Advance, Goto, Unlink, Here
  <2> QED
    BY <2>1, <2>2 DEF RunsUseful
<1>6. ASSUME NEW p \in live, RunWindow(p) PROVE RunsUseful'
  <2>1. ASSUME NEW q \in Processes, q # p PROVE RunsUsefully(q)'
    BY <1>6, <2>1, ZenonT(60) DEF RunWindow, Advance, Goto, Save
  <2>2. RunsUsefully(p)'
    BY <1>6 DEF RunWindow, Advance, Goto, Save
  <2> QED
    BY <2>1, <2>2 DEF RunsUseful
<1>7. ASSUME NEW p \in live, AbandonWindow(p) PROVE RunsUseful'
  BY <1>7 DEF AbandonWindow, Advance, Goto, Unlink, Here
<1>8. ASSUME NEW p \in live, StopLimit(p) PROVE RunsUseful'
  <2>1. ASSUME NEW q \in Processes, q # p PROVE RunsUsefully(q)'
    BY <1>8, <2>1 DEF StopLimit, Goto, Here
  <2>2. RunsUsefully(p)'
    BY <1>8 DEF StopLimit, Goto, Here
  <2> QED
    BY <2>1, <2>2 DEF RunsUseful
<1>9. ASSUME NEW p \in live, StopCancel(p) PROVE RunsUseful'
  <2>1. ASSUME NEW q \in Processes, q # p PROVE RunsUsefully(q)'
    <3>1. RunsUsefully(q) /\ HoldsClaim(q)
      BY DEF RunsUseful, ClaimsHeld
    <3>2. pc[q] = "run" /\ pass[q] = pass[p] /\ pos[q] > pos[p] => Here(q) \in cancel'
      BY <1>9, <3>1 DEF StopCancel, Advance, Goto, Here
    <3>3. /\ UNCHANGED <<pass, limit>> /\ pos'[q] = pos[q] /\ pc'[q] = pc[q]
          /\ cancel \subseteq cancel' /\ announced' = announced \cup {Here(p)}
      BY <1>9, <2>1 DEF StopCancel, Advance, Goto, Here
    <3> QED
      BY <3>1, <3>2, <3>3
  <2>2. RunsUsefully(p)'
    BY <1>9 DEF StopCancel, Advance, Goto, Here
  <2> QED
    BY <2>1, <2>2 DEF RunsUseful
<1>10. CASE TakeRecord
  <2>1. ASSUME NEW q \in Processes, q # Primary PROVE RunsUsefully(q)'
    BY <1>10, <2>1 DEF TakeRecord, Goto
  <2>2. RunsUsefully(Primary)'
    BY <1>10 DEF TakeRecord, Goto
  <2> QED
    BY <2>1, <2>2 DEF RunsUseful
<1>11. CASE Done
  <2>1. ASSUME NEW q \in Processes, q # Primary PROVE RunsUsefully(q)'
    BY <1>11, <2>1 DEF Done, End, Goto
  <2>2. RunsUsefully(Primary)'
    BY <1>11 DEF Done, End, Goto
  <2> QED
    BY <2>1, <2>2 DEF RunsUseful
<1>12. CASE NotRecorded
  <2>1. ASSUME NEW q \in Processes, q # Primary PROVE RunsUsefully(q)'
    BY <1>12, <2>1 DEF NotRecorded, Goto
  <2>2. RunsUsefully(Primary)'
    BY <1>12 DEF NotRecorded, Goto
  <2> QED
    BY <2>1, <2>2 DEF RunsUseful
<1>13. CASE AskOwner
  <2>1. ASSUME NEW q \in Processes, q # Primary PROVE RunsUsefully(q)'
    BY <1>13, <2>1 DEF AskOwner, Goto
  <2>2. RunsUsefully(Primary)'
    BY <1>13 DEF AskOwner, Goto
  <2> QED
    BY <2>1, <2>2 DEF RunsUseful
<1>14. CASE DropClaim
  <2>1. ASSUME NEW q \in Processes, q # Primary PROVE RunsUsefully(q)'
    BY <1>14, <2>1 DEF DropClaim, Goto, Unlink, Here
  <2>2. RunsUsefully(Primary)'
    BY <1>14 DEF DropClaim, Goto, Unlink, Here
  <2> QED
    BY <2>1, <2>2 DEF RunsUseful
<1>15. CASE GrabWindow
  <2>1. ASSUME NEW q \in Processes, q # Primary PROVE RunsUsefully(q)'
    BY <1>15, <2>1 DEF GrabWindow, Goto, Link, Claimed, Here
  <2>2. RunsUsefully(Primary)'
    BY <1>15 DEF GrabWindow, Goto, Link, Claimed, Here
  <2> QED
    BY <2>1, <2>2 DEF RunsUseful
<1>16. CASE RerunWindow
  <2>1. ASSUME NEW q \in Processes, q # Primary PROVE RunsUsefully(q)'
    BY <1>16, <2>1 DEF RerunWindow, End, Goto, Save
  <2>2. RunsUsefully(Primary)'
    BY <1>16 DEF RerunWindow, End, Goto, Save
  <2> QED
    BY <2>1, <2>2 DEF RunsUseful
<1>17. CASE StopPrimary
  <2>1. ASSUME NEW q \in Processes, q # Primary PROVE RunsUsefully(q)'
    BY <1>17, <2>1 DEF StopPrimary, End, Goto
  <2>2. RunsUsefully(Primary)'
    BY <1>17 DEF StopPrimary, End, Goto
  <2> QED
    BY <2>1, <2>2 DEF RunsUseful
<1>18. ASSUME NEW h \in live \cap Helpers, JoinPass(h) PROVE RunsUseful'
  <2>1. ASSUME NEW q \in Processes, q # h PROVE RunsUsefully(q)'
    BY <1>18, <2>1 DEF JoinPass, Goto
  <2>2. RunsUsefully(h)'
    BY <1>18 DEF JoinPass, Goto
  <2> QED
    BY <2>1, <2>2 DEF RunsUseful
<1>19. ASSUME NEW h \in live \cap Helpers, Die(h) PROVE RunsUseful'
  <2>1. ASSUME NEW q \in Processes, q # h PROVE RunsUsefully(q)'
    BY <1>19, <2>1 DEF Die
  <2>2. RunsUsefully(h)'
    BY <1>19 DEF Die
  <2> QED
    BY <2>1, <2>2 DEF RunsUseful
<1>20. CASE UNCHANGED shardVars
  BY <1>20 DEF shardVars, files, local, result
<1> QED
  BY <1>1, <1>2, <1>3, <1>4, <1>5, <1>6, <1>7, <1>8, <1>9, <1>10, <1>11, <1>12, <1>13, <1>14, <1>15, <1>16, <1>17, <1>18, <1>19, <1>20, StepCases

\* The reservation of a pass does not change, and everybody takes it from there.
LEMMA PassesStep ==
  ASSUME TypeOK, PassesAgree, Progress, [ShardNext]_shardVars
  PROVE  PassesAgree'
<1> USE NamesDiffer DEF TypeOK, PlacesOK, PositionsOK, DataOK, PassesAgree, Progress, Listing, Collecting, Here, Processes, Positions, files, local, result
<1>1. CASE OpenPass
  BY <1>1 DEF OpenPass, Goto
<1>2. ASSUME NEW p \in live, EndList(p) PROVE PassesAgree'
  BY <1>2 DEF EndList, Goto
<1>3. ASSUME NEW p \in live, CheckLimit(p) PROVE PassesAgree'
  BY <1>3 DEF CheckLimit, Advance, Goto
<1>4. ASSUME NEW p \in live, ClaimWindow(p) PROVE PassesAgree'
  BY <1>4 DEF ClaimWindow, Advance, Goto, Link, Claimed, Here
<1>5. ASSUME NEW p \in live, RecheckLimit(p) PROVE PassesAgree'
  BY <1>5 DEF RecheckLimit, Advance, Goto, Unlink, Here
<1>6. ASSUME NEW p \in live, RunWindow(p) PROVE PassesAgree'
  BY <1>6 DEF RunWindow, Advance, Goto, Save
<1>7. ASSUME NEW p \in live, AbandonWindow(p) PROVE PassesAgree'
  BY <1>7 DEF AbandonWindow, Advance, Goto, Unlink, Here
<1>8. ASSUME NEW p \in live, StopLimit(p) PROVE PassesAgree'
  BY <1>8 DEF StopLimit, Goto, Here
<1>9. ASSUME NEW p \in live, StopCancel(p) PROVE PassesAgree'
  BY <1>9 DEF StopCancel, Advance, Goto, Here
<1>10. CASE TakeRecord
  BY <1>10 DEF TakeRecord, Goto
<1>11. CASE Done
  BY <1>11 DEF Done, End, Goto
<1>12. CASE NotRecorded
  BY <1>12 DEF NotRecorded, Goto
<1>13. CASE AskOwner
  BY <1>13 DEF AskOwner, Goto
<1>14. CASE DropClaim
  BY <1>14 DEF DropClaim, Goto, Unlink, Here
<1>15. CASE GrabWindow
  BY <1>15 DEF GrabWindow, Goto, Link, Claimed, Here
<1>16. CASE RerunWindow
  BY <1>16 DEF RerunWindow, End, Goto, Save
<1>17. CASE StopPrimary
  BY <1>17 DEF StopPrimary, End, Goto
<1>18. ASSUME NEW h \in live \cap Helpers, JoinPass(h) PROVE PassesAgree'
  BY <1>18 DEF JoinPass, Goto
<1>19. ASSUME NEW h \in live \cap Helpers, Die(h) PROVE PassesAgree'
  BY <1>19 DEF Die
<1>20. CASE UNCHANGED shardVars
  BY <1>20 DEF shardVars, files, local, result
<1> QED
  BY <1>1, <1>2, <1>3, <1>4, <1>5, <1>6, <1>7, <1>8, <1>9, <1>10, <1>11, <1>12, <1>13, <1>14, <1>15, <1>16, <1>17, <1>18, <1>19, <1>20, StepCases

\* The primary takes one run after the other.
LEMMA ProgressStep ==
  ASSUME TypeOK, Progress, [ShardNext]_shardVars
  PROVE  Progress'
<1> USE NamesDiffer DEF TypeOK, PlacesOK, PositionsOK, DataOK, Progress, Listing, Collecting, Here, Processes, Positions, files, local, result
<1>1. CASE OpenPass
  BY <1>1 DEF OpenPass, Goto
<1>2. ASSUME NEW p \in live, EndList(p) PROVE Progress'
  BY <1>2 DEF EndList, Goto
<1>3. ASSUME NEW p \in live, CheckLimit(p) PROVE Progress'
  BY <1>3 DEF CheckLimit, Advance, Goto
<1>4. ASSUME NEW p \in live, ClaimWindow(p) PROVE Progress'
  BY <1>4 DEF ClaimWindow, Advance, Goto, Link, Claimed, Here
<1>5. ASSUME NEW p \in live, RecheckLimit(p) PROVE Progress'
  BY <1>5 DEF RecheckLimit, Advance, Goto, Unlink, Here
<1>6. ASSUME NEW p \in live, RunWindow(p) PROVE Progress'
  BY <1>6 DEF RunWindow, Advance, Goto, Save
<1>7. ASSUME NEW p \in live, AbandonWindow(p) PROVE Progress'
  BY <1>7 DEF AbandonWindow, Advance, Goto, Unlink, Here
<1>8. ASSUME NEW p \in live, StopLimit(p) PROVE Progress'
  BY <1>8 DEF StopLimit, Goto, Here
<1>9. ASSUME NEW p \in live, StopCancel(p) PROVE Progress'
  BY <1>9 DEF StopCancel, Advance, Goto, Here
<1>10. CASE TakeRecord
  BY <1>10 DEF TakeRecord, Goto
<1>11. CASE Done
  BY <1>11 DEF Done, End, Goto
<1>12. CASE NotRecorded
  BY <1>12 DEF NotRecorded, Goto
<1>13. CASE AskOwner
  BY <1>13 DEF AskOwner, Goto
<1>14. CASE DropClaim
  BY <1>14 DEF DropClaim, Goto, Unlink, Here
<1>15. CASE GrabWindow
  BY <1>15 DEF GrabWindow, Goto, Link, Claimed, Here
<1>16. CASE RerunWindow
  BY <1>16 DEF RerunWindow, End, Goto, Save
<1>17. CASE StopPrimary
  BY <1>17 DEF StopPrimary, End, Goto
<1>18. ASSUME NEW h \in live \cap Helpers, JoinPass(h) PROVE Progress'
  BY <1>18 DEF JoinPass, Goto
<1>19. ASSUME NEW h \in live \cap Helpers, Die(h) PROVE Progress'
  BY <1>19 DEF Die
<1>20. CASE UNCHANGED shardVars
  BY <1>20 DEF shardVars, files, local, result
<1> QED
  BY <1>1, <1>2, <1>3, <1>4, <1>5, <1>6, <1>7, <1>8, <1>9, <1>10, <1>11, <1>12, <1>13, <1>14, <1>15, <1>16, <1>17, <1>18, <1>19, <1>20, StepCases

------------------------------------------------------------------------------
(* The invariant. *)

\* The invariant holds at the start.
LEMMA InvInit == ShardInit => IInv
<1> SUFFICES ASSUME ShardInit PROVE IInv
  OBVIOUS
<1>1. scenario.first \in Nat
  BY ScenariosWellFormed DEF ShardInit
<1>2. TypeOK
  <2>1. << >> \in Seq(Reservations) /\ scenario.first \in Reservations
    BY <1>1, ReservationsGiven
  <2>2. claim \in [DOMAIN claim -> Processes]
    BY DEF ShardInit
  <2> QED
    BY <2>1, <2>2, NamesDiffer
       DEF ShardInit, TypeOK, PlacesOK, PositionsOK, DataOK, Processes, Listing, Collecting
<1>3. ClaimsHeld /\ LimitsFirst /\ RunsUseful
  BY NamesDiffer DEF ShardInit, ClaimsHeld, HoldsClaim, DropsDead, LimitsFirst, AfterLimit,
       RunsUseful, RunsUsefully, Processes
<1>4. PassesAgree /\ Progress
  BY NamesDiffer DEF ShardInit, PassesAgree, Progress, Listing, Collecting, Processes
<1> QED
  BY <1>2, <1>3, <1>4 DEF IInv

\* Every step keeps it.
LEMMA InvStep == IInv /\ [ShardNext]_shardVars => IInv'
  BY PlacesStep, PositionsStep, DataStep, ClaimsStep, LimitsStep, UselessStep, PassesStep, ProgressStep
     DEF IInv, TypeOK

\* What the invariant says holds of every reachable state.
THEOREM ShardInvariant == ShardSpec => []IInv
<1>1. IInv /\ [ShardNext]_shardVars => IInv'
  BY InvStep
<1> QED
  BY InvInit, <1>1, PTL DEF ShardSpec

\* However claims are taken, given up and taken from the dead, no two processes run the
\* same window of a pass at the same time.
THEOREM ShardsRunExclusively == ShardSpec => []RunExclusively
<1>1. IInv => RunExclusively
  BY DEF IInv, ClaimsHeld, HoldsClaim, RunExclusively, Running
<1> QED
  BY <1>1, ShardInvariant, PTL

\* A window beyond a limit is cancelled while it runs, once the cancels have been touched.
THEOREM ShardsCancelUselessRuns == ShardSpec => []UselessRunsCancelled
<1>1. IInv => UselessRunsCancelled
  BY DEF IInv, TypeOK, PlacesOK, RunsUseful, RunsUsefully, UselessRunsCancelled
<1> QED
  BY <1>1, ShardInvariant, PTL

------------------------------------------------------------------------------
(* The runs the primary takes are the runs of one process. *)

\* A step that leaves alone what the primary has taken is no step of the list.
LEMMA ListStutters ==
  ASSUME IInv, UNCHANGED <<scenario, prepared[Primary], records, outcome>>
  PROVE  UNCHANGED OneProcess!listVars
  BY DEF OneProcess!listVars

\* A step of the processes is a step of the list, or none.
LEMMA ListStep ==
  ASSUME IInv, [ShardNext]_shardVars
  PROVE  [OneProcess!ListNext]_OneProcess!listVars
<1> USE NamesDiffer DEF IInv, TypeOK, PlacesOK, PositionsOK, DataOK, Processes, Positions
<1>1. CASE TakeRecord
  <2>1. /\ outcome = "sampling" /\ pos[Primary] \in Nat /\ pos[Primary] <= Windows
        /\ OneProcess!Position = pos[Primary]
    BY <1>1 DEF TakeRecord, Progress, Collecting, OneProcess!Position
  <2>2. PICK r \in record :
          /\ r[1] = pass[Primary] /\ r[2] = pos[Primary]
          /\ IF Exceeds(Primary)
               THEN records' = << >> /\ prepared' = [prepared EXCEPT ![Primary] = Raised]
               ELSE records' = Append(records, r[3]) /\ UNCHANGED prepared
    BY <1>1 DEF TakeRecord
  <2>3. r[3] = prepared[Primary] /\ pos[Primary] \notin scenario.faulty
    <3>1. pc[Primary] \in Collecting /\ pos[Primary] # 0
      BY <1>1 DEF TakeRecord, Progress, Collecting
    <3> QED
      BY <2>2, <3>1 DEF PassesAgree
  <2>4. UNCHANGED <<scenario, outcome>>
    BY <1>1 DEF TakeRecord
  <2>5. OneProcess!Raised(pos[Primary]) = Raised
    BY DEF OneProcess!Raised, Raised
  <2>6. CASE Exceeds(Primary)
    <3>1. prepared'[Primary] = Raised /\ records' = << >>
      BY <2>2, <2>6
    <3> QED
      BY <2>1, <2>3, <2>4, <2>5, <2>6, <3>1 DEF OneProcess!ListNext, OneProcess!RunNext, Exceeds
  <2>7. CASE ~Exceeds(Primary)
    BY <2>1, <2>2, <2>3, <2>4, <2>7 DEF OneProcess!ListNext, OneProcess!RunNext, Exceeds
  <2> QED
    BY <2>6, <2>7
<1>2. CASE Done
  <2>1. OneProcess!Position = pos[Primary] /\ outcome = "sampling"
    BY <1>2 DEF Done, Progress, Collecting, OneProcess!Position
  <2> QED
    BY <1>2, <2>1 DEF Done, End, OneProcess!ListNext, OneProcess!ListEnds
<1>3. CASE RerunWindow
  <2>1. OneProcess!Position = pos[Primary] /\ outcome = "sampling"
    BY <1>3 DEF RerunWindow, Progress, Collecting, OneProcess!Position
  <2>2. CASE pos[Primary] \in scenario.faulty
    BY <1>3, <2>1, <2>2 DEF RerunWindow, End, OneProcess!ListNext, OneProcess!RunRaises
  <2>3. CASE pos[Primary] \notin scenario.faulty
    BY <1>3, <2>3, ListStutters DEF RerunWindow
  <2> QED
    BY <2>2, <2>3
<1>4. CASE StopPrimary
  <2>1. outcome = "sampling"
    BY <1>4 DEF StopPrimary, Progress
  <2> QED
    BY <1>4, <2>1 DEF StopPrimary, End, OneProcess!ListNext, OneProcess!ListStopped
<1>5. ASSUME NEW h \in live \cap Helpers, JoinPass(h) \/ Die(h)
      PROVE  UNCHANGED <<scenario, prepared[Primary], records, outcome>>
  BY <1>5 DEF JoinPass, Die, result
<1>6. CASE \/ OpenPass \/ NotRecorded \/ AskOwner \/ DropClaim \/ GrabWindow
           \/ UNCHANGED shardVars
  <2>1. UNCHANGED <<scenario, prepared, records, outcome>>
    BY <1>6 DEF OpenPass, NotRecorded, AskOwner, DropClaim, GrabWindow, shardVars, local, result
  <2> QED
    BY <2>1, ListStutters
<1>7. ASSUME NEW p \in live,
             \/ EndList(p) \/ CheckLimit(p) \/ ClaimWindow(p) \/ RecheckLimit(p)
             \/ RunWindow(p) \/ AbandonWindow(p) \/ StopLimit(p) \/ StopCancel(p)
      PROVE  UNCHANGED <<scenario, prepared, records, outcome>>
  BY <1>7 DEF EndList, CheckLimit, ClaimWindow, RecheckLimit, RunWindow, AbandonWindow,
       StopLimit, StopCancel, result
<1> QED
  BY <1>1, <1>2, <1>3, <1>4, <1>5, <1>6, <1>7, StepCases, ListStutters

\* Whatever processes run the windows, and whichever of them die, the primary's sample is
\* one that a process alone could have made.
THEOREM ShardsImplementOneProcess == ShardSpec => ImplementsOneProcess
<1>1. ShardInit => OneProcess!ListInit
  BY DEF ShardInit, OneProcess!ListInit
<1>2. IInv /\ [ShardNext]_shardVars => [OneProcess!ListNext]_OneProcess!listVars
  BY ListStep
<1> QED
  BY <1>1, <1>2, ShardInvariant, PTL DEF ShardSpec, ImplementsOneProcess, OneProcess!ListSpec

------------------------------------------------------------------------------
(* Scan queue: the invariant. *)

\* Where a worker is, and what a result can say.
Stages == {"spawned", "running", "published", "exited"}
Reports == {"none", "completed", "failed", "interrupted"}

WorkersOK ==
  /\ worker \in Seq([point : Point, pc : Stages])
  /\ blind \subseteq Workers

FilesOK ==
  /\ report \in [Point -> Reports]
  /\ progress \in [Point -> [status : Reports \cup {"running"}, pid : Nat]]
  /\ status \in [written : BOOLEAN, running : SUBSET Point]
  /\ stopFile \in BOOLEAN

QueueOK ==
  /\ manager \in {"none", "top", "launch", "poll", "status", "finally", "wait"}
  /\ pending \in Seq(Point)
  /\ running \in [DOMAIN running -> Workers] /\ DOMAIN running \subseteq Point
  /\ finished \subseteq Point \X Reports

QueueTyped == WorkersOK /\ FilesOK /\ QueueOK

\* The live workers of seen points: all but those a manager left before they reported.
Seen(w) == worker[w].point \notin Unseen
Known == {w \in Workers : Live(w) /\ Seen(w)}

\* A progress file names a worker of its point.
PidsTrue ==
  \A p \in Point : progress[p].pid # 0 =>
    progress[p].pid \in Workers /\ worker[progress[p].pid].point = p

\* A manager has every known worker in its table, started or adopted.
RunningKnown ==
  manager # "none" => \A w \in Known :
    worker[w].point \in DOMAIN running /\ running[worker[w].point] = w
\* A known worker that has reported is the one its progress file names.
RunningReported ==
  \A w \in Known : worker[w].pc # "spawned" =>
    progress[worker[w].point] = [status |-> "running", pid |-> w]
\* Between managers no worker is silent that is not counted as left blind.
LeftBlind == manager = "none" => Silent \subseteq blind

\* What is at work, and what is to be run, has no result that could be reused.
WorkOpen ==
  \A w \in Known : worker[w].pc # "published" => report[worker[w].point] \notin Reusable
PendingOpen ==
  manager # "none" => \A i \in DOMAIN pending :
    pending[i] \in Unseen \/ report[pending[i]] \notin Reusable

\* No point is to be run twice, or while it runs.
PendingApart ==
  manager # "none" =>
    /\ \A i, j \in DOMAIN pending : pending[i] = pending[j] => i = j
    /\ \A i \in DOMAIN pending : pending[i] \notin DOMAIN running
Pending(p) == \E i \in DOMAIN pending : pending[i] = p
\* A point has one row at most, does not run, and is to be run again if the row says
\* interrupted, which only a queue that stops has.  Other rows say what the file says.
RowsApart ==
  manager # "none" =>
    /\ \A r, t \in finished : r[1] = t[1] => r = t
    /\ \A r \in finished :
         /\ r[1] \notin DOMAIN running
         /\ Pending(r[1]) <=> r[2] = "interrupted"
         /\ r[2] = "interrupted" => stopReason # "none"
         /\ r[2] = report[r[1]] \/ r[2] = "interrupted" \/ r[1] \in Unseen
\* No point is forgotten, unless a spawn failed.
Covered ==
  manager # "none" /\ stopReason # "manager_failed" =>
    \A p \in Point : Pending(p) \/ p \in DOMAIN running \/ \E r \in finished : r[1] = p
\* A queue with a reason to stop launches and polls no more.
StopsLate ==
  /\ manager \in {"top", "launch", "poll"} => stopReason = "none"
  /\ manager = "status" => stopReason # "manager_failed"

Jobs == PidsTrue /\ OneJobPerMedium /\ RunningKnown /\ RunningReported /\ LeftBlind
Results == WorkOpen /\ PendingOpen
Accounts == PendingApart /\ RowsApart /\ Covered /\ StopsLate

QueueInv == QueueTyped /\ Jobs /\ Results /\ Accounts

------------------------------------------------------------------------------
(* Scan queue: types. *)

\* The files of a fresh output directory.
LEMMA QueueInitTyped == QueueInit => QueueTyped
<1> SUFFICES ASSUME QueueInit PROVE QueueTyped
  OBVIOUS
<1>1. WorkersOK
  BY DEF QueueInit, WorkersOK, Workers
<1>2. FilesOK
  BY DEF QueueInit, FilesOK, Reports
<1>3. QueueOK
  BY DEF QueueInit, QueueOK
<1> QED
  BY <1>1, <1>2, <1>3 DEF QueueTyped

\* A step of a worker changes where that worker is.
LEMMA StageSet ==
  ASSUME WorkersOK, NEW w \in Workers, NEW s \in Stages,
         worker' = [worker EXCEPT ![w].pc = s], blind' = blind
  PROVE  /\ WorkersOK' /\ Workers' = Workers /\ Len(worker') = Len(worker)
         /\ \A v \in Workers : worker'[v].point = worker[v].point
         /\ \A v \in Workers \ {w} : worker'[v] = worker[v]
         /\ worker'[w].pc = s
<1> DEFINE T == [point : Point, pc : Stages]
<1>1. worker \in Seq(T) /\ Len(worker) \in Nat /\ Workers = 1 .. Len(worker)
  BY LenProperties DEF WorkersOK, Workers
<1>2. \A v \in Workers : worker[v] \in T
  BY ElementOfSeq, <1>1
<1>3. worker' = [worker EXCEPT ![w] = [worker[w] EXCEPT !.pc = s]]
  OBVIOUS
<1>4. [worker[w] EXCEPT !.pc = s] \in T
  BY <1>2
<1>5. worker' \in Seq(T) /\ Len(worker') = Len(worker)
  <2> HIDE DEF T
  <2> QED
    BY <1>1, <1>3, <1>4, ExceptSeq DEF Workers
<1>6. Workers' = Workers
  BY <1>1, <1>5, LenProperties DEF Workers
<1>7. /\ \A v \in Workers \ {w} : worker'[v] = worker[v]
      /\ worker'[w] = [worker[w] EXCEPT !.pc = s]
  BY <1>1, <1>3 DEF Workers
<1>8. worker'[w].pc = s /\ worker'[w].point = worker[w].point
  BY <1>2, <1>7
<1>9. WorkersOK'
  BY <1>5, <1>6 DEF WorkersOK
<1> QED
  BY <1>5, <1>6, <1>7, <1>8, <1>9

\* The workers are numbered, each with its point and its place.
LEMMA WorkersAre ==
  ASSUME WorkersOK
  PROVE  /\ Len(worker) \in Nat /\ Workers = 1 .. Len(worker)
         /\ \A w \in Workers : w \in Nat /\ w # 0
         /\ \A w \in Workers : worker[w].point \in Point /\ worker[w].pc \in Stages
<1> DEFINE T == [point : Point, pc : Stages]
<1>1. worker \in Seq(T) /\ Len(worker) \in Nat /\ Workers = 1 .. Len(worker)
  BY LenProperties DEF WorkersOK, Workers
<1>2. \A w \in Workers : worker[w] \in T
  BY ElementOfSeq, <1>1
<1> QED
  BY <1>1, <1>2

\* Types after each step of a worker.
LEMMA BeginTyped ==
  ASSUME QueueTyped, NEW w \in Workers, Begin(w)
  PROVE  QueueTyped'
<1>1. WorkersOK' /\ Workers' = Workers
  BY StageSet DEF QueueTyped, Begin, Stages
<1>2. worker[w].point \in Point
  BY WorkersAre DEF QueueTyped
<1>3. w \in Nat
  BY WorkersAre DEF QueueTyped
<1>4. FilesOK'
  BY <1>2, <1>3 DEF QueueTyped, FilesOK, Begin, Reports
<1>5. QueueOK'
  BY <1>1 DEF QueueTyped, QueueOK, Begin, own
<1> QED
  BY <1>1, <1>4, <1>5 DEF QueueTyped

LEMMA PublishTyped ==
  ASSUME QueueTyped, NEW w \in Workers, Publish(w)
  PROVE  QueueTyped'
<1>1. WorkersOK' /\ Workers' = Workers
  BY StageSet DEF QueueTyped, Publish, Stages
<1>2. worker[w].point \in Point
  BY WorkersAre DEF QueueTyped
<1>3. PICK s \in Reports : report' = [report EXCEPT ![worker[w].point] = s]
  BY DEF Publish, Reports, Reusable
<1>4. FilesOK'
  BY <1>2, <1>3 DEF QueueTyped, FilesOK, Publish
<1>5. QueueOK'
  BY <1>1 DEF QueueTyped, QueueOK, Publish, own
<1> QED
  BY <1>1, <1>4, <1>5 DEF QueueTyped

LEMMA ExitTyped ==
  ASSUME QueueTyped, NEW w \in Workers, Exit(w)
  PROVE  QueueTyped'
<1>1. WorkersOK' /\ Workers' = Workers
  BY StageSet DEF QueueTyped, Exit, Stages
<1>2. worker[w].point \in Point
  BY WorkersAre DEF QueueTyped
<1>3. w \in Nat
  BY WorkersAre DEF QueueTyped
<1>4. FilesOK'
  BY <1>2, <1>3 DEF QueueTyped, FilesOK, Exit
<1>5. QueueOK'
  BY <1>1 DEF QueueTyped, QueueOK, Exit, own
<1> QED
  BY <1>1, <1>4, <1>5 DEF QueueTyped

LEMMA KilledTyped ==
  ASSUME QueueTyped, NEW w \in Workers, Killed(w)
  PROVE  QueueTyped'
<1>1. WorkersOK' /\ Workers' = Workers
  BY StageSet DEF QueueTyped, Killed, Stages
<1>2. FilesOK'
  BY DEF QueueTyped, FilesOK, Killed, disk
<1>3. QueueOK'
  BY <1>1 DEF QueueTyped, QueueOK, Killed, own
<1> QED
  BY <1>1, <1>2, <1>3 DEF QueueTyped

\* The points to run, in the order of the manifest.
LEMMA ToRunIs ==
  ASSUME NEW adopted
  PROVE  /\ ToRun(adopted) \in Seq(Point)
         /\ \A i \in DOMAIN ToRun(adopted) :
              ToRun(adopted)[i] \in Point \ adopted /\ report[ToRun(adopted)[i]] \notin Reusable
         /\ \A p \in Point \ adopted : report[p] \notin Reusable =>
              \E i \in DOMAIN ToRun(adopted) : ToRun(adopted)[i] = p
         /\ \A i, j \in DOMAIN ToRun(adopted) : ToRun(adopted)[i] = ToRun(adopted)[j] => i = j
<1> DEFINE all == [p \in Point |-> p]
           I == {p \in Point \ adopted : report[p] \notin Reusable}
<1>1. Points \in Nat
  BY BoundsNat
<1>2. all \in Seq(Point) /\ DOMAIN all = Point /\ \A p \in Point : all[p] = p
  BY <1>1, SeqDef DEF Point
<1>3. I \in SUBSET DOMAIN all
  BY <1>2
<1>4. ToRun(adopted) = ElementsAt(all, I)
  BY DEF ToRun
<1>5. \A i, j \in DOMAIN all : all[i] = all[j] => i = j
  BY <1>2
<1>6. \A i \in I : i \in Point \ adopted /\ report[i] \notin Reusable /\ all[i] = i
  BY <1>2
<1>7. \A p \in Point \ adopted : report[p] \notin Reusable => p \in I
  OBVIOUS
<1> HIDE DEF all, I
<1>8. /\ ElementsAt(all, I) \in Seq(Point)
      /\ \A n \in DOMAIN ElementsAt(all, I) : \E i \in I : ElementsAt(all, I)[n] = all[i]
      /\ \A i \in I : \E n \in DOMAIN ElementsAt(all, I) : ElementsAt(all, I)[n] = all[i]
      /\ \A m, n \in DOMAIN ElementsAt(all, I) :
           ElementsAt(all, I)[m] = ElementsAt(all, I)[n] => m = n
  BY <1>2, <1>3, <1>5, ElementsAtIs
<1>9. \A i \in DOMAIN ElementsAt(all, I) :
        /\ ElementsAt(all, I)[i] \in Point \ adopted
        /\ report[ElementsAt(all, I)[i]] \notin Reusable
  BY <1>6, <1>8
<1>10. \A p \in Point \ adopted : report[p] \notin Reusable =>
         \E i \in DOMAIN ElementsAt(all, I) : ElementsAt(all, I)[i] = p
  BY <1>6, <1>7, <1>8
<1> QED
  BY <1>4, <1>8, <1>9, <1>10, Zenon

\* A process a manager adopts is one of the workers, and runs the point.
LEMMA AdoptedAlive ==
  ASSUME QueueTyped, NEW p \in Adoptable
  PROVE  p \in Point /\ progress[p].pid \in Workers /\ Live(progress[p].pid)
  BY DEF QueueTyped, FilesOK, Adoptable, ProcessAlive

\* Types after the start of a manager.
LEMMA StartTyped ==
  ASSUME QueueTyped, NEW adopt \in BOOLEAN, NEW retry \in BOOLEAN, NEW stay \in BOOLEAN,
         Start(adopt, retry, stay)
  PROVE  QueueTyped'
<1> DEFINE adopted == IF adopt THEN Adoptable ELSE {}
<1>1. /\ pending' = ToRun(adopted)
      /\ finished' = {<<p, report[p]>> : p \in {q \in Point \ adopted : report[q] \in Reusable}}
      /\ running' = [p \in adopted |-> progress[p].pid]
  BY DEF Start
<1>2. \A p \in adopted : p \in Point /\ progress[p].pid \in Workers
  BY AdoptedAlive
<1>3. worker' = worker /\ blind' = blind /\ disk' = disk /\ manager' = "top"
  BY DEF Start
<1>4. WorkersOK'
  BY <1>3 DEF QueueTyped, WorkersOK, Workers
<1>5. FilesOK'
  BY <1>3 DEF QueueTyped, FilesOK, disk
<1>6. \A p \in Point : report[p] \in Reports
  BY DEF QueueTyped, FilesOK
<1> HIDE DEF adopted
<1>7. pending' \in Seq(Point)
  BY <1>1, ToRunIs
<1>8. finished' \subseteq Point \X Reports
  BY <1>1, <1>6
<1>9. running' \in [DOMAIN running' -> Workers'] /\ DOMAIN running' \subseteq Point
  BY <1>1, <1>2, <1>3 DEF Workers
<1> QED
  BY <1>3, <1>4, <1>5, <1>7, <1>8, <1>9 DEF QueueTyped, QueueOK

\* A point to launch is pending, and no running point is of its medium.
LEMMA FirstFreeIs ==
  ASSUME QueueTyped, Free # {}
  PROVE  /\ FirstFree \in DOMAIN pending /\ pending[FirstFree] \in Point
         /\ \A p \in DOMAIN running : Medium[p] # Medium[pending[FirstFree]]
<1>1. pending \in Seq(Point) /\ Len(pending) \in Nat /\ DOMAIN pending = 1 .. Len(pending)
  BY LenProperties DEF QueueTyped, QueueOK
<1>2. Free \subseteq 1 .. Len(pending) /\ Free \in SUBSET Int
  BY <1>1 DEF Free
<1>3. IsFiniteSet(Free)
  <2>1. 1 \in Int /\ Len(pending) \in Int
    BY <1>1
  <2>2. IsFiniteSet(1 .. Len(pending))
    BY <2>1, FS_Interval
  <2> QED
    BY <1>2, <2>2, FS_Subset
<1>4. \E i \in Free : \A j \in Free : i <= j
  BY <1>2, <1>3, LeastInteger
<1>5. FirstFree \in Free
  BY <1>4 DEF FirstFree
<1> QED
  BY <1>1, <1>5, ElementOfSeq DEF Free

\* The worker a launch appends.
LEMMA LaunchAppends ==
  ASSUME QueueTyped, Launch
  PROVE  /\ Workers' = Workers \cup {Len(worker) + 1} /\ Len(worker) + 1 \notin Workers
         /\ \A w \in Workers : worker'[w] = worker[w]
         /\ worker'[Len(worker) + 1] = [point |-> pending[FirstFree], pc |-> "spawned"]
         /\ worker' \in Seq([point : Point, pc : Stages])
<1>1. PICK p \in Point : p = pending[FirstFree]
  BY FirstFreeIs DEF Launch, MayLaunch
<1>2. PICK x \in [point : Point, pc : Stages] : x = [point |-> p, pc |-> "spawned"]
  BY DEF Stages
<1>3. worker' = Append(worker, x)
  BY <1>1, <1>2 DEF Launch
<1>4. /\ worker \in Seq([point : Point, pc : Stages])
      /\ Len(worker) \in Nat /\ Workers = 1 .. Len(worker)
  BY WorkersAre DEF QueueTyped, WorkersOK
<1>5. /\ worker' \in Seq([point : Point, pc : Stages])
      /\ Len(worker') = Len(worker) + 1
      /\ \A w \in 1 .. Len(worker) : worker'[w] = worker[w]
      /\ worker'[Len(worker) + 1] = x
  BY <1>3, <1>4, AppendProperties
<1>6. Workers' = 1 .. Len(worker) + 1
  BY <1>5, LenProperties DEF Workers
<1> QED
  BY <1>1, <1>2, <1>4, <1>5, <1>6

\* Types after a launch.
LEMMA LaunchTyped ==
  ASSUME QueueTyped, Launch
  PROVE  QueueTyped'
<1>1. PICK p : p = pending[FirstFree]
  OBVIOUS
<1>2. PICK n : n = Len(worker) + 1
  OBVIOUS
<1>3. p \in Point /\ pending' \in Seq(Point)
  BY <1>1, FirstFreeIs, RemoveAtIs DEF Launch, MayLaunch, QueueTyped, QueueOK
<1>4. /\ worker' = Append(worker, [point |-> p, pc |-> "spawned"])
      /\ running' = [q \in (DOMAIN running) \cup {p} |-> IF q = p THEN n ELSE running[q]]
      /\ disk' = disk /\ blind' = blind /\ manager' = manager /\ finished' = finished
  BY <1>1, <1>2 DEF Launch
<1>5. Workers' = Workers \cup {n} /\ worker' \in Seq([point : Point, pc : Stages])
  BY <1>2, LaunchAppends
<1>6. WorkersOK'
  BY <1>4, <1>5 DEF QueueTyped, WorkersOK
<1>7. FilesOK'
  BY <1>4 DEF QueueTyped, FilesOK, disk
<1>8. \A q \in DOMAIN running : running[q] \in Workers
  BY DEF QueueTyped, QueueOK
<1>9. /\ running' \in [DOMAIN running' -> Workers'] /\ DOMAIN running' \subseteq Point
  BY <1>3, <1>4, <1>5, <1>8 DEF QueueTyped, QueueOK
<1> QED
  BY <1>3, <1>4, <1>6, <1>7, <1>9 DEF QueueTyped, QueueOK

\* Types after a launch that failed.
LEMMA SpawnFailsTyped ==
  ASSUME QueueTyped, SpawnFails
  PROVE  QueueTyped'
<1>1. pending' \in Seq(Point)
  BY FirstFreeIs, RemoveAtIs DEF SpawnFails, MayLaunch, QueueTyped, QueueOK
<1>2. WorkersOK' /\ FilesOK' /\ Workers' = Workers
  BY DEF SpawnFails, QueueTyped, WorkersOK, FilesOK, Workers, disk
<1>3. QueueOK'
  BY <1>1, <1>2 DEF SpawnFails, Proceed, QueueTyped, QueueOK
<1> QED
  BY <1>2, <1>3 DEF QueueTyped

\* The points put back are those of the workers that ended interrupted, each once.
LEMMA AgainIs ==
  ASSUME QueueTyped
  PROVE  /\ Again(Ended) \in Seq(Point)
         /\ \A i \in DOMAIN Again(Ended) :
              Again(Ended)[i] \in Ended /\ Row(Again(Ended)[i]) = "interrupted"
         /\ \A p \in Ended : Row(p) = "interrupted" =>
              \E i \in DOMAIN Again(Ended) : Again(Ended)[i] = p
         /\ \A i, j \in DOMAIN Again(Ended) : Again(Ended)[i] = Again(Ended)[j] => i = j
<1> DEFINE S == {p \in Ended : Row(p) = "interrupted"}
<1>1. Points \in Int /\ 1 \in Int
  BY BoundsNat
<1>2. IsFiniteSet(Point)
  BY <1>1, FS_Interval DEF Point
<1>3. S \subseteq Point
  BY DEF Ended, QueueTyped, QueueOK
<1>4. IsFiniteSet(S)
  BY <1>2, <1>3, FS_Subset
<1>5. Again(Ended) = SetToSeq(S)
  BY DEF Again
<1>6. \A p \in S : p \in Ended /\ Row(p) = "interrupted"
  OBVIOUS
<1>7. \A p \in Ended : Row(p) = "interrupted" => p \in S
  OBVIOUS
<1> HIDE DEF S
<1>8. PICK s : s = SetToSeq(S)
  OBVIOUS
<1>9. /\ s \in Seq(S) /\ \A i, j \in DOMAIN s : s[i] = s[j] => i = j
      /\ \A x \in S : \E i \in DOMAIN s : s[i] = x
  BY <1>4, <1>8, SetToSeqIs, Zenon
<1>10. \A i \in DOMAIN s : s[i] \in S
  BY <1>9, ElementOfSeq, LenProperties
<1>11. s \in Seq(Point)
  BY <1>3, <1>9, <1>10, SeqDef, LenProperties
<1> QED
  BY <1>5, <1>6, <1>7, <1>8, <1>9, <1>10, <1>11

\* Types after a poll.
LEMMA PollTyped ==
  ASSUME QueueTyped, Poll
  PROVE  QueueTyped'
<1>1. /\ report' = [p \in Point |-> IF p \in Ended THEN Row(p) ELSE report[p]]
      /\ finished' = finished \cup {<<p, Row(p)>> : p \in Ended}
      /\ pending' = Again(Ended) \o pending
      /\ running' = [p \in (DOMAIN running) \ Ended |-> running[p]]
      /\ manager' = "status"
      /\ UNCHANGED <<worker, progress, status, blind>>
      /\ stopFile' \in {TRUE, stopFile}
  BY DEF Poll, Proceed
<1>2. WorkersOK' /\ Workers' = Workers
  BY <1>1 DEF QueueTyped, WorkersOK, Workers
<1>3. \A p \in Point : report[p] \in Reports /\ Row(p) \in Reports
  BY DEF QueueTyped, FilesOK, Row, Reports
<1>4. Ended \subseteq Point
  BY DEF Ended, QueueTyped, QueueOK
<1>5. FilesOK'
  BY <1>1, <1>3 DEF QueueTyped, FilesOK
<1>6. pending' \in Seq(Point)
  BY <1>1, AgainIs, ConcatProperties DEF QueueTyped, QueueOK
<1>7. finished' \subseteq Point \X Reports
  BY <1>1, <1>3, <1>4 DEF QueueTyped, QueueOK
<1>8. running' \in [DOMAIN running' -> Workers'] /\ DOMAIN running' \subseteq Point
  BY <1>1, <1>2 DEF QueueTyped, QueueOK
<1>9. QueueOK'
  BY <1>1, <1>6, <1>7, <1>8 DEF QueueOK
<1> QED
  BY <1>2, <1>5, <1>9 DEF QueueTyped

\* Types after the end of a manager, however it ends.
LEMMA GoneTyped ==
  ASSUME QueueTyped, Gone, worker' = worker, report' = report, progress' = progress,
         stopFile' = stopFile, status' \in [written : BOOLEAN, running : SUBSET Point]
  PROVE  QueueTyped'
<1>1. WorkersOK' /\ Workers' = Workers
  BY DEF Gone, Silent, QueueTyped, WorkersOK, Workers
<1>2. FilesOK'
  BY DEF QueueTyped, FilesOK
<1>3. QueueOK'
  BY DEF Gone, Proceed, QueueOK
<1> QED
  BY <1>1, <1>2, <1>3 DEF QueueTyped

\* The steps that touch neither workers, results nor points.
Bookkeeping == \/ Look \/ Launched \/ WriteStatus \/ Interrupt \/ AskWorkers
               \/ RequestStop \/ Resume

\* What bookkeeping leaves alone.
LEMMA BookkeepingKeeps ==
  ASSUME QueueTyped, Bookkeeping
  PROVE  /\ UNCHANGED <<worker, report, progress, blind, pending, running, finished>>
         /\ QueueTyped'
<1>1. UNCHANGED <<worker, report, progress, blind, pending, running, finished>>
  BY DEF Bookkeeping, Look, Launched, WriteStatus, Interrupt, AskWorkers, RequestStop, Resume,
         own, disk
<1>2. WorkersOK' /\ Workers' = Workers
  BY <1>1 DEF QueueTyped, WorkersOK, Workers
<1>3. status' \in [written : BOOLEAN, running : SUBSET Point]
  <2>1. status' = status \/ status' = [written |-> TRUE, running |-> DOMAIN running]
    BY Zenon DEF Bookkeeping, Look, Launched, WriteStatus, Interrupt, AskWorkers, RequestStop,
       Resume, disk
  <2>2. DOMAIN running \in SUBSET Point /\ status \in [written : BOOLEAN, running : SUBSET Point]
    BY DEF QueueTyped, FilesOK, QueueOK
  <2>3. PICK some : some = DOMAIN running
    OBVIOUS
  <2>4. [written |-> TRUE, running |-> some] \in [written : BOOLEAN, running : SUBSET Point]
    BY <2>2, <2>3
  <2> QED
    BY <2>1, <2>2, <2>3, <2>4, Zenon
<1>7. stopFile' \in BOOLEAN
  <2>1. ASSUME stopFile' = (stopFile \/ running # << >>) PROVE stopFile' \in BOOLEAN
    BY <2>1, Zenon
  <2>2. stopFile \in BOOLEAN
    BY DEF QueueTyped, FilesOK
  <2>3. \/ stopFile' = stopFile \/ stopFile' = TRUE \/ stopFile' = FALSE
        \/ stopFile' = (stopFile \/ running # << >>)
    BY Zenon DEF Bookkeeping, Look, Launched, WriteStatus, Interrupt, AskWorkers, RequestStop,
       Resume, disk
  <2> QED
    BY <2>1, <2>2, <2>3
<1>4. FilesOK'
  BY <1>1, <1>3, <1>7 DEF QueueTyped, FilesOK
<1>5. manager' \in {"none", "top", "launch", "poll", "status", "finally", "wait"}
  BY DEF Bookkeeping, Look, Launched, WriteStatus, Interrupt, AskWorkers, RequestStop, Resume,
         Proceed, QueueTyped, QueueOK
<1>6. QueueOK'
  BY <1>1, <1>2, <1>5 DEF QueueTyped, QueueOK
<1> QED
  BY <1>1, <1>2, <1>4, <1>6 DEF QueueTyped

\* The two ways to end.
LEMMA LeaveTyped ==
  ASSUME QueueTyped, Leave \/ KillManager
  PROVE  QueueTyped'
<1>1. CASE Leave
  <2>1. status' \in [written : BOOLEAN, running : SUBSET Point]
    BY <1>1 DEF Leave, QueueTyped, QueueOK
  <2> QED
    BY <1>1, <2>1, GoneTyped DEF Leave
<1>2. CASE KillManager
  <2>1. status' \in [written : BOOLEAN, running : SUBSET Point]
    BY <1>2 DEF KillManager, disk, QueueTyped, FilesOK
  <2> QED
    BY <1>2, <2>1, GoneTyped DEF KillManager, disk
<1> QED
  BY <1>1, <1>2

\* Types after any step.
LEMMA QueueTypedStep ==
  ASSUME QueueTyped, [QueueNext]_queueVars
  PROVE  QueueTyped'
<1>1. CASE UNCHANGED queueVars
  BY <1>1 DEF queueVars, own, disk, QueueTyped, WorkersOK, FilesOK, QueueOK, Workers
<1>2. CASE \E adopt, retry, stay \in BOOLEAN : Start(adopt, retry, stay)
  BY <1>2, StartTyped
<1>3. CASE \E w \in Workers : WorkerStep(w) \/ Killed(w)
  BY <1>3, BeginTyped, PublishTyped, ExitTyped, KilledTyped DEF WorkerStep
<1>4. CASE Bookkeeping
  BY <1>4, BookkeepingKeeps
<1>5. CASE Launch \/ SpawnFails \/ Poll \/ Leave \/ KillManager
  BY <1>5, LaunchTyped, SpawnFailsTyped, PollTyped, LeaveTyped
<1> QED
  BY <1>1, <1>2, <1>3, <1>4, <1>5 DEF QueueNext, ManagerStep, Bookkeeping

------------------------------------------------------------------------------
(* Scan queue: jobs. *)

\* Workers stay, keep their point, and do not come back to life or into sight.
LEMMA OldWorkers ==
  ASSUME QueueTyped, [QueueNext]_queueVars
  PROVE  /\ Workers \subseteq Workers' /\ blind \subseteq blind'
         /\ \A w \in Workers : worker'[w].point = worker[w].point
         /\ Unseen \subseteq Unseen'
<1>1. /\ Workers \subseteq Workers' /\ blind \subseteq blind'
      /\ \A w \in Workers : worker'[w].point = worker[w].point
  <2>1. CASE UNCHANGED <<worker, blind>>
    BY <2>1 DEF Workers
  <2>2. CASE \E w \in Workers : WorkerStep(w) \/ Killed(w)
    <3>1. PICK w \in Workers : \E s \in Stages :
            worker' = [worker EXCEPT ![w].pc = s] /\ blind' = blind
      BY <2>2 DEF WorkerStep, Begin, Publish, Exit, Killed, Stages
    <3> QED
      BY <3>1, StageSet DEF QueueTyped
  <2>3. CASE Launch
    BY <2>3, LaunchAppends DEF Launch
  <2>4. CASE Gone /\ worker' = worker
    BY <2>4 DEF Gone, Workers
  <2> QED
    BY <2>1, <2>2, <2>3, <2>4
       DEF QueueNext, ManagerStep, Start, Look, SpawnFails, Launched, Poll, WriteStatus, AskWorkers,
           Leave, Interrupt, KillManager, RequestStop, Resume, queueVars
<1>2. blind \subseteq Workers
  BY DEF QueueTyped, WorkersOK
<1> QED
  BY <1>1, <1>2 DEF Unseen

\* A step of one worker: the others, and who is known.
LEMMA StageJobs ==
  ASSUME QueueTyped, NEW w \in Workers, Live(w), NEW s \in Stages,
         worker' = [worker EXCEPT ![w].pc = s], blind' = blind
  PROVE  /\ Workers' = Workers /\ Unseen' = Unseen
         /\ \A v \in Workers : worker'[v].point = worker[v].point
         /\ \A v \in Workers \ {w} : worker'[v] = worker[v]
         /\ worker'[w].pc = s
         /\ Known' \subseteq Known
         /\ s # "exited" => Known' = Known
<1>1. /\ Workers' = Workers
      /\ \A v \in Workers : worker'[v].point = worker[v].point
      /\ \A v \in Workers \ {w} : worker'[v] = worker[v]
      /\ worker'[w].pc = s
  BY StageSet DEF QueueTyped
<1>2. Unseen' = Unseen
  BY <1>1 DEF Unseen, QueueTyped, WorkersOK
<1>3. /\ Known' \subseteq Known
      /\ s # "exited" => Known' = Known
  BY <1>1, <1>2 DEF Known, Live, Seen
<1> QED
  BY <1>1, <1>2, <1>3

\* One job per medium, with the known workers named.
OneJob == \A w, v \in Known : Medium[worker[w].point] = Medium[worker[v].point] => w = v
LEMMA OneJobIs == OneJobPerMedium <=> OneJob
  BY DEF OneJobPerMedium, OneJob, Known, Seen

\* The progress file of a known point names one worker only, as no other known one has it.
LEMMA BeginJobs ==
  ASSUME QueueTyped, Jobs, NEW w \in Workers, Begin(w)
  PROVE  Jobs'
<1>1. /\ Workers' = Workers /\ Unseen' = Unseen /\ Known' = Known
      /\ \A v \in Workers : worker'[v].point = worker[v].point
      /\ \A v \in Workers \ {w} : worker'[v] = worker[v]
      /\ worker'[w].pc = "running"
  BY StageJobs DEF Begin, Live, Stages
<1>2. PICK p \in Point : p = worker[w].point
  BY WorkersAre DEF QueueTyped
<1>3. progress' = [progress EXCEPT ![p] = [status |-> "running", pid |-> w]]
  BY <1>2 DEF Begin
<1>4. progress \in [Point -> [status : Reports \cup {"running"}, pid : Nat]]
  BY DEF QueueTyped, FilesOK
<1>5. manager' = manager /\ running' = running /\ blind' = blind
  BY DEF Begin, own
<1>6. PidsTrue'
  BY <1>1, <1>2, <1>3, <1>4 DEF PidsTrue, Jobs
<1>7. OneJob /\ OneJob'
  BY <1>1, OneJobIs DEF OneJob, Jobs, Known
<1>8. OneJobPerMedium'
  BY <1>1 DEF OneJobPerMedium, Jobs, Live, Begin
<1>9. RunningKnown'
  BY <1>1, <1>5 DEF RunningKnown, Jobs, Known
<1>10. RunningReported'
  <2> SUFFICES ASSUME NEW v \in Known, worker'[v].pc # "spawned"
               PROVE  progress'[worker'[v].point] = [status |-> "running", pid |-> v]
    BY <1>1 DEF RunningReported
  <2>1. CASE v = w
    BY <1>1, <1>2, <1>3, <1>4, <2>1
  <2>2. CASE v # w
    <3>1. v \in Workers /\ worker'[v] = worker[v] /\ worker[v].point \in Point
      BY <1>1, <2>2, WorkersAre DEF Known, QueueTyped
    <3>2. progress[worker[v].point] = [status |-> "running", pid |-> v]
      BY <3>1 DEF RunningReported, Jobs
    <3>3. CASE worker[v].point # p
      BY <1>3, <1>4, <3>1, <3>2, <3>3
    <3>4. CASE worker[v].point = p
      <4>1. w \in Known
        BY <1>2, <3>4 DEF Known, Seen, Live, Begin
      <4> QED
        BY <1>2, <1>7, <2>2, <3>4, <4>1 DEF OneJob
    <3> QED
      BY <3>3, <3>4
  <2> QED
    BY <2>1, <2>2
<1>11. LeftBlind'
  BY <1>1, <1>5 DEF LeftBlind, Silent, Jobs
<1> QED
  BY <1>6, <1>8, <1>9, <1>10, <1>11 DEF Jobs

\* Publishing concerns the result alone.
LEMMA PublishJobs ==
  ASSUME QueueTyped, Jobs, NEW w \in Workers, Publish(w)
  PROVE  Jobs'
<1>1. /\ Workers' = Workers /\ Unseen' = Unseen /\ Known' = Known
      /\ \A v \in Workers : worker'[v].point = worker[v].point
      /\ \A v \in Workers \ {w} : worker'[v] = worker[v]
      /\ worker'[w].pc = "published"
  BY StageJobs DEF Publish, Live, Stages
<1>2. worker[w].pc = "running" /\ UNCHANGED <<manager, running, blind, progress>>
  BY DEF Publish, own
<1>3. PidsTrue' /\ OneJobPerMedium'
  BY <1>1, <1>2 DEF PidsTrue, OneJobPerMedium, Live, Jobs
<1>4. RunningKnown' /\ RunningReported'
  BY <1>1, <1>2 DEF RunningKnown, RunningReported, Jobs, Known
<1>5. LeftBlind'
  BY <1>1, <1>2 DEF LeftBlind, Silent, Jobs
<1> QED
  BY <1>3, <1>4, <1>5 DEF Jobs

\* A killed worker is known no more.
LEMMA KilledJobs ==
  ASSUME QueueTyped, Jobs, NEW w \in Workers, Killed(w)
  PROVE  Jobs'
<1>1. /\ Workers' = Workers /\ Unseen' = Unseen /\ Known' \subseteq Known
      /\ \A v \in Workers : worker'[v].point = worker[v].point
      /\ \A v \in Workers \ {w} : worker'[v] = worker[v]
      /\ worker'[w].pc = "exited"
  BY StageJobs DEF Killed, Stages
<1>2. UNCHANGED <<manager, running, blind, progress>>
  BY DEF Killed, own, disk
<1>3. PidsTrue' /\ OneJobPerMedium'
  BY <1>1, <1>2 DEF PidsTrue, OneJobPerMedium, Live, Jobs
<1>4. w \notin Known'
  BY <1>1 DEF Known, Live
<1>5. RunningKnown' /\ RunningReported'
  BY <1>1, <1>2, <1>4 DEF RunningKnown, RunningReported, Jobs, Known
<1>6. LeftBlind'
  BY <1>1, <1>2 DEF LeftBlind, Silent, Jobs
<1> QED
  BY <1>3, <1>5, <1>6 DEF Jobs

\* The last progress of a worker replaces that of no other known one.
LEMMA ExitJobs ==
  ASSUME QueueTyped, Jobs, NEW w \in Workers, Exit(w)
  PROVE  Jobs'
<1>1. /\ Workers' = Workers /\ Unseen' = Unseen /\ Known' \subseteq Known
      /\ \A v \in Workers : worker'[v].point = worker[v].point
      /\ \A v \in Workers \ {w} : worker'[v] = worker[v]
      /\ worker'[w].pc = "exited"
  BY StageJobs DEF Exit, Live, Stages
<1>2. PICK p \in Point : p = worker[w].point
  BY WorkersAre DEF QueueTyped
<1>3. /\ progress' = [progress EXCEPT ![p] = [status |-> report[p], pid |-> w]]
      /\ worker[w].pc = "published" /\ UNCHANGED <<manager, running, blind>>
  BY <1>2 DEF Exit, own
<1>4. progress \in [Point -> [status : Reports \cup {"running"}, pid : Nat]]
  BY DEF QueueTyped, FilesOK
<1>5. PidsTrue'
  BY <1>1, <1>2, <1>3, <1>4 DEF PidsTrue, Jobs
<1>6. OneJobPerMedium' /\ OneJob
  BY <1>1, OneJobIs DEF OneJobPerMedium, Live, Jobs
<1>7. w \notin Known' /\ \A v \in Known' : worker'[v].point # p
  BY <1>1, <1>2, <1>3, <1>6 DEF Known, Live, Seen, OneJob
<1>8. RunningKnown' /\ RunningReported'
  BY <1>1, <1>3, <1>4, <1>7 DEF RunningKnown, RunningReported, Jobs, Known
<1>9. LeftBlind'
  BY <1>1, <1>3 DEF LeftBlind, Silent, Jobs
<1> QED
  BY <1>5, <1>6, <1>8, <1>9 DEF Jobs

\* What a start finds alive and known it has adopted.
LEMMA StartJobs ==
  ASSUME QueueTyped, Jobs, NEW adopt \in BOOLEAN, NEW retry \in BOOLEAN, NEW stay \in BOOLEAN,
         Start(adopt, retry, stay)
  PROVE  Jobs'
<1> DEFINE adopted == IF adopt THEN Adoptable ELSE {}
<1>1. /\ manager = "none" /\ NoLiveWorkers(adopted)
      /\ running' = [p \in adopted |-> progress[p].pid]
      /\ UNCHANGED <<worker, blind, progress>> /\ manager' # "none"
  BY DEF Start, disk
<1>2. Workers' = Workers /\ Unseen' = Unseen /\ Known' = Known
  BY <1>1 DEF Workers, Unseen, Known, Live, Seen
<1>3. PidsTrue' /\ OneJobPerMedium' /\ RunningReported' /\ LeftBlind'
  BY <1>1, <1>2 DEF PidsTrue, OneJobPerMedium, RunningReported, LeftBlind, Jobs, Live
<1> HIDE DEF adopted
<1>4. ASSUME NEW w \in Known
      PROVE  worker[w].point \in adopted /\ progress[worker[w].point].pid = w
  <2>1. PICK p \in Point : p = worker[w].point
    BY WorkersAre DEF Known, QueueTyped
  <2>2. w \in Workers /\ Live(w) /\ w \notin Silent
    BY <1>1, <2>1 DEF Known, Seen, Unseen, LeftBlind, Jobs
  <2>3. progress[p] = [status |-> "running", pid |-> w]
    BY <2>1, <2>2 DEF RunningReported, Jobs, Silent
  <2>4. ProcessAlive(p)
    BY <2>2, <2>3 DEF ProcessAlive
  <2> QED
    BY <1>1, <2>1, <2>3, <2>4 DEF NoLiveWorkers
<1>5. RunningKnown'
  BY <1>1, <1>2, <1>4 DEF RunningKnown
<1> QED
  BY <1>3, <1>5 DEF Jobs

\* A launch takes a medium that no known worker has.
LEMMA LaunchJobs ==
  ASSUME QueueTyped, Jobs, Launch
  PROVE  Jobs'
<1>1. PICK p \in Point : p = pending[FirstFree]
  BY FirstFreeIs DEF Launch, MayLaunch
<1>2. \A q \in DOMAIN running : Medium[q] # Medium[p]
  BY <1>1, FirstFreeIs DEF Launch, MayLaunch
<1>3. PICK n : n = Len(worker) + 1
  OBVIOUS
<1>4. /\ worker' = Append(worker, [point |-> p, pc |-> "spawned"])
      /\ running' = [q \in (DOMAIN running) \cup {p} |-> IF q = p THEN n ELSE running[q]]
      /\ manager = "launch" /\ UNCHANGED <<manager, blind, progress>>
  BY <1>1, <1>3 DEF Launch, disk
<1>5. /\ Workers' = Workers \cup {n} /\ n \notin Workers
      /\ \A w \in Workers : worker'[w] = worker[w]
      /\ worker'[n] = [point |-> p, pc |-> "spawned"]
  BY <1>1, <1>3, LaunchAppends
<1>6. Unseen' = Unseen /\ Known' \subseteq Known \cup {n}
  <2>1. Unseen' = Unseen
    BY <1>4, <1>5 DEF Unseen, QueueTyped, WorkersOK
  <2> QED
    BY <1>5, <2>1 DEF Known, Live, Seen
<1>7. PidsTrue'
  BY <1>4, <1>5 DEF PidsTrue, Jobs
<1>8. ASSUME NEW w \in Known PROVE /\ worker[w].point # p /\ Medium[worker[w].point] # Medium[p]
                                   /\ w \in Workers
  BY <1>2, <1>4 DEF RunningKnown, Jobs, Known
<1>9. OneJobPerMedium'
  <2>1. OneJob
    BY OneJobIs DEF Jobs
  <2>2. OneJob'
    BY <1>5, <1>6, <1>8, <2>1 DEF OneJob
  <2>3. OneJobPerMedium' <=> OneJob'
    BY OneJobIs, PTL
  <2> QED
    BY <2>2, <2>3
<1>10. RunningKnown'
  <2> SUFFICES ASSUME NEW w \in Known \cup {n}
               PROVE  /\ worker'[w].point \in DOMAIN running'
                      /\ running'[worker'[w].point] = w
    BY <1>6 DEF RunningKnown
  <2>1. CASE w = n
    <3>1. worker'[n].point = p
      BY <1>5
    <3>2. p \in DOMAIN running' /\ running'[p] = n
      BY <1>4
    <3> QED
      BY <2>1, <3>1, <3>2, Zenon
  <2>2. CASE w \in Known
    <3>1. worker[w].point \in DOMAIN running /\ running[worker[w].point] = w
      BY <1>4, <2>2 DEF RunningKnown, Jobs
    <3> QED
      BY <1>4, <1>5, <1>8, <2>2, <3>1
  <2> QED
    BY <2>1, <2>2
<1>11. RunningReported'
  <2> SUFFICES ASSUME NEW w \in Known \cup {n}, worker'[w].pc # "spawned"
               PROVE  progress'[worker'[w].point] = [status |-> "running", pid |-> w]
    BY <1>6 DEF RunningReported
  <2>1. w \in Known /\ worker'[w] = worker[w]
    BY <1>5, <1>8
  <2> QED
    BY <1>4, <2>1 DEF RunningReported, Jobs
<1>12. LeftBlind'
  BY <1>4 DEF LeftBlind
<1> QED
  BY <1>7, <1>9, <1>10, <1>11, <1>12 DEF Jobs

\* A worker that is alive is not polled away.
LEMMA PollJobs ==
  ASSUME QueueTyped, Jobs, Poll
  PROVE  Jobs'
<1>1. /\ running' = [p \in (DOMAIN running) \ Ended |-> running[p]]
      /\ UNCHANGED <<worker, progress, blind>> /\ manager = "poll" /\ manager' = "status"
  BY DEF Poll, Proceed
<1>2. Workers' = Workers /\ Unseen' = Unseen /\ Known' = Known
  BY <1>1 DEF Workers, Unseen, Known, Live, Seen
<1>3. PidsTrue' /\ OneJobPerMedium' /\ RunningReported' /\ LeftBlind'
  BY <1>1, <1>2 DEF PidsTrue, OneJobPerMedium, RunningReported, LeftBlind, Jobs, Live
<1>4. RunningKnown'
  BY <1>1, <1>2 DEF RunningKnown, Jobs, Ended, Known
<1> QED
  BY <1>3, <1>4 DEF Jobs

\* Without a manager nobody knows the workers that have not reported.
LEMMA GoneJobs ==
  ASSUME QueueTyped, Jobs, Gone, worker' = worker, progress' = progress
  PROVE  Jobs'
<1>1. manager' = "none" /\ blind' = blind \cup Silent
  BY DEF Gone, Proceed
<1>2. Workers' = Workers /\ Silent' = Silent
  BY DEF Workers, Silent
<1>3. Unseen \subseteq Unseen' /\ Known' \subseteq Known
  <2>1. Unseen \subseteq Unseen'
    BY <1>1 DEF Unseen
  <2> QED
    BY <1>2, <2>1 DEF Known, Live, Seen
<1>4. PidsTrue' /\ RunningKnown' /\ LeftBlind'
  BY <1>1, <1>2 DEF PidsTrue, RunningKnown, LeftBlind, Jobs
<1>5. OneJobPerMedium' /\ RunningReported'
  BY <1>2, <1>3 DEF OneJobPerMedium, RunningReported, Jobs, Live
<1> QED
  BY <1>4, <1>5 DEF Jobs

\* Without a step of a worker or a change of the table nothing changes.
LEMMA QuietJobs ==
  ASSUME QueueTyped, Jobs, UNCHANGED <<worker, progress, blind, running>>,
         manager = "none" <=> manager' = "none"
  PROVE  Jobs'
<1>1. Workers' = Workers /\ Unseen' = Unseen /\ Known' = Known /\ Silent' = Silent
  BY DEF Workers, Unseen, Known, Live, Seen, Silent
<1> QED
  BY <1>1 DEF Jobs, PidsTrue, OneJobPerMedium, RunningKnown, RunningReported, LeftBlind, Live

\* Jobs after any step.
LEMMA JobsStep ==
  ASSUME QueueTyped, Jobs, [QueueNext]_queueVars
  PROVE  Jobs'
<1>1. CASE UNCHANGED queueVars
  BY <1>1, QuietJobs DEF queueVars, own, disk
<1>2. CASE \E adopt, retry, stay \in BOOLEAN : Start(adopt, retry, stay)
  BY <1>2, StartJobs
<1>3. CASE \E w \in Workers : WorkerStep(w) \/ Killed(w)
  BY <1>3, BeginJobs, PublishJobs, ExitJobs, KilledJobs DEF WorkerStep
<1>4. CASE Bookkeeping \/ SpawnFails
  <2>1. UNCHANGED <<worker, progress, blind, running>>
    BY <1>4, BookkeepingKeeps DEF SpawnFails, disk
  <2>2. manager = "none" <=> manager' = "none"
    BY <1>4 DEF Bookkeeping, Look, Launched, WriteStatus, Interrupt, AskWorkers, RequestStop,
       Resume, SpawnFails, Proceed
  <2> QED
    BY <2>1, <2>2, QuietJobs
<1>5. CASE Launch \/ Poll
  BY <1>5, LaunchJobs, PollJobs
<1>6. CASE Leave \/ KillManager
  BY <1>6, GoneJobs DEF Leave, KillManager, disk
<1> QED
  BY <1>1, <1>2, <1>3, <1>4, <1>5, <1>6 DEF QueueNext, ManagerStep, Bookkeeping

------------------------------------------------------------------------------
(* Scan queue: results. *)

\* Where no result becomes reusable, the work that is open stays so.
LEMMA OpenStays ==
  ASSUME QueueTyped, Results, Known' \subseteq Known, Unseen \subseteq Unseen',
         \A w \in Known' : /\ worker'[w].point = worker[w].point
                           /\ worker'[w].pc = worker[w].pc \/ worker[w].pc = "spawned",
         \A p \in Point : report'[p] \in Reusable => report[p] \in Reusable,
         manager' # "none" =>
           /\ manager # "none" /\ pending' \in Seq(Point)
           /\ \A i \in DOMAIN pending' : Pending(pending'[i]) \/ report'[pending'[i]] \notin Reusable
  PROVE  Results'
<1>1. WorkOpen'
  <2> SUFFICES ASSUME NEW w \in Known', worker'[w].pc # "published"
               PROVE  report'[worker'[w].point] \notin Reusable
    BY DEF WorkOpen
  <2>1. w \in Known /\ worker[w].point \in Point /\ worker[w].pc # "published"
    BY WorkersAre DEF Known, QueueTyped
  <2> QED
    BY <2>1 DEF WorkOpen, Results
<1>2. PendingOpen'
  <2> SUFFICES ASSUME manager' # "none", NEW i \in DOMAIN pending',
                      pending'[i] \notin Unseen', report'[pending'[i]] \in Reusable
               PROVE  FALSE
    BY DEF PendingOpen
  <2>1. PICK j \in DOMAIN pending : pending[j] = pending'[i]
    BY DEF Pending
  <2>2. pending[j] \in Point
    BY ElementOfSeq, LenProperties DEF QueueTyped, QueueOK
  <2> QED
    BY <2>1, <2>2 DEF PendingOpen, Results
<1> QED
  BY <1>1, <1>2 DEF Results

\* A result is published once: what is published is not at work, nor to be run.
LEMMA PublishResults ==
  ASSUME QueueTyped, Jobs, Results, Accounts, NEW w \in Workers, Publish(w)
  PROVE  Results'
<1>1. /\ Workers' = Workers /\ Unseen' = Unseen /\ Known' = Known
      /\ \A v \in Workers : worker'[v].point = worker[v].point
      /\ \A v \in Workers \ {w} : worker'[v] = worker[v]
      /\ worker'[w].pc = "published"
  BY StageJobs DEF Publish, Live, Stages
<1>2. PICK p \in Point : p = worker[w].point
  BY WorkersAre DEF QueueTyped
<1>3. /\ \A q \in Point \ {p} : report'[q] = report[q]
      /\ worker[w].pc = "running" /\ UNCHANGED <<manager, pending>>
  BY <1>2 DEF Publish, own, QueueTyped, FilesOK
<1>4. p \notin Unseen => w \in Known
  BY <1>2, <1>3 DEF Known, Seen, Live
<1>5. OneJob
  BY OneJobIs DEF Jobs
<1>6. WorkOpen'
  <2> SUFFICES ASSUME NEW v \in Known, worker'[v].pc # "published"
               PROVE  report'[worker[v].point] \notin Reusable
    BY <1>1 DEF WorkOpen, Known
  <2>1. v # w /\ v \in Workers /\ worker[v].point \in Point /\ worker[v].pc # "published"
    BY <1>1, WorkersAre DEF Known, QueueTyped
  <2>2. worker[v].point # p
    BY <1>2, <1>4, <1>5, <2>1 DEF OneJob, Known, Seen
  <2> QED
    BY <1>3, <2>1, <2>2 DEF WorkOpen, Results
<1>7. PendingOpen'
  <2> SUFFICES ASSUME manager # "none", NEW i \in DOMAIN pending, pending[i] \notin Unseen
               PROVE  report'[pending[i]] \notin Reusable
    BY <1>1, <1>3 DEF PendingOpen
  <2>1. pending[i] \in Point
    BY ElementOfSeq, LenProperties DEF QueueTyped, QueueOK
  <2>2. pending[i] # p
    BY <1>2, <1>4 DEF RunningKnown, Jobs, PendingApart, Accounts
  <2> QED
    BY <1>3, <2>1, <2>2 DEF PendingOpen, Results
<1> QED
  BY <1>6, <1>7 DEF Results

\* Results after a step of a worker.
LEMMA WorkerResults ==
  ASSUME QueueTyped, Jobs, Results, Accounts, NEW w \in Workers, WorkerStep(w) \/ Killed(w)
  PROVE  Results'
<1>1. CASE Publish(w)
  BY <1>1, PublishResults
<1>2. CASE Begin(w) \/ Exit(w) \/ Killed(w)
  <2>1. PICK s \in Stages : /\ worker' = [worker EXCEPT ![w].pc = s] /\ blind' = blind
                            /\ worker[w].pc = "spawned" \/ s = "exited"
                            /\ Live(w)
    BY <1>2 DEF Begin, Exit, Killed, Stages, Live
  <2>2. /\ Workers' = Workers /\ Unseen' = Unseen /\ Known' \subseteq Known
        /\ \A v \in Workers : worker'[v].point = worker[v].point
        /\ \A v \in Workers \ {w} : worker'[v] = worker[v]
        /\ worker'[w].pc = s
    BY <2>1, StageJobs
  <2>3. \A v \in Known' : v \in Workers /\ (v = w => s # "exited")
    BY <2>2 DEF Known, Live
  <2>4. UNCHANGED <<manager, pending>>
    BY <1>2 DEF Begin, Exit, Killed, own
  <2>5. \A p \in Point : report'[p] \in Reusable => report[p] \in Reusable
    BY <1>2, WorkersAre DEF Begin, Exit, Killed, disk, QueueTyped, FilesOK, Reusable
  <2>6. \A i \in DOMAIN pending : Pending(pending[i])
    BY DEF Pending
  <2>7. pending \in Seq(Point)
    BY DEF QueueTyped, QueueOK
  <2>8. \A v \in Known' : /\ worker'[v].point = worker[v].point
                          /\ worker'[v].pc = worker[v].pc \/ worker[v].pc = "spawned"
    BY <2>1, <2>2, <2>3
  <2> QED
    BY <2>2, <2>4, <2>5, <2>6, <2>7, <2>8, OpenStays
<1> QED
  BY <1>1, <1>2 DEF WorkerStep

\* A start takes only what has no reusable result.
LEMMA StartResults ==
  ASSUME QueueTyped, Results, NEW adopt \in BOOLEAN, NEW retry \in BOOLEAN, NEW stay \in BOOLEAN,
         Start(adopt, retry, stay)
  PROVE  Results'
<1>1. PICK adopted : pending' = ToRun(adopted)
  BY DEF Start
<1>2. UNCHANGED <<worker, blind, report>>
  BY DEF Start, disk
<1>3. PendingOpen'
  BY <1>1, <1>2, ToRunIs DEF PendingOpen
<1>4. WorkOpen'
  BY <1>2 DEF WorkOpen, Known, Live, Seen, Unseen, Workers, Results
<1> QED
  BY <1>3, <1>4 DEF Results

\* What is launched was open.
LEMMA LaunchResults ==
  ASSUME QueueTyped, Jobs, Results, Launch
  PROVE  Results'
<1>1. PICK p \in Point : p = pending[FirstFree]
  BY FirstFreeIs DEF Launch, MayLaunch
<1>2. PICK n : n = Len(worker) + 1
  OBVIOUS
<1>3. /\ Workers' = Workers \cup {n} /\ n \notin Workers
      /\ \A w \in Workers : worker'[w] = worker[w]
      /\ worker'[n] = [point |-> p, pc |-> "spawned"]
  BY <1>1, <1>2, LaunchAppends
<1>4. UNCHANGED <<manager, blind, report>> /\ manager = "launch"
  BY DEF Launch, disk
<1>5. Unseen' = Unseen
  BY <1>3, <1>4 DEF Unseen, QueueTyped, WorkersOK
<1>6. FirstFree \in DOMAIN pending /\ pending \in Seq(Point) /\ pending' = RemoveAt(pending, FirstFree)
  BY FirstFreeIs DEF Launch, MayLaunch, QueueTyped, QueueOK
<1>7. \A i \in DOMAIN pending' : Pending(pending'[i])
  BY <1>6, RemoveAtIs DEF Pending
<1>8. PendingOpen'
  BY <1>4, <1>5, <1>7 DEF PendingOpen, Pending, Results
<1>9. WorkOpen'
  <2> SUFFICES ASSUME NEW w \in Known', worker'[w].pc # "published"
               PROVE  report[worker'[w].point] \notin Reusable
    BY <1>4 DEF WorkOpen
  <2>1. CASE w = n
    <3>1. worker'[n].point = p /\ p \notin Unseen
      BY <1>3, <1>5, <2>1 DEF Known, Seen
    <3> QED
      BY <1>1, <1>4, <1>6, <2>1, <3>1 DEF PendingOpen, Results
  <2>2. CASE w \in Workers
    <3>1. w \in Known /\ worker'[w] = worker[w]
      BY <1>3, <1>5, <2>2 DEF Known, Seen, Live
    <3> QED
      BY <3>1 DEF WorkOpen, Results
  <2> QED
    BY <1>3, <2>1, <2>2 DEF Known
<1> QED
  BY <1>8, <1>9 DEF Results

\* Those who manage report nothing themselves, but a failure.
LEMMA ManagerResults ==
  ASSUME QueueTyped, Results,
         Bookkeeping \/ SpawnFails \/ Poll \/ Leave \/ KillManager \/ UNCHANGED queueVars
  PROVE  Results'
<1>1. worker' = worker /\ Unseen \subseteq Unseen'
  <2>1. worker' = worker /\ (blind' = blind \/ blind' = blind \cup Silent)
    BY BookkeepingKeeps
       DEF SpawnFails, Poll, Leave, KillManager, Gone, queueVars
  <2> QED
    BY <2>1 DEF Unseen
<1>2. Known' \subseteq Known
  BY <1>1 DEF Known, Live, Seen, Workers
<1>3. \A p \in Point : report'[p] \in Reusable => report[p] \in Reusable
  <2>1. CASE Poll
    BY <2>1 DEF Poll, Row, Reusable
  <2>2. CASE UNCHANGED report
    BY <2>2
  <2> QED
    BY <2>1, <2>2, BookkeepingKeeps DEF SpawnFails, Leave, KillManager, queueVars, disk
<1>4. ASSUME manager' # "none"
      PROVE  /\ manager # "none" /\ pending' \in Seq(Point)
             /\ \A i \in DOMAIN pending' :
                  Pending(pending'[i]) \/ report'[pending'[i]] \notin Reusable
  <2>0. \A i \in DOMAIN pending : Pending(pending[i])
    BY DEF Pending
  <2>1. CASE Poll
    <3>1. /\ pending' = Again(Ended) \o pending
          /\ Again(Ended) \in Seq(Point) /\ pending \in Seq(Point) /\ pending' \in Seq(Point)
      BY <2>1, AgainIs, ConcatProperties DEF Poll, QueueTyped, QueueOK
    <3>2. \A i \in DOMAIN Again(Ended) : report'[Again(Ended)[i]] = "interrupted"
      BY <2>1, AgainIs DEF Poll, Ended, QueueTyped, QueueOK
    <3>3. \A j \in DOMAIN pending' : \/ \E i \in DOMAIN Again(Ended) : pending'[j] = Again(Ended)[i]
                                     \/ \E i \in DOMAIN pending : pending'[j] = pending[i]
      <4>1. PICK back : back = Again(Ended)
        OBVIOUS
      <4>2. back \in Seq(Point) /\ pending \in Seq(Point) /\ pending' = back \o pending
        BY <3>1, <4>1
      <4>3. \A j \in DOMAIN (back \o pending) :
              \/ \E i \in DOMAIN back : (back \o pending)[j] = back[i]
              \/ \E i \in DOMAIN pending : (back \o pending)[j] = pending[i]
        BY <4>2, ConcatIs
      <4> QED
        BY <4>1, <4>2, <4>3
    <3> QED
      BY <2>0, <2>1, <3>1, <3>2, <3>3 DEF Poll, Reusable
  <2>2. CASE SpawnFails
    BY <2>2, FirstFreeIs, RemoveAtIs DEF SpawnFails, MayLaunch, QueueTyped, QueueOK, Pending
  <2>3. CASE Bookkeeping \/ UNCHANGED queueVars
    <3>1. pending' = pending
      BY <2>3, BookkeepingKeeps DEF queueVars, own
    <3>2. manager # "none"
      BY <2>3, <1>4 DEF Bookkeeping, Look, Launched, WriteStatus, Interrupt, AskWorkers,
         RequestStop, Resume, Proceed, queueVars
    <3> QED
      BY <2>0, <3>1, <3>2 DEF QueueTyped, QueueOK
  <2>4. CASE Leave \/ KillManager
    BY <1>4, <2>4 DEF Leave, KillManager, Gone, Proceed
  <2> QED
    BY <2>1, <2>2, <2>3, <2>4
<1> QED
  BY <1>1, <1>2, <1>3, <1>4, OpenStays

\* Results after any step.
LEMMA ResultsStep ==
  ASSUME QueueTyped, Jobs, Results, Accounts, [QueueNext]_queueVars
  PROVE  Results'
  BY StartResults, WorkerResults, LaunchResults, ManagerResults
     DEF QueueNext, ManagerStep, Bookkeeping

------------------------------------------------------------------------------
(* Scan queue: accounts. *)

\* Where the points stay where they are, a result may change for a running point, or for
\* one nobody sees.
LEMMA AccountsKeep ==
  ASSUME QueueTyped, Accounts, UNCHANGED <<pending, running, finished>>,
         manager = "none" <=> manager' = "none",
         Unseen \subseteq Unseen',
         \A p \in Point : report'[p] = report[p] \/ p \in DOMAIN running \/ p \in Unseen',
         manager # "none" /\ stopReason # "none" => stopReason' # "none",
         manager # "none" /\ stopReason = "manager_failed" => stopReason' = "manager_failed",
         StopsLate'
  PROVE  Accounts'
<1>1. PendingApart' /\ \A p : Pending(p)' <=> Pending(p)
  BY DEF PendingApart, Accounts, Pending
<1>2. Covered'
  BY <1>1 DEF Covered, Accounts
<1>3. RowsApart'
  <2>1. ASSUME manager # "none", NEW r \in finished
        PROVE  r[2] = report'[r[1]] \/ r[2] = "interrupted" \/ r[1] \in Unseen'
    <3>1. r[1] \in Point /\ r[1] \notin DOMAIN running
      BY <2>1 DEF RowsApart, Accounts, QueueTyped, QueueOK
    <3> QED
      BY <2>1, <3>1 DEF RowsApart, Accounts
  <2> QED
    BY <1>1, <2>1 DEF RowsApart, Accounts
<1> QED
  BY <1>1, <1>2, <1>3 DEF Accounts

\* A worker changes the result of a running point.
LEMMA WorkerAccounts ==
  ASSUME QueueTyped, Jobs, Accounts, NEW w \in Workers, WorkerStep(w) \/ Killed(w)
  PROVE  Accounts'
<1>1. PICK p \in Point : p = worker[w].point
  BY WorkersAre DEF QueueTyped
<1>2. \A q \in Point \ {p} : report'[q] = report[q]
  BY <1>1 DEF WorkerStep, Begin, Publish, Exit, Killed, disk, QueueTyped, FilesOK
<1>3. UNCHANGED <<pending, running, finished, manager, stopReason, blind>> /\ Live(w)
  BY DEF WorkerStep, Begin, Publish, Exit, Killed, own, Live
<1>4. [QueueNext]_queueVars
  BY DEF QueueNext
<1>5. Unseen \subseteq Unseen'
  BY <1>4, OldWorkers
<1>6. p \in Unseen \/ (manager # "none" => p \in DOMAIN running)
  BY <1>1, <1>3 DEF Known, Seen, RunningKnown, Jobs
<1>7. StopsLate'
  BY <1>3 DEF StopsLate, Accounts
<1>8. CASE manager = "none"
  BY <1>3, <1>7, <1>8 DEF Accounts, PendingApart, RowsApart, Covered
<1>9. CASE manager # "none"
  <2>1. \A q \in Point : report'[q] = report[q] \/ q \in DOMAIN running \/ q \in Unseen'
    BY <1>2, <1>5, <1>6, <1>9
  <2> QED
    BY <1>3, <1>5, <1>7, <2>1, AccountsKeep
<1> QED
  BY <1>8, <1>9

\* Bookkeeping does not move points.
LEMMA BookkeepingAccounts ==
  ASSUME QueueTyped, Accounts, Bookkeeping
  PROVE  Accounts'
<1>1. UNCHANGED <<worker, report, blind, pending, running, finished>>
  BY BookkeepingKeeps
<1>2. Unseen \subseteq Unseen'
  BY <1>1 DEF Unseen
<1>3. /\ manager = "none" <=> manager' = "none"
      /\ stopReason # "none" => stopReason' # "none"
      /\ stopReason = "manager_failed" => stopReason' = "manager_failed"
      /\ StopsLate'
  BY DEF Bookkeeping, Look, Launched, WriteStatus, Interrupt, AskWorkers, RequestStop, Resume,
     Proceed, own, StopsLate, Accounts
<1> QED
  BY <1>1, <1>2, <1>3, AccountsKeep

\* A start divides the points into adopted, finished and to be run.
LEMMA StartAccounts ==
  ASSUME QueueTyped, NEW adopt \in BOOLEAN, NEW retry \in BOOLEAN, NEW stay \in BOOLEAN,
         Start(adopt, retry, stay)
  PROVE  Accounts'
<1> DEFINE adopted == IF adopt THEN Adoptable ELSE {}
<1>1. /\ pending' = ToRun(adopted)
      /\ finished' = {<<p, report[p]>> : p \in {q \in Point \ adopted : report[q] \in Reusable}}
      /\ running' = [p \in adopted |-> progress[p].pid]
      /\ manager' = "top" /\ stopReason' = "none" /\ report' = report
  BY DEF Start, disk
<1> HIDE DEF adopted
<1>2. PendingApart'
  BY <1>1, ToRunIs DEF PendingApart
<1>3. \A p : Pending(p)' => p \in Point \ adopted /\ report[p] \notin Reusable
  BY <1>1, ToRunIs DEF Pending
<1>4. \A p \in Point \ adopted : report[p] \notin Reusable => Pending(p)'
  BY <1>1, ToRunIs DEF Pending
<1>5. \A r \in finished' : \E p \in Point \ adopted : r = <<p, report[p]>> /\ report[p] \in Reusable
  BY <1>1
<1>6. RowsApart'
  BY <1>1, <1>3, <1>5 DEF RowsApart, Reusable
<1>7. Covered'
  <2> SUFFICES ASSUME NEW p \in Point \ adopted, ~Pending(p)'
               PROVE  \E r \in finished' : r[1] = p
    BY <1>1 DEF Covered
  <2>1. report[p] \in Reusable
    BY <1>4
  <2>2. <<p, report[p]>> \in finished'
    BY <1>1, <2>1
  <2> QED
    BY <2>2
<1>8. StopsLate'
  BY <1>1 DEF StopsLate
<1> QED
  BY <1>2, <1>6, <1>7, <1>8 DEF Accounts

\* Taking the first free point from the list.
LEMMA FreeTaken ==
  ASSUME QueueTyped, Accounts, manager # "none", Free # {},
         pending' = RemoveAt(pending, FirstFree)
  PROVE  /\ \A p : Pending(p)' <=> Pending(p) /\ p # pending[FirstFree]
         /\ Pending(pending[FirstFree])
         /\ \A i, j \in DOMAIN pending' : pending'[i] = pending'[j] => i = j
<1>1. pending \in Seq(Point) /\ FirstFree \in DOMAIN pending
  BY FirstFreeIs DEF QueueTyped, QueueOK
<1>2. \A i, j \in DOMAIN pending : pending[i] = pending[j] => i = j
  BY DEF PendingApart, Accounts
<1>3. PICK k \in DOMAIN pending : k = FirstFree
  BY <1>1
<1>4. PICK rest : rest = RemoveAt(pending, k)
  OBVIOUS
<1>5. /\ \A j \in DOMAIN rest : \E i \in (DOMAIN pending) \ {k} : rest[j] = pending[i]
      /\ \A i \in (DOMAIN pending) \ {k} : \E j \in DOMAIN rest : rest[j] = pending[i]
      /\ \A i, j \in DOMAIN rest : rest[i] = rest[j] => i = j
  <2>1. /\ \A j \in DOMAIN RemoveAt(pending, k) :
              \E i \in (DOMAIN pending) \ {k} : RemoveAt(pending, k)[j] = pending[i]
        /\ \A i \in (DOMAIN pending) \ {k} :
              \E j \in DOMAIN RemoveAt(pending, k) : RemoveAt(pending, k)[j] = pending[i]
        /\ (\A i, j \in DOMAIN pending : pending[i] = pending[j] => i = j) =>
             \A i, j \in DOMAIN RemoveAt(pending, k) :
               RemoveAt(pending, k)[i] = RemoveAt(pending, k)[j] => i = j
    BY <1>1, RemoveAtIs
  <2> QED
    BY <1>2, <1>4, <2>1
<1>6. pending' = rest
  BY <1>3, <1>4
<1>7. \A p : (\E j \in DOMAIN rest : rest[j] = p) <=> Pending(p) /\ p # pending[k]
  BY <1>2, <1>5 DEF Pending
<1> QED
  BY <1>3, <1>5, <1>6, <1>7 DEF Pending

\* A launch moves a point from the list to the table.
LEMMA LaunchAccounts ==
  ASSUME QueueTyped, Accounts, Launch
  PROVE  Accounts'
<1>1. PICK p \in Point : p = pending[FirstFree]
  BY FirstFreeIs DEF Launch, MayLaunch
<1>2. /\ manager = "launch" /\ Free # {} /\ pending' = RemoveAt(pending, FirstFree)
      /\ DOMAIN running' = (DOMAIN running) \cup {p}
      /\ UNCHANGED <<manager, finished, stopReason, report, blind>>
  BY <1>1 DEF Launch, MayLaunch, disk
<1>3. /\ \A q : Pending(q)' <=> Pending(q) /\ q # p
      /\ Pending(p)
      /\ \A i, j \in DOMAIN pending' : pending'[i] = pending'[j] => i = j
  BY <1>1, <1>2, FreeTaken
<1>4. [QueueNext]_queueVars
  BY DEF QueueNext, ManagerStep
<1>5. Unseen \subseteq Unseen'
  BY <1>4, OldWorkers
<1>6. stopReason = "none" /\ manager # "none"
  BY <1>2 DEF StopsLate, Accounts
<1>7. \A q : Pending(q) => q \notin DOMAIN running
  BY <1>6 DEF Pending, PendingApart, Accounts
<1>8. PendingApart'
  <2>1. ASSUME NEW i \in DOMAIN pending' PROVE pending'[i] \notin DOMAIN running'
    <3>1. PICK q : q = pending'[i]
      OBVIOUS
    <3>2. Pending(q)'
      BY <3>1 DEF Pending
    <3> QED
      BY <1>2, <1>3, <1>7, <3>1, <3>2
  <2> QED
    BY <1>2, <1>3, <1>7, <2>1 DEF PendingApart
<1>9. \A r \in finished : ~Pending(r[1])
  BY <1>6 DEF RowsApart, Accounts
<1>10. RowsApart'
  BY <1>2, <1>3, <1>5, <1>6, <1>9 DEF RowsApart, Accounts
<1>11. Covered'
  BY <1>2, <1>3 DEF Covered, Accounts
<1>12. StopsLate'
  BY <1>2 DEF StopsLate, Accounts
<1> QED
  BY <1>8, <1>10, <1>11, <1>12 DEF Accounts

\* A failed launch drops a point, and says so.
LEMMA SpawnFailsAccounts ==
  ASSUME QueueTyped, Accounts, SpawnFails
  PROVE  Accounts'
<1>1. /\ manager = "launch" /\ Free # {} /\ pending' = RemoveAt(pending, FirstFree)
      /\ manager' = "finally" /\ stopReason' = "manager_failed"
      /\ UNCHANGED <<running, finished, worker, report, blind>>
  BY DEF SpawnFails, MayLaunch, Proceed, disk
<1>2. /\ \A q : Pending(q)' => Pending(q)
      /\ \A i, j \in DOMAIN pending' : pending'[i] = pending'[j] => i = j
  BY <1>1, FreeTaken
<1>3. \A q : Pending(q) => q \notin DOMAIN running
  BY <1>1 DEF Pending, PendingApart, Accounts
<1>4. PendingApart'
  <2>1. ASSUME NEW i \in DOMAIN pending' PROVE pending'[i] \notin DOMAIN running'
    <3>1. PICK q : q = pending'[i]
      OBVIOUS
    <3>2. Pending(q)'
      BY <3>1 DEF Pending
    <3> QED
      BY <1>1, <1>2, <1>3, <3>1, <3>2
  <2> QED
    BY <1>1, <1>2, <1>3, <2>1 DEF PendingApart
<1>5. \A r \in finished : ~Pending(r[1]) /\ r[2] # "interrupted"
  BY <1>1 DEF RowsApart, StopsLate, Accounts
<1>6. RowsApart'
  BY <1>1, <1>2, <1>5 DEF RowsApart, Accounts, Unseen
<1>7. Covered' /\ StopsLate'
  BY <1>1 DEF Covered, StopsLate
<1> QED
  BY <1>4, <1>6, <1>7 DEF Accounts

\* The points of the workers that have ended get a row, and the interrupted ones are
\* put back.
LEMMA PollAccounts ==
  ASSUME QueueTyped, Accounts, Poll
  PROVE  Accounts'
<1>1. /\ report' = [p \in Point |-> IF p \in Ended THEN Row(p) ELSE report[p]]
      /\ finished' = finished \cup {<<p, Row(p)>> : p \in Ended}
      /\ pending' = Again(Ended) \o pending
      /\ DOMAIN running' = (DOMAIN running) \ Ended
      /\ manager = "poll" /\ manager' = "status"
      /\ UNCHANGED <<worker, blind>>
  BY DEF Poll, Proceed
<1>2. Unseen' = Unseen
  BY <1>1 DEF Unseen
<1>3. /\ stopReason = "none" /\ stopReason' # "manager_failed"
      /\ "interrupted" \in {Row(p) : p \in Ended} => stopReason' # "none"
  BY <1>1 DEF Poll, StopsLate, Accounts
<1>4. Ended \subseteq Point /\ Ended \subseteq DOMAIN running
  BY DEF Ended, QueueTyped, QueueOK
<1>5. \A r \in finished : /\ r[1] \in Point /\ r[1] \notin Ended /\ r[1] \notin DOMAIN running
                          /\ ~Pending(r[1]) /\ r[2] # "interrupted"
  BY <1>1, <1>3, <1>4 DEF RowsApart, Accounts, QueueTyped, QueueOK
<1>6. /\ \A p : Pending(p)' <=> Pending(p) \/ (p \in Ended /\ Row(p) = "interrupted")
      /\ \A i, j \in DOMAIN pending' : pending'[i] = pending'[j] => i = j
  <2>1. PICK back : back = Again(Ended)
    OBVIOUS
  <2>2. /\ back \in Seq(Point)
        /\ \A i \in DOMAIN back : back[i] \in Ended /\ Row(back[i]) = "interrupted"
        /\ \A p \in Ended : Row(p) = "interrupted" => \E i \in DOMAIN back : back[i] = p
        /\ \A i, j \in DOMAIN back : back[i] = back[j] => i = j
    BY <2>1, AgainIs
  <2>3. /\ pending \in Seq(Point)
        /\ \A i, j \in DOMAIN pending : pending[i] = pending[j] => i = j
        /\ \A i \in DOMAIN pending : pending[i] \notin DOMAIN running
    BY <1>1 DEF QueueTyped, QueueOK, PendingApart, Accounts
  <2>4. \A i \in DOMAIN back, j \in DOMAIN pending : back[i] # pending[j]
    BY <1>4, <2>2, <2>3
  <2>5. PICK both : both = back \o pending
    OBVIOUS
  <2>6. /\ \A j \in DOMAIN both : \/ \E i \in DOMAIN back : both[j] = back[i]
                                  \/ \E i \in DOMAIN pending : both[j] = pending[i]
        /\ \A i \in DOMAIN back : \E j \in DOMAIN both : both[j] = back[i]
        /\ \A i \in DOMAIN pending : \E j \in DOMAIN both : both[j] = pending[i]
    <3>1. /\ \A j \in DOMAIN (back \o pending) :
               \/ \E i \in DOMAIN back : (back \o pending)[j] = back[i]
               \/ \E i \in DOMAIN pending : (back \o pending)[j] = pending[i]
          /\ \A i \in DOMAIN back :
               \E j \in DOMAIN (back \o pending) : (back \o pending)[j] = back[i]
          /\ \A i \in DOMAIN pending :
               \E j \in DOMAIN (back \o pending) : (back \o pending)[j] = pending[i]
      BY <2>2, <2>3, ConcatIs
    <3> QED
      BY <2>5, <3>1
  <2>7. \A i, j \in DOMAIN both : both[i] = both[j] => i = j
    <3>1. \A i, j \in DOMAIN (back \o pending) :
            (back \o pending)[i] = (back \o pending)[j] => i = j
      BY <2>2, <2>3, <2>4, ConcatIs
    <3> QED
      BY <2>5, <3>1
  <2>8. \A p : (\E j \in DOMAIN both : both[j] = p)
                 <=> Pending(p) \/ (p \in Ended /\ Row(p) = "interrupted")
    BY <2>2, <2>6 DEF Pending
  <2>9. pending' = both
    BY <1>1, <2>1, <2>5
  <2>10. \A p : Pending(p)' <=> \E j \in DOMAIN both : both[j] = p
    BY <2>9, Zenon DEF Pending
  <2> QED
    BY <2>7, <2>8, <2>9, <2>10, Zenon
<1>7. \A p : Pending(p) => p \notin DOMAIN running
  BY <1>1 DEF Pending, PendingApart, Accounts
<1>8. PendingApart'
  <2>1. ASSUME NEW i \in DOMAIN pending' PROVE pending'[i] \notin DOMAIN running'
    <3>1. PICK q : q = pending'[i]
      OBVIOUS
    <3>2. Pending(q)'
      BY <3>1 DEF Pending
    <3> QED
      BY <1>1, <1>6, <1>7, <3>1, <3>2
  <2> QED
    BY <1>1, <1>6, <1>7, <2>1 DEF PendingApart
<1>9. \A r \in finished' : r \in finished \/ \E p \in Ended : r = <<p, Row(p)>>
  BY <1>1
<1>10. RowsApart'
  <2>1. \A r, t \in finished' : r[1] = t[1] => r = t
    BY <1>1, <1>5, <1>9 DEF RowsApart, Accounts
  <2>2. ASSUME NEW r \in finished'
        PROVE  /\ r[1] \notin DOMAIN running'
               /\ Pending(r[1])' <=> r[2] = "interrupted"
               /\ r[2] = "interrupted" => stopReason' # "none"
               /\ r[2] = report'[r[1]] \/ r[2] = "interrupted" \/ r[1] \in Unseen'
    <3>1. CASE r \in finished
      <4>1. report'[r[1]] = report[r[1]]
        BY <1>1, <1>5, <3>1
      <4>2. r[2] = report[r[1]] \/ r[2] = "interrupted" \/ r[1] \in Unseen
        BY <1>1, <3>1 DEF RowsApart, Accounts
      <4> QED
        BY <1>1, <1>2, <1>5, <1>6, <3>1, <4>1, <4>2
    <3>2. CASE \E p \in Ended : r = <<p, Row(p)>>
      <4>1. PICK p \in Ended : r = <<p, Row(p)>>
        BY <3>2
      <4>2. r[1] = p /\ r[2] = Row(p) /\ p \in Point /\ p \in DOMAIN running
        BY <1>4, <4>1
      <4>3. report'[p] = Row(p) /\ p \notin DOMAIN running'
        BY <1>1, <4>2
      <4>4. Pending(p)' <=> Row(p) = "interrupted"
        BY <1>6, <1>7, <4>2
      <4> QED
        BY <1>3, <4>2, <4>3, <4>4
    <3> QED
      BY <1>9, <3>1, <3>2
  <2> QED
    BY <2>1, <2>2 DEF RowsApart
<1>11. Covered'
  <2> SUFFICES ASSUME NEW p \in Point, ~Pending(p)', p \notin DOMAIN running'
               PROVE  \E r \in finished' : r[1] = p
    BY DEF Covered
  <2>1. CASE p \in Ended
    <3>1. <<p, Row(p)>> \in finished'
      BY <1>1, <2>1
    <3> QED
      BY <3>1
  <2>2. CASE p \notin Ended
    <3>1. ~Pending(p) /\ p \notin DOMAIN running
      BY <1>1, <1>6, <2>2
    <3>2. \E r \in finished : r[1] = p
      BY <1>1, <1>3, <3>1 DEF Covered, Accounts
    <3> QED
      BY <1>1, <3>2
  <2> QED
    BY <2>1, <2>2
<1>12. StopsLate'
  BY <1>1, <1>3 DEF StopsLate
<1> QED
  BY <1>8, <1>10, <1>11, <1>12 DEF Accounts

\* Without a manager there is no account.
LEMMA GoneAccounts ==
  ASSUME Gone
  PROVE  Accounts'
  BY DEF Gone, Proceed, Accounts, PendingApart, RowsApart, Covered, StopsLate

\* Accounts after any step.
LEMMA AccountsStep ==
  ASSUME QueueTyped, Jobs, Accounts, [QueueNext]_queueVars
  PROVE  Accounts'
<1>1. CASE UNCHANGED queueVars
  <2>1. Unseen' = Unseen
    BY <1>1 DEF queueVars, Unseen
  <2> QED
    BY <1>1, <2>1, AccountsKeep DEF queueVars, own, disk, StopsLate, Accounts
<1>2. CASE Leave \/ KillManager
  BY <1>2, GoneAccounts DEF Leave, KillManager
<1> QED
  BY <1>1, <1>2, StartAccounts, WorkerAccounts, LaunchAccounts, SpawnFailsAccounts, PollAccounts,
     BookkeepingAccounts
     DEF QueueNext, ManagerStep, Bookkeeping

------------------------------------------------------------------------------
(* Scan queue: theorems. *)

\* Without managers and workers all holds.
LEMMA QueueInitInv == QueueInit => QueueInv
<1> SUFFICES ASSUME QueueInit PROVE QueueInv
  OBVIOUS
<1>1. Workers = {} /\ Known = {} /\ Silent = {}
  BY DEF QueueInit, Workers, Known, Silent
<1>2. Jobs
  BY <1>1, QueueInitTyped DEF QueueInit, Jobs, PidsTrue, OneJobPerMedium, RunningKnown,
     RunningReported, LeftBlind
<1>3. Results /\ Accounts
  BY <1>1 DEF QueueInit, Results, Accounts, WorkOpen, PendingOpen, PendingApart, RowsApart,
     Covered, StopsLate
<1> QED
  BY <1>2, <1>3, QueueInitTyped DEF QueueInv

\* The inductive invariant: types, who knows whom, which results are open and where each
\* point is kept.  run_queue() and worker() of b200_hbm_hbf_scan.py keep it with every
\* step, whatever is killed, interrupted, adopted or retried.
THEOREM QueueInvariant == QueueSpec => []QueueInv
<1>1. QueueInv /\ [QueueNext]_queueVars => QueueInv'
  BY QueueTypedStep, JobsStep, ResultsStep, AccountsStep DEF QueueInv
<1> QED
  BY <1>1, QueueInitInv, PTL DEF QueueSpec

\* b200_hbm_hbf_scan.py:572 runs one job per medium: no two live workers have the same
\* medium, over all managers, but for points that were left unseen.
THEOREM OneJobForEachMedium == QueueSpec => []OneJobPerMedium
<1>1. QueueInv => OneJobPerMedium
  BY DEF QueueInv, Jobs
<1> QED
  BY <1>1, QueueInvariant, PTL

\* The accounts, counted point by point.
LEMMA AccountsAccount ==
  ASSUME QueueTyped, Accounts
  PROVE  PointsAccounted
<1> SUFFICES ASSUME manager # "none", NEW p \in Point
             PROVE  LET rows == {r \in finished : r[1] = p}
                        todo == {i \in 1 .. Len(pending) : pending[i] = p}
                        runs == {p} \cap DOMAIN running
                    IN IF <<p, "interrupted">> \in rows
                         THEN stopReason # "none" /\ Cardinality(todo) = 1 /\ runs = {}
                         ELSE /\ Cardinality(rows) + Cardinality(todo) + Cardinality(runs)
                                   \in (IF stopReason = "manager_failed" THEN {0, 1} ELSE {1})
                              /\ \A r \in rows : r[2] = report[p] \/ p \in Unseen
  BY DEF PointsAccounted
<1>1. PICK rows : rows = {r \in finished : r[1] = p}
  OBVIOUS
<1>2. PICK todo : todo = {i \in 1 .. Len(pending) : pending[i] = p}
  OBVIOUS
<1>3. PICK runs : runs = {p} \cap DOMAIN running
  OBVIOUS
<1>4. /\ rows = {} \/ \E r : rows = {r}
      /\ rows # {} => \E r \in finished : r[1] = p /\ rows = {r}
  BY <1>1 DEF RowsApart, Accounts
<1>5. /\ Pending(p) => \E i : todo = {i}
      /\ ~Pending(p) => todo = {}
  <2>1. todo = {i \in DOMAIN pending : pending[i] = p}
    BY <1>2, LenProperties DEF QueueTyped, QueueOK
  <2> QED
    BY <2>1 DEF Pending, PendingApart, Accounts
<1>6. /\ p \in DOMAIN running => runs = {p}
      /\ p \notin DOMAIN running => runs = {}
  BY <1>3
<1>7. Cardinality({}) = 0 /\ \A x : Cardinality({x}) = 1
  BY FS_EmptySet, FS_Singleton
<1>8. CASE <<p, "interrupted">> \in rows
  <2>1. <<p, "interrupted">> \in finished
    BY <1>1, <1>8
  <2>2. stopReason # "none" /\ Pending(p) /\ p \notin DOMAIN running
    BY <2>1 DEF RowsApart, Accounts
  <2> QED
    BY <1>1, <1>2, <1>3, <1>5, <1>6, <1>7, <1>8, <2>2
<1>9. CASE <<p, "interrupted">> \notin rows
  <2>1. \A r \in rows : /\ ~Pending(p) /\ p \notin DOMAIN running
                        /\ r[2] = report[p] \/ p \in Unseen
    <3> TAKE r \in rows
    <3>1. r \in finished /\ r[1] = p
      BY <1>1
    <3>2. r = <<p, r[2]>>
      BY <3>1 DEF QueueTyped, QueueOK
    <3>3. r[2] # "interrupted"
      BY <1>9, <3>2
    <3> QED
      BY <3>1, <3>3 DEF RowsApart, Accounts
  <2>2. Pending(p) => p \notin DOMAIN running
    BY DEF Pending, PendingApart, Accounts
  <2>3. stopReason # "manager_failed" => Pending(p) \/ p \in DOMAIN running \/ rows # {}
    BY <1>1 DEF Covered, Accounts
  <2>4. Cardinality(rows) + Cardinality(todo) + Cardinality(runs)
           \in (IF stopReason = "manager_failed" THEN {0, 1} ELSE {1})
    <3>1. CASE rows # {}
      <4>1. Cardinality(rows) = 1 /\ Cardinality(todo) = 0 /\ Cardinality(runs) = 0
        BY <1>4, <1>5, <1>6, <1>7, <2>1, <3>1
      <4> QED
        BY <4>1
    <3>2. CASE rows = {} /\ Pending(p)
      <4>1. Cardinality(rows) = 0 /\ Cardinality(todo) = 1 /\ Cardinality(runs) = 0
        BY <1>5, <1>6, <1>7, <2>2, <3>2
      <4> QED
        BY <4>1
    <3>3. CASE rows = {} /\ p \in DOMAIN running
      <4>1. Cardinality(rows) = 0 /\ Cardinality(todo) = 0 /\ Cardinality(runs) = 1
        BY <1>5, <1>6, <1>7, <2>2, <3>3
      <4> QED
        BY <4>1
    <3>4. CASE rows = {} /\ ~Pending(p) /\ p \notin DOMAIN running
      <4>1. /\ Cardinality(rows) = 0 /\ Cardinality(todo) = 0 /\ Cardinality(runs) = 0
            /\ stopReason = "manager_failed"
        BY <1>5, <1>6, <1>7, <2>3, <3>4
      <4> QED
        BY <4>1
    <3> QED
      BY <3>1, <3>2, <3>3, <3>4
  <2> QED
    BY <1>1, <1>2, <1>3, <1>9, <2>1, <2>4
<1> QED
  BY <1>8, <1>9

\* run_queue() has every point on its list, in its table or among its rows, once, and the
\* rows say what the files of the points say.
THEOREM EveryPointAccounted == QueueSpec => []PointsAccounted
<1>1. QueueInv => PointsAccounted
  BY AccountsAccount DEF QueueInv
<1> QED
  BY <1>1, QueueInvariant, PTL

\* A step replaces no reusable result of a seen point.
LEMMA ResultsKept ==
  ASSUME QueueInv, [QueueNext]_queueVars
  PROVE  \A p \in Point : report[p] \in Reusable /\ report'[p] # report[p] => p \in Unseen
<1> SUFFICES ASSUME NEW p \in Point, report[p] \in Reusable, report'[p] # report[p], p \notin Unseen
             PROVE  FALSE
  OBVIOUS
<1>1. CASE Poll
  BY <1>1 DEF Poll, Row, Reusable
<1>2. ASSUME NEW w \in Workers, Begin(w) PROVE FALSE
  BY <1>2, WorkersAre DEF Begin, Reusable, QueueInv, QueueTyped, FilesOK
<1>3. ASSUME NEW w \in Workers, Publish(w) PROVE FALSE
  <2>1. worker[w].point = p /\ worker[w].pc = "running"
    BY <1>3, WorkersAre DEF Publish, QueueInv, QueueTyped, FilesOK
  <2>2. w \in Known
    BY <2>1 DEF Known, Seen, Live
  <2> QED
    BY <2>1, <2>2 DEF WorkOpen, Results, QueueInv
<1>4. CASE UNCHANGED report
  BY <1>4
<1>5. CASE Bookkeeping
  BY <1>5, BookkeepingKeeps DEF QueueInv
<1> QED
  BY <1>1, <1>2, <1>3, <1>4, <1>5
     DEF QueueNext, ManagerStep, WorkerStep, Bookkeeping, Start, Launch, SpawnFails, Leave,
         KillManager, Exit, Killed, queueVars, disk

\* REUSABLE_STATUSES: a completed result is neither removed by a retry nor replaced by a
\* second run of its point, but for points that were left unseen.
THEOREM ReusableResultKept == QueueSpec => ResultKept
<1>1. QueueInv /\ [QueueNext]_queueVars =>
        [\A p \in Point : report[p] \in Reusable /\ report'[p] # report[p] => p \in Unseen]_queueVars
  BY ResultsKept
<1> QED
  BY <1>1, QueueInvariant, PTL DEF QueueSpec, ResultKept

=============================================================================
