----------------------------- MODULE WindowList -----------------------------
(***************************************************************************)
(* The sampled windows of one point as one process runs them               *)
(* (native_stationary.py): in the order of the list, each with the store   *)
(* reservation in force; a run that proves the reservation too small       *)
(* starts the list again with a larger one, a window's error ends it.      *)
(***************************************************************************)
EXTENDS Naturals, Sequences

CONSTANT Windows   \* the number of windows

VARIABLES needs,       \* the reservation each window turns out to need: given
          faulty,      \* the windows whose run raises an error: given
          reservation, \* the reservation the windows run with
          records,     \* the reservations of the runs taken so far, in list order
          outcome      \* "sampling", "done", "failed" or "stopped"

listVars == <<needs, faulty, reservation, records, outcome>>

Position == Len(records) + 1

\* The reservation after window i of the list, from all the runs seen so far.
Raised(i) == CHOOSE r \in {needs[j] : j \in 1 .. i} : \A j \in 1 .. i : needs[j] <= r

ListInit == records = << >> /\ outcome = "sampling"

RunNext ==
  /\ outcome = "sampling" /\ Position <= Windows /\ Position \notin faulty
  /\ IF needs[Position] > reservation
       THEN reservation' = Raised(Position) /\ records' = << >>
       ELSE records' = Append(records, reservation) /\ UNCHANGED reservation
  /\ UNCHANGED <<needs, faulty, outcome>>

RunRaises ==
  /\ outcome = "sampling" /\ Position \in faulty
  /\ outcome' = "failed"
  /\ UNCHANGED <<needs, faulty, reservation, records>>

ListEnds ==
  /\ outcome = "sampling" /\ Position > Windows
  /\ outcome' = "done"
  /\ UNCHANGED <<needs, faulty, reservation, records>>

\* The user stops the point, or its wall budget is exhausted.
ListStopped ==
  /\ outcome = "sampling"
  /\ outcome' = "stopped"
  /\ UNCHANGED <<needs, faulty, reservation, records>>

ListNext == RunNext \/ RunRaises \/ ListEnds \/ ListStopped

ListSpec == ListInit /\ [][ListNext]_listVars
==============================================================================
