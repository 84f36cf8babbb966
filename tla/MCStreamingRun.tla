--------------------------- MODULE MCStreamingRun ---------------------------
\* Two requests, one in two chunks, the other in three or in two.  The arrivals, the
\* times of the demands, the order of the names and the number of lanes are chosen in
\* the initial state.
EXTENDS StreamingRun, TLC

CONSTANTS a0, a1, a2, b0, b1, b2, b3, bus, dma, link

\* A chunk ends with a terminal task; the next one depends on it.  When side holds,
\* b2 is a task beside the terminal b1 of the first chunk, which nothing waits for.
DepsOf(side) ==
  [t \in Tasks |-> CASE t \in {a0, b0} -> {}
                     [] t = a1 -> {a0} [] t = a2 -> {a1} [] t = b1 -> {b0}
                     [] t = b2 -> IF side THEN {b0} ELSE {b1}
                     [] t = b3 -> IF side THEN {b1} ELSE {b2}]

RankOf(flip) ==
  LET as == IF flip THEN 4 ELSE 0
      bs == IF flip THEN 0 ELSE 3
  IN  [t \in Tasks |-> CASE t = a0 -> as + 1 [] t = a1 -> as + 2 [] t = a2 -> as + 3
                         [] t = b0 -> bs + 1 [] t = b1 -> bs + 2 [] t = b2 -> bs + 3
                         [] t = b3 -> bs + 4]

Stream(side, arrivalA, arrivalB, times, flip) ==
  LET first == [arrival |-> arrivalA, marker |-> a0,
                chunks |-> <<{a0, a1}, {a2}>>, terminals |-> <<a1, a2>>]
      second == [arrival |-> arrivalB, marker |-> b0,
                 chunks |-> IF side THEN <<{b0, b1, b2}, {b3}>>
                                    ELSE <<{b0, b1}, {b2}, {b3}>>,
                 terminals |-> IF side THEN <<b1, b3>> ELSE <<b1, b2, b3>>]
  IN  [deps |-> DepsOf(side),
       demand |-> [t \in Tasks |-> CASE t \in {a0, b0} -> << >>
                                     [] t \in {a1, b2} -> (bus :> times[1])
                                     [] t \in {a2, b3} -> (dma :> times[2])
                                     [] t = b1 -> (dma :> times[3])],
       earliest |-> [t \in Tasks |-> CASE t = a0 -> arrivalA [] t = b0 -> arrivalB
                                       [] OTHER -> 0],
       rank |-> RankOf(flip),
       owner |-> [r \in Resources |-> link],
       capacity |-> [o \in Owners |-> 1 + (times[3] % 2)],
       requests |-> IF arrivalA < arrivalB \/ (arrivalA = arrivalB /\ ~flip)
                    THEN <<first, second>> ELSE <<second, first>>]

MCGraphs == {Stream(side, x, y, times, flip) :
               side \in BOOLEAN, flip \in BOOLEAN, x \in 0 .. 2, y \in 0 .. 2,
               times \in [1 .. 3 -> 0 .. 2]}

ASSUME GraphsAreStreams == \A g \in MCGraphs : IsStream(g)
=============================================================================
