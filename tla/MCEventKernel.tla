---------------------------- MODULE MCEventKernel ----------------------------
\* Instances of EventKernel: four tasks on two owners, one of them under two names.
EXTENDS EventKernel, TLC

CONSTANTS a, b, c, d, bus, dma, core, link, cores

\* dma and bus are two names of one wire; the cores are two lanes.
OwnerOf == [r \in Resources |-> IF r = core THEN cores ELSE link]
CapacityOf == [o \in Owners |-> IF o = cores THEN 2 ELSE 1]
RankOf == [t \in Tasks |-> CASE t = a -> 1 [] t = b -> 2 [] t = c -> 3 [] t = d -> 4]

\* A diamond: b and c need the wire under different names, d the cores.
Diamond ==
  [deps |-> [t \in Tasks |-> CASE t = a -> {} [] t = d -> {b, c} [] OTHER -> {a}],
   demand |-> [t \in Tasks |-> CASE t = a -> (core :> 1)
                                 [] t = b -> (bus :> 2 @@ core :> 1)
                                 [] t = c -> (dma :> 1)
                                 [] t = d -> (core :> 2)],
   earliest |-> [t \in Tasks |-> IF t = c THEN 2 ELSE 0],
   rank |-> RankOf, owner |-> OwnerOf, capacity |-> CapacityOf]

\* Independent tasks that contend: two groups on the wire, one on wire and core,
\* a task without a demand, a late one.
Contended ==
  [deps |-> [t \in Tasks |-> IF t = d THEN {a} ELSE {}],
   demand |-> [t \in Tasks |-> CASE t = a -> (bus :> 2)
                                 [] t = b -> (dma :> 1)
                                 [] t = c -> (bus :> 1 @@ core :> 3)
                                 [] t = d -> (dma :> 0)],
   earliest |-> [t \in Tasks |-> IF t = b THEN 1 ELSE 0],
   rank |-> RankOf, owner |-> OwnerOf, capacity |-> CapacityOf]

\* Three tasks for two lanes, and one that needs nothing.
Lanes ==
  [deps |-> [t \in Tasks |-> IF t = d THEN {b} ELSE {}],
   demand |-> [t \in Tasks |-> CASE t = a -> (core :> 3)
                                 [] t = b -> (core :> 1)
                                 [] t = c -> (core :> 2)
                                 [] t = d -> << >>],
   earliest |-> [t \in Tasks |-> 0],
   rank |-> RankOf, owner |-> OwnerOf, capacity |-> CapacityOf]

MCGraphs == {Diamond, Contended, Lanes}
==============================================================================
