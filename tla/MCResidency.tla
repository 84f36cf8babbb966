----------------------------- MODULE MCResidency -----------------------------
\* Weights that are only read, key-value pages that grow, and a workspace without
\* backing, in a pool that cannot hold them all.
EXTENDS Residency, TLC

CONSTANTS weights, kv, work, head, l1, c1, c2

MCSymmetry == Permutations({c1, c2})

MCProfile ==
  [a \in Allocations |->
     CASE a = weights ->
            [size |-> 2, granule |-> 2, committed |-> 2, resident |-> 0, backed |-> TRUE,
             evictable |-> TRUE, pinned |-> FALSE, readOnly |-> TRUE, dirty |-> FALSE]
       [] a = kv ->
            [size |-> 3, granule |-> 2, committed |-> 2, resident |-> 2, backed |-> TRUE,
             evictable |-> TRUE, pinned |-> FALSE, readOnly |-> FALSE, dirty |-> TRUE]
       [] a = work ->
            [size |-> 1, granule |-> 1, committed |-> 1, resident |-> 1, backed |-> FALSE,
             evictable |-> FALSE, pinned |-> FALSE, readOnly |-> FALSE, dirty |-> FALSE]]

\* A tensor that begins in the middle of a granule of the weights.
MCWindow == [v \in Views |-> [owner |-> weights, offset |-> 1, size |-> 1]]
==============================================================================
