------------------------------ MODULE MCKVPool ------------------------------
(* Small instances of KVPool for TLC. *)
EXTENDS KVPool, TLC

CONSTANTS hbm, flash, hbf

\* Active HBM and active flash, and flash to offload to.  A page takes one unit
\* of HBM and a whole NAND page, two units, of flash, once the executor knows:
\* before, the active flash takes two pages, then one.
MCComponents   == {hbm, flash, hbf}
MCActive       == {hbm, flash}
MCOffload      == {hbf}
MCCapacity     == hbm :> 2 @@ flash :> 2 @@ hbf :> 4
MCLogicalSize  == [c \in MCComponents |-> 1]
MCPhysicalSize == hbm :> 1 @@ flash :> 2 @@ hbf :> 2
MCRank         == hbm :> 0 @@ flash :> 1 @@ hbf :> 2

Symmetry == Permutations(Requests) \union Permutations(PrefixKeys)
=============================================================================
