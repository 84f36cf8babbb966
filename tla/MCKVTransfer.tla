----------------------------- MODULE MCKVTransfer -----------------------------
(***************************************************************************)
(* One request with two pages that are swapped out, one that is running.   *)
(***************************************************************************)
EXTENDS KVTransfer, TLC

CONSTANTS r1, r2, p1, p2, p3

MCRequests == {r1, r2}
MCPages == {p1, p2, p3}
MCPagesOf == (r1 :> {p1, p2}) @@ (r2 :> {p3})
MCInitialTier == (p1 :> "hbf") @@ (p2 :> "hbf") @@ (p3 :> "none")
MCCapacity == ("hbm" :> 3) @@ ("hbf" :> 3) @@ ("relay" :> 2)
==============================================================================
