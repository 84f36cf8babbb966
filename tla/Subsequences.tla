---------------------------- MODULE Subsequences ----------------------------
(***************************************************************************)
(* The subsequence of a sequence at a set of its positions: what SelectSeq *)
(* selects, defined without recursion, so that it can be reasoned about.   *)
(***************************************************************************)
EXTENDS Naturals, Sequences, FiniteSets

Position(I, n) == CHOOSE i \in I : Cardinality({j \in I : j <= i}) = n
ElementsAt(s, I) == [n \in 1 .. Cardinality(I) |-> s[Position(I, n)]]
=============================================================================
