---------------------------- MODULE MCRunTraces ----------------------------
(* Instances of RunTraces for TLC. *)
EXTENDS RunTraces

\* ElementsAt keeps what SelectSeq keeps.
ASSUME ElementsAreSelected ==
    \A s \in UNION {[1 .. n -> 0 .. 2] : n \in 0 .. 4}, T \in SUBSET (0 .. 2) :
        ElementsAt(s, {i \in DOMAIN s : s[i] \in T}) = SelectSeq(s, LAMBDA x : x \in T)
=============================================================================
