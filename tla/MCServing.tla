------------------------------ MODULE MCServing ------------------------------
(* Instances of Serving for TLC. *)
EXTENDS Serving

CONSTANTS
    Shapes, Priorities,  \* what requests are made of
    OddShapes,           \* what the first one may be instead
    Eager, Aging, Mixed, Stable, Preemption, SomePolicies

\* Every workload: simultaneous arrivals or one after the other.
MCLoads ==
    LET workloads == {w \in [1 .. N -> (Shapes \union OddShapes) \X Priorities] :
                        \/ \A r \in 1 .. N : w[r][1] \in Shapes
                        \/ \A r \in 1 .. N : w[r][2] = 0 /\ (r = 1 <=> w[r][1] \in OddShapes)}
        at(w, times) == [r \in 1 .. N |-> [prompt |-> w[r][1][1], output |-> w[r][1][2],
                                           priority |-> w[r][2], arrival |-> times[r]]]
        arrivals == {t \in [1 .. N -> 0 .. N - 1] :
                       /\ t[1] = 0
                       /\ \A r \in 2 .. N : t[r] \in {t[r - 1], t[r - 1] + 1}}
    IN {at(w, t) : w \in workloads, t \in arrivals}

\* Prompt and output tokens of the requests.
MixedShapes  == {<<1, 3>>, <<4, 2>>}
EdgeShapes   == {<<0, 0>>, <<0, 2>>, <<4, 4>>}

MCPlans == [policy : SomePolicies, preemption : Preemption, eager : Eager, aging : Aging,
            mixed : Mixed, stable : Stable]

\* Eager allocation without preemption; the preemption policy says nothing
\* without preemption; aging with one policy.
EndingPlans ==
    {p \in MCPlans : /\ IF p.preemption THEN ~p.eager ELSE p.policy = "auto"
                     /\ p.aging => p.preemption /\ p.policy = "recompute"}
=============================================================================
