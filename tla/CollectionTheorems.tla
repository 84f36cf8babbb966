------------------------- MODULE CollectionTheorems --------------------------
(***************************************************************************)
(* Finite sets, sums over them, subsequences, and sequences put together   *)
(* or with an element taken out.  A sum is defined in the                  *)
(* community modules as a recursive function of the set: it is shown to    *)
(* satisfy its equation, and to be the same in whatever order the elements *)
(* are taken, by looking at a smallest set for which it is not.  The same  *)
(* argument gives finite sets of integers their bounds, and the positions  *)
(* of a subsequence their order.                                           *)
(***************************************************************************)
EXTENDS Integers, Sequences, FiniteSets, Functions, SequencesExt, Subsequences,
        FiniteSetTheorems, FunctionTheorems, SequenceTheorems,
        WellFoundedInduction, TLAPS

\* A set of subsets of a finite set has a smallest member, if any.
LEMMA SmallestSubset ==
  ASSUME NEW S, IsFiniteSet(S), NEW Bad \in SUBSET (SUBSET S), Bad # {}
  PROVE  \E T \in Bad : IsFiniteSet(T) /\ \A U \in SUBSET T : U # T => U \notin Bad
<1>1. Bad \subseteq FiniteSubsetsOf(S)
  BY FS_Subset DEF FiniteSubsetsOf
<1>2. PICK T \in Bad : \A V \in Bad : <<V, T>> \notin StrictSubsetOrdering(S)
  BY <1>1, FS_StrictSubsetOrderingWellFounded, WFMin
<1>3. ASSUME NEW U \in SUBSET T, U # T, U \in Bad PROVE FALSE
  BY <1>1, <1>2, <1>3 DEF StrictSubsetOrdering, FiniteSubsetsOf
<1> QED
  BY <1>2, <1>3, FS_Subset

\* A finite set of integers has a least element.
LEMMA LeastInteger ==
    ASSUME NEW S \in SUBSET Int, IsFiniteSet(S), S # {}
    PROVE  \E x \in S : \A y \in S : x <= y
<1> DEFINE Least(U) == \E x \in U : \A y \in U : x <= y
           Bad == {U \in SUBSET S : U # {} /\ ~Least(U)}
<1> SUFFICES ASSUME Bad # {} PROVE FALSE
  OBVIOUS
<1>1. PICK U \in Bad : \A V \in SUBSET U : V # U => V \notin Bad
  <2>1. Bad \in SUBSET (SUBSET S)
    OBVIOUS
  <2> HIDE DEF Bad
  <2> QED
    BY <2>1, SmallestSubset
<1>2. PICK x \in U : x \in Int
  OBVIOUS
<1>3. Least(U)
  <2>1. CASE U = {x}
    <3>1. \A y \in U : x <= y
      BY <1>2, <2>1
    <3> QED
      BY <3>1
  <2>2. CASE U # {x}
    <3>1. Least(U \ {x})
      <4> HIDE DEF Least
      <4> QED
        BY <1>1, <1>2, <2>2
    <3>2. PICK m \in U \ {x} : \A y \in U \ {x} : m <= y
      BY <3>1
    <3>3. m \in Int /\ (m <= x \/ x <= m) /\ \A y \in U : y \in Int
      BY <1>2, <3>2
    <3>4. CASE m <= x
      BY <3>2, <3>4
    <3>5. CASE x <= m
      <4>1. \A y \in U : x <= y
        BY <1>2, <3>2, <3>3, <3>5
      <4> QED
        BY <4>1
    <3> QED
      BY <3>3, <3>4, <3>5
  <2> QED
    BY <2>1, <2>2
<1> HIDE DEF Least
<1> QED
  BY <1>3

\* And a greatest one.
LEMMA GreatestInteger ==
    ASSUME NEW S \in SUBSET Int, IsFiniteSet(S), S # {}
    PROVE  \E x \in S : \A y \in S : y <= x
<1> DEFINE T == {0 - x : x \in S}
           f == [x \in S |-> 0 - x]
<1>1. T \in SUBSET Int /\ T # {}
  <2>1. \A x \in S : 0 - x \in Int /\ 0 - x \in T
    OBVIOUS
  <2>2. \A t \in T : t \in Int
    OBVIOUS
  <2> QED
    BY <2>1, <2>2
<1>2. f \in Surjection(S, T)
  BY DEF Surjection
<1>3. IsFiniteSet(T)
  <2> HIDE DEF f, T
  <2> QED
    BY <1>2, FS_Surjection
<1>4. PICK m \in T : \A y \in T : m <= y
  <2> HIDE DEF T
  <2> QED
    BY <1>1, <1>3, LeastInteger
<1>5. PICK x \in S : m = 0 - x
  OBVIOUS
<1>6. ASSUME NEW y \in S PROVE y <= x
  <2>1. 0 - y \in T /\ x \in Int /\ y \in Int
    OBVIOUS
  <2>2. 0 - x <= 0 - y
    BY <1>4, <1>5, <2>1
  <2> QED
    BY <2>1, <2>2
<1> QED
  BY <1>6

------------------------------------------------------------------------------
(* The recursive equation of a sum. *)

Chosen(s) == CHOOSE x \in s : TRUE
SumStep(f, it, s) == IF s = {} THEN 0 ELSE f[Chosen(s)] + it[s \ {Chosen(s)}]
IsSumOf(it, f, S) == it = [s \in SUBSET S |-> SumStep(f, it, s)]

LEMMA FirstIn ==
  ASSUME NEW s, s # {}
  PROVE  Chosen(s) \in s
BY DEF Chosen

\* What the sums of two sets say of a set in both is the same.
LEMMA SumUnique ==
  ASSUME NEW f, NEW S, NEW T, IsFiniteSet(S), NEW it, NEW jt,
         IsSumOf(it, f, S), IsSumOf(jt, f, T), NEW s \in SUBSET (S \cap T)
  PROVE  it[s] = jt[s]
<1> DEFINE Bad == {u \in SUBSET (S \cap T) : it[u] # jt[u]}
<1> SUFFICES ASSUME Bad # {} PROVE FALSE
  OBVIOUS
<1>1. IsFiniteSet(S \cap T) /\ Bad \in SUBSET (SUBSET (S \cap T))
  BY FS_Subset
<1>2. PICK u \in Bad : \A v \in SUBSET u : v # u => v \notin Bad
  <2> HIDE DEF Bad
  <2> QED
    BY <1>1, SmallestSubset
<1>3. it[u] = SumStep(f, it, u) /\ jt[u] = SumStep(f, jt, u)
  BY DEF IsSumOf
<1>4. CASE u = {}
  BY <1>3, <1>4 DEF SumStep
<1>5. CASE u # {}
  <2> DEFINE v == u \ {Chosen(u)}
  <2>1. v \in SUBSET u /\ v # u /\ v \in SUBSET (S \cap T)
    BY <1>5, FirstIn
  <2>2. it[v] = jt[v]
    BY <1>2, <2>1
  <2> QED
    BY <1>3, <1>5, <2>2 DEF SumStep
<1> QED
  BY <1>4, <1>5

\* Every finite set has a sum.
LEMMA SumExists ==
  ASSUME NEW f, NEW S, IsFiniteSet(S)
  PROVE  \E it : IsSumOf(it, f, S)
<1> DEFINE Bad == {u \in SUBSET S : ~\E it : IsSumOf(it, f, u)}
<1> SUFFICES ASSUME Bad # {} PROVE FALSE
  OBVIOUS
<1>2. PICK u \in Bad : IsFiniteSet(u) /\ \A v \in SUBSET u : v # u => v \notin Bad
  <2> HIDE DEF Bad
  <2>1. Bad \in SUBSET (SUBSET S)
    BY DEF Bad
  <2> QED
    BY <2>1, SmallestSubset
<1> DEFINE P(v) == CHOOSE it : IsSumOf(it, f, v)
           rest == u \ {Chosen(u)}
           Whole == IF u = {} THEN 0 ELSE f[Chosen(u)] + P(rest)[rest]
           g == [v \in SUBSET u |-> IF v = u THEN Whole ELSE P(v)[v]]
<1>3. \A v \in SUBSET u : v # u => IsSumOf(P(v), f, v)
  <2> TAKE v \in SUBSET u
  <2> HAVE v # u
  <2>1. \E it : IsSumOf(it, f, v)
    BY <1>2
  <2> QED
    BY <2>1
<1> HIDE DEF P, Bad
<1>4. ASSUME NEW v \in SUBSET u PROVE g[v] = SumStep(f, g, v)
  <2> DEFINE w == v \ {Chosen(v)}
  <2>1. CASE v = {}
    <3>1. g[v] = 0
      <4>1. CASE u = {}
        BY <2>1, <4>1
      <4>2. CASE u # {}
        <5>1. P(v)[v] = SumStep(f, P(v), v)
          BY <1>3, <2>1, <4>2 DEF IsSumOf
        <5> QED
          BY <2>1, <4>2, <5>1 DEF SumStep
      <4> QED
        BY <4>1, <4>2
    <3> QED
      BY <2>1, <3>1 DEF SumStep
  <2>2. CASE v # {} /\ v = u
    <3>1. rest \in SUBSET u /\ rest # u
      BY <2>2, FirstIn
    <3>2. g[rest] = P(rest)[rest]
      BY <3>1
    <3>3. g[v] = f[Chosen(u)] + P(rest)[rest]
      BY <2>2
    <3> QED
      BY <2>2, <3>2, <3>3 DEF SumStep
  <2>3. CASE v # {} /\ v # u
    <3>1. w \in SUBSET v /\ w # v /\ w \in SUBSET u /\ w # u
      BY <2>3, FirstIn
    <3>2. IsSumOf(P(v), f, v) /\ IsSumOf(P(w), f, w)
      BY <1>3, <2>3, <3>1
    <3>3. IsFiniteSet(v) /\ w \in SUBSET (v \cap w)
      BY <1>2, <3>1, FS_Subset
    <3>4. P(v)[w] = P(w)[w]
      <4> HIDE DEF w
      <4> QED
        BY <3>2, <3>3, SumUnique
    <3>5. P(v)[v] = SumStep(f, P(v), v)
      BY <3>2 DEF IsSumOf
    <3>6. g[v] = P(v)[v] /\ g[w] = P(w)[w]
      BY <2>3, <3>1
    <3> QED
      BY <2>3, <3>4, <3>5, <3>6 DEF SumStep
  <2> QED
    BY <2>1, <2>2, <2>3
<1>5. IsSumOf(g, f, u)
  <2>1. g = [v \in SUBSET u |-> g[v]]
    OBVIOUS
  <2> HIDE DEF g
  <2> QED
    BY <1>4, <2>1 DEF IsSumOf
<1> QED
  BY <1>5 DEF Bad

\* The operator is the sum of its set.
LEMMA SumIsSum ==
  ASSUME NEW f, NEW S, IsFiniteSet(S)
  PROVE  \E it : IsSumOf(it, f, S) /\ SumFunctionOnSet(f, S) = it[S]
<1> DEFINE sum == CHOOSE it : IsSumOf(it, f, S)
<1>1. IsSumOf(sum, f, S)
  BY SumExists
<1>2. SumFunctionOnSet(f, S) = sum[S]
  BY DEF SumFunctionOnSet, FoldFunctionOnSet, MapThenFoldSet, IsSumOf, SumStep, Chosen
<1> QED
  BY <1>1, <1>2

\* A sum of a smaller set is what the sum of the larger one says of it.
LEMMA SumPart ==
  ASSUME NEW f, NEW S, IsFiniteSet(S), NEW it, IsSumOf(it, f, S), NEW T \in SUBSET S
  PROVE  SumFunctionOnSet(f, T) = it[T]
<1>1. IsFiniteSet(T)
  BY FS_Subset
<1>2. PICK jt : IsSumOf(jt, f, T) /\ SumFunctionOnSet(f, T) = jt[T]
  BY <1>1, SumIsSum
<1> QED
  BY <1>2, SumUnique

------------------------------------------------------------------------------
(* The facts used elsewhere. *)

\* The sum over no elements is zero.
THEOREM SumEmpty ==
  ASSUME NEW f
  PROVE  SumFunctionOnSet(f, {}) = 0
<1>1. IsFiniteSet({})
  BY FS_EmptySet
<1>2. PICK it : IsSumOf(it, f, {}) /\ SumFunctionOnSet(f, {}) = it[{}]
  BY <1>1, SumIsSum
<1> QED
  BY <1>2 DEF IsSumOf, SumStep

\* A sum of integers is an integer.
THEOREM SumInt ==
  ASSUME NEW f, NEW S, IsFiniteSet(S), \A x \in S : f[x] \in Int
  PROVE  SumFunctionOnSet(f, S) \in Int
<1>1. PICK it : IsSumOf(it, f, S) /\ SumFunctionOnSet(f, S) = it[S]
  BY SumIsSum
<1> DEFINE Bad == {u \in SUBSET S : it[u] \notin Int}
<1> SUFFICES ASSUME Bad # {} PROVE FALSE
  BY <1>1
<1>2. PICK u \in Bad : \A v \in SUBSET u : v # u => v \notin Bad
  <2>1. Bad \in SUBSET (SUBSET S)
    OBVIOUS
  <2> HIDE DEF Bad
  <2> QED
    BY <2>1, SmallestSubset
<1>3. it[u] = SumStep(f, it, u)
  BY <1>1 DEF IsSumOf
<1>4. CASE u = {}
  BY <1>3, <1>4 DEF SumStep
<1>5. CASE u # {}
  <2>1. Chosen(u) \in u /\ f[Chosen(u)] \in Int
    BY <1>5, FirstIn
  <2>2. it[u \ {Chosen(u)}] \in Int
    BY <1>2, <2>1
  <2>3. it[u] = f[Chosen(u)] + it[u \ {Chosen(u)}]
    BY <1>3, <1>5 DEF SumStep
  <2>4. it[u] \in Int
    BY <2>1, <2>2, <2>3
  <2> QED
    BY <2>4
<1> QED
  BY <1>4, <1>5

\* Any element can be taken out of a sum.
THEOREM SumRemove ==
  ASSUME NEW f, NEW S, IsFiniteSet(S), \A x \in S : f[x] \in Int, NEW x \in S
  PROVE  SumFunctionOnSet(f, S) = f[x] + SumFunctionOnSet(f, S \ {x})
<1>1. PICK it : IsSumOf(it, f, S) /\ SumFunctionOnSet(f, S) = it[S]
  BY SumIsSum
<1>2. \A u \in SUBSET S : it[u] \in Int /\ it[u] = SumStep(f, it, u)
  <2> TAKE u \in SUBSET S
  <2>1. IsFiniteSet(u)
    BY FS_Subset
  <2>2. SumFunctionOnSet(f, u) = it[u]
    BY <1>1, SumPart
  <2>3. SumFunctionOnSet(f, u) \in Int
    BY <2>1, SumInt
  <2> QED
    BY <1>1, <2>2, <2>3 DEF IsSumOf
<1> DEFINE Bad == {u \in SUBSET S : \E y \in u : it[u] # f[y] + it[u \ {y}]}
<1>3. Bad = {}
  <2> SUFFICES ASSUME Bad # {} PROVE FALSE
    OBVIOUS
  <2>1. PICK u \in Bad : \A v \in SUBSET u : v # u => v \notin Bad
    <3>1. Bad \in SUBSET (SUBSET S)
      OBVIOUS
    <3> HIDE DEF Bad
    <3> QED
      BY <3>1, SmallestSubset
  <2>2. PICK y \in u : it[u] # f[y] + it[u \ {y}]
    OBVIOUS
  <2> DEFINE c == Chosen(u)
  <2>3. c \in u /\ u \in SUBSET S
    BY <2>2, FirstIn
  <2> HIDE DEF c
  <2>4. it[u] = f[c] + it[u \ {c}]
    BY <1>2, <2>2, <2>3 DEF SumStep, c
  <2>5. y # c
    BY <2>2, <2>4
  <2>6. it[u \ {c}] = f[y] + it[(u \ {c}) \ {y}]
    BY <2>1, <2>3, <2>5
  <2>7. it[u \ {y}] = f[c] + it[(u \ {y}) \ {c}]
    BY <2>1, <2>2, <2>3, <2>5
  <2> DEFINE rest == (u \ {y}) \ {c}
  <2>8. (u \ {c}) \ {y} = rest /\ rest \in SUBSET S
    BY <2>3
  <2>9. f[c] \in Int /\ f[y] \in Int /\ it[rest] \in Int
    BY <1>2, <2>2, <2>3, <2>8
  <2>10. it[u] = f[c] + (f[y] + it[rest])
    BY <2>4, <2>6, <2>8, Zenon
  <2>11. it[u \ {y}] = f[c] + it[rest]
    BY <2>7
  <2> HIDE DEF rest, Bad
  <2> QED
    BY <2>2, <2>9, <2>10, <2>11
<1>4. it[S] = f[x] + it[S \ {x}]
  BY <1>3
<1>5. SumFunctionOnSet(f, S \ {x}) = it[S \ {x}]
  BY <1>1, SumPart
<1> QED
  BY <1>1, <1>4, <1>5

\* And added to one.
THEOREM SumAdd ==
  ASSUME NEW f, NEW S, IsFiniteSet(S), \A y \in S : f[y] \in Int,
         NEW x, x \notin S, f[x] \in Int
  PROVE  SumFunctionOnSet(f, S \cup {x}) = f[x] + SumFunctionOnSet(f, S)
<1> DEFINE U == S \cup {x}
<1>1. IsFiniteSet(U) /\ U \ {x} = S /\ x \in U /\ \A y \in U : f[y] \in Int
  BY FS_AddElement
<1> HIDE DEF U
<1>2. SumFunctionOnSet(f, U) = f[x] + SumFunctionOnSet(f, U \ {x})
  BY <1>1, SumRemove
<1>3. SumFunctionOnSet(f, U) = f[x] + SumFunctionOnSet(f, S)
  BY <1>1, <1>2, Zenon
<1> QED
  BY <1>3, Zenon DEF U

\* The sum depends on the values over the set only.
THEOREM SumAgree ==
  ASSUME NEW f, NEW g, NEW S, IsFiniteSet(S), \A x \in S : f[x] \in Int /\ f[x] = g[x]
  PROVE  SumFunctionOnSet(f, S) = SumFunctionOnSet(g, S)
<1> DEFINE Bad == {u \in SUBSET S : SumFunctionOnSet(f, u) # SumFunctionOnSet(g, u)}
<1> SUFFICES ASSUME Bad # {} PROVE FALSE
  OBVIOUS
<1>1. PICK u \in Bad : IsFiniteSet(u) /\ \A v \in SUBSET u : v # u => v \notin Bad
  <2>1. Bad \in SUBSET (SUBSET S)
    OBVIOUS
  <2> HIDE DEF Bad
  <2> QED
    BY <2>1, SmallestSubset
<1>2. u # {}
  BY SumEmpty
<1>3. PICK x \in u : TRUE
  BY <1>2
<1>4. SumFunctionOnSet(f, u \ {x}) = SumFunctionOnSet(g, u \ {x})
  BY <1>1, <1>3
<1>5. /\ SumFunctionOnSet(f, u) = f[x] + SumFunctionOnSet(f, u \ {x})
      /\ SumFunctionOnSet(g, u) = g[x] + SumFunctionOnSet(g, u \ {x})
  BY <1>1, <1>3, SumRemove
<1> QED
  BY <1>3, <1>4, <1>5

\* The sum over disjoint sets is the sum of theirs.
THEOREM SumUnion ==
  ASSUME NEW f, NEW S, NEW T, IsFiniteSet(S), IsFiniteSet(T), S \cap T = {},
         \A x \in S \cup T : f[x] \in Int
  PROVE  SumFunctionOnSet(f, S \cup T) = SumFunctionOnSet(f, S) + SumFunctionOnSet(f, T)
<1> DEFINE Bad == {u \in SUBSET T : SumFunctionOnSet(f, S \cup u)
                                       # SumFunctionOnSet(f, S) + SumFunctionOnSet(f, u)}
<1> SUFFICES ASSUME Bad # {} PROVE FALSE
  OBVIOUS
<1>1. PICK u \in Bad : IsFiniteSet(u) /\ \A v \in SUBSET u : v # u => v \notin Bad
  <2>1. Bad \in SUBSET (SUBSET T)
    OBVIOUS
  <2> HIDE DEF Bad
  <2> QED
    BY <2>1, SmallestSubset
<1>2. SumFunctionOnSet(f, S) \in Int
  BY SumInt
<1>3. u # {}
  <2>1. ASSUME u = {} PROVE FALSE
    <3>1. SumFunctionOnSet(f, u) = 0
      BY <2>1, SumEmpty
    <3>2. S \cup u = S
      BY <2>1
    <3>3. SumFunctionOnSet(f, S \cup u) = SumFunctionOnSet(f, S)
      BY <3>2, Zenon
    <3>4. SumFunctionOnSet(f, S) = SumFunctionOnSet(f, S) + SumFunctionOnSet(f, u)
      BY <1>2, <3>1
    <3> QED
      BY <3>3, <3>4, Zenon
  <2> QED
    BY <2>1
<1>4. PICK x \in u : x \in T /\ x \notin S /\ f[x] \in Int
  BY <1>3
<1> DEFINE v == u \ {x}
<1>5. /\ v \in SUBSET T /\ IsFiniteSet(v) /\ v \notin Bad
      /\ IsFiniteSet(S \cup v) /\ x \notin S \cup v
      /\ S \cup u = (S \cup v) \cup {x} /\ u = v \cup {x}
  <2>1. v \in SUBSET T /\ v \in SUBSET u /\ v # u
    BY <1>1, <1>4
  <2>2. v \notin Bad
    BY <1>1, <2>1
  <2>3. IsFiniteSet(v)
    BY <2>1, FS_Subset
  <2>4. IsFiniteSet(S \cup v)
    BY <2>3, FS_Union
  <2>5. x \notin S \cup v /\ S \cup u = (S \cup v) \cup {x} /\ u = v \cup {x}
    BY <1>4
  <2> QED
    BY <2>1, <2>2, <2>3, <2>4, <2>5
<1>6. SumFunctionOnSet(f, S \cup v) = SumFunctionOnSet(f, S) + SumFunctionOnSet(f, v)
  BY <1>5
<1>7. SumFunctionOnSet(f, v) \in Int
  BY <1>5, SumInt
<1>8. SumFunctionOnSet(f, S \cup u) = f[x] + SumFunctionOnSet(f, S \cup v)
  <2>1. \A y \in S \cup v : f[y] \in Int
    BY <1>5
  <2> HIDE DEF v, Bad
  <2> QED
    <3>1. SumFunctionOnSet(f, (S \cup v) \cup {x}) = f[x] + SumFunctionOnSet(f, S \cup v)
      BY <1>4, <1>5, <2>1, SumAdd
    <3> QED
      BY <1>5, <3>1, Zenon
<1>9. SumFunctionOnSet(f, u) = f[x] + SumFunctionOnSet(f, v)
  <2> HIDE DEF v, Bad
  <2> QED
    BY <1>4, <1>5, SumAdd
<1> QED
  BY <1>2, <1>4, <1>6, <1>7, <1>8, <1>9

\* A greater function has a greater sum.
THEOREM SumMonotone ==
  ASSUME NEW f, NEW g, NEW S, IsFiniteSet(S),
         \A x \in S : f[x] \in Int /\ g[x] \in Int /\ f[x] <= g[x]
  PROVE  SumFunctionOnSet(f, S) <= SumFunctionOnSet(g, S)
<1> DEFINE Bad == {u \in SUBSET S : ~(SumFunctionOnSet(f, u) <= SumFunctionOnSet(g, u))}
<1> SUFFICES ASSUME Bad # {} PROVE FALSE
  OBVIOUS
<1>1. PICK u \in Bad : IsFiniteSet(u) /\ \A v \in SUBSET u : v # u => v \notin Bad
  <2>1. Bad \in SUBSET (SUBSET S)
    OBVIOUS
  <2> HIDE DEF Bad
  <2> QED
    BY <2>1, SmallestSubset
<1>2. u # {}
  BY SumEmpty
<1>3. PICK x \in u : f[x] \in Int /\ g[x] \in Int /\ f[x] <= g[x]
  BY <1>2
<1>4. SumFunctionOnSet(f, u \ {x}) <= SumFunctionOnSet(g, u \ {x}) /\ IsFiniteSet(u \ {x})
  BY <1>1, <1>3, FS_Subset
<1>5. /\ SumFunctionOnSet(f, u) = f[x] + SumFunctionOnSet(f, u \ {x})
      /\ SumFunctionOnSet(g, u) = g[x] + SumFunctionOnSet(g, u \ {x})
  BY <1>1, <1>3, SumRemove
<1>6. SumFunctionOnSet(f, u \ {x}) \in Int /\ SumFunctionOnSet(g, u \ {x}) \in Int
  BY <1>4, SumInt
<1>7. SumFunctionOnSet(f, u) <= SumFunctionOnSet(g, u)
  BY <1>3, <1>4, <1>5, <1>6
<1> QED
  BY <1>7

\* A sum of naturals is a natural, of which the sum over a part is a part.
THEOREM SumNat ==
  ASSUME NEW f, NEW S, IsFiniteSet(S), \A x \in S : f[x] \in Nat
  PROVE  /\ SumFunctionOnSet(f, S) \in Nat
         /\ \A T \in SUBSET S : SumFunctionOnSet(f, T) <= SumFunctionOnSet(f, S)
<1>1. ASSUME NEW T \in SUBSET S PROVE SumFunctionOnSet(f, T) \in Nat
  <2> DEFINE Bad == {u \in SUBSET S : ~(SumFunctionOnSet(f, u) \in Nat)}
  <2> SUFFICES ASSUME Bad # {} PROVE FALSE
    OBVIOUS
  <2>1. PICK u \in Bad : IsFiniteSet(u) /\ \A v \in SUBSET u : v # u => v \notin Bad
    <3>1. Bad \in SUBSET (SUBSET S)
      OBVIOUS
    <3> HIDE DEF Bad
    <3> QED
      BY <3>1, SmallestSubset
  <2>2. u # {}
    BY SumEmpty
  <2>3. PICK x \in u : f[x] \in Nat
    BY <2>2
  <2>4. SumFunctionOnSet(f, u \ {x}) \in Nat
    BY <2>1, <2>3
  <2>5. SumFunctionOnSet(f, u) = f[x] + SumFunctionOnSet(f, u \ {x})
    BY <2>1, <2>3, SumRemove
  <2>6. SumFunctionOnSet(f, u) \in Nat
    BY <2>3, <2>4, <2>5
  <2> QED
    BY <2>6
<1>2. ASSUME NEW T \in SUBSET S PROVE SumFunctionOnSet(f, T) <= SumFunctionOnSet(f, S)
  <2>1. /\ IsFiniteSet(T) /\ IsFiniteSet(S \ T) /\ T \cap (S \ T) = {}
        /\ T \cup (S \ T) = S
    BY FS_Subset
  <2>2. SumFunctionOnSet(f, T \cup (S \ T))
          = SumFunctionOnSet(f, T) + SumFunctionOnSet(f, S \ T)
    BY <2>1, SumUnion
  <2>3. SumFunctionOnSet(f, T) \in Nat /\ SumFunctionOnSet(f, S \ T) \in Nat
    BY <1>1
  <2>4. SumFunctionOnSet(f, S) = SumFunctionOnSet(f, T) + SumFunctionOnSet(f, S \ T)
    BY <2>1, <2>2, Zenon
  <2> QED
    BY <2>3, <2>4
<1> QED
  BY <1>1, <1>2

\* Changing the value of one element changes the sum by as much.
THEOREM SumUpdate ==
  ASSUME NEW f, NEW g, NEW S, IsFiniteSet(S), NEW x \in S,
         \A y \in S : f[y] \in Int /\ g[y] \in Int, \A y \in S \ {x} : g[y] = f[y]
  PROVE  SumFunctionOnSet(g, S) = SumFunctionOnSet(f, S) - f[x] + g[x]
<1> DEFINE a == SumFunctionOnSet(f, S \ {x})
<1>1. IsFiniteSet(S \ {x})
  BY FS_Subset
<1>2. a \in Int
  BY <1>1, SumInt
<1>3. SumFunctionOnSet(g, S \ {x}) = a
  BY <1>1, SumAgree
<1>4. SumFunctionOnSet(f, S) = f[x] + a
  BY SumRemove
<1>5. SumFunctionOnSet(g, S) = g[x] + SumFunctionOnSet(g, S \ {x})
  BY SumRemove
<1>6. SumFunctionOnSet(g, S) = g[x] + a
  BY <1>3, <1>5
<1> HIDE DEF a
<1> QED
  BY <1>2, <1>4, <1>6

\* And changing those of several by as much as they change together.
THEOREM SumChange ==
  ASSUME NEW f, NEW g, NEW d, NEW S, NEW T \in SUBSET S, IsFiniteSet(S),
         \A y \in S : f[y] \in Int /\ g[y] \in Int,
         \A y \in T : d[y] = g[y] - f[y], \A y \in S \ T : g[y] = f[y]
  PROVE  SumFunctionOnSet(g, S) = SumFunctionOnSet(f, S) + SumFunctionOnSet(d, T)
<1> DEFINE mix(U) == [y \in S |-> IF y \in U THEN g[y] ELSE f[y]]
           Bad == {U \in SUBSET T : SumFunctionOnSet(mix(U), S)
                                       # SumFunctionOnSet(f, S) + SumFunctionOnSet(d, U)}
<1>1. SumFunctionOnSet(f, S) \in Int
  BY SumInt
<1>2. Bad = {}
  <2> SUFFICES ASSUME Bad # {} PROVE FALSE
    OBVIOUS
  <2>1. PICK U \in Bad : IsFiniteSet(U) /\ \A v \in SUBSET U : v # U => v \notin Bad
    <3>1. Bad \in SUBSET (SUBSET S)
      OBVIOUS
    <3> HIDE DEF Bad
    <3> QED
      BY <3>1, SmallestSubset
  <2>2. U # {}
    <3> SUFFICES ASSUME U = {} PROVE FALSE
      OBVIOUS
    <3>1. SumFunctionOnSet(mix({}), S) = SumFunctionOnSet(f, S)
      <4>1. \A y \in S : mix({})[y] \in Int /\ mix({})[y] = f[y]
        OBVIOUS
      <4> HIDE DEF mix
      <4> QED
        BY <4>1, SumAgree
    <3>2. SumFunctionOnSet(d, {}) = 0
      BY SumEmpty
    <3>3. SumFunctionOnSet(mix(U), S) # SumFunctionOnSet(f, S) + SumFunctionOnSet(d, U)
      OBVIOUS
    <3> HIDE DEF mix, Bad
    <3>4. SumFunctionOnSet(f, S) # SumFunctionOnSet(f, S) + 0
      BY <3>1, <3>2, <3>3, Zenon
    <3> QED
      BY <1>1, <3>4
  <2>3. PICK x \in U : x \in T /\ x \in S
    BY <2>2
  <2> DEFINE V == U \ {x}
  <2>4. V \in SUBSET T /\ IsFiniteSet(V) /\ V \notin Bad
    BY <2>1, <2>3, FS_Subset
  <2>5. SumFunctionOnSet(mix(V), S) = SumFunctionOnSet(f, S) + SumFunctionOnSet(d, V)
    BY <2>4
  <2>6. /\ \A y \in S : mix(U)[y] \in Int /\ mix(V)[y] \in Int
        /\ \A y \in S \ {x} : mix(U)[y] = mix(V)[y]
        /\ mix(U)[x] = g[x] /\ mix(V)[x] = f[x]
    BY <2>3
  <2>7. \A y \in U : d[y] \in Int
    BY <2>4
  <2>8. f[x] \in Int /\ g[x] \in Int /\ d[x] = g[x] - f[x]
    BY <2>3
  <2>9. SumFunctionOnSet(mix(U), S) # SumFunctionOnSet(f, S) + SumFunctionOnSet(d, U)
    OBVIOUS
  <2> HIDE DEF mix, Bad
  <2>10. SumFunctionOnSet(mix(U), S) = SumFunctionOnSet(mix(V), S) - f[x] + g[x]
    <3>1. PICK new, old : new = mix(U) /\ old = mix(V)
      OBVIOUS
    <3>2. /\ \A y \in S : new[y] \in Int /\ old[y] \in Int
          /\ \A y \in S \ {x} : new[y] = old[y]
          /\ new[x] = g[x] /\ old[x] = f[x]
      BY <2>6, <3>1, Zenon
    <3>3. SumFunctionOnSet(new, S) = SumFunctionOnSet(old, S) - old[x] + new[x]
      BY <2>3, <3>2, SumUpdate
    <3> QED
      BY <3>1, <3>2, <3>3, Zenon
  <2>11. SumFunctionOnSet(d, U) = d[x] + SumFunctionOnSet(d, V)
    BY <2>1, <2>3, <2>7, SumRemove
  <2>12. SumFunctionOnSet(d, V) \in Int
    BY <2>4, <2>7, SumInt
  <2> QED
    BY <1>1, <2>5, <2>8, <2>9, <2>10, <2>11, <2>12
<1>3. SumFunctionOnSet(mix(T), S) = SumFunctionOnSet(f, S) + SumFunctionOnSet(d, T)
  BY <1>2
<1>4. \A y \in S : mix(T)[y] \in Int /\ mix(T)[y] = g[y]
  OBVIOUS
<1> HIDE DEF mix
<1>5. SumFunctionOnSet(mix(T), S) = SumFunctionOnSet(g, S)
  BY <1>4, SumAgree
<1> QED
  BY <1>3, <1>5

\* A sum of zeros is zero.
THEOREM SumZero ==
  ASSUME NEW f, NEW S, IsFiniteSet(S), \A x \in S : f[x] = 0
  PROVE  SumFunctionOnSet(f, S) = 0
<1>1. \A x \in S : f[x] \in Int /\ f[x] = f[x] - f[x]
  OBVIOUS
<1>2. \A x \in S \ S : f[x] = f[x]
  OBVIOUS
<1>3. SumFunctionOnSet(f, S) = SumFunctionOnSet(f, S) + SumFunctionOnSet(f, S)
  <2>1. S \in SUBSET S
    OBVIOUS
  <2> QED
    BY <1>1, <1>2, <2>1, SumChange
<1>4. SumFunctionOnSet(f, S) \in Int
  BY <1>1, SumInt
<1>5. PICK sum : sum = SumFunctionOnSet(f, S)
  OBVIOUS
<1>6. sum = sum + sum /\ sum \in Int
  BY <1>3, <1>4, <1>5, Zenon
<1>7. sum = 0
  BY <1>6
<1> QED
  BY <1>5, <1>7, Zenon

------------------------------------------------------------------------------
(* Subsequences. *)

\* The n-th position is the one with n positions up to it, for every n.
LEMMA PositionsInOrder ==
  ASSUME NEW k \in Nat, NEW I \in SUBSET (1 .. k)
  PROVE  /\ IsFiniteSet(I) /\ Cardinality(I) \in Nat /\ Cardinality(I) <= k
         /\ I # 1 .. k => Cardinality(I) < k
         /\ \A n \in 1 .. Cardinality(I) : Position(I, n) \in I
         /\ \A i \in I : \E n \in 1 .. Cardinality(I) : Position(I, n) = i
         /\ \A m, n \in 1 .. Cardinality(I) : Position(I, m) = Position(I, n) => m = n
<1> DEFINE C == Cardinality(I)
           UpTo(i) == {j \in I : j <= i}
           rank == [i \in I |-> Cardinality(UpTo(i))]
<1>1. IsFiniteSet(1 .. k) /\ Cardinality(1 .. k) = k
  BY FS_Interval
<1>2. /\ IsFiniteSet(I) /\ C \in Nat /\ C <= k
      /\ I # 1 .. k => C < k
  <2>1. /\ IsFiniteSet(I) /\ C <= Cardinality(1 .. k)
        /\ Cardinality(1 .. k) = C => 1 .. k = I
    BY <1>1, FS_Subset
  <2>2. C \in Nat
    BY <2>1, FS_CardinalityType
  <2> HIDE DEF C
  <2> QED
    BY <1>1, <2>1, <2>2
<1>3. ASSUME NEW i \in I
      PROVE  IsFiniteSet(UpTo(i)) /\ rank[i] \in 1 .. C
  <2>1. UpTo(i) \in SUBSET I
    OBVIOUS
  <2>2. IsFiniteSet(UpTo(i)) /\ Cardinality(UpTo(i)) \in Nat /\ Cardinality(UpTo(i)) <= C
    BY <1>2, <2>1, FS_Subset, FS_CardinalityType
  <2>3. i \in UpTo(i)
    OBVIOUS
  <2>4. Cardinality(UpTo(i)) # 0
    BY <2>2, <2>3, FS_EmptySet
  <2> HIDE DEF UpTo, C
  <2>5. rank[i] = Cardinality(UpTo(i))
    OBVIOUS
  <2> QED
    BY <1>2, <2>2, <2>4, <2>5
<1>4. ASSUME NEW i \in I, NEW j \in I, i < j PROVE rank[i] < rank[j]
  <2>1. UpTo(i) \in SUBSET UpTo(j) /\ j \in UpTo(j) /\ j \notin UpTo(i)
    <3>1. \A l \in I : l \in Int
      OBVIOUS
    <3>2. \A l \in I : l <= i => l <= j
      BY <1>4, <3>1
    <3>3. j <= j /\ ~(j <= i)
      BY <1>4, <3>1
    <3> QED
      BY <3>2, <3>3
  <2>2. /\ Cardinality(UpTo(i)) <= Cardinality(UpTo(j))
        /\ Cardinality(UpTo(i)) # Cardinality(UpTo(j))
    BY <1>3, <2>1, FS_Subset
  <2>3. rank[i] = Cardinality(UpTo(i)) /\ rank[j] = Cardinality(UpTo(j))
    OBVIOUS
  <2>4. rank[i] \in 1 .. C /\ rank[j] \in 1 .. C
    BY <1>3
  <2> HIDE DEF UpTo, rank, C
  <2> QED
    BY <1>2, <2>2, <2>3, <2>4
<1>5. \A i, j \in I : rank[i] = rank[j] => i = j
  <2> SUFFICES ASSUME NEW i \in I, NEW j \in I, i # j PROVE rank[i] # rank[j]
    OBVIOUS
  <2>1. i < j \/ j < i
    OBVIOUS
  <2>2. rank[i] < rank[j] \/ rank[j] < rank[i]
    BY <1>4, <2>1
  <2>3. rank[i] \in 1 .. C /\ rank[j] \in 1 .. C
    BY <1>3
  <2> HIDE DEF rank, C
  <2> QED
    BY <1>2, <2>2, <2>3
<1>6. rank \in Surjection(I, 1 .. C)
  <2>1. rank \in Injection(I, 1 .. C)
    BY <1>3, <1>5 DEF Injection, IsInjective
  <2>2. IsFiniteSet(1 .. C) /\ Cardinality(1 .. C) = C
    BY <1>2, FS_Interval
  <2> QED
    BY <2>1, <2>2, FS_Injection
<1>7. \A n \in 1 .. C : \E i \in I : rank[i] = n
  BY <1>6 DEF Surjection
<1>8. \A n : Position(I, n) = CHOOSE i \in I : rank[i] = n
  BY DEF Position
<1> HIDE DEF rank
<1>9. \A n \in 1 .. C : Position(I, n) \in I /\ rank[Position(I, n)] = n
  BY <1>7, <1>8
<1>10. ASSUME NEW i \in I
       PROVE  \E n \in 1 .. C : Position(I, n) = i
  <2>1. rank[i] \in 1 .. C
    BY <1>3 DEF rank
  <2>2. Position(I, rank[i]) = i
    BY <1>5, <1>9, <2>1
  <2> QED
    BY <2>1, <2>2
<1> QED
  BY <1>2, <1>9, <1>10

\* A subsequence has the elements at its positions, each as often as there are positions
\* of it, and is shorter if a position is left out.
THEOREM ElementsAtIs ==
  ASSUME NEW T, NEW s \in Seq(T), NEW I \in SUBSET DOMAIN s
  PROVE  /\ ElementsAt(s, I) \in Seq(T)
         /\ Len(ElementsAt(s, I)) \in Nat /\ Len(ElementsAt(s, I)) <= Len(s)
         /\ I # DOMAIN s => Len(ElementsAt(s, I)) < Len(s)
         /\ \A n \in DOMAIN ElementsAt(s, I) : \E i \in I : ElementsAt(s, I)[n] = s[i]
         /\ \A i \in I : \E n \in DOMAIN ElementsAt(s, I) : ElementsAt(s, I)[n] = s[i]
         /\ (\A i, j \in DOMAIN s : s[i] = s[j] => i = j) =>
              \A m, n \in DOMAIN ElementsAt(s, I) :
                ElementsAt(s, I)[m] = ElementsAt(s, I)[n] => m = n
<1> DEFINE e == ElementsAt(s, I)
           C == Cardinality(I)
<1>1. Len(s) \in Nat /\ DOMAIN s = 1 .. Len(s) /\ \A i \in DOMAIN s : s[i] \in T
  BY LenProperties, ElementOfSeq
<1>2. /\ C \in Nat /\ C <= Len(s)
      /\ I # DOMAIN s => C < Len(s)
      /\ \A n \in 1 .. C : Position(I, n) \in I
      /\ \A i \in I : \E n \in 1 .. C : Position(I, n) = i
      /\ \A m, n \in 1 .. C : Position(I, m) = Position(I, n) => m = n
  BY <1>1, PositionsInOrder
<1>3. DOMAIN e = 1 .. C /\ \A n \in 1 .. C : e[n] = s[Position(I, n)]
  BY DEF ElementsAt
<1>4. e \in Seq(T) /\ Len(e) = C
  <2>1. \A n \in 1 .. C : s[Position(I, n)] \in T
    BY <1>1, <1>2
  <2>2. e \in [1 .. C -> T]
    BY <2>1 DEF ElementsAt
  <2> HIDE DEF e, C
  <2> QED
    BY <1>2, <1>3, <2>2, SeqDef, LenProperties
<1>5. \A n \in DOMAIN e : \E i \in I : e[n] = s[i]
  BY <1>2, <1>3
<1>6. \A i \in I : \E n \in DOMAIN e : e[n] = s[i]
  BY <1>2, <1>3
<1>7. ASSUME \A i, j \in DOMAIN s : s[i] = s[j] => i = j,
             NEW m \in DOMAIN e, NEW n \in DOMAIN e, e[m] = e[n]
      PROVE  m = n
  <2>1. s[Position(I, m)] = s[Position(I, n)]
    BY <1>3, <1>7
  <2>2. Position(I, m) = Position(I, n)
    BY <1>2, <1>3, <1>7, <2>1
  <2> QED
    BY <1>2, <1>3, <2>2
<1> HIDE DEF e, C
<1>8. /\ e \in Seq(T) /\ Len(e) \in Nat /\ Len(e) <= Len(s)
      /\ I # DOMAIN s => Len(e) < Len(s)
  BY <1>1, <1>2, <1>4
<1> QED
  BY <1>5, <1>6, <1>7, <1>8 DEF e

\* The sequence of the elements of a finite set.
THEOREM SetToSeqIs ==
  ASSUME NEW S, IsFiniteSet(S)
  PROVE  /\ SetToSeq(S) \in Seq(S) /\ Len(SetToSeq(S)) = Cardinality(S)
         /\ Cardinality(S) \in Nat /\ DOMAIN SetToSeq(S) = 1 .. Cardinality(S)
         /\ \A i, j \in DOMAIN SetToSeq(S) : SetToSeq(S)[i] = SetToSeq(S)[j] => i = j
         /\ \A x \in S : \E i \in DOMAIN SetToSeq(S) : SetToSeq(S)[i] = x
<1> DEFINE C == Cardinality(S)
<1>1. C \in Nat /\ ExistsBijection(1 .. C, S)
  BY FS_CardinalityType
<1>2. \E f \in [1 .. C -> S] : IsInjective(f)
  BY <1>1 DEF ExistsBijection, Bijection, Injection
<1>3. PICK s : s = SetToSeq(S)
  OBVIOUS
<1>4. s \in [1 .. C -> S] /\ IsInjective(s)
  BY <1>2, <1>3 DEF SetToSeq
<1>5. s \in Injection(1 .. C, S)
  BY <1>4 DEF Injection
<1>6. IsFiniteSet(1 .. C) /\ Cardinality(1 .. C) = C
  BY <1>1, FS_Interval
<1>7. s \in Surjection(1 .. C, S)
  BY <1>5, <1>6, FS_Injection
<1> HIDE DEF C
<1>8. s \in Seq(S) /\ Len(s) = C /\ DOMAIN s = 1 .. C
  BY <1>1, <1>4, SeqDef, LenProperties
<1>9. \A x \in S : \E i \in 1 .. C : s[i] = x
  BY <1>7 DEF Surjection
<1>10. \A i, j \in 1 .. C : s[i] = s[j] => i = j
  BY <1>4 DEF IsInjective
<1> QED
  BY <1>1, <1>3, <1>8, <1>9, <1>10 DEF C

\* The elements of two sequences, one after the other.
THEOREM ConcatIs ==
  ASSUME NEW T, NEW a \in Seq(T), NEW b \in Seq(T)
  PROVE  /\ \A j \in DOMAIN (a \o b) : \/ \E i \in DOMAIN a : (a \o b)[j] = a[i]
                                       \/ \E i \in DOMAIN b : (a \o b)[j] = b[i]
         /\ \A i \in DOMAIN a : \E j \in DOMAIN (a \o b) : (a \o b)[j] = a[i]
         /\ \A i \in DOMAIN b : \E j \in DOMAIN (a \o b) : (a \o b)[j] = b[i]
         /\ /\ \A i, j \in DOMAIN a : a[i] = a[j] => i = j
            /\ \A i, j \in DOMAIN b : b[i] = b[j] => i = j
            /\ \A i \in DOMAIN a, j \in DOMAIN b : a[i] # b[j]
            => \A i, j \in DOMAIN (a \o b) : (a \o b)[i] = (a \o b)[j] => i = j
<1>1. PICK m \in Nat, n \in Nat :
        m = Len(a) /\ n = Len(b) /\ DOMAIN a = 1 .. m /\ DOMAIN b = 1 .. n
  BY LenProperties
<1>2. PICK c : c = a \o b
  OBVIOUS
<1>3. /\ c \in Seq(T) /\ Len(c) = m + n
      /\ \A i \in 1 .. m + n : c[i] = IF i <= m THEN a[i] ELSE b[i - m]
  BY <1>1, <1>2, ConcatProperties
<1>4. DOMAIN c = 1 .. m + n
  BY <1>3, LenProperties
<1>5. /\ \A i \in 1 .. m : i \in 1 .. m + n /\ c[i] = a[i]
      /\ \A i \in 1 .. n : m + i \in 1 .. m + n /\ c[m + i] = b[i]
  <2>1. \A i \in 1 .. n : m + i \in 1 .. m + n /\ ~(m + i <= m) /\ (m + i) - m = i
    OBVIOUS
  <2>2. \A i \in 1 .. m : i \in 1 .. m + n /\ i <= m
    OBVIOUS
  <2> QED
    BY <1>3, <2>1, <2>2
<1>6. \A j \in 1 .. m + n : j \in 1 .. m \/ (j - m \in 1 .. n /\ m + (j - m) = j)
  OBVIOUS
<1>7. \A j \in DOMAIN c : \/ \E i \in DOMAIN a : c[j] = a[i]
                          \/ \E i \in DOMAIN b : c[j] = b[i]
  <2> TAKE j \in DOMAIN c
  <2>1. CASE j \in 1 .. m
    BY <1>1, <1>5, <2>1
  <2>2. CASE j \notin 1 .. m
    <3>1. PICK l \in 1 .. n : j = m + l
      BY <1>4, <1>6, <2>2
    <3> QED
      BY <1>1, <1>5, <3>1
  <2> QED
    BY <2>1, <2>2
<1>8. /\ \A i \in DOMAIN a : \E j \in DOMAIN c : c[j] = a[i]
      /\ \A i \in DOMAIN b : \E j \in DOMAIN c : c[j] = b[i]
  BY <1>1, <1>4, <1>5
<1>9. ASSUME \A i, j \in DOMAIN a : a[i] = a[j] => i = j,
             \A i, j \in DOMAIN b : b[i] = b[j] => i = j,
             \A i \in DOMAIN a, j \in DOMAIN b : a[i] # b[j],
             NEW i \in DOMAIN c, NEW j \in DOMAIN c, c[i] = c[j]
      PROVE  i = j
  <2>1. i \in 1 .. m + n /\ j \in 1 .. m + n
    BY <1>4
  <2>2. CASE i \in 1 .. m /\ j \in 1 .. m
    BY <1>1, <1>5, <1>9, <2>2
  <2>3. CASE i \in 1 .. m /\ j \notin 1 .. m
    <3>1. PICK l \in 1 .. n : j = m + l
      BY <1>6, <2>1, <2>3
    <3> QED
      BY <1>1, <1>5, <1>9, <2>3, <3>1
  <2>4. CASE i \notin 1 .. m /\ j \in 1 .. m
    <3>1. PICK k \in 1 .. n : i = m + k
      BY <1>6, <2>1, <2>4
    <3> QED
      BY <1>1, <1>5, <1>9, <2>4, <3>1
  <2>5. CASE i \notin 1 .. m /\ j \notin 1 .. m
    <3>1. PICK k \in 1 .. n, l \in 1 .. n : i = m + k /\ j = m + l
      BY <1>6, <2>1, <2>5
    <3>2. b[k] = b[l]
      BY <1>5, <1>9, <3>1
    <3>3. k = l
      BY <1>1, <1>9, <3>2
    <3> QED
      BY <3>1, <3>3
  <2> QED
    BY <2>2, <2>3, <2>4, <2>5
<1> QED
  BY <1>2, <1>7, <1>8, <1>9

\* Taking one element out of a sequence.
THEOREM RemoveAtIs ==
  ASSUME NEW T, NEW s \in Seq(T), NEW i \in DOMAIN s
  PROVE  /\ RemoveAt(s, i) \in Seq(T)
         /\ \A j \in DOMAIN RemoveAt(s, i) : \E k \in (DOMAIN s) \ {i} : RemoveAt(s, i)[j] = s[k]
         /\ \A k \in (DOMAIN s) \ {i} : \E j \in DOMAIN RemoveAt(s, i) : RemoveAt(s, i)[j] = s[k]
         /\ (\A j, k \in DOMAIN s : s[j] = s[k] => j = k) =>
              \A j, k \in DOMAIN RemoveAt(s, i) :
                RemoveAt(s, i)[j] = RemoveAt(s, i)[k] => j = k
<1>1. PICK n \in Nat : n = Len(s) /\ DOMAIN s = 1 .. n
  BY LenProperties
<1>2. i \in 1 .. n /\ \A k \in 1 .. n : s[k] \in T
  BY <1>1, ElementOfSeq
<1>3. PICK a : a = SubSeq(s, 1, i - 1)
  OBVIOUS
<1>4. PICK b : b = SubSeq(s, i + 1, n)
  OBVIOUS
<1>5. PICK r : r = RemoveAt(s, i)
  OBVIOUS
<1>6. r = a \o b
  BY <1>1, <1>3, <1>4, <1>5 DEF RemoveAt
<1>7. a \in Seq(T) /\ Len(a) = i - 1 /\ \A k \in 1 .. i - 1 : a[k] = s[k]
  BY <1>1, <1>2, <1>3, SubSeqProperties
<1>8. b \in Seq(T) /\ Len(b) = n - i /\ \A k \in 1 .. n - i : b[k] = s[i + k]
  <2>1. b \in Seq(T) /\ Len(b) = n - i /\ \A k \in 1 .. n - i : b[k] = s[(i + 1) + k - 1]
    BY <1>1, <1>2, <1>4, SubSeqProperties
  <2>2. \A k \in 1 .. n - i : (i + 1) + k - 1 = i + k
    BY <1>1, <1>2
  <2> QED
    BY <2>1, <2>2
<1>9. /\ r \in Seq(T) /\ Len(r) = n - 1 /\ DOMAIN r = 1 .. n - 1
      /\ \A k \in 1 .. n - 1 : r[k] = IF k < i THEN s[k] ELSE s[k + 1]
  <2>1. /\ r \in Seq(T) /\ Len(r) = Len(a) + Len(b)
        /\ \A k \in 1 .. Len(a) + Len(b) : r[k] = IF k <= Len(a) THEN a[k] ELSE b[k - Len(a)]
    BY <1>6, <1>7, <1>8, ConcatProperties
  <2>2. Len(a) + Len(b) = n - 1
    <3>1. i \in Int /\ n \in Int /\ (i - 1) + (n - i) = n - 1
      BY <1>1, <1>2
    <3> QED
      BY <1>7, <1>8, <3>1
  <2>3. DOMAIN r = 1 .. n - 1
    BY <2>1, <2>2, LenProperties
  <2>4. ASSUME NEW k \in 1 .. n - 1 PROVE r[k] = IF k < i THEN s[k] ELSE s[k + 1]
    <3>1. CASE k < i
      BY <1>1, <1>2, <1>7, <1>8, <2>1, <2>2, <3>1
    <3>2. CASE ~(k < i)
      <4>1. r[k] = b[k - (i - 1)] /\ k - (i - 1) \in 1 .. n - i /\ i + (k - (i - 1)) = k + 1
        BY <1>1, <1>2, <1>7, <1>8, <2>1, <2>2, <3>2
      <4> QED
        BY <1>8, <3>2, <4>1
    <3> QED
      BY <3>1, <3>2
  <2> QED
    BY <2>1, <2>2, <2>3, <2>4
<1>10. \A j \in 1 .. n - 1 : \E k \in (1 .. n) \ {i} : r[j] = s[k]
  <2> TAKE j \in 1 .. n - 1
  <2>1. CASE j < i
    BY <1>1, <1>2, <1>9, <2>1
  <2>2. CASE ~(j < i)
    <3>1. j + 1 \in (1 .. n) \ {i} /\ r[j] = s[j + 1]
      BY <1>1, <1>2, <1>9, <2>2
    <3> QED
      BY <3>1
  <2> QED
    BY <2>1, <2>2
<1>11. \A k \in (1 .. n) \ {i} : \E j \in 1 .. n - 1 : r[j] = s[k]
  <2> TAKE k \in (1 .. n) \ {i}
  <2>1. CASE k < i
    BY <1>1, <1>2, <1>9, <2>1
  <2>2. CASE ~(k < i)
    <3>1. k - 1 \in 1 .. n - 1 /\ ~(k - 1 < i) /\ (k - 1) + 1 = k
      BY <1>1, <1>2, <2>2
    <3>2. r[k - 1] = s[k]
      BY <1>9, <3>1
    <3> QED
      BY <3>1, <3>2
  <2> QED
    BY <2>1, <2>2
<1>12. ASSUME \A j, k \in 1 .. n : s[j] = s[k] => j = k,
              NEW j \in 1 .. n - 1, NEW k \in 1 .. n - 1, r[j] = r[k]
       PROVE  j = k
  <2>1. /\ j \in 1 .. n /\ j + 1 \in 1 .. n /\ k \in 1 .. n /\ k + 1 \in 1 .. n
    BY <1>1
  <2>2. CASE j < i /\ k < i
    BY <1>9, <1>12, <2>1, <2>2
  <2>3. CASE j < i /\ ~(k < i)
    <3>1. j = k + 1
      BY <1>9, <1>12, <2>1, <2>3
    <3> QED
      BY <1>2, <2>3, <3>1
  <2>4. CASE ~(j < i) /\ k < i
    <3>1. j + 1 = k
      BY <1>9, <1>12, <2>1, <2>4
    <3> QED
      BY <1>2, <2>4, <3>1
  <2>5. CASE ~(j < i) /\ ~(k < i)
    <3>1. j + 1 = k + 1
      BY <1>9, <1>12, <2>1, <2>5
    <3> QED
      BY <3>1
  <2> QED
    BY <2>2, <2>3, <2>4, <2>5
<1>13. /\ r \in Seq(T)
       /\ \A j \in DOMAIN r : \E k \in (DOMAIN s) \ {i} : r[j] = s[k]
       /\ \A k \in (DOMAIN s) \ {i} : \E j \in DOMAIN r : r[j] = s[k]
  BY <1>1, <1>9, <1>10, <1>11
<1>14. (\A j, k \in DOMAIN s : s[j] = s[k] => j = k) =>
         \A j, k \in DOMAIN r : r[j] = r[k] => j = k
  BY <1>1, <1>9, <1>12
<1> QED
  BY <1>5, <1>13, <1>14

=============================================================================
