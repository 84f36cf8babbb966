---------------------------- MODULE KVPoolProofs ----------------------------
(***************************************************************************)
(* Proofs about KVPool, for any requests, prefixes, components and sizes.  *)
(***************************************************************************)
EXTENDS KVPool, FiniteSetTheorems, SequenceTheorems, TLAPS

------------------------------------------------------------------------------
\* Without(s, S) has the elements of s that are not in S, and repeats none that s
\* does not repeat.

LEMMA Ranks ==
    ASSUME NEW n \in Nat, NEW kept \in SUBSET (1 .. n)
    PROVE  LET rank == [i \in kept |-> Cardinality({j \in kept : j <= i})]
           IN  /\ IsFiniteSet(kept) /\ Cardinality(kept) \in Nat
               /\ rank \in Bijection(kept, 1 .. Cardinality(kept))
<1> DEFINE upTo(i) == {j \in kept : j <= i}
           rank == [i \in kept |-> Cardinality(upTo(i))]
           N == Cardinality(kept)
<1>1. IsFiniteSet(kept) /\ N \in Nat
  <2>1. IsFiniteSet(1 .. n)
    BY FS_Interval
  <2>2. IsFiniteSet(kept)
    BY <2>1, FS_Subset
  <2> QED  BY <2>2, FS_CardinalityType
<1>2. \A i \in kept : IsFiniteSet(upTo(i)) /\ Cardinality(upTo(i)) \in 1 .. N
  <2> SUFFICES ASSUME NEW i \in kept
               PROVE  IsFiniteSet(upTo(i)) /\ Cardinality(upTo(i)) \in 1 .. N
    OBVIOUS
  <2>1. upTo(i) \subseteq kept
    OBVIOUS
  <2>2. IsFiniteSet(upTo(i)) /\ Cardinality(upTo(i)) <= N
    BY <1>1, <2>1, FS_Subset
  <2>3. i \in upTo(i)
    OBVIOUS
  <2>4. Cardinality(upTo(i)) # 0 /\ Cardinality(upTo(i)) \in Nat
    BY <2>2, <2>3, FS_EmptySet, FS_CardinalityType
  <2> QED  BY <1>1, <2>2, <2>4
<1>3. \A i, j \in kept : i < j => Cardinality(upTo(i)) # Cardinality(upTo(j))
  <2> SUFFICES ASSUME NEW i \in kept, NEW j \in kept, i < j,
                      Cardinality(upTo(i)) = Cardinality(upTo(j))
               PROVE  FALSE
    OBVIOUS
  <2>1. upTo(i) \subseteq upTo(j) /\ j \in upTo(j) /\ j \notin upTo(i)
    <3>1. \A k \in kept : k \in Int
      OBVIOUS
    <3>2. \A k \in kept : k <= i => k <= j
      BY <3>1
    <3>3. ~(j <= i) /\ j <= j
      BY <3>1
    <3> QED  BY <3>2, <3>3
  <2>2. IsFiniteSet(upTo(j)) /\ upTo(i) \in SUBSET upTo(j)
    BY <1>2, <2>1
  <2> HIDE DEF upTo
  <2>3. upTo(j) = upTo(i)
    BY <2>2, FS_Subset
  <2> QED  BY <2>1, <2>3
<1>4. rank \in [kept -> 1 .. N]
  BY <1>2
<1>5. \A i, j \in kept : rank[i] = rank[j] => i = j
  <2> SUFFICES ASSUME NEW i \in kept, NEW j \in kept, rank[i] = rank[j] PROVE i = j
    OBVIOUS
  <2>1. i \in Int /\ j \in Int /\ (i < j \/ j < i \/ i = j)
    OBVIOUS
  <2> QED  BY <1>3, <2>1
<1> HIDE DEF rank
<1>6. rank \in Injection(kept, 1 .. N)
  BY <1>4, <1>5 DEF Injection, IsInjective
<1>7. IsFiniteSet(1 .. N) /\ Cardinality(1 .. N) = N
  BY <1>1, FS_Interval
<1>8. rank \in Surjection(kept, 1 .. N)
  BY <1>6, <1>7, FS_Injection
<1> QED  BY <1>1, <1>6, <1>8 DEF Bijection, rank

LEMMA WithoutProperties ==
    ASSUME NEW T, NEW s \in Seq(T), NEW S
    PROVE  /\ Without(s, S) \in Seq(T)
           /\ ToSet(Without(s, S)) = ToSet(s) \ S
           /\ IsInjective(s) => IsInjective(Without(s, S))
<1> DEFINE kept == {i \in DOMAIN s : s[i] \notin S}
           N == Cardinality(kept)
           rank == [i \in kept |-> Cardinality({j \in kept : j <= i})]
           at(n) == CHOOSE i \in kept : Cardinality({j \in kept : j <= i}) = n
           w == [n \in 1 .. N |-> s[at(n)]]
<1>1. Len(s) \in Nat /\ DOMAIN s = 1 .. Len(s) /\ \A i \in DOMAIN s : s[i] \in T
  BY LenProperties
<1>2. kept \in SUBSET (1 .. Len(s))
  BY <1>1
<1>3. N \in Nat /\ rank \in Bijection(kept, 1 .. N)
  <2> HIDE DEF kept
  <2> QED  BY <1>1, <1>2, Ranks
<1>4. /\ \A i \in kept : rank[i] \in 1 .. N
      /\ \A n \in 1 .. N : \E i \in kept : rank[i] = n
      /\ \A i, j \in kept : rank[i] = rank[j] => i = j
  <2> HIDE DEF rank, kept
  <2> QED  BY <1>3 DEF Bijection, Injection, Surjection, IsInjective
<1>5. \A n \in 1 .. N : at(n) \in kept /\ rank[at(n)] = n
  <2> SUFFICES ASSUME NEW n \in 1 .. N PROVE at(n) \in kept /\ rank[at(n)] = n
    OBVIOUS
  <2>1. \E i \in kept : Cardinality({j \in kept : j <= i}) = n
    BY <1>4
  <2> HIDE DEF kept
  <2> QED  BY <2>1
<1>6. \A i \in kept : at(rank[i]) = i
  BY <1>4, <1>5
<1>7. Without(s, S) = w
  BY DEF Without
<1> HIDE DEF at, rank
<1>8. w \in [1 .. N -> T]
  BY <1>1, <1>5
<1>9. w \in Seq(T)
  BY <1>3, <1>8, SeqDef
<1>10. ToSet(w) = ToSet(s) \ S
  <2>1. ToSet(w) = {w[n] : n \in 1 .. N} /\ ToSet(s) = {s[i] : i \in DOMAIN s}
    BY DEF ToSet
  <2>2. \A n \in 1 .. N : \E i \in DOMAIN s : w[n] = s[i] /\ s[i] \notin S
    BY <1>5
  <2>3. \A i \in DOMAIN s : s[i] \notin S => \E n \in 1 .. N : w[n] = s[i]
    BY <1>4, <1>6
  <2> HIDE DEF w
  <2> QED  BY <2>1, <2>2, <2>3
<1>11. IsInjective(s) => IsInjective(w)
  <2> SUFFICES ASSUME IsInjective(s), NEW m \in 1 .. N, NEW n \in 1 .. N, w[m] = w[n]
               PROVE  m = n
    BY DEF IsInjective
  <2>1. s[at(m)] = s[at(n)] /\ at(m) \in DOMAIN s /\ at(n) \in DOMAIN s
    BY <1>5
  <2>2. at(m) = at(n)
    BY <2>1 DEF IsInjective
  <2> QED  BY <1>5, <2>2
<1> QED  BY <1>7, <1>9, <1>10, <1>11

LEMMA ConcatRange ==
    ASSUME NEW T, NEW s \in Seq(T), NEW t \in Seq(T)
    PROVE  /\ s \o t \in Seq(T)
           /\ ToSet(s \o t) = ToSet(s) \union ToSet(t)
           /\ IsInjective(s) /\ IsInjective(t) /\ ToSet(s) \cap ToSet(t) = {} => IsInjective(s \o t)
<1>1. s \o t \in Seq(T)
  BY ConcatProperties
<1>2. ToSet(s \o t) = ToSet(s) \union ToSet(t)
  <2>1. Range(s \o t) = Range(s) \union Range(t)
    BY RangeConcatenation
  <2>2. ToSet(s \o t) = Range(s \o t) /\ ToSet(s) = Range(s) /\ ToSet(t) = Range(t)
    BY DEF ToSet, Range
  <2> QED  BY <2>1, <2>2
<1>3. ASSUME IsInjective(s), IsInjective(t), ToSet(s) \cap ToSet(t) = {}
      PROVE  IsInjective(s \o t)
  <2> DEFINE u == s \o t
  <2>1. /\ Len(s) \in Nat /\ Len(t) \in Nat
        /\ DOMAIN s = 1 .. Len(s) /\ DOMAIN t = 1 .. Len(t)
        /\ DOMAIN u = 1 .. (Len(s) + Len(t))
        /\ \A i \in 1 .. Len(s) + Len(t) : u[i] = IF i <= Len(s) THEN s[i] ELSE t[i - Len(s)]
    BY ConcatProperties, LenProperties
  <2> HIDE DEF u
  <2> SUFFICES ASSUME NEW i \in DOMAIN u, NEW j \in DOMAIN u, u[i] = u[j]
               PROVE  i = j
    BY DEF IsInjective, u
  <2>2. \A k \in DOMAIN s : s[k] \in ToSet(s)
    BY DEF ToSet
  <2>3. \A k \in DOMAIN t : t[k] \in ToSet(t)
    BY DEF ToSet
  <2>4. CASE i <= Len(s) /\ j <= Len(s)
    <3>1. s[i] = s[j] /\ i \in DOMAIN s /\ j \in DOMAIN s
      BY <2>1, <2>4
    <3> QED  BY <1>3, <3>1 DEF IsInjective
  <2>5. CASE i > Len(s) /\ j > Len(s)
    <3>1. t[i - Len(s)] = t[j - Len(s)] /\ i - Len(s) \in DOMAIN t /\ j - Len(s) \in DOMAIN t
      BY <2>1, <2>5
    <3>2. i - Len(s) = j - Len(s)
      BY <1>3, <3>1 DEF IsInjective
    <3> QED  BY <2>1, <3>2
  <2>6. CASE i <= Len(s) /\ j > Len(s)
    <3>1. s[i] = t[j - Len(s)] /\ i \in DOMAIN s /\ j - Len(s) \in DOMAIN t
      BY <2>1, <2>6
    <3> QED  BY <1>3, <2>2, <2>3, <3>1
  <2>7. CASE i > Len(s) /\ j <= Len(s)
    <3>1. t[i - Len(s)] = s[j] /\ j \in DOMAIN s /\ i - Len(s) \in DOMAIN t
      BY <2>1, <2>7
    <3> QED  BY <1>3, <2>2, <2>3, <3>1
  <2> QED  BY <2>1, <2>4, <2>5, <2>6, <2>7
<1> QED  BY <1>1, <1>2, <1>3

\* The first n elements of a sequence, and those after them.
LEMMA SplitRange ==
    ASSUME NEW T, NEW s \in Seq(T), IsInjective(s), NEW n \in 0 .. Len(s)
    PROVE  /\ SubSeq(s, 1, n) \in Seq(T) /\ Len(SubSeq(s, 1, n)) = n
           /\ IsInjective(SubSeq(s, 1, n))
           /\ ToSet(SubSeq(s, 1, n)) \subseteq ToSet(s)
           /\ ToSet(SubSeq(s, n + 1, Len(s))) = ToSet(s) \ ToSet(SubSeq(s, 1, n))
<1> DEFINE a == SubSeq(s, 1, n)
           b == SubSeq(s, n + 1, Len(s))
<1>1. Len(s) \in Nat /\ DOMAIN s = 1 .. Len(s) /\ \A i \in 1 .. Len(s) : s[i] \in T
  BY LenProperties
<1>2. a \in Seq(T) /\ Len(a) = n /\ \A i \in 1 .. n : a[i] = s[i]
  BY <1>1, SubSeqProperties, n \in Int, 1 \in Int
<1>3. b \in Seq(T) /\ Len(b) = Len(s) - n /\ \A i \in 1 .. Len(s) - n : b[i] = s[n + i]
  <2>1. n + 1 \in Int /\ Len(s) \in Int /\ \A i \in n + 1 .. Len(s) : s[i] \in T
    BY <1>1
  <2>2. /\ b \in Seq(T) /\ Len(b) = IF n + 1 <= Len(s) THEN Len(s) - (n + 1) + 1 ELSE 0
        /\ \A i \in 1 .. Len(s) - (n + 1) + 1 : b[i] = s[n + 1 + i - 1]
    BY <2>1, SubSeqProperties
  <2>3. Len(s) - (n + 1) + 1 = Len(s) - n /\ \A i \in Int : n + 1 + i - 1 = n + i
    BY <1>1
  <2>4. (IF n + 1 <= Len(s) THEN Len(s) - (n + 1) + 1 ELSE 0) = Len(s) - n
    <3>1. CASE n + 1 <= Len(s)
      BY <2>3, <3>1
    <3>2. CASE ~(n + 1 <= Len(s))
      <4>1. n \in Int /\ Len(s) \in Int /\ n <= Len(s)
        BY <1>1
      <4>2. Len(s) - n = 0
        BY <3>2, <4>1
      <4> QED  BY <3>2, <4>2
    <3> QED  BY <3>1, <3>2
  <2>5. \A i \in 1 .. Len(s) - n : b[i] = s[n + i]
    <3> HIDE DEF b
    <3> TAKE i \in 1 .. Len(s) - n
    <3>1. i \in 1 .. Len(s) - (n + 1) + 1
      BY <2>3
    <3>2. b[i] = s[n + 1 + i - 1]
      BY <2>2, <3>1
    <3>3. n + 1 + i - 1 = n + i
      BY <1>1, <2>3
    <3> QED  BY <3>2, <3>3
  <2> QED  BY <2>2, <2>4, <2>5
<1>4. DOMAIN a = 1 .. n /\ DOMAIN b = 1 .. (Len(s) - n)
  BY <1>2, <1>3, LenProperties
<1> HIDE DEF a, b
<1>5. IsInjective(a)
  BY <1>1, <1>2, <1>4 DEF IsInjective
<1>6. ToSet(a) \subseteq ToSet(s)
  BY <1>1, <1>2, <1>4 DEF ToSet
<1>7. ToSet(b) \subseteq ToSet(s) \ ToSet(a)
  <2> SUFFICES ASSUME NEW i \in 1 .. Len(s) - n PROVE b[i] \in ToSet(s) \ ToSet(a)
    BY <1>4 DEF ToSet
  <2>1. b[i] = s[n + i] /\ n + i \in DOMAIN s
    BY <1>1, <1>3
  <2>2. \A j \in 1 .. n : s[j] # s[n + i]
    BY <1>1, <2>1 DEF IsInjective
  <2>3. b[i] \in ToSet(s)
    BY <2>1 DEF ToSet
  <2> QED  BY <1>2, <1>4, <2>1, <2>2, <2>3 DEF ToSet
<1>8. ToSet(s) \ ToSet(a) \subseteq ToSet(b)
  <2> SUFFICES ASSUME NEW i \in DOMAIN s, s[i] \notin ToSet(a) PROVE s[i] \in ToSet(b)
    BY DEF ToSet
  <2>1. i \notin 1 .. n
    BY <1>2, <1>4 DEF ToSet
  <2>2. i - n \in 1 .. Len(s) - n /\ n + (i - n) = i
    BY <1>1, <2>1
  <2>3. b[i - n] = s[i]
    BY <1>3, <2>2
  <2> QED  BY <1>4, <2>2, <2>3 DEF ToSet
<1> QED  BY <1>2, <1>5, <1>6, <1>7, <1>8 DEF a, b

------------------------------------------------------------------------------
\* The tables of requests and prefixes and the references of the pages.

PageRecord == [owner : Components, refs : Nat, pinned : BOOLEAN, keyed : BOOLEAN,
               bound : SUBSET Requests, generation : Nat, start : Int]

PagesTyped == /\ page \in [Live -> PageRecord]
              /\ pageCounter \in Nat
              /\ Live \subseteq 0 .. pageCounter - 1
TablesTyped == /\ requests \in [Requests -> Seq(Int)]
               /\ prefixes \in [PrefixKeys -> Seq(Int)]
               /\ recency \in Seq(Int)

\* No table has a page twice.
NoneTwice == /\ \A r \in Requests : IsInjective(requests[r])
             /\ \A k \in PrefixKeys : IsInjective(prefixes[k])

RefInv == PagesTyped /\ TablesTyped /\ NoneTwice /\ ReferencesExact

\* What is in the LRU order is there.
RecencyLive == ToSet(recency) \subseteq Live

Holders(p) == {r \in Requests : p \in Held(r)}
Keys(p) == {k \in PrefixKeys : p \in ToSet(prefixes[k])}

LEMMA Finiteness ==
    /\ \A S : S \subseteq Requests => IsFiniteSet(S) /\ Cardinality(S) \in Nat
    /\ \A S : S \subseteq PrefixKeys => IsFiniteSet(S) /\ Cardinality(S) \in Nat
<1>1. \A S : S \subseteq Requests => IsFiniteSet(S)
  BY KVPoolAssumption, FS_Subset
<1>2. \A S : S \subseteq PrefixKeys => IsFiniteSet(S)
  BY KVPoolAssumption, FS_Subset
<1> QED  BY <1>1, <1>2, FS_CardinalityType

\* What ReferencesExact says of one page, in terms of Holders and Keys.
LEMMA Counted ==
    ASSUME RefInv, NEW p \in Live
    PROVE  /\ page[p].bound = Holders(p)
           /\ page[p].refs = Cardinality(Holders(p)) + Cardinality(Keys(p))
           /\ page[p].keyed = (Keys(p) # {})
           /\ Cardinality(Holders(p)) \in Nat /\ Cardinality(Keys(p)) \in Nat
           /\ Cardinality(Holders(p)) = 0 => Holders(p) = {}
           /\ Cardinality(Keys(p)) = 0 => Keys(p) = {}
<1>1. /\ page[p].bound = Holders(p)
      /\ page[p].refs = Cardinality(Holders(p)) + Cardinality(Keys(p))
      /\ page[p].keyed = (Keys(p) # {})
  BY DEF RefInv, ReferencesExact, Holders, Keys
<1>2. IsFiniteSet(Holders(p)) /\ IsFiniteSet(Keys(p))
  BY Finiteness DEF Holders, Keys
<1> QED  BY <1>1, <1>2, FS_CardinalityType, FS_EmptySet

\* The same, the other way round, in the next state.
LEMMA Recounted ==
    ASSUME \A r \in Requests : Held(r)' \subseteq Live',
           \A k \in PrefixKeys : ToSet(prefixes[k])' \subseteq Live',
           \A p \in Live' : /\ page'[p].bound = Holders(p)'
                            /\ page'[p].refs = Cardinality(Holders(p)') + Cardinality(Keys(p)')
                            /\ page'[p].keyed = (Keys(p)' # {})
    PROVE  ReferencesExact'
BY DEF ReferencesExact, Holders, Keys

\* Steps that leave the tables and the references alone.
LEMMA Untouched ==
    ASSUME RefInv, UNCHANGED <<requests, prefixes>>, Live' = Live,
           \A p \in Live : /\ page'[p].bound = page[p].bound
                           /\ page'[p].refs = page[p].refs
                           /\ page'[p].keyed = page[p].keyed
    PROVE  ReferencesExact' /\ NoneTwice'
<1>1. \A r \in Requests : Held(r)' = Held(r)
  BY DEF Held
<1>2. \A k \in PrefixKeys : ToSet(prefixes[k])' = ToSet(prefixes[k])
  OBVIOUS
<1>3. \A p : Holders(p)' = Holders(p) /\ Keys(p)' = Keys(p)
  BY <1>1, <1>2 DEF Holders, Keys
<1>4. NoneTwice'
  BY DEF RefInv, NoneTwice
<1>5. \A r \in Requests : Held(r)' \subseteq Live'
  BY <1>1 DEF RefInv, ReferencesExact
<1>6. \A k \in PrefixKeys : ToSet(prefixes[k])' \subseteq Live'
  BY <1>2 DEF RefInv, ReferencesExact
<1>7. \A p \in Live' : /\ page'[p].bound = Holders(p)'
                       /\ page'[p].refs = Cardinality(Holders(p)') + Cardinality(Keys(p)')
                       /\ page'[p].keyed = (Keys(p)' # {})
  BY <1>3, Counted
<1> QED  BY <1>4, <1>5, <1>6, <1>7, Recounted

\* Pages freed leave the prefixes.
LEMMA Forgotten ==
    ASSUME RefInv, NEW freed, ForgetFreed(freed)
    PROVE  /\ prefixes' \in [PrefixKeys -> Seq(Int)]
           /\ \A k \in PrefixKeys : /\ IsInjective(prefixes'[k])
                                    /\ ToSet(prefixes'[k]) = ToSet(prefixes[k]) \ freed
           /\ \A p : p \notin freed => Keys(p)' = Keys(p)
<1>1. \A k \in PrefixKeys : prefixes[k] \in Seq(Int) /\ IsInjective(prefixes[k])
  BY DEF RefInv, TablesTyped, NoneTwice
<1>2. prefixes' = [k \in PrefixKeys |-> Without(prefixes[k], freed)]
  BY DEF ForgetFreed
<1>3. \A k \in PrefixKeys : /\ Without(prefixes[k], freed) \in Seq(Int)
                            /\ IsInjective(Without(prefixes[k], freed))
                            /\ ToSet(Without(prefixes[k], freed)) = ToSet(prefixes[k]) \ freed
  BY <1>1, WithoutProperties
<1>4. \A p : p \notin freed => Keys(p)' = Keys(p)
  BY <1>2, <1>3 DEF Keys
<1> QED  BY <1>2, <1>3, <1>4

\* Pages kept stay typed.
LEMMA KeptTyped ==
    ASSUME PagesTyped, NEW rec, NEW freed, rec \in [Live -> PageRecord], Keep(rec, freed),
           pageCounter' = pageCounter
    PROVE  /\ PagesTyped' /\ Live' = Live \ freed
           /\ \A p \in Live \ freed : page'[p] = rec[p]
<1>1. page' = [p \in Live \ freed |-> rec[p]]
  BY DEF Keep
<1> QED  BY <1>1 DEF PagesTyped, Live

LEMMA LeastRecentTyped ==
    ASSUME TablesTyped, NEW S
    PROVE  Without(recency, S) \in Seq(Int)
BY WithoutProperties DEF TablesTyped

LEMMA TouchedTyped ==
    ASSUME TablesTyped, NEW s \in Seq(Int)
    PROVE  /\ Touched(recency, s) \in Seq(Int)
           /\ ToSet(Touched(recency, s)) \subseteq ToSet(recency) \union ToSet(s)
<1> DEFINE w == Without(recency, ToSet(s))
<1>1. w \in Seq(Int) /\ ToSet(w) = ToSet(recency) \ ToSet(s)
  BY WithoutProperties DEF TablesTyped
<1> HIDE DEF w
<1>2. w \o s \in Seq(Int) /\ ToSet(w \o s) = ToSet(w) \union ToSet(s)
  BY <1>1, ConcatRange
<1>3. Touched(recency, s) = w \o s
  BY DEF Touched, w
<1> QED  BY <1>1, <1>2, <1>3

------------------------------------------------------------------------------
\* resize() and release().

\* A request gives up the pages of `removed` and keeps those of `keep`.
LEMMA DropKeepsRefs ==
    ASSUME RefInv, NEW r \in Requests, NEW keep \in Seq(Int), IsInjective(keep),
           NEW removed, ToSet(keep) \subseteq Held(r), removed = Held(r) \ ToSet(keep),
           DropRefs(removed, r), ForgetFreed(LastUnpinned(removed)),
           requests' = [requests EXCEPT ![r] = keep], pageCounter' = pageCounter
    PROVE  RefInv'
<1> DEFINE freed == LastUnpinned(removed)
           less(p) == [page[p] EXCEPT !.refs = @ - 1, !.bound = @ \ {r}]
           rec == [p \in Live |-> IF p \in removed THEN less(p) ELSE page[p]]
<1>1. PagesTyped /\ TablesTyped /\ NoneTwice /\ ReferencesExact
  BY DEF RefInv
<1>2. Keep(rec, freed)
  BY DEF DropRefs
<1>3. removed \subseteq Live /\ freed \subseteq removed
  BY <1>1 DEF ReferencesExact, LastUnpinned
<1>4. \A p \in removed : r \in Holders(p) /\ page[p].refs \in Nat \ {0}
  <2> SUFFICES ASSUME NEW p \in removed PROVE r \in Holders(p) /\ page[p].refs \in Nat \ {0}
    OBVIOUS
  <2>1. r \in Holders(p) /\ p \in Live
    BY <1>3 DEF Holders
  <2> QED  BY <2>1, Counted
<1>5. \A p \in removed : /\ less(p) \in PageRecord
                         /\ less(p).refs = page[p].refs - 1
                         /\ less(p).bound = page[p].bound \ {r}
                         /\ less(p).keyed = page[p].keyed
  <2> SUFFICES ASSUME NEW p \in removed
               PROVE  /\ less(p) \in PageRecord
                      /\ less(p).refs = page[p].refs - 1
                      /\ less(p).bound = page[p].bound \ {r}
                      /\ less(p).keyed = page[p].keyed
    OBVIOUS
  <2>1. page[p] \in PageRecord
    BY <1>1, <1>3 DEF PagesTyped
  <2>2. page[p].refs - 1 \in Nat
    BY <1>4
  <2> QED  BY <2>1, <2>2 DEF PageRecord
<1> HIDE DEF less
<1>6. rec \in [Live -> PageRecord]
  BY <1>1, <1>5 DEF PagesTyped
<1> HIDE DEF rec
<1>7. /\ PagesTyped' /\ Live' = Live \ freed
      /\ \A p \in Live \ freed : page'[p] = rec[p]
  BY <1>1, <1>2, <1>6, KeptTyped
<1>8. \A p \in freed : Holders(p) = {r} /\ Keys(p) = {}
  <2> SUFFICES ASSUME NEW p \in freed PROVE Holders(p) = {r} /\ Keys(p) = {}
    OBVIOUS
  <2>1. p \in Live /\ page[p].refs = 1 /\ r \in Holders(p)
    BY <1>3, <1>4 DEF LastUnpinned
  <2>2. /\ Cardinality(Holders(p)) = 1 /\ Cardinality(Keys(p)) = 0
    BY <2>1, Counted
  <2>3. IsFiniteSet(Holders(p)) /\ IsFiniteSet(Keys(p))
    BY Finiteness DEF Holders, Keys
  <2> QED  BY <2>1, <2>2, <2>3, FS_Singleton, FS_EmptySet
<1>9. /\ prefixes' \in [PrefixKeys -> Seq(Int)]
      /\ \A k \in PrefixKeys : /\ IsInjective(prefixes'[k])
                               /\ ToSet(prefixes'[k]) = ToSet(prefixes[k]) \ freed
      /\ \A p : p \notin freed => Keys(p)' = Keys(p)
  BY Forgotten
<1>10. /\ requests' \in [Requests -> Seq(Int)]
       /\ requests'[r] = keep
       /\ \A q \in Requests \ {r} : requests'[q] = requests[q]
  BY <1>1 DEF TablesTyped
<1>11. /\ Held(r)' = Held(r) \ removed
       /\ \A q \in Requests \ {r} : Held(q)' = Held(q)
  BY <1>10 DEF Held
<1>12. recency' \in Seq(Int)
  BY <1>1, <1>2, LeastRecentTyped DEF Keep
<1>13. NoneTwice'
  BY <1>1, <1>9, <1>10 DEF NoneTwice
<1>14. \A q \in Requests : Held(q)' \subseteq Live'
  <2> SUFFICES ASSUME NEW q \in Requests, NEW p \in Held(q)' PROVE p \in Live \ freed
    BY <1>7
  <2>1. p \in Held(q) /\ p \in Live
    BY <1>1, <1>11 DEF ReferencesExact
  <2>2. CASE q = r
    BY <1>3, <1>11, <2>1, <2>2
  <2>3. CASE q # r
    <3>1. q \in Holders(p)
      BY <2>1 DEF Holders
    <3> QED  BY <1>8, <2>1, <2>3, <3>1
  <2> QED  BY <2>2, <2>3
<1>15. \A k \in PrefixKeys : ToSet(prefixes[k])' \subseteq Live'
  BY <1>1, <1>7, <1>9 DEF ReferencesExact
<1>16. ASSUME NEW p \in Live'
       PROVE  /\ page'[p].bound = Holders(p)'
              /\ page'[p].refs = Cardinality(Holders(p)') + Cardinality(Keys(p)')
              /\ page'[p].keyed = (Keys(p)' # {})
  <2>1. p \in Live /\ p \notin freed /\ page'[p] = rec[p] /\ Keys(p)' = Keys(p)
    BY <1>7, <1>9, <1>16
  <2>2. CASE p \in removed
    <3>1. Holders(p)' = Holders(p) \ {r}
      BY <1>11, <2>2 DEF Holders
    <3>2. Cardinality(Holders(p)') = Cardinality(Holders(p)) - 1
      <4>1. IsFiniteSet(Holders(p)) /\ r \in Holders(p)
        BY <1>4, <2>2, Finiteness DEF Holders
      <4> QED  BY <3>1, <4>1, FS_RemoveElement
    <3>3. page'[p] = less(p)
      BY <2>1, <2>2 DEF rec
    <3> QED  BY <1>5, <2>1, <2>2, <3>1, <3>2, <3>3, Counted
  <2>3. CASE p \notin removed
    <3>1. Holders(p)' = Holders(p)
      BY <1>11, <2>3 DEF Holders
    <3>2. page'[p] = page[p]
      BY <2>1, <2>3 DEF rec
    <3> QED  BY <2>1, <3>1, <3>2, Counted
  <2> QED  BY <2>2, <2>3
<1>17. ReferencesExact'
  BY <1>14, <1>15, <1>16, Recounted
<1> QED  BY <1>7, <1>9, <1>10, <1>12, <1>13, <1>17 DEF RefInv, TablesTyped

LEMMA ReleaseKeepsRefs ==
    ASSUME RefInv, NEW r \in Requests, Release(r)
    PROVE  RefInv'
<1>1. << >> \in Seq(Int) /\ IsInjective(<< >>) /\ ToSet(<< >>) = {}
  BY DEF IsInjective, ToSet
<1> QED  BY <1>1, DropKeepsRefs DEF Release

\* Steps that keep some of the live pages and touch none, or free none.
LEMMA KeepKeepsRecency ==
    ASSUME TablesTyped, RecencyLive, NEW rec, DOMAIN rec = Live, NEW freed, Keep(rec, freed)
    PROVE  RecencyLive'
<1>1. Live' = Live \ freed
  BY DEF Keep, Live
<1>2. ToSet(Without(recency, freed)) = ToSet(recency) \ freed
  BY WithoutProperties DEF TablesTyped
<1> QED  BY <1>1, <1>2 DEF Keep, RecencyLive

LEMMA TouchKeepsRecency ==
    ASSUME TablesTyped, RecencyLive, NEW s \in Seq(Int), ToSet(s) \subseteq Live,
           recency' = Touched(recency, s), Live' = Live
    PROVE  RecencyLive'
BY TouchedTyped DEF RecencyLive

LEMMA ShrinkKeepsRefs ==
    ASSUME RefInv, NEW r \in Requests, NEW n \in 0 .. SizeLimit, n < Len(requests[r]), Shrink(r, n)
    PROVE  RefInv' /\ (RecencyLive => RecencyLive')
<1> DEFINE s == requests[r]
<1>1. s \in Seq(Int) /\ IsInjective(s) /\ SizeLimit \in Nat
  BY KVPoolAssumption DEF RefInv, TablesTyped, NoneTwice
<1>2. n \in 0 .. Len(s)
  BY <1>1, LenProperties
<1>3. /\ SubSeq(s, 1, n) \in Seq(Int) /\ IsInjective(SubSeq(s, 1, n))
      /\ ToSet(SubSeq(s, 1, n)) \subseteq ToSet(s)
      /\ ToSet(SubSeq(s, n + 1, Len(s))) = ToSet(s) \ ToSet(SubSeq(s, 1, n))
  <2> HIDE DEF s
  <2> QED  BY <1>1, <1>2, SplitRange
<1>4. /\ DropRefs(ToSet(SubSeq(s, n + 1, Len(s))), r)
      /\ ForgetFreed(LastUnpinned(ToSet(SubSeq(s, n + 1, Len(s)))))
      /\ requests' = [requests EXCEPT ![r] = SubSeq(s, 1, n)]
      /\ pageCounter' = pageCounter
  BY DEF Shrink
<1>5. ToSet(s) = Held(r)
  BY DEF Held
<1> HIDE DEF s
<1>6. RefInv'
  BY <1>3, <1>4, <1>5, DropKeepsRefs
<1>7. RecencyLive => RecencyLive'
  BY <1>4, KeepKeepsRecency DEF RefInv, DropRefs
<1> QED  BY <1>6, <1>7

LEMMA SameSizeKeepsRefs ==
    ASSUME RefInv, NEW r \in Requests, SameSize(r)
    PROVE  RefInv' /\ (RecencyLive => RecencyLive')
<1>1. requests[r] \in Seq(Int)
  BY DEF RefInv, TablesTyped
<1>2. recency' \in Seq(Int)
  BY <1>1, TouchedTyped DEF RefInv, SameSize
<1>3. ReferencesExact' /\ NoneTwice'
  BY Untouched DEF SameSize, Live
<1>4. PagesTyped'
  BY DEF RefInv, PagesTyped, SameSize, Live
<1>5. RecencyLive => RecencyLive'
  <2>1. ToSet(requests[r]) \subseteq Live
    BY DEF RefInv, ReferencesExact, Held
  <2>2. recency' = Touched(recency, requests[r]) /\ Live' = Live
    BY DEF SameSize, Live
  <2> QED  BY <1>1, <2>1, <2>2, TouchKeepsRecency DEF RefInv
<1> QED  BY <1>2, <1>3, <1>4, <1>5 DEF RefInv, TablesTyped, SameSize

\* The pages of a prefix that an empty request takes, and the new ones.
LEMMA GrowKeepsRefs ==
    ASSUME RefInv, NEW r \in Requests, NEW n \in Nat, NEW attached \in Seq(Int), NEW allowed,
           n - Len(requests[r]) - Len(attached) \in Nat,
           IsInjective(attached), ToSet(attached) \subseteq Live,
           ToSet(attached) \cap Held(r) = {},
           Grow(r, n, attached, allowed)
    PROVE  RefInv' /\ (RecencyLive => RecencyLive')
<1> DEFINE missing == n - Len(requests[r]) - Len(attached)
           first == Len(requests[r]) + Len(attached)
<1>1. PagesTyped /\ TablesTyped /\ NoneTwice /\ ReferencesExact
  BY DEF RefInv
<1>2. PICK owners \in Placements(allowed, missing) :
        LET new == [i \in 1 .. Len(owners) |-> pageCounter + i - 1] IN
        /\ pageCounter + missing <= PageLimit
        /\ pageCounter' = pageCounter + Len(owners)
        /\ \/ /\ Len(owners) = missing
              /\ page' = [p \in Live \union ToSet(new) |->
                            IF p \in ToSet(new)
                            THEN [owner |-> owners[p - pageCounter + 1], refs |-> 1,
                                  pinned |-> FALSE, keyed |-> FALSE, bound |-> {r},
                                  generation |-> 0, start |-> first + p - pageCounter]
                            ELSE IF p \in ToSet(attached)
                            THEN [page[p] EXCEPT !.refs = @ + 1, !.bound = @ \union {r}]
                            ELSE page[p]]
              /\ used' = [c \in Components |-> used[c] + Taken(c, owners)]
              /\ owned' = [c \in Components |-> owned[c] + Taken(c, owners)]
              /\ recency' = Touched(recency, attached) \o new
              /\ requests' = [requests EXCEPT ![r] = @ \o attached \o new]
           \/ /\ Len(owners) < missing
              /\ recency' = Touched(recency, attached)
              /\ UNCHANGED <<page, used, owned, requests>>
        /\ UNCHANGED <<prefixes, pending, executor>>
  BY DEF Grow
<1> DEFINE new == [i \in 1 .. Len(owners) |-> pageCounter + i - 1]
           fresh(p) == [owner |-> owners[p - pageCounter + 1], refs |-> 1,
                        pinned |-> FALSE, keyed |-> FALSE, bound |-> {r},
                        generation |-> 0, start |-> first + p - pageCounter]
           more(p) == [page[p] EXCEPT !.refs = @ + 1, !.bound = @ \union {r}]
           Grown == /\ page' = [p \in Live \union ToSet(new) |->
                                  IF p \in ToSet(new) THEN fresh(p)
                                  ELSE IF p \in ToSet(attached) THEN more(p) ELSE page[p]]
                    /\ recency' = Touched(recency, attached) \o new
                    /\ requests' = [requests EXCEPT ![r] = @ \o attached \o new]
           Kept == recency' = Touched(recency, attached) /\ UNCHANGED <<page, requests>>
<1>21. pageCounter' = pageCounter + Len(owners) /\ prefixes' = prefixes
  BY <1>2
<1>22. Grown \/ Kept
  BY <1>2
<1> HIDE DEF missing
<1>3. Len(owners) \in Nat /\ owners \in [1 .. Len(owners) -> Components]
  <2>1. PICK m \in 0 .. missing : owners \in [1 .. m -> Components]
    BY DEF Placements
  <2>2. owners \in Seq(Components)
    BY <2>1, SeqDef
  <2> QED  BY <2>2, LenProperties
<1>4. pageCounter \in Nat /\ pageCounter' \in Nat /\ pageCounter <= pageCounter'
  BY <1>1, <1>21, <1>3 DEF PagesTyped
<1>5. requests[r] \in Seq(Int) /\ Len(requests[r]) \in Nat /\ Len(attached) \in Nat
  BY <1>1, LenProperties DEF TablesTyped
<1>6. /\ Touched(recency, attached) \in Seq(Int)
      /\ ToSet(Touched(recency, attached)) \subseteq ToSet(recency) \union ToSet(attached)
  BY <1>1, TouchedTyped
<1>7. CASE Kept
  <2>1. UNCHANGED <<page, requests, prefixes>> /\ recency' \in Seq(Int)
    BY <1>21, <1>6, <1>7
  <2>2. ReferencesExact' /\ NoneTwice'
    BY <2>1, Untouched DEF Live
  <2>3. PagesTyped'
    BY <1>1, <1>4, <2>1 DEF PagesTyped, Live
  <2>4. RecencyLive => RecencyLive'
    BY <1>6, <1>7 DEF RecencyLive, Live
  <2> QED  BY <1>1, <2>1, <2>2, <2>3, <2>4 DEF RefInv, TablesTyped
<1>8. CASE Grown
  <2>1. /\ page' = [p \in Live \union ToSet(new) |->
                      IF p \in ToSet(new) THEN fresh(p)
                      ELSE IF p \in ToSet(attached) THEN more(p) ELSE page[p]]
        /\ recency' = Touched(recency, attached) \o new
        /\ requests' = [requests EXCEPT ![r] = @ \o attached \o new]
        /\ prefixes' = prefixes
    BY <1>21, <1>8
  <2>2. /\ new \in Seq(Int) /\ IsInjective(new)
        /\ ToSet(new) = pageCounter .. pageCounter' - 1
    <3>1. new \in [1 .. Len(owners) -> Int]
      BY <1>3, <1>4
    <3>2. new \in Seq(Int)
      BY <1>3, <3>1, SeqDef
    <3>3. IsInjective(new)
      <4> SUFFICES ASSUME NEW i \in 1 .. Len(owners), NEW j \in 1 .. Len(owners), new[i] = new[j]
                   PROVE  i = j
        BY DEF IsInjective
      <4>1. pageCounter + i - 1 = pageCounter + j - 1
        OBVIOUS
      <4> QED  BY <1>3, <1>4, <4>1
    <3>4. ToSet(new) = {pageCounter + i - 1 : i \in 1 .. Len(owners)}
      BY DEF ToSet
    <3>5. \A p \in pageCounter .. pageCounter' - 1 :
            p - pageCounter + 1 \in 1 .. Len(owners) /\ pageCounter + (p - pageCounter + 1) - 1 = p
      BY <1>21, <1>3, <1>4
    <3>6. \A i \in 1 .. Len(owners) : pageCounter + i - 1 \in pageCounter .. pageCounter' - 1
      BY <1>21, <1>3, <1>4
    <3> HIDE DEF new
    <3>7. ToSet(new) \subseteq pageCounter .. pageCounter' - 1
      BY <3>4, <3>6
    <3>8. pageCounter .. pageCounter' - 1 \subseteq ToSet(new)
      BY <3>4, <3>5
    <3> QED  BY <3>2, <3>3, <3>7, <3>8
  <2> HIDE DEF new
  <2>3. Live \cap ToSet(new) = {}
    <3> SUFFICES ASSUME NEW p \in Live, p \in ToSet(new) PROVE FALSE
      OBVIOUS
    <3>1. p \in 0 .. pageCounter - 1 /\ p \in pageCounter .. pageCounter' - 1
      BY <1>1, <2>2 DEF PagesTyped
    <3> QED  BY <1>4, <3>1
  <2>4. /\ Live' = Live \union ToSet(new)
        /\ \A p \in ToSet(new) : page'[p] = fresh(p)
        /\ \A p \in ToSet(attached) : page'[p] = more(p)
        /\ \A p \in Live \ ToSet(attached) : page'[p] = page[p]
    BY <2>1, <2>3 DEF Live
  <2>5. \A p \in ToSet(new) : fresh(p) \in PageRecord
    <3> SUFFICES ASSUME NEW p \in ToSet(new) PROVE fresh(p) \in PageRecord
      OBVIOUS
    <3>1. p \in Int /\ p - pageCounter + 1 \in 1 .. Len(owners)
      BY <1>21, <1>3, <1>4, <2>2
    <3>2. owners[p - pageCounter + 1] \in Components /\ first + p - pageCounter \in Int
      BY <1>3, <1>4, <1>5, <3>1, SMTT(30)
    <3> QED  BY <3>2 DEF PageRecord
  <2>6. \A p \in ToSet(attached) : /\ more(p) \in PageRecord
                                   /\ more(p).refs = page[p].refs + 1
                                   /\ more(p).bound = page[p].bound \union {r}
                                   /\ more(p).keyed = page[p].keyed
    <3> SUFFICES ASSUME NEW p \in ToSet(attached)
                 PROVE  /\ more(p) \in PageRecord
                        /\ more(p).refs = page[p].refs + 1
                        /\ more(p).bound = page[p].bound \union {r}
                        /\ more(p).keyed = page[p].keyed
      OBVIOUS
    <3>1. page[p] \in PageRecord
      BY <1>1 DEF PagesTyped
    <3>2. page[p].refs + 1 \in Nat /\ page[p].bound \union {r} \in SUBSET Requests
      BY <3>1 DEF PageRecord
    <3> QED  BY <3>1, <3>2 DEF PageRecord
  <2>7. \A p \in ToSet(new) : fresh(p).bound = {r} /\ fresh(p).refs = 1 /\ fresh(p).keyed = FALSE
    OBVIOUS
  <2> HIDE DEF fresh, more
  <2>8. PagesTyped'
    <3>1. page' \in [Live' -> PageRecord]
      <4>1. \A p \in Live' : page'[p] \in PageRecord
        BY <1>1, <2>4, <2>5, <2>6 DEF PagesTyped
      <4> QED  BY <2>1, <2>4, <4>1 DEF Live
    <3>2. Live' \subseteq 0 .. pageCounter' - 1
      <4> SUFFICES ASSUME NEW p \in Live' PROVE p \in 0 .. pageCounter' - 1
        OBVIOUS
      <4>1. p \in 0 .. pageCounter - 1 \/ p \in pageCounter .. pageCounter' - 1
        BY <1>1, <2>2, <2>4 DEF PagesTyped
      <4> QED  BY <1>4, <4>1
    <3> QED  BY <1>4, <3>1, <3>2 DEF PagesTyped
  <2>9. /\ requests' \in [Requests -> Seq(Int)] /\ IsInjective(requests'[r])
        /\ Held(r)' = Held(r) \union ToSet(attached) \union ToSet(new)
        /\ \A q \in Requests \ {r} : requests'[q] = requests[q]
    <3> DEFINE held == requests[r] \o attached
    <3>1. /\ held \in Seq(Int)
          /\ ToSet(held) = Held(r) \union ToSet(attached)
          /\ IsInjective(held)
      BY <1>1, <1>5, ConcatRange DEF NoneTwice, Held
    <3>2. Held(r) \union ToSet(attached) \subseteq Live
      BY <1>1 DEF ReferencesExact
    <3>3. /\ held \o new \in Seq(Int) /\ IsInjective(held \o new)
          /\ ToSet(held \o new) = (Held(r) \union ToSet(attached)) \union ToSet(new)
      <4>1. ToSet(held) \cap ToSet(new) = {}
        BY <2>3, <3>1, <3>2
      <4> HIDE DEF held
      <4>2. new \in Seq(Int) /\ IsInjective(new)
        BY <2>2
      <4>3. held \in Seq(Int) /\ IsInjective(held)
        BY <3>1
      <4>4. /\ held \o new \in Seq(Int) /\ IsInjective(held \o new)
            /\ ToSet(held \o new) = ToSet(held) \union ToSet(new)
        BY <4>1, <4>2, <4>3, ConcatRange
      <4> QED  BY <3>1, <4>4
    <3>4. requests'[r] = held \o new
      BY <1>1, <2>1 DEF TablesTyped
    <3> QED  BY <1>1, <2>1, <3>3, <3>4 DEF TablesTyped, Held
  <2>10. /\ recency' \in Seq(Int)
         /\ RecencyLive => RecencyLive'
    <3> DEFINE t == Touched(recency, attached)
    <3>1. t \in Seq(Int) /\ ToSet(t) \subseteq ToSet(recency) \union ToSet(attached)
      BY <1>6
    <3> HIDE DEF t
    <3>2. t \o new \in Seq(Int) /\ ToSet(t \o new) = ToSet(t) \union ToSet(new)
      <4>1. t \in Seq(Int)
        BY <3>1
      <4>2. new \in Seq(Int)
        BY <2>2
      <4> QED  BY <4>1, <4>2, ConcatRange
    <3>3. recency' = t \o new
      BY <2>1 DEF t
    <3>4. recency' \in Seq(Int) /\ ToSet(recency') = ToSet(t) \union ToSet(new)
      BY <3>2, <3>3
    <3>5. ASSUME ToSet(recency) \subseteq Live PROVE ToSet(recency') \subseteq Live'
      BY <2>4, <3>1, <3>4, <3>5
    <3> QED  BY <3>4, <3>5 DEF RecencyLive
  <2>11. NoneTwice'
    BY <1>1, <2>1, <2>9 DEF NoneTwice
  <2>12. \A q \in Requests : Held(q)' \subseteq Live'
    BY <1>1, <2>4, <2>9 DEF ReferencesExact, Held
  <2>13. \A k \in PrefixKeys : ToSet(prefixes[k])' \subseteq Live'
    BY <1>1, <2>1, <2>4 DEF ReferencesExact
  <2>14. \A p : Keys(p)' = Keys(p)
    BY <2>1 DEF Keys
  <2>15. \A q \in Requests \ {r} : Held(q)' = Held(q)
    BY <2>9 DEF Held
  <2>16. ASSUME NEW p \in Live'
         PROVE  /\ page'[p].bound = Holders(p)'
                /\ page'[p].refs = Cardinality(Holders(p)') + Cardinality(Keys(p)')
                /\ page'[p].keyed = (Keys(p)' # {})
    <3>1. CASE p \in ToSet(new)
      <4>1. Holders(p)' = {r}
        <5>1. \A q \in Requests : p \notin Held(q)
          BY <1>1, <2>3, <3>1 DEF ReferencesExact
        <5> QED  BY <2>9, <2>15, <3>1, <5>1 DEF Holders
      <4>2. Keys(p) = {}
        BY <1>1, <2>3, <3>1 DEF ReferencesExact, Keys
      <4>3. Cardinality({r}) = 1 /\ Cardinality({}) = 0
        BY FS_Singleton, FS_EmptySet
      <4>4. page'[p].bound = {r} /\ page'[p].refs = 1 /\ page'[p].keyed = FALSE
        BY <2>4, <2>7, <3>1
      <4>5. Cardinality(Holders(p)') = 1 /\ Cardinality(Keys(p)') = 0 /\ Keys(p)' = {}
        BY <2>14, <4>1, <4>2, <4>3
      <4>6. page'[p].refs = Cardinality(Holders(p)') + Cardinality(Keys(p)')
        BY <4>4, <4>5
      <4>7. page'[p].keyed = (Keys(p)' # {})
        BY <4>4, <4>5
      <4> QED  BY <4>1, <4>4, <4>6, <4>7
    <3>2. CASE p \in ToSet(attached)
      <4>1. p \in Live /\ p \notin Held(r) /\ p \notin ToSet(new)
        BY <2>3, <3>2
      <4>2. Holders(p)' = Holders(p) \union {r} /\ r \notin Holders(p)
        BY <2>9, <2>15, <3>2, <4>1 DEF Holders
      <4>3. Cardinality(Holders(p)') = Cardinality(Holders(p)) + 1
        <5>1. IsFiniteSet(Holders(p))
          BY Finiteness DEF Holders
        <5> QED  BY <4>2, <5>1, FS_AddElement
      <4>4. /\ page'[p].refs = page[p].refs + 1
            /\ page'[p].bound = page[p].bound \union {r}
            /\ page'[p].keyed = page[p].keyed
        BY <2>4, <2>6, <3>2
      <4>5. /\ page[p].bound = Holders(p)
            /\ page[p].refs = Cardinality(Holders(p)) + Cardinality(Keys(p))
            /\ page[p].keyed = (Keys(p) # {})
            /\ Cardinality(Holders(p)) \in Nat /\ Cardinality(Keys(p)) \in Nat
        BY <4>1, Counted
      <4>6. page'[p].refs = Cardinality(Holders(p)') + Cardinality(Keys(p)')
        BY <2>14, <4>3, <4>4, <4>5
      <4> QED  BY <2>14, <4>2, <4>4, <4>5, <4>6
    <3>3. CASE p \in Live \ ToSet(attached)
      <4>1. p \notin ToSet(new)
        BY <2>3, <3>3
      <4>2. Holders(p)' = Holders(p)
        BY <2>9, <2>15, <3>3, <4>1 DEF Holders
      <4> QED  BY <2>4, <2>14, <3>3, <4>2, Counted
    <3> QED  BY <2>4, <3>1, <3>2, <3>3
  <2>17. ReferencesExact'
    BY <2>12, <2>13, <2>16, Recounted
  <2> QED  BY <1>1, <2>1, <2>8, <2>9, <2>10, <2>11, <2>17 DEF RefInv, TablesTyped
<1> QED  BY <1>22, <1>7, <1>8

\* What resize() comes to.
LEMMA ResizeCases ==
    ASSUME RefInv, NEW r \in Requests, NEW n \in 0 .. SizeLimit,
           NEW shared \in {<< >>} \union {prefixes[k] : k \in PrefixKeys}, NEW allowed,
           Resize(r, n, shared, allowed)
    PROVE  \/ SameSize(r)
           \/ n < Len(requests[r]) /\ Shrink(r, n)
           \/ \E attached \in Seq(Int) :
                /\ IsInjective(attached) /\ ToSet(attached) \subseteq Live
                /\ ToSet(attached) \cap Held(r) = {}
                /\ n - Len(requests[r]) - Len(attached) \in Nat
                /\ Grow(r, n, attached, allowed)
<1> DEFINE m == Min({n, Len(shared)})
           attached == IF requests[r] = << >> THEN SubSeq(shared, 1, m) ELSE << >>
<1>1. TablesTyped /\ NoneTwice /\ ReferencesExact /\ n \in Nat
  BY KVPoolAssumption DEF RefInv
<1>2. requests[r] \in Seq(Int) /\ Len(requests[r]) \in Nat
  BY <1>1, LenProperties DEF TablesTyped
<1>3. << >> \in Seq(Int) /\ IsInjective(<< >>) /\ ToSet(<< >>) = {} /\ Len(<< >>) = 0
  BY DEF IsInjective, ToSet
<1>4. shared \in Seq(Int) /\ IsInjective(shared) /\ ToSet(shared) \subseteq Live
  BY <1>1, <1>3 DEF TablesTyped, NoneTwice, ReferencesExact
<1>5. Len(shared) \in Nat
  BY <1>4, LenProperties
<1>6. m \in 0 .. Len(shared) /\ m <= n
  <2>1. \E x \in {n, Len(shared)} : \A y \in {n, Len(shared)} : x <= y
    BY <1>1, <1>5
  <2>2. m \in {n, Len(shared)} /\ \A y \in {n, Len(shared)} : m <= y
    BY <2>1 DEF Min
  <2> QED  BY <1>1, <1>5, <2>2
<1> HIDE DEF m
<1>7. /\ SubSeq(shared, 1, m) \in Seq(Int) /\ Len(SubSeq(shared, 1, m)) = m
      /\ IsInjective(SubSeq(shared, 1, m))
      /\ ToSet(SubSeq(shared, 1, m)) \subseteq ToSet(shared)
  BY <1>4, <1>6, SplitRange
<1>8. /\ attached \in Seq(Int) /\ IsInjective(attached) /\ ToSet(attached) \subseteq Live
      /\ ToSet(attached) \cap Held(r) = {} /\ Len(attached) \in Nat /\ Len(attached) <= n
      /\ requests[r] # << >> => Len(attached) = 0
  <2>1. CASE requests[r] = << >>
    BY <1>1, <1>3, <1>4, <1>6, <1>7, <2>1 DEF Held
  <2>2. CASE requests[r] # << >>
    BY <1>1, <1>3, <2>2
  <2> QED  BY <2>1, <2>2
<1>9. \/ SameSize(r)
      \/ n < Len(requests[r]) /\ Shrink(r, n)
      \/ n > Len(requests[r]) /\ Grow(r, n, attached, allowed)
  BY DEF Resize, m
<1> HIDE DEF attached
<1>10. CASE n > Len(requests[r]) /\ Grow(r, n, attached, allowed)
  <2>1. n - Len(requests[r]) - Len(attached) \in Nat
    <3>1. CASE requests[r] = << >>
      BY <1>1, <1>3, <1>8, <3>1
    <3>2. CASE requests[r] # << >>
      BY <1>1, <1>2, <1>8, <1>10, <3>2
    <3> QED  BY <3>1, <3>2
  <2> QED  BY <1>8, <1>10, <2>1
<1> QED  BY <1>9, <1>10

LEMMA ResizeKeepsRefs ==
    ASSUME RefInv, NEW r \in Requests, NEW n \in 0 .. SizeLimit,
           NEW shared \in {<< >>} \union {prefixes[k] : k \in PrefixKeys}, NEW allowed,
           Resize(r, n, shared, allowed)
    PROVE  RefInv' /\ (RecencyLive => RecencyLive')
<1>1. n \in Nat
  BY KVPoolAssumption
<1> QED  BY <1>1, ResizeCases, SameSizeKeepsRefs, ShrinkKeepsRefs, GrowKeepsRefs

------------------------------------------------------------------------------
\* Handoffs, prefixes, pins and evictions.

LEMMA HandoffKeepsRefs ==
    ASSUME RefInv, NEW r \in Requests, NEW s \in Requests, HandoffRequest(r, s)
    PROVE  RefInv'
<1> DEFINE given(p) == [page[p] EXCEPT !.bound = (@ \ {r}) \union {s}]
<1>1. PagesTyped /\ TablesTyped /\ NoneTwice /\ ReferencesExact
  BY DEF RefInv
<1>2. /\ r # s /\ requests[s] = << >>
      /\ requests' = [requests EXCEPT ![r] = << >>, ![s] = requests[r]]
      /\ page' = [p \in Live |-> IF p \in Held(r) THEN given(p) ELSE page[p]]
      /\ \A p \in Held(r) : page[p].refs = 1
      /\ UNCHANGED <<recency, pageCounter, prefixes>>
  BY DEF HandoffRequest
<1>3. << >> \in Seq(Int) /\ IsInjective(<< >>) /\ ToSet(<< >>) = {}
  BY DEF IsInjective, ToSet
<1>4. /\ requests' \in [Requests -> Seq(Int)]
      /\ requests'[r] = << >> /\ requests'[s] = requests[r]
      /\ \A q \in Requests \ {r, s} : requests'[q] = requests[q]
  BY <1>1, <1>2, <1>3 DEF TablesTyped
<1>5. /\ Held(r)' = {} /\ Held(s)' = Held(r) /\ Held(s) = {}
      /\ \A q \in Requests \ {r, s} : Held(q)' = Held(q)
  BY <1>2, <1>3, <1>4 DEF Held
<1>6. \A p \in Live : /\ given(p) \in PageRecord
                      /\ given(p).refs = page[p].refs
                      /\ given(p).bound = (page[p].bound \ {r}) \union {s}
                      /\ given(p).keyed = page[p].keyed
  <2> SUFFICES ASSUME NEW p \in Live
               PROVE  /\ given(p) \in PageRecord
                      /\ given(p).refs = page[p].refs
                      /\ given(p).bound = (page[p].bound \ {r}) \union {s}
                      /\ given(p).keyed = page[p].keyed
    OBVIOUS
  <2>1. page[p] \in PageRecord
    BY <1>1 DEF PagesTyped
  <2>2. (page[p].bound \ {r}) \union {s} \in SUBSET Requests
    BY <2>1 DEF PageRecord
  <2> QED  BY <2>1, <2>2 DEF PageRecord
<1> HIDE DEF given
<1>7. Live' = Live /\ page' \in [Live' -> PageRecord]
  BY <1>1, <1>2, <1>6 DEF PagesTyped, Live
<1>8. PagesTyped'
  BY <1>1, <1>2, <1>7 DEF PagesTyped
<1>9. NoneTwice'
  <2>1. \A q \in Requests : IsInjective(requests'[q])
    BY <1>1, <1>3, <1>4 DEF NoneTwice
  <2> QED  BY <1>1, <1>2, <2>1 DEF NoneTwice
<1>10. \A q \in Requests : Held(q)' \subseteq Live'
  BY <1>1, <1>5, <1>7 DEF ReferencesExact
<1>11. \A k \in PrefixKeys : ToSet(prefixes[k])' \subseteq Live'
  BY <1>1, <1>2, <1>7 DEF ReferencesExact
<1>12. \A p : Keys(p)' = Keys(p)
  BY <1>2 DEF Keys
<1>13. ASSUME NEW p \in Live'
       PROVE  /\ page'[p].bound = Holders(p)'
              /\ page'[p].refs = Cardinality(Holders(p)') + Cardinality(Keys(p)')
              /\ page'[p].keyed = (Keys(p)' # {})
  <2>1. p \in Live
    BY <1>7
  <2>2. /\ page[p].bound = Holders(p)
        /\ page[p].refs = Cardinality(Holders(p)) + Cardinality(Keys(p))
        /\ page[p].keyed = (Keys(p) # {})
    BY <2>1, Counted
  <2>3. CASE p \in Held(r)
    <3>1. page'[p] = given(p)
      BY <1>2, <2>1, <2>3
    <3>2. /\ r \in Holders(p) /\ s \notin Holders(p)
          /\ Holders(p)' = (Holders(p) \ {r}) \union {s}
      BY <1>2, <1>5, <2>3 DEF Holders
    <3>3. Cardinality(Holders(p)') = Cardinality(Holders(p))
      <4>1. IsFiniteSet(Holders(p)) /\ Cardinality(Holders(p)) \in Nat
        BY Finiteness DEF Holders
      <4>2. IsFiniteSet(Holders(p) \ {r}) /\ Cardinality(Holders(p) \ {r}) = Cardinality(Holders(p)) - 1
        BY <3>2, <4>1, FS_RemoveElement
      <4>3. s \notin Holders(p) \ {r}
        BY <3>2
      <4>4. Cardinality((Holders(p) \ {r}) \union {s}) = Cardinality(Holders(p) \ {r}) + 1
        BY <4>2, <4>3, FS_AddElement
      <4> QED  BY <3>2, <4>1, <4>2, <4>4
    <3>4. page'[p].bound = Holders(p)'
      BY <1>6, <2>1, <2>2, <3>1, <3>2
    <3>5. page'[p].refs = Cardinality(Holders(p)') + Cardinality(Keys(p)')
      BY <1>6, <1>12, <2>1, <2>2, <3>1, <3>3
    <3> QED  BY <1>6, <1>12, <2>1, <2>2, <3>1, <3>4, <3>5
  <2>4. CASE p \notin Held(r)
    <3>1. page'[p] = page[p]
      BY <1>2, <2>1, <2>4
    <3>2. Holders(p)' = Holders(p)
      BY <1>5, <2>4 DEF Holders
    <3> QED  BY <1>12, <2>2, <3>1, <3>2
  <2> QED  BY <2>3, <2>4
<1>14. ReferencesExact'
  BY <1>10, <1>11, <1>13, Recounted
<1> QED  BY <1>1, <1>2, <1>4, <1>8, <1>9, <1>14 DEF RefInv, TablesTyped

LEMMA RegisterKeepsRefs ==
    ASSUME RefInv, NEW k \in PrefixKeys, NEW r \in Requests, NEW n \in 1 .. SizeLimit,
           RegisterPrefix(k, r, n)
    PROVE  RefInv'
<1> DEFINE ids == SubSeq(requests[r], 1, n)
           keyed(p) == [page[p] EXCEPT !.refs = @ + 1, !.keyed = TRUE]
<1>1. PagesTyped /\ TablesTyped /\ NoneTwice /\ ReferencesExact
  BY DEF RefInv
<1>2. /\ prefixes[k] = << >> /\ n \in 1 .. Len(requests[r])
      /\ page' = [p \in Live |-> IF p \in ToSet(ids) THEN keyed(p) ELSE page[p]]
      /\ recency' = Touched(recency, ids)
      /\ prefixes' = [prefixes EXCEPT ![k] = ids]
      /\ UNCHANGED <<pageCounter, requests>>
  BY DEF RegisterPrefix
<1>3. requests[r] \in Seq(Int) /\ IsInjective(requests[r]) /\ n \in 0 .. Len(requests[r])
  <2>1. requests[r] \in Seq(Int) /\ IsInjective(requests[r])
    BY <1>1 DEF TablesTyped, NoneTwice
  <2>2. Len(requests[r]) \in Nat
    BY <2>1, LenProperties
  <2>3. n \in 1 .. Len(requests[r])
    BY <1>2
  <2>4. n \in 0 .. Len(requests[r])
    BY <2>2, <2>3
  <2> QED  BY <2>1, <2>4
<1>4. ids \in Seq(Int) /\ IsInjective(ids) /\ ToSet(ids) \subseteq ToSet(requests[r])
  BY <1>3, SplitRange
<1> HIDE DEF ids
<1>5. ToSet(ids) \subseteq Live
  BY <1>1, <1>4 DEF ReferencesExact, Held
<1>6. \A p \in Live : /\ keyed(p) \in PageRecord
                      /\ keyed(p).refs = page[p].refs + 1
                      /\ keyed(p).bound = page[p].bound
                      /\ keyed(p).keyed = TRUE
  <2> SUFFICES ASSUME NEW p \in Live
               PROVE  /\ keyed(p) \in PageRecord
                      /\ keyed(p).refs = page[p].refs + 1
                      /\ keyed(p).bound = page[p].bound
                      /\ keyed(p).keyed = TRUE
    OBVIOUS
  <2>1. page[p] \in PageRecord
    BY <1>1 DEF PagesTyped
  <2>2. page[p].refs + 1 \in Nat
    BY <2>1 DEF PageRecord
  <2> QED  BY <2>1, <2>2 DEF PageRecord
<1> HIDE DEF keyed
<1>7. Live' = Live /\ page' \in [Live' -> PageRecord]
  BY <1>1, <1>2, <1>6 DEF PagesTyped, Live
<1>8. PagesTyped'
  BY <1>1, <1>2, <1>7 DEF PagesTyped
<1>9. /\ prefixes' \in [PrefixKeys -> Seq(Int)] /\ prefixes'[k] = ids
      /\ \A j \in PrefixKeys \ {k} : prefixes'[j] = prefixes[j]
  BY <1>1, <1>2, <1>4 DEF TablesTyped
<1>10. NoneTwice'
  <2>1. \A j \in PrefixKeys : IsInjective(prefixes'[j])
    BY <1>1, <1>4, <1>9 DEF NoneTwice
  <2> QED  BY <1>1, <1>2, <2>1 DEF NoneTwice
<1>11. \A q \in Requests : Held(q)' \subseteq Live' /\ Held(q)' = Held(q)
  BY <1>1, <1>2, <1>7 DEF ReferencesExact, Held
<1>12. \A j \in PrefixKeys : ToSet(prefixes[j])' \subseteq Live'
  BY <1>1, <1>5, <1>7, <1>9 DEF ReferencesExact
<1>13. \A p : Holders(p)' = Holders(p)
  BY <1>11 DEF Holders
<1>14. ToSet(prefixes[k]) = {}
  BY <1>2 DEF ToSet
<1>15. ASSUME NEW p \in Live'
       PROVE  /\ page'[p].bound = Holders(p)'
              /\ page'[p].refs = Cardinality(Holders(p)') + Cardinality(Keys(p)')
              /\ page'[p].keyed = (Keys(p)' # {})
  <2>1. p \in Live
    BY <1>7
  <2>2. /\ page[p].bound = Holders(p)
        /\ page[p].refs = Cardinality(Holders(p)) + Cardinality(Keys(p))
        /\ page[p].keyed = (Keys(p) # {})
        /\ Cardinality(Holders(p)) \in Nat /\ Cardinality(Keys(p)) \in Nat
    BY <2>1, Counted
  <2>3. CASE p \in ToSet(ids)
    <3>1. page'[p] = keyed(p)
      BY <1>2, <2>1, <2>3
    <3>2. k \notin Keys(p) /\ Keys(p)' = Keys(p) \union {k}
      BY <1>9, <1>14, <2>3 DEF Keys
    <3>3. Cardinality(Keys(p)') = Cardinality(Keys(p)) + 1
      <4>1. IsFiniteSet(Keys(p))
        BY Finiteness DEF Keys
      <4> QED  BY <3>2, <4>1, FS_AddElement
    <3>4. page'[p].refs = Cardinality(Holders(p)') + Cardinality(Keys(p)')
      BY <1>6, <1>13, <2>1, <2>2, <3>1, <3>3
    <3>5. page'[p].keyed = (Keys(p)' # {})
      BY <1>6, <2>1, <3>1, <3>2
    <3> QED  BY <1>6, <1>13, <2>1, <2>2, <3>1, <3>4, <3>5
  <2>4. CASE p \notin ToSet(ids)
    <3>1. page'[p] = page[p]
      BY <1>2, <2>1, <2>4
    <3>2. \A j \in PrefixKeys : p \in ToSet(prefixes'[j]) <=> p \in ToSet(prefixes[j])
      <4>1. p \notin ToSet(prefixes'[k]) /\ p \notin ToSet(prefixes[k])
        BY <1>9, <1>14, <2>4
      <4> QED  BY <1>9, <4>1
    <3>3. Keys(p)' = Keys(p)
      BY <3>2 DEF Keys
    <3> QED  BY <1>13, <2>2, <3>1, <3>3
  <2> QED  BY <2>3, <2>4
<1>16. ReferencesExact'
  BY <1>11, <1>12, <1>15, Recounted
<1>17. recency' \in Seq(Int)
  BY <1>1, <1>2, <1>4, TouchedTyped
<1> QED  BY <1>1, <1>2, <1>8, <1>9, <1>10, <1>16, <1>17 DEF RefInv, TablesTyped

\* Pages freed that no request holds: they leave the prefixes.
LEMMA FreedKeepsRefs ==
    ASSUME RefInv, NEW rec \in [Live -> PageRecord], NEW freed, freed \subseteq Live,
           Keep(rec, freed), ForgetFreed(freed), requests' = requests, pageCounter' = pageCounter,
           \A p \in freed : Holders(p) = {},
           \A p \in Live \ freed : /\ rec[p].bound = page[p].bound
                                   /\ rec[p].refs = page[p].refs
                                   /\ rec[p].keyed = page[p].keyed
    PROVE  RefInv'
<1>1. PagesTyped /\ TablesTyped /\ NoneTwice /\ ReferencesExact
  BY DEF RefInv
<1>2. /\ PagesTyped' /\ Live' = Live \ freed
      /\ \A p \in Live \ freed : page'[p] = rec[p]
  BY <1>1, KeptTyped
<1>3. /\ prefixes' \in [PrefixKeys -> Seq(Int)]
      /\ \A k \in PrefixKeys : /\ IsInjective(prefixes'[k])
                               /\ ToSet(prefixes'[k]) = ToSet(prefixes[k]) \ freed
      /\ \A p : p \notin freed => Keys(p)' = Keys(p)
  BY Forgotten
<1>4. recency' \in Seq(Int)
  BY <1>1, LeastRecentTyped DEF Keep
<1>5. \A q \in Requests : Held(q)' = Held(q)
  BY DEF Held
<1>6. \A p : Holders(p)' = Holders(p)
  BY <1>5 DEF Holders
<1>7. NoneTwice'
  BY <1>1, <1>3 DEF NoneTwice
<1>8. \A q \in Requests : Held(q)' \subseteq Live'
  <2> SUFFICES ASSUME NEW q \in Requests, NEW p \in Held(q) PROVE p \in Live \ freed
    BY <1>2, <1>5
  <2>1. p \in Live /\ q \in Holders(p)
    BY <1>1 DEF ReferencesExact, Holders
  <2> QED  BY <2>1
<1>9. \A k \in PrefixKeys : ToSet(prefixes[k])' \subseteq Live'
  BY <1>1, <1>2, <1>3 DEF ReferencesExact
<1>10. ASSUME NEW p \in Live'
       PROVE  /\ page'[p].bound = Holders(p)'
              /\ page'[p].refs = Cardinality(Holders(p)') + Cardinality(Keys(p)')
              /\ page'[p].keyed = (Keys(p)' # {})
  <2>1. p \in Live \ freed /\ page'[p] = rec[p] /\ Keys(p)' = Keys(p) /\ Holders(p)' = Holders(p)
    BY <1>2, <1>3, <1>6
  <2> QED  BY <2>1, Counted
<1>11. ReferencesExact'
  BY <1>8, <1>9, <1>10, Recounted
<1> QED  BY <1>1, <1>2, <1>3, <1>4, <1>7, <1>11 DEF RefInv, TablesTyped

LEMMA PartRange ==
    ASSUME NEW T, NEW s \in Seq(T), NEW n \in Nat, n <= Len(s)
    PROVE  ToSet(SubSeq(s, 1, n)) \subseteq ToSet(s) /\ SubSeq(s, 1, n) \in Seq(T)
<1> DEFINE a == SubSeq(s, 1, n)
<1>1. Len(s) \in Nat /\ DOMAIN s = 1 .. Len(s) /\ \A i \in 1 .. Len(s) : s[i] \in T
  BY LenProperties
<1>2. \A i \in 1 .. n : s[i] \in T
  BY <1>1
<1>3. a \in Seq(T) /\ Len(a) = n /\ \A i \in 1 .. n : a[i] = s[i]
  BY <1>2, SubSeqProperties, n \in Int, 1 \in Int
<1>4. DOMAIN a = 1 .. n
  BY <1>3, LenProperties
<1> HIDE DEF a
<1>5. 1 .. n \subseteq 1 .. Len(s)
  BY <1>1
<1>6. ToSet(a) \subseteq ToSet(s)
  BY <1>1, <1>3, <1>4, <1>5 DEF ToSet
<1> QED  BY <1>3, <1>6 DEF a

LEMMA EvictKeepsRefs ==
    ASSUME RefInv, RecencyLive, NEW allowed, NEW n \in 1 .. PageLimit, Evict(allowed, n)
    PROVE  RefInv'
<1> DEFINE evictable(p) == /\ page[p].refs = 1
                           /\ ~page[p].pinned
                           /\ page[p].bound = {}
                           /\ page[p].owner \in allowed
           others == {p \in Live : ~evictable(p)}
           oldest == Without(recency, others)
           freed == ToSet(SubSeq(oldest, 1, n))
<1>1. PagesTyped /\ TablesTyped /\ page \in [Live -> PageRecord]
  BY DEF RefInv, PagesTyped
<1>2. /\ n <= Len(oldest) /\ Keep(page, freed) /\ ForgetFreed(freed)
      /\ UNCHANGED <<pageCounter, requests>>
  BY DEF Evict
<1>3. oldest \in Seq(Int) /\ ToSet(oldest) = ToSet(recency) \ others
  <2> HIDE DEF others
  <2> QED  BY <1>1, WithoutProperties DEF TablesTyped
<1>4. freed \subseteq ToSet(oldest)
  <2>1. n \in Nat
    BY KVPoolAssumption
  <2> HIDE DEF oldest
  <2> QED  BY <1>2, <1>3, <2>1, PartRange
<1>5. \A p \in freed : p \in Live /\ page[p].bound = {}
  <2>1. \A p \in freed : p \in Live /\ evictable(p)
    BY <1>3, <1>4 DEF RecencyLive
  <2> QED  BY <2>1
<1>6. \A p \in freed : Holders(p) = {}
  BY <1>5, Counted
<1> HIDE DEF freed
<1> QED  BY <1>1, <1>2, <1>5, <1>6, FreedKeepsRefs

LEMMA UnpinKeepsRefs ==
    ASSUME RefInv, NEW p \in Live, Unpin(p)
    PROVE  RefInv'
<1> DEFINE freed == {q \in {p} : page[q].refs = 0}
           rec == [page EXCEPT ![p].pinned = FALSE]
<1>1. page \in [Live -> PageRecord]
  BY DEF RefInv, PagesTyped
<1>2. /\ Keep(rec, freed) /\ ForgetFreed(freed)
      /\ UNCHANGED <<pageCounter, requests>>
  BY DEF Unpin
<1>3. /\ rec \in [Live -> PageRecord]
      /\ \A q \in Live : /\ rec[q].bound = page[q].bound
                         /\ rec[q].refs = page[q].refs
                         /\ rec[q].keyed = page[q].keyed
  BY <1>1 DEF PageRecord
<1> HIDE DEF rec
<1>4. \A q \in freed : Holders(q) = {}
  <2> SUFFICES ASSUME page[p].refs = 0 PROVE Holders(p) = {}
    OBVIOUS
  <2>1. Cardinality(Holders(p)) = 0
    BY Counted
  <2> QED  BY <2>1, Counted
<1>5. freed \subseteq Live
  OBVIOUS
<1> HIDE DEF freed
<1> QED  BY <1>2, <1>3, <1>4, <1>5, FreedKeepsRefs

LEMMA PinKeepsRefs ==
    ASSUME RefInv, NEW r \in Requests, NEW p, Pin(r, p)
    PROVE  RefInv'
<1>1. PagesTyped /\ TablesTyped /\ p \in Live /\ page \in [Live -> PageRecord]
  BY DEF RefInv, ReferencesExact, Pin, PagesTyped
<1>2. /\ page' = [page EXCEPT ![p].pinned = TRUE]
      /\ recency' = Touched(recency, <<p>>)
      /\ UNCHANGED <<pageCounter, requests, prefixes>>
  BY DEF Pin
<1>3. /\ Live' = Live /\ page' \in [Live -> PageRecord]
      /\ \A q \in Live : /\ page'[q].bound = page[q].bound
                         /\ page'[q].refs = page[q].refs
                         /\ page'[q].keyed = page[q].keyed
  BY <1>1, <1>2 DEF PageRecord, Live
<1>4. ReferencesExact' /\ NoneTwice'
  BY <1>2, <1>3, Untouched
<1>5. PagesTyped'
  BY <1>1, <1>2, <1>3 DEF PagesTyped
<1>6. p \in Int
  BY <1>1 DEF PagesTyped
<1>7. recency' \in Seq(Int)
  <2>1. <<p>> \in Seq(Int)
    BY <1>6
  <2> QED  BY <1>1, <1>2, <2>1, TouchedTyped
<1> QED  BY <1>1, <1>2, <1>4, <1>5, <1>7 DEF RefInv, TablesTyped

LEMMA ReleasePrefixKeepsRefs ==
    ASSUME RefInv, NEW k \in PrefixKeys, ReleasePrefix(k)
    PROVE  RefInv'
<1> DEFINE ids == ToSet(prefixes[k])
           freed == LastUnpinned(ids)
           others(p) == \E other \in PrefixKeys \ {k} : p \in ToSet(prefixes[other])
           less(p) == [page[p] EXCEPT !.refs = @ - 1, !.keyed = others(p)]
           rec == [p \in Live |-> IF p \in ids THEN less(p) ELSE page[p]]
<1>1. PagesTyped /\ TablesTyped /\ NoneTwice /\ ReferencesExact
  BY DEF RefInv
<1>2. /\ Keep(rec, freed)
      /\ prefixes' = [j \in PrefixKeys |-> IF j = k THEN << >> ELSE Without(prefixes[j], freed)]
      /\ UNCHANGED <<pageCounter, requests>>
  BY DEF ReleasePrefix
<1>3. ids \subseteq Live /\ freed \subseteq ids
  BY <1>1 DEF ReferencesExact, LastUnpinned
<1>4. \A p \in ids : k \in Keys(p) /\ page[p].refs \in Nat \ {0}
  <2> SUFFICES ASSUME NEW p \in ids PROVE k \in Keys(p) /\ page[p].refs \in Nat \ {0}
    OBVIOUS
  <2>1. k \in Keys(p) /\ p \in Live
    BY <1>3 DEF Keys
  <2> QED  BY <2>1, Counted
<1>5. \A p \in ids : others(p) = (Keys(p) \ {k} # {})
  BY DEF Keys
<1>6. \A p \in ids : /\ less(p) \in PageRecord
                     /\ less(p).refs = page[p].refs - 1
                     /\ less(p).bound = page[p].bound
                     /\ less(p).keyed = (Keys(p) \ {k} # {})
  <2> SUFFICES ASSUME NEW p \in ids
               PROVE  /\ less(p) \in PageRecord
                      /\ less(p).refs = page[p].refs - 1
                      /\ less(p).bound = page[p].bound
                      /\ less(p).keyed = (Keys(p) \ {k} # {})
    OBVIOUS
  <2>1. page[p] \in PageRecord
    BY <1>1, <1>3 DEF PagesTyped
  <2>2. page[p].refs - 1 \in Nat /\ others(p) \in BOOLEAN
    BY <1>4
  <2>3. others(p) = (Keys(p) \ {k} # {})
    BY <1>5
  <2> HIDE DEF others
  <2>4. less(p) \in PageRecord /\ less(p).keyed = others(p)
    BY <2>1, <2>2 DEF PageRecord
  <2>5. less(p).refs = page[p].refs - 1 /\ less(p).bound = page[p].bound
    BY <2>1 DEF PageRecord
  <2> HIDE DEF less
  <2> QED  BY <2>3, <2>4, <2>5
<1> HIDE DEF less
<1>7. rec \in [Live -> PageRecord]
  BY <1>1, <1>6 DEF PagesTyped
<1> HIDE DEF rec
<1>8. /\ PagesTyped' /\ Live' = Live \ freed
      /\ \A p \in Live \ freed : page'[p] = rec[p]
  BY <1>1, <1>2, <1>7, KeptTyped
<1>9. \A p \in freed : Holders(p) = {}
  <2> SUFFICES ASSUME NEW p \in freed PROVE Holders(p) = {}
    OBVIOUS
  <2>1. p \in Live /\ page[p].refs = 1 /\ k \in Keys(p)
    BY <1>3, <1>4 DEF LastUnpinned
  <2>2. /\ Cardinality(Holders(p)) \in Nat /\ Cardinality(Keys(p)) \in Nat
        /\ Cardinality(Holders(p)) + Cardinality(Keys(p)) = 1
        /\ Cardinality(Keys(p)) # 0
    BY <2>1, Counted
  <2>3. Cardinality(Holders(p)) = 0
    BY <2>2
  <2> QED  BY <2>1, <2>3, Counted
<1>10. << >> \in Seq(Int) /\ IsInjective(<< >>) /\ ToSet(<< >>) = {}
  BY DEF IsInjective, ToSet
<1>11. /\ prefixes' \in [PrefixKeys -> Seq(Int)] /\ prefixes'[k] = << >>
       /\ \A j \in PrefixKeys : IsInjective(prefixes'[j])
       /\ \A j \in PrefixKeys \ {k} : ToSet(prefixes'[j]) = ToSet(prefixes[j]) \ freed
  <2>1. \A j \in PrefixKeys \ {k} :
          /\ prefixes'[j] = Without(prefixes[j], freed)
          /\ prefixes[j] \in Seq(Int) /\ IsInjective(prefixes[j])
    BY <1>1, <1>2 DEF TablesTyped, NoneTwice
  <2>2. \A j \in PrefixKeys \ {k} :
          /\ prefixes'[j] \in Seq(Int) /\ IsInjective(prefixes'[j])
          /\ ToSet(prefixes'[j]) = ToSet(prefixes[j]) \ freed
    <3> HIDE DEF freed
    <3> QED  BY <2>1, WithoutProperties
  <2>3. prefixes'[k] = << >>
    BY <1>2
  <2>4. \A j \in PrefixKeys : prefixes'[j] \in Seq(Int) /\ IsInjective(prefixes'[j])
    BY <1>10, <2>2, <2>3
  <2>5. prefixes' \in [PrefixKeys -> Seq(Int)]
    BY <1>2, <2>4
  <2> QED  BY <2>2, <2>3, <2>4, <2>5
<1>12. \A p : p \notin freed => Keys(p)' = Keys(p) \ {k}
  <2> SUFFICES ASSUME NEW p, p \notin freed PROVE Keys(p)' = Keys(p) \ {k}
    OBVIOUS
  <2>1. p \notin ToSet(prefixes'[k])
    BY <1>10, <1>11
  <2>2. \A j \in PrefixKeys \ {k} : p \in ToSet(prefixes'[j]) <=> p \in ToSet(prefixes[j])
    BY <1>11
  <2> QED  BY <2>1, <2>2 DEF Keys
<1>13. recency' \in Seq(Int)
  BY <1>1, <1>2, LeastRecentTyped DEF Keep
<1>14. \A q \in Requests : Held(q)' = Held(q)
  BY <1>2 DEF Held
<1>15. \A p : Holders(p)' = Holders(p)
  BY <1>14 DEF Holders
<1>16. NoneTwice'
  BY <1>1, <1>2, <1>11 DEF NoneTwice
<1>17. \A q \in Requests : Held(q)' \subseteq Live'
  <2> SUFFICES ASSUME NEW q \in Requests, NEW p \in Held(q) PROVE p \in Live \ freed
    BY <1>8, <1>14
  <2>1. p \in Live /\ q \in Holders(p)
    BY <1>1 DEF ReferencesExact, Holders
  <2> QED  BY <1>9, <2>1
<1>18. \A j \in PrefixKeys : ToSet(prefixes[j])' \subseteq Live'
  <2>1. ToSet(prefixes'[k]) \subseteq Live'
    BY <1>10, <1>11
  <2>2. \A j \in PrefixKeys \ {k} : ToSet(prefixes'[j]) \subseteq Live'
    BY <1>1, <1>8, <1>11 DEF ReferencesExact
  <2> QED  BY <2>1, <2>2
<1>19. ASSUME NEW p \in Live'
       PROVE  /\ page'[p].bound = Holders(p)'
              /\ page'[p].refs = Cardinality(Holders(p)') + Cardinality(Keys(p)')
              /\ page'[p].keyed = (Keys(p)' # {})
  <2>1. p \in Live \ freed /\ page'[p] = rec[p] /\ Keys(p)' = Keys(p) \ {k} /\ Holders(p)' = Holders(p)
    BY <1>8, <1>12, <1>15
  <2>2. /\ page[p].bound = Holders(p)
        /\ page[p].refs = Cardinality(Holders(p)) + Cardinality(Keys(p))
        /\ page[p].keyed = (Keys(p) # {})
        /\ Cardinality(Holders(p)) \in Nat /\ Cardinality(Keys(p)) \in Nat
    BY <2>1, Counted
  <2>3. CASE p \in ids
    <3>1. page'[p] = less(p)
      BY <2>1, <2>3 DEF rec
    <3>2. Cardinality(Keys(p)') = Cardinality(Keys(p)) - 1
      <4>1. IsFiniteSet(Keys(p)) /\ k \in Keys(p)
        BY <1>4, <2>3, Finiteness DEF Keys
      <4> QED  BY <2>1, <4>1, FS_RemoveElement
    <3>3. page'[p].refs = Cardinality(Holders(p)') + Cardinality(Keys(p)')
      BY <1>6, <2>1, <2>2, <2>3, <3>1, <3>2
    <3>4. page'[p].keyed = (Keys(p)' # {})
      BY <1>6, <2>1, <2>3, <3>1
    <3> QED  BY <1>6, <2>1, <2>2, <2>3, <3>1, <3>3, <3>4
  <2>4. CASE p \notin ids
    <3>1. page'[p] = page[p]
      BY <2>1, <2>4 DEF rec
    <3>2. Keys(p)' = Keys(p)
      BY <2>1, <2>4 DEF Keys
    <3> QED  BY <2>1, <2>2, <3>1, <3>2
  <2> QED  BY <2>3, <2>4
<1>20. ReferencesExact'
  BY <1>17, <1>18, <1>19, Recounted
<1> QED  BY <1>1, <1>2, <1>8, <1>11, <1>13, <1>16, <1>20 DEF RefInv, TablesTyped

------------------------------------------------------------------------------
\* Moves and restores.

MoveRecord == [source : Components, target : Components, generation : Nat]
PendingTyped == pending \in [DOMAIN pending -> MoveRecord]

\* A page moves: its owner and generation change, and it is the last used.
LEMMA MovedKeepsRefs ==
    ASSUME RefInv, NEW p \in Live, NEW c \in Components,
           page' = [page EXCEPT ![p].owner = c, ![p].generation = @ + 1],
           recency' = Touched(recency, <<p>>), UNCHANGED <<pageCounter, requests, prefixes>>
    PROVE  RefInv' /\ (RecencyLive => RecencyLive')
<1>1. PagesTyped /\ TablesTyped /\ page \in [Live -> PageRecord]
  BY DEF RefInv, PagesTyped
<1>2. page[p].generation + 1 \in Nat
  BY <1>1 DEF PageRecord
<1>3. /\ Live' = Live /\ page' \in [Live -> PageRecord]
      /\ \A q \in Live : /\ page'[q].bound = page[q].bound
                         /\ page'[q].refs = page[q].refs
                         /\ page'[q].keyed = page[q].keyed
  BY <1>1, <1>2 DEF PageRecord, Live
<1>4. ReferencesExact' /\ NoneTwice'
  BY <1>3, Untouched
<1>5. PagesTyped'
  BY <1>1, <1>3 DEF PagesTyped
<1>6. p \in Int
  BY <1>1 DEF PagesTyped
<1>7. <<p>> \in Seq(Int) /\ ToSet(<<p>>) \subseteq Live
  BY <1>6 DEF ToSet
<1>8. recency' \in Seq(Int)
  BY <1>1, <1>7, TouchedTyped
<1>9. RecencyLive => RecencyLive'
  BY <1>1, <1>3, <1>7, TouchKeepsRecency
<1> QED  BY <1>1, <1>4, <1>5, <1>8, <1>9 DEF RefInv, TablesTyped

\* Steps of the ledger and of the copies under way.
LEMMA LedgerKeepsRefs ==
    ASSUME RefInv, UNCHANGED <<page, recency, pageCounter, requests, prefixes>>
    PROVE  RefInv' /\ (RecencyLive => RecencyLive')
<1>1. ReferencesExact' /\ NoneTwice'
  BY Untouched DEF Live
<1>2. PagesTyped' /\ TablesTyped'
  BY DEF RefInv, PagesTyped, TablesTyped, Live
<1>3. RecencyLive => RecencyLive'
  BY DEF RecencyLive, Live
<1> QED  BY <1>1, <1>2, <1>3 DEF RefInv

PoolInv == RefInv /\ RecencyLive /\ PendingTyped

LEMMA PageStepKeepsRefs ==
    ASSUME PoolInv, NEW p \in Live, PageStep(p)
    PROVE  RefInv' /\ RecencyLive'
<1>1. RefInv /\ RecencyLive /\ PagesTyped /\ TablesTyped
  BY DEF PoolInv, RefInv
<1>2. CASE Unpin(p)
  <2>1. RefInv'
    BY <1>1, <1>2, UnpinKeepsRefs
  <2>2. RecencyLive'
    BY <1>1, <1>2, KeepKeepsRecency DEF Unpin, Live
  <2> QED  BY <2>1, <2>2
<1>3. ASSUME NEW c \in Components, MovePage(p, c)
      PROVE  RefInv' /\ RecencyLive'
  BY <1>1, <1>3, MovedKeepsRefs DEF MovePage, Move
<1>4. ASSUME NEW c \in Components, PrepareRestorePage(p, c)
      PROVE  RefInv' /\ RecencyLive'
  BY <1>1, <1>4, LedgerKeepsRefs DEF PrepareRestorePage
<1>5. CASE DropPreparedRestore(p)
  BY <1>1, <1>5, LedgerKeepsRefs DEF DropPreparedRestore
<1>6. CASE CompletePreparedRestore(p)
  <2>1. pending[p].target \in Components
    BY <1>6 DEF CompletePreparedRestore, IsPending, PoolInv, PendingTyped, MoveRecord
  <2> QED  BY <1>1, <1>6, <2>1, MovedKeepsRefs DEF CompletePreparedRestore
<1> QED  BY <1>2, <1>3, <1>4, <1>5, <1>6 DEF PageStep

LEMMA StepKeepsRefs ==
    ASSUME PoolInv, Next
    PROVE  RefInv' /\ RecencyLive'
<1>1. RefInv /\ RecencyLive /\ PagesTyped /\ TablesTyped
  BY DEF PoolInv, RefInv
<1>2. ASSUME NEW r \in Requests, NEW n \in 0 .. SizeLimit,
             NEW shared \in {<< >>} \union {prefixes[k] : k \in PrefixKeys}, NEW allowed,
             Resize(r, n, shared, allowed)
      PROVE  RefInv' /\ RecencyLive'
  BY <1>1, <1>2, ResizeKeepsRefs
<1>3. ASSUME NEW r \in Requests, Release(r)
      PROVE  RefInv' /\ RecencyLive'
  <2>1. RefInv'
    BY <1>1, <1>3, ReleaseKeepsRefs
  <2>2. RecencyLive'
    BY <1>1, <1>3, KeepKeepsRecency DEF Release, DropRefs
  <2> QED  BY <2>1, <2>2
<1>4. ASSUME NEW r \in Requests, NEW s \in Requests, HandoffRequest(r, s)
      PROVE  RefInv' /\ RecencyLive'
  <2>1. RefInv'
    BY <1>1, <1>4, HandoffKeepsRefs
  <2>2. RecencyLive'
    BY <1>1, <1>4 DEF HandoffRequest, RecencyLive, Live
  <2> QED  BY <2>1, <2>2
<1>5. ASSUME NEW r \in Requests, Touch(r)
      PROVE  RefInv' /\ RecencyLive'
  BY <1>1, <1>5, SameSizeKeepsRefs DEF Touch
<1>6. ASSUME NEW r \in Requests, NEW p \in Held(r), Pin(r, p)
      PROVE  RefInv' /\ RecencyLive'
  <2>1. RefInv'
    BY <1>1, <1>6, PinKeepsRefs
  <2>2. p \in Live /\ p \in Int
    <3>1. p \in Live
      BY <1>1, <1>6 DEF RefInv, ReferencesExact
    <3> QED  BY <1>1, <3>1 DEF PagesTyped
  <2>3. <<p>> \in Seq(Int) /\ ToSet(<<p>>) \subseteq Live
    BY <2>2 DEF ToSet
  <2>4. Live' = Live /\ recency' = Touched(recency, <<p>>)
    BY <1>6 DEF Pin, Live
  <2>5. RecencyLive'
    BY <1>1, <2>3, <2>4, TouchKeepsRecency
  <2> QED  BY <2>1, <2>5
<1>7. ASSUME NEW k \in PrefixKeys, NEW r \in Requests, NEW n \in 1 .. SizeLimit,
             RegisterPrefix(k, r, n)
      PROVE  RefInv' /\ RecencyLive'
  <2>1. RefInv'
    BY <1>1, <1>7, RegisterKeepsRefs
  <2> DEFINE ids == SubSeq(requests[r], 1, n)
  <2>2. requests[r] \in Seq(Int) /\ ToSet(requests[r]) \subseteq Live
    BY <1>1 DEF RefInv, ReferencesExact, TablesTyped, Held
  <2>3. n \in Nat /\ n <= Len(requests[r])
    <3>1. Len(requests[r]) \in Nat /\ n \in 1 .. Len(requests[r])
      BY <1>7, <2>2, LenProperties DEF RegisterPrefix
    <3> QED  BY <3>1
  <2>4. ids \in Seq(Int) /\ ToSet(ids) \subseteq Live
    BY <2>2, <2>3, PartRange
  <2>5. Live' = Live /\ recency' = Touched(recency, ids)
    BY <1>7 DEF RegisterPrefix, Live
  <2> HIDE DEF ids
  <2>6. RecencyLive'
    BY <1>1, <2>4, <2>5, TouchKeepsRecency
  <2> QED  BY <2>1, <2>6
<1>8. ASSUME NEW k \in PrefixKeys, ReleasePrefix(k)
      PROVE  RefInv' /\ RecencyLive'
  <2>1. RefInv'
    BY <1>1, <1>8, ReleasePrefixKeepsRefs
  <2>2. RecencyLive'
    BY <1>1, <1>8, KeepKeepsRecency DEF ReleasePrefix
  <2> QED  BY <2>1, <2>2
<1>9. ASSUME NEW allowed, NEW n \in 1 .. PageLimit, Evict(allowed, n)
      PROVE  RefInv' /\ RecencyLive'
  <2>1. RefInv'
    BY <1>1, <1>9, EvictKeepsRefs
  <2>2. RecencyLive'
    BY <1>1, <1>9, KeepKeepsRecency DEF Evict, Live
  <2> QED  BY <2>1, <2>2
<1>10. CASE SetTransferExecutor
  BY <1>1, <1>10, LedgerKeepsRefs DEF SetTransferExecutor
<1>11. ASSUME NEW p \in Live, PageStep(p)
       PROVE  RefInv' /\ RecencyLive'
  BY <1>11, PageStepKeepsRefs
<1>12. ASSUME NEW r \in Requests, RequestStep(r)
       PROVE  RefInv' /\ RecencyLive'
  BY <1>2, <1>3, <1>4, <1>5, <1>6, <1>12 DEF RequestStep
<1>13. ASSUME NEW k \in PrefixKeys, PrefixStep(k)
       PROVE  RefInv' /\ RecencyLive'
  BY <1>7, <1>8, <1>13 DEF PrefixStep
<1> QED  BY <1>9, <1>10, <1>11, <1>12, <1>13 DEF Next

\* The copies under way change when one is prepared or settled.
LEMMA PendingSteps ==
    ASSUME Next
    PROVE  \/ pending' = pending
           \/ \E p \in Live, c \in Components : PrepareRestorePage(p, c)
           \/ \E p \in Live : Settle(p)
<1>1. ASSUME NEW r \in Requests, RequestStep(r) PROVE pending' = pending
  <2>1. \A n, shared, allowed : Resize(r, n, shared, allowed) => pending' = pending
    <3>1. \A n, attached, allowed : Grow(r, n, attached, allowed) => pending' = pending
      BY DEF Grow
    <3>2. SameSize(r) => pending' = pending
      BY DEF SameSize
    <3>3. \A n : Shrink(r, n) => pending' = pending
      BY DEF Shrink
    <3> QED  BY <3>1, <3>2, <3>3 DEF Resize
  <2>2. Release(r) => pending' = pending
    BY DEF Release
  <2>3. \A s : HandoffRequest(r, s) => pending' = pending
    BY DEF HandoffRequest
  <2>4. Touch(r) => pending' = pending
    BY DEF Touch, SameSize
  <2>5. \A p : Pin(r, p) => pending' = pending
    BY DEF Pin
  <2> QED  BY <1>1, <2>1, <2>2, <2>3, <2>4, <2>5 DEF RequestStep
<1>2. ASSUME NEW k \in PrefixKeys, PrefixStep(k) PROVE pending' = pending
  BY <1>2 DEF PrefixStep, RegisterPrefix, ReleasePrefix
<1>3. ASSUME NEW p \in Live, PageStep(p)
      PROVE  \/ pending' = pending
             \/ \E c \in Components : PrepareRestorePage(p, c)
             \/ Settle(p)
  BY <1>3 DEF PageStep, Unpin, MovePage, Move, DropPreparedRestore, CompletePreparedRestore
<1>4. ASSUME NEW allowed, NEW n, Evict(allowed, n) PROVE pending' = pending
  BY <1>4 DEF Evict
<1>5. SetTransferExecutor => pending' = pending
  BY DEF SetTransferExecutor
<1> QED  BY <1>1, <1>2, <1>3, <1>4, <1>5 DEF Next

LEMMA StepKeepsPendingTyped ==
    ASSUME PoolInv, Next
    PROVE  PendingTyped'
<1>1. RefInv /\ PendingTyped /\ page \in [Live -> PageRecord]
  BY DEF PoolInv, RefInv, PagesTyped
<1>2. CASE pending' = pending
  BY <1>1, <1>2 DEF PendingTyped
<1>3. ASSUME NEW p \in Live, NEW c \in Components, PrepareRestorePage(p, c)
      PROVE  PendingTyped'
  <2> DEFINE move == [source |-> page[p].owner, target |-> c, generation |-> page[p].generation]
  <2>1. move \in MoveRecord
    BY <1>1 DEF PageRecord, MoveRecord
  <2>2. pending' = [q \in DOMAIN pending \union {p} |-> IF q = p THEN move ELSE pending[q]]
    BY <1>3 DEF PrepareRestorePage
  <2> HIDE DEF move
  <2> QED  BY <1>1, <2>1, <2>2 DEF PendingTyped
<1>4. ASSUME NEW p, Settle(p)
      PROVE  PendingTyped'
  BY <1>1, <1>4 DEF Settle, PendingTyped
<1> QED  BY <1>2, <1>3, <1>4, PendingSteps

LEMMA InitPool == Init => PoolInv
<1> SUFFICES ASSUME Init PROVE PoolInv
  OBVIOUS
<1>1. /\ page = << >> /\ requests = [r \in Requests |-> << >>]
      /\ prefixes = [k \in PrefixKeys |-> << >>]
      /\ pending = << >> /\ recency = << >> /\ pageCounter = 0
  BY DEF Init
<1>2. DOMAIN << >> = {} /\ << >> \in Seq(Int) /\ IsInjective(<< >>) /\ ToSet(<< >>) = {}
  BY DEF IsInjective, ToSet
<1>3. Live = {} /\ PagesTyped
  BY <1>1, <1>2 DEF Live, PagesTyped
<1>4. TablesTyped /\ NoneTwice /\ RecencyLive
  BY <1>1, <1>2 DEF TablesTyped, NoneTwice, RecencyLive
<1>5. ReferencesExact
  BY <1>1, <1>2, <1>3 DEF ReferencesExact, Held
<1>6. PendingTyped
  BY <1>1, <1>2 DEF PendingTyped
<1> QED  BY <1>3, <1>4, <1>5, <1>6 DEF PoolInv, RefInv

LEMMA PoolStep == PoolInv /\ [Next]_vars => PoolInv'
<1> SUFFICES ASSUME PoolInv, [Next]_vars PROVE PoolInv'
  OBVIOUS
<1>1. CASE Next
  BY <1>1, StepKeepsRefs, StepKeepsPendingTyped DEF PoolInv
<1>2. CASE UNCHANGED vars
  <2>1. RefInv' /\ RecencyLive'
    BY <1>2, LedgerKeepsRefs DEF PoolInv, vars, pageVars
  <2>2. PendingTyped'
    BY <1>2 DEF PoolInv, PendingTyped, vars, pageVars
  <2> QED  BY <2>1, <2>2 DEF PoolInv
<1> QED  BY <1>1, <1>2

LEMMA PoolAlways == Spec => []PoolInv
BY InitPool, PoolStep, PTL DEF Spec

\* The references of a page are the requests that hold it and the prefixes it is
\* registered under, and no table has a page that was freed (_drop_ref(),
\* _free_page() in kv_pool.py).
THEOREM PoolReferencesExact == Spec => []ReferencesExact
<1>1. PoolInv => ReferencesExact
  BY DEF PoolInv, RefInv
<1> QED  BY <1>1, PoolAlways, PTL

------------------------------------------------------------------------------
\* Copies under way, when a restore is prepared only for a page a request holds.

\* The page of a copy is where the copy started from, and some request holds it.
PendingHeld ==
    \A p \in DOMAIN pending :
        /\ p \in Live
        /\ page[p].owner = pending[p].source
        /\ page[p].generation = pending[p].generation
        /\ page[p].bound # {}

\* A step leaves page p where it is, with the requests that hold it.
Undisturbed(p) ==
    /\ p \in Live'
    /\ page'[p].owner = page[p].owner
    /\ page'[p].generation = page[p].generation
    /\ page[p].bound \subseteq page'[p].bound

LEMMA DropLeavesOthers ==
    ASSUME NEW r, NEW pages, DropRefs(pages, r), NEW p \in Live, p \notin pages
    PROVE  Undisturbed(p)
<1> DEFINE rec == [q \in Live |-> IF q \in pages
                                  THEN [page[q] EXCEPT !.refs = @ - 1, !.bound = @ \ {r}]
                                  ELSE page[q]]
<1>1. page' = [q \in DOMAIN rec \ LastUnpinned(pages) |-> rec[q]]
  BY DEF DropRefs, Keep
<1>2. DOMAIN rec = Live /\ rec[p] = page[p] /\ p \notin LastUnpinned(pages)
  BY DEF LastUnpinned
<1> HIDE DEF rec
<1>3. page'[p] = page[p] /\ p \in Live'
  BY <1>1, <1>2 DEF Live
<1> QED  BY <1>3 DEF Undisturbed

LEMMA RequestsLeaveCopies ==
    ASSUME PoolInv, PendingHeld, NEW r \in Requests, RequestStep(r),
           NEW p \in DOMAIN pending
    PROVE  Undisturbed(p)
<1>1. p \in Live /\ page \in [Live -> PageRecord] /\ page[p] \in PageRecord
  BY DEF PendingHeld, PoolInv, RefInv, PagesTyped
<1>2. ~InFlight(r) => p \notin Held(r)
  BY DEF InFlight, IsPending
<1>3. ASSUME page' = page PROVE Undisturbed(p)
  BY <1>1, <1>3 DEF Undisturbed, Live
<1>4. SameSize(r) => Undisturbed(p)
  BY <1>3 DEF SameSize
<1>5. ASSUME NEW n \in 0 .. SizeLimit, n < Len(requests[r]), Shrink(r, n), ~InFlight(r)
      PROVE  Undisturbed(p)
  <2> DEFINE removed == ToSet(SubSeq(requests[r], n + 1, Len(requests[r])))
  <2>1. DropRefs(removed, r)
    BY <1>5 DEF Shrink
  <2>2. requests[r] \in Seq(Int) /\ IsInjective(requests[r]) /\ SizeLimit \in Nat
    BY KVPoolAssumption DEF PoolInv, RefInv, TablesTyped, NoneTwice
  <2>3. n \in 0 .. Len(requests[r])
    <3>1. Len(requests[r]) \in Nat
      BY <2>2, LenProperties
    <3> QED  BY <1>5, <2>2, <3>1
  <2>4. removed \subseteq Held(r)
    BY <2>2, <2>3, SplitRange DEF Held
  <2> HIDE DEF removed
  <2> QED  BY <1>1, <1>2, <1>5, <2>1, <2>4, DropLeavesOthers
<1>6. ASSUME NEW n, NEW attached, NEW allowed, Grow(r, n, attached, allowed)
      PROVE  Undisturbed(p)
  <2> DEFINE missing == n - Len(requests[r]) - Len(attached)
             first == Len(requests[r]) + Len(attached)
  <2>1. PICK owners \in Placements(allowed, missing) :
          LET new == [i \in 1 .. Len(owners) |-> pageCounter + i - 1] IN
          \/ page' = [q \in Live \union ToSet(new) |->
                       IF q \in ToSet(new)
                       THEN [owner |-> owners[q - pageCounter + 1], refs |-> 1,
                             pinned |-> FALSE, keyed |-> FALSE, bound |-> {r},
                             generation |-> 0, start |-> first + q - pageCounter]
                       ELSE IF q \in ToSet(attached)
                       THEN [page[q] EXCEPT !.refs = @ + 1, !.bound = @ \union {r}]
                       ELSE page[q]]
          \/ page' = page
    BY <1>6 DEF Grow
  <2> DEFINE new == [i \in 1 .. Len(owners) |-> pageCounter + i - 1]
             more == [page[p] EXCEPT !.refs = @ + 1, !.bound = @ \union {r}]
  <2>2. CASE page' = page
    BY <1>3, <2>2
  <2>3. CASE page' # page
    <3>1. p \notin ToSet(new)
      <4>1. pageCounter \in Nat /\ p \in 0 .. pageCounter - 1
        BY <1>1 DEF PoolInv, RefInv, PagesTyped
      <4>2. Len(owners) \in Nat
        <5>1. PICK m \in 0 .. missing : owners \in [1 .. m -> Components]
          BY DEF Placements
        <5>2. owners \in Seq(Components)
          BY <5>1, SeqDef
        <5> QED  BY <5>2, LenProperties
      <4>3. \A i \in 1 .. Len(owners) : pageCounter + i - 1 # p
        BY <4>1, <4>2
      <4> QED  BY <4>3 DEF ToSet
    <3>2. /\ Live' = Live \union ToSet(new)
          /\ page'[p] = IF p \in ToSet(attached) THEN more ELSE page[p]
      <4> HIDE DEF new, more, missing, first
      <4>1. p \in Live \union ToSet(new)
        BY <1>1
      <4> QED  BY <2>1, <2>3, <3>1, <4>1 DEF Live, new, more, first
    <3>3. /\ more.owner = page[p].owner /\ more.generation = page[p].generation
          /\ more.bound = page[p].bound \union {r}
      BY <1>1 DEF PageRecord
    <3> HIDE DEF more
    <3> QED  BY <1>1, <3>2, <3>3 DEF Undisturbed
  <2> QED  BY <2>2, <2>3
<1>7. ASSUME NEW n \in 0 .. SizeLimit, NEW shared, NEW allowed, Resize(r, n, shared, allowed)
      PROVE  Undisturbed(p)
  <2>1. \/ SameSize(r)
        \/ n < Len(requests[r]) /\ Shrink(r, n) /\ ~InFlight(r)
        \/ \E attached : Grow(r, n, attached, allowed)
    BY <1>7 DEF Resize
  <2> QED  BY <1>4, <1>5, <1>6, <2>1
<1>8. Release(r) => Undisturbed(p)
  BY <1>1, <1>2, DropLeavesOthers DEF Release
<1>9. ASSUME NEW s, HandoffRequest(r, s) PROVE Undisturbed(p)
  <2>1. p \notin Held(r)
    BY <1>9 DEF HandoffRequest, IsPending
  <2>2. page' = [q \in Live |-> IF q \in Held(r)
                                THEN [page[q] EXCEPT !.bound = (@ \ {r}) \union {s}]
                                ELSE page[q]]
    BY <1>9 DEF HandoffRequest
  <2>3. Live' = Live /\ page'[p] = page[p]
    BY <1>1, <2>1, <2>2 DEF Live
  <2> QED  BY <1>1, <2>3 DEF Undisturbed
<1>10. Touch(r) => Undisturbed(p)
  BY <1>4 DEF Touch
<1>11. ASSUME NEW q, Pin(r, q) PROVE Undisturbed(p)
  <2>1. page' = [page EXCEPT ![q].pinned = TRUE]
    BY <1>11 DEF Pin
  <2>2. /\ Live' = Live /\ page'[p].owner = page[p].owner
        /\ page'[p].generation = page[p].generation /\ page'[p].bound = page[p].bound
    BY <1>1, <2>1 DEF Live, PageRecord
  <2> QED  BY <1>1, <2>2 DEF Undisturbed
<1> QED  BY <1>7, <1>8, <1>9, <1>10, <1>11 DEF RequestStep

\* A page kept as it is, but for its references to prefixes and its pin.
LEMMA KeptUndisturbed ==
    ASSUME NEW rec, DOMAIN rec = Live, NEW freed, Keep(rec, freed), NEW p \in Live, p \notin freed,
           rec[p].owner = page[p].owner, rec[p].generation = page[p].generation,
           rec[p].bound = page[p].bound
    PROVE  Undisturbed(p)
<1>1. p \in Live' /\ page'[p] = rec[p]
  BY DEF Keep, Live
<1> QED  BY <1>1 DEF Undisturbed

LEMMA OthersLeaveCopies ==
    ASSUME PoolInv, PendingHeld, Next, NEW p \in DOMAIN pending, p \in DOMAIN pending'
    PROVE  Undisturbed(p)
<1>1. p \in Live /\ page \in [Live -> PageRecord] /\ page[p] \in PageRecord /\ page[p].bound # {}
  BY DEF PendingHeld, PoolInv, RefInv, PagesTyped
<1>2. RefInv /\ RecencyLive /\ PagesTyped /\ TablesTyped /\ Holders(p) # {}
  <2>1. RefInv
    BY DEF PoolInv
  <2> QED  BY <1>1, <2>1, Counted DEF PoolInv, RefInv
<1>3. /\ page[p].refs = Cardinality(Holders(p)) + Cardinality(Keys(p))
      /\ Cardinality(Holders(p)) \in Nat \ {0} /\ Cardinality(Keys(p)) \in Nat
  BY <1>1, <1>2, Counted
<1>4. ASSUME page' = page PROVE Undisturbed(p)
  BY <1>1, <1>4 DEF Undisturbed, Live
<1>5. ASSUME NEW k \in PrefixKeys, NEW r \in Requests, NEW n, RegisterPrefix(k, r, n)
      PROVE  Undisturbed(p)
  <2> DEFINE ids == SubSeq(requests[r], 1, n)
             keyed == [page[p] EXCEPT !.refs = @ + 1, !.keyed = TRUE]
  <2>1. Live' = Live /\ page'[p] = IF p \in ToSet(ids) THEN keyed ELSE page[p]
    BY <1>1, <1>5 DEF RegisterPrefix, Live
  <2>2. /\ keyed.owner = page[p].owner /\ keyed.generation = page[p].generation
        /\ keyed.bound = page[p].bound
    BY <1>1 DEF PageRecord
  <2> HIDE DEF keyed
  <2> QED  BY <1>1, <2>1, <2>2 DEF Undisturbed
<1>6. ASSUME NEW k \in PrefixKeys, ReleasePrefix(k)
      PROVE  Undisturbed(p)
  <2> DEFINE ids == ToSet(prefixes[k])
             freed == LastUnpinned(ids)
             others(q) == \E other \in PrefixKeys \ {k} : q \in ToSet(prefixes[other])
             less(q) == [page[q] EXCEPT !.refs = @ - 1, !.keyed = others(q)]
             rec == [q \in Live |-> IF q \in ids THEN less(q) ELSE page[q]]
  <2>1. Keep(rec, freed) /\ DOMAIN rec = Live
    BY <1>6 DEF ReleasePrefix
  <2>2. p \notin freed
    <3> SUFFICES ASSUME p \in ids, page[p].refs = 1 PROVE FALSE
      BY DEF LastUnpinned
    <3>1. k \in Keys(p)
      BY DEF Keys
    <3>2. Cardinality(Keys(p)) # 0
      BY <1>1, <1>2, <3>1, Counted
    <3> QED  BY <1>3, <3>2
  <2>3. /\ less(p).owner = page[p].owner /\ less(p).generation = page[p].generation
        /\ less(p).bound = page[p].bound
    BY <1>1 DEF PageRecord
  <2> HIDE DEF less
  <2>4. /\ rec[p].owner = page[p].owner /\ rec[p].generation = page[p].generation
        /\ rec[p].bound = page[p].bound
    BY <1>1, <2>3
  <2> HIDE DEF rec, freed
  <2> QED  BY <1>1, <2>1, <2>2, <2>4, KeptUndisturbed
<1>7. ASSUME NEW q \in Live, Unpin(q)
      PROVE  Undisturbed(p)
  <2> DEFINE freed == {x \in {q} : page[x].refs = 0}
             rec == [page EXCEPT ![q].pinned = FALSE]
  <2>1. Keep(rec, freed)
    BY <1>7 DEF Unpin
  <2>2. p \notin freed
    BY <1>3
  <2>3. /\ DOMAIN rec = Live /\ rec[p].owner = page[p].owner
        /\ rec[p].generation = page[p].generation /\ rec[p].bound = page[p].bound
    BY <1>1 DEF PageRecord, Live
  <2> HIDE DEF rec, freed
  <2> QED  BY <1>1, <2>1, <2>2, <2>3, KeptUndisturbed
<1>8. ASSUME NEW q \in Live, NEW c, MovePage(q, c)
      PROVE  Undisturbed(p)
  <2>1. q # p
    BY <1>8 DEF MovePage, Movable, IsPending
  <2>2. page' = [page EXCEPT ![q].owner = c, ![q].generation = @ + 1]
    BY <1>8 DEF MovePage, Move
  <2>3. Live' = Live /\ page'[p] = page[p]
    BY <1>1, <2>1, <2>2 DEF Live
  <2> QED  BY <1>1, <2>3 DEF Undisturbed
<1>9. ASSUME NEW q, CompletePreparedRestore(q)
      PROVE  Undisturbed(p)
  <2>1. q # p
    BY <1>9 DEF CompletePreparedRestore, Settle
  <2>2. page' = [page EXCEPT ![q].owner = pending[q].target, ![q].generation = @ + 1]
    BY <1>9 DEF CompletePreparedRestore
  <2>3. Live' = Live /\ page'[p] = page[p]
    BY <1>1, <2>1, <2>2 DEF Live
  <2> QED  BY <1>1, <2>3 DEF Undisturbed
<1>10. ASSUME NEW allowed, NEW n \in 1 .. PageLimit, Evict(allowed, n)
       PROVE  Undisturbed(p)
  <2> DEFINE evictable(q) == /\ page[q].refs = 1
                             /\ ~page[q].pinned
                             /\ page[q].bound = {}
                             /\ page[q].owner \in allowed
             others == {q \in Live : ~evictable(q)}
             oldest == Without(recency, others)
             freed == ToSet(SubSeq(oldest, 1, n))
  <2>1. Keep(page, freed) /\ n <= Len(oldest)
    BY <1>10 DEF Evict
  <2>2. oldest \in Seq(Int) /\ ToSet(oldest) = ToSet(recency) \ others
    <3> HIDE DEF others
    <3> QED  BY <1>2, WithoutProperties DEF TablesTyped
  <2>3. freed \subseteq ToSet(oldest)
    <3>1. n \in Nat
      BY KVPoolAssumption
    <3> HIDE DEF oldest
    <3> QED  BY <2>1, <2>2, <3>1, PartRange
  <2>4. p \notin freed
    <3>1. p \in others
      BY <1>1
    <3> HIDE DEF freed, oldest, others
    <3> QED  BY <2>2, <2>3, <3>1
  <2> HIDE DEF freed
  <2> QED  BY <1>1, <2>1, <2>4, KeptUndisturbed DEF Live
<1>11. ASSUME NEW q \in Live, PageStep(q)
       PROVE  Undisturbed(p)
  <2>1. \A c : PrepareRestorePage(q, c) => page' = page
    BY DEF PrepareRestorePage
  <2>2. DropPreparedRestore(q) => page' = page
    BY DEF DropPreparedRestore
  <2> QED  BY <1>4, <1>7, <1>8, <1>9, <1>11, <2>1, <2>2 DEF PageStep
<1>12. SetTransferExecutor => Undisturbed(p)
  BY <1>4 DEF SetTransferExecutor
<1>13. ASSUME NEW r \in Requests, RequestStep(r)
       PROVE  Undisturbed(p)
  BY <1>13, RequestsLeaveCopies
<1>14. ASSUME NEW k \in PrefixKeys, PrefixStep(k)
       PROVE  Undisturbed(p)
  BY <1>5, <1>6, <1>14 DEF PrefixStep
<1> QED  BY <1>10, <1>11, <1>12, <1>13, <1>14 DEF Next

LEMMA PendingHeldStep ==
    ASSUME ~PrepareShared
    PROVE  PoolInv /\ PendingHeld /\ [Next]_vars => PendingHeld'
<1> SUFFICES ASSUME PoolInv, PendingHeld, [Next]_vars PROVE PendingHeld'
  OBVIOUS
<1>1. CASE UNCHANGED vars
  BY <1>1 DEF PendingHeld, Live, vars, pageVars
<1>2. CASE Next
  <2>1. ASSUME NEW p \in DOMAIN pending, p \in DOMAIN pending', pending'[p] = pending[p]
        PROVE  /\ p \in Live' /\ page'[p].bound # {}
               /\ page'[p].owner = pending'[p].source
               /\ page'[p].generation = pending'[p].generation
    <3>1. Undisturbed(p)
      BY <1>2, <2>1, OthersLeaveCopies
    <3> QED  BY <2>1, <3>1 DEF PendingHeld, Undisturbed
  <2>2. CASE pending' = pending
    BY <2>1, <2>2 DEF PendingHeld
  <2>3. ASSUME NEW q \in Live, NEW c \in Components, PrepareRestorePage(q, c)
        PROVE  PendingHeld'
    <3>1. /\ page' = page /\ page[q].bound # {}
          /\ pending' = [x \in DOMAIN pending \union {q} |->
                           IF x = q THEN [source |-> page[q].owner, target |-> c,
                                          generation |-> page[q].generation]
                           ELSE pending[x]]
      BY <2>3 DEF PrepareRestorePage
    <3>2. /\ pending'[q].source = page[q].owner
          /\ pending'[q].generation = page[q].generation
      BY <3>1
    <3>3. DOMAIN pending' = DOMAIN pending \union {q}
      BY <3>1
    <3>4. \A x \in DOMAIN pending \ {q} : pending'[x] = pending[x]
      BY <3>1
    <3> QED  BY <2>1, <3>1, <3>2, <3>3, <3>4 DEF PendingHeld, Live
  <2>4. ASSUME NEW q, Settle(q)
        PROVE  PendingHeld'
    <3>1. /\ DOMAIN pending' = DOMAIN pending \ {q}
          /\ \A x \in DOMAIN pending' : pending'[x] = pending[x]
      BY <2>4 DEF Settle
    <3> QED  BY <2>1, <3>1 DEF PendingHeld
  <2> QED  BY <1>2, <2>2, <2>3, <2>4, PendingSteps
<1> QED  BY <1>1, <1>2

LEMMA PendingHeldAlways ==
    ASSUME ~PrepareShared
    PROVE  Spec => [](PoolInv /\ PendingHeld)
<1>1. Init => PoolInv /\ PendingHeld
  BY InitPool DEF Init, PendingHeld
<1>2. PoolInv /\ PendingHeld /\ [Next]_vars => (PoolInv /\ PendingHeld)'
  BY PoolStep, PendingHeldStep
<1> QED  BY <1>1, <1>2, PTL DEF Spec

\* The source of a prepared restore stays where the copy started from until it is
\* completed or dropped (_pending_moves, prepare_restore_page() in kv_pool.py).
THEOREM PoolPendingSourceLive ==
    ASSUME ~PrepareShared
    PROVE  Spec => []PendingSourceLive
<1>1. PoolInv /\ PendingHeld => PendingSourceLive
  BY DEF PendingHeld, PendingSourceLive
<1> QED  BY <1>1, PendingHeldAlways, PTL

\* No step moves a page under its copy or takes it from a request that holds it
\* (the checks of _pending_moves in resize_detailed(), release() and
\* handoff_request(), and the last reference in _drop_ref(), evict() and unpin()).
THEOREM PoolInFlightUndisturbed ==
    ASSUME ~PrepareShared
    PROVE  Spec => InFlightUndisturbed
<1> DEFINE Kept == \A p \in DOMAIN pending \cap DOMAIN pending' :
                     p \in Live => /\ p \in DOMAIN page'
                                   /\ page'[p].owner = page[p].owner
                                   /\ page[p].bound \subseteq page'[p].bound
<1>1. PoolInv /\ PendingHeld /\ [Next]_vars => [Kept]_vars
  <2> SUFFICES ASSUME PoolInv, PendingHeld, Next PROVE Kept
    OBVIOUS
  <2>1. \A p \in DOMAIN pending \cap DOMAIN pending' : Undisturbed(p)
    BY OthersLeaveCopies
  <2> QED  BY <2>1 DEF Undisturbed, Live
<1> HIDE DEF Kept
<1>2. Spec => [][Kept]_vars
  BY <1>1, PendingHeldAlways, PTL DEF Spec
<1> QED  BY <1>2 DEF InFlightUndisturbed, Kept

------------------------------------------------------------------------------
\* The ledger.

Reserved(c) == Cardinality({p \in DOMAIN pending : pending[p].target = c})

\* What LedgerConserved says of one component.
Balance(c) == /\ owned[c] = Footprint(c) * OnComponent(c)
              /\ used[c] = owned[c] + Footprint(c) * Reserved(c)
              /\ used[c] <= Capacity[c]

LedgerTyped == /\ used \in [Components -> Int] /\ owned \in [Components -> Int]
               /\ IsFiniteSet(DOMAIN pending)

LedgerInv == LedgerTyped /\ \A c \in Components : Balance(c)

LEMMA Scaled ==
    ASSUME NEW f \in Int, NEW a \in Int, NEW b \in Int
    PROVE  /\ f * a \in Int /\ f * (a + b) = f * a + f * b
           /\ f * 0 = 0 /\ f * 1 = f /\ f * (-1) = -f
           /\ f * (a - b) = f * a - f * b
           /\ 0 <= f /\ 0 <= a => 0 <= f * a
<1>1. /\ f * a \in Int /\ f * (a + b) = f * a + f * b
      /\ f * 0 = 0 /\ f * 1 = f /\ f * (-1) = -f
  OBVIOUS
<1>2. f * (a - b) = f * a - f * b
  OBVIOUS
<1>3. 0 <= f /\ 0 <= a => 0 <= f * a
  OBVIOUS
<1> QED  BY <1>1, <1>2, <1>3

LEMMA Sizes ==
    ASSUME NEW c \in Components
    PROVE  Footprint(c) \in Nat \ {0} /\ Capacity[c] \in Nat
BY KVPoolAssumption DEF Footprint

LEMMA Counts ==
    ASSUME PagesTyped, LedgerTyped, NEW c
    PROVE  /\ IsFiniteSet(Live)
           /\ IsFiniteSet({p \in Live : page[p].owner = c}) /\ OnComponent(c) \in Nat
           /\ IsFiniteSet({p \in DOMAIN pending : pending[p].target = c}) /\ Reserved(c) \in Nat
<1>1. IsFiniteSet(Live)
  <2>1. IsFiniteSet(0 .. pageCounter - 1)
    <3>1. 0 \in Int /\ pageCounter - 1 \in Int
      BY DEF PagesTyped
    <3> QED  BY <3>1, FS_Interval
  <2> QED  BY <2>1, FS_Subset DEF PagesTyped
<1>2. IsFiniteSet({p \in Live : page[p].owner = c})
  BY <1>1, FS_Subset
<1>3. IsFiniteSet({p \in DOMAIN pending : pending[p].target = c})
  <2>1. {p \in DOMAIN pending : pending[p].target = c} \in SUBSET DOMAIN pending
    OBVIOUS
  <2> QED  BY <2>1, FS_Subset DEF LedgerTyped
<1> QED  BY <1>1, <1>2, <1>3, FS_CardinalityType DEF OnComponent, Reserved

\* A component with `on` more pages and `to` more copies on their way to it.
LEMMA Balanced ==
    ASSUME PagesTyped, LedgerInv, NEW c \in Components, NEW on \in Int, NEW to \in Int,
           executor' = executor,
           OnComponent(c)' = OnComponent(c) + on, Reserved(c)' = Reserved(c) + to,
           owned'[c] = owned[c] + Footprint(c) * on,
           used'[c] = used[c] + Footprint(c) * (on + to), used'[c] <= Capacity[c]
    PROVE  Balance(c)'
<1> DEFINE f == Footprint(c)
<1>1. f \in Int /\ OnComponent(c) \in Int /\ Reserved(c) \in Int /\ Footprint(c)' = f
  <2>1. Footprint(c) \in Int
    BY Sizes
  <2>2. OnComponent(c) \in Nat /\ Reserved(c) \in Nat
    BY Counts DEF LedgerInv
  <2>3. Footprint(c)' = Footprint(c)
    BY DEF Footprint
  <2> QED  BY <2>1, <2>2, <2>3
<1>2. /\ owned[c] = f * OnComponent(c) /\ owned[c] \in Int
      /\ used[c] = owned[c] + f * Reserved(c)
  BY DEF LedgerInv, LedgerTyped, Balance
<1>3. /\ owned'[c] = owned[c] + f * on
      /\ used'[c] = used[c] + f * (on + to)
  OBVIOUS
<1> HIDE DEF f
<1>4. /\ f * (OnComponent(c) + on) = f * OnComponent(c) + f * on
      /\ f * (Reserved(c) + to) = f * Reserved(c) + f * to
      /\ f * (on + to) = f * on + f * to
      /\ f * OnComponent(c) \in Int /\ f * on \in Int /\ f * to \in Int /\ f * Reserved(c) \in Int
  BY <1>1, Scaled
<1>5. owned'[c] = f * (OnComponent(c) + on)
  BY <1>2, <1>3, <1>4
<1>6. used'[c] = owned'[c] + f * (Reserved(c) + to)
  BY <1>2, <1>3, <1>4
<1> QED  BY <1>1, <1>5, <1>6 DEF Balance

\* Pages of `freed` are given back; the others stay on their components.
LEMMA KeepKeepsLedger ==
    ASSUME PagesTyped, LedgerInv, NEW rec, DOMAIN rec = Live,
           \A p \in Live : rec[p].owner = page[p].owner,
           NEW freed \in SUBSET Live, Keep(rec, freed), UNCHANGED <<pending, executor>>
    PROVE  LedgerInv'
<1>1. LedgerTyped
  BY DEF LedgerInv
<1>2. ASSUME NEW c \in Components
      PROVE  /\ Balance(c)' /\ used[c] - Bytes(c, freed, rec) \in Int
             /\ owned[c] - Bytes(c, freed, rec) \in Int
  <2> DEFINE on == {p \in Live : page[p].owner = c}
             gone == {p \in freed : rec[p].owner = c}
             f == Footprint(c)
             n == Cardinality(gone)
  <2>1. gone \subseteq on /\ {p \in Live' : page'[p].owner = c} = on \ gone
    BY DEF Keep, Live
  <2>2. IsFiniteSet(on) /\ OnComponent(c) \in Nat /\ Reserved(c) \in Nat
    BY <1>1, Counts
  <2>3. IsFiniteSet(gone) /\ n \in Nat
    BY <2>1, <2>2, FS_Subset, FS_CardinalityType
  <2>4. OnComponent(c)' = OnComponent(c) - n
    <3>1. on \cap gone = gone
      BY <2>1
    <3> HIDE DEF on, gone
    <3>2. Cardinality(on \ gone) = Cardinality(on) - Cardinality(gone)
      BY <2>2, <3>1, FS_Difference
    <3> QED  BY <2>1, <3>2 DEF OnComponent, on
  <2>5. Reserved(c)' = Reserved(c) + 0
    BY <2>2 DEF Reserved
  <2>6. used[c] \in Int /\ owned[c] \in Int /\ used[c] <= Capacity[c]
    BY DEF LedgerInv, LedgerTyped, Balance
  <2>7. f \in Nat \ {0} /\ Capacity[c] \in Nat
    BY Sizes
  <2>8. Bytes(c, freed, rec) = f * n
    BY DEF Bytes
  <2>9. used'[c] = used[c] - f * n /\ owned'[c] = owned[c] - f * n
    BY <2>8 DEF Keep
  <2> HIDE DEF f, n
  <2>10. f * n \in Int /\ 0 <= f * n /\ f * (0 - n) = f * 0 - f * n /\ f * 0 = 0
    BY <2>3, <2>7, Scaled
  <2>11. /\ owned'[c] = owned[c] + f * (0 - n)
         /\ used'[c] = used[c] + f * ((0 - n) + 0)
         /\ used'[c] <= Capacity[c]
    BY <2>3, <2>6, <2>7, <2>9, <2>10
  <2>12. OnComponent(c)' = OnComponent(c) + (0 - n) /\ 0 - n \in Int
    BY <2>2, <2>3, <2>4
  <2>13. Balance(c)'
    BY <2>5, <2>11, <2>12, Balanced DEF f
  <2> QED  BY <2>6, <2>8, <2>10, <2>13
<1>3. LedgerTyped'
  BY <1>1, <1>2 DEF LedgerTyped, Keep
<1> QED  BY <1>2, <1>3 DEF LedgerInv

\* Steps that leave the pages where they are and the ledger alone.
LEMMA SameLedger ==
    ASSUME LedgerInv, UNCHANGED <<used, owned, pending, executor>>, Live' = Live,
           \A p \in Live : page'[p].owner = page[p].owner
    PROVE  LedgerInv'
<1>1. \A c : OnComponent(c)' = OnComponent(c) /\ Reserved(c)' = Reserved(c)
  BY DEF OnComponent, Reserved
<1>2. \A c : Footprint(c)' = Footprint(c)
  BY DEF Footprint
<1> QED  BY <1>1, <1>2 DEF LedgerInv, LedgerTyped, Balance

\* resize() to more pages: each new page is charged where it was placed, and was
\* placed where there was room for it after those before it.
LEMMA PlacedWithin ==
    ASSUME LedgerInv, NEW c \in Components, NEW allowed, NEW m \in Nat,
           NEW owners \in Placements(allowed, m)
    PROVE  LET mine == {i \in DOMAIN owners : owners[i] = c}
           IN  /\ IsFiniteSet(mine) /\ Cardinality(mine) \in Nat
               /\ used[c] + Footprint(c) * Cardinality(mine) <= Capacity[c]
<1> DEFINE mine == {i \in DOMAIN owners : owners[i] = c}
           N == Cardinality(mine)
           f == Footprint(c)
<1>1. owners \in Seq(Components) /\ Len(owners) \in Nat /\ DOMAIN owners = 1 .. Len(owners)
  <2>1. PICK k \in 0 .. m : owners \in [1 .. k -> Components]
    BY DEF Placements
  <2>2. owners \in Seq(Components)
    BY <2>1, SeqDef
  <2> QED  BY <2>2, LenProperties
<1>2. mine \in SUBSET (1 .. Len(owners))
  BY <1>1
<1>3. /\ f \in Nat \ {0} /\ Capacity[c] \in Nat /\ used[c] \in Int
      /\ used[c] <= Capacity[c]
  BY Sizes DEF LedgerInv, LedgerTyped, Balance
<1> DEFINE rank == [i \in mine |-> Cardinality({j \in mine : j <= i})]
<1>4. IsFiniteSet(mine) /\ N \in Nat /\ rank \in Bijection(mine, 1 .. N)
  <2> HIDE DEF mine
  <2> QED  BY <1>1, <1>2, Ranks
<1>5. CASE N = 0
  <2> HIDE DEF f, N, mine
  <2>1. f * 0 = 0
    BY <1>3, Scaled
  <2> QED  BY <1>3, <1>4, <1>5, <2>1 DEF f, N, mine
<1>6. CASE N # 0
  <2>1. PICK k \in mine : rank[k] = N
    <3> HIDE DEF rank, mine, N
    <3>1. N \in 1 .. N
      BY <1>4, <1>6
    <3> QED  BY <1>4, <3>1 DEF Bijection, Surjection
  <2> DEFINE upTo == {j \in mine : j <= k}
             taken == SubSeq(owners, 1, k - 1)
             before == {i \in DOMAIN taken : taken[i] = c}
  <2>2. upTo = mine
    <3>1. upTo \in SUBSET mine /\ Cardinality(upTo) = N
      BY <2>1
    <3> HIDE DEF upTo, mine
    <3> QED  BY <1>4, <3>1, FS_Subset DEF N
  <2>3. k \in 1 .. Len(owners) /\ k - 1 \in 0 .. Len(owners) /\ owners[k] = c
    BY <1>1, <1>2
  <2>4. DOMAIN taken = 1 .. k - 1 /\ \A i \in 1 .. k - 1 : taken[i] = owners[i]
    <3>1. /\ taken \in Seq(Components) /\ Len(taken) = k - 1
          /\ \A i \in 1 .. k - 1 : taken[i] = owners[i]
      BY <1>1, <2>3, SubSeqProperties, 1 \in Int, k - 1 \in Int
    <3> HIDE DEF taken
    <3> QED  BY <3>1, LenProperties
  <2>5. before = mine \ {k}
    <3>1. before \subseteq mine \ {k}
      <4> SUFFICES ASSUME NEW i \in before PROVE i \in mine /\ i # k
        OBVIOUS
      <4>1. i \in 1 .. k - 1 /\ owners[i] = c
        BY <2>4
      <4>2. i \in 1 .. Len(owners) /\ i # k
        BY <1>1, <2>3, <4>1
      <4> QED  BY <1>1, <4>1, <4>2
    <3>2. mine \ {k} \subseteq before
      <4> SUFFICES ASSUME NEW i \in mine, i # k PROVE i \in before
        OBVIOUS
      <4>1. i \in 1 .. Len(owners) /\ owners[i] = c /\ i <= k
        BY <1>2, <2>2
      <4>2. i \in 1 .. k - 1
        BY <1>1, <2>3, <4>1
      <4> QED  BY <2>4, <4>1, <4>2
    <3> QED  BY <3>1, <3>2
  <2>6. Cardinality(before) = N - 1
    <3> HIDE DEF before, mine
    <3> QED  BY <1>4, <2>1, <2>5, FS_RemoveElement DEF N
  <2>7. Free(c, taken) >= f
    BY <1>1, <2>3 DEF Placements, Freest, Roomy
  <2>8. Free(c, taken) = Capacity[c] - used[c] - f * (N - 1)
    BY <2>6 DEF Free, Taken
  <2> HIDE DEF f, N, taken, before
  <2>9. f * (N - 1) = f * N - f * 1 /\ f * 1 = f /\ f * N \in Int
    BY <1>3, <1>4, Scaled
  <2>10. used[c] + f * N <= Capacity[c]
    BY <1>3, <2>7, <2>8, <2>9
  <2> QED  BY <1>4, <2>10 DEF f, N
<1> QED  BY <1>5, <1>6

LEMMA GrowKeepsLedger ==
    ASSUME PagesTyped, LedgerInv, NEW r \in Requests, NEW n \in Nat, NEW attached, NEW allowed,
           n - Len(requests[r]) - Len(attached) \in Nat,
           Grow(r, n, attached, allowed)
    PROVE  LedgerInv'
<1> DEFINE missing == n - Len(requests[r]) - Len(attached)
           first == Len(requests[r]) + Len(attached)
<1>1. LedgerTyped
  BY DEF LedgerInv
<1>2. PICK owners \in Placements(allowed, missing) :
        LET new == [i \in 1 .. Len(owners) |-> pageCounter + i - 1] IN
        /\ \/ /\ page' = [p \in Live \union ToSet(new) |->
                            IF p \in ToSet(new)
                            THEN [owner |-> owners[p - pageCounter + 1], refs |-> 1,
                                  pinned |-> FALSE, keyed |-> FALSE, bound |-> {r},
                                  generation |-> 0, start |-> first + p - pageCounter]
                            ELSE IF p \in ToSet(attached)
                            THEN [page[p] EXCEPT !.refs = @ + 1, !.bound = @ \union {r}]
                            ELSE page[p]]
              /\ used' = [c \in Components |-> used[c] + Taken(c, owners)]
              /\ owned' = [c \in Components |-> owned[c] + Taken(c, owners)]
           \/ UNCHANGED <<page, used, owned>>
        /\ UNCHANGED <<pending, executor>>
  BY DEF Grow
<1> HIDE DEF missing
<1>3. CASE UNCHANGED <<page, used, owned>>
  BY <1>2, <1>3, SameLedger DEF Live
<1>4. CASE ~UNCHANGED <<page, used, owned>>
  <2> DEFINE new == [i \in 1 .. Len(owners) |-> pageCounter + i - 1]
  <2>1. Len(owners) \in Nat /\ DOMAIN owners = 1 .. Len(owners)
    <3>1. PICK m \in 0 .. missing : owners \in [1 .. m -> Components]
      BY DEF Placements
    <3>2. owners \in Seq(Components)
      BY <3>1, SeqDef
    <3> QED  BY <3>2, LenProperties
  <2>2. pending' = pending /\ executor' = executor
    BY <1>2
  <2>3. /\ \A p \in ToSet(new) : p \in Int /\ p >= pageCounter
                                /\ p - pageCounter + 1 \in 1 .. Len(owners)
        /\ \A i \in 1 .. Len(owners) : /\ pageCounter + i - 1 \in ToSet(new)
                                       /\ pageCounter + i - 1 - pageCounter + 1 = i
        /\ pageCounter \in Int
    <3>1. pageCounter \in Int /\ ToSet(new) = {pageCounter + i - 1 : i \in 1 .. Len(owners)}
      BY DEF PagesTyped, ToSet
    <3> QED  BY <2>1, <3>1
  <2>4. Live \cap ToSet(new) = {}
    <3> SUFFICES ASSUME NEW p \in Live, p \in ToSet(new) PROVE FALSE
      OBVIOUS
    <3>1. p \in 0 .. pageCounter - 1 /\ p >= pageCounter
      BY <2>3 DEF PagesTyped
    <3> QED  BY <2>3, <3>1
  <2>5. /\ Live' = Live \union ToSet(new)
        /\ \A p \in Live : page'[p].owner = page[p].owner
        /\ \A p \in ToSet(new) : page'[p].owner = owners[p - pageCounter + 1]
    <3> HIDE DEF new
    <3>1. page' = [p \in Live \union ToSet(new) |->
                      IF p \in ToSet(new)
                      THEN [owner |-> owners[p - pageCounter + 1], refs |-> 1,
                            pinned |-> FALSE, keyed |-> FALSE, bound |-> {r},
                            generation |-> 0, start |-> first + p - pageCounter]
                      ELSE IF p \in ToSet(attached)
                      THEN [page[p] EXCEPT !.refs = @ + 1, !.bound = @ \union {r}]
                      ELSE page[p]]
      BY <1>2, <1>4 DEF new
    <3>2. Live' = Live \union ToSet(new)
      BY <3>1 DEF Live
    <3>3. ASSUME NEW p \in Live PROVE page'[p].owner = page[p].owner
      <4>1. page[p] \in PageRecord
        BY DEF PagesTyped
      <4>2. CASE p \in ToSet(attached)
        <5>1. page'[p] = [page[p] EXCEPT !.refs = @ + 1, !.bound = @ \union {r}]
          BY <2>4, <3>1, <4>2
        <5> QED  BY <4>1, <5>1 DEF PageRecord
      <4>3. CASE p \notin ToSet(attached)
        BY <2>4, <3>1, <4>3
      <4> QED  BY <4>2, <4>3
    <3>4. ASSUME NEW p \in ToSet(new) PROVE page'[p].owner = owners[p - pageCounter + 1]
      <4>1. page'[p] = [owner |-> owners[p - pageCounter + 1], refs |-> 1,
                        pinned |-> FALSE, keyed |-> FALSE, bound |-> {r},
                        generation |-> 0, start |-> first + p - pageCounter]
        BY <3>1
      <4> QED  BY <4>1
    <3> QED  BY <3>2, <3>3, <3>4
  <2>6. ASSUME NEW c \in Components
        PROVE  /\ Balance(c)' /\ used[c] + Taken(c, owners) \in Int
               /\ owned[c] + Taken(c, owners) \in Int
    <3> DEFINE mine == {i \in DOMAIN owners : owners[i] = c}
               m == Cardinality(mine)
               on == {p \in Live : page[p].owner = c}
               added == {p \in ToSet(new) : owners[p - pageCounter + 1] = c}
               f == Footprint(c)
    <3>1. /\ IsFiniteSet(mine) /\ m \in Nat
          /\ used[c] + f * m <= Capacity[c]
      BY PlacedWithin DEF missing
    <3>2. IsFiniteSet(added) /\ Cardinality(added) = m
      <4> DEFINE at == [i \in mine |-> pageCounter + i - 1]
      <4>1. at \in Bijection(mine, added)
        <5> HIDE DEF new
        <5>1. \A i \in mine : at[i] \in added
          BY <2>1, <2>3
        <5>2. \A i, j \in mine : at[i] = at[j] => i = j
          <6> SUFFICES ASSUME NEW i \in mine, NEW j \in mine, at[i] = at[j] PROVE i = j
            OBVIOUS
          <6>1. i \in Int /\ j \in Int /\ pageCounter + i - 1 = pageCounter + j - 1
            BY <2>1
          <6> QED  BY <2>3, <6>1
        <5>3. \A p \in added : p - pageCounter + 1 \in mine /\ at[p - pageCounter + 1] = p
          <6> SUFFICES ASSUME NEW p \in added
                       PROVE  p - pageCounter + 1 \in mine /\ at[p - pageCounter + 1] = p
            OBVIOUS
          <6>1. p - pageCounter + 1 \in mine /\ p \in Int
            BY <2>1, <2>3
          <6>2. pageCounter + (p - pageCounter + 1) - 1 = p
            BY <2>3, <6>1
          <6> QED  BY <6>1, <6>2
        <5> HIDE DEF mine, added
        <5>4. at \in [mine -> added]
          BY <5>1
        <5> HIDE DEF at
        <5> QED  BY <5>2, <5>3, <5>4 DEF Bijection, Injection, Surjection, IsInjective
      <4> HIDE DEF mine, added, at
      <4>2. ExistsBijection(mine, added)
        BY <4>1 DEF ExistsBijection
      <4> QED  BY <3>1, <4>2, FS_Bijection DEF m
    <3>3. {p \in Live' : page'[p].owner = c} = on \union added /\ on \cap added = {}
      <4> HIDE DEF new
      <4> QED  BY <2>4, <2>5
    <3>4. IsFiniteSet(on) /\ OnComponent(c) \in Nat /\ Reserved(c) \in Nat
      BY <1>1, Counts
    <3>5. OnComponent(c)' = OnComponent(c) + m
      <4>1. Cardinality({}) = 0
        BY FS_EmptySet
      <4>2. OnComponent(c) = Cardinality(on)
        BY DEF OnComponent
      <4>3. OnComponent(c)' = Cardinality(on \union added)
        BY <3>3 DEF OnComponent
      <4> HIDE DEF on, added, m
      <4>4. Cardinality(on \union added) = Cardinality(on) + Cardinality(added) - Cardinality({})
        BY <3>2, <3>3, <3>4, FS_Union
      <4> QED  BY <3>1, <3>2, <3>4, <4>1, <4>2, <4>3, <4>4
    <3>6. Reserved(c)' = Reserved(c) + 0
      <4>1. Reserved(c)' = Reserved(c)
        BY <2>2 DEF Reserved
      <4> QED  BY <3>4, <4>1
    <3>7. Taken(c, owners) = f * m
      BY DEF Taken
    <3>8. used'[c] = used[c] + f * m /\ owned'[c] = owned[c] + f * m
      BY <1>2, <1>4, <3>7
    <3>9. used[c] \in Int /\ owned[c] \in Int /\ f \in Int
      BY Sizes DEF LedgerInv, LedgerTyped
    <3> HIDE DEF f, m
    <3>10. f * m \in Int /\ m + 0 = m
      BY <3>1, <3>9, Scaled
    <3>11. used'[c] <= Capacity[c] /\ used'[c] = used[c] + f * (m + 0)
      BY <3>1, <3>8, <3>10
    <3>12. Balance(c)'
      BY <2>2, <3>1, <3>5, <3>6, <3>8, <3>11, Balanced DEF f
    <3> QED  BY <3>7, <3>9, <3>10, <3>12
  <2>7. LedgerTyped'
    <3>1. /\ used' = [c \in Components |-> used[c] + Taken(c, owners)]
          /\ owned' = [c \in Components |-> owned[c] + Taken(c, owners)]
          /\ pending' = pending
      BY <1>2, <1>4
    <3> QED  BY <1>1, <2>6, <3>1 DEF LedgerTyped
  <2> QED  BY <2>6, <2>7 DEF LedgerInv
<1> QED  BY <1>3, <1>4

\* A page goes from its component to another.
LEMMA MovedCount ==
    ASSUME PagesTyped, LedgerTyped, NEW p \in Live, NEW t, NEW c,
           page' = [page EXCEPT ![p].owner = t, ![p].generation = @ + 1]
    PROVE  OnComponent(c)' = OnComponent(c) + ((IF c = t THEN 1 ELSE 0)
                                               - (IF c = page[p].owner THEN 1 ELSE 0))
<1> DEFINE on == {q \in Live : page[q].owner = c}
<1>1. IsFiniteSet(on) /\ OnComponent(c) = Cardinality(on) /\ Cardinality(on) \in Nat
  BY Counts DEF OnComponent
<1>2. Live' = Live /\ page'[p].owner = t /\ \A q \in Live \ {p} : page'[q].owner = page[q].owner
  BY DEF Live, PagesTyped, PageRecord
<1>3. OnComponent(c)' = Cardinality({q \in Live : page'[q].owner = c})
  BY <1>2 DEF OnComponent
<1>4. p \in on <=> c = page[p].owner
  OBVIOUS
<1>5. CASE c = t
  <2>1. {q \in Live : page'[q].owner = c} = on \union {p}
    BY <1>2, <1>5
  <2> HIDE DEF on
  <2>2. Cardinality(on \union {p}) = IF p \in on THEN Cardinality(on) ELSE Cardinality(on) + 1
    BY <1>1, FS_AddElement
  <2>3. OnComponent(c)' = Cardinality(on \union {p})
    BY <1>3, <2>1
  <2> QED  BY <1>1, <1>4, <1>5, <2>2, <2>3
<1>6. CASE c # t
  <2>1. {q \in Live : page'[q].owner = c} = on \ {p}
    BY <1>2, <1>6
  <2> HIDE DEF on
  <2>2. Cardinality(on \ {p}) = IF p \in on THEN Cardinality(on) - 1 ELSE Cardinality(on)
    BY <1>1, FS_RemoveElement
  <2>3. OnComponent(c)' = Cardinality(on \ {p})
    BY <1>3, <2>1
  <2> QED  BY <1>1, <1>4, <1>6, <2>2, <2>3
<1> QED  BY <1>5, <1>6

LEMMA MovePageKeepsLedger ==
    ASSUME PagesTyped, LedgerInv, NEW p \in Live, NEW t \in Components, MovePage(p, t)
    PROVE  LedgerInv'
<1> DEFINE s == page[p].owner
<1>1. /\ s \in Components /\ s # t
      /\ used[t] + Footprint(t) <= Capacity[t]
      /\ used' = [used EXCEPT ![s] = @ - Footprint(s), ![t] = @ + Footprint(t)]
      /\ owned' = [owned EXCEPT ![s] = @ - Footprint(s), ![t] = @ + Footprint(t)]
      /\ page' = [page EXCEPT ![p].owner = t, ![p].generation = @ + 1]
      /\ pending' = pending /\ executor' = executor
  <2>1. s \in Components
    BY DEF PagesTyped, PageRecord
  <2> QED  BY <2>1 DEF MovePage, Movable, Fits, Move
<1>2. LedgerTyped /\ \A c \in Components : used[c] <= Capacity[c]
  BY DEF LedgerInv, Balance
<1>3. \A c \in Components : /\ Footprint(c) \in Nat \ {0} /\ Capacity[c] \in Nat
                            /\ used[c] \in Int /\ owned[c] \in Int
  BY <1>2, Sizes DEF LedgerTyped
<1>4. used' \in [Components -> Int] /\ owned' \in [Components -> Int]
  BY <1>1, <1>2, <1>3 DEF LedgerTyped
<1>5. ASSUME NEW c \in Components PROVE Balance(c)'
  <2> DEFINE on == (IF c = t THEN 1 ELSE 0) - (IF c = s THEN 1 ELSE 0)
  <2>1. OnComponent(c)' = OnComponent(c) + on
    BY <1>1, <1>2, MovedCount
  <2>2. Reserved(c)' = Reserved(c) + 0
    <3>1. Reserved(c) \in Nat /\ Reserved(c)' = Reserved(c)
      BY <1>1, <1>2, Counts DEF Reserved
    <3> QED  BY <3>1
  <2>3. /\ used'[c] = IF c = t THEN used[c] + Footprint(c)
                      ELSE IF c = s THEN used[c] - Footprint(c) ELSE used[c]
        /\ owned'[c] = IF c = t THEN owned[c] + Footprint(c)
                       ELSE IF c = s THEN owned[c] - Footprint(c) ELSE owned[c]
    BY <1>1, <1>2 DEF LedgerTyped
  <2>4. /\ Footprint(c) * 0 = 0 /\ Footprint(c) * 1 = Footprint(c)
        /\ Footprint(c) * (-1) = -Footprint(c)
    BY <1>3, Scaled
  <2>5. on \in Int /\ on = IF c = t THEN 1 ELSE IF c = s THEN -1 ELSE 0
    BY <1>1
  <2> HIDE DEF on, s
  <2>6. /\ owned'[c] = owned[c] + Footprint(c) * on
        /\ used'[c] = used[c] + Footprint(c) * (on + 0)
        /\ used'[c] <= Capacity[c]
    <3>1. on + 0 = on
      BY <2>5
    <3>2. CASE c = t
      BY <1>1, <1>3, <2>3, <2>4, <2>5, <3>1, <3>2
    <3>3. CASE c # t /\ c = s
      BY <1>2, <1>3, <2>3, <2>4, <2>5, <3>1, <3>3
    <3>4. CASE c # t /\ c # s
      BY <1>2, <1>3, <2>3, <2>4, <2>5, <3>1, <3>4
    <3> QED  BY <3>2, <3>3, <3>4
  <2>7. executor' = executor /\ 0 \in Int /\ on \in Int
    BY <1>1, <2>5
  <2> QED  BY <2>1, <2>2, <2>6, <2>7, Balanced
<1> QED  BY <1>1, <1>2, <1>4, <1>5 DEF LedgerInv, LedgerTyped

\* A copy more, or one less, on its way to c.
LEMMA ReservedMore ==
    ASSUME LedgerTyped, NEW p, p \notin DOMAIN pending, NEW t, NEW c, PagesTyped,
           DOMAIN pending' = DOMAIN pending \union {p}, pending'[p].target = t,
           \A q \in DOMAIN pending : pending'[q] = pending[q]
    PROVE  Reserved(c)' = Reserved(c) + (IF c = t THEN 1 ELSE 0)
<1> DEFINE to == {q \in DOMAIN pending : pending[q].target = c}
<1>1. IsFiniteSet(to) /\ Reserved(c) = Cardinality(to) /\ Cardinality(to) \in Nat /\ p \notin to
  BY Counts DEF Reserved
<1>2. Reserved(c)' = Cardinality({q \in DOMAIN pending' : pending'[q].target = c})
  BY DEF Reserved
<1>3. CASE c = t
  <2>1. {q \in DOMAIN pending' : pending'[q].target = c} = to \union {p}
    BY <1>3
  <2> HIDE DEF to
  <2>2. Cardinality(to \union {p}) = Cardinality(to) + 1
    BY <1>1, FS_AddElement
  <2> QED  BY <1>1, <1>2, <1>3, <2>1, <2>2
<1>4. CASE c # t
  <2>1. {q \in DOMAIN pending' : pending'[q].target = c} = to
    BY <1>4
  <2> HIDE DEF to
  <2>2. Reserved(c)' = Cardinality(to)
    BY <1>2, <2>1
  <2> QED  BY <1>1, <1>4, <2>2
<1> QED  BY <1>3, <1>4

LEMMA ReservedLess ==
    ASSUME LedgerTyped, NEW p \in DOMAIN pending, NEW c, PagesTyped, Settle(p)
    PROVE  /\ Reserved(c)' = Reserved(c) - (IF c = pending[p].target THEN 1 ELSE 0)
           /\ IsFiniteSet(DOMAIN pending')
<1> DEFINE to == {q \in DOMAIN pending : pending[q].target = c}
<1>1. IsFiniteSet(to) /\ Reserved(c) = Cardinality(to) /\ Cardinality(to) \in Nat
  BY Counts DEF Reserved
<1>2. DOMAIN pending' = DOMAIN pending \ {p} /\ \A q \in DOMAIN pending' : pending'[q] = pending[q]
  BY DEF Settle
<1>3. Reserved(c)' = Cardinality(to \ {p})
  <2>1. {q \in DOMAIN pending' : pending'[q].target = c} = to \ {p}
    BY <1>2
  <2> QED  BY <2>1 DEF Reserved
<1>4. p \in to <=> c = pending[p].target
  OBVIOUS
<1>5. Cardinality(to \ {p}) = IF p \in to THEN Cardinality(to) - 1 ELSE Cardinality(to)
  <2> HIDE DEF to
  <2> QED  BY <1>1, FS_RemoveElement
<1>6. IsFiniteSet(DOMAIN pending')
  BY <1>2, FS_RemoveElement DEF LedgerTyped
<1> QED  BY <1>1, <1>3, <1>4, <1>5, <1>6

LEMMA PrepareKeepsLedger ==
    ASSUME PagesTyped, LedgerInv, NEW p \in Live, NEW t \in Components, PrepareRestorePage(p, t)
    PROVE  LedgerInv'
<1>1. LedgerTyped /\ \A c \in Components : used[c] <= Capacity[c]
  BY DEF LedgerInv, Balance
<1>2. /\ p \notin DOMAIN pending /\ used[t] + Footprint(t) <= Capacity[t]
      /\ used' = [used EXCEPT ![t] = @ + Footprint(t)]
      /\ owned' = owned /\ page' = page /\ executor' = executor
      /\ pending' = [q \in DOMAIN pending \union {p} |->
                       IF q = p THEN [source |-> page[p].owner, target |-> t,
                                      generation |-> page[p].generation]
                       ELSE pending[q]]
  BY DEF PrepareRestorePage, Preparable, IsPending, Fits
<1>3. /\ DOMAIN pending' = DOMAIN pending \union {p} /\ pending'[p].target = t
      /\ \A q \in DOMAIN pending : pending'[q] = pending[q]
  <2>1. pending'[p] = [source |-> page[p].owner, target |-> t, generation |-> page[p].generation]
    BY <1>2
  <2>2. pending'[p].target = t
    BY <2>1
  <2>3. DOMAIN pending' = DOMAIN pending \union {p}
    BY <1>2
  <2>4. \A q \in DOMAIN pending : pending'[q] = pending[q]
    BY <1>2
  <2> QED  BY <2>2, <2>3, <2>4
<1>4. IsFiniteSet(DOMAIN pending')
  BY <1>1, <1>3, FS_AddElement DEF LedgerTyped
<1>5. \A c \in Components : /\ Footprint(c) \in Nat \ {0} /\ Capacity[c] \in Nat
                            /\ used[c] \in Int /\ owned[c] \in Int
  BY <1>1, Sizes DEF LedgerTyped
<1>6. used' \in [Components -> Int] /\ owned' \in [Components -> Int]
  BY <1>1, <1>2, <1>5 DEF LedgerTyped
<1>7. ASSUME NEW c \in Components PROVE Balance(c)'
  <2> DEFINE to == IF c = t THEN 1 ELSE 0
  <2>1. Reserved(c)' = Reserved(c) + to
    BY <1>1, <1>2, <1>3, ReservedMore
  <2>2. OnComponent(c)' = OnComponent(c) + 0
    <3>1. OnComponent(c) \in Nat /\ OnComponent(c)' = OnComponent(c)
      BY <1>1, <1>2, Counts DEF OnComponent, Live
    <3> QED  BY <3>1
  <2>3. used'[c] = IF c = t THEN used[c] + Footprint(c) ELSE used[c]
    BY <1>1, <1>2 DEF LedgerTyped
  <2>4. Footprint(c) * 0 = 0 /\ Footprint(c) * 1 = Footprint(c)
    BY <1>5, Scaled
  <2>5. to \in Int /\ 0 + to = to /\ to = IF c = t THEN 1 ELSE 0
    OBVIOUS
  <2> HIDE DEF to
  <2>6. used'[c] = used[c] + Footprint(c) * (0 + to) /\ used'[c] <= Capacity[c]
    <3>1. CASE c = t
      BY <1>2, <1>5, <2>3, <2>4, <2>5, <3>1
    <3>2. CASE c # t
      BY <1>1, <1>5, <2>3, <2>4, <2>5, <3>2
    <3> QED  BY <3>1, <3>2
  <2>7. owned'[c] = owned[c] + Footprint(c) * 0 /\ executor' = executor /\ 0 \in Int
    BY <1>2, <1>5, <2>4
  <2> QED  BY <2>1, <2>2, <2>5, <2>6, <2>7, Balanced
<1> QED  BY <1>4, <1>6, <1>7 DEF LedgerInv, LedgerTyped

LEMMA DropKeepsLedger ==
    ASSUME PagesTyped, LedgerInv, PendingTyped, NEW p, DropPreparedRestore(p)
    PROVE  LedgerInv'
<1> DEFINE t == pending[p].target
<1>1. LedgerTyped /\ \A c \in Components : used[c] <= Capacity[c]
  BY DEF LedgerInv, Balance
<1>2. /\ p \in DOMAIN pending /\ t \in Components
      /\ used' = [used EXCEPT ![t] = @ - Footprint(t)]
      /\ owned' = owned /\ page' = page /\ executor' = executor /\ Settle(p)
  BY DEF DropPreparedRestore, IsPending, PendingTyped, MoveRecord
<1>3. \A c \in Components : /\ Footprint(c) \in Nat \ {0} /\ Capacity[c] \in Nat
                            /\ used[c] \in Int /\ owned[c] \in Int
  BY <1>1, Sizes DEF LedgerTyped
<1>4. used' \in [Components -> Int] /\ owned' \in [Components -> Int]
  BY <1>1, <1>2, <1>3 DEF LedgerTyped
<1>5. ASSUME NEW c \in Components PROVE Balance(c)' /\ IsFiniteSet(DOMAIN pending')
  <2> DEFINE to == IF c = t THEN -1 ELSE 0
  <2>1. /\ Reserved(c)' = Reserved(c) - (IF c = t THEN 1 ELSE 0)
        /\ IsFiniteSet(DOMAIN pending')
    BY <1>1, <1>2, ReservedLess
  <2>2. OnComponent(c)' = OnComponent(c) + 0 /\ Reserved(c) \in Nat
    <3>1. OnComponent(c) \in Nat /\ OnComponent(c)' = OnComponent(c) /\ Reserved(c) \in Nat
      BY <1>1, <1>2, Counts DEF OnComponent, Live
    <3> QED  BY <3>1
  <2>3. used'[c] = IF c = t THEN used[c] - Footprint(c) ELSE used[c]
    BY <1>1, <1>2 DEF LedgerTyped
  <2>4. Footprint(c) * 0 = 0 /\ Footprint(c) * (-1) = -Footprint(c)
    BY <1>3, Scaled
  <2>5. to \in Int /\ 0 + to = to /\ to = IF c = t THEN -1 ELSE 0
    OBVIOUS
  <2> HIDE DEF to, t
  <2>6. Reserved(c)' = Reserved(c) + to
    BY <2>1, <2>2, <2>5
  <2>7. used'[c] = used[c] + Footprint(c) * (0 + to) /\ used'[c] <= Capacity[c]
    <3>1. CASE c = t
      BY <1>1, <1>3, <2>3, <2>4, <2>5, <3>1
    <3>2. CASE c # t
      BY <1>1, <1>3, <2>3, <2>4, <2>5, <3>2
    <3> QED  BY <3>1, <3>2
  <2>8. owned'[c] = owned[c] + Footprint(c) * 0 /\ executor' = executor /\ 0 \in Int
    BY <1>2, <1>3, <2>4
  <2>9. Balance(c)'
    BY <2>2, <2>5, <2>6, <2>7, <2>8, Balanced
  <2> QED  BY <2>1, <2>9
<1>6. IsFiniteSet(DOMAIN pending')
  BY <1>2, <1>5
<1> QED  BY <1>4, <1>5, <1>6 DEF LedgerInv, LedgerTyped

\* The copy is over: its reservation becomes the page's place on the target.
LEMMA CompleteKeepsLedger ==
    ASSUME PagesTyped, LedgerInv, PendingTyped, NEW p, CompletePreparedRestore(p)
    PROVE  LedgerInv'
<1> DEFINE s == pending[p].source
           t == pending[p].target
<1>1. LedgerTyped /\ \A c \in Components : used[c] <= Capacity[c]
  BY DEF LedgerInv, Balance
<1>2. /\ p \in DOMAIN pending /\ p \in Live /\ t \in Components /\ s \in Components
      /\ page[p].owner = s
      /\ used' = [used EXCEPT ![s] = @ - Footprint(s)]
      /\ owned' = [owned EXCEPT ![s] = @ - Footprint(s), ![t] = @ + Footprint(t)]
      /\ page' = [page EXCEPT ![p].owner = t, ![p].generation = @ + 1]
      /\ executor' = executor /\ Settle(p)
  BY DEF CompletePreparedRestore, IsPending, PendingTyped, MoveRecord
<1>3. \A c \in Components : /\ Footprint(c) \in Nat \ {0} /\ Capacity[c] \in Nat
                            /\ used[c] \in Int /\ owned[c] \in Int
  BY <1>1, Sizes DEF LedgerTyped
<1>4. used' \in [Components -> Int] /\ owned' \in [Components -> Int]
  BY <1>1, <1>2, <1>3 DEF LedgerTyped
<1>5. ASSUME NEW c \in Components PROVE Balance(c)' /\ IsFiniteSet(DOMAIN pending')
  <2> DEFINE on == (IF c = t THEN 1 ELSE 0) - (IF c = s THEN 1 ELSE 0)
             to == IF c = t THEN -1 ELSE 0
  <2>1. /\ Reserved(c)' = Reserved(c) - (IF c = t THEN 1 ELSE 0)
        /\ IsFiniteSet(DOMAIN pending') /\ Reserved(c) \in Nat
    <3>1. Reserved(c) \in Nat
      BY <1>1, Counts
    <3> QED  BY <1>1, <1>2, <3>1, ReservedLess
  <2>2. OnComponent(c)' = OnComponent(c) + on
    BY <1>1, <1>2, MovedCount
  <2>3. /\ used'[c] = used[c] - (IF c = s THEN Footprint(c) ELSE 0)
        /\ owned'[c] = owned[c] - (IF c = s THEN Footprint(c) ELSE 0)
                                + (IF c = t THEN Footprint(c) ELSE 0)
    BY <1>1, <1>2, <1>3 DEF LedgerTyped
  <2>4. /\ Footprint(c) * 0 = 0 /\ Footprint(c) * 1 = Footprint(c)
        /\ Footprint(c) * (-1) = -Footprint(c)
    BY <1>3, Scaled
  <2>5. /\ on = (IF c = t THEN 1 ELSE 0) - (IF c = s THEN 1 ELSE 0)
        /\ to = IF c = t THEN -1 ELSE 0
        /\ on \in Int /\ to \in Int
    OBVIOUS
  <2> HIDE DEF on, to, s, t
  <2>6. Reserved(c)' = Reserved(c) + to
    BY <2>1, <2>5
  <2>7. on + to = IF c = s THEN -1 ELSE 0
    BY <2>5
  <2>8. used'[c] = used[c] + Footprint(c) * (on + to) /\ used'[c] <= Capacity[c]
    <3>1. CASE c = s
      BY <1>1, <1>3, <2>3, <2>4, <2>7, <3>1
    <3>2. CASE c # s
      BY <1>1, <1>3, <2>3, <2>4, <2>7, <3>2
    <3> QED  BY <3>1, <3>2
  <2>9. owned'[c] = owned[c] + Footprint(c) * on
    <3>1. on = IF c = t THEN (IF c = s THEN 0 ELSE 1) ELSE (IF c = s THEN -1 ELSE 0)
      BY <2>5
    <3>2. CASE c = t
      BY <1>3, <2>3, <2>4, <3>1, <3>2
    <3>3. CASE c # t
      BY <1>3, <2>3, <2>4, <3>1, <3>3
    <3> QED  BY <3>2, <3>3
  <2>10. Balance(c)'
    BY <1>2, <2>2, <2>5, <2>6, <2>8, <2>9, Balanced
  <2> QED  BY <2>1, <2>10
<1>6. IsFiniteSet(DOMAIN pending')
  BY <1>2, <1>5
<1> QED  BY <1>4, <1>5, <1>6 DEF LedgerInv, LedgerTyped

\* set_transfer_executor(): the pages there are charged anew.
LEMMA ExecutorKeepsLedger ==
    ASSUME PagesTyped, LedgerInv, SetTransferExecutor
    PROVE  LedgerInv'
<1> DEFINE charged(c) == OnComponent(c) * PhysicalSize[c] - owned[c]
<1>1. LedgerTyped /\ \A c \in Components : Balance(c)
  BY DEF LedgerInv
<1>2. /\ DOMAIN pending = {} /\ executor' = TRUE
      /\ \A c \in Components : charged(c) > 0 => used[c] + charged(c) <= Capacity[c]
      /\ used' = [c \in Components |-> used[c] + charged(c)]
      /\ owned' = [c \in Components |-> owned[c] + charged(c)]
      /\ page' = page /\ pending' = pending
  BY DEF SetTransferExecutor
<1>3. ASSUME NEW c \in Components
      PROVE  Balance(c)' /\ used[c] + charged(c) \in Int /\ owned[c] + charged(c) \in Int
  <2>1. /\ OnComponent(c) \in Nat /\ PhysicalSize[c] \in Nat /\ Capacity[c] \in Nat
        /\ used[c] \in Int /\ owned[c] \in Int /\ Footprint(c) \in Nat
    BY <1>1, Counts, KVPoolAssumption DEF LedgerTyped, Footprint
  <2>2. OnComponent(c)' = OnComponent(c)
    BY <1>2 DEF OnComponent, Live
  <2>3. Reserved(c) = 0 /\ Reserved(c)' = 0
    <3>1. {p \in DOMAIN pending : pending[p].target = c} = {}
      BY <1>2
    <3>2. {p \in DOMAIN pending' : pending'[p].target = c} = {}
      BY <1>2
    <3>3. Cardinality({}) = 0
      BY FS_EmptySet
    <3>4. Reserved(c) = 0
      BY <3>1, <3>3 DEF Reserved
    <3>5. Reserved(c)' = 0
      BY <3>2, <3>3 DEF Reserved
    <3> QED  BY <3>4, <3>5
  <2> DEFINE n == OnComponent(c) * PhysicalSize[c]
  <2>4. n \in Int /\ n = PhysicalSize[c] * OnComponent(c)
    BY <2>1
  <2>5. charged(c) = n - owned[c]
    OBVIOUS
  <2>6. used[c] = owned[c] + Footprint(c) * 0 /\ used[c] <= Capacity[c]
    BY <1>1, <2>3 DEF Balance
  <2>7. Footprint(c) * 0 = 0 /\ PhysicalSize[c] * 0 = 0
    BY <2>1, Scaled
  <2>8. /\ used'[c] = used[c] + charged(c) /\ owned'[c] = owned[c] + charged(c)
        /\ charged(c) > 0 => used[c] + charged(c) <= Capacity[c]
    BY <1>2
  <2>9. Footprint(c)' = PhysicalSize[c]
    BY <1>2 DEF Footprint
  <2> HIDE DEF charged, n
  <2>10. charged(c) \in Int /\ owned'[c] = n /\ used'[c] = n /\ used'[c] <= Capacity[c]
    <3>1. used[c] = owned[c]
      BY <2>1, <2>6, <2>7
    <3>2. charged(c) \in Int /\ owned'[c] = n /\ used'[c] = n
      BY <2>1, <2>4, <2>5, <2>8, <3>1
    <3>3. CASE charged(c) > 0
      BY <2>8, <3>2, <3>3
    <3>4. CASE ~(charged(c) > 0)
      BY <2>1, <2>6, <2>8, <3>2, <3>4
    <3> QED  BY <3>2, <3>3, <3>4
  <2>11. n + PhysicalSize[c] * 0 = n
    BY <2>4, <2>7
  <2>12. Balance(c)'
    BY <2>2, <2>3, <2>4, <2>9, <2>10, <2>11 DEF Balance
  <2> QED  BY <2>1, <2>10, <2>12
<1> HIDE DEF charged
<1>4. LedgerTyped'
  BY <1>1, <1>2, <1>3 DEF LedgerTyped
<1> QED  BY <1>3, <1>4 DEF LedgerInv

\* resize() to fewer pages and release().
LEMMA DropRefsKeepsLedger ==
    ASSUME PagesTyped, LedgerInv, NEW pages \in SUBSET Live, NEW r, DropRefs(pages, r),
           UNCHANGED <<pending, executor>>
    PROVE  LedgerInv'
<1> DEFINE rec == [p \in Live |-> IF p \in pages
                                  THEN [page[p] EXCEPT !.refs = @ - 1, !.bound = @ \ {r}]
                                  ELSE page[p]]
<1>1. \A p \in Live : rec[p].owner = page[p].owner
  BY DEF PagesTyped, PageRecord
<1>2. DOMAIN rec = Live /\ Keep(rec, LastUnpinned(pages))
  BY DEF DropRefs
<1>3. LastUnpinned(pages) \in SUBSET Live
  BY DEF LastUnpinned
<1> HIDE DEF rec
<1> QED  BY <1>1, <1>2, <1>3, KeepKeepsLedger

LEMMA RequestStepKeepsLedger ==
    ASSUME RefInv, LedgerInv, NEW r \in Requests, RequestStep(r)
    PROVE  LedgerInv'
<1>1. PagesTyped /\ TablesTyped /\ ReferencesExact
  BY DEF RefInv
<1>2. SameSize(r) => LedgerInv'
  BY SameLedger DEF SameSize, Live
<1>3. ASSUME NEW n \in 0 .. SizeLimit,
             NEW shared \in {<< >>} \union {prefixes[k] : k \in PrefixKeys}, NEW allowed,
             Resize(r, n, shared, allowed)
      PROVE  LedgerInv'
  <2>1. n \in Nat
    BY KVPoolAssumption
  <2>2. ASSUME n < Len(requests[r]), Shrink(r, n) PROVE LedgerInv'
    <3> DEFINE s == requests[r]
               removed == ToSet(SubSeq(s, n + 1, Len(s)))
    <3>1. s \in Seq(Int) /\ IsInjective(s) /\ Len(s) \in Nat /\ n \in 0 .. Len(s)
      BY <2>1, <2>2, LenProperties DEF RefInv, TablesTyped, NoneTwice
    <3>2. removed = ToSet(s) \ ToSet(SubSeq(s, 1, n))
      BY <3>1, SplitRange
    <3>3. removed \in SUBSET Live
      BY <1>1, <3>2 DEF ReferencesExact, Held
    <3>4. DropRefs(removed, r) /\ pending' = pending /\ executor' = executor
      BY <2>2 DEF Shrink
    <3> HIDE DEF removed
    <3> QED  BY <1>1, <3>3, <3>4, DropRefsKeepsLedger
  <2> QED  BY <1>1, <1>2, <1>3, <2>1, <2>2, ResizeCases, GrowKeepsLedger
<1>4. Release(r) => LedgerInv'
  BY <1>1, DropRefsKeepsLedger DEF Release, ReferencesExact
<1>5. ASSUME NEW s \in Requests, HandoffRequest(r, s) PROVE LedgerInv'
  <2>1. /\ UNCHANGED <<used, owned, pending, executor>>
        /\ page' = [p \in Live |-> IF p \in Held(r)
                                   THEN [page[p] EXCEPT !.bound = (@ \ {r}) \union {s}]
                                   ELSE page[p]]
    BY <1>5 DEF HandoffRequest
  <2>2. Live' = Live /\ \A p \in Live : page'[p].owner = page[p].owner
    BY <1>1, <2>1 DEF Live, PagesTyped, PageRecord
  <2> QED  BY <2>1, <2>2, SameLedger
<1>6. Touch(r) => LedgerInv'
  BY <1>2 DEF Touch
<1>7. ASSUME NEW p \in Held(r), Pin(r, p) PROVE LedgerInv'
  <2>1. UNCHANGED <<used, owned, pending, executor>> /\ page' = [page EXCEPT ![p].pinned = TRUE]
    BY <1>7 DEF Pin
  <2>2. Live' = Live /\ \A q \in Live : page'[q].owner = page[q].owner
    BY <1>1, <2>1 DEF Live, PagesTyped, PageRecord
  <2> QED  BY <2>1, <2>2, SameLedger
<1> QED  BY <1>3, <1>4, <1>5, <1>6, <1>7 DEF RequestStep

LEMMA StepKeepsLedger ==
    ASSUME PoolInv, LedgerInv, Next
    PROVE  LedgerInv'
<1>1. /\ RefInv /\ RecencyLive /\ PendingTyped
      /\ PagesTyped /\ TablesTyped /\ ReferencesExact
  BY DEF PoolInv, RefInv
<1>2. ASSUME NEW k \in PrefixKeys, NEW r \in Requests, NEW n, RegisterPrefix(k, r, n)
      PROVE  LedgerInv'
  <2> DEFINE ids == ToSet(SubSeq(requests[r], 1, n))
  <2>1. /\ UNCHANGED <<used, owned, pending, executor>>
        /\ page' = [p \in Live |-> IF p \in ids
                                   THEN [page[p] EXCEPT !.refs = @ + 1, !.keyed = TRUE]
                                   ELSE page[p]]
    BY <1>2 DEF RegisterPrefix
  <2> HIDE DEF ids
  <2>2. Live' = Live /\ \A p \in Live : page'[p].owner = page[p].owner
    BY <1>1, <2>1 DEF Live, PagesTyped, PageRecord
  <2> QED  BY <2>1, <2>2, SameLedger
<1>3. ASSUME NEW k \in PrefixKeys, ReleasePrefix(k)
      PROVE  LedgerInv'
  <2> DEFINE ids == ToSet(prefixes[k])
             others(p) == \E other \in PrefixKeys \ {k} : p \in ToSet(prefixes[other])
             rec == [p \in Live |-> IF p \in ids
                                    THEN [page[p] EXCEPT !.refs = @ - 1, !.keyed = others(p)]
                                    ELSE page[p]]
  <2>1. Keep(rec, LastUnpinned(ids)) /\ pending' = pending /\ executor' = executor
    BY <1>3 DEF ReleasePrefix
  <2>2. LastUnpinned(ids) \in SUBSET Live
    BY <1>1 DEF LastUnpinned, ReferencesExact
  <2> HIDE DEF others, ids
  <2>3. DOMAIN rec = Live /\ \A p \in Live : rec[p].owner = page[p].owner
    BY <1>1 DEF PagesTyped, PageRecord
  <2> HIDE DEF rec
  <2> QED  BY <1>1, <2>1, <2>2, <2>3, KeepKeepsLedger
<1>4. ASSUME NEW allowed, NEW n \in 1 .. PageLimit, Evict(allowed, n)
      PROVE  LedgerInv'
  <2> DEFINE evictable(p) == /\ page[p].refs = 1
                             /\ ~page[p].pinned
                             /\ page[p].bound = {}
                             /\ page[p].owner \in allowed
             others == {p \in Live : ~evictable(p)}
             oldest == Without(recency, others)
             freed == ToSet(SubSeq(oldest, 1, n))
  <2>1. n <= Len(oldest) /\ Keep(page, freed) /\ pending' = pending /\ executor' = executor
    BY <1>4 DEF Evict
  <2>2. oldest \in Seq(Int) /\ ToSet(oldest) = ToSet(recency) \ others
    <3> HIDE DEF others
    <3> QED  BY <1>1, WithoutProperties DEF TablesTyped
  <2>3. freed \subseteq ToSet(oldest)
    <3>1. n \in Nat
      BY KVPoolAssumption
    <3> HIDE DEF oldest
    <3> QED  BY <2>1, <2>2, <3>1, PartRange
  <2> HIDE DEF freed, oldest, others
  <2>4. freed \in SUBSET Live
    BY <1>1, <2>2, <2>3 DEF RecencyLive
  <2> QED  BY <1>1, <2>1, <2>4, KeepKeepsLedger DEF Live
<1>5. ASSUME NEW p \in Live, PageStep(p)
      PROVE  LedgerInv'
  <2>1. CASE Unpin(p)
    <3> DEFINE freed == {q \in {p} : page[q].refs = 0}
               rec == [page EXCEPT ![p].pinned = FALSE]
    <3>1. Keep(rec, freed) /\ pending' = pending /\ executor' = executor
      BY <2>1 DEF Unpin
    <3>2. DOMAIN rec = Live /\ \A q \in Live : rec[q].owner = page[q].owner
      BY <1>1 DEF PagesTyped, PageRecord, Live
    <3>3. freed \in SUBSET Live
      OBVIOUS
    <3> HIDE DEF rec, freed
    <3> QED  BY <1>1, <3>1, <3>2, <3>3, KeepKeepsLedger
  <2>2. ASSUME NEW c \in Components, MovePage(p, c) PROVE LedgerInv'
    BY <1>1, <2>2, MovePageKeepsLedger
  <2>3. ASSUME NEW c \in Components, PrepareRestorePage(p, c) PROVE LedgerInv'
    BY <1>1, <2>3, PrepareKeepsLedger
  <2>4. DropPreparedRestore(p) => LedgerInv'
    BY <1>1, DropKeepsLedger
  <2>5. CompletePreparedRestore(p) => LedgerInv'
    BY <1>1, CompleteKeepsLedger
  <2> QED  BY <1>5, <2>1, <2>2, <2>3, <2>4, <2>5 DEF PageStep
<1>6. SetTransferExecutor => LedgerInv'
  BY <1>1, ExecutorKeepsLedger
<1>7. ASSUME NEW r \in Requests, RequestStep(r) PROVE LedgerInv'
  BY <1>1, <1>7, RequestStepKeepsLedger
<1>8. ASSUME NEW k \in PrefixKeys, PrefixStep(k) PROVE LedgerInv'
  BY <1>2, <1>3, <1>8 DEF PrefixStep
<1> QED  BY <1>4, <1>5, <1>6, <1>7, <1>8 DEF Next

\* Every byte charged is a page's or a copy's under way, and no component is
\* charged more than it has (CapacityLedger, _owned_bytes and the reservations of
\* _pending_moves in kv_pool.py).
THEOREM PoolLedgerConserved == Spec => []LedgerConserved
<1>1. Init => LedgerInv
  <2> SUFFICES ASSUME Init PROVE LedgerInv
    OBVIOUS
  <2>1. /\ DOMAIN page = {} /\ DOMAIN pending = {}
        /\ used = [c \in Components |-> 0] /\ owned = [c \in Components |-> 0]
    BY DEF Init
  <2>2. LedgerTyped
    BY <2>1, FS_EmptySet DEF LedgerTyped
  <2>3. ASSUME NEW c \in Components PROVE Balance(c)
    <3>1. OnComponent(c) = 0 /\ Reserved(c) = 0
      <4>1. {p \in Live : page[p].owner = c} = {} /\ {p \in DOMAIN pending : pending[p].target = c} = {}
        BY <2>1 DEF Live
      <4> QED  BY <4>1, FS_EmptySet DEF OnComponent, Reserved
    <3>2. Footprint(c) * 0 = 0 /\ Capacity[c] \in Nat
      BY Sizes, Scaled
    <3> QED  BY <2>1, <3>1, <3>2 DEF Balance
  <2> QED  BY <2>2, <2>3 DEF LedgerInv
<1>2. PoolInv /\ LedgerInv /\ [Next]_vars => LedgerInv'
  <2> SUFFICES ASSUME PoolInv, LedgerInv, [Next]_vars PROVE LedgerInv'
    OBVIOUS
  <2>1. CASE UNCHANGED vars
    BY <2>1, SameLedger DEF vars, pageVars, Live
  <2> QED  BY <2>1, StepKeepsLedger
<1>3. LedgerInv => LedgerConserved
  BY DEF LedgerInv, Balance, LedgerConserved, Bytes, OnComponent, Reserved
<1> QED  BY <1>1, <1>2, <1>3, PoolAlways, PTL DEF Spec
=============================================================================
