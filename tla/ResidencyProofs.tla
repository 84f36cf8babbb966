-------------------------- MODULE ResidencyProofs --------------------------
(***************************************************************************)
(* Proofs about Residency, for any allocations, views, leases, consumers   *)
(* and capacity: an eviction waits for everyone who may still be reading,  *)
(* takes the least recent granules it may take, no more than it needs, and *)
(* loses no write; the pool counts its bytes exactly.                      *)
(***************************************************************************)
EXTENDS Residency, CollectionTheorems

\* The granules under a lease, each with the lease's consumer.
HeldBy(l) == leases[l].granules \X {leases[l].consumer}
Held == UNION {HeldBy(l) : l \in DOMAIN leases}

\* Whoever has leased a granule since it came in holds it still, or is remembered.
ReadersKnown == readers \subseteq anchors \union Held

------------------------------------------------------------------------------

\* Readers and anchors of the same granules, or of the same consumer, go together.
LEMMA ForgettingKeepsReaders ==
    ASSUME ReadersKnown, UNCHANGED leases, NEW Gone,
           anchors' = {p \in anchors : p \notin Gone},
           readers' = {p \in readers : p \notin Gone}
    PROVE  ReadersKnown'
BY DEF ReadersKnown, Held, HeldBy

LEMMA EvictionKeepsReaders ==
    ASSUME ReadersKnown, UNCHANGED leases, NEW out, EvictAnchors(out)
    PROVE  ReadersKnown'
<1> DEFINE Gone == {p \in anchors \union readers : p[1] \in out}
<1>1. /\ anchors' = {p \in anchors : p \notin Gone}
      /\ readers' = {p \in readers : p \notin Gone}
  BY DEF EvictAnchors
<1> HIDE DEF Gone
<1> QED  BY <1>1, ForgettingKeepsReaders

LEMMA AcquireKeepsReaders ==
    ASSUME ReadersKnown, NEW l, NEW t, NEW c, NEW offset, NEW n,
           AcquireLease(l, t, c, offset, n)
    PROVE  ReadersKnown'
<1> DEFINE granules == Span(OwnerOf(t), OffsetOf(t) + offset, n)
           lease == [consumer |-> c, target |-> t, owner |-> OwnerOf(t),
                     granules |-> granules]
<1>1. /\ l \notin DOMAIN leases
      /\ leases' = [k \in DOMAIN leases \union {l} |-> IF k = l THEN lease ELSE leases[k]]
      /\ readers' = readers \union (granules \X {c})
      /\ anchors' = anchors
  BY DEF AcquireLease, tables, bytes
<1>2. /\ l \in DOMAIN leases' /\ leases'[l] = lease
      /\ \A k \in DOMAIN leases : k \in DOMAIN leases' /\ leases'[k] = leases[k]
  BY <1>1
<1>3. granules \X {c} = HeldBy(l)' /\ \A k \in DOMAIN leases : HeldBy(k)' = HeldBy(k)
  BY <1>2 DEF HeldBy
<1>4. granules \X {c} \subseteq Held' /\ Held \subseteq Held'
  BY <1>2, <1>3 DEF Held
<1> QED  BY <1>1, <1>4 DEF ReadersKnown

\* What the released leases held is remembered with their consumers.
LEMMA ReleaseKeepsReaders ==
    ASSUME ReadersKnown, NEW L \in SUBSET DOMAIN leases, ReleaseLeases(L)
    PROVE  ReadersKnown'
<1>1. /\ leases' = Restrict(leases, DOMAIN leases \ L)
      /\ anchors' = anchors \union UNION {HeldBy(l) : l \in L}
      /\ readers' = readers
  BY DEF ReleaseLeases, HeldBy, bytes, tables
<1>2. /\ DOMAIN leases' = DOMAIN leases \ L
      /\ \A l \in DOMAIN leases \ L : leases'[l] = leases[l]
  BY <1>1 DEF Restrict
<1>3. \A l \in DOMAIN leases \ L : HeldBy(l)' = HeldBy(l)
  BY <1>2 DEF HeldBy
<1>4. Held \subseteq Held' \union UNION {HeldBy(l) : l \in L}
  BY <1>2, <1>3 DEF Held
<1> QED  BY <1>1, <1>4 DEF ReadersKnown

LEMMA RetireKeepsReaders ==
    ASSUME ReadersKnown, NEW c, RetireConsumer(c)
    PROVE  ReadersKnown'
<1> DEFINE Gone == {p \in anchors \union readers : p[2] = c}
<1>1. /\ anchors' = {p \in anchors : p \notin Gone}
      /\ readers' = {p \in readers : p \notin Gone}
      /\ UNCHANGED leases
  BY DEF RetireConsumer
<1> HIDE DEF Gone
<1> QED  BY <1>1, ForgettingKeepsReaders

LEMMA AllocationReleaseKeepsReaders ==
    ASSUME ReadersKnown, NEW a, Release(a)
    PROVE  ReadersKnown'
<1> DEFINE Gone == {p \in anchors \union readers : p[1][1] = a}
<1>1. /\ anchors' = {p \in anchors : p \notin Gone}
      /\ readers' = {p \in readers : p \notin Gone}
      /\ UNCHANGED leases
  BY DEF Release
<1> HIDE DEF Gone
<1> QED  BY <1>1, ForgettingKeepsReaders

\* A step that leaves leases, anchors and readers alone.
LEMMA AsidesKeepReaders ==
    ASSUME ReadersKnown, UNCHANGED holds
    PROVE  ReadersKnown'
BY DEF ReadersKnown, Held, HeldBy, holds

LEMMA NextKeepsReaders == ReadersKnown /\ [ResNext]_resVars => ReadersKnown'
<1> SUFFICES ASSUME ReadersKnown, [ResNext]_resVars PROVE ReadersKnown'
  OBVIOUS
<1>1. ASSUME NEW a \in Allocations, Register(a) PROVE ReadersKnown'
  BY <1>1, EvictionKeepsReaders DEF Register
<1>2. ASSUME NEW a \in Allocations, Release(a) PROVE ReadersKnown'
  BY <1>2, AllocationReleaseKeepsReaders
<1>3. ASSUME NEW v \in Views, CreateView(v) \/ ReleaseView(v) PROVE ReadersKnown'
  BY <1>3, AsidesKeepReaders DEF CreateView, ReleaseView
<1>4. ASSUME NEW a \in Live, NEW n \in 1 .. Profile[a].size, Commit(a, n) PROVE ReadersKnown'
  BY <1>4, AsidesKeepReaders DEF Commit
<1>5. ASSUME NEW a \in Live, NEW n \in 1 .. Profile[a].size, Evict(a, n) PROVE ReadersKnown'
  BY <1>5, EvictionKeepsReaders DEF Evict
<1>6. ASSUME NEW t, NEW write, NEW offset, NEW n, Access(t, write, offset, n)
      PROVE  ReadersKnown'
  BY <1>6, EvictionKeepsReaders DEF Access
<1>7. ASSUME NEW l \in Leases, ReleaseLease(l) PROVE ReadersKnown'
  BY <1>7, ReleaseKeepsReaders DEF ReleaseLease
<1>8. ASSUME NEW c \in Consumers, ReleaseConsumerLeases(c) PROVE ReadersKnown'
  BY <1>8, ReleaseKeepsReaders DEF ReleaseConsumerLeases
<1>9. ASSUME NEW c \in Consumers, RetireConsumer(c) PROVE ReadersKnown'
  BY <1>9, RetireKeepsReaders
<1>10. CASE UNCHANGED resVars
  BY <1>10, AsidesKeepReaders DEF resVars
<1> QED  BY <1>1, <1>2, <1>3, <1>4, <1>5, <1>6, <1>7, <1>8, <1>9, <1>10,
            AcquireKeepsReaders DEF ResNext

\* The migrations of an eviction name everyone who leased the granule and is not known
\* to have completed: with the lease gone, the anchor is what remembers them.
THEOREM EvictionsWait == ResSpec => []EvictionWaits
<1>1. ResInit => ReadersKnown
  BY DEF ResInit, ReadersKnown
<1>2. ASSUME ReadersKnown PROVE EvictionWaits
  <2> SUFFICES ASSUME NEW x \in Resident \ LeasedGranules, NEW p \in readers, p[1] = x
               PROVE  p[2] \in Named({x})
    BY DEF EvictionWaits
  <2>1. p \notin Held
    BY DEF Held, HeldBy, LeasedGranules
  <2>2. p \in anchors
    BY <1>2, <2>1 DEF ReadersKnown
  <2> QED  BY <2>2 DEF Named
<1>3. ReadersKnown => EvictionWaits
  BY <1>2
<1> QED  BY <1>1, <1>3, NextKeepsReaders, PTL DEF ResSpec
------------------------------------------------------------------------------
(* Granules and their sizes. *)

\* The granules of the first n bytes are those that begin before byte n.
LEMMA PrefixGranules ==
    ASSUME NEW a \in Allocations, NEW n \in Nat, NEW i \in Int
    PROVE  <<a, i>> \in Prefix(a, n) <=> i >= 0 /\ i * Profile[a].granule < n
<1> DEFINE g == Profile[a].granule
           q == CeilDiv(n, g)
<1>1. g \in Nat /\ g > 0
  BY ProfilesWellFormed
<1>2. q \in Nat /\ q * g <= n + g - 1 /\ n + g - 1 < q * g + g
  <2> HIDE DEF g
  <2>1. q \in Nat /\ q * g <= n + g - 1 /\ n + g - 1 < (q + 1) * g
    BY <1>1 DEF CeilDiv
  <2> HIDE DEF q
  <2>2. (q + 1) * g = q * g + g
    BY <1>1, <2>1
  <2> QED
    BY <1>1, <2>1, <2>2
<1>3. <<a, i>> \in Prefix(a, n) <=> i \in 0 .. q - 1
  BY DEF Prefix
<1> HIDE DEF g, q
<1>4. ASSUME i \in 0 .. q - 1 PROVE i >= 0 /\ i * g < n
  <2>1. (i + 1) * g <= q * g
    BY <1>1, <1>2, <1>4
  <2>2. (i + 1) * g = i * g + g
    BY <1>1, <1>2, <1>4
  <2>3. i * g \in Int /\ q * g \in Int
    BY <1>1, <1>2, <1>4
  <2> QED
    BY <1>1, <1>2, <1>4, <2>1, <2>2, <2>3
<1>5. ASSUME i >= 0, i * g < n PROVE i \in 0 .. q - 1
  <2>1. SUFFICES ASSUME q <= i PROVE FALSE
    BY <1>2, <1>5
  <2>2. q * g <= i * g /\ q * g \in Int /\ i * g \in Int
    BY <1>1, <1>2, <2>1
  <2> QED
    BY <1>1, <1>2, <1>5, <2>2
<1> QED
  BY <1>3, <1>4, <1>5 DEF g

\* Members of a prefix are pairs of their allocation and an index.
LEMMA PrefixPairs ==
    ASSUME NEW a \in Allocations, NEW n \in Nat, NEW x \in Prefix(a, n)
    PROVE  /\ x[1] = a /\ x = <<a, x[2]>> /\ x[2] \in Nat
           /\ x[2] * Profile[a].granule < n
<1>1. PICK i \in 0 .. CeilDiv(n, Profile[a].granule) - 1 : x = <<a, i>>
  BY DEF Prefix
<1>2. CeilDiv(n, Profile[a].granule) \in Int
  BY ProfilesWellFormed DEF CeilDiv
<1>3. i \in Int /\ x[1] = a /\ x[2] = i
  BY <1>1, <1>2
<1> QED
  BY <1>1, <1>3, PrefixGranules

LEMMA PrefixFinite ==
    ASSUME NEW a \in Allocations, NEW n \in Nat
    PROVE  IsFiniteSet(Prefix(a, n))
<1> DEFINE q == CeilDiv(n, Profile[a].granule)
           indices == 0 .. q - 1
           f == [i \in indices |-> <<a, i>>]
<1>1. q \in Int
  BY ProfilesWellFormed DEF CeilDiv
<1>2. IsFiniteSet(indices)
  BY <1>1, FS_Interval
<1>3. f \in Surjection(indices, Prefix(a, n))
  BY DEF Surjection, Prefix
<1> HIDE DEF f, indices
<1> QED
  BY <1>2, <1>3, FS_Surjection

LEMMA PrefixGrows ==
    ASSUME NEW a \in Allocations, NEW m \in Nat, NEW n \in Nat, m <= n
    PROVE  Prefix(a, m) \subseteq Prefix(a, n)
<1> SUFFICES ASSUME NEW x \in Prefix(a, m) PROVE x \in Prefix(a, n)
  OBVIOUS
<1>1. /\ x = <<a, x[2]>> /\ x[2] \in Nat
      /\ x[2] * Profile[a].granule < m
  BY PrefixPairs
<1>2. x[2] * Profile[a].granule \in Int
  BY <1>1, ProfilesWellFormed
<1>3. x[2] * Profile[a].granule < n
  BY <1>1, <1>2
<1>4. <<a, x[2]>> \in Prefix(a, n)
  BY <1>1, <1>3, PrefixGranules
<1> QED
  BY <1>1, <1>4

\* A range lies in every prefix that reaches its end.
LEMMA SpanInPrefix ==
    ASSUME NEW a \in Allocations, NEW from \in Nat, NEW n \in Nat, NEW m \in Nat,
           from + n <= m
    PROVE  Span(a, from, n) \subseteq Prefix(a, m)
<1> SUFFICES ASSUME NEW x \in Span(a, from, n) PROVE x \in Prefix(a, from + n)
  BY PrefixGrows
<1>1. from \div Profile[a].granule \in Nat
  BY ProfilesWellFormed
<1> QED
  BY <1>1 DEF Span, Prefix

\* A granule that begins before the limit has a size.
LEMMA SizePositive ==
    ASSUME NEW a \in Allocations, NEW n \in Nat, NEW x \in Prefix(a, n)
    PROVE  SizeIn(x, n) \in Nat \ {0}
<1>1. /\ x[1] = a /\ x[2] \in Nat /\ x[2] * Profile[a].granule < n
  BY PrefixPairs
<1>2. Profile[a].granule \in Nat \ {0} /\ x[2] * Profile[a].granule \in Nat
  BY <1>1, ProfilesWellFormed
<1> QED
  BY <1>1, <1>2 DEF SizeIn

------------------------------------------------------------------------------
(* The bytes of a set of granules. *)

LEMMA BytesPart ==
    ASSUME NEW X, IsFiniteSet(X), \A x \in X : SizeOf(x) \in Nat, NEW T \in SUBSET X
    PROVE  /\ BytesOf(T) = SumFunctionOnSet([x \in X |-> SizeOf(x)], T)
           /\ BytesOf(T) \in Nat
           /\ IsFiniteSet(T)
<1> DEFINE f == [x \in X |-> SizeOf(x)]
           g == [x \in T |-> SizeOf(x)]
<1>1. IsFiniteSet(T)
  BY FS_Subset
<1>2. \A x \in T : f[x] \in Nat /\ g[x] = f[x]
  OBVIOUS
<1>3. BytesOf(T) = SumFunctionOnSet(g, T)
  BY DEF BytesOf, SumFunction
<1> HIDE DEF f, g
<1>4. SumFunctionOnSet(g, T) = SumFunctionOnSet(f, T)
  BY <1>1, <1>2, SumAgree
<1>5. SumFunctionOnSet(f, T) \in Nat
  BY <1>1, <1>2, SumNat
<1> QED
  BY <1>1, <1>3, <1>4, <1>5 DEF f

LEMMA BytesUnion ==
    ASSUME NEW X, NEW Y, IsFiniteSet(X), IsFiniteSet(Y), X \cap Y = {},
           \A x \in X \cup Y : SizeOf(x) \in Nat
    PROVE  BytesOf(X \cup Y) = BytesOf(X) + BytesOf(Y)
<1> DEFINE f == [x \in X \cup Y |-> SizeOf(x)]
<1>1. IsFiniteSet(X \cup Y)
  BY FS_Union
<1>2. /\ BytesOf(X \cup Y) = SumFunctionOnSet(f, X \cup Y)
      /\ BytesOf(X) = SumFunctionOnSet(f, X)
      /\ BytesOf(Y) = SumFunctionOnSet(f, Y)
  BY <1>1, BytesPart
<1>3. \A x \in X \cup Y : f[x] \in Int
  OBVIOUS
<1> HIDE DEF f
<1> QED
  BY <1>2, <1>3, SumUnion

LEMMA BytesDifference ==
    ASSUME NEW X, IsFiniteSet(X), \A x \in X : SizeOf(x) \in Nat, NEW T \in SUBSET X
    PROVE  /\ BytesOf(X \ T) = BytesOf(X) - BytesOf(T)
           /\ BytesOf(T) <= BytesOf(X)
           /\ BytesOf(X) \in Nat /\ BytesOf(T) \in Nat /\ BytesOf(X \ T) \in Nat
<1>1. IsFiniteSet(T) /\ IsFiniteSet(X \ T)
  BY FS_Subset
<1>2. BytesOf(X) \in Nat /\ BytesOf(T) \in Nat /\ BytesOf(X \ T) \in Nat
  BY BytesPart
<1>3. (X \ T) \cup T = X /\ (X \ T) \cap T = {}
  OBVIOUS
<1>4. BytesOf((X \ T) \cup T) = BytesOf(X \ T) + BytesOf(T)
  BY <1>1, <1>3, BytesUnion
<1>5. BytesOf(X) = BytesOf(X \ T) + BytesOf(T)
  BY <1>3, <1>4, Zenon
<1> QED
  BY <1>2, <1>5

LEMMA BytesOfOne ==
    ASSUME NEW x, SizeOf(x) \in Nat
    PROVE  BytesOf({x}) = SizeOf(x)
<1> DEFINE f == [y \in {x} |-> SizeOf(y)]
<1>1. f[x] = SizeOf(x) /\ \A y \in {x} : f[y] \in Int
  OBVIOUS
<1>6. IsFiniteSet({x})
  BY FS_Singleton
<1>2. BytesOf({x}) = SumFunctionOnSet(f, {x})
  BY DEF BytesOf, SumFunction
<1> HIDE DEF f
<1>3. SumFunctionOnSet(f, {x}) = f[x] + SumFunctionOnSet(f, {x} \ {x})
  BY <1>1, <1>6, SumRemove
<1>4. {x} \ {x} = {} /\ SumFunctionOnSet(f, {}) = 0
  BY SumEmpty
<1>5. SumFunctionOnSet(f, {x}) = f[x] + 0
  BY <1>3, <1>4, Zenon
<1> QED
  BY <1>1, <1>2, <1>5

\* A step that leaves the sizes of granules alone leaves their sum alone.
LEMMA BytesKept ==
    ASSUME NEW X, IsFiniteSet(X), \A x \in X : SizeOf(x) \in Nat /\ SizeOf(x)' = SizeOf(x)
    PROVE  BytesOf(X)' = BytesOf(X)
<1> DEFINE f == [x \in X |-> SizeOf(x)]
           g == [x \in X |-> SizeOf(x)']
<1>1. f = g
  OBVIOUS
<1>2. BytesOf(X) = SumFunction(f) /\ BytesOf(X)' = SumFunction(g)
  BY DEF BytesOf
<1> HIDE DEF f, g
<1> QED
  BY <1>1, <1>2, Zenon

------------------------------------------------------------------------------
(* The invariant. *)

Shape ==
    /\ Live \subseteq Allocations
    /\ \A a \in Live : committed[a] \in 0 .. Profile[a].size
    /\ views \subseteq Views
    /\ IsFiniteSet(Resident)
    /\ \A x \in Resident : stamp[x] \in Nat
    /\ \A l \in DOMAIN leases : \A x \in leases[l].granules : x[1] = leases[l].owner

\* One access, of one allocation, gives a number of its own.
StampsApart == \A x, y \in Resident : stamp[x] = stamp[y] => x[1] = y[1]

PoolInv == Shape /\ StampsApart /\ PoolConsistent /\ ContentKept

\* Resident granules are granules, of a size.
LEMMA ResidentGranules ==
    ASSUME Shape, PoolConsistent, NEW x \in Resident
    PROVE  /\ x[1] \in Live /\ x[1] \in Allocations /\ x \in Prefix(x[1], committed[x[1]])
           /\ x = <<x[1], x[2]>> /\ x[2] \in Nat
           /\ SizeOf(x) \in Nat \ {0}
<1>1. /\ x[1] \in Live /\ x[1] \in Allocations /\ x \in Prefix(x[1], committed[x[1]])
      /\ committed[x[1]] \in Nat
  BY ProfilesWellFormed DEF Shape, PoolConsistent
<1>2. x = <<x[1], x[2]>> /\ x[2] \in Nat
  BY <1>1, PrefixPairs
<1>3. SizeIn(x, committed[x[1]]) \in Nat \ {0}
  BY <1>1, SizePositive
<1> QED
  BY <1>1, <1>2, <1>3 DEF SizeOf

------------------------------------------------------------------------------
(* Victims. *)

LEMMA NeedIs ==
    ASSUME NEW additional \in Int, used \in Int
    PROVE  /\ Need(additional) \in Nat
           /\ Need(additional) >= used + additional - Capacity
           /\ Need(additional) > 0 => Need(additional) = used + additional - Capacity
<1> DEFINE m == used + additional - Capacity
<1>1. m \in Int
  BY PoolWellFormed
<1> HIDE DEF m
<1>2. \E x \in {0, m} : \A y \in {0, m} : x >= y
  BY <1>1
<1>3. Max({0, m}) \in {0, m} /\ \A y \in {0, m} : Max({0, m}) >= y
  BY <1>2 DEF Max
<1>4. Need(additional) = Max({0, m})
  BY DEF Need, m
<1> QED
  BY <1>1, <1>3, <1>4 DEF m

\* Eviction follows an order, total on the resident granules.
LEMMA BeforeOrder ==
    ASSUME Shape, PoolConsistent, StampsApart,
           NEW x \in Resident, NEW y \in Resident, NEW z \in Resident
    PROVE  /\ ~Before(x, x)
           /\ Before(x, y) /\ Before(y, z) => Before(x, z)
           /\ x # y => Before(x, y) \/ Before(y, x)
<1>1. /\ stamp[x] \in Nat /\ stamp[y] \in Nat /\ stamp[z] \in Nat
      /\ x[2] \in Nat /\ y[2] \in Nat /\ z[2] \in Nat
  BY ResidentGranules DEF Shape
<1>2. ~Before(x, x)
  BY <1>1 DEF Before
<1>3. Before(x, y) /\ Before(y, z) => Before(x, z)
  BY <1>1 DEF Before
<1>4. ASSUME x # y PROVE Before(x, y) \/ Before(y, x)
  <2>1. x = <<x[1], x[2]>> /\ y = <<y[1], y[2]>>
    BY ResidentGranules
  <2>2. stamp[x] = stamp[y] => x[1] = y[1]
    BY DEF StampsApart
  <2>3. x[1] # y[1] \/ x[2] # y[2]
    BY <1>4, <2>1
  <2> QED
    BY <1>1, <2>2, <2>3 DEF Before
<1> QED
  BY <1>2, <1>3, <1>4

\* Of some resident granules, one is evicted first.
LEMMA FirstOut ==
    ASSUME Shape, PoolConsistent, StampsApart, NEW T \in SUBSET Resident, T # {}
    PROVE  \E y \in T : \A z \in T : ~Before(z, y)
<1> DEFINE First(U) == \E y \in U : \A z \in U : ~Before(z, y)
           Bad == {U \in SUBSET T : U # {} /\ ~First(U)}
<1> SUFFICES ASSUME Bad # {} PROVE FALSE
  OBVIOUS
<1>1. PICK U \in Bad : \A V \in SUBSET U : V # U => V \notin Bad
  <2>1. Bad \in SUBSET (SUBSET T) /\ IsFiniteSet(T)
    BY FS_Subset DEF Shape
  <2> HIDE DEF Bad
  <2> QED
    BY <2>1, SmallestSubset
<1>2. PICK j \in U : TRUE
  OBVIOUS
<1>3. U \ {j} \in SUBSET U /\ U \ {j} # U /\ U \subseteq Resident
  BY <1>2
<1>4. U \ {j} \in SUBSET T /\ U \ {j} \notin Bad
  BY <1>1, <1>3
<1>5. U \ {j} = {} \/ First(U \ {j})
  BY <1>4
<1>6. CASE U \ {j} = {}
  <2>1. \A z \in U : ~Before(z, j)
    BY <1>2, <1>3, <1>6, BeforeOrder
  <2> QED
    BY <1>2, <2>1
<1>7. CASE First(U \ {j})
  <2>1. PICK m \in U \ {j} : \A z \in U \ {j} : ~Before(z, m)
    BY <1>7
  <2>2. CASE ~Before(j, m)
    <3>1. \A z \in U : ~Before(z, m)
      BY <2>1, <2>2
    <3> QED
      BY <2>1, <3>1
  <2>3. CASE Before(j, m)
    <3>1. ASSUME NEW z \in U PROVE ~Before(z, j)
      BY <1>2, <1>3, <2>1, <2>3, BeforeOrder
    <3> QED
      BY <1>2, <3>1
  <2> QED
    BY <2>2, <2>3
<1> QED
  BY <1>5, <1>6, <1>7

LEMMA CandidatesSized ==
    ASSUME Shape, PoolConsistent, NEW protected
    PROVE  /\ Candidates(protected) \in SUBSET Resident
           /\ IsFiniteSet(Candidates(protected))
           /\ \A x \in Candidates(protected) : SizeOf(x) \in Nat
BY ResidentGranules, FS_Subset DEF Candidates, Shape

\* The victims make the room that is needed, if the candidates can.
LEMMA VictimsSuffice ==
    ASSUME Shape, PoolConsistent, StampsApart, NEW protected, NEW additional \in Nat,
           used \in Int, RoomFor(additional, protected)
    PROVE  /\ Victims(additional, protected) \in SUBSET Candidates(protected)
           /\ BytesOf(Victims(additional, protected)) >= Need(additional)
<1> DEFINE C == Candidates(protected)
           out == Victims(additional, protected)
           need == Need(additional)
           Ahead(x) == {c \in C : Before(c, x)}
<1>1. /\ C \in SUBSET Resident /\ IsFiniteSet(C) /\ \A x \in C : SizeOf(x) \in Nat
  BY CandidatesSized
<1>2. need \in Nat /\ BytesOf(C) >= need
  BY NeedIs DEF RoomFor
<1>3. out = {x \in C : BytesOf(Ahead(x)) < need}
  BY DEF Victims
<1> HIDE DEF C, out, need
<1>4. CASE out = C
  BY <1>2, <1>4 DEF C, out, need
<1>5. CASE out # C
  <2>1. C \ out \in SUBSET Resident /\ C \ out # {}
    BY <1>1, <1>3, <1>5
  <2>2. PICK y \in C \ out : \A z \in C \ out : ~Before(z, y)
    BY <2>1, FirstOut
  <2>3. Ahead(y) \subseteq out /\ out \subseteq C
    BY <1>3, <2>2
  <2>4. BytesOf(Ahead(y)) >= need
    <3>1. ~(BytesOf(Ahead(y)) < need)
      BY <1>3, <2>2
    <3>2. BytesOf(Ahead(y)) \in Nat
      BY <1>1, <2>3, BytesDifference
    <3> QED
      BY <1>2, <3>1, <3>2
  <2>5. /\ IsFiniteSet(out) /\ \A x \in out : SizeOf(x) \in Nat
    BY <1>1, <2>3, FS_Subset
  <2>6. /\ BytesOf(Ahead(y)) <= BytesOf(out) /\ BytesOf(Ahead(y)) \in Nat
        /\ BytesOf(out) \in Nat
    BY <2>3, <2>5, BytesDifference
  <2> QED
    BY <1>2, <2>3, <2>4, <2>6 DEF C, out, need
<1> QED
  BY <1>4, <1>5

------------------------------------------------------------------------------
(* Recency. *)

\* Renumbering keeps the order of the numbers.
LEMMA RenumberKeepsOrder ==
    ASSUME NEW f, IsFiniteSet(DOMAIN f), \A x \in DOMAIN f : f[x] \in Int
    PROVE  /\ DOMAIN Renumber(f) = DOMAIN f
           /\ \A x \in DOMAIN f : Renumber(f)[x] \in Nat
           /\ \A x, y \in DOMAIN f : Renumber(f)[x] <= Renumber(f)[y] <=> f[x] <= f[y]
<1> DEFINE upTo(x) == {z \in DOMAIN f : f[z] <= f[x]}
           below(x) == {f[y] : y \in upTo(x)}
<1>1. /\ DOMAIN Renumber(f) = DOMAIN f
      /\ \A x \in DOMAIN f : Renumber(f)[x] = Cardinality(below(x))
  BY DEF Renumber
<1>2. ASSUME NEW x \in DOMAIN f PROVE IsFiniteSet(below(x))
  <2> DEFINE g == [y \in upTo(x) |-> f[y]]
  <2>1. g \in Surjection(upTo(x), below(x))
    BY DEF Surjection
  <2>2. IsFiniteSet(upTo(x))
    BY FS_Subset
  <2> HIDE DEF g, upTo, below
  <2> QED
    BY <2>1, <2>2, FS_Surjection
<1>3. ASSUME NEW x \in DOMAIN f, NEW y \in DOMAIN f
      PROVE  /\ f[x] <= f[y] => below(x) \subseteq below(y)
             /\ f[y] < f[x] => f[x] \in below(x) /\ f[x] \notin below(y)
  <2>1. \A z \in DOMAIN f : f[z] \in Int
    OBVIOUS
  <2>2. ASSUME f[x] <= f[y] PROVE below(x) \subseteq below(y)
    <3>1. upTo(x) \subseteq upTo(y)
      BY <2>1, <2>2
    <3> QED
      BY <3>1
  <2>3. ASSUME f[y] < f[x] PROVE f[x] \in below(x) /\ f[x] \notin below(y)
    <3>1. x \in upTo(x)
      BY <2>1
    <3>2. \A z \in upTo(y) : f[z] # f[x]
      BY <2>1, <2>3
    <3> QED
      BY <3>1, <3>2
  <2> QED
    BY <2>2, <2>3
<1> HIDE DEF below
<1>4. ASSUME NEW x \in DOMAIN f PROVE Cardinality(below(x)) \in Nat
  BY <1>2, FS_CardinalityType
<1>5. ASSUME NEW x \in DOMAIN f, NEW y \in DOMAIN f
      PROVE  Cardinality(below(x)) <= Cardinality(below(y)) <=> f[x] <= f[y]
  <2>1. f[x] \in Int /\ f[y] \in Int
    OBVIOUS
  <2>2. CASE f[x] <= f[y]
    <3>1. below(x) \in SUBSET below(y)
      BY <1>3, <2>2
    <3>2. Cardinality(below(x)) <= Cardinality(below(y))
      BY <1>2, <3>1, FS_Subset
    <3> QED
      BY <2>2, <3>2
  <2>3. CASE f[y] < f[x]
    <3>1. below(y) \in SUBSET below(x) /\ below(y) # below(x)
      BY <1>3, <2>1, <2>3
    <3>2. /\ Cardinality(below(y)) <= Cardinality(below(x))
          /\ Cardinality(below(x)) # Cardinality(below(y))
      BY <1>2, <3>1, FS_Subset
    <3> QED
      BY <1>4, <2>1, <2>3, <3>2
  <2> QED
    BY <2>1, <2>2, <2>3
<1> QED
  BY <1>1, <1>4, <1>5

\* The largest number of a finite function.
LEMMA MaxOfRange ==
    ASSUME NEW f, IsFiniteSet(DOMAIN f), \A x \in DOMAIN f : f[x] \in Nat
    PROVE  /\ Max({0} \cup Range(f)) \in Nat
           /\ \A x \in DOMAIN f : f[x] <= Max({0} \cup Range(f))
           /\ \A x \in DOMAIN f : (\A y \in DOMAIN f : f[y] <= f[x]) => f[x] = Max(Range(f))
<1> DEFINE g == [x \in DOMAIN f |-> f[x]]
           S == {0} \cup Range(f)
<1>1. g \in Surjection(DOMAIN f, Range(f))
  BY DEF Surjection, Range
<1>2. IsFiniteSet(Range(f)) /\ Range(f) \in SUBSET Int
  <2>1. IsFiniteSet(Range(f))
    <3> HIDE DEF g
    <3> QED
      BY <1>1, FS_Surjection
  <2> QED
    BY <2>1 DEF Range
<1>3. IsFiniteSet(S) /\ S \in SUBSET Int /\ S # {}
  <2>1. IsFiniteSet({0})
    BY FS_Singleton
  <2>2. IsFiniteSet(S)
    BY <1>2, <2>1, FS_Union
  <2> QED
    BY <1>2, <2>2
<1>4. PICK m \in S : \A y \in S : y <= m
  <2> HIDE DEF S
  <2> QED
    BY <1>3, GreatestInteger
<1>5. \E x \in S : \A y \in S : x >= y
  BY <1>3, <1>4
<1>6. Max(S) \in S /\ \A y \in S : Max(S) >= y
  <2> HIDE DEF S
  <2> QED
    BY <1>5 DEF Max
<1>7. Max(S) \in Nat /\ \A x \in DOMAIN f : f[x] <= Max(S)
  <2>1. \A x \in DOMAIN f : f[x] \in S
    BY DEF Range
  <2>2. Max(S) \in Int /\ Max(S) >= 0
    BY <1>3, <1>6
  <2> QED
    BY <1>6, <2>1, <2>2
<1>8. ASSUME NEW x \in DOMAIN f, \A y \in DOMAIN f : f[y] <= f[x] PROVE f[x] = Max(Range(f))
  <2>1. f[x] \in Range(f) /\ \A y \in Range(f) : f[x] >= y /\ y \in Int
    BY <1>8 DEF Range
  <2>2. Max(Range(f)) \in Range(f) /\ Max(Range(f)) >= f[x]
    BY <2>1 DEF Max
  <2> QED
    BY <2>1, <2>2
<1> QED
  BY <1>7, <1>8

\* After an access: what has gone has no number, what was accessed has the highest.
LEMMA RecencyIs ==
    ASSUME IsFiniteSet(Resident), \A x \in Resident : stamp[x] \in Nat,
           NEW Out, NEW In, IsFiniteSet(In)
    PROVE  /\ DOMAIN Recency(Out, In) = (Resident \ Out) \cup In
           /\ IsFiniteSet((Resident \ Out) \cup In)
           /\ \A x \in (Resident \ Out) \cup In : Recency(Out, In)[x] \in Nat
           /\ \A x, y \in (Resident \ Out) \ In :
                Recency(Out, In)[x] <= Recency(Out, In)[y] <=> stamp[x] <= stamp[y]
           /\ \A x \in In, y \in (Resident \ Out) \cup In :
                /\ Recency(Out, In)[y] <= Recency(Out, In)[x]
                /\ Recency(Out, In)[x] <= Recency(Out, In)[y] => y \in In
<1> DEFINE now == 1 + Max({0} \cup Range(stamp))
           R == (Resident \ Out) \cup In
           f == [x \in R |-> IF x \in In THEN now ELSE stamp[x]]
<1>1. Recency(Out, In) = Renumber(f)
  BY DEF Recency
<1>2. now \in Nat /\ \A x \in Resident : stamp[x] < now
  <2> DEFINE m == Max({0} \cup Range(stamp))
  <2>1. m \in Nat /\ \A x \in Resident : stamp[x] <= m
    BY MaxOfRange DEF Resident
  <2> HIDE DEF m
  <2>2. 1 + m \in Nat /\ \A x \in Resident : stamp[x] < 1 + m
    BY <2>1
  <2> QED
    BY <2>2 DEF m
<1> HIDE DEF now
<1>3. IsFiniteSet(R)
  <2>1. IsFiniteSet(Resident \ Out)
    BY FS_Subset
  <2> QED
    BY <2>1, FS_Union
<1>4. /\ DOMAIN f = R
      /\ \A x \in R : f[x] \in Int
      /\ \A x \in In : f[x] = now
      /\ \A x \in (Resident \ Out) \ In : f[x] = stamp[x] /\ f[x] < now
  BY <1>2
<1> HIDE DEF f
<1>5. /\ DOMAIN Renumber(f) = R
      /\ \A x \in R : Renumber(f)[x] \in Nat
      /\ \A x, y \in R : Renumber(f)[x] <= Renumber(f)[y] <=> f[x] <= f[y]
  BY <1>3, <1>4, RenumberKeepsOrder
<1>6. \A x \in In, y \in R : f[y] <= f[x] /\ (f[x] <= f[y] => y \in In)
  BY <1>2, <1>4
<1> QED
  BY <1>1, <1>3, <1>4, <1>5, <1>6

------------------------------------------------------------------------------
(* What the steps have in common. *)

\* Granules that go, and granules that come, change the resident bytes by theirs.
LEMMA BytesReplaced ==
    ASSUME Shape, PoolConsistent, NEW out \in SUBSET Resident,
           NEW in, IsFiniteSet(in), in \cap Resident = {},
           Resident' = (Resident \ out) \cup in,
           \A x \in Resident \ out : SizeOf(x)' = SizeOf(x),
           \A x \in in : SizeOf(x)' \in Nat
    PROVE  /\ SumFunction([x \in in |-> SizeOf(x)']) \in Nat
           /\ BytesOf(Resident)'
                = BytesOf(Resident) - BytesOf(out) + SumFunction([x \in in |-> SizeOf(x)'])
           /\ BytesOf(Resident) \in Nat /\ BytesOf(out) \in Nat
<1>1. PICK R : R = Resident
  OBVIOUS
<1> DEFINE S == R \ out
           f == [x \in R |-> SizeOf(x)]
           g == [x \in S \cup in |-> SizeOf(x)']
           h == [x \in in |-> SizeOf(x)']
<1>2. IsFiniteSet(R) /\ \A x \in R : SizeOf(x) \in Nat
  BY <1>1, ResidentGranules DEF Shape
<1>3. IsFiniteSet(S) /\ S \in SUBSET R
  BY <1>2, FS_Subset
<1>4. S \cap in = {} /\ Resident' = S \cup in
  BY <1>1
<1>5. \A x \in S : SizeOf(x)' = SizeOf(x) /\ SizeOf(x) \in Nat
  BY <1>1, <1>2
<1>6. /\ BytesOf(R) - BytesOf(out) = BytesOf(S)
      /\ BytesOf(R) \in Nat /\ BytesOf(out) \in Nat
  BY <1>1, <1>2, BytesDifference
<1>7. BytesOf(S) = SumFunctionOnSet(f, S)
  BY <1>2, <1>3, BytesPart
<1>8. /\ \A x \in S : g[x] = f[x] /\ f[x] \in Nat
      /\ \A x \in in : g[x] = h[x] /\ h[x] \in Nat
      /\ \A x \in S \cup in : g[x] \in Int
  BY <1>3, <1>5
<1>9. BytesOf(Resident)' = SumFunctionOnSet(g, S \cup in)
  <2>1. BytesOf(Resident)' = SumFunction([x \in Resident' |-> SizeOf(x)'])
    BY DEF BytesOf
  <2>2. [x \in Resident' |-> SizeOf(x)'] = g
    BY <1>4
  <2>3. DOMAIN g = S \cup in
    OBVIOUS
  <2> QED
    BY <2>1, <2>2, <2>3, Zenon DEF SumFunction
<1>10. SumFunction(h) = SumFunctionOnSet(h, in)
  BY DEF SumFunction
<1> HIDE DEF f, g, h, S
<1>11. SumFunctionOnSet(g, S \cup in) = SumFunctionOnSet(g, S) + SumFunctionOnSet(g, in)
  BY <1>3, <1>4, <1>8, SumUnion
<1>12. SumFunctionOnSet(g, S) = SumFunctionOnSet(f, S)
  BY <1>3, <1>8, SumAgree
<1>13. SumFunctionOnSet(g, in) = SumFunctionOnSet(h, in)
  BY <1>8, SumAgree
<1>14. SumFunctionOnSet(h, in) \in Nat
  BY <1>8, SumNat
<1>15. BytesOf(R) = BytesOf(Resident)
  BY <1>1, Zenon
<1>16. BytesOf(Resident)' = BytesOf(R) - BytesOf(out) + SumFunction(h)
  BY <1>6, <1>7, <1>9, <1>10, <1>11, <1>12, <1>13
<1> QED
  BY <1>6, <1>10, <1>14, <1>15, <1>16 DEF h

\* The victims of a request for room make it.
LEMMA RoomMade ==
    ASSUME Shape, PoolConsistent, StampsApart, NEW protected, NEW size \in Nat,
           RoomFor(size, protected)
    PROVE  /\ Victims(size, protected) \in SUBSET Candidates(protected)
           /\ Victims(size, protected) \in SUBSET Resident
           /\ used - BytesOf(Victims(size, protected)) + size <= Capacity
<1> DEFINE out == Victims(size, protected)
<1>1. used \in Nat
  <2>1. BytesOf(Resident) \in Nat
    BY ResidentGranules, BytesPart DEF Shape
  <2> QED
    BY <2>1 DEF PoolConsistent
<1>2. out \in SUBSET Candidates(protected) /\ BytesOf(out) >= Need(size)
  BY <1>1, VictimsSuffice
<1>3. BytesOf(out) \in Nat
  BY <1>2, CandidatesSized, BytesPart
<1>4. Need(size) \in Nat /\ Need(size) >= used + size - Capacity
  BY <1>1, NeedIs
<1>5. used - BytesOf(out) + size <= Capacity
  <2> HIDE DEF out
  <2> QED
    BY <1>1, <1>2, <1>3, <1>4, PoolWellFormed
<1> QED
  BY <1>2, <1>5 DEF Candidates

\* A granule that may be evicted has a backing, which has it after the eviction.
LEMMA EvictedIsBacked ==
    ASSUME PoolInv, NEW out \in SUBSET Resident, \A x \in out : Profile[x[1]].evictable
    PROVE  /\ out \subseteq WrittenBack(out)
           /\ backingCopy \subseteq WrittenBack(out)
<1>1. \A x \in out : x \in poolCopy /\ (x \notin dirty => x \in backingCopy)
  <2> TAKE x \in out
  <2>1. x[1] \in Allocations
    BY ResidentGranules DEF PoolInv
  <2>2. Profile[x[1]].backed
    BY <2>1, ProfilesWellFormed
  <2> QED
    BY <2>2 DEF PoolInv, ContentKept
<1>2. out \subseteq WrittenBack(out)
  BY <1>1 DEF WrittenBack
<1>3. backingCopy \subseteq WrittenBack(out)
  <2> SUFFICES ASSUME NEW x \in backingCopy PROVE x \in WrittenBack(out)
    OBVIOUS
  <2>1. CASE x \in out
    BY <1>2, <2>1
  <2>2. CASE x \notin out
    BY <2>2 DEF WrittenBack
  <2> QED
    BY <2>1, <2>2
<1> QED
  BY <1>2, <1>3

\* The recency of an access to one allocation.
LEMMA RecencyKeepsShape ==
    ASSUME Shape, StampsApart, NEW out, NEW In, IsFiniteSet(In),
           \A x, y \in In : x[1] = y[1], stamp' = Recency(out, In)
    PROVE  /\ Resident' = (Resident \ out) \cup In
           /\ IsFiniteSet(Resident') /\ \A x \in Resident' : stamp'[x] \in Nat
           /\ StampsApart'
<1> DEFINE R == (Resident \ out) \cup In
<1>1. /\ Resident' = R /\ IsFiniteSet(R) /\ \A x \in R : stamp'[x] \in Nat
      /\ \A x, y \in (Resident \ out) \ In : stamp'[x] <= stamp'[y] <=> stamp[x] <= stamp[y]
      /\ \A x \in In, y \in R : stamp'[y] <= stamp'[x] /\ (stamp'[x] <= stamp'[y] => y \in In)
  <2>1. IsFiniteSet(Resident) /\ \A x \in Resident : stamp[x] \in Nat
    BY DEF Shape
  <2>2. Resident' = DOMAIN stamp'
    BY DEF Resident
  <2> QED
    BY <2>1, <2>2, RecencyIs
<1>2. ASSUME NEW x \in R, NEW y \in R, stamp'[x] = stamp'[y] PROVE x[1] = y[1]
  <2>0. stamp'[x] <= stamp'[y] /\ stamp'[y] <= stamp'[x]
    BY <1>1, <1>2
  <2>1. CASE x \in In \/ y \in In
    <3>1. x \in In /\ y \in In
      BY <1>1, <2>0, <2>1
    <3> QED
      BY <3>1
  <2>2. CASE x \notin In /\ y \notin In
    <3>1. x \in (Resident \ out) \ In /\ y \in (Resident \ out) \ In
      BY <2>2
    <3>2. stamp[x] <= stamp[y] /\ stamp[y] <= stamp[x]
      BY <1>1, <2>0, <3>1
    <3>3. stamp[x] = stamp[y]
      BY <3>1, <3>2 DEF Shape
    <3> QED
      BY <3>1, <3>3 DEF StampsApart
  <2> QED
    BY <2>1, <2>2
<1> HIDE DEF R
<1>3. StampsApart'
  BY <1>1, <1>2 DEF StampsApart
<1> QED
  BY <1>1, <1>3 DEF R

\* Without an access the numbers that are left keep their order.
LEMMA RemovalKeepsShape ==
    ASSUME Shape, StampsApart, NEW out,
           stamp' = Renumber(Restrict(stamp, Resident \ out))
    PROVE  /\ Resident' = Resident \ out
           /\ IsFiniteSet(Resident') /\ \A x \in Resident' : stamp'[x] \in Nat
           /\ StampsApart'
<1>1. PICK f : f = Restrict(stamp, Resident \ out)
  OBVIOUS
<1>2. DOMAIN f = Resident \ out /\ \A x \in DOMAIN f : f[x] = stamp[x] /\ f[x] \in Nat
  BY <1>1 DEF Restrict, Shape
<1>3. IsFiniteSet(DOMAIN f)
  BY <1>2, FS_Subset DEF Shape
<1>4. /\ DOMAIN Renumber(f) = DOMAIN f
      /\ \A x \in DOMAIN f : Renumber(f)[x] \in Nat
      /\ \A x, y \in DOMAIN f : Renumber(f)[x] <= Renumber(f)[y] <=> f[x] <= f[y]
  BY <1>2, <1>3, RenumberKeepsOrder
<1>5. stamp' = Renumber(f) /\ Resident' = DOMAIN stamp'
  BY <1>1 DEF Resident
<1>6. ASSUME NEW x \in DOMAIN f, NEW y \in DOMAIN f, stamp'[x] = stamp'[y] PROVE x[1] = y[1]
  <2>1. Renumber(f)[x] <= Renumber(f)[y] /\ Renumber(f)[y] <= Renumber(f)[x]
    BY <1>4, <1>5, <1>6
  <2>2. f[x] <= f[y] /\ f[y] <= f[x]
    BY <1>4, <2>1
  <2>3. stamp[x] = stamp[y]
    BY <1>2, <2>2
  <2> QED
    BY <1>2, <2>3 DEF StampsApart
<1>7. Resident' = DOMAIN f /\ \A x \in DOMAIN f : stamp'[x] \in Nat
  BY <1>4, <1>5
<1>8. StampsApart'
  BY <1>6, <1>7 DEF StampsApart
<1> QED
  BY <1>2, <1>3, <1>7, <1>8

------------------------------------------------------------------------------
(* Each step keeps the invariant. *)

\* A step of views and leases.
LEMMA TableStepKeepsPoolInv ==
    ASSUME PoolInv, UNCHANGED <<committed, bytes>>, views' \subseteq Views,
           LeasedGranules' \subseteq Resident,
           \A v \in views' : Window[v].owner \in Live,
           \A l \in DOMAIN leases' : /\ leases'[l].owner \in Live
                                     /\ \A x \in leases'[l].granules : x[1] = leases'[l].owner
    PROVE  PoolInv'
<1>1. /\ Resident' = Resident /\ Live' = Live /\ committed' = committed
      /\ stamp' = stamp /\ dirty' = dirty /\ used' = used
      /\ poolCopy' = poolCopy /\ backingCopy' = backingCopy
  BY DEF bytes, Resident, Live
<1>2. BytesOf(Resident)' = BytesOf(Resident)
  BY <1>1 DEF BytesOf, SizeOf
<1>3. Shape' /\ StampsApart'
  BY <1>1 DEF PoolInv, Shape, StampsApart
<1>4. PoolConsistent'
  BY <1>1, <1>2 DEF PoolInv, PoolConsistent
<1>5. ContentKept'
  BY <1>1 DEF PoolInv, ContentKept
<1> QED
  BY <1>3, <1>4, <1>5 DEF PoolInv

LEMMA AcquireKeepsPoolInv ==
    ASSUME PoolInv, NEW l, NEW t \in Targets, NEW c, NEW offset, NEW n,
           AcquireLease(l, t, c, offset, n)
    PROVE  PoolInv'
<1> DEFINE granules == Span(OwnerOf(t), OffsetOf(t) + offset, n)
           lease == [consumer |-> c, target |-> t, owner |-> OwnerOf(t), granules |-> granules]
<1>1. /\ granules \subseteq Resident
      /\ leases' = [k \in DOMAIN leases \cup {l} |-> IF k = l THEN lease ELSE leases[k]]
      /\ UNCHANGED <<committed, views, bytes>>
  BY DEF AcquireLease, tables
<1>2. OwnerOf(t) \in Live
  BY WindowsWellFormed DEF Targets, OwnerOf, PoolInv, Shape, PoolConsistent
<1> HIDE DEF granules
<1>3. /\ DOMAIN leases' = DOMAIN leases \cup {l}
      /\ \A k \in DOMAIN leases' :
           \/ leases'[k].granules = granules /\ leases'[k].owner = OwnerOf(t)
           \/ k \in DOMAIN leases /\ leases'[k] = leases[k]
  BY <1>1
<1>4. LeasedGranules' \subseteq Resident
  <2>1. \A k \in DOMAIN leases : leases[k].granules \subseteq Resident
    BY DEF LeasedGranules, PoolInv, PoolConsistent
  <2>2. \A k \in DOMAIN leases' : leases'[k].granules \subseteq Resident
    BY <1>1, <1>3, <2>1
  <2> QED
    BY <2>2 DEF LeasedGranules
<1>5. \A x \in granules : x[1] = OwnerOf(t)
  BY DEF granules, Span
<1>6. \A k \in DOMAIN leases' : /\ leases'[k].owner \in Live
                                /\ \A x \in leases'[k].granules : x[1] = leases'[k].owner
  BY <1>2, <1>3, <1>5 DEF PoolInv, PoolConsistent, Shape
<1>7. views' \subseteq Views /\ \A v \in views' : Window[v].owner \in Live
  BY <1>1 DEF PoolInv, Shape, PoolConsistent
<1> QED
  BY <1>1, <1>4, <1>6, <1>7, TableStepKeepsPoolInv

LEMMA ReleaseLeasesKeepsPoolInv ==
    ASSUME PoolInv, NEW L, ReleaseLeases(L)
    PROVE  PoolInv'
<1>1. /\ DOMAIN leases' = DOMAIN leases \ L
      /\ \A k \in DOMAIN leases \ L : leases'[k] = leases[k]
      /\ UNCHANGED <<committed, views, bytes>>
  BY DEF ReleaseLeases, Restrict, tables
<1>2. LeasedGranules' \subseteq LeasedGranules
  BY <1>1 DEF LeasedGranules
<1>3. /\ LeasedGranules' \subseteq Resident
      /\ \A k \in DOMAIN leases' : /\ leases'[k].owner \in Live
                                   /\ \A x \in leases'[k].granules : x[1] = leases'[k].owner
      /\ views' \subseteq Views /\ \A v \in views' : Window[v].owner \in Live
  BY <1>1, <1>2 DEF PoolInv, Shape, PoolConsistent
<1> QED
  BY <1>1, <1>3, TableStepKeepsPoolInv

LEMMA ViewsKeepPoolInv ==
    ASSUME PoolInv, NEW v \in Views, CreateView(v) \/ ReleaseView(v)
    PROVE  PoolInv'
<1>1. /\ UNCHANGED <<committed, leases, bytes>>
      /\ \A w \in views' : w \in views \/ (w = v /\ Window[v].owner \in Live)
  BY DEF CreateView, ReleaseView, holds
<1>2. /\ LeasedGranules' = LeasedGranules
      /\ \A k \in DOMAIN leases' : /\ leases'[k].owner \in Live
                                   /\ \A x \in leases'[k].granules : x[1] = leases'[k].owner
  BY <1>1 DEF LeasedGranules, PoolInv, PoolConsistent, Shape
<1>3. /\ LeasedGranules' \subseteq Resident
      /\ views' \subseteq Views /\ \A w \in views' : Window[w].owner \in Live
  BY <1>1, <1>2 DEF PoolInv, Shape, PoolConsistent
<1> QED
  BY <1>1, <1>2, <1>3, TableStepKeepsPoolInv

\* The leases are unchanged and the step takes none of their granules.
LEMMA LeasesKept ==
    ASSUME UNCHANGED leases
    PROVE  LeasedGranules' = LeasedGranules
BY DEF LeasedGranules

\* A removal of unleased, evictable granules.
LEMMA EvictKeepsPoolInv ==
    ASSUME PoolInv, NEW a \in Live, NEW n, Evict(a, n)
    PROVE  PoolInv'
<1> DEFINE free == {x \in Resident \ LeasedGranules : x[1] = a}
<1>1. PICK out : out = {x \in free : BytesOf({y \in free : y[2] > x[2]}) < n}
  OBVIOUS
<1>2. /\ Profile[a].evictable
      /\ stamp' = Renumber(Restrict(stamp, Resident \ out))
      /\ dirty' = dirty \ out
      /\ used' = used - BytesOf(out)
      /\ poolCopy' = poolCopy \ out
      /\ backingCopy' = WrittenBack(out)
      /\ UNCHANGED <<committed, views, leases>>
  BY <1>1 DEF Evict, tables
<1>3. /\ out \in SUBSET Resident /\ out \cap LeasedGranules = {}
      /\ \A x \in out : Profile[x[1]].evictable
  BY <1>1, <1>2
<1>4. Live' = Live /\ \A x : SizeOf(x)' = SizeOf(x)
  BY <1>2 DEF Live, SizeOf
<1>5. /\ Resident' = Resident \ out
      /\ IsFiniteSet(Resident') /\ \A x \in Resident' : stamp'[x] \in Nat
      /\ StampsApart'
  BY <1>2, RemovalKeepsShape DEF PoolInv
<1>6. Shape'
  BY <1>2, <1>4, <1>5 DEF PoolInv, Shape
<1>7. used' = BytesOf(Resident)' /\ used' <= Capacity
  <2> DEFINE h == [x \in {} |-> SizeOf(x)']
  <2>1. SumFunction(h) = 0
    BY SumEmpty DEF SumFunction
  <2>2. IsFiniteSet({})
    BY FS_EmptySet
  <2>3. /\ BytesOf(Resident)' = BytesOf(Resident) - BytesOf(out) + SumFunction(h)
        /\ BytesOf(Resident) \in Nat /\ BytesOf(out) \in Nat
    BY <1>3, <1>4, <1>5, <2>2, BytesReplaced DEF PoolInv
  <2>4. used = BytesOf(Resident) /\ used <= Capacity
    BY DEF PoolInv, PoolConsistent
  <2> HIDE DEF h
  <2> QED
    BY <1>2, <2>1, <2>3, <2>4, PoolWellFormed
<1>8. PoolConsistent'
  <2>1. LeasedGranules' = LeasedGranules
    BY <1>2, LeasesKept
  <2>2. dirty' \cup LeasedGranules' \subseteq Resident'
    BY <1>2, <1>3, <1>5, <2>1 DEF PoolInv, PoolConsistent
  <2>3. \A x \in Resident' : x[1] \in Live' /\ x \in Prefix(x[1], committed'[x[1]])
    BY <1>2, <1>4, <1>5 DEF PoolInv, PoolConsistent
  <2>4. /\ \A v \in views' : Window[v].owner \in Live'
        /\ \A l \in DOMAIN leases' : leases'[l].owner \in Live'
    BY <1>2, <1>4 DEF PoolInv, PoolConsistent
  <2> QED
    BY <1>7, <2>2, <2>3, <2>4 DEF PoolConsistent
<1>9. ContentKept'
  <2>1. out \subseteq backingCopy' /\ backingCopy \subseteq backingCopy'
    BY <1>2, <1>3, EvictedIsBacked
  <2>2. Resident' \subseteq poolCopy'
    BY <1>2, <1>5 DEF PoolInv, ContentKept
  <2>3. \A x \in Resident' \ dirty' : Profile[x[1]].backed => x \in backingCopy'
    BY <1>2, <1>5, <2>1 DEF PoolInv, ContentKept
  <2>4. \A b \in Live' : Profile[b].backed =>
          Prefix(b, committed'[b]) \subseteq Resident' \cup backingCopy'
    BY <1>2, <1>4, <1>5, <2>1 DEF PoolInv, ContentKept
  <2> QED
    BY <2>2, <2>3, <2>4 DEF ContentKept
<1> QED
  BY <1>5, <1>6, <1>8, <1>9 DEF PoolInv

LEMMA ReleaseKeepsPoolInv ==
    ASSUME PoolInv, NEW a \in Allocations, Release(a)
    PROVE  PoolInv'
<1>1. PICK own : own = {x \in Resident : x[1] = a}
  OBVIOUS
<1>2. /\ a \in Live
      /\ \A l \in DOMAIN leases : leases[l].owner # a
      /\ \A v \in views : Window[v].owner # a
      /\ committed' = Restrict(committed, Live \ {a})
      /\ stamp' = Renumber(Restrict(stamp, Resident \ own))
      /\ dirty' = dirty \ own
      /\ used' = used - BytesOf(own)
      /\ poolCopy' = poolCopy \ own
      /\ backingCopy' = {x \in backingCopy : x[1] # a}
      /\ UNCHANGED <<views, leases>>
  BY <1>1 DEF Release
<1>3. own \in SUBSET Resident
  BY <1>1
<1>4. /\ Live' = Live \ {a}
      /\ \A b \in Live \ {a} : committed'[b] = committed[b]
  BY <1>2 DEF Live, Restrict
<1>5. /\ Resident' = Resident \ own
      /\ IsFiniteSet(Resident') /\ \A x \in Resident' : stamp'[x] \in Nat
      /\ StampsApart'
  BY <1>2, RemovalKeepsShape DEF PoolInv
<1>6. \A x \in Resident \ own : x[1] \in Live \ {a} /\ SizeOf(x)' = SizeOf(x)
  <2> TAKE x \in Resident \ own
  <2>1. x[1] \in Live \ {a}
    BY <1>1 DEF PoolInv, PoolConsistent
  <2> QED
    BY <1>4, <2>1 DEF SizeOf
<1>7. Shape'
  BY <1>2, <1>4, <1>5 DEF PoolInv, Shape
<1>8. used' = BytesOf(Resident)' /\ used' <= Capacity
  <2> DEFINE h == [x \in {} |-> SizeOf(x)']
  <2>1. SumFunction(h) = 0
    BY SumEmpty DEF SumFunction
  <2>2. IsFiniteSet({})
    BY FS_EmptySet
  <2>3. /\ BytesOf(Resident)' = BytesOf(Resident) - BytesOf(own) + SumFunction(h)
        /\ BytesOf(Resident) \in Nat /\ BytesOf(own) \in Nat
    BY <1>3, <1>5, <1>6, <2>2, BytesReplaced DEF PoolInv
  <2>4. used = BytesOf(Resident) /\ used <= Capacity
    BY DEF PoolInv, PoolConsistent
  <2> HIDE DEF h
  <2> QED
    BY <1>2, <2>1, <2>3, <2>4, PoolWellFormed
<1>9. LeasedGranules \cap own = {}
  BY <1>1, <1>2 DEF PoolInv, Shape, LeasedGranules
<1>10. PoolConsistent'
  <2>1. LeasedGranules' = LeasedGranules
    BY <1>2, LeasesKept
  <2>2. dirty' \cup LeasedGranules' \subseteq Resident'
    BY <1>2, <1>5, <1>9, <2>1 DEF PoolInv, PoolConsistent
  <2>3. \A x \in Resident' : x[1] \in Live' /\ x \in Prefix(x[1], committed'[x[1]])
    BY <1>4, <1>5, <1>6 DEF PoolInv, PoolConsistent
  <2>4. /\ \A v \in views' : Window[v].owner \in Live'
        /\ \A l \in DOMAIN leases' : leases'[l].owner \in Live'
    BY <1>2, <1>4 DEF PoolInv, PoolConsistent
  <2> QED
    BY <1>8, <2>2, <2>3, <2>4 DEF PoolConsistent
<1>11. ContentKept'
  <2>1. Resident' \subseteq poolCopy'
    BY <1>2, <1>5 DEF PoolInv, ContentKept
  <2>2. \A x \in Resident' \ dirty' : Profile[x[1]].backed => x \in backingCopy'
    BY <1>2, <1>5, <1>6 DEF PoolInv, ContentKept
  <2>3. ASSUME NEW b \in Live', Profile[b].backed, NEW x \in Prefix(b, committed'[b])
        PROVE  x \in Resident' \cup backingCopy'
    <3>1. b \in Live /\ b # a /\ committed'[b] = committed[b]
      BY <1>4
    <3>2. x \in Resident \cup backingCopy
      BY <2>3, <3>1 DEF PoolInv, ContentKept
    <3>3. x[1] = b
      BY <2>3, <3>1, PrefixPairs, ProfilesWellFormed DEF PoolInv, Shape
    <3> QED
      BY <1>1, <1>2, <1>5, <3>1, <3>2, <3>3
  <2> QED
    BY <2>1, <2>2, <2>3 DEF ContentKept
<1> QED
  BY <1>5, <1>7, <1>10, <1>11 DEF PoolInv

LEMMA CommitKeepsPoolInv ==
    ASSUME PoolInv, NEW a \in Live, NEW n \in 1 .. Profile[a].size, Commit(a, n)
    PROVE  PoolInv'
<1>1. /\ committed[a] < n
      /\ \A x \in Resident : x[1] = a => SizeIn(x, n) = SizeOf(x)
      /\ committed' = [committed EXCEPT ![a] = n]
      /\ backingCopy' = backingCopy \cup
           (IF Profile[a].backed THEN Prefix(a, n) \ Prefix(a, committed[a]) ELSE {})
      /\ UNCHANGED <<views, leases, stamp, dirty, used, poolCopy>>
  BY DEF Commit, holds
<1>2. /\ Live' = Live /\ Resident' = Resident /\ committed'[a] = n
      /\ \A b \in Live \ {a} : committed'[b] = committed[b]
  BY <1>1 DEF Live, Resident
<1>3. /\ Live \subseteq Allocations /\ a \in Allocations
      /\ \A b \in Live : committed[b] \in Nat /\ committed'[b] \in Nat
                         /\ committed[b] <= committed'[b] /\ committed'[b] \in 0 .. Profile[b].size
  BY <1>1, <1>2, ProfilesWellFormed DEF PoolInv, Shape
<1>4. Shape'
  BY <1>1, <1>2, <1>3 DEF PoolInv, Shape
<1>5. StampsApart'
  BY <1>1, <1>2 DEF PoolInv, StampsApart
<1>6. BytesOf(Resident)' = BytesOf(Resident)
  <2>1. PICK R : R = Resident
    OBVIOUS
  <2>2. ASSUME NEW x \in R PROVE SizeOf(x) \in Nat /\ SizeOf(x)' = SizeOf(x)
    <3>1. SizeOf(x) \in Nat /\ x[1] \in Live
      BY <2>1, ResidentGranules DEF PoolInv
    <3>2. CASE x[1] = a
      BY <1>1, <1>2, <2>1, <3>1, <3>2 DEF SizeOf
    <3>3. CASE x[1] # a
      BY <1>2, <3>1, <3>3 DEF SizeOf
    <3> QED
      BY <3>2, <3>3
  <2>3. IsFiniteSet(R)
    BY <2>1 DEF PoolInv, Shape
  <2>4. BytesOf(R)' = BytesOf(R)
    BY <2>2, <2>3, BytesKept
  <2>5. BytesOf(Resident)' = SumFunction([x \in R |-> SizeOf(x)']) /\ BytesOf(R) = BytesOf(Resident)
    BY <1>2, <2>1 DEF BytesOf
  <2> QED
    BY <2>4, <2>5 DEF BytesOf
<1>7. PoolConsistent'
  <2>1. LeasedGranules' = LeasedGranules
    BY <1>1, LeasesKept
  <2>2. ASSUME NEW x \in Resident PROVE x[1] \in Live' /\ x \in Prefix(x[1], committed'[x[1]])
    <3>1. x[1] \in Live /\ x \in Prefix(x[1], committed[x[1]])
      BY DEF PoolInv, PoolConsistent
    <3> QED
      BY <1>2, <1>3, <3>1, PrefixGrows
  <2>3. /\ used' = BytesOf(Resident)' /\ used' <= Capacity
        /\ dirty' \cup LeasedGranules' \subseteq Resident'
        /\ \A v \in views' : Window[v].owner \in Live'
        /\ \A l \in DOMAIN leases' : leases'[l].owner \in Live'
    BY <1>1, <1>2, <1>6, <2>1 DEF PoolInv, PoolConsistent
  <2> QED
    BY <1>2, <2>2, <2>3 DEF PoolConsistent
<1>8. ContentKept'
  <2>1. /\ Resident' \subseteq poolCopy'
        /\ \A x \in Resident' \ dirty' : Profile[x[1]].backed => x \in backingCopy'
    BY <1>1, <1>2 DEF PoolInv, ContentKept
  <2>2. ASSUME NEW b \in Live', Profile[b].backed
        PROVE  Prefix(b, committed'[b]) \subseteq Resident' \cup backingCopy'
    <3>1. Prefix(b, committed[b]) \subseteq Resident \cup backingCopy
      BY <1>2, <2>2 DEF PoolInv, ContentKept
    <3>2. CASE b = a
      BY <1>1, <1>2, <2>2, <3>1, <3>2
    <3>3. CASE b # a
      BY <1>1, <1>2, <3>1, <3>3
    <3> QED
      BY <3>2, <3>3
  <2> QED
    BY <2>1, <2>2 DEF ContentKept
<1> QED
  BY <1>4, <1>5, <1>7, <1>8 DEF PoolInv

LEMMA RegisterKeepsPoolInv ==
    ASSUME PoolInv, NEW a \in Allocations, Register(a)
    PROVE  PoolInv'
<1>1. PICK p : p = Profile[a]
  OBVIOUS
<1>2. PICK in : in = Prefix(a, p.resident)
  OBVIOUS
<1>3. PICK size : size = SumFunction([x \in in |-> SizeIn(x, p.committed)])
  OBVIOUS
<1>4. PICK out : out = Victims(size, {})
  OBVIOUS
<1>5. /\ a \notin Live
      /\ RoomFor(size, {})
      /\ committed' = [b \in Live \cup {a} |-> IF b = a THEN p.committed ELSE committed[b]]
      /\ stamp' = Recency(out, in)
      /\ dirty' = (dirty \ out) \cup (IF p.dirty THEN in ELSE {})
      /\ used' = used - BytesOf(out) + size
      /\ poolCopy' = (poolCopy \ out) \cup in
      /\ backingCopy' = WrittenBack(out) \cup
           (IF p.backed THEN Prefix(a, p.committed) \ (IF p.dirty THEN in ELSE {}) ELSE {})
      /\ UNCHANGED <<views, leases>>
  BY <1>1, <1>2, <1>3, <1>4 DEF Register
<1>6. /\ p.committed \in Nat /\ p.resident \in Nat /\ p.resident <= p.committed
      /\ p.committed \in 0 .. p.size
  BY <1>1, ProfilesWellFormed
<1>7. /\ in \subseteq Prefix(a, p.committed)
      /\ IsFiniteSet(in)
      /\ \A x \in in : x[1] = a /\ SizeIn(x, p.committed) \in Nat
  BY <1>2, <1>6, PrefixGrows, PrefixFinite, PrefixPairs, SizePositive
<1>8. size \in Nat
  <2> DEFINE h == [x \in in |-> SizeIn(x, p.committed)]
  <2>1. size = SumFunctionOnSet(h, in) /\ \A x \in in : h[x] \in Nat
    BY <1>3, <1>7 DEF SumFunction
  <2> HIDE DEF h
  <2> QED
    BY <1>7, <2>1, SumNat
<1>9. /\ out \in SUBSET Candidates({}) /\ out \in SUBSET Resident
      /\ used - BytesOf(out) + size <= Capacity
  BY <1>4, <1>5, <1>8, RoomMade DEF PoolInv
<1>10. /\ out \cap LeasedGranules = {} /\ \A x \in out : Profile[x[1]].evictable
  BY <1>9 DEF Candidates
<1>11. \A x \in Resident : x[1] \in Live /\ x[1] # a
  BY <1>5 DEF PoolInv, PoolConsistent
<1>12. in \cap Resident = {}
  BY <1>7, <1>11
<1>13. /\ Live' = Live \cup {a} /\ committed'[a] = p.committed
       /\ \A b \in Live : committed'[b] = committed[b]
  BY <1>5 DEF Live
<1>14. /\ Resident' = (Resident \ out) \cup in
       /\ IsFiniteSet(Resident') /\ \A x \in Resident' : stamp'[x] \in Nat
       /\ StampsApart'
  BY <1>5, <1>7, RecencyKeepsShape DEF PoolInv
<1>15. /\ \A x \in Resident \ out : SizeOf(x)' = SizeOf(x)
       /\ \A x \in in : SizeOf(x)' = SizeIn(x, p.committed)
  BY <1>7, <1>11, <1>13 DEF SizeOf
<1>16. Shape'
  BY <1>1, <1>5, <1>6, <1>13, <1>14 DEF PoolInv, Shape
<1>17. used' = BytesOf(Resident)' /\ used' <= Capacity
  <2> DEFINE h == [x \in in |-> SizeOf(x)']
  <2>1. h = [x \in in |-> SizeIn(x, p.committed)]
    BY <1>15
  <2>2. SumFunction(h) = size
    BY <1>3, <2>1, Zenon
  <2>3. \A x \in in : SizeOf(x)' \in Nat
    BY <1>7, <1>15
  <2>4. /\ BytesOf(Resident)' = BytesOf(Resident) - BytesOf(out) + SumFunction(h)
    BY <1>7, <1>9, <1>12, <1>14, <1>15, <2>3, BytesReplaced DEF PoolInv
  <2>5. used = BytesOf(Resident)
    BY DEF PoolInv, PoolConsistent
  <2> HIDE DEF h
  <2> QED
    BY <1>5, <1>9, <2>2, <2>4, <2>5
<1>18. PoolConsistent'
  <2>1. LeasedGranules' = LeasedGranules
    BY <1>5, LeasesKept
  <2>2. dirty' \cup LeasedGranules' \subseteq Resident'
    BY <1>5, <1>10, <1>14, <2>1 DEF PoolInv, PoolConsistent
  <2>3. ASSUME NEW x \in Resident' PROVE x[1] \in Live' /\ x \in Prefix(x[1], committed'[x[1]])
    <3>1. CASE x \in in
      BY <1>7, <1>13, <3>1
    <3>2. CASE x \in Resident
      BY <1>11, <1>13, <3>2 DEF PoolInv, PoolConsistent
    <3> QED
      BY <1>14, <2>3, <3>1, <3>2
  <2>4. /\ \A v \in views' : Window[v].owner \in Live'
        /\ \A l \in DOMAIN leases' : leases'[l].owner \in Live'
    BY <1>5, <1>13 DEF PoolInv, PoolConsistent
  <2> QED
    BY <1>17, <2>2, <2>3, <2>4 DEF PoolConsistent
<1>19. ContentKept'
  <2>1. out \subseteq backingCopy' /\ backingCopy \subseteq backingCopy'
    BY <1>5, <1>9, <1>10, EvictedIsBacked
  <2>2. Resident' \subseteq poolCopy'
    BY <1>5, <1>14 DEF PoolInv, ContentKept
  <2>3. ASSUME NEW x \in Resident' \ dirty', Profile[x[1]].backed PROVE x \in backingCopy'
    <3>1. CASE x \in in
      BY <1>1, <1>5, <1>7, <2>3, <3>1
    <3>2. CASE x \in Resident \ out
      BY <1>5, <2>1, <2>3, <3>2 DEF PoolInv, ContentKept
    <3> QED
      BY <1>14, <2>3, <3>1, <3>2
  <2>4. ASSUME NEW b \in Live', Profile[b].backed
        PROVE  Prefix(b, committed'[b]) \subseteq Resident' \cup backingCopy'
    <3>1. CASE b = a
      BY <1>1, <1>5, <1>13, <1>14, <2>4, <3>1
    <3>2. CASE b # a
      <4>1. b \in Live /\ Prefix(b, committed'[b]) \subseteq Resident \cup backingCopy
        BY <1>13, <2>4, <3>2 DEF PoolInv, ContentKept
      <4> QED
        BY <1>14, <2>1, <4>1
    <3> QED
      BY <3>1, <3>2
  <2> QED
    BY <2>2, <2>3, <2>4 DEF ContentKept
<1> QED
  BY <1>14, <1>16, <1>18, <1>19 DEF PoolInv

\* What an access resolves to, and does.
LEMMA AccessFacts ==
    ASSUME PoolInv, NEW t \in Targets, NEW write \in BOOLEAN, NEW offset \in Nat, NEW n \in Nat,
           Access(t, write, offset, n)
    PROVE  \E a, from, required, missing, pageIn, out :
             LET size == BytesOf(missing) IN
             /\ a \in Live /\ from \in Nat
             /\ required = Span(a, from, n) /\ missing = required \ Resident
             /\ pageIn = PageIn(write, a, from, n) /\ out = Victims(size, required)
             /\ required \subseteq Prefix(a, committed[a]) /\ IsFiniteSet(required)
             /\ \A x \in required : x[1] = a /\ SizeOf(x) \in Nat
             /\ size \in Nat /\ RoomFor(size, required)
             /\ pageIn # {} => Profile[a].backed
             /\ stamp' = Recency(out, required)
             /\ dirty' = (dirty \ out) \cup (IF write THEN required ELSE {})
             /\ used' = used - BytesOf(out) + size
             /\ poolCopy' = (poolCopy \ out) \cup (pageIn \cap backingCopy)
                              \cup (IF write THEN required \ Partly(a, from, n) ELSE {})
             /\ backingCopy' = WrittenBack(out) \ (IF write THEN required ELSE {})
             /\ UNCHANGED <<committed, views, leases>>
<1>1. PICK a : a = OwnerOf(t)
  OBVIOUS
<1>2. PICK from : from = OffsetOf(t) + offset
  OBVIOUS
<1>3. PICK required : required = Span(a, from, n)
  OBVIOUS
<1>4. PICK missing : missing = required \ Resident
  OBVIOUS
<1>5. PICK pageIn : pageIn = PageIn(write, a, from, n)
  OBVIOUS
<1>6. PICK out : out = Victims(BytesOf(missing), required)
  OBVIOUS
<1>7. /\ from + n <= committed[a]
      /\ pageIn # {} => Profile[a].backed
      /\ RoomFor(BytesOf(missing), required)
      /\ stamp' = Recency(out, required)
      /\ dirty' = (dirty \ out) \cup (IF write THEN required ELSE {})
      /\ used' = used - BytesOf(out) + BytesOf(missing)
      /\ poolCopy' = (poolCopy \ out) \cup (pageIn \cap backingCopy)
                       \cup (IF write THEN required \ Partly(a, from, n) ELSE {})
      /\ backingCopy' = WrittenBack(out) \ (IF write THEN required ELSE {})
      /\ UNCHANGED <<committed, views, leases>>
  <2>1. OffsetOf(t) + offset + n <= committed[a]
    BY <1>1 DEF Access, Accessible
  <2> QED
    BY <1>1, <1>2, <1>3, <1>4, <1>5, <1>6, <2>1 DEF Access, tables
<1>8. a \in Live /\ a \in Allocations /\ committed[a] \in Nat
  BY <1>1, WindowsWellFormed, ProfilesWellFormed
     DEF Targets, OwnerOf, PoolInv, Shape, PoolConsistent
<1>9. from \in Nat
  BY <1>2, WindowsWellFormed DEF OffsetOf
<1>10. required \subseteq Prefix(a, committed[a])
  BY <1>3, <1>7, <1>8, <1>9, SpanInPrefix
<1>11. IsFiniteSet(required)
  BY <1>8, <1>10, PrefixFinite, FS_Subset
<1>12. \A x \in required : x[1] = a /\ SizeOf(x) \in Nat
  BY <1>8, <1>10, PrefixPairs, SizePositive DEF SizeOf
<1>13. BytesOf(missing) \in Nat
  BY <1>4, <1>11, <1>12, BytesPart
<1> QED
  BY <1>3, <1>4, <1>5, <1>6, <1>7, <1>8, <1>9, <1>10, <1>11, <1>12, <1>13

LEMMA AccessKeepsPoolInv ==
    ASSUME PoolInv, NEW t \in Targets, NEW write \in BOOLEAN, NEW offset \in Nat, NEW n \in Nat,
           Access(t, write, offset, n)
    PROVE  PoolInv'
<1>1. PICK a, from, required, missing, pageIn, out :
        LET size == BytesOf(missing) IN
        /\ a \in Live /\ from \in Nat
        /\ required = Span(a, from, n) /\ missing = required \ Resident
        /\ pageIn = PageIn(write, a, from, n) /\ out = Victims(size, required)
        /\ required \subseteq Prefix(a, committed[a]) /\ IsFiniteSet(required)
        /\ \A x \in required : x[1] = a /\ SizeOf(x) \in Nat
        /\ size \in Nat /\ RoomFor(size, required)
        /\ pageIn # {} => Profile[a].backed
        /\ stamp' = Recency(out, required)
        /\ dirty' = (dirty \ out) \cup (IF write THEN required ELSE {})
        /\ used' = used - BytesOf(out) + size
        /\ poolCopy' = (poolCopy \ out) \cup (pageIn \cap backingCopy)
                         \cup (IF write THEN required \ Partly(a, from, n) ELSE {})
        /\ backingCopy' = WrittenBack(out) \ (IF write THEN required ELSE {})
        /\ UNCHANGED <<committed, views, leases>>
  BY AccessFacts
<1>2. PICK size : size = BytesOf(missing) /\ size \in Nat
  BY <1>1
<1>3. /\ out \in SUBSET Candidates(required) /\ out \in SUBSET Resident
      /\ used - BytesOf(out) + size <= Capacity
  BY <1>1, <1>2, RoomMade DEF PoolInv
<1>4. /\ out \cap LeasedGranules = {} /\ out \cap required = {}
      /\ \A x \in out : Profile[x[1]].evictable
  BY <1>3 DEF Candidates
<1>5. Live' = Live /\ \A x : SizeOf(x)' = SizeOf(x)
  BY <1>1 DEF Live, SizeOf
<1>6. /\ Resident' = (Resident \ out) \cup required
      /\ IsFiniteSet(Resident') /\ \A x \in Resident' : stamp'[x] \in Nat
      /\ StampsApart'
  BY <1>1, RecencyKeepsShape DEF PoolInv
<1>7. /\ Resident' = (Resident \ out) \cup missing
      /\ missing \cap Resident = {} /\ IsFiniteSet(missing)
  BY <1>1, <1>4, <1>6, FS_Subset
<1>8. Shape'
  BY <1>1, <1>5, <1>6 DEF PoolInv, Shape
<1>9. used' = BytesOf(Resident)' /\ used' <= Capacity
  <2> DEFINE h == [x \in missing |-> SizeOf(x)']
  <2>1. h = [x \in missing |-> SizeOf(x)]
    BY <1>5
  <2>2. SumFunction(h) = size
    BY <1>2, <2>1, Zenon DEF BytesOf
  <2>3. \A x \in missing : SizeOf(x)' \in Nat
    BY <1>1, <1>5
  <2>4. BytesOf(Resident)' = BytesOf(Resident) - BytesOf(out) + SumFunction(h)
    BY <1>3, <1>5, <1>7, <2>3, BytesReplaced DEF PoolInv
  <2>5. used = BytesOf(Resident)
    BY DEF PoolInv, PoolConsistent
  <2>6. used' = used - BytesOf(out) + size
    BY <1>1, <1>2
  <2> HIDE DEF h
  <2> QED
    BY <1>3, <2>2, <2>4, <2>5, <2>6
<1>10. PoolConsistent'
  <2>1. LeasedGranules' = LeasedGranules
    BY <1>1, LeasesKept
  <2>2. dirty' \cup LeasedGranules' \subseteq Resident'
    BY <1>1, <1>4, <1>6, <2>1 DEF PoolInv, PoolConsistent
  <2>3. ASSUME NEW x \in Resident' PROVE x[1] \in Live' /\ x \in Prefix(x[1], committed'[x[1]])
    <3>1. CASE x \in required
      BY <1>1, <1>5, <3>1
    <3>2. CASE x \in Resident
      BY <1>1, <1>5, <3>2 DEF PoolInv, PoolConsistent
    <3> QED
      BY <1>6, <2>3, <3>1, <3>2
  <2>4. /\ \A v \in views' : Window[v].owner \in Live'
        /\ \A l \in DOMAIN leases' : leases'[l].owner \in Live'
    BY <1>1, <1>5 DEF PoolInv, PoolConsistent
  <2> QED
    BY <1>9, <2>2, <2>3, <2>4 DEF PoolConsistent
<1>11. /\ out \subseteq WrittenBack(out) /\ backingCopy \subseteq WrittenBack(out)
  BY <1>3, <1>4, EvictedIsBacked
\* What is paged in was up to date in the backing.
<1>12. Profile[a].backed => missing \subseteq backingCopy
  BY <1>1 DEF PoolInv, ContentKept
<1>13. /\ write => missing \ Partly(a, from, n) \subseteq required \ Partly(a, from, n)
       /\ pageIn = missing \cap (IF write THEN Partly(a, from, n) ELSE required)
  BY <1>1 DEF PageIn
<1>14. ContentKept'
  <2>1. ASSUME NEW x \in Resident' PROVE x \in poolCopy'
    <3>1. CASE x \in Resident \ out
      BY <1>1, <3>1 DEF PoolInv, ContentKept
    <3>2. CASE x \in pageIn
      BY <1>1, <1>12, <1>13, <3>2
    <3>3. CASE x \in missing \ pageIn
      BY <1>1, <1>13, <3>3
    <3> QED
      BY <1>7, <2>1, <3>1, <3>2, <3>3
  <2>2. ASSUME NEW x \in Resident' \ dirty', Profile[x[1]].backed PROVE x \in backingCopy'
    <3>1. ~(write /\ x \in required)
      BY <1>1, <2>2
    <3>2. x \in backingCopy
      <4>1. CASE x \in missing
        BY <1>1, <1>12, <2>2, <4>1
      <4>2. CASE x \in Resident \ out
        BY <1>1, <2>2, <4>2 DEF PoolInv, ContentKept
      <4> QED
        BY <1>7, <2>2, <4>1, <4>2
    <3> QED
      BY <1>1, <1>11, <3>1, <3>2
  <2>3. ASSUME NEW b \in Live', Profile[b].backed
        PROVE  Prefix(b, committed'[b]) \subseteq Resident' \cup backingCopy'
    <3>1. Prefix(b, committed'[b]) \subseteq Resident \cup backingCopy
      BY <1>1, <1>5, <2>3 DEF PoolInv, ContentKept
    <3>2. Resident \cup backingCopy \subseteq Resident' \cup WrittenBack(out)
      BY <1>6, <1>11
    <3>3. WrittenBack(out) \subseteq Resident' \cup backingCopy'
      BY <1>1, <1>6
    <3> QED
      BY <3>1, <3>2, <3>3
  <2> QED
    BY <2>1, <2>2, <2>3 DEF ContentKept
<1> QED
  BY <1>6, <1>8, <1>10, <1>14 DEF PoolInv

LEMMA InitPoolInv == ResInit => PoolInv
<1> SUFFICES ASSUME ResInit PROVE PoolInv
  OBVIOUS
<1>1. Live = {} /\ Resident = {} /\ views = {} /\ DOMAIN leases = {} /\ dirty = {} /\ used = 0
  BY DEF ResInit, Live, Resident
<1>2. LeasedGranules = {}
  BY <1>1 DEF LeasedGranules
<1>3. BytesOf(Resident) = 0
  <2> DEFINE h == [x \in {} |-> SizeOf(x)]
  <2>1. SumFunction(h) = 0
    BY SumEmpty DEF SumFunction
  <2> QED
    BY <1>1, <2>1 DEF BytesOf
<1>4. Shape /\ StampsApart
  BY <1>1, FS_EmptySet DEF Shape, StampsApart
<1>5. PoolConsistent
  BY <1>1, <1>2, <1>3, PoolWellFormed DEF PoolConsistent
<1>6. ContentKept
  BY <1>1 DEF ContentKept
<1> QED
  BY <1>4, <1>5, <1>6 DEF PoolInv

LEMMA NextKeepsPoolInv == PoolInv /\ [ResNext]_resVars => PoolInv'
<1> SUFFICES ASSUME PoolInv, [ResNext]_resVars PROVE PoolInv'
  OBVIOUS
<1>1. CASE UNCHANGED resVars
  BY <1>1, TableStepKeepsPoolInv
     DEF resVars, tables, holds, LeasedGranules, PoolInv, Shape, PoolConsistent
<1>2. ASSUME NEW t \in Targets, NEW offset \in 0 .. SizeOfTarget(t) - 1,
             NEW n \in 1 .. SizeOfTarget(t) - offset, NEW write \in BOOLEAN,
             Access(t, write, offset, n)
      PROVE  PoolInv'
  <2>1. offset \in Int /\ n \in Int /\ offset >= 0 /\ n >= 1
    BY <1>2
  <2>2. offset \in Nat /\ n \in Nat
    BY <2>1
  <2> QED
    BY <1>2, <2>2, AccessKeepsPoolInv
<1>3. ASSUME NEW c \in Consumers, RetireConsumer(c) PROVE PoolInv'
  BY <1>3, TableStepKeepsPoolInv
     DEF RetireConsumer, tables, LeasedGranules, PoolInv, Shape, PoolConsistent
<1>4. ASSUME NEW l \in Leases, ReleaseLease(l) PROVE PoolInv'
  BY <1>4, ReleaseLeasesKeepsPoolInv DEF ReleaseLease
<1>5. ASSUME NEW c \in Consumers, ReleaseConsumerLeases(c) PROVE PoolInv'
  BY <1>5, ReleaseLeasesKeepsPoolInv DEF ReleaseConsumerLeases
<1> QED
  BY <1>1, <1>2, <1>3, <1>4, <1>5, RegisterKeepsPoolInv, ReleaseKeepsPoolInv,
     ViewsKeepPoolInv, CommitKeepsPoolInv, EvictKeepsPoolInv, AcquireKeepsPoolInv DEF ResNext

\* The invariant of the pool.
THEOREM PoolInvariant == ResSpec => []PoolInv
<1> QED
  BY InitPoolInv, NextKeepsPoolInv, PTL DEF ResSpec

\* At every mutation boundary the pool counts its resident bytes exactly and has room
\* for them, and nothing is dirty, leased, viewed or resident that is not there.
THEOREM PoolIsConsistent == ResSpec => []PoolConsistent
<1>1. PoolInv => PoolConsistent
  BY DEF PoolInv
<1> QED
  BY <1>1, PoolInvariant, PTL

\* No write is lost, whatever is evicted, paged in, committed or released: the newest
\* bytes are in the pool or in the backing they will be read from.
THEOREM ContentIsKept == ResSpec => []ContentKept
<1>1. PoolInv => ContentKept
  BY DEF PoolInv
<1> QED
  BY <1>1, PoolInvariant, PTL

------------------------------------------------------------------------------
(* What is evicted. *)

\* The victims are the least recent candidates, and none too many.
LEMMA VictimsAreLeast ==
    ASSUME PoolInv, NEW required, IsFiniteSet(required), NEW size \in Nat, NEW out,
           out = Victims(size, required), RoomFor(size, required),
           stamp' = Recency(out, required), used' = used - BytesOf(out) + size,
           NEW x \in Evicted
    PROVE  /\ x \notin LeasedGranules
           /\ \A y \in Candidates({}) \ Evicted :
                stamp[x] <= stamp[y] \/ stamp'[y] = Max(Range(stamp'))
           /\ \/ used' + SizeOf(x) > Capacity
              \/ \E y \in Evicted : Before(x, y)
<1> DEFINE C == Candidates(required)
           Ahead(z) == {c \in C : Before(c, z)}
           need == Need(size)
<1>1. /\ out \in SUBSET C /\ out \in SUBSET Resident
      /\ out \cap required = {}
  BY RoomMade DEF PoolInv, Candidates
<1>2. /\ DOMAIN stamp' = (Resident \ out) \cup required
      /\ IsFiniteSet(DOMAIN stamp')
      /\ \A z \in DOMAIN stamp' : stamp'[z] \in Nat
      /\ \A z \in required, y \in DOMAIN stamp' : stamp'[y] <= stamp'[z]
  <2>1. IsFiniteSet(Resident) /\ \A z \in Resident : stamp[z] \in Nat
    BY DEF PoolInv, Shape
  <2>2. PICK new : new = Recency(out, required)
    OBVIOUS
  <2>3. /\ DOMAIN new = (Resident \ out) \cup required
        /\ IsFiniteSet((Resident \ out) \cup required)
        /\ \A z \in (Resident \ out) \cup required : new[z] \in Nat
        /\ \A z \in required, y \in (Resident \ out) \cup required : new[y] <= new[z]
    BY <2>1, <2>2, RecencyIs
  <2>4. stamp' = new
    BY <2>2
  <2> QED
    BY <2>3, <2>4
<1>3. Evicted = out /\ x \in out
  BY <1>1, <1>2 DEF Evicted
<1>4. /\ C \in SUBSET Resident /\ IsFiniteSet(C) /\ \A z \in C : SizeOf(z) \in Nat
  BY CandidatesSized DEF PoolInv
<1>5. /\ used \in Nat /\ used = BytesOf(Resident)
      /\ need \in Nat
      /\ need > 0 => need = used + size - Capacity
  <2>1. BytesOf(Resident) \in Nat
    BY ResidentGranules, BytesPart DEF PoolInv, Shape
  <2>2. used = BytesOf(Resident)
    BY DEF PoolInv, PoolConsistent
  <2> QED
    BY <2>1, <2>2, NeedIs
<1>6. /\ x \in C /\ x \in Resident /\ stamp[x] \in Nat
      /\ BytesOf(Ahead(x)) < need
      /\ \A y \in C \ out : ~(BytesOf(Ahead(y)) < need)
  BY <1>1, <1>3, <1>4 DEF Victims, PoolInv, Shape
<1>7. x \notin LeasedGranules
  BY <1>6 DEF Candidates
<1> HIDE DEF need, C
<1>8. ASSUME NEW y \in Candidates({}) \ Evicted
      PROVE  stamp[x] <= stamp[y] \/ stamp'[y] = Max(Range(stamp'))
  <2>1. y \in Resident /\ stamp[y] \in Nat
    BY <1>8 DEF Candidates, PoolInv, Shape
  <2>2. CASE y \in required
    <3>1. \A z \in DOMAIN stamp' : stamp'[z] <= stamp'[y]
      BY <1>2, <2>2
    <3>2. y \in DOMAIN stamp'
      BY <1>2, <2>2
    <3>3. stamp'[y] = Max(Range(stamp'))
      BY <1>2, <3>1, <3>2, MaxOfRange
    <3> QED
      BY <3>3
  <2>3. CASE y \notin required /\ stamp[y] < stamp[x]
    <3>1. y \in C \ out
      BY <1>3, <1>8, <2>3 DEF C, Candidates
    <3>2. Before(y, x)
      BY <2>3 DEF Before
    <3>3. Ahead(y) \in SUBSET Ahead(x)
      BY <1>4, <1>6, <2>1, <3>2, BeforeOrder DEF PoolInv
    <3>4. IsFiniteSet(Ahead(x)) /\ \A z \in Ahead(x) : SizeOf(z) \in Nat
      BY <1>4, FS_Subset
    <3>5. /\ BytesOf(Ahead(y)) <= BytesOf(Ahead(x))
          /\ BytesOf(Ahead(y)) \in Nat /\ BytesOf(Ahead(x)) \in Nat
      BY <3>3, <3>4, BytesDifference
    <3>6. BytesOf(Ahead(x)) < need /\ ~(BytesOf(Ahead(y)) < need)
      BY <1>6, <3>1
    <3>7. PICK few, many : few = BytesOf(Ahead(y)) /\ many = BytesOf(Ahead(x))
      OBVIOUS
    <3>8. few <= many /\ few \in Nat /\ many \in Nat /\ many < need
          /\ ~(few < need)
      BY <3>5, <3>6, <3>7, Zenon
    <3>9. FALSE
      BY <1>5, <3>8
    <3> QED
      BY <3>9
  <2> QED
    BY <1>6, <2>1, <2>2, <2>3
<1>9. ASSUME ~\E y \in Evicted : Before(x, y)
      PROVE  used' + SizeOf(x) > Capacity
  <2>1. \A z \in out \ {x} : Before(z, x)
    BY <1>1, <1>3, <1>6, <1>9, BeforeOrder DEF PoolInv
  <2>2. out \ {x} \in SUBSET Ahead(x)
    BY <1>1, <2>1
  <2>3. IsFiniteSet(Ahead(x)) /\ \A z \in Ahead(x) : SizeOf(z) \in Nat
    BY <1>4, FS_Subset
  <2>4. /\ BytesOf(out \ {x}) <= BytesOf(Ahead(x)) /\ BytesOf(Ahead(x)) \in Nat
    BY <2>2, <2>3, BytesDifference
  <2>5. /\ IsFiniteSet(out) /\ \A z \in out : SizeOf(z) \in Nat
        /\ SizeOf(x) \in Nat
    BY <1>1, <1>4, <1>6, FS_Subset
  <2>6. /\ BytesOf(out \ {x}) = BytesOf(out) - SizeOf(x)
        /\ BytesOf(out) \in Nat
    <3>1. {x} \in SUBSET out
      BY <1>3
    <3>2. BytesOf(out \ {x}) = BytesOf(out) - BytesOf({x}) /\ BytesOf(out) \in Nat
      BY <2>5, <3>1, BytesDifference
    <3>3. BytesOf({x}) = SizeOf(x)
      BY <2>5, BytesOfOne
    <3>4. PICK one : one = BytesOf({x})
      OBVIOUS
    <3>5. BytesOf(out \ {x}) = BytesOf(out) - one
      BY <3>2, <3>4, Zenon
    <3>6. one = SizeOf(x)
      BY <3>3, <3>4, Zenon
    <3>7. BytesOf(out \ {x}) = BytesOf(out) - SizeOf(x)
      BY <3>5, <3>6, Zenon
    <3> QED
      BY <3>2, <3>7, Zenon
  <2>7. need > 0 /\ need = used + size - Capacity
    BY <1>5, <1>6, <2>4
  <2> QED
    BY <1>5, <1>6, <2>4, <2>5, <2>6, <2>7, PoolWellFormed
<1> QED
  BY <1>7, <1>8, <1>9

\* A registration evicts as an access to what it makes resident would.
LEMMA RegisterFacts ==
    ASSUME PoolInv, NEW a \in Allocations, Register(a)
    PROVE  \E size, in, out :
             /\ size \in Nat
             /\ IsFiniteSet(in) /\ out = Victims(size, in)
             /\ RoomFor(size, in) /\ stamp' = Recency(out, in)
             /\ used' = used - BytesOf(out) + size
<1>1. PICK p : p = Profile[a]
  OBVIOUS
<1>2. PICK in : in = Prefix(a, p.resident)
  OBVIOUS
<1> DEFINE h == [x \in in |-> SizeIn(x, p.committed)]
<1>3. PICK size : size = SumFunction(h)
  OBVIOUS
<1>4. PICK out : out = Victims(size, {})
  OBVIOUS
<1>5. /\ a \notin Live /\ RoomFor(size, {}) /\ stamp' = Recency(out, in)
      /\ used' = used - BytesOf(out) + size
  BY <1>1, <1>2, <1>3, <1>4 DEF Register
<1>6. /\ p.committed \in Nat /\ p.resident \in Nat /\ p.resident <= p.committed
  BY <1>1, ProfilesWellFormed
<1>7. IsFiniteSet(in) /\ \A x \in in : x[1] = a /\ h[x] \in Nat
  BY <1>2, <1>6, PrefixGrows, PrefixFinite, PrefixPairs, SizePositive
<1>8. size \in Nat
  <2>1. size = SumFunctionOnSet(h, in)
    BY <1>3 DEF SumFunction
  <2> HIDE DEF h
  <2> QED
    BY <1>7, <2>1, SumNat
<1>9. in \cap Resident = {}
  BY <1>5, <1>7 DEF PoolInv, PoolConsistent
<1>10. Candidates({}) = Candidates(in)
  BY <1>9 DEF Candidates
<1>11. Victims(size, {}) = Victims(size, in) /\ RoomFor(size, in)
  BY <1>5, <1>10 DEF Victims, RoomFor
<1> QED
  BY <1>4, <1>5, <1>7, <1>8, <1>11

\* An access or a registration evicts the least recent of what it may evict, nothing
\* leased, and not a granule more than it must.
THEOREM PoolEvictsLeastRecent == ResSpec => EvictsLeastRecent
<1> DEFINE Least ==
             used' + BytesOf(Evicted) > used =>
               \A x \in Evicted :
                 /\ x \notin LeasedGranules
                 /\ \A y \in Candidates({}) \ Evicted :
                      stamp[x] <= stamp[y] \/ stamp'[y] = Max(Range(stamp'))
                 /\ \/ used' + SizeOf(x) > Capacity
                    \/ \E y \in Evicted : Before(x, y)
<1>1. ASSUME PoolInv, [ResNext]_resVars PROVE [Least]_resVars
  <2> SUFFICES ASSUME used' + BytesOf(Evicted) > used, NEW x \in Evicted, ResNext
               PROVE  /\ x \notin LeasedGranules
                      /\ \A y \in Candidates({}) \ Evicted :
                           stamp[x] <= stamp[y] \/ stamp'[y] = Max(Range(stamp'))
                      /\ \/ used' + SizeOf(x) > Capacity
                         \/ \E y \in Evicted : Before(x, y)
    BY <1>1
  <2>1. used \in Nat /\ \A S \in SUBSET Resident : BytesOf(S) \in Nat
    <3>1. IsFiniteSet(Resident) /\ \A z \in Resident : SizeOf(z) \in Nat
      BY <1>1, ResidentGranules DEF PoolInv, Shape
    <3>2. \A S \in SUBSET Resident : BytesOf(S) \in Nat
      BY <3>1, BytesPart
    <3> QED
      BY <1>1, <3>2 DEF PoolInv, PoolConsistent
  \* Where nothing goes, nothing is to be shown; an eviction asked for, and a release,
  \* bring nothing in.
  <2>2. stamp' # stamp
    BY DEF Evicted, Resident
  <2>3. ASSUME NEW a \in Live, NEW n, Evict(a, n) PROVE FALSE
    <3>1. PICK out \in SUBSET Resident :
            /\ stamp' = Renumber(Restrict(stamp, Resident \ out))
            /\ used' = used - BytesOf(out)
      BY <2>3 DEF Evict
    <3>2. Resident' = Resident \ out
      BY <1>1, <3>1, RemovalKeepsShape DEF PoolInv
    <3>3. Evicted = out
      BY <3>1, <3>2 DEF Evicted, Resident
    <3> QED
      BY <2>1, <3>1, <3>3
  <2>4. ASSUME NEW a, Release(a) PROVE FALSE
    <3>1. PICK out \in SUBSET Resident :
            /\ stamp' = Renumber(Restrict(stamp, Resident \ out))
            /\ used' = used - BytesOf(out)
      BY <2>4 DEF Release
    <3>2. Resident' = Resident \ out
      BY <1>1, <3>1, RemovalKeepsShape DEF PoolInv
    <3>3. Evicted = out
      BY <3>1, <3>2 DEF Evicted, Resident
    <3> QED
      BY <2>1, <3>1, <3>3
  <2>5. ASSUME NEW t \in Targets, NEW offset \in 0 .. SizeOfTarget(t) - 1,
               NEW n \in 1 .. SizeOfTarget(t) - offset, NEW write \in BOOLEAN,
               Access(t, write, offset, n)
        PROVE  \E size, required, out :
                 /\ size \in Nat
                 /\ IsFiniteSet(required) /\ out = Victims(size, required)
                 /\ RoomFor(size, required) /\ stamp' = Recency(out, required)
                 /\ used' = used - BytesOf(out) + size
    <3>1. offset \in Int /\ n \in Int /\ offset >= 0 /\ n >= 1
      BY <2>5
    <3>2. offset \in Nat /\ n \in Nat
      BY <3>1
    <3> QED
      BY <1>1, <2>5, <3>2, AccessFacts
  <2>6. ASSUME NEW a \in Allocations, Register(a)
        PROVE  \E size, required, out :
                 /\ size \in Nat
                 /\ IsFiniteSet(required) /\ out = Victims(size, required)
                 /\ RoomFor(size, required) /\ stamp' = Recency(out, required)
                 /\ used' = used - BytesOf(out) + size
    BY <1>1, <2>6, RegisterFacts
  <2>7. (\E t \in Targets : \E offset \in 0 .. SizeOfTarget(t) - 1 :
           \E n \in 1 .. SizeOfTarget(t) - offset : \E write \in BOOLEAN :
             Access(t, write, offset, n))
        \/ (\E a \in Allocations : Register(a))
    <3>1. \A a, v, c, t, l, o, n :
            /\ ~CreateView(v) /\ ~ReleaseView(v) /\ ~Commit(a, n)
            /\ ~AcquireLease(l, t, c, o, n) /\ ~ReleaseLease(l)
            /\ ~ReleaseConsumerLeases(c) /\ ~RetireConsumer(c)
      BY <2>2 DEF bytes, CreateView, ReleaseView, Commit, AcquireLease, ReleaseLease,
                  ReleaseLeases, ReleaseConsumerLeases, RetireConsumer
    <3> QED
      BY <2>3, <2>4, <3>1 DEF ResNext
  <2>8. PICK size, required, out :
          /\ size \in Nat
          /\ IsFiniteSet(required) /\ out = Victims(size, required)
          /\ RoomFor(size, required) /\ stamp' = Recency(out, required)
          /\ used' = used - BytesOf(out) + size
    BY <2>5, <2>6, <2>7
  <2> QED
    BY <1>1, <2>8, VictimsAreLeast
<1>2. PoolInv /\ [ResNext]_resVars => [Least]_resVars
  BY <1>1
<1> QED
  BY <1>2, PoolInvariant, PTL DEF ResSpec, EvictsLeastRecent
==============================================================================
