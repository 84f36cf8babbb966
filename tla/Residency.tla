------------------------------ MODULE Residency ------------------------------
(***************************************************************************)
(* AllocationResidencyManager (residency.py): allocations larger together  *)
(* than the pool they live in.  Bytes become resident when accessed, in    *)
(* whole granules, and make room by evicting the least recently used       *)
(* granules that are neither leased nor part of the access.                *)
(*                                                                         *)
(* Ranges of bytes are sets of granules <<allocation, index>>; the code    *)
(* refuses a range that cuts a granule.                                    *)
(***************************************************************************)
EXTENDS Integers, Sequences, FiniteSets, SequencesExt

CONSTANTS Allocations, \* allocation identifiers
          Views,       \* view identifiers
          Leases,      \* lease identifiers
          Consumers,   \* task identifiers that hold leases
          Capacity,    \* bytes of the pool
          Profile,     \* the arguments of register(), by allocation
          Window       \* the arguments of create_view(): [owner, offset, size]

\* resident and committed are those of the registration; an allocation is evictable
\* only if it has a backing, and pinned only if it is not evictable.
ASSUME ProfilesWellFormed ==
  \A a \in Allocations :
    LET p == Profile[a] IN
      /\ p.size \in Nat \ {0} /\ p.granule \in Nat \ {0}
      /\ p.committed \in 0 .. p.size /\ p.resident \in 0 .. p.committed
      /\ {p.backed, p.evictable, p.pinned, p.readOnly, p.dirty} \subseteq BOOLEAN
      /\ p.evictable => p.backed /\ ~p.pinned
      /\ p.dirty => p.resident > 0 /\ ~p.readOnly
ASSUME WindowsWellFormed ==
  /\ Views \cap Allocations = {}
  /\ \A v \in Views : /\ Window[v].owner \in Allocations
                      /\ Window[v].offset \in Nat /\ Window[v].size \in Nat
                      /\ Window[v].offset + Window[v].size <= Profile[Window[v].owner].size
ASSUME PoolWellFormed == Capacity \in Nat

VARIABLES committed,  \* committed_bytes of the live allocations
          views,      \* the live views
          leases,     \* [lease -> [consumer, target, owner, granules]]
          anchors,    \* _released_consumer_ranges: pairs <<granule, consumer>>
          stamp,      \* [resident granules -> access sequence], renumbered densely
          dirty,      \* the dirty granules
          used,       \* pool.resident_bytes
          poolCopy,   \* history: granules whose copy in the pool is the newest
          backingCopy,\* history: granules whose copy in the backing is the newest
          readers     \* history: <<granule, consumer>> leased since it came in,
                      \* the consumer not known to be completed

tables == <<committed, views>>
holds  == <<leases, anchors, readers>>
bytes  == <<stamp, dirty, used, poolCopy, backingCopy>>
resVars == <<tables, holds, bytes>>

------------------------------------------------------------------------------
\* Granules.

Live == DOMAIN committed
Resident == DOMAIN stamp
CeilDiv(n, d) == (n + d - 1) \div d

\* The granules of the first n bytes of a, and of the bytes from .. from + n - 1.
Prefix(a, n) == {<<a, i>> : i \in 0 .. CeilDiv(n, Profile[a].granule) - 1}
Span(a, from, n) ==
  {<<a, i>> : i \in from \div Profile[a].granule
                    .. CeilDiv(from + n, Profile[a].granule) - 1}

\* The last granule of an allocation may be short.
SizeIn(x, limit) ==
  LET g == Profile[x[1]].granule
  IN  IF (x[2] + 1) * g <= limit THEN g ELSE limit - x[2] * g
SizeOf(x) == SizeIn(x, committed[x[1]])
BytesOf(X) == SumFunction([x \in X |-> SizeOf(x)])

LeasedGranules == UNION {leases[l].granules : l \in DOMAIN leases}

\* The owner of a target, and where the target begins in it.
OwnerOf(t) == IF t \in Views THEN Window[t].owner ELSE t
OffsetOf(t) == IF t \in Views THEN Window[t].offset ELSE 0
SizeOfTarget(t) == IF t \in Views THEN Window[t].size ELSE Profile[t].size
Targets == Live \cup views

\* _resolve_access(): the access lies in the target and in what is committed.
Accessible(t, offset, n) ==
  /\ t \in Targets
  /\ offset + n <= SizeOfTarget(t)
  /\ OffsetOf(t) + offset + n <= committed[OwnerOf(t)]

------------------------------------------------------------------------------
\* Making room.

ByAddress(x, y) == x[1] = y[1] /\ x[2] < y[2]   \* mutant: recency is ignored
\* The order candidates are evicted in: access sequence, then address.  An access
\* and a registration take a new number each, so two allocations never share one.
Before(x, y) ==
  \/ stamp[x] < stamp[y]
  \/ stamp[x] = stamp[y] /\ x[1] = y[1] /\ x[2] < y[2]

Unprotected(protected) ==   \* mutant: leases are ignored
  {x \in Resident \ protected : Profile[x[1]].evictable}
Candidates(protected) ==
  {x \in Resident \ (LeasedGranules \cup protected) : Profile[x[1]].evictable}

Need(additional) == Max({0, used + additional - Capacity})

RoomFor(additional, protected) ==
  BytesOf(Candidates(protected)) >= Need(additional)

\* The shortest prefix of the candidates that covers the need.
Victims(additional, protected) ==
  {x \in Candidates(protected) :
     BytesOf({c \in Candidates(protected) : Before(c, x)}) < Need(additional)}

Renumber(f) ==
  [x \in DOMAIN f |-> Cardinality({f[y] : y \in {z \in DOMAIN f : f[z] <= f[x]}})]

\* The recency after the granules of Out have gone and those of In have been accessed.
Recency(Out, In) ==
  LET now == 1 + Max({0} \cup Range(stamp))
  IN  Renumber([x \in (Resident \ Out) \cup In |-> IF x \in In THEN now ELSE stamp[x]])

\* The migrations of an eviction name the consumers of what it evicts, as far as they
\* are remembered, and these are then forgotten.
Named(Out) == {p[2] : p \in {q \in anchors : q[1] \in Out}}
EvictAnchors(Out) ==
  /\ anchors' = {p \in anchors : p[1] \notin Out}
  /\ readers' = {p \in readers : p[1] \notin Out}

\* The backing has the newest copy of a granule that is written back.
WrittenBack(Out) == (backingCopy \ (Out \cap dirty)) \cup (Out \cap dirty \cap poolCopy)

------------------------------------------------------------------------------
\* The operations of the manager.  A call that raises changes nothing: each proves
\* that it can be carried out before it writes.

ResInit ==
  /\ committed = << >> /\ views = {}
  /\ leases = << >> /\ anchors = {} /\ readers = {}
  /\ stamp = << >> /\ dirty = {} /\ used = 0
  /\ poolCopy = {} /\ backingCopy = {}

Register(a) ==
  LET p == Profile[a]
      in == Prefix(a, p.resident)
      size == SumFunction([x \in in |-> SizeIn(x, p.committed)])
      out == Victims(size, {})
  IN  /\ a \notin Live
      /\ RoomFor(size, {})
      /\ committed' = [b \in Live \cup {a} |->
                         IF b = a THEN p.committed ELSE committed[b]]
      /\ stamp' = Recency(out, in)
      /\ dirty' = (dirty \ out) \cup (IF p.dirty THEN in ELSE {})
      /\ used' = used - BytesOf(out) + size
      /\ poolCopy' = (poolCopy \ out) \cup in
      /\ backingCopy' = WrittenBack(out) \cup
           (IF p.backed THEN Prefix(a, p.committed) \ (IF p.dirty THEN in ELSE {}) ELSE {})
      /\ EvictAnchors(out)
      /\ UNCHANGED <<views, leases>>

CreateView(v) ==
  /\ v \notin views /\ Window[v].owner \in Live
  /\ views' = views \cup {v}
  /\ UNCHANGED <<committed, holds, bytes>>

ReleaseView(v) ==
  /\ v \in views
  /\ \A l \in DOMAIN leases : leases[l].target # v
  /\ views' = views \ {v}
  /\ UNCHANGED <<committed, holds, bytes>>

\* release(): also of a pinned allocation, with force_pinned.
Release(a) ==
  LET own == {x \in Resident : x[1] = a}
  IN  /\ a \in Live
      /\ \A l \in DOMAIN leases : leases[l].owner # a
      /\ \A v \in views : Window[v].owner # a
      /\ committed' = Restrict(committed, Live \ {a})
      /\ stamp' = Renumber(Restrict(stamp, Resident \ own))
      /\ dirty' = dirty \ own
      /\ used' = used - BytesOf(own)
      /\ anchors' = {p \in anchors : p[1][1] # a}
      /\ readers' = {p \in readers : p[1][1] # a}
      /\ poolCopy' = poolCopy \ own
      /\ backingCopy' = {x \in backingCopy : x[1] # a}
      /\ UNCHANGED <<views, leases>>

AcquireLease(l, t, c, offset, n) ==
  LET granules == Span(OwnerOf(t), OffsetOf(t) + offset, n)
  IN  /\ l \notin DOMAIN leases
      /\ Accessible(t, offset, n)
      /\ granules \subseteq Resident
      /\ leases' = [k \in DOMAIN leases \cup {l} |->
                     IF k = l THEN [consumer |-> c, target |-> t,
                                    owner |-> OwnerOf(t), granules |-> granules]
                              ELSE leases[k]]
      /\ readers' = readers \cup (granules \X {c})
      /\ UNCHANGED <<tables, anchors, bytes>>

ReleaseReplacing(L) ==   \* mutant: the consumer takes the place of the others
  /\ leases' = Restrict(leases, DOMAIN leases \ L)
  /\ anchors' = {p \in anchors : \A l \in L : p[1] \notin leases[l].granules} \cup
       UNION {leases[l].granules \X {leases[l].consumer} : l \in L}
  /\ UNCHANGED <<tables, readers, bytes>>

\* The lease ends, its consumer stays as an anchor of the granules.
ReleaseLeases(L) ==
  /\ leases' = Restrict(leases, DOMAIN leases \ L)
  /\ anchors' = anchors \cup
       UNION {leases[l].granules \X {leases[l].consumer} : l \in L}
  /\ UNCHANGED <<tables, readers, bytes>>

ReleaseLease(l) == l \in DOMAIN leases /\ ReleaseLeases({l})
ReleaseConsumerLeases(c) ==
  LET held == {l \in DOMAIN leases : leases[l].consumer = c}
  IN  held # {} /\ ReleaseLeases(held)

RetireConsumer(c) ==
  /\ \A l \in DOMAIN leases : leases[l].consumer # c
  /\ anchors' = {p \in anchors : p[2] # c}
  /\ readers' = {p \in readers : p[2] # c}
  /\ anchors' # anchors
  /\ UNCHANGED <<tables, leases, bytes>>

\* commit(): a short last granule that is resident would be split.
Commit(a, n) ==
  /\ a \in Live /\ committed[a] < n /\ n <= Profile[a].size
  /\ \A x \in Resident : x[1] = a => SizeIn(x, n) = SizeOf(x)
  /\ committed' = [committed EXCEPT ![a] = n]
  /\ backingCopy' = backingCopy \cup
       (IF Profile[a].backed THEN Prefix(a, n) \ Prefix(a, committed[a]) ELSE {})
  /\ UNCHANGED <<views, holds, stamp, dirty, used, poolCopy>>

\* The granules of a write it does not cover completely keep some of their bytes.
Partly(a, from, n) ==
  {x \in Span(a, from, n) :
     \/ x[2] * Profile[a].granule < from
     \/ x[2] * Profile[a].granule + SizeOf(x) > from + n}

ReadMisses(write, a, from, n) ==   \* mutant: a write pages nothing in
  IF write THEN {} ELSE Span(a, from, n) \ Resident
\* What is read from the backing: a write does not need what it covers completely.
PageIn(write, a, from, n) ==
  (Span(a, from, n) \ Resident) \cap
    (IF write THEN Partly(a, from, n) ELSE Span(a, from, n))

Access(t, write, offset, n) ==
  LET a == OwnerOf(t)
      from == OffsetOf(t) + offset
      required == Span(a, from, n)
      missing == required \ Resident
      pageIn == PageIn(write, a, from, n)
      out == Victims(BytesOf(missing), required)
  IN  /\ Accessible(t, offset, n)
      /\ write => ~Profile[a].readOnly
      /\ pageIn # {} => Profile[a].backed
      /\ RoomFor(BytesOf(missing), required)
      /\ stamp' = Recency(out, required)
      /\ dirty' = (dirty \ out) \cup (IF write THEN required ELSE {})
      /\ used' = used - BytesOf(out) + BytesOf(missing)
      /\ poolCopy' = (poolCopy \ out) \cup (pageIn \cap backingCopy)
                       \cup (IF write THEN required \ Partly(a, from, n) ELSE {})
      /\ backingCopy' = WrittenBack(out) \ (IF write THEN required ELSE {})
      /\ EvictAnchors(out)
      /\ UNCHANGED <<tables, leases>>

\* evict(): the highest granules first, none of them leased.
Evict(a, n) ==
  LET free == {x \in Resident \ LeasedGranules : x[1] = a}
      out == {x \in free : BytesOf({y \in free : y[2] > x[2]}) < n}
  IN  /\ a \in Live /\ Profile[a].evictable
      /\ n > 0 /\ n <= BytesOf(free)
      /\ stamp' = Renumber(Restrict(stamp, Resident \ out))
      /\ dirty' = dirty \ out
      /\ used' = used - BytesOf(out)
      /\ poolCopy' = poolCopy \ out
      /\ backingCopy' = WrittenBack(out)
      /\ EvictAnchors(out)
      /\ UNCHANGED <<tables, leases>>

ResNext ==
  \/ \E a \in Allocations : Register(a) \/ Release(a)
  \/ \E v \in Views : CreateView(v) \/ ReleaseView(v)
  \/ \E a \in Live : \E n \in 1 .. Profile[a].size : Commit(a, n) \/ Evict(a, n)
  \/ \E t \in Targets : \E offset \in 0 .. SizeOfTarget(t) - 1 :
       \E n \in 1 .. SizeOfTarget(t) - offset :
         \/ \E write \in BOOLEAN : Access(t, write, offset, n)
         \/ \E l \in Leases, c \in Consumers : AcquireLease(l, t, c, offset, n)
  \/ \E l \in Leases : ReleaseLease(l)
  \/ \E c \in Consumers : ReleaseConsumerLeases(c) \/ RetireConsumer(c)

ResSpec == ResInit /\ [][ResNext]_resVars

------------------------------------------------------------------------------
\* Correctness.

\* What assert_consistent() expects at every mutation boundary: the pool counts the
\* resident bytes and has room for them, only resident granules are dirty or leased,
\* only live allocations have granules, views and leases.
PoolConsistent ==
  /\ used = BytesOf(Resident) /\ used <= Capacity
  /\ \A x \in Resident : x[1] \in Live /\ x \in Prefix(x[1], committed[x[1]])
  /\ dirty \cup LeasedGranules \subseteq Resident
  /\ \A v \in views : Window[v].owner \in Live
  /\ \A l \in DOMAIN leases : leases[l].owner \in Live

\* No write is lost: a granule of the pool holds all of its newest bytes, although a
\* write allocates the granules it covers without reading them; one that is not in
\* the pool is up to date in the backing it will be read from.
ContentKept ==
  /\ Resident \subseteq poolCopy
  /\ Resident \ dirty \subseteq {x \in Resident : Profile[x[1]].backed => x \in backingCopy}
  /\ \A a \in Live : Profile[a].backed =>
       Prefix(a, committed[a]) \subseteq Resident \cup backingCopy

\* The migrations of an eviction name every task that has leased one of the granules
\* and is not known to have completed: the copy must wait for these.
EvictionWaits ==
  \A x \in Resident \ LeasedGranules :
    {p[2] : p \in {q \in readers : q[1] = x}} \subseteq Named({x})

\* An access or a registration evicts only what it must: nothing more recent than an
\* evictable granule it leaves, unless that is part of the access, nothing leased, and
\* less than a granule too much.
Evicted == {x \in Resident : x \notin DOMAIN stamp'}
EvictsLeastRecent ==
  [][used' + BytesOf(Evicted) > used =>
       \A x \in Evicted :
         /\ x \notin LeasedGranules
         /\ \A y \in Candidates({}) \ Evicted :
              stamp[x] <= stamp[y] \/ stamp'[y] = Max(Range(stamp'))
         /\ \/ used' + SizeOf(x) > Capacity
            \/ \E y \in Evicted : Before(x, y)]_resVars
==============================================================================
