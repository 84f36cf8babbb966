---------------------------- MODULE ServingProofs ----------------------------
(***************************************************************************)
(* Proofs about Serving, for any number of requests, workloads, settings   *)
(* and limits: the page ledger is exact, a cohort has the pages it writes  *)
(* and the history it reads, and stall recovery never gives up on a lone   *)
(* request that was swapped out.                                           *)
(***************************************************************************)
EXTENDS Serving, CollectionTheorems

------------------------------------------------------------------------------
(* The inductive invariant. *)

Statuses == {"arrivals", "waiting", "running", "swapped", "finished", "rejected"}
Phases   == {"decode", "prefill", "recompute"}
Places   == {"round", "priority", "fill", "admit", "select", "build", "reserve", "execute",
             "idle", "woken", "recover", "done", "crashed", "unstable"}

RequestState ==
    [status : Statuses, prefill : Nat, committed : Nat, cursor : Nat, goal : Nat, pages : Nat,
     swapped : Nat, strategy : {"none", "swap", "recompute"}, age : Nat, kv : SUBSET Nat]
Item == [request : Requests, phase : Phases, context : Nat, tokens : Nat]

TypeInv ==
    /\ load \in Loads /\ plan \in Plans
    /\ arrived \in 0 .. N
    /\ admission \in Seq(Requests) /\ served \in [Requests -> Nat]
    /\ pc \in Places

\* The history of a request that was never told to recompute: everything it has
\* cached, all of it on pages it has or has swapped out.
Alive == {"arrivals", "waiting", "running", "swapped"}
HistoryHeld(s) ==
    LET live == LiveTokens(s.prefill, s.committed) IN
    s.status \in Alive /\ s.goal = 0 =>
        /\ 0 .. live - 1 \subseteq s.kv
        /\ live <= (s.pages + s.swapped) * PageTokens

\* What request r with record s has computed, where its pages are, and that it
\* could run alone.
RecordOK(r, s) ==
    /\ s.prefill <= load[r].prompt /\ s.committed <= load[r].output
    /\ s.prefill < load[r].prompt => s.committed = 0
    /\ s.pages > 0 => s.status \in {"running", "rejected"}
    /\ s.swapped > 0 =>
          \/ s.status = "swapped" /\ s.strategy = "swap"
          \/ s.status = "rejected"
    /\ s.swapped <= CapacityPages
    /\ s.status = "finished" => s.committed = load[r].output /\ s.prefill = load[r].prompt
    /\ s.status # "rejected" => Peak(r) <= CapacityPages
    /\ HistoryHeld(s)

StateInv ==
    /\ state \in [Requests -> RequestState]
    /\ \A r \in Requests : RecordOK(r, state[r])

\* Requests are rejected without pages, except by the last step of a run.
RejectedInv ==
    pc # "done" => \A r \in InStatus({"rejected"}) : state[r].pages = 0 /\ state[r].swapped = 0

\* The ledger counts the pages of the requests, on both sides, within its limits.
PagesHeld    == [r \in Requests |-> state[r].pages]
PagesSwapped == [r \in Requests |-> state[r].swapped]
LedgerInv ==
    /\ used = SumFunction(PagesHeld) /\ used <= CapacityPages
    /\ offloaded = SumFunction(PagesSwapped) /\ offloaded <= OffloadPages

\* An item of the cohort stands for a running request that needs it and has the
\* pages for it.
Needs(item) ==
    IF item.phase = "decode"
    THEN LiveTokens(state[item.request].prefill, state[item.request].committed + 1)
    ELSE item.context + item.tokens
ItemOK(item) ==
    /\ item.request \in Running
    /\ InPhase(item.request, item.phase)
    /\ item.context = Context(item.request, item.phase)
    /\ item.tokens \in 1 .. Remaining(item.request, item.phase)
    /\ Needs(item) <= state[item.request].pages * PageTokens
ItemsOK ==
    /\ items \in Seq(Item)
    /\ \A i \in DOMAIN items : ItemOK(items[i])
    /\ Cardinality(Protected) = Len(items)
    /\ Len(items) <= Slots /\ Budget >= 0

Asking(place) == pc = place \/ (pc = "reserve" /\ asker = place)

CohortInv ==
    /\ Asking("build") \/ pc = "execute" => ItemsOK
    /\ Asking("build") =>
          /\ agenda \in Seq(Seq(Phases) \ {<<>>}) /\ agenda # <<>>
          /\ queue \subseteq Requests
          /\ \A r \in queue \cap Running : InPhase(r, Phase)

AdmissionInv ==
    /\ Asking("admit") => queue \subseteq Queued
    /\ Asking("recover") => queue \subseteq Unfinished
    /\ pc = "recover" => \A r \in Requests :
          Unfinished = {r} /\ state[r].status = "swapped" => r \in queue

ReserveInv ==
    pc = "reserve" =>
        /\ owner \in Requests /\ target \in Nat /\ asker \in {"admit", "recover", "build"}
        /\ victims \subseteq Running \ {owner}
        /\ asker = "build" =>
              /\ owner \in Running \ Protected /\ victims \cap Protected = {}
              /\ InPhase(owner, Phase) /\ Room
              /\ ItemPages(owner, Phase) <= target
        /\ asker # "build" =>
              /\ owner \in Queued /\ state[owner].swapped = 0
              /\ target <= CapacityPages
              /\ state[owner].goal = 0 => Cached(owner) <= target * PageTokens
        /\ asker = "recover" => state[owner].status = "swapped"

IInv == /\ TypeInv /\ StateInv /\ RejectedInv /\ LedgerInv
        /\ CohortInv /\ AdmissionInv /\ ReserveInv

------------------------------------------------------------------------------
(* Integers. *)

LEMMA MaxOfTwo ==
    ASSUME NEW a \in Int, NEW b \in Int
    PROVE  Max({a, b}) = IF a >= b THEN a ELSE b
BY DEF Max

LEMMA MinOfTwo ==
    ASSUME NEW a \in Int, NEW b \in Int
    PROVE  Min({a, b}) = IF a <= b THEN a ELSE b
BY DEF Min

LEMMA MinOfThree ==
    ASSUME NEW a \in Int, NEW b \in Int, NEW c \in Int
    PROVE  /\ Min({a, b, c}) \in {a, b, c}
           /\ Min({a, b, c}) <= a /\ Min({a, b, c}) <= b /\ Min({a, b, c}) <= c
<1> DEFINE m == CHOOSE x \in {a, b, c} : \A y \in {a, b, c} : x <= y
<1>1. \E x \in {a, b, c} : \A y \in {a, b, c} : x <= y
  <2>1. CASE a <= b /\ a <= c
    BY <2>1
  <2>2. CASE b <= a /\ b <= c
    BY <2>2
  <2>3. CASE c <= a /\ c <= b
    BY <2>3
  <2> QED
    BY <2>1, <2>2, <2>3
<1>2. m \in {a, b, c} /\ \A y \in {a, b, c} : m <= y
  BY <1>1
<1> QED
  BY <1>2 DEF Min

LEMMA LiveTokensNat ==
    ASSUME NEW p \in Nat, NEW c \in Nat
    PROVE  /\ LiveTokens(p, c) = p + (IF c = 0 THEN 0 ELSE c - 1)
           /\ LiveTokens(p, c) \in Nat
           /\ LiveTokens(p, c + 1) = p + c
BY MaxOfTwo DEF LiveTokens

\* The pages for n tokens hold n tokens, and fewer would not.
LEMMA PagesForEnough ==
    ASSUME NEW n \in Nat
    PROVE  PagesFor(n) \in Nat /\ n <= PagesFor(n) * PageTokens
<1>1. PageTokens \in Nat /\ PageTokens > 0
  BY ServingAssumption
<1>2. (n + PageTokens - 1) \div PageTokens \in Nat
  BY <1>1
<1>3. n + PageTokens - 1 < ((n + PageTokens - 1) \div PageTokens + 1) * PageTokens
  BY <1>1
<1>4. ((n + PageTokens - 1) \div PageTokens + 1) * PageTokens
        = ((n + PageTokens - 1) \div PageTokens) * PageTokens + PageTokens
  BY <1>1, <1>2
<1> QED
  BY <1>1, <1>2, <1>3, <1>4 DEF PagesFor

LEMMA PagesForLeast ==
    ASSUME NEW n \in Nat, NEW k \in Nat, n <= k * PageTokens
    PROVE  PagesFor(n) <= k
<1>1. PageTokens \in Nat /\ PageTokens > 0
  BY ServingAssumption
<1> DEFINE q == (n + PageTokens - 1) \div PageTokens
<1>2. q \in Nat /\ q * PageTokens <= n + PageTokens - 1
  BY <1>1
<1> HIDE DEF q
<1>3. ASSUME k + 1 <= q PROVE FALSE
  <2>1. (k + 1) * PageTokens <= q * PageTokens
    BY <1>1, <1>2, <1>3
  <2>2. (k + 1) * PageTokens = k * PageTokens + PageTokens /\ k * PageTokens \in Nat
    BY <1>1
  <2> QED
    BY <1>1, <1>2, <2>1, <2>2
<1> QED
  BY <1>2, <1>3 DEF PagesFor, q

------------------------------------------------------------------------------
(* The lexicographic order of ranks. *)

LEMMA LexTotal ==
    ASSUME NEW n \in Nat, NEW a \in [1 .. n -> Int], NEW b \in [1 .. n -> Int], a # b
    PROVE  Before(a, b) \/ Before(b, a)
<1> DEFINE Differ == {i \in 1 .. n : a[i] # b[i]}
<1>1. Differ # {}
  BY DEF Differ
<1>2. PICK i \in Differ : \A j \in Differ : i <= j
  <2>1. Differ \in SUBSET Int /\ IsFiniteSet(Differ)
    BY FS_Interval, FS_Subset
  <2> HIDE DEF Differ
  <2> QED
    BY <1>1, <2>1, LeastInteger
<1>3. \A j \in 1 .. i - 1 : a[j] = b[j]
  BY <1>2
<1>4. i \in 1 .. n /\ (a[i] < b[i] \/ b[i] < a[i])
  BY <1>2
<1> QED
  BY <1>3, <1>4 DEF Before

LEMMA LexTransitive ==
    ASSUME NEW n \in Nat, NEW a \in [1 .. n -> Int], NEW b \in [1 .. n -> Int],
           NEW c \in [1 .. n -> Int], Before(a, b), Before(b, c)
    PROVE  Before(a, c)
<1>1. PICK i \in 1 .. n : a[i] < b[i] /\ \A j \in 1 .. i - 1 : a[j] = b[j]
  BY DEF Before
<1>2. PICK k \in 1 .. n : b[k] < c[k] /\ \A j \in 1 .. k - 1 : b[j] = c[j]
  BY DEF Before
<1>3. CASE i <= k
  <2>1. a[i] < c[i]
    BY <1>1, <1>2, <1>3
  <2>2. \A j \in 1 .. i - 1 : a[j] = c[j]
    BY <1>1, <1>2, <1>3
  <2> QED
    BY <2>1, <2>2 DEF Before
<1>4. CASE k < i
  <2>1. a[k] < c[k]
    BY <1>1, <1>2, <1>4
  <2>2. \A j \in 1 .. k - 1 : a[j] = c[j]
    BY <1>1, <1>2, <1>4
  <2> QED
    BY <2>1, <2>2 DEF Before
<1> QED
  BY <1>3, <1>4

\* Of finitely many ranked requests no two of which have the same rank, one is the best.
LEMMA LeastRanked ==
    ASSUME NEW n \in Nat, NEW S, IsFiniteSet(S), S # {}, NEW k \in [S -> [1 .. n -> Int]],
           \A r, s \in S : r # s => k[r] # k[s]
    PROVE  \E r \in S : \A s \in S \ {r} : Before(k[r], k[s])
<1> DEFINE Least(U) == \E r \in U : \A s \in U \ {r} : Before(k[r], k[s])
           Bad == {U \in SUBSET S : U # {} /\ ~Least(U)}
<1> SUFFICES ASSUME Bad # {} PROVE FALSE
  OBVIOUS
<1>1. PICK U \in Bad : \A V \in SUBSET U : V # U => V \notin Bad
  <2>1. Bad \in SUBSET (SUBSET S)
    OBVIOUS
  <2> HIDE DEF Bad
  <2> QED
    BY <2>1, SmallestSubset
<1>2. PICK x \in U : x \in S
  OBVIOUS
<1>3. CASE U = {x}
  <2>1. \A s \in U \ {x} : Before(k[x], k[s])
    BY <1>3
  <2> QED
    BY <2>1
<1>4. CASE U # {x}
  <2>1. Least(U \ {x})
    <3> HIDE DEF Least
    <3> QED
      BY <1>1, <1>2, <1>4
  <2>2. PICK m \in U \ {x} : \A s \in (U \ {x}) \ {m} : Before(k[m], k[s])
    BY <2>1
  <2>3. m \in S /\ m # x /\ k[m] \in [1 .. n -> Int] /\ k[x] \in [1 .. n -> Int] /\ k[m] # k[x]
    BY <1>2, <2>2
  <2>4. CASE Before(k[m], k[x])
    <3>1. \A s \in U \ {m} : Before(k[m], k[s])
      BY <2>2, <2>4
    <3> QED
      BY <2>2, <3>1
  <2>5. CASE Before(k[x], k[m])
    <3>1. ASSUME NEW s \in U \ {x} PROVE Before(k[x], k[s])
      <4>1. CASE s = m
        BY <2>5, <4>1
      <4>2. CASE s # m
        <5>1. Before(k[m], k[s]) /\ k[s] \in [1 .. n -> Int]
          BY <2>2, <4>2
        <5> QED
          BY <2>3, <2>5, <5>1, LexTransitive
      <4> QED
        BY <4>1, <4>2
    <3> QED
      BY <1>2, <3>1
  <2> QED
    BY <2>3, <2>4, <2>5, LexTotal
<1> QED
  BY <1>3, <1>4

\* Requests and their loads are what they look like.
LEMMA RequestsFinite ==
    ASSUME NEW S \in SUBSET Requests
    PROVE  IsFiniteSet(S)
<1>1. N \in Nat /\ S \subseteq 1 .. N
  BY ServingAssumption DEF Requests
<1>2. IsFiniteSet(1 .. N)
  BY <1>1, FS_Interval
<1> QED
  BY <1>1, <1>2, FS_Subset

LEMMA RequestNat == Requests \subseteq Nat /\ N \in Nat
BY ServingAssumption DEF Requests

LEMMA LoadTyped ==
    ASSUME TypeInv, NEW r \in Requests
    PROVE  /\ load[r].prompt \in Nat /\ load[r].output \in Nat
           /\ load[r].priority \in Nat /\ load[r].arrival \in Nat
           /\ plan \in Plan
<1>1. load \in [Requests -> Load] /\ plan \in Plan
  BY ServingAssumption DEF TypeInv
<1>2. load[r] \in Load
  BY <1>1
<1>3. 0 .. TokenLimit \subseteq Nat
  BY ServingAssumption
<1> QED
  BY <1>1, <1>2, <1>3 DEF Load

LEMMA StateTyped ==
    ASSUME StateInv, NEW r \in Requests
    PROVE  /\ state[r] \in RequestState
           /\ state[r].status \in Statuses /\ state[r].kv \in SUBSET Nat
           /\ state[r].prefill \in Nat /\ state[r].committed \in Nat
           /\ state[r].cursor \in Nat /\ state[r].goal \in Nat
           /\ state[r].pages \in Nat /\ state[r].swapped \in Nat /\ state[r].age \in Nat
           /\ Cached(r) \in Nat
<1>1. state[r] \in RequestState
  BY DEF StateInv
<1>2. /\ state[r].status \in Statuses /\ state[r].kv \in SUBSET Nat
      /\ state[r].prefill \in Nat /\ state[r].committed \in Nat
      /\ state[r].cursor \in Nat /\ state[r].goal \in Nat
      /\ state[r].pages \in Nat /\ state[r].swapped \in Nat /\ state[r].age \in Nat
  BY <1>1 DEF RequestState
<1> QED
  BY <1>1, <1>2, LiveTokensNat DEF Cached

LEMMA RankTyped ==
    ASSUME TypeInv, StateInv, NEW r \in Requests
    PROVE  Rank(r) \in [1 .. 3 -> Int] /\ Rank(r)[3] = r
<1> DEFINE aging == IF plan.aging THEN state[r].age \div Starvation ELSE 0
<1>1. state[r].age \in Nat /\ Starvation \in Nat \ {0}
  BY StateTyped, ServingAssumption
<1>2. aging \in Int
  BY <1>1
<1>3. r \in Int /\ load[r].arrival \in Int /\ -(load[r].priority + aging) \in Int
  <2>1. r \in Int /\ load[r].arrival \in Int /\ load[r].priority \in Int
    BY RequestNat, LoadTyped
  <2> HIDE DEF aging
  <2> QED
    BY <1>2, <2>1
<1>4. Rank(r) = <<-(load[r].priority + aging), load[r].arrival, r>>
  BY DEF Rank
<1> HIDE DEF aging
<1> QED
  BY <1>3, <1>4

LEMMA CandidateOrderTyped ==
    ASSUME TypeInv, NEW r \in Requests
    PROVE  CandidateOrder(r) \in Int
<1> DEFINE places == {i \in 1 .. Len(admission) : admission[i] = r}
<1>1. served[r] \in Int /\ N \in Int /\ Len(admission) \in Nat
  BY ServingAssumption, LenProperties DEF TypeInv
<1>2. SelectInSeq(admission, LAMBDA s : s = r) = IF places # {} THEN Min(places) ELSE 0
  BY DEF SelectInSeq
<1>3. SelectInSeq(admission, LAMBDA s : s = r) \in Int
  <2>1. CASE places # {}
    <3>1. IsFiniteSet(1 .. Len(admission)) /\ places \subseteq 1 .. Len(admission)
      BY <1>1, FS_Interval
    <3>2. places \in SUBSET Int /\ IsFiniteSet(places)
      BY <1>1, <3>1, FS_Subset
    <3> HIDE DEF places
    <3>3. \E x \in places : \A y \in places : x <= y
      BY <2>1, <3>2, LeastInteger
    <3>4. Min(places) \in places
      BY <3>3 DEF Min
    <3> QED
      BY <1>2, <2>1, <3>2, <3>4
  <2>2. CASE places = {}
    BY <1>2, <2>2
  <2> QED
    BY <2>1, <2>2
<1> QED
  BY <1>1, <1>3 DEF CandidateOrder

LEMMA ServiceRankTyped ==
    ASSUME TypeInv, StateInv, NEW r \in Requests
    PROVE  ServiceRank(r) \in [1 .. 4 -> Int] /\ ServiceRank(r)[4] = r
<1>1. Rank(r)[1] \in Int /\ Rank(r)[2] \in Int
  BY RankTyped
<1>2. r \in Int /\ CandidateOrder(r) \in Int
  BY CandidateOrderTyped, RequestNat
<1> QED
  BY <1>1, <1>2 DEF ServiceRank

\* There is a best and a worst request of any, and a best one to serve.
LEMMA BestIn ==
    ASSUME TypeInv, StateInv, NEW S \in SUBSET Requests, S # {}
    PROVE  /\ Best(S, Rank) \in S
           /\ Best(S, ServiceRank) \in S
           /\ Worst(S) \in S
<1>1. IsFiniteSet(S)
  BY RequestsFinite
<1>2. Best(S, Rank) \in S
  <2> DEFINE k == [r \in S |-> Rank(r)]
  <2>1. \A r \in S : Rank(r) \in [1 .. 3 -> Int] /\ Rank(r)[3] = r
    BY RankTyped
  <2>2. k \in [S -> [1 .. 3 -> Int]] /\ \A r, s \in S : r # s => k[r] # k[s]
    BY <2>1
  <2>3. \E r \in S : \A s \in S \ {r} : Before(k[r], k[s])
    <3> HIDE DEF k
    <3> QED
      BY <1>1, <2>2, LeastRanked
  <2>4. \E r \in S : \A s \in S \ {r} : Before(Rank(r), Rank(s))
    BY <2>3
  <2> QED
    BY <2>4 DEF Best
<1>3. Best(S, ServiceRank) \in S
  <2> DEFINE k == [r \in S |-> ServiceRank(r)]
  <2>1. \A r \in S : ServiceRank(r) \in [1 .. 4 -> Int] /\ ServiceRank(r)[4] = r
    BY ServiceRankTyped
  <2>2. k \in [S -> [1 .. 4 -> Int]] /\ \A r, s \in S : r # s => k[r] # k[s]
    BY <2>1
  <2>3. \E r \in S : \A s \in S \ {r} : Before(k[r], k[s])
    <3> HIDE DEF k
    <3> QED
      BY <1>1, <2>2, LeastRanked
  <2>4. \E r \in S : \A s \in S \ {r} : Before(ServiceRank(r), ServiceRank(s))
    BY <2>3
  <2> QED
    BY <2>4 DEF Best
<1>4. Worst(S) \in S
  <2> DEFINE k == [r \in S |-> [i \in 1 .. 3 |-> -Rank(r)[i]]]
  <2>1. \A r \in S : Rank(r) \in [1 .. 3 -> Int] /\ Rank(r)[3] = r /\ r \in Int
    BY RankTyped, RequestNat
  <2>2. k \in [S -> [1 .. 3 -> Int]] /\ \A r \in S : k[r][3] = -r
    BY <2>1
  <2>3. \A r, s \in S : r # s => k[r] # k[s]
    <3> TAKE r, s \in S
    <3>1. k[r][3] = -r /\ k[s][3] = -s /\ r \in Int /\ s \in Int
      BY <2>1, <2>2
    <3> HIDE DEF k
    <3> QED
      BY <3>1
  <2>4. PICK r \in S : \A s \in S \ {r} : Before(k[r], k[s])
    <3> HIDE DEF k
    <3> QED
      BY <1>1, <2>2, <2>3, LeastRanked
  <2>5. ASSUME NEW s \in S \ {r} PROVE Before(Rank(s), Rank(r))
    <3>1. PICK i \in 1 .. 3 : k[r][i] < k[s][i] /\ \A j \in 1 .. i - 1 : k[r][j] = k[s][j]
      BY <2>2, <2>4, <2>5 DEF Before
    <3>2. \A j \in 1 .. 3 : /\ k[r][j] = -Rank(r)[j] /\ Rank(r)[j] \in Int
                            /\ k[s][j] = -Rank(s)[j] /\ Rank(s)[j] \in Int
      BY <2>1
    <3> HIDE DEF k
    <3>3. Rank(s)[i] < Rank(r)[i] /\ \A j \in 1 .. i - 1 : Rank(s)[j] = Rank(r)[j]
      BY <3>1, <3>2
    <3>4. DOMAIN Rank(s) = 1 .. 3
      BY <2>1
    <3> QED
      BY <3>3, <3>4 DEF Before
  <2> QED
    BY <2>5 DEF Worst
<1> QED
  BY <1>2, <1>3, <1>4

------------------------------------------------------------------------------
(* One request: what happens to its record keeps the record in order. *)

\* More tokens take more room.
LEMMA LiveTokensMonotone ==
    ASSUME NEW p \in Nat, NEW c \in Nat, NEW q \in Nat, NEW d \in Nat, p <= q, c <= d
    PROVE  LiveTokens(p, c) <= LiveTokens(q, d)
<1>1. /\ LiveTokens(p, c) = p + (IF c = 0 THEN 0 ELSE c - 1)
      /\ LiveTokens(q, d) = q + (IF d = 0 THEN 0 ELSE d - 1)
  BY LiveTokensNat
<1> QED
  BY <1>1

\* The pages a request may ever need hold what it has cached.
LEMMA PeakHolds ==
    ASSUME TypeInv, NEW r \in Requests, NEW s \in RequestState, RecordOK(r, s)
    PROVE  /\ Peak(r) \in Nat
           /\ LiveTokens(s.prefill, s.committed) <= Peak(r) * PageTokens
<1>1. /\ s.prefill \in Nat /\ s.committed \in Nat
      /\ load[r].prompt \in Nat /\ load[r].output \in Nat
  BY LoadTyped DEF RequestState
<1>2. s.prefill <= load[r].prompt /\ s.committed <= load[r].output
  BY DEF RecordOK
<1> DEFINE peak == LiveTokens(load[r].prompt, load[r].output)
           live == LiveTokens(s.prefill, s.committed)
<1>3. peak \in Nat /\ live \in Nat
  BY <1>1, LiveTokensNat
<1>4. live <= peak
  BY <1>1, <1>2, LiveTokensMonotone
<1> HIDE DEF peak, live
<1>5. PagesFor(peak) \in Nat /\ peak <= PagesFor(peak) * PageTokens
  BY <1>3, PagesForEnough
<1>6. PageTokens \in Nat
  BY ServingAssumption
<1>7. PagesFor(peak) * PageTokens \in Nat
  BY <1>5, <1>6
<1>8. live <= PagesFor(peak) * PageTokens
  BY <1>3, <1>4, <1>5, <1>7
<1> QED
  BY <1>5, <1>8 DEF peak, live, Peak

\* A running request has nothing swapped out.
LEMMA RunningNotSwapped ==
    ASSUME NEW r \in Requests, NEW s \in RequestState, RecordOK(r, s), s.status = "running"
    PROVE  s.swapped = 0
BY DEF RecordOK, RequestState

LEMMA SwapOutOK ==
    ASSUME NEW r \in Requests, NEW s \in RequestState, RecordOK(r, s), s.status = "running",
           s.pages <= CapacityPages
    PROVE  /\ SwapOut(s) \in RequestState /\ RecordOK(r, SwapOut(s))
           /\ SwapOut(s).status = "swapped"
           /\ SwapOut(s).pages = 0 /\ SwapOut(s).swapped = s.pages
<1> DEFINE t == SwapOut(s)
<1>1. s.swapped = 0 /\ s.pages \in Nat
  BY RunningNotSwapped DEF RequestState
<1>2. /\ t \in RequestState
      /\ t.status = "swapped" /\ t.strategy = "swap" /\ t.pages = 0
      /\ t.swapped = IF s.pages = 0 THEN s.swapped ELSE s.pages
      /\ t.prefill = s.prefill /\ t.committed = s.committed /\ t.goal = s.goal /\ t.kv = s.kv
  BY DEF RequestState, SwapOut, Statuses
<1>3. t.swapped = s.pages
  BY <1>1, <1>2
<1> HIDE DEF t
<1>4. t.pages + t.swapped = s.pages + s.swapped
  BY <1>1, <1>2, <1>3
<1>5. HistoryHeld(t)
  BY <1>2, <1>4 DEF RecordOK, HistoryHeld, Alive
<1>6. RecordOK(r, t)
  BY <1>2, <1>5 DEF RecordOK
<1> QED
  BY <1>2, <1>3, <1>6 DEF t

LEMMA DropOK ==
    ASSUME NEW r \in Requests, NEW s \in RequestState, RecordOK(r, s), s.status = "running"
    PROVE  /\ DropForRecompute(s) \in RequestState /\ RecordOK(r, DropForRecompute(s))
           /\ DropForRecompute(s).status = "swapped"
           /\ DropForRecompute(s).pages = 0 /\ DropForRecompute(s).swapped = 0
<1> DEFINE t == DropForRecompute(s)
           live == LiveTokens(s.prefill, s.committed)
<1>1. s.swapped = 0 /\ live \in Nat
  BY RunningNotSwapped, LiveTokensNat DEF RequestState
<1>2. /\ t \in RequestState
      /\ t.status = "swapped" /\ t.pages = 0 /\ t.swapped = s.swapped
      /\ t.prefill = s.prefill /\ t.committed = s.committed /\ t.goal = live
  <2> HIDE DEF live
  <2> QED
    BY <1>1 DEF RequestState, DropForRecompute, Resize, Statuses, live
<1> HIDE DEF t
<1>3. HistoryHeld(t)
  <2>1. LiveTokens(t.prefill, t.committed) = live
    BY <1>2
  <2>2. PageTokens \in Nat
    BY ServingAssumption
  <2>3. (t.pages + t.swapped) * PageTokens = 0
    BY <1>1, <1>2, <2>2
  <2> HIDE DEF live
  <2> QED
    BY <1>2, <2>1, <2>3 DEF HistoryHeld
<1>4. RecordOK(r, t)
  BY <1>1, <1>2, <1>3 DEF RecordOK
<1> QED
  BY <1>1, <1>2, <1>4 DEF t

\* The history of a request is still there when its pages hold it.
LEMMA ResizedHistory ==
    ASSUME NEW s \in RequestState, HistoryHeld(s), s.status \in Alive, NEW n \in Nat,
           s.goal = 0 => LiveTokens(s.prefill, s.committed) <= n * PageTokens
    PROVE  s.goal = 0 => 0 .. LiveTokens(s.prefill, s.committed) - 1
                              \subseteq {p \in s.kv : p < n * PageTokens}
<1> DEFINE live == LiveTokens(s.prefill, s.committed)
<1>1. live \in Nat /\ n * PageTokens \in Nat
  <2>1. s.prefill \in Nat /\ s.committed \in Nat
    BY DEF RequestState
  <2>2. PageTokens \in Nat
    BY ServingAssumption
  <2>3. n * PageTokens \in Nat
    BY <2>2
  <2> QED
    BY <2>1, <2>3, LiveTokensNat
<1>2. s.goal = 0 => 0 .. live - 1 \subseteq s.kv /\ live <= n * PageTokens
  BY DEF HistoryHeld
<1> HIDE DEF live
<1>3. s.goal = 0 => 0 .. live - 1 \subseteq {p \in s.kv : p < n * PageTokens}
  BY <1>1, <1>2
<1> QED
  BY <1>3 DEF live

\* A running request is given n pages.
LEMMA ResizeOK ==
    ASSUME NEW r \in Requests, NEW s \in RequestState, RecordOK(r, s), s.status = "running",
           NEW n \in Nat,
           s.goal = 0 => LiveTokens(s.prefill, s.committed) <= n * PageTokens
    PROVE  /\ Resize(s, n) \in RequestState /\ RecordOK(r, Resize(s, n))
           /\ Resize(s, n).pages = n /\ Resize(s, n).swapped = s.swapped
           /\ Resize(s, n).status = s.status
           /\ Resize(s, n).prefill = s.prefill /\ Resize(s, n).committed = s.committed
           /\ Resize(s, n).cursor = s.cursor /\ Resize(s, n).goal = s.goal
<1> DEFINE t == Resize(s, n)
<1>1. s.swapped = 0
  BY RunningNotSwapped
<1>2. /\ t \in RequestState
      /\ t.status = s.status /\ t.pages = n /\ t.swapped = s.swapped /\ t.strategy = s.strategy
      /\ t.prefill = s.prefill /\ t.committed = s.committed
      /\ t.cursor = s.cursor /\ t.goal = s.goal
      /\ t.kv = {p \in s.kv : p < n * PageTokens}
  BY DEF RequestState, Resize
<1> HIDE DEF t
<1>3. HistoryHeld(t)
  <2>1. HistoryHeld(s) /\ s.status \in Alive
    BY DEF RecordOK, Alive
  <2>2. s.goal = 0 => 0 .. LiveTokens(s.prefill, s.committed) - 1 \subseteq t.kv
    BY <1>2, <2>1, ResizedHistory
  <2>3. t.pages + t.swapped = n
    BY <1>1, <1>2
  <2> QED
    BY <1>2, <2>2, <2>3 DEF HistoryHeld
<1>4. RecordOK(r, t)
  BY <1>1, <1>2, <1>3 DEF RecordOK
<1> QED
  BY <1>2, <1>4 DEF t

\* A queued request is admitted with n pages.
LEMMA AdmittedOK ==
    ASSUME NEW r \in Requests, NEW s \in RequestState, RecordOK(r, s),
           s.status \in {"waiting", "swapped"}, s.swapped = 0, NEW n \in Nat,
           s.goal = 0 => LiveTokens(s.prefill, s.committed) <= n * PageTokens
    PROVE  /\ Run(Resize(s, n)) \in RequestState /\ RecordOK(r, Run(Resize(s, n)))
           /\ Run(Resize(s, n)).pages = n /\ Run(Resize(s, n)).swapped = 0
           /\ Run(Resize(s, n)).status = "running"
<1> DEFINE t == Run(Resize(s, n))
<1>1. /\ t \in RequestState
      /\ t.status = "running" /\ t.pages = n /\ t.swapped = s.swapped
      /\ t.prefill = s.prefill /\ t.committed = s.committed /\ t.goal = s.goal
      /\ t.kv = {p \in s.kv : p < n * PageTokens}
  BY DEF RequestState, Resize, Run, Statuses
<1> HIDE DEF t
<1>2. HistoryHeld(t)
  <2>1. HistoryHeld(s) /\ s.status \in Alive
    BY DEF RecordOK, Alive
  <2>2. s.goal = 0 => 0 .. LiveTokens(s.prefill, s.committed) - 1 \subseteq t.kv
    BY <1>1, <2>1, ResizedHistory
  <2>3. t.pages + t.swapped = n
    BY <1>1
  <2> QED
    BY <1>1, <2>2, <2>3 DEF HistoryHeld
<1>3. RecordOK(r, t)
  BY <1>1, <1>2 DEF RecordOK
<1> QED
  BY <1>1, <1>3 DEF t

\* Under the lazy policy it is admitted as it is.
LEMMA AdmittedLazilyOK ==
    ASSUME NEW r \in Requests, NEW s \in RequestState, RecordOK(r, s),
           s.status \in {"waiting", "swapped"}, s.swapped = 0
    PROVE  /\ Run(s) \in RequestState /\ RecordOK(r, Run(s))
           /\ Run(s).pages = s.pages /\ Run(s).swapped = 0 /\ Run(s).status = "running"
<1> DEFINE t == Run(s)
<1>1. /\ t \in RequestState
      /\ t.status = "running" /\ t.pages = s.pages /\ t.swapped = s.swapped
      /\ t.prefill = s.prefill /\ t.committed = s.committed /\ t.goal = s.goal /\ t.kv = s.kv
  BY DEF RequestState, Run, Statuses
<1> HIDE DEF t
<1>2. RecordOK(r, t)
  BY <1>1 DEF RecordOK, HistoryHeld, Alive
<1> QED
  BY <1>1, <1>2 DEF t

\* A swapped request gets n pages back.
Resumed(s, n) == [Run(s) EXCEPT !.pages = n, !.swapped = 0]

LEMMA ResumedOK ==
    ASSUME NEW r \in Requests, NEW s \in RequestState, RecordOK(r, s), s.status = "swapped",
           NEW n \in Nat,
           s.goal = 0 => LiveTokens(s.prefill, s.committed) <= n * PageTokens
    PROVE  /\ Resumed(s, n) \in RequestState /\ RecordOK(r, Resumed(s, n))
           /\ Resumed(s, n).pages = n /\ Resumed(s, n).swapped = 0
           /\ Resumed(s, n).status = "running"
<1> DEFINE t == Resumed(s, n)
<1>0. 0 <= CapacityPages
  BY ServingAssumption
<1>1. /\ t \in RequestState
      /\ t.status = "running" /\ t.pages = n /\ t.swapped = 0
      /\ t.prefill = s.prefill /\ t.committed = s.committed /\ t.goal = s.goal /\ t.kv = s.kv
  BY DEF RequestState, Run, Resumed, Statuses
<1> HIDE DEF t
<1>2. t.pages + t.swapped = n
  BY <1>1
<1>3. HistoryHeld(t)
  BY <1>1, <1>2 DEF RecordOK, HistoryHeld, Alive
<1>4. RecordOK(r, t)
  BY <1>0, <1>1, <1>3 DEF RecordOK
<1> QED
  BY <1>1, <1>4 DEF t

\* A finished request had computed everything, and its pages go.
LEMMA FinishOK ==
    ASSUME NEW r \in Requests, NEW s \in RequestState, RecordOK(r, s), s.status = "running",
           s.committed = load[r].output, s.prefill = load[r].prompt
    PROVE  /\ Finish(s) \in RequestState /\ RecordOK(r, Finish(s))
           /\ Finish(s).pages = 0 /\ Finish(s).swapped = 0 /\ Finish(s).status = "finished"
<1> DEFINE t == Finish(s)
<1>1. s.swapped = 0
  BY RunningNotSwapped
<1>2. /\ t \in RequestState
      /\ t.status = "finished" /\ t.pages = 0 /\ t.swapped = s.swapped
      /\ t.prefill = s.prefill /\ t.committed = s.committed
  BY DEF RequestState, Resize, Finish, Statuses
<1> HIDE DEF t
<1>3. RecordOK(r, t)
  BY <1>1, <1>2 DEF RecordOK, HistoryHeld, Alive
<1> QED
  BY <1>1, <1>2, <1>3 DEF t

\* What an item of the cohort makes of its request.
After(s, item) ==
    LET computed == item.context .. item.context + item.tokens - 1
        grown    == LiveTokens(s.prefill, s.committed + 1)
        first    == /\ s.prefill + item.tokens >= load[item.request].prompt
                    /\ s.committed = 0 /\ load[item.request].output > 0
    IN
    CASE item.phase = "recompute" ->
           [s EXCEPT !.kv = @ \union computed, !.cursor = @ + item.tokens]
      [] item.phase = "prefill" ->
           [s EXCEPT !.kv = @ \union computed, !.prefill = @ + item.tokens,
                     !.committed = IF first THEN 1 ELSE @]
      [] item.phase = "decode" ->
           Resize([s EXCEPT !.kv = @ \union (item.context .. grown - 1), !.committed = @ + 1],
                  PagesFor(grown))

LEMMA CommittedCases ==
    ASSUME NEW item \in Item, NEW s \in RequestState
    PROVE  LET n == After(s, item)
               r == item.request IN
           Committed(s, item) = IF /\ item.phase # "recompute"
                                   /\ n.prefill >= load[r].prompt
                                   /\ n.committed >= load[r].output
                                THEN Finish(n) ELSE n
<1>1. item.phase \in Phases
  BY DEF Item
<1>2. CASE item.phase = "recompute"
  <2>1. After(s, item) = [s EXCEPT !.kv = @ \union (item.context .. item.context + item.tokens - 1),
                                   !.cursor = @ + item.tokens]
    BY <1>2 DEF After
  <2>2. Committed(s, item) = After(s, item)
    BY <1>2, <2>1 DEF Committed, RequestState
  <2> QED
    BY <1>2, <2>2
<1>3. CASE item.phase = "prefill"
  BY <1>3 DEF Committed, After, RequestState
<1>4. CASE item.phase = "decode"
  BY <1>4 DEF Committed, After, RequestState
<1> QED
  BY <1>1, <1>2, <1>3, <1>4 DEF Phases

LEMMA RecomputedOK ==
    ASSUME TypeInv, StateInv, NEW item \in Item, ItemOK(item), item.phase = "recompute",
           NEW s, s = state[item.request]
    PROVE  /\ After(s, item) \in RequestState /\ RecordOK(item.request, After(s, item))
           /\ After(s, item).pages = s.pages /\ After(s, item).status = "running"
<1> DEFINE n == After(s, item)
           r == item.request
<1>1. r \in Requests /\ item.context \in Nat /\ item.tokens \in Nat
  BY DEF Item
<1>2. s \in RequestState /\ RecordOK(r, s) /\ s.status = "running" /\ s.goal # 0
  <2>1. s \in RequestState /\ RecordOK(r, s)
    BY <1>1 DEF StateInv
  <2>2. s.status = "running"
    BY DEF ItemOK, Running, InStatus
  <2>3. s.cursor < s.goal
    BY DEF ItemOK, InPhase
  <2>4. s.cursor \in Nat /\ s.goal \in Nat
    BY <2>1 DEF RequestState
  <2> QED
    BY <2>1, <2>2, <2>3, <2>4
<1>3. n = [s EXCEPT !.kv = @ \union (item.context .. item.context + item.tokens - 1),
                    !.cursor = @ + item.tokens]
  BY DEF After
<1>4. item.context .. item.context + item.tokens - 1 \subseteq Nat
  BY <1>1
<1>5. /\ n \in RequestState
      /\ n.status = s.status /\ n.pages = s.pages /\ n.swapped = s.swapped
      /\ n.prefill = s.prefill /\ n.committed = s.committed
      /\ n.goal = s.goal /\ n.strategy = s.strategy
  <2> DEFINE computed == s.kv \union (item.context .. item.context + item.tokens - 1)
             cursor   == s.cursor + item.tokens
  <2>1. computed \in SUBSET Nat /\ cursor \in Nat
    BY <1>1, <1>2, <1>4 DEF RequestState
  <2>2. n = [s EXCEPT !.kv = computed, !.cursor = cursor]
    BY <1>3
  <2> HIDE DEF n, computed, cursor
  <2> QED
    BY <1>2, <2>1, <2>2 DEF RequestState
<1> HIDE DEF n
<1>6. RecordOK(r, n)
  BY <1>2, <1>5 DEF RecordOK, HistoryHeld
<1> QED
  BY <1>2, <1>5, <1>6 DEF n

LEMMA PrefilledOK ==
    ASSUME TypeInv, StateInv, NEW item \in Item, ItemOK(item), item.phase = "prefill",
           NEW s, s = state[item.request]
    PROVE  /\ After(s, item) \in RequestState /\ RecordOK(item.request, After(s, item))
           /\ After(s, item).pages = s.pages /\ After(s, item).status = "running"
<1> DEFINE n == After(s, item)
           r == item.request
           first == /\ s.prefill + item.tokens >= load[r].prompt
                    /\ s.committed = 0 /\ load[r].output > 0
<1>1. r \in Requests /\ item.context \in Nat /\ item.tokens \in Nat
  BY DEF Item
<1>2. /\ s \in RequestState /\ RecordOK(r, s) /\ s.status = "running"
      /\ s.prefill \in Nat /\ s.committed \in Nat /\ s.pages \in Nat /\ s.swapped = 0
      /\ s.kv \in SUBSET Nat
  <2>1. s \in RequestState /\ RecordOK(r, s)
    BY <1>1 DEF StateInv
  <2>2. s.status = "running"
    BY DEF ItemOK, Running, InStatus
  <2> QED
    BY <1>1, <2>1, <2>2, RunningNotSwapped DEF RequestState
<1>3. load[r].prompt \in Nat /\ load[r].output \in Nat
  BY <1>1, LoadTyped
<1>4. /\ s.prefill < load[r].prompt /\ item.context = s.prefill
      /\ item.tokens <= load[r].prompt - s.prefill
      /\ item.context + item.tokens <= s.pages * PageTokens
  <2>1. InPhase(r, "prefill") /\ item.context = Context(r, "prefill")
    BY DEF ItemOK
  <2>2. item.tokens \in 1 .. Remaining(r, "prefill") /\ Needs(item) <= s.pages * PageTokens
    BY DEF ItemOK
  <2>3. Remaining(r, "prefill") = load[r].prompt - s.prefill /\ Context(r, "prefill") = s.prefill
    BY DEF Remaining, Context
  <2>4. Needs(item) = item.context + item.tokens
    BY DEF Needs
  <2>5. s.prefill < load[r].prompt
    BY <2>1 DEF InPhase
  <2> QED
    BY <1>2, <1>3, <2>1, <2>2, <2>3, <2>4, <2>5
<1>5. s.committed = 0
  BY <1>2, <1>4 DEF RecordOK
<1>6. n = [s EXCEPT !.kv = @ \union (item.context .. item.context + item.tokens - 1),
                    !.prefill = @ + item.tokens,
                    !.committed = IF first THEN 1 ELSE @]
  BY DEF After
<1>7. item.context .. item.context + item.tokens - 1 \subseteq Nat
  BY <1>1
<1>8. /\ n \in RequestState
      /\ n.status = s.status /\ n.pages = s.pages /\ n.swapped = s.swapped
      /\ n.prefill = s.prefill + item.tokens
      /\ n.committed = IF first THEN 1 ELSE 0
      /\ n.goal = s.goal /\ n.strategy = s.strategy
      /\ n.kv = s.kv \union (item.context .. item.context + item.tokens - 1)
  <2> DEFINE computed  == s.kv \union (item.context .. item.context + item.tokens - 1)
             prefill   == s.prefill + item.tokens
             committed == IF first THEN 1 ELSE 0
  <2>1. computed \in SUBSET Nat /\ prefill \in Nat /\ committed \in Nat
    BY <1>1, <1>2, <1>7
  <2>2. n = [s EXCEPT !.kv = computed, !.prefill = prefill, !.committed = committed]
    BY <1>5, <1>6
  <2>3. n.kv = computed /\ n.prefill = prefill /\ n.committed = committed
    <3> HIDE DEF n, computed, prefill, committed
    <3> QED
      BY <1>2, <2>2 DEF RequestState
  <2>4. /\ n \in RequestState
        /\ n.status = s.status /\ n.pages = s.pages /\ n.swapped = s.swapped
        /\ n.goal = s.goal /\ n.strategy = s.strategy
    <3> HIDE DEF n, computed, prefill, committed
    <3> QED
      BY <1>2, <2>1, <2>2 DEF RequestState
  <2> HIDE DEF n
  <2> QED
    BY <2>3, <2>4
<1> HIDE DEF n
<1>9. LiveTokens(n.prefill, n.committed) = item.context + item.tokens
  <2>1. s.prefill + item.tokens \in Nat
    BY <1>1, <1>2
  <2>2. LiveTokens(s.prefill + item.tokens, IF first THEN 1 ELSE 0) = s.prefill + item.tokens
    <3> HIDE DEF first
    <3>1. LiveTokens(s.prefill + item.tokens, 0) = s.prefill + item.tokens
      BY <2>1, LiveTokensNat
    <3>2. LiveTokens(s.prefill + item.tokens, 1) = s.prefill + item.tokens
      BY <2>1, LiveTokensNat
    <3> QED
      BY <3>1, <3>2
  <2> QED
    BY <1>4, <1>8, <2>2
<1>10. HistoryHeld(n)
  <2>1. ASSUME s.goal = 0 PROVE 0 .. item.context - 1 \subseteq s.kv
    <3>1. LiveTokens(s.prefill, 0) = s.prefill
      <4>1. s.prefill \in Nat /\ 0 \in Nat
        BY <1>2
      <4>2. LiveTokens(s.prefill, 0) = s.prefill + 0
        BY <4>1, LiveTokensNat
      <4> QED
        BY <4>1, <4>2
    <3>2. LiveTokens(s.prefill, s.committed) = item.context
      BY <1>4, <1>5, <3>1
    <3>3. 0 .. LiveTokens(s.prefill, s.committed) - 1 \subseteq s.kv
      BY <1>2, <2>1 DEF RecordOK, HistoryHeld, Alive
    <3> QED
      BY <3>2, <3>3
  <2>2. ASSUME s.goal = 0 PROVE 0 .. (item.context + item.tokens) - 1 \subseteq n.kv
    BY <1>1, <1>8, <2>1, <2>2
  <2>3. item.context + item.tokens <= (n.pages + n.swapped) * PageTokens
    <3>1. n.pages + n.swapped = s.pages
      BY <1>2, <1>8
    <3> QED
      BY <1>4, <3>1
  <2>4. n.goal = s.goal
    BY <1>8
  <2>5. ASSUME s.goal = 0
        PROVE  0 .. LiveTokens(n.prefill, n.committed) - 1 \subseteq n.kv
    <3> DEFINE live == item.context + item.tokens
    <3>1. 0 .. live - 1 \subseteq n.kv
      BY <2>2, <2>5, Zenon
    <3>2. LiveTokens(n.prefill, n.committed) = live
      BY <1>9, Zenon
    <3> HIDE DEF live
    <3> QED
      BY <3>1, <3>2, Zenon
  <2>6. LiveTokens(n.prefill, n.committed) <= (n.pages + n.swapped) * PageTokens
    BY <1>9, <2>3
  <2> QED
    BY <2>4, <2>5, <2>6 DEF HistoryHeld
<1>11. /\ n.prefill <= load[r].prompt /\ n.committed <= load[r].output
       /\ n.prefill < load[r].prompt => n.committed = 0
  BY <1>1, <1>2, <1>3, <1>4, <1>8
<1>12. RecordOK(r, n)
  <2> HIDE DEF first
  <2> QED
    BY <1>2, <1>8, <1>10, <1>11 DEF RecordOK
<1> QED
  BY <1>2, <1>8, <1>12 DEF n

LEMMA DecodedOK ==
    ASSUME TypeInv, StateInv, NEW item \in Item, ItemOK(item), item.phase = "decode",
           NEW s, s = state[item.request]
    PROVE  /\ After(s, item) \in RequestState /\ RecordOK(item.request, After(s, item))
           /\ After(s, item).pages <= s.pages /\ After(s, item).status = "running"
<1> DEFINE n == After(s, item)
           r == item.request
           grown == LiveTokens(s.prefill, s.committed + 1)
           pages == PagesFor(grown)
           kv == {p \in s.kv \union (item.context .. grown - 1) : p < pages * PageTokens}
<1>1. r \in Requests /\ item.context \in Nat
  BY DEF Item
<1>2. /\ s \in RequestState /\ RecordOK(r, s) /\ s.status = "running"
      /\ s.prefill \in Nat /\ s.committed \in Nat /\ s.pages \in Nat /\ s.swapped = 0
      /\ s.kv \in SUBSET Nat
  <2>1. s \in RequestState /\ RecordOK(r, s)
    BY <1>1 DEF StateInv
  <2>2. s.status = "running"
    BY DEF ItemOK, Running, InStatus
  <2> QED
    BY <1>1, <2>1, <2>2, RunningNotSwapped DEF RequestState
<1>3. load[r].prompt \in Nat /\ load[r].output \in Nat
  BY <1>1, LoadTyped
<1>4. /\ ~(s.prefill < load[r].prompt) /\ s.committed < load[r].output
      /\ item.context = LiveTokens(s.prefill, s.committed)
      /\ grown <= s.pages * PageTokens
  <2>1. InPhase(r, "decode") /\ item.context = Context(r, "decode")
    BY DEF ItemOK
  <2>2. Needs(item) <= s.pages * PageTokens
    BY DEF ItemOK
  <2>3. Context(r, "decode") = LiveTokens(s.prefill, s.committed)
    BY DEF Context, Cached
  <2>4. Needs(item) = grown
    BY DEF Needs
  <2>5. ~(s.prefill < load[r].prompt) /\ s.committed < load[r].output
    BY <2>1 DEF InPhase
  <2> QED
    BY <2>1, <2>2, <2>3, <2>4, <2>5
<1>5. s.prefill = load[r].prompt
  BY <1>2, <1>3, <1>4 DEF RecordOK
<1>6. grown \in Nat
  <2>1. s.committed + 1 \in Nat
    BY <1>2
  <2> QED
    BY <1>2, <2>1, LiveTokensNat
<1>7. /\ n = Resize([s EXCEPT !.kv = @ \union (item.context .. grown - 1), !.committed = @ + 1],
                     pages)
      /\ pages \in Nat /\ grown <= pages * PageTokens
  <2>1. n = Resize([s EXCEPT !.kv = @ \union (item.context .. grown - 1), !.committed = @ + 1],
                   pages)
    BY DEF After
  <2> HIDE DEF n, grown
  <2>2. pages \in Nat /\ grown <= pages * PageTokens
    BY <1>6, PagesForEnough
  <2> QED
    BY <2>1, <2>2
<1>8. pages <= s.pages
  <2> HIDE DEF grown
  <2> QED
    BY <1>2, <1>4, <1>6, PagesForLeast
<1>9. kv \in SUBSET Nat /\ s.committed + 1 \in Nat
  <2>1. item.context .. grown - 1 \subseteq Nat
    <3> HIDE DEF grown
    <3> QED
      BY <1>1, <1>6
  <2>2. s.kv \union (item.context .. grown - 1) \subseteq Nat
    BY <1>2, <2>1
  <2>3. s.committed + 1 \in Nat
    BY <1>2
  <2> QED
    BY <2>2, <2>3
<1>10. n = [s EXCEPT !.kv = kv, !.committed = s.committed + 1, !.pages = pages]
  <2> HIDE DEF n, grown
  <2> QED
    BY <1>2, <1>7 DEF Resize, RequestState
<1>11. /\ n \in RequestState
       /\ n.status = s.status /\ n.pages = pages /\ n.swapped = s.swapped
       /\ n.prefill = s.prefill /\ n.committed = s.committed + 1
       /\ n.goal = s.goal /\ n.strategy = s.strategy /\ n.kv = kv
  <2> HIDE DEF n, kv, pages
  <2> QED
    BY <1>2, <1>7, <1>9, <1>10 DEF RequestState
<1> HIDE DEF n
<1>12. LiveTokens(n.prefill, n.committed) = grown
  BY <1>11
<1>13. HistoryHeld(n)
  <2>1. ASSUME s.goal = 0 PROVE 0 .. item.context - 1 \subseteq s.kv
    <3>1. 0 .. LiveTokens(s.prefill, s.committed) - 1 \subseteq s.kv
      BY <1>2, <2>1 DEF RecordOK, HistoryHeld, Alive
    <3> QED
      BY <1>4, <3>1, Zenon
  <2>2. ASSUME s.goal = 0 PROVE 0 .. grown - 1 \subseteq kv
    <3>1. pages * PageTokens \in Nat
      <4>1. PageTokens \in Nat
        BY ServingAssumption
      <4> HIDE DEF pages
      <4> QED
        BY <1>7, <4>1
    <3> HIDE DEF grown, pages
    <3>2. ASSUME NEW p \in 0 .. grown - 1 PROVE p \in kv
      <4>1. p \in Nat /\ p < grown /\ p < pages * PageTokens
        BY <1>6, <1>7, <3>1, <3>2
      <4>2. p \in s.kv \union (item.context .. grown - 1)
        BY <1>1, <1>6, <2>1, <2>2, <4>1
      <4> QED
        BY <4>1, <4>2
    <3> QED
      BY <3>2
  <2>3. grown <= (n.pages + n.swapped) * PageTokens
    <3> HIDE DEF grown, pages
    <3>1. n.pages + n.swapped = pages
      BY <1>2, <1>7, <1>11
    <3> QED
      BY <1>7, <3>1
  <2>4. n.goal = s.goal /\ n.kv = kv
    BY <1>11
  <2>5. ASSUME s.goal = 0
        PROVE  0 .. LiveTokens(n.prefill, n.committed) - 1 \subseteq n.kv
    <3> HIDE DEF kv, grown
    <3> QED
      BY <1>12, <2>2, <2>4, <2>5, Zenon
  <2>6. LiveTokens(n.prefill, n.committed) <= (n.pages + n.swapped) * PageTokens
    <3> HIDE DEF grown
    <3> QED
      BY <1>12, <2>3
  <2> QED
    BY <2>4, <2>5, <2>6 DEF HistoryHeld
<1>14. /\ n.prefill = load[r].prompt /\ n.committed <= load[r].output
  <2> HIDE DEF grown, pages, kv
  <2> QED
    BY <1>2, <1>3, <1>4, <1>5, <1>11
<1>15. RecordOK(r, n)
  <2> HIDE DEF grown, pages, kv
  <2>1. ~(n.prefill < load[r].prompt) /\ n.prefill <= load[r].prompt
    BY <1>3, <1>14
  <2> QED
    BY <1>2, <1>11, <1>13, <1>14, <2>1 DEF RecordOK
<1> HIDE DEF pages
<1> QED
  BY <1>2, <1>8, <1>11, <1>15 DEF n

\* Committing an item never takes more pages than were reserved.
LEMMA CommittedOK ==
    ASSUME TypeInv, StateInv, NEW item \in Item, ItemOK(item),
           NEW s, s = state[item.request], NEW t, t = Committed(s, item)
    PROVE  /\ t \in RequestState /\ RecordOK(item.request, t)
           /\ t.pages \in Nat /\ t.pages <= s.pages /\ t.swapped = 0 /\ s.swapped = 0
           /\ t.status \in {"running", "finished"}
<1> DEFINE n == After(s, item)
           r == item.request
<1>1. r \in Requests /\ item.phase \in Phases
  BY DEF Item
<1>2. s \in RequestState /\ RecordOK(r, s) /\ s.status = "running"
  <2>1. s \in RequestState /\ RecordOK(r, s)
    BY <1>1 DEF StateInv
  <2>2. s.status = "running"
    BY DEF ItemOK, Running, InStatus
  <2> QED
    BY <2>1, <2>2
<1>3. s.pages \in Nat
  BY <1>2 DEF RequestState
<1>4. /\ n \in RequestState /\ RecordOK(r, n)
      /\ n.pages <= s.pages /\ n.status = "running"
  <2>1. CASE item.phase = "recompute"
    BY <1>3, <2>1, RecomputedOK
  <2>2. CASE item.phase = "prefill"
    BY <1>3, <2>2, PrefilledOK
  <2>3. CASE item.phase = "decode"
    BY <2>3, DecodedOK
  <2> QED
    BY <1>1, <2>1, <2>2, <2>3 DEF Phases
<1>5. s.swapped = 0 /\ n.swapped = 0 /\ n.pages \in Nat
  BY <1>1, <1>2, <1>4, RunningNotSwapped DEF RequestState
<1>6. t = IF item.phase # "recompute" /\ n.prefill >= load[r].prompt
             /\ n.committed >= load[r].output
          THEN Finish(n) ELSE n
  BY <1>2, CommittedCases
<1> HIDE DEF n
<1>7. CASE t = n
  BY <1>4, <1>5, <1>7
<1>8. CASE t # n
  <2>1. t = Finish(n) /\ n.prefill >= load[r].prompt /\ n.committed >= load[r].output
    BY <1>6, <1>8
  <2>2. /\ n.prefill \in Nat /\ n.committed \in Nat
        /\ load[r].prompt \in Nat /\ load[r].output \in Nat
    BY <1>1, <1>4, LoadTyped DEF RequestState
  <2>3. n.prefill <= load[r].prompt /\ n.committed <= load[r].output
    BY <1>4 DEF RecordOK
  <2>4. n.prefill = load[r].prompt /\ n.committed = load[r].output
    BY <2>1, <2>2, <2>3
  <2>5. /\ Finish(n) \in RequestState /\ RecordOK(r, Finish(n))
        /\ Finish(n).pages = 0 /\ Finish(n).swapped = 0 /\ Finish(n).status = "finished"
    BY <1>1, <1>4, <2>4, FinishOK
  <2> QED
    BY <1>3, <1>5, <2>1, <2>5
<1> QED
  BY <1>7, <1>8

------------------------------------------------------------------------------
(* The ledger. *)

\* The sum over all requests, when one of them changes, and when only one of
\* them counts.
LEMMA RequestSum ==
    ASSUME NEW f \in [Requests -> Nat]
    PROVE  /\ SumFunction(f) = SumFunctionOnSet(f, Requests)
           /\ SumFunction(f) \in Nat
           /\ \A r \in Requests : f[r] <= SumFunction(f)
<1>1. IsFiniteSet(Requests)
  BY RequestsFinite
<1>2. SumFunction(f) = SumFunctionOnSet(f, Requests)
  BY DEF SumFunction
<1>3. \A r \in Requests : f[r] \in Nat
  OBVIOUS
<1>4. SumFunctionOnSet(f, Requests) \in Nat
  BY <1>1, <1>3, SumNat
<1>5. ASSUME NEW r \in Requests PROVE f[r] <= SumFunctionOnSet(f, Requests)
  <2> DEFINE others == SumFunctionOnSet(f, Requests \ {r})
  <2>1. IsFiniteSet(Requests \ {r}) /\ \A x \in Requests \ {r} : f[x] \in Nat
    BY <1>3, RequestsFinite
  <2>2. others \in Nat
    BY <2>1, SumNat
  <2>3. SumFunctionOnSet(f, Requests) = f[r] + others
    <3>1. \A x \in Requests : f[x] \in Int
      BY <1>3
    <3> QED
      BY <1>1, <3>1, SumRemove
  <2> HIDE DEF others
  <2> QED
    BY <1>3, <2>2, <2>3
<1> QED
  BY <1>2, <1>4, <1>5

LEMMA RequestSumUpdate ==
    ASSUME NEW f \in [Requests -> Nat], NEW g \in [Requests -> Nat], NEW r \in Requests,
           \A s \in Requests \ {r} : g[s] = f[s]
    PROVE  SumFunction(g) = SumFunction(f) - f[r] + g[r]
<1>1. IsFiniteSet(Requests) /\ \A s \in Requests : f[s] \in Int /\ g[s] \in Int
  BY RequestsFinite
<1>2. SumFunctionOnSet(g, Requests) = SumFunctionOnSet(f, Requests) - f[r] + g[r]
  BY <1>1, SumUpdate
<1> QED
  BY <1>2, RequestSum

LEMMA RequestSumSingle ==
    ASSUME NEW f \in [Requests -> Nat], NEW r \in Requests, \A s \in Requests \ {r} : f[s] = 0
    PROVE  SumFunction(f) = f[r]
<1>1. IsFiniteSet(Requests) /\ \A s \in Requests : f[s] \in Int
  BY RequestsFinite
<1> DEFINE others == SumFunctionOnSet(f, Requests \ {r})
<1>2. SumFunctionOnSet(f, Requests) = f[r] + others
  BY <1>1, SumRemove
<1>3. SumFunctionOnSet(f, Requests) = SumFunctionOnSet(f, Requests) + others
  <2>1. /\ Requests \ {r} \in SUBSET Requests
        /\ \A y \in Requests \ {r} : f[y] = f[y] - f[y]
        /\ \A y \in Requests \ (Requests \ {r}) : f[y] = f[y]
    BY <1>1
  <2> QED
    BY <1>1, <2>1, SumChange
<1>4. others \in Int
  <2>1. IsFiniteSet(Requests \ {r}) /\ \A x \in Requests \ {r} : f[x] \in Int
    BY <1>1, RequestsFinite
  <2> QED
    BY <2>1, SumInt
<1>5. SumFunctionOnSet(f, Requests) \in Int
  BY <1>1, SumInt
<1> HIDE DEF others
<1>6. SumFunctionOnSet(f, Requests) = f[r]
  BY <1>1, <1>2, <1>3, <1>4, <1>5
<1> QED
  BY <1>6, RequestSum

LEMMA LedgerTyped ==
    ASSUME StateInv, LedgerInv
    PROVE  /\ PagesHeld \in [Requests -> Nat] /\ PagesSwapped \in [Requests -> Nat]
           /\ used \in Nat /\ offloaded \in Nat
           /\ CapacityPages \in Nat /\ OffloadPages \in Nat
           /\ \A r \in Requests :
                 state[r].pages <= CapacityPages /\ state[r].swapped <= offloaded
<1>1. PagesHeld \in [Requests -> Nat] /\ PagesSwapped \in [Requests -> Nat]
  BY StateTyped DEF PagesHeld, PagesSwapped
<1>2. used \in Nat /\ offloaded \in Nat
  BY <1>1, RequestSum DEF LedgerInv
<1>3. CapacityPages \in Nat /\ OffloadPages \in Nat
  BY ServingAssumption
<1>4. ASSUME NEW r \in Requests
      PROVE  state[r].pages <= CapacityPages /\ state[r].swapped <= offloaded
  <2>1. PagesHeld[r] <= used /\ PagesSwapped[r] <= offloaded
    BY <1>1, RequestSum DEF LedgerInv
  <2>2. PagesHeld[r] = state[r].pages /\ PagesSwapped[r] = state[r].swapped
    BY DEF PagesHeld, PagesSwapped
  <2>3. used <= CapacityPages /\ state[r].pages \in Nat
    BY StateTyped DEF LedgerInv
  <2> QED
    BY <1>2, <1>3, <2>1, <2>2, <2>3
<1> QED
  BY <1>1, <1>2, <1>3, <1>4

------------------------------------------------------------------------------
(* Steps that change one request. *)

LEMMA StateFrame ==
    ASSUME load' = load, state' \in [Requests -> RequestState],
           \A r \in Requests : RecordOK(r, state'[r])
    PROVE  StateInv'
BY DEF StateInv, RecordOK, HistoryHeld, Peak

LEMMA OneRequest ==
    ASSUME StateInv, LedgerInv, load' = load,
           NEW r \in Requests, NEW s, s \in RequestState, RecordOK(r, s),
           state' = [state EXCEPT ![r] = s]
    PROVE  /\ StateInv'
           /\ state'[r] = s /\ \A x \in Requests \ {r} : state'[x] = state[x]
           /\ SumFunction(PagesHeld') = used - state[r].pages + s.pages
           /\ SumFunction(PagesSwapped') = offloaded - state[r].swapped + s.swapped
           /\ state[r].pages \in Nat /\ state[r].swapped \in Nat
           /\ s.pages \in Nat /\ s.swapped \in Nat
<1>1. state \in [Requests -> RequestState] /\ \A x \in Requests : RecordOK(x, state[x])
  BY DEF StateInv
<1>2. /\ state' \in [Requests -> RequestState]
      /\ state'[r] = s /\ \A x \in Requests \ {r} : state'[x] = state[x]
  BY <1>1
<1>3. StateInv'
  <2>1. \A x \in Requests : RecordOK(x, state'[x])
    BY <1>1, <1>2, Zenon
  <2> QED
    BY <1>2, <2>1, StateFrame
<1>4. /\ state[r].pages \in Nat /\ state[r].swapped \in Nat
      /\ s.pages \in Nat /\ s.swapped \in Nat
  BY StateTyped DEF RequestState
<1>5. PagesHeld \in [Requests -> Nat] /\ PagesSwapped \in [Requests -> Nat]
  BY LedgerTyped
<1>6. PagesHeld' = [x \in Requests |-> state'[x].pages]
  BY DEF PagesHeld
<1>7. PagesSwapped' = [x \in Requests |-> state'[x].swapped]
  BY DEF PagesSwapped
<1>8. \A x \in Requests : state'[x].pages \in Nat /\ state'[x].swapped \in Nat
  BY <1>2 DEF RequestState
<1>9. PagesHeld' \in [Requests -> Nat] /\ PagesSwapped' \in [Requests -> Nat]
  BY <1>6, <1>7, <1>8
<1>10. /\ \A x \in Requests \ {r} : PagesHeld'[x] = PagesHeld[x]
       /\ PagesHeld'[r] = s.pages /\ PagesHeld[r] = state[r].pages
  BY <1>2, <1>6 DEF PagesHeld
<1>11. /\ \A x \in Requests \ {r} : PagesSwapped'[x] = PagesSwapped[x]
       /\ PagesSwapped'[r] = s.swapped /\ PagesSwapped[r] = state[r].swapped
  BY <1>2, <1>7 DEF PagesSwapped
<1>12. SumFunction(PagesHeld') = used - state[r].pages + s.pages
  <2>1. SumFunction(PagesHeld') = SumFunction(PagesHeld) - PagesHeld[r] + PagesHeld'[r]
    BY <1>5, <1>9, <1>10, RequestSumUpdate
  <2> QED
    BY <1>10, <2>1 DEF LedgerInv
<1>13. SumFunction(PagesSwapped') = offloaded - state[r].swapped + s.swapped
  <2>1. SumFunction(PagesSwapped')
          = SumFunction(PagesSwapped) - PagesSwapped[r] + PagesSwapped'[r]
    BY <1>5, <1>9, <1>11, RequestSumUpdate
  <2> QED
    BY <1>11, <2>1 DEF LedgerInv
<1> QED
  BY <1>2, <1>3, <1>4, <1>12, <1>13

\* A step between places where nothing is being tried.
Idle == {"round", "priority", "fill", "select", "idle", "woken", "done", "crashed", "unstable"}
LEMMA IdleSteps ==
    ASSUME pc' \in Idle
    PROVE  CohortInv' /\ AdmissionInv' /\ ReserveInv' /\ pc' \in Places
BY DEF Idle, CohortInv, AdmissionInv, ReserveInv, Asking, Places

\* A step that leaves the requests and the ledger alone.
LEMMA SameState ==
    ASSUME IInv, UNCHANGED <<input, state, ledger>>, pc # "done"
    PROVE  StateInv' /\ RejectedInv' /\ LedgerInv'
<1>1. UNCHANGED <<load, plan, state, used, offloaded>>
  BY DEF input, ledger
<1>2. StateInv'
  BY <1>1 DEF IInv, StateInv, RecordOK, HistoryHeld, Peak
<1>3. RejectedInv'
  BY <1>1 DEF IInv, RejectedInv, InStatus
<1>4. LedgerInv'
  BY <1>1 DEF IInv, LedgerInv, PagesHeld, PagesSwapped
<1> QED
  BY <1>2, <1>3, <1>4

\* Preempting a running request: its pages are swapped out or freed.
LEMMA Preempted ==
    ASSUME IInv, load' = load, pc # "done", NEW v \in Running, Preempt(v)
    PROVE  /\ StateInv' /\ RejectedInv' /\ LedgerInv' /\ v \in Requests
           /\ state'[v].status = "swapped" /\ \A x \in Requests \ {v} : state'[x] = state[x]
<1> USE DEF IInv
<1>1. v \in Requests /\ state[v].status = "running"
  BY DEF Running, InStatus
<1>2. state[v] \in RequestState /\ RecordOK(v, state[v]) /\ state[v].pages <= CapacityPages
  BY <1>1, LedgerTyped DEF StateInv
<1>3. /\ used \in Nat /\ offloaded \in Nat /\ CapacityPages \in Nat /\ OffloadPages \in Nat
      /\ used <= CapacityPages /\ offloaded <= OffloadPages
  BY LedgerTyped DEF LedgerInv
<1>4. state[v].swapped = 0 /\ state[v].pages \in Nat
  BY <1>1, <1>2, RunningNotSwapped DEF RequestState
<1>5. used' = used - state[v].pages
  BY DEF Preempt
<1>6. ASSUME NEW s, s \in RequestState, RecordOK(v, s), s.pages = 0, s.status = "swapped",
             state' = [state EXCEPT ![v] = s], offloaded' = offloaded + s.swapped,
             offloaded' <= OffloadPages
      PROVE  /\ StateInv' /\ RejectedInv' /\ LedgerInv'
             /\ state'[v].status = "swapped" /\ \A x \in Requests \ {v} : state'[x] = state[x]
  <2>1. /\ StateInv'
        /\ state'[v] = s /\ \A x \in Requests \ {v} : state'[x] = state[x]
        /\ SumFunction(PagesHeld') = used - state[v].pages + s.pages
        /\ SumFunction(PagesSwapped') = offloaded - state[v].swapped + s.swapped
        /\ s.swapped \in Nat
    BY <1>1, <1>6, OneRequest
  <2>2. LedgerInv'
    <3>1. used' = SumFunction(PagesHeld') /\ used' <= CapacityPages
      BY <1>3, <1>4, <1>5, <1>6, <2>1
    <3>2. offloaded' = SumFunction(PagesSwapped') /\ offloaded' <= OffloadPages
      BY <1>3, <1>4, <1>6, <2>1
    <3> QED
      BY <3>1, <3>2 DEF LedgerInv
  <2>3. RejectedInv'
    BY <1>6, <2>1 DEF RejectedInv, InStatus
  <2> QED
    BY <1>6, <2>1, <2>2, <2>3
<1>7. CASE UseSwap(v)
  <2>1. /\ offloaded' = offloaded + state[v].pages
        /\ state' = [state EXCEPT ![v] = SwapOut(state[v])]
    BY <1>7 DEF Preempt
  <2>2. /\ SwapOut(state[v]) \in RequestState /\ RecordOK(v, SwapOut(state[v]))
        /\ SwapOut(state[v]).status = "swapped" /\ SwapOut(state[v]).pages = 0
        /\ SwapOut(state[v]).swapped = state[v].pages
    BY <1>1, <1>2, SwapOutOK
  <2>3. offloaded' <= OffloadPages
    BY <1>3, <1>7, <2>1 DEF UseSwap, CanSwap
  <2>4. offloaded' = offloaded + SwapOut(state[v]).swapped
    BY <2>1, <2>2
  <2> QED
    BY <1>1, <1>6, <2>1, <2>2, <2>3, <2>4
<1>8. CASE ~UseSwap(v)
  <2>1. offloaded' = offloaded /\ state' = [state EXCEPT ![v] = DropForRecompute(state[v])]
    BY <1>8 DEF Preempt
  <2>2. /\ DropForRecompute(state[v]) \in RequestState
        /\ RecordOK(v, DropForRecompute(state[v]))
        /\ DropForRecompute(state[v]).status = "swapped"
        /\ DropForRecompute(state[v]).pages = 0 /\ DropForRecompute(state[v]).swapped = 0
    BY <1>1, <1>2, DropOK
  <2>3. offloaded' = offloaded + DropForRecompute(state[v]).swapped /\ offloaded' <= OffloadPages
    BY <1>3, <2>1, <2>2
  <2> QED
    BY <1>1, <1>6, <2>1, <2>2, <2>3
<1> QED
  BY <1>7, <1>8

------------------------------------------------------------------------------
(* Every action keeps the invariant. *)

\* The settings, and the orders when they are left alone.
LEMMA TypeKept ==
    ASSUME TypeInv, UNCHANGED <<input, arrived>>, pc' \in Places,
           admission' \in Seq(Requests), served' \in [Requests -> Nat]
    PROVE  TypeInv'
BY DEF TypeInv, input

LEMMA ArriveKeeps ==
    ASSUME IInv, Arrive
    PROVE  IInv'
<1> USE DEF IInv
<1>1. PICK n \in arrived .. N :
        /\ arrived' = n
        /\ state' = [r \in Requests |->
                       IF r \in arrived + 1 .. n /\ state[r].status = "arrivals"
                       THEN [state[r] EXCEPT !.status =
                               IF load[r].prompt = 0 /\ load[r].output = 0
                               THEN "finished" ELSE "waiting"]
                       ELSE state[r]]
  BY DEF Arrive
<1>2. /\ load' = load /\ plan' = plan /\ used' = used /\ offloaded' = offloaded
      /\ admission' = admission /\ served' = served /\ pc' = "priority" /\ pc # "done"
  BY DEF Arrive, input, ledger, orders
<1>3. TypeInv'
  <2>1. arrived \in 0 .. N /\ N \in Nat
    BY ServingAssumption DEF TypeInv
  <2>2. arrived' \in 0 .. N
    BY <1>1, <2>1
  <2> QED
    BY <1>2, <2>2 DEF TypeInv, Places
<1>4. ASSUME NEW r \in Requests
      PROVE  /\ state'[r] \in RequestState /\ RecordOK(r, state'[r])
             /\ state'[r].pages = state[r].pages /\ state'[r].swapped = state[r].swapped
             /\ state'[r].status = "rejected" => state[r] = state'[r]
  <2>1. state[r] \in RequestState /\ RecordOK(r, state[r])
    BY DEF StateInv
  <2>2. CASE r \in arrived + 1 .. n /\ state[r].status = "arrivals"
    <3> DEFINE to == IF load[r].prompt = 0 /\ load[r].output = 0 THEN "finished" ELSE "waiting"
    <3>1. state'[r] = [state[r] EXCEPT !.status = to] /\ to \in {"finished", "waiting"}
      BY <1>1, <2>2
    <3>2. to = "finished" => load[r].prompt = 0 /\ load[r].output = 0
      OBVIOUS
    <3> HIDE DEF to
    <3>3. /\ state'[r] \in RequestState /\ state'[r].status = to
          /\ state'[r].pages = state[r].pages /\ state'[r].swapped = state[r].swapped
          /\ state'[r].prefill = state[r].prefill /\ state'[r].committed = state[r].committed
          /\ state'[r].goal = state[r].goal /\ state'[r].kv = state[r].kv
          /\ state'[r].strategy = state[r].strategy
      BY <2>1, <3>1 DEF RequestState, Statuses
    <3>4. /\ state[r].prefill \in Nat /\ state[r].committed \in Nat
          /\ state[r].pages \in Nat /\ state[r].swapped \in Nat
      BY StateTyped
    <3>5. state[r].pages = 0 /\ state[r].swapped = 0
      BY <2>1, <2>2, <3>4 DEF RecordOK
    <3>6. HistoryHeld(state'[r])
      BY <2>1, <2>2, <3>3 DEF RecordOK, HistoryHeld, Alive
    <3>7. to = "finished" => state[r].prefill = load[r].prompt /\ state[r].committed = load[r].output
      BY <2>1, <3>2, <3>4 DEF RecordOK
    <3>8. RecordOK(r, state'[r])
      BY <2>1, <2>2, <3>1, <3>3, <3>5, <3>6, <3>7 DEF RecordOK
    <3> QED
      BY <3>1, <3>3, <3>8
  <2>3. CASE ~(r \in arrived + 1 .. n /\ state[r].status = "arrivals")
    <3>1. state'[r] = state[r]
      BY <1>1, <2>3, Zenon
    <3> QED
      BY <2>1, <3>1
  <2> QED
    BY <2>2, <2>3
<1>5. state' \in [Requests -> RequestState]
  BY <1>1, <1>4
<1>6. StateInv'
  BY <1>2, <1>4, <1>5, StateFrame
<1>7. RejectedInv'
  BY <1>2, <1>4 DEF RejectedInv, InStatus
<1>8. LedgerInv'
  <2>1. PagesHeld' = PagesHeld /\ PagesSwapped' = PagesSwapped
    BY <1>4 DEF PagesHeld, PagesSwapped
  <2> QED
    BY <1>2, <2>1 DEF LedgerInv
<1> QED
  BY <1>2, <1>3, <1>6, <1>7, <1>8, IdleSteps DEF Idle

LEMMA EndRunKeeps ==
    ASSUME IInv, EndRun
    PROVE  IInv'
<1> USE DEF IInv
<1>1. /\ UNCHANGED <<input, state, ledger>> /\ pc # "done" /\ pc' = "done"
      /\ UNCHANGED <<input, arrived>> /\ admission' = admission /\ served' = served
  BY DEF EndRun, orders
<1>2. TypeInv'
  BY <1>1, TypeKept DEF TypeInv, Places
<1> QED
  BY <1>1, <1>2, SameState, IdleSteps DEF Idle

LEMMA PriorityPreemptKeeps ==
    ASSUME IInv, PriorityPreempt
    PROVE  IInv'
<1> USE DEF IInv
<1>1. /\ pc = "priority" /\ pc' = "fill" /\ UNCHANGED <<input, arrived>>
      /\ admission' = admission /\ served' = served
  BY DEF PriorityPreempt, orders
<1>2. TypeInv'
  BY <1>1, TypeKept DEF TypeInv, Places
<1>3. CohortInv' /\ AdmissionInv' /\ ReserveInv'
  BY <1>1, IdleSteps DEF Idle
<1>4. CASE Displaced # {} /\ Preempt(Worst(Displaced))
  <2>1. Displaced \subseteq Running /\ Running \subseteq Requests
    BY DEF Displaced, Running, InStatus
  <2>2. Worst(Displaced) \in Running
    BY <1>4, <2>1, BestIn
  <2>3. StateInv' /\ RejectedInv' /\ LedgerInv'
    BY <1>1, <1>4, <2>2, Preempted DEF input
  <2> QED
    BY <1>2, <1>3, <2>3
<1>5. CASE Displaced = {} /\ UNCHANGED <<state, ledger, moved>>
  BY <1>1, <1>2, <1>3, <1>5, SameState
<1> QED
  BY <1>4, <1>5 DEF PriorityPreempt

LEMMA FillSlotsKeeps ==
    ASSUME IInv, FillSlots
    PROVE  IInv'
<1> USE DEF IInv
<1>1. /\ pc = "fill" /\ pc' = "admit" /\ queue' = Queued
      /\ UNCHANGED <<input, state, ledger>> /\ UNCHANGED <<input, arrived>>
      /\ admission' = admission /\ served' = served
  BY DEF FillSlots, orders
<1>2. TypeInv'
  BY <1>1, TypeKept DEF TypeInv, Places
<1>3. CohortInv' /\ ReserveInv'
  BY <1>1 DEF CohortInv, ReserveInv, Asking
<1>4. AdmissionInv'
  BY <1>1 DEF AdmissionInv, Asking, Queued, InStatus
<1> QED
  BY <1>1, <1>2, <1>3, <1>4, SameState

LEMMA EndFillKeeps ==
    ASSUME IInv, EndFill
    PROVE  IInv'
<1> USE DEF IInv
<1>1. /\ pc \in {"fill", "admit"} /\ pc' \in {"fill", "round", "unstable", "select"}
      /\ UNCHANGED <<input, state, ledger>> /\ UNCHANGED <<input, arrived>>
      /\ admission' = admission /\ served' = served
  BY DEF EndFill, EndPass, orders
<1>2. TypeInv'
  BY <1>1, TypeKept DEF TypeInv, Places
<1> QED
  BY <1>1, <1>2, SameState, IdleSteps DEF Idle

\* The candidate of an admission or a recovery is queued, without pages.
LEMMA CandidateQueued ==
    ASSUME IInv, pc \in {"admit", "recover"}, queue # {}, Resumable(Candidate)
    PROVE  /\ Candidate \in queue /\ Candidate \in Requests /\ Candidate \in Queued
           /\ pc = "recover" => state[Candidate].status = "swapped"
           /\ state[Candidate].status \in {"waiting", "swapped"}
           /\ state[Candidate].pages = 0
<1> USE DEF IInv
<1>1. queue \subseteq Requests
  BY DEF AdmissionInv, Asking, Unfinished, Queued, Running, InStatus
<1>2. Candidate \in queue
  BY <1>1, BestIn DEF Candidate
<1>3. Candidate \in Queued
  BY <1>1, <1>2 DEF AdmissionInv, Asking, Resumable, Queued, InStatus
<1>4. state[Candidate].status \in {"waiting", "swapped"}
  BY <1>3 DEF Queued, InStatus
<1>5. state[Candidate].pages = 0
  <2>1. RecordOK(Candidate, state[Candidate]) /\ state[Candidate].pages \in Nat
    BY <1>1, <1>2, StateTyped DEF StateInv
  <2> QED
    BY <1>4, <2>1 DEF RecordOK
<1> QED
  BY <1>1, <1>2, <1>3, <1>4, <1>5 DEF Resumable

\* A request alone, swapped out: no page is in use.
LEMMA AloneUnused ==
    ASSUME IInv, pc # "done", NEW r \in Requests, Unfinished = {r}, state[r].status = "swapped"
    PROVE  used = 0
<1> USE DEF IInv
<1>1. ASSUME NEW s \in Requests PROVE state[s].pages = 0
  <2>1. state[s].pages \in Nat /\ RecordOK(s, state[s])
    BY StateTyped DEF StateInv
  <2>2. state[s].status # "running"
    BY DEF Unfinished, Running, InStatus
  <2>3. state[s].status = "rejected" => state[s].pages = 0
    BY DEF RejectedInv, InStatus
  <2> QED
    BY <2>1, <2>2, <2>3 DEF RecordOK
<1>2. PagesHeld \in [Requests -> Nat] /\ \A s \in Requests : PagesHeld[s] = 0
  BY <1>1, LedgerTyped DEF PagesHeld
<1>3. SumFunction(PagesHeld) = PagesHeld[r]
  BY <1>2, RequestSumSingle
<1> QED
  BY <1>2, <1>3 DEF LedgerInv

LEMMA LaunchedTyped ==
    ASSUME TypeInv, NEW r \in Requests, Launched(r)
    PROVE  pc' \in Idle /\ pc' # "done" /\ admission' \in Seq(Requests)
<1>1. pc' \in Idle /\ pc' # "done"
  BY DEF Launched, Idle
<1>2. admission \in Seq(Requests)
  BY DEF TypeInv
<1>3. Append(admission, r) \in Seq(Requests)
  BY <1>2
<1> QED
  BY <1>1, <1>2, <1>3 DEF Launched

\* A queued request starts running.
LEMMA LaunchKeeps ==
    ASSUME IInv, pc # "done", UNCHANGED <<input, arrived, served>>,
           NEW r \in Requests, NEW s, s \in RequestState, RecordOK(r, s), s.status = "running",
           state' = [state EXCEPT ![r] = s], Launched(r),
           used' = used - state[r].pages + s.pages, used' <= CapacityPages,
           offloaded' = offloaded - state[r].swapped + s.swapped
    PROVE  IInv'
<1> USE DEF IInv
<1>1. pc' \in Idle /\ pc' # "done" /\ admission' \in Seq(Requests)
  BY LaunchedTyped
<1>2. CohortInv' /\ AdmissionInv' /\ ReserveInv' /\ pc' \in Places
  BY <1>1, IdleSteps
<1>3. TypeInv'
  <2>1. UNCHANGED <<input, arrived>> /\ served' \in [Requests -> Nat]
    BY DEF TypeInv
  <2> QED
    BY <1>1, <1>2, <2>1, TypeKept
<1>4. /\ StateInv'
      /\ state'[r] = s /\ \A x \in Requests \ {r} : state'[x] = state[x]
      /\ SumFunction(PagesHeld') = used - state[r].pages + s.pages
      /\ SumFunction(PagesSwapped') = offloaded - state[r].swapped + s.swapped
      /\ state[r].swapped \in Nat
  BY OneRequest DEF input
<1>5. s.swapped = 0
  BY RunningNotSwapped
<1>6. offloaded' <= OffloadPages
  <2>1. offloaded \in Nat /\ OffloadPages \in Nat /\ offloaded <= OffloadPages
    BY LedgerTyped DEF LedgerInv
  <2> QED
    BY <1>4, <1>5, <2>1
<1>7. LedgerInv'
  BY <1>4, <1>6 DEF LedgerInv
<1>8. RejectedInv'
  BY <1>4 DEF RejectedInv, InStatus
<1> QED
  BY <1>2, <1>3, <1>4, <1>7, <1>8

LEMMA ResumeSwappedKeeps ==
    ASSUME IInv, ResumeSwapped
    PROVE  IInv'
<1> USE DEF IInv
<1> DEFINE r == Candidate
           n == RestorePages(r)
           s == Resumed(state[r], n)
<1>1. /\ pc \in {"admit", "recover"} /\ queue # {} /\ Resumable(r) /\ HasSwapped(r)
      /\ queue' = queue \ {r}
      /\ UNCHANGED <<input, arrived, served>>
  BY DEF ResumeSwapped
<1>2. /\ r \in queue /\ r \in Requests /\ state[r].pages = 0
      /\ pc = "recover" => state[r].status = "swapped"
  BY <1>1, CandidateQueued
<1>3. /\ state[r] \in RequestState /\ RecordOK(r, state[r]) /\ state[r].swapped \in Nat
  BY <1>2, StateTyped DEF StateInv
<1>4. state[r].status = "swapped"
  <2>1. state[r].status \in {"waiting", "swapped"} /\ state[r].swapped > 0
    BY <1>1, CandidateQueued DEF HasSwapped
  <2> QED
    BY <1>3, <2>1 DEF RecordOK
<1>5. /\ n \in Nat /\ n <= CapacityPages
      /\ state[r].goal = 0 =>
            LiveTokens(state[r].prefill, state[r].committed) <= n * PageTokens
  <2>1. CASE plan.eager
    <3>1. n = Peak(r)
      BY <2>1 DEF RestorePages
    <3>2. Peak(r) <= CapacityPages
      BY <1>3, <1>4 DEF RecordOK
    <3> QED
      BY <1>2, <1>3, <3>1, <3>2, PeakHolds
  <2>2. CASE ~plan.eager
    <3>1. n = state[r].swapped
      BY <2>2 DEF RestorePages
    <3>2. state[r].pages + state[r].swapped = n
      BY <1>2, <1>3, <3>1
    <3>3. state[r].swapped <= CapacityPages /\ HistoryHeld(state[r])
      BY <1>3 DEF RecordOK
    <3>4. state[r].goal = 0 =>
            LiveTokens(state[r].prefill, state[r].committed) <= n * PageTokens
      BY <1>4, <3>2, <3>3 DEF HistoryHeld, Alive
    <3> QED
      BY <1>3, <3>1, <3>3, <3>4
  <2> QED
    BY <2>1, <2>2
<1>6. /\ s \in RequestState /\ RecordOK(r, s)
      /\ s.pages = n /\ s.swapped = 0 /\ s.status = "running"
  <2> HIDE DEF r, n
  <2> QED
    BY <1>2, <1>3, <1>4, <1>5, ResumedOK
<1>7. used \in Nat /\ offloaded \in Nat /\ CapacityPages \in Nat
  BY LedgerTyped
<1>8. CASE used + n <= CapacityPages
  <2>1. /\ used' = used + n /\ offloaded' = offloaded - state[r].swapped
        /\ state' = [state EXCEPT ![r] = s] /\ Launched(r)
    BY <1>5, <1>7, <1>8 DEF ResumeSwapped, Resumed
  <2> HIDE DEF r, n, s
  <2>2. /\ used' = used - state[r].pages + s.pages /\ used' <= CapacityPages
        /\ offloaded' = offloaded - state[r].swapped + s.swapped
    BY <1>2, <1>3, <1>5, <1>6, <1>7, <1>8, <2>1
  <2>3. pc # "done"
    BY <1>1
  <2> QED
    BY <1>1, <1>2, <1>6, <2>1, <2>2, <2>3, LaunchKeeps
<1>9. CASE ~(used + n <= CapacityPages)
  <2>1. UNCHANGED <<state, ledger, pc, admission, moved>>
    BY <1>9 DEF ResumeSwapped
  <2>2. /\ UNCHANGED <<input, state, ledger>> /\ UNCHANGED <<input, arrived>>
        /\ admission' = admission /\ served' = served /\ pc' = pc /\ pc # "done"
        /\ state' = state
    BY <1>1, <2>1
  <2>3. TypeInv'
    BY <2>2, TypeKept DEF TypeInv
  <2>4. CohortInv' /\ ReserveInv'
    BY <1>1, <2>2 DEF CohortInv, ReserveInv, Asking
  <2>5. Queued' = Queued /\ Unfinished' = Unfinished
    BY <2>2 DEF Unfinished, Queued, Running, InStatus
  <2>6. ASSUME pc = "recover", NEW x \in Requests, Unfinished = {x}, state[x].status = "swapped"
        PROVE  x # r
    <3>1. used = 0
      BY <1>1, <2>6, AloneUnused
    <3> QED
      BY <1>5, <1>7, <1>9, <3>1
  <2> HIDE DEF r, n, s
  <2>7. AdmissionInv'
    <3>1. /\ Asking("admit")' => queue' \subseteq Queued'
          /\ Asking("recover")' => queue' \subseteq Unfinished'
      BY <1>1, <2>2, <2>5 DEF AdmissionInv, Asking
    <3>2. ASSUME pc' = "recover", NEW x \in Requests, Unfinished' = {x},
                 state'[x].status = "swapped"
          PROVE  x \in queue'
      BY <1>1, <2>2, <2>5, <2>6, <3>2 DEF AdmissionInv
    <3> QED
      BY <3>1, <3>2 DEF AdmissionInv
  <2> QED
    BY <2>2, <2>3, <2>4, <2>7, SameState
<1> QED
  BY <1>8, <1>9

LEMMA ReserveAdmissionKeeps ==
    ASSUME IInv, ReserveAdmission
    PROVE  IInv'
<1> USE DEF IInv
<1> DEFINE r == Candidate
           n == IF plan.eager THEN Peak(r) ELSE 0
<1>1. /\ pc \in {"admit", "recover"} /\ queue # {} /\ Resumable(r) /\ ~HasSwapped(r)
      /\ plan.eager \/ SwappedEmpty(r)
      /\ queue' = queue \ {r} /\ Reserve(r, n, {})
      /\ UNCHANGED <<input, state, ledger>> /\ UNCHANGED <<input, arrived>>
      /\ admission' = admission /\ served' = served
  BY DEF ReserveAdmission, orders
<1>2. /\ r \in queue /\ r \in Requests /\ r \in Queued /\ state[r].pages = 0
      /\ state[r].status \in {"waiting", "swapped"}
      /\ pc = "recover" => state[r].status = "swapped"
  BY <1>1, CandidateQueued
<1>3. state[r] \in RequestState /\ RecordOK(r, state[r]) /\ state[r].swapped \in Nat
  BY <1>2, StateTyped DEF StateInv
<1>4. state[r].swapped = 0
  BY <1>1, <1>2, <1>3 DEF RecordOK, HasSwapped
<1>5. /\ n \in Nat /\ n <= CapacityPages
      /\ state[r].goal = 0 =>
            LiveTokens(state[r].prefill, state[r].committed) <= n * PageTokens
  <2>1. CASE plan.eager
    <3>1. Peak(r) <= CapacityPages
      BY <1>2, <1>3 DEF RecordOK
    <3> QED
      BY <1>2, <1>3, <2>1, <3>1, PeakHolds
  <2>2. CASE ~plan.eager
    <3>1. 0 <= CapacityPages
      BY ServingAssumption
    <3>2. state[r].pages + state[r].swapped = n
      BY <1>2, <1>4, <2>2
    <3>3. state[r].goal = 0 =>
            LiveTokens(state[r].prefill, state[r].committed) <= n * PageTokens
      BY <1>2, <1>3, <3>2 DEF RecordOK, HistoryHeld, Alive
    <3> QED
      BY <2>2, <3>1, <3>3
  <2> QED
    BY <2>1, <2>2
<1> HIDE DEF r, n
<1>6. /\ owner' = r /\ asker' = pc /\ pc' = "reserve"
      /\ victims' \subseteq Running \ {r}
  BY <1>1 DEF Reserve
<1>7. target' = n
  <2>1. target' = IF plan.eager THEN Max({n, state[r].pages}) ELSE n
    BY <1>1 DEF Reserve
  <2>2. Max({n, state[r].pages}) = n
    BY <1>2, <1>5, MaxOfTwo
  <2> QED
    BY <2>1, <2>2
<1>8. /\ Running' = Running /\ Queued' = Queued /\ Unfinished' = Unfinished
      /\ state' = state /\ pc # "done"
  BY <1>1 DEF Running, Queued, Unfinished, InStatus
<1>9. TypeInv'
  BY <1>1, <1>6, TypeKept DEF TypeInv, Places
<1>10. CohortInv'
  BY <1>1, <1>6 DEF CohortInv, Asking
<1>11. AdmissionInv'
  BY <1>1, <1>6, <1>8 DEF AdmissionInv, Asking
<1>12. ReserveInv'
  <2>1. Cached(owner)' = LiveTokens(state'[owner'].prefill, state'[owner'].committed)
    BY DEF Cached
  <2>2. state'[owner'].goal = 0 => Cached(owner)' <= target' * PageTokens
    <3>1. state'[owner'] = state[r]
      BY <1>6, <1>8
    <3> QED
      BY <1>5, <1>7, <2>1, <3>1
  <2>3. /\ owner' \in Requests /\ target' \in Nat /\ asker' \in {"admit", "recover"}
        /\ victims' \subseteq Running' \ {owner'}
        /\ owner' \in Queued' /\ state'[owner'].swapped = 0
        /\ target' <= CapacityPages
        /\ asker' = "recover" => state'[owner'].status = "swapped"
    BY <1>1, <1>2, <1>4, <1>5, <1>6, <1>7, <1>8
  <2> QED
    BY <1>6, <2>2, <2>3 DEF ReserveInv
<1> QED
  BY <1>1, <1>8, <1>9, <1>10, <1>11, <1>12, SameState

LEMMA AdmitLazilyKeeps ==
    ASSUME IInv, AdmitLazily
    PROVE  IInv'
<1> USE DEF IInv
<1> DEFINE r == Candidate
           s == Run(state[r])
<1>1. /\ pc \in {"admit", "recover"} /\ queue # {} /\ Resumable(r)
      /\ ~HasSwapped(r) /\ ~SwappedEmpty(r)
      /\ state' = [state EXCEPT ![r] = s] /\ Launched(r)
      /\ UNCHANGED <<input, arrived, served>> /\ UNCHANGED ledger
  BY DEF AdmitLazily
<1>2. /\ r \in Requests /\ state[r].pages = 0 /\ state[r].status \in {"waiting", "swapped"}
  BY <1>1, CandidateQueued
<1>3. state[r] \in RequestState /\ RecordOK(r, state[r]) /\ state[r].swapped \in Nat
  BY <1>2, StateTyped DEF StateInv
<1>4. state[r].swapped = 0
  BY <1>1, <1>2, <1>3 DEF RecordOK, HasSwapped
<1>5. /\ s \in RequestState /\ RecordOK(r, s)
      /\ s.pages = 0 /\ s.swapped = 0 /\ s.status = "running"
  BY <1>2, <1>3, <1>4, AdmittedLazilyOK
<1>6. used' = used /\ offloaded' = offloaded /\ pc # "done"
  BY <1>1 DEF ledger
<1>7. used \in Nat /\ offloaded \in Nat /\ used <= CapacityPages
  BY LedgerTyped DEF LedgerInv
<1> HIDE DEF r, s
<1>8. /\ used' = used - state[r].pages + s.pages /\ used' <= CapacityPages
      /\ offloaded' = offloaded - state[r].swapped + s.swapped
  BY <1>2, <1>4, <1>5, <1>6, <1>7
<1> QED
  BY <1>1, <1>2, <1>5, <1>6, <1>8, LaunchKeeps

\* Ages are no part of the record that matters.
LEMMA AgedOK ==
    ASSUME NEW st \in [Requests -> RequestState], \A r \in Requests : RecordOK(r, st[r]),
           NEW refreshed
    PROVE  /\ Aged(st, refreshed) \in [Requests -> RequestState]
           /\ \A r \in Requests :
                 /\ RecordOK(r, Aged(st, refreshed)[r])
                 /\ Aged(st, refreshed)[r].pages = st[r].pages
                 /\ Aged(st, refreshed)[r].swapped = st[r].swapped
                 /\ Aged(st, refreshed)[r].status = st[r].status
<1> DEFINE aged == Aged(st, refreshed)
           old(r) == r \in refreshed \/ ~plan.aging
                       \/ st[r].status \notin {"waiting", "running", "swapped"}
           age(r) == IF old(r) THEN 0 ELSE Min({st[r].age + 1, AgeLimit})
<1>1. aged = [r \in Requests |-> [st[r] EXCEPT !.age = age(r)]]
  BY DEF Aged
<1>2. ASSUME NEW r \in Requests
      PROVE  /\ aged[r] \in RequestState /\ RecordOK(r, aged[r])
             /\ aged[r].pages = st[r].pages /\ aged[r].swapped = st[r].swapped
             /\ aged[r].status = st[r].status
  <2>1. st[r] \in RequestState /\ RecordOK(r, st[r]) /\ st[r].age \in Nat
    BY DEF RequestState
  <2>2. age(r) \in Nat
    <3>1. AgeLimit \in Nat /\ st[r].age + 1 \in Nat
      BY <2>1, ServingAssumption
    <3>2. Min({st[r].age + 1, AgeLimit}) \in Nat
      BY <3>1, MinOfTwo
    <3> QED
      BY <3>2
  <2> HIDE DEF age
  <2>3. aged[r] = [st[r] EXCEPT !.age = age(r)]
    BY <1>1
  <2> HIDE DEF aged
  <2>4. /\ aged[r] \in RequestState
        /\ aged[r].status = st[r].status /\ aged[r].strategy = st[r].strategy
        /\ aged[r].pages = st[r].pages /\ aged[r].swapped = st[r].swapped
        /\ aged[r].prefill = st[r].prefill /\ aged[r].committed = st[r].committed
        /\ aged[r].goal = st[r].goal /\ aged[r].kv = st[r].kv
    BY <2>1, <2>2, <2>3 DEF RequestState
  <2>5. RecordOK(r, aged[r])
    BY <2>1, <2>4 DEF RecordOK, HistoryHeld
  <2> QED
    BY <2>4, <2>5
<1> HIDE DEF age
<1>3. aged \in [Requests -> RequestState]
  BY <1>1, <1>2
<1> HIDE DEF aged
<1> QED
  BY <1>2, <1>3 DEF aged

LEMMA WakeUpKeeps ==
    ASSUME IInv, WakeUp
    PROVE  IInv'
<1> USE DEF IInv
<1>1. /\ pc = "idle" /\ pc' = "woken" /\ state' = Aged(state, {})
      /\ UNCHANGED <<input, arrived>> /\ UNCHANGED ledger
      /\ admission' = admission /\ served' = served
  BY DEF WakeUp, orders
<1>2. state \in [Requests -> RequestState] /\ \A r \in Requests : RecordOK(r, state[r])
  BY DEF StateInv
<1>3. /\ state' \in [Requests -> RequestState]
      /\ \A r \in Requests :
            /\ RecordOK(r, state'[r])
            /\ state'[r].pages = state[r].pages /\ state'[r].swapped = state[r].swapped
            /\ state'[r].status = state[r].status
  BY <1>1, <1>2, AgedOK
<1>4. StateInv'
  BY <1>1, <1>3, StateFrame DEF input
<1>5. RejectedInv'
  BY <1>1, <1>3 DEF RejectedInv, InStatus
<1>6. LedgerInv'
  <2>1. PagesHeld' = PagesHeld /\ PagesSwapped' = PagesSwapped
    BY <1>3 DEF PagesHeld, PagesSwapped
  <2> QED
    BY <1>1, <2>1 DEF LedgerInv, ledger
<1>7. TypeInv'
  BY <1>1, TypeKept DEF TypeInv, Places
<1> QED
  BY <1>1, <1>4, <1>5, <1>6, <1>7, IdleSteps DEF Idle

LEMMA StallKeeps ==
    ASSUME IInv, Stall
    PROVE  IInv'
<1> USE DEF IInv
<1>1. /\ pc = "idle" /\ pc' \in {"done", "recover"} /\ queue' = Unfinished
      /\ UNCHANGED <<input, state, ledger>> /\ UNCHANGED <<input, arrived>>
      /\ admission' = admission /\ served' = served
  BY DEF Stall, orders
<1>2. TypeInv'
  BY <1>1, TypeKept DEF TypeInv, Places
<1>3. CohortInv' /\ ReserveInv'
  BY <1>1 DEF CohortInv, ReserveInv, Asking
<1>4. Unfinished' = Unfinished
  BY <1>1 DEF Unfinished, Queued, Running, InStatus
<1>5. AdmissionInv'
  BY <1>1, <1>4 DEF AdmissionInv, Asking
<1> QED
  BY <1>1, <1>2, <1>3, <1>5, SameState

LEMMA PassOverKeeps ==
    ASSUME IInv, PassOver
    PROVE  IInv'
<1> USE DEF IInv
<1>1. /\ pc = "recover" /\ pc' = "recover" /\ queue' = queue \ {Candidate}
      /\ Candidate \notin InStatus({"swapped"})
      /\ UNCHANGED <<input, state, ledger>> /\ UNCHANGED <<input, arrived>>
      /\ admission' = admission /\ served' = served
  BY DEF PassOver, orders
<1>2. TypeInv'
  BY <1>1, TypeKept DEF TypeInv
<1>3. CohortInv' /\ ReserveInv'
  BY <1>1 DEF CohortInv, ReserveInv, Asking
<1>4. Unfinished' = Unfinished /\ state' = state
  BY <1>1 DEF Unfinished, Queued, Running, InStatus
<1>5. AdmissionInv'
  <2>1. \A r \in Requests : state[r].status = "swapped" => r # Candidate
    BY <1>1 DEF InStatus
  <2>2. queue' \subseteq queue
    BY <1>1
  <2> QED
    BY <1>1, <1>4, <2>1, <2>2 DEF AdmissionInv, Asking
<1> QED
  BY <1>1, <1>2, <1>3, <1>5, SameState

LEMMA GiveUpKeeps ==
    ASSUME IInv, GiveUp
    PROVE  IInv'
<1> USE DEF IInv
<1>1. /\ pc = "recover" /\ pc' = "done"
      /\ state' = [r \in Requests |-> IF r \in Unfinished
                                      THEN [state[r] EXCEPT !.status = "rejected"]
                                      ELSE state[r]]
      /\ UNCHANGED <<input, arrived>> /\ UNCHANGED ledger
      /\ admission' = admission /\ served' = served
  BY DEF GiveUp, orders
<1>2. ASSUME NEW r \in Requests
      PROVE  /\ state'[r] \in RequestState /\ RecordOK(r, state'[r])
             /\ state'[r].pages = state[r].pages /\ state'[r].swapped = state[r].swapped
  <2>1. state[r] \in RequestState /\ RecordOK(r, state[r])
    BY DEF StateInv
  <2>2. CASE r \in Unfinished
    <3>1. state'[r] = [state[r] EXCEPT !.status = "rejected"]
      BY <1>1, <2>2
    <3>2. /\ state'[r] \in RequestState /\ state'[r].status = "rejected"
          /\ state'[r].pages = state[r].pages /\ state'[r].swapped = state[r].swapped
          /\ state'[r].prefill = state[r].prefill /\ state'[r].committed = state[r].committed
      BY <2>1, <3>1 DEF RequestState, Statuses
    <3>3. RecordOK(r, state'[r])
      BY <2>1, <3>2 DEF RecordOK, HistoryHeld, Alive
    <3> QED
      BY <3>2, <3>3
  <2>3. CASE r \notin Unfinished
    <3>1. state'[r] = state[r]
      BY <1>1, <2>3
    <3> QED
      BY <2>1, <3>1
  <2> QED
    BY <2>2, <2>3
<1>3. state' \in [Requests -> RequestState]
  BY <1>1, <1>2
<1>4. StateInv'
  BY <1>1, <1>2, <1>3, StateFrame DEF input
<1>5. RejectedInv'
  BY <1>1 DEF RejectedInv
<1>6. LedgerInv'
  <2>1. PagesHeld' = PagesHeld /\ PagesSwapped' = PagesSwapped
    BY <1>2 DEF PagesHeld, PagesSwapped
  <2> QED
    BY <1>1, <2>1 DEF LedgerInv, ledger
<1>7. TypeInv'
  BY <1>1, TypeKept DEF TypeInv, Places
<1> QED
  BY <1>1, <1>4, <1>5, <1>6, <1>7, IdleSteps DEF Idle

------------------------------------------------------------------------------
(* The cohort. *)

\* What a request needs next depends on what it has computed, not on its pages.
LEMMA NeedKept ==
    ASSUME load' = load, NEW r \in Requests, NEW phase \in Phases,
           state'[r].status = state[r].status,
           state'[r].prefill = state[r].prefill, state'[r].committed = state[r].committed,
           state'[r].cursor = state[r].cursor, state'[r].goal = state[r].goal
    PROVE  /\ InPhase(r, phase)' <=> InPhase(r, phase)
           /\ Context(r, phase)' = Context(r, phase)
           /\ Remaining(r, phase)' = Remaining(r, phase)
           /\ Cached(r)' = Cached(r)
           /\ r \in Running' <=> r \in Running
<1>1. Cached(r)' = Cached(r)
  BY DEF Cached
<1>2. r \in Running' <=> r \in Running
  BY DEF Running, InStatus
<1>3. CASE phase = "decode"
  BY <1>1, <1>2, <1>3 DEF InPhase, Context, Remaining
<1>4. CASE phase = "prefill"
  BY <1>1, <1>2, <1>4 DEF InPhase, Context, Remaining
<1>5. CASE phase = "recompute"
  BY <1>1, <1>2, <1>5 DEF InPhase, Context, Remaining
<1> QED
  BY <1>3, <1>4, <1>5 DEF Phases

LEMMA NeedFrame ==
    ASSUME load' = load, NEW r \in Requests, NEW phase \in Phases, state'[r] = state[r]
    PROVE  /\ InPhase(r, phase)' <=> InPhase(r, phase)
           /\ Context(r, phase)' = Context(r, phase)
           /\ Remaining(r, phase)' = Remaining(r, phase)
           /\ Cached(r)' = Cached(r)
           /\ r \in Running' <=> r \in Running
BY NeedKept

LEMMA ItemFrame ==
    ASSUME load' = load, NEW item \in Item, state'[item.request] = state[item.request],
           ItemOK(item)
    PROVE  ItemOK(item)'
<1>1. item.request \in Requests /\ item.phase \in Phases
  BY DEF Item
<1>2. /\ InPhase(item.request, item.phase)' <=> InPhase(item.request, item.phase)
      /\ Context(item.request, item.phase)' = Context(item.request, item.phase)
      /\ Remaining(item.request, item.phase)' = Remaining(item.request, item.phase)
      /\ item.request \in Running' <=> item.request \in Running
  BY <1>1, NeedFrame
<1>3. Needs(item)' = Needs(item)
  BY DEF Needs
<1> QED
  BY <1>2, <1>3 DEF ItemOK

\* The cohort stands as long as the records of its requests do.
LEMMA ItemsFrame ==
    ASSUME ItemsOK, load' = load, items' = items, \A r \in Protected : state'[r] = state[r]
    PROVE  ItemsOK' /\ Protected' = Protected /\ Budget' = Budget
<1>1. Protected' = Protected
  BY DEF Protected
<1>2. Budget' = Budget
  BY DEF Budget
<1>3. ASSUME NEW i \in DOMAIN items PROVE ItemOK(items[i])'
  <2>1. items[i] \in Item /\ items[i].request \in Protected /\ ItemOK(items[i])
    BY DEF ItemsOK, Protected
  <2> DEFINE item == items[i]
  <2>2. state'[item.request] = state[item.request]
    BY <2>1
  <2> QED
    BY <2>1, <2>2, ItemFrame
<1> QED
  BY <1>1, <1>2, <1>3 DEF ItemsOK

\* An item that fits now: the room, the pages and the candidates of the phase
\* depend on the cohort and its agenda only.
LEMMA QueueFrame ==
    ASSUME load' = load, agenda' = agenda, queue' = queue, Phase \in Phases,
           queue \subseteq Requests, \A r \in queue \cap Running : InPhase(r, Phase),
           \A r \in Requests : r \in Running' => state'[r] = state[r]
    PROVE  \A r \in queue' \cap Running' : InPhase(r, Phase)'
<1>1. Phase' = Phase
  BY DEF Phase
<1>2. ASSUME NEW r \in queue' \cap Running' PROVE InPhase(r, Phase)'
  <2>1. r \in Requests /\ state'[r] = state[r] /\ r \in queue
    BY <1>2
  <2> DEFINE phase == Phase
  <2>2. phase \in Phases /\ phase' = phase
    BY <1>1
  <2>3. (InPhase(r, phase)' <=> InPhase(r, phase)) /\ (r \in Running' <=> r \in Running)
    <3> HIDE DEF phase
    <3> QED
      BY <2>1, <2>2, NeedFrame
  <2>4. InPhase(r, phase)
    BY <1>2, <2>1, <2>3
  <2> QED
    BY <2>3, <2>4
<1> QED
  BY <1>2

\* The first phase of an agenda.
LEMMA PhaseTyped ==
    ASSUME agenda \in Seq(Seq(Phases) \ {<<>>}), agenda # <<>>
    PROVE  Head(agenda) \in Seq(Phases) \ {<<>>} /\ Phase \in Phases
<1>1. Head(agenda) \in Seq(Phases) \ {<<>>}
  OBVIOUS
<1>2. Head(Head(agenda)) \in Phases
  BY <1>1
<1> QED
  BY <1>1, <1>2 DEF Phase

LEMMA DeniedKeeps ==
    ASSUME IInv, Denied
    PROVE  IInv'
<1> USE DEF IInv
<1>1. /\ pc = "reserve" /\ pc' = asker /\ ~Fits(owner, target)
      /\ UNCHANGED <<input, state, ledger>> /\ UNCHANGED <<input, arrived>>
      /\ admission' = admission /\ served' = served
      /\ queue' = queue /\ agenda' = agenda /\ items' = items
  BY DEF Denied, orders, control
<1>2. asker \in {"admit", "recover", "build"} /\ owner \in Requests /\ target \in Nat
  BY <1>1 DEF ReserveInv
<1>3. TypeInv'
  BY <1>1, <1>2, TypeKept DEF TypeInv, Places
<1>4. /\ load' = load /\ state' = state /\ pc # "done"
      /\ Running' = Running /\ Queued' = Queued /\ Unfinished' = Unfinished
  BY <1>1 DEF input, Running, Queued, Unfinished, InStatus
<1>5. CohortInv'
  <2>1. CASE asker = "build"
    <3>1. /\ ItemsOK
          /\ agenda \in Seq(Seq(Phases) \ {<<>>}) /\ agenda # <<>>
          /\ queue \subseteq Requests /\ \A r \in queue \cap Running : InPhase(r, Phase)
      BY <1>1, <2>1 DEF CohortInv, Asking
    <3>2. ItemsOK'
      BY <1>1, <1>4, <3>1, ItemsFrame
    <3>3. \A r \in queue' \cap Running' : InPhase(r, Phase)'
      BY <1>1, <1>4, <3>1, PhaseTyped, QueueFrame
    <3> QED
      BY <1>1, <3>1, <3>2, <3>3 DEF CohortInv
  <2>2. CASE asker # "build"
    BY <1>1, <1>2, <2>2 DEF CohortInv, Asking
  <2> QED
    BY <2>1, <2>2
<1>6. AdmissionInv'
  <2>1. ASSUME asker = "recover", NEW r \in Requests, Unfinished = {r},
               state[r].status = "swapped"
        PROVE  FALSE
    <3>1. used = 0
      BY <1>1, <2>1, AloneUnused
    <3>2. owner \in Queued /\ target <= CapacityPages
      BY <1>1, <2>1 DEF ReserveInv
    <3>3. state[owner].pages = 0
      <4>1. state[owner].pages \in Nat /\ RecordOK(owner, state[owner])
        BY <1>2, StateTyped DEF StateInv
      <4>2. state[owner].status \in {"waiting", "swapped"}
        BY <3>2 DEF Queued, InStatus
      <4> QED
        BY <4>1, <4>2 DEF RecordOK
    <3>4. CapacityPages \in Nat
      BY ServingAssumption
    <3>5. Fits(owner, target)
      BY <1>2, <3>1, <3>2, <3>3, <3>4 DEF Fits
    <3> QED
      BY <1>1, <3>5
  <2>2. /\ Asking("admit")' => queue' \subseteq Queued'
        /\ Asking("recover")' => queue' \subseteq Unfinished'
    BY <1>1, <1>2, <1>4 DEF AdmissionInv, Asking
  <2>3. pc' = "recover" => \A r \in Requests :
           Unfinished' = {r} /\ state'[r].status = "swapped" => r \in queue'
    BY <1>1, <1>4, <2>1
  <2> QED
    BY <2>2, <2>3 DEF AdmissionInv
<1>7. ReserveInv'
  BY <1>1, <1>2 DEF ReserveInv
<1> QED
  BY <1>1, <1>3, <1>4, <1>5, <1>6, <1>7, SameState

\* What the item of a request needs depends on that request and the cohort.
LEMMA DemandFrame ==
    ASSUME load' = load, items' = items, NEW r \in Requests, NEW phase \in Phases,
           state'[r] = state[r]
    PROVE  ItemPages(r, phase)' = ItemPages(r, phase) /\ (Room' <=> Room)
<1>1. Budget' = Budget
  BY DEF Budget
<1>2. Room' <=> Room
  BY <1>1 DEF Room
<1>3. Context(r, phase)' = Context(r, phase) /\ Remaining(r, phase)' = Remaining(r, phase)
  BY NeedFrame
<1>4. Chunk(r, phase)' = Chunk(r, phase)
  BY <1>1, <1>3 DEF Chunk
<1> QED
  BY <1>2, <1>3, <1>4 DEF ItemPages

LEMMA EvictVictimKeeps ==
    ASSUME IInv, EvictVictim
    PROVE  IInv'
<1> USE DEF IInv
<1> DEFINE v == Worst(victims)
<1>1. /\ pc = "reserve" /\ pc' = "reserve" /\ victims # {} /\ victims' = victims \ {v}
      /\ UNCHANGED <<input, arrived>> /\ load' = load
      /\ admission' = admission /\ served' = served
      /\ queue' = queue /\ owner' = owner /\ target' = target /\ asker' = asker
      /\ agenda' = agenda /\ items' = items
  BY DEF EvictVictim, orders, input
<1>2. /\ owner \in Requests /\ target \in Nat /\ asker \in {"admit", "recover", "build"}
      /\ victims \subseteq Running \ {owner}
  BY <1>1 DEF ReserveInv
<1>3. v \in victims /\ v \in Requests
  <2>1. victims \subseteq Requests
    BY <1>2 DEF Running, InStatus
  <2> QED
    BY <1>1, <2>1, BestIn
<1>4. \/ Preempt(v)
      \/ UNCHANGED <<state, ledger, moved>>
  BY DEF EvictVictim
<1>5. TypeInv'
  BY <1>1, TypeKept DEF TypeInv
<1>6. /\ StateInv' /\ RejectedInv' /\ LedgerInv'
      /\ \A x \in Requests \ {v} : state'[x] = state[x]
      /\ state'[v] = state[v] \/ state'[v].status = "swapped"
  <2>1. CASE Preempt(v)
    BY <1>1, <1>2, <1>3, <2>1, Preempted
  <2>2. CASE UNCHANGED <<state, ledger, moved>>
    BY <1>1, <2>2, SameState
  <2> QED
    BY <1>4, <2>1, <2>2
<1> HIDE DEF v
<1>7. v \in Running /\ v # owner
  BY <1>2, <1>3
<1>8. /\ Running \ {v} \subseteq Running' /\ Running' \subseteq Running
      /\ \A x \in Requests : x \in Running' => state'[x] = state[x]
      /\ Queued \subseteq Queued' /\ Unfinished' = Unfinished
  <2>1. \A x \in Requests : x \in Running <=> state[x].status = "running"
    BY DEF Running, InStatus
  <2>2. \A x \in Requests : x \in Running' <=> state'[x].status = "running"
    BY DEF Running, InStatus
  <2>3. \A x \in Requests : x \in Queued <=> state[x].status \in {"waiting", "swapped"}
    BY DEF Queued, InStatus
  <2>4. \A x \in Requests : x \in Queued' <=> state'[x].status \in {"waiting", "swapped"}
    BY DEF Queued, InStatus
  <2>5. Running \subseteq Requests /\ Queued \subseteq Requests
    BY DEF Running, Queued, InStatus
  <2>6. Running' \subseteq Requests /\ Queued' \subseteq Requests
    BY DEF Running, Queued, InStatus
  <2>7. Running \ {v} \subseteq Running' /\ Running' \subseteq Running
    BY <1>6, <1>7, <2>1, <2>2, <2>5, <2>6
  <2>8. \A x \in Requests : x \in Running' => state'[x] = state[x]
    BY <1>6, <2>2
  <2>9. Queued \subseteq Queued'
    BY <1>6, <1>7, <2>1, <2>3, <2>4, <2>5
  <2>10. Queued' \subseteq Queued \union {v} /\ (v \in Queued' \/ v \in Running')
    BY <1>3, <1>6, <1>7, <2>1, <2>2, <2>3, <2>4, <2>6
  <2>11. Unfinished' = Queued' \union Running' /\ Unfinished = Queued \union Running
    BY DEF Unfinished
  <2> QED
    BY <1>7, <2>7, <2>8, <2>9, <2>10, <2>11
<1>9. CohortInv'
  <2>1. CASE asker = "build"
    <3>1. /\ ItemsOK
          /\ agenda \in Seq(Seq(Phases) \ {<<>>}) /\ agenda # <<>>
          /\ queue \subseteq Requests /\ \A r \in queue \cap Running : InPhase(r, Phase)
      BY <1>1, <2>1 DEF CohortInv, Asking
    <3>2. v \notin Protected
      BY <1>1, <1>3, <2>1 DEF ReserveInv
    <3>3. Protected \subseteq Requests
      <4>1. \A i \in DOMAIN items : items[i] \in Item
        BY <3>1 DEF ItemsOK
      <4> QED
        BY <4>1 DEF Protected, Item
    <3>4. ItemsOK'
      BY <1>1, <1>6, <3>1, <3>2, <3>3, ItemsFrame
    <3>5. \A r \in queue' \cap Running' : InPhase(r, Phase)'
      BY <1>1, <1>8, <3>1, PhaseTyped, QueueFrame
    <3> QED
      BY <1>1, <3>1, <3>4, <3>5 DEF CohortInv
  <2>2. CASE asker # "build"
    BY <1>1, <2>2 DEF CohortInv, Asking
  <2> QED
    BY <2>1, <2>2
<1>10. AdmissionInv'
  BY <1>1, <1>8 DEF AdmissionInv, Asking
<1>11. ReserveInv'
  <2>1. state'[owner] = state[owner] /\ Cached(owner)' = Cached(owner)
    <3>1. state'[owner] = state[owner]
      BY <1>2, <1>6, <1>7
    <3> QED
      BY <1>1, <3>1 DEF Cached
  <2>2. victims' \subseteq Running' \ {owner'}
    BY <1>1, <1>2, <1>8
  <2>3. ASSUME asker = "build"
        PROVE  /\ owner' \in Running' \ Protected' /\ victims' \cap Protected' = {}
               /\ InPhase(owner, Phase)' /\ Room'
               /\ ItemPages(owner, Phase)' <= target'
    <3>1. /\ owner \in Running \ Protected /\ victims \cap Protected = {}
          /\ InPhase(owner, Phase) /\ Room /\ ItemPages(owner, Phase) <= target
      BY <1>1, <2>3 DEF ReserveInv
    <3>2. Phase \in Phases /\ Phase' = Phase
      <4>1. Phase \in Phases
        BY <1>1, <2>3, PhaseTyped DEF CohortInv, Asking
      <4> QED
        BY <1>1, <4>1 DEF Phase
    <3>3. Protected' = Protected
      BY <1>1 DEF Protected
    <3> DEFINE r == owner
               phase == Phase
    <3>4. r' = r /\ phase' = phase /\ r \in Requests /\ phase \in Phases /\ state'[r] = state[r]
      BY <1>1, <1>2, <2>1, <3>2
    <3>5. /\ InPhase(r, phase)' <=> InPhase(r, phase)
          /\ ItemPages(r, phase)' = ItemPages(r, phase) /\ (Room' <=> Room)
      <4> HIDE DEF r, phase
      <4> QED
        BY <1>1, <3>4, NeedFrame, DemandFrame
    <3>6. owner' \in Running'
      BY <1>1, <1>7, <1>8, <3>1
    <3>7. owner' \in Running' \ Protected' /\ victims' \cap Protected' = {}
      BY <1>1, <3>1, <3>3, <3>6
    <3> QED
      BY <1>1, <3>1, <3>5, <3>7
  <2>4. ASSUME asker # "build"
        PROVE  /\ owner' \in Queued' /\ state'[owner'].swapped = 0
               /\ target' <= CapacityPages
               /\ state'[owner'].goal = 0 => Cached(owner)' <= target' * PageTokens
    BY <1>1, <1>8, <2>1, <2>4 DEF ReserveInv
  <2>5. asker = "recover" => state'[owner'].status = "swapped"
    BY <1>1, <2>1 DEF ReserveInv
  <2> QED
    BY <1>1, <1>2, <2>2, <2>3, <2>4, <2>5 DEF ReserveInv
<1> QED
  BY <1>5, <1>6, <1>9, <1>10, <1>11

\* Every alternative starts with a phase.
LEMMA AlternativesTyped ==
    Alternatives \in Seq(Seq(Phases) \ {<<>>}) /\ Alternatives # <<>>
<1> DEFINE CohortChoices == Seq(Phases) \ {<<>>}
           promoted == IF ServeNonDecode THEN <<NonDecode[1]>> ELSE <<>>
           only(phases) == IF phases = <<>> THEN <<>> ELSE <<phases>>
           mixed == IF plan.mixed /\ Candidates("decode") # {}
                    THEN only(IF promoted = <<>> THEN <<>> ELSE Append(promoted, "decode"))
                         \o << <<"decode">> \o NonDecode >>
                    ELSE <<>>
           last == << <<"decode">>, <<"recompute">>, <<"prefill">> >>
<1>1. NonDecode \in Seq(Phases)
  <2> DEFINE present(phase) == IF Candidates(phase) = {} THEN <<>> ELSE <<phase>>
  <2>1. present("prefill") \in Seq(Phases) /\ present("recompute") \in Seq(Phases)
    <3>1. <<>> \in Seq(Phases) /\ <<"prefill">> \in Seq(Phases) /\ <<"recompute">> \in Seq(Phases)
      BY DEF Phases
    <3> QED
      BY <3>1, Zenon
  <2>2. \/ NonDecode = present("prefill") \o present("recompute")
        \/ NonDecode = present("recompute") \o present("prefill")
    <3> DEFINE prefillFirst == /\ Candidates("recompute") # {} /\ Candidates("prefill") # {}
                               /\ Before(BestRank("prefill"), BestRank("recompute"))
    <3>1. NonDecode = IF prefillFirst THEN present("prefill") \o present("recompute")
                                      ELSE present("recompute") \o present("prefill")
      BY Zenon DEF NonDecode
    <3> HIDE DEF prefillFirst, present
    <3> QED
      BY <3>1, Zenon
  <2> DEFINE prefill   == present("prefill")
             recompute == present("recompute")
  <2>3. prefill \o recompute \in Seq(Phases) /\ recompute \o prefill \in Seq(Phases)
    <3>1. prefill \in Seq(Phases) /\ recompute \in Seq(Phases)
      BY <2>1
    <3> HIDE DEF present, prefill, recompute
    <3> QED
      BY <3>1
  <2> HIDE DEF present
  <2> QED
    BY <2>2, <2>3, Zenon
<1>2. promoted \in Seq(Phases)
  <2>1. CASE ServeNonDecode
    <3>1. NonDecode # <<>>
      BY <2>1 DEF ServeNonDecode
    <3>2. NonDecode[1] \in Phases
      BY <1>1, <3>1
    <3> QED
      BY <2>1, <3>2
  <2>2. CASE ~ServeNonDecode
    BY <2>2
  <2> QED
    BY <2>1, <2>2
<1>3. ASSUME NEW phases \in Seq(Phases) PROVE only(phases) \in Seq(CohortChoices)
  <2>1. CASE phases = <<>>
    <3>1. only(phases) = <<>>
      BY <2>1
    <3> HIDE DEF only, CohortChoices
    <3> QED
      BY <3>1
  <2>2. CASE phases # <<>>
    <3>1. only(phases) = <<phases>> /\ phases \in CohortChoices
      BY <1>3, <2>2
    <3> HIDE DEF only, CohortChoices
    <3> QED
      BY <3>1
  <2> QED
    BY <2>1, <2>2
<1>4. mixed \in Seq(CohortChoices)
  <2>1. (IF promoted = <<>> THEN <<>> ELSE Append(promoted, "decode")) \in Seq(Phases)
    <3>1. Append(promoted, "decode") \in Seq(Phases) /\ <<>> \in Seq(Phases)
      <4> HIDE DEF promoted
      <4> QED
        BY <1>2 DEF Phases
    <3> HIDE DEF promoted
    <3> QED
      BY <3>1
  <2>2. <<"decode">> \o NonDecode \in CohortChoices
    <3>1. <<"decode">> \in Seq(Phases)
      BY DEF Phases
    <3>2. <<"decode">> \o NonDecode \in Seq(Phases) /\ Len(<<"decode">> \o NonDecode) >= 1
      BY <1>1, <3>1
    <3> QED
      BY <3>2
  <2> DEFINE first == only(IF promoted = <<>> THEN <<>> ELSE Append(promoted, "decode"))
             second == << <<"decode">> \o NonDecode >>
  <2>3. first \in Seq(CohortChoices)
    <3> HIDE DEF promoted, only
    <3> QED
      BY <1>3, <2>1
  <2>4. second \in Seq(CohortChoices)
    <3> HIDE DEF CohortChoices
    <3> QED
      BY <2>2
  <2>5. mixed = IF plan.mixed /\ Candidates("decode") # {} THEN first \o second ELSE <<>>
    OBVIOUS
  <2> HIDE DEF first, second, mixed, CohortChoices
  <2> QED
    BY <2>3, <2>4, <2>5
<1>5. last \in Seq(CohortChoices) /\ Len(last) = 3
  BY DEF Phases
<1>6. only(promoted) \in Seq(CohortChoices)
  <2> HIDE DEF promoted, only
  <2> QED
    BY <1>2, <1>3
<1>7. Alternatives = mixed \o only(promoted) \o last
  BY Zenon DEF Alternatives
<1> DEFINE start == mixed \o only(promoted)
<1>8. start \in Seq(CohortChoices) /\ Alternatives = start \o last
  <2> HIDE DEF mixed, only, last, promoted, CohortChoices
  <2> QED
    BY <1>4, <1>6, <1>7
<1> HIDE DEF start, last
<1>9. Alternatives \in Seq(CohortChoices) /\ Len(Alternatives) = Len(start) + 3
  <2> HIDE DEF CohortChoices
  <2>1. start \o last \in Seq(CohortChoices) /\ Len(start \o last) = Len(start) + Len(last)
    BY <1>5, <1>8, ConcatProperties, Zenon
  <2>2. Len(start \o last) = Len(start) + 3
    BY <1>5, <2>1, Zenon
  <2> QED
    BY <1>8, <2>1, <2>2, Zenon
<1>10. Alternatives # <<>>
  <2> HIDE DEF CohortChoices
  <2> QED
    BY <1>8, <1>9
<1> QED
  BY <1>9, <1>10

\* A new cohort has no items.
LEMMA NoItems ==
    ASSUME items' = <<>>
    PROVE  ItemsOK'
<1>1. /\ Protected' = {} /\ DOMAIN items' = {} /\ items' \in Seq(Item)
      /\ Len(items)' = 0
  BY DEF Protected
<1>2. Cardinality(Protected)' = 0
  BY <1>1, FS_EmptySet
<1>3. Budget' = BatchTokens
  <2> DEFINE f == [i \in DOMAIN items' |-> items'[i].tokens]
  <2>1. SumFunction(f) = SumFunctionOnSet(f, DOMAIN f)
    BY DEF SumFunction
  <2>2. DOMAIN f = {}
    BY <1>1
  <2>3. SumFunctionOnSet(f, {}) = 0
    BY SumEmpty
  <2>4. SumFunction(f) = 0
    <3> HIDE DEF f
    <3> QED
      BY <2>1, <2>2, <2>3, Zenon
  <2>5. Budget' = BatchTokens - SumFunction(f)
    BY DEF Budget
  <2> HIDE DEF f
  <2> QED
    BY <2>4, <2>5, ServingAssumption
<1>4. Slots \in Nat /\ BatchTokens \in Nat
  BY ServingAssumption
<1> QED
  BY <1>1, <1>2, <1>3, <1>4 DEF ItemsOK

LEMMA CandidatesInPhase ==
    ASSUME NEW phase, NEW r \in Candidates(phase)
    PROVE  r \in Requests /\ r \in Running /\ InPhase(r, phase)
BY DEF Candidates, Running, InStatus

LEMMA SelectCohortKeeps ==
    ASSUME IInv, SelectCohort
    PROVE  IInv'
<1> USE DEF IInv
<1>1. /\ pc = "select" /\ pc' = "build" /\ items' = <<>>
      /\ agenda' = Alternatives /\ queue' = Candidates(Head(Head(Alternatives)))
      /\ UNCHANGED <<input, state, ledger>> /\ UNCHANGED <<input, arrived>>
      /\ admission' = admission /\ served' = served
  BY DEF SelectCohort, orders
<1>2. TypeInv'
  BY <1>1, TypeKept DEF TypeInv, Places
<1>3. AdmissionInv' /\ ReserveInv'
  BY <1>1 DEF AdmissionInv, ReserveInv, Asking
<1>4. load' = load /\ state' = state
  BY <1>1 DEF input
<1>5. ItemsOK'
  BY <1>1, NoItems
<1>6. agenda' \in Seq(Seq(Phases) \ {<<>>}) /\ agenda' # <<>>
  BY <1>1, AlternativesTyped
<1>7. PICK phase \in Phases : phase = Head(Head(Alternatives))
  <2>1. Head(Alternatives) \in Seq(Phases) \ {<<>>}
    BY AlternativesTyped
  <2>2. Head(Head(Alternatives)) \in Phases
    BY <2>1
  <2> QED
    BY <2>2
<1>11. Phase' = phase
  BY <1>1, <1>7 DEF Phase
<1>8. queue' \subseteq Requests /\ \A r \in queue' : InPhase(r, phase) /\ r \in Requests
  <2>1. queue' = Candidates(phase)
    BY <1>1, <1>7
  <2> QED
    BY <2>1, CandidatesInPhase
<1>9. ASSUME NEW r \in queue' PROVE InPhase(r, Phase)'
  <2>1. r \in Requests /\ InPhase(r, phase) /\ state'[r] = state[r]
    BY <1>4, <1>8
  <2>2. InPhase(r, phase)' <=> InPhase(r, phase)
    BY <1>4, <1>7, <2>1, NeedFrame
  <2> QED
    BY <1>11, <2>1, <2>2
<1>10. CohortInv'
  BY <1>1, <1>5, <1>6, <1>8, <1>9 DEF CohortInv
<1> QED
  BY <1>1, <1>2, <1>3, <1>10, SameState

LEMMA EndPhaseKeeps ==
    ASSUME IInv, EndPhase
    PROVE  IInv'
<1> USE DEF IInv
<1>1. /\ pc = "build" /\ agenda' = AgendaLeft /\ items' = items
      /\ queue' = IF AgendaLeft = <<>> THEN {} ELSE Candidates(Head(Head(AgendaLeft)))
      /\ pc' = IF AgendaLeft # <<>> THEN "build" ELSE IF items # <<>> THEN "execute" ELSE "idle"
      /\ UNCHANGED <<input, state, ledger>> /\ UNCHANGED <<input, arrived>>
      /\ admission' = admission /\ served' = served
  BY DEF EndPhase, orders
<1>2. TypeInv'
  BY <1>1, TypeKept DEF TypeInv, Places
<1>3. AdmissionInv' /\ ReserveInv'
  BY <1>1 DEF AdmissionInv, ReserveInv, Asking
<1>4. load' = load /\ state' = state
  BY <1>1 DEF input
<1>5. ItemsOK /\ agenda \in Seq(Seq(Phases) \ {<<>>}) /\ agenda # <<>>
  BY <1>1 DEF CohortInv, Asking
<1>6. ItemsOK'
  BY <1>1, <1>4, <1>5, ItemsFrame
<1>7. AgendaLeft \in Seq(Seq(Phases) \ {<<>>})
  <2> DEFINE CohortChoices == Seq(Phases) \ {<<>>}
  <2>1. Head(agenda) \in CohortChoices /\ Tail(agenda) \in Seq(CohortChoices)
    <3> HIDE DEF CohortChoices
    <3> QED
      BY <1>5 DEF CohortChoices
  <2>2. CASE items = <<>>
    <3>1. AgendaLeft = Tail(agenda)
      BY <2>2 DEF AgendaLeft
    <3> QED
      BY <2>1, <3>1
  <2>3. CASE items # <<>> /\ Len(Head(agenda)) > 1
    <3>1. Tail(Head(agenda)) \in CohortChoices
      <4> DEFINE h == Head(agenda)
      <4>1. h \in Seq(Phases) /\ h # <<>> /\ Len(h) > 1
        BY <2>1, <2>3
      <4> HIDE DEF h
      <4>2. Tail(h) \in Seq(Phases) /\ Len(Tail(h)) = Len(h) - 1
        BY <4>1, HeadTailProperties
      <4>3. Len(Tail(h)) # 0 /\ Len(<<>>) = 0
        <5>1. Len(h) \in Nat
          BY <4>1, LenProperties
        <5> DEFINE n == Len(h)
                   m == Len(Tail(h))
        <5>2. n \in Nat /\ n > 1 /\ m = n - 1
          BY <4>1, <4>2, <5>1
        <5> HIDE DEF n, m
        <5>3. m # 0
          BY <5>2
        <5> QED
          BY <5>3 DEF m
      <4> QED
        BY <4>2, <4>3, Zenon DEF h
    <3>2. AgendaLeft = <<Tail(Head(agenda))>>
      BY <2>3 DEF AgendaLeft
    <3> HIDE DEF CohortChoices
    <3>3. AgendaLeft \in Seq(CohortChoices)
      BY <3>1, <3>2
    <3> QED
      BY <3>3 DEF CohortChoices
  <2>4. CASE items # <<>> /\ ~(Len(Head(agenda)) > 1)
    <3>1. AgendaLeft = <<>>
      BY <2>4 DEF AgendaLeft
    <3> QED
      BY <3>1
  <2> QED
    BY <2>2, <2>3, <2>4
<1>8. CASE AgendaLeft # <<>>
  <2>1. PICK phase \in Phases : phase = Head(Head(AgendaLeft))
    <3>1. Head(AgendaLeft) \in Seq(Phases) \ {<<>>}
      BY <1>7, <1>8
    <3>2. Head(Head(AgendaLeft)) \in Phases
      BY <3>1
    <3> QED
      BY <3>2
  <2>2. Phase' = phase /\ queue' = Candidates(phase) /\ pc' = "build"
    BY <1>1, <1>8, <2>1 DEF Phase
  <2>3. \A r \in queue' : r \in Requests /\ InPhase(r, phase)
    BY <2>2, CandidatesInPhase
  <2>4. ASSUME NEW r \in queue' PROVE InPhase(r, Phase)'
    <3>1. r \in Requests /\ InPhase(r, phase) /\ state'[r] = state[r]
      BY <1>4, <2>3
    <3>2. InPhase(r, phase)' <=> InPhase(r, phase)
      BY <1>4, <3>1, NeedFrame
    <3> QED
      BY <2>2, <3>1, <3>2
  <2>5. CohortInv'
    BY <1>1, <1>6, <1>7, <1>8, <2>2, <2>3, <2>4 DEF CohortInv
  <2> QED
    BY <1>1, <1>2, <1>3, <2>5, SameState
<1>9. CASE AgendaLeft = <<>>
  <2>1. pc' \in {"execute", "idle"}
    BY <1>1, <1>9
  <2>2. CohortInv'
    BY <1>6, <2>1 DEF CohortInv, Asking
  <2> QED
    BY <1>1, <1>2, <1>3, <2>2, SameState
<1> QED
  BY <1>8, <1>9

\* The budget of a cohort is a number of tokens.
LEMMA BudgetTyped ==
    ASSUME items \in Seq(Item)
    PROVE  /\ IsFiniteSet(DOMAIN items)
           /\ \A i \in DOMAIN items : items[i].tokens \in Int
           /\ Budget \in Int
<1> DEFINE f == [i \in DOMAIN items |-> items[i].tokens]
<1>1. IsFiniteSet(DOMAIN items)
  <2>1. DOMAIN items = 1 .. Len(items) /\ Len(items) \in Nat
    BY LenProperties
  <2> QED
    BY <2>1, FS_Interval
<1>2. \A i \in DOMAIN items : items[i] \in Item
  OBVIOUS
<1>3. \A i \in DOMAIN items : items[i].tokens \in Int
  BY <1>2 DEF Item
<1>4. DOMAIN f = DOMAIN items /\ \A i \in DOMAIN items : f[i] \in Int
  BY <1>3
<1>5. SumFunction(f) \in Int
  <2> HIDE DEF f
  <2>1. SumFunctionOnSet(f, DOMAIN items) \in Int
    BY <1>1, <1>4, SumInt
  <2>2. SumFunctionOnSet(f, DOMAIN f) \in Int
    BY <1>4, <2>1, Zenon
  <2> QED
    BY <2>2, Zenon DEF SumFunction
<1> HIDE DEF f
<1> QED
  BY <1>1, <1>3, <1>5, ServingAssumption DEF Budget, f

\* The tokens of an item, and the pages that hold them.
LEMMA DemandTyped ==
    ASSUME TypeInv, StateInv, ItemsOK, Room, NEW r \in Requests, NEW phase \in Phases,
           InPhase(r, phase)
    PROVE  /\ Context(r, phase) \in Nat
           /\ Chunk(r, phase) \in 1 .. Remaining(r, phase) /\ Chunk(r, phase) <= Budget
           /\ Chunk(r, phase) \in Nat
           /\ ItemPages(r, phase) \in Nat
           /\ (IF phase = "decode"
               THEN LiveTokens(state[r].prefill, state[r].committed + 1)
               ELSE Context(r, phase) + Chunk(r, phase)) <= ItemPages(r, phase) * PageTokens
           /\ state[r].goal = 0 => Cached(r) <= ItemPages(r, phase) * PageTokens
<1>1. /\ state[r].prefill \in Nat /\ state[r].committed \in Nat
      /\ state[r].cursor \in Nat /\ state[r].goal \in Nat /\ Cached(r) \in Nat
  BY StateTyped
<1>2. load[r].prompt \in Nat /\ load[r].output \in Nat
  BY LoadTyped
<1>3. RecordOK(r, state[r])
  BY DEF StateInv
<1>4. Budget \in Int /\ Budget > 0 /\ ChunkTokens \in Int /\ ChunkTokens >= 1
  BY BudgetTyped, ServingAssumption DEF ItemsOK, Room
<1>5. Context(r, phase) \in Nat /\ Remaining(r, phase) \in Int /\ Remaining(r, phase) >= 1
  <2>1. CASE phase = "recompute"
    BY <1>1, <2>1 DEF Context, Remaining, InPhase
  <2>2. CASE phase = "prefill"
    BY <1>1, <1>2, <2>2 DEF Context, Remaining, InPhase
  <2>3. CASE phase = "decode"
    <3>1. load[r].output - state[r].committed \in Int /\ load[r].output - state[r].committed >= 1
      BY <1>1, <1>2, <2>3 DEF InPhase
    <3>2. Min({1, load[r].output - state[r].committed}) = 1
      BY <3>1, MinOfTwo
    <3> QED
      BY <1>1, <2>3, <3>2 DEF Context, Remaining
  <2> QED
    BY <2>1, <2>2, <2>3 DEF Phases
<1>6. /\ Chunk(r, phase) \in 1 .. Remaining(r, phase) /\ Chunk(r, phase) <= Budget
      /\ Chunk(r, phase) \in Nat
  <2> DEFINE a == Remaining(r, phase)
             m == Min({a, ChunkTokens, Budget})
  <2>1. m \in {a, ChunkTokens, Budget} /\ m <= a /\ m <= Budget
    BY <1>4, <1>5, MinOfThree
  <2>2. m \in Int /\ m >= 1
    <3> HIDE DEF a, m
    <3>1. a \in Int /\ a >= 1
      BY <1>5 DEF a
    <3> QED
      BY <1>4, <2>1, <3>1
  <2>3. m \in 1 .. a /\ m \in Nat
    <3> HIDE DEF m
    <3> QED
      BY <1>5, <2>1, <2>2
  <2> QED
    BY <2>1, <2>3 DEF Chunk
<1>7. CASE phase = "decode"
  <2> DEFINE grown == LiveTokens(state[r].prefill, state[r].committed + 1)
  <2>1. grown \in Nat /\ Cached(r) <= grown
    <3>1. state[r].committed + 1 \in Nat /\ state[r].committed <= state[r].committed + 1
          /\ state[r].prefill <= state[r].prefill
      BY <1>1
    <3>2. LiveTokens(state[r].prefill, state[r].committed) <= grown
      BY <1>1, <3>1, LiveTokensMonotone
    <3>3. grown \in Nat
      BY <1>1, <3>1, LiveTokensNat
    <3> QED
      BY <3>2, <3>3 DEF Cached
  <2>2. ItemPages(r, phase) = PagesFor(grown)
    BY <1>7 DEF ItemPages
  <2> HIDE DEF grown
  <2>3. PagesFor(grown) \in Nat /\ grown <= PagesFor(grown) * PageTokens
    BY <2>1, PagesForEnough
  <2>4. PagesFor(grown) * PageTokens \in Nat
    BY <2>3, ServingAssumption
  <2>5. Cached(r) <= PagesFor(grown) * PageTokens
    BY <1>1, <2>1, <2>3, <2>4
  <2> QED
    BY <1>5, <1>6, <1>7, <2>2, <2>3, <2>5 DEF grown
<1>8. CASE phase # "decode"
  <2> DEFINE end == Context(r, phase) + Chunk(r, phase)
  <2>1. end \in Nat
    BY <1>5, <1>6
  <2>2. ItemPages(r, phase) = PagesFor(end)
    BY <1>8 DEF ItemPages
  <2>3. state[r].goal = 0 => Cached(r) <= end
    <3>1. CASE phase = "recompute"
      BY <1>1, <3>1 DEF InPhase
    <3>2. CASE phase = "prefill"
      <4>1. state[r].prefill < load[r].prompt /\ Context(r, phase) = state[r].prefill
        BY <3>2 DEF InPhase, Context
      <4>2. state[r].committed = 0
        BY <1>3, <4>1 DEF RecordOK
      <4>3. Cached(r) = state[r].prefill
        BY <1>1, <4>2, LiveTokensNat DEF Cached
      <4> QED
        BY <1>1, <1>6, <4>1, <4>3
    <3> QED
      BY <1>8, <3>1, <3>2 DEF Phases
  <2> HIDE DEF end
  <2>4. PagesFor(end) \in Nat /\ end <= PagesFor(end) * PageTokens
    BY <2>1, PagesForEnough
  <2>5. PagesFor(end) * PageTokens \in Nat
    BY <2>4, ServingAssumption
  <2>6. state[r].goal = 0 => Cached(r) <= PagesFor(end) * PageTokens
    BY <1>1, <2>1, <2>3, <2>4, <2>5
  <2> QED
    BY <1>5, <1>6, <1>8, <2>2, <2>4, <2>6 DEF end
<1> QED
  BY <1>7, <1>8

LEMMA ReserveItemKeeps ==
    ASSUME IInv, ReserveItem
    PROVE  IInv'
<1> USE DEF IInv
<1> DEFINE b == Best(queue, ServiceRank)
<1>1. /\ pc = "build" /\ queue # {} /\ Room /\ queue' = queue \ {b}
      /\ agenda' = agenda /\ items' = items
      /\ UNCHANGED <<input, state, ledger>> /\ UNCHANGED <<input, arrived>>
      /\ admission' = admission /\ served' = served
  BY DEF ReserveItem, orders
<1>2. /\ ItemsOK /\ agenda \in Seq(Seq(Phases) \ {<<>>}) /\ agenda # <<>>
      /\ queue \subseteq Requests /\ \A r \in queue \cap Running : InPhase(r, Phase)
  BY <1>1 DEF CohortInv, Asking
<1>3. b \in queue
  BY <1>1, <1>2, BestIn
<1>4. \/ b \in Running \ Protected /\ Reserve(b, ItemPages(b, Phase), Protected)
      \/ pc' = pc
  BY DEF ReserveItem
<1> HIDE DEF b
<1>5. /\ load' = load /\ state' = state
      /\ Running' = Running /\ Protected' = Protected /\ Phase' = Phase
  BY <1>1 DEF input, Running, InStatus, Protected, Phase
<1>6. ItemsOK'
  BY <1>1, <1>2, <1>5, ItemsFrame
<1>7. PICK phase \in Phases : phase = Phase
  BY <1>2, PhaseTyped
<1>8. /\ queue' \subseteq Requests
      /\ \A r \in queue' \cap Running' : InPhase(r, Phase)'
  <2>1. queue' \subseteq Requests
    BY <1>1, <1>2
  <2>2. ASSUME NEW r \in queue' \cap Running' PROVE InPhase(r, Phase)'
    <3>1. r \in Requests /\ state'[r] = state[r] /\ InPhase(r, phase)
      BY <1>1, <1>2, <1>5, <1>7, <2>2
    <3>2. InPhase(r, phase)' <=> InPhase(r, phase)
      BY <1>5, <3>1, NeedFrame
    <3>3. Phase' = phase
      BY <1>5, <1>7
    <3> QED
      BY <3>1, <3>2, <3>3
  <2> QED
    BY <2>1, <2>2
<1>9. CASE b \in Running \ Protected /\ Reserve(b, ItemPages(b, Phase), Protected)
  <2>1. PICK r \in Requests : r = b
    BY <1>2, <1>3
  <2>2. /\ pc' = "reserve" /\ asker' = "build" /\ owner' = r
        /\ victims' \subseteq Running \ (Protected \union {r})
        /\ target' = IF plan.eager THEN Max({ItemPages(r, phase), state[r].pages})
                                   ELSE ItemPages(r, phase)
    BY <1>1, <1>7, <1>9, <2>1 DEF Reserve
  <2>3. InPhase(r, phase)
    BY <1>2, <1>3, <1>7, <1>9, <2>1
  <2>4. ItemPages(r, phase) \in Nat /\ state[r].pages \in Nat
    BY <1>1, <1>2, <2>3, DemandTyped, StateTyped
  <2>5. target' \in Nat /\ ItemPages(r, phase) <= target'
    <3>1. Max({ItemPages(r, phase), state[r].pages})
            = IF ItemPages(r, phase) >= state[r].pages THEN ItemPages(r, phase) ELSE state[r].pages
      BY <2>4, MaxOfTwo
    <3> QED
      BY <2>2, <2>4, <3>1
  <2>6. /\ ItemPages(r, phase)' = ItemPages(r, phase) /\ (Room' <=> Room)
        /\ InPhase(r, phase)' <=> InPhase(r, phase)
    BY <1>1, <1>5, DemandFrame, NeedFrame
  <2>7. Phase' = phase
    BY <1>5, <1>7
  <2>8. ReserveInv'
    <3>1. InPhase(owner, Phase)' /\ Room' /\ ItemPages(owner, Phase)' <= target'
      BY <1>1, <2>2, <2>3, <2>5, <2>6, <2>7
    <3>2. /\ owner' \in Running' \ Protected' /\ victims' \cap Protected' = {}
          /\ victims' \subseteq Running' \ {owner'}
      BY <1>5, <1>9, <2>1, <2>2
    <3>3. owner' \in Requests /\ target' \in Nat /\ asker' = "build"
      BY <2>2, <2>5
    <3> QED
      BY <3>1, <3>2, <3>3 DEF ReserveInv
  <2>9. TypeInv'
    BY <1>1, <2>2, TypeKept DEF TypeInv, Places
  <2>10. AdmissionInv'
    BY <2>2 DEF AdmissionInv, Asking
  <2>11. CohortInv'
    BY <1>1, <1>2, <1>6, <1>8, <2>2 DEF CohortInv
  <2> QED
    BY <1>1, <2>8, <2>9, <2>10, <2>11, SameState
<1>10. CASE pc' = pc
  <2>1. TypeInv'
    BY <1>1, <1>10, TypeKept DEF TypeInv
  <2>2. AdmissionInv' /\ ReserveInv'
    BY <1>1, <1>10 DEF AdmissionInv, ReserveInv, Asking
  <2>3. CohortInv'
    BY <1>1, <1>2, <1>6, <1>8, <1>10 DEF CohortInv
  <2> QED
    BY <1>1, <2>1, <2>2, <2>3, SameState
<1> QED
  BY <1>4, <1>9, <1>10

\* One more item in the cohort.
LEMMA ItemAppended ==
    ASSUME items \in Seq(Item), NEW item \in Item, items' = Append(items, item)
    PROVE  /\ items' \in Seq(Item) /\ Len(items') = Len(items) + 1
           /\ DOMAIN items' = DOMAIN items \union {Len(items) + 1}
           /\ Len(items) + 1 \notin DOMAIN items
           /\ items'[Len(items) + 1] = item /\ \A i \in DOMAIN items : items'[i] = items[i]
           /\ Protected' = Protected \union {item.request}
           /\ Budget' = Budget - item.tokens
<1> DEFINE n == Len(items)
<1>1. n \in Nat /\ DOMAIN items = 1 .. n
  BY LenProperties
<1>2. /\ items' \in Seq(Item) /\ Len(items') = n + 1
      /\ items'[n + 1] = item /\ \A i \in 1 .. n : items'[i] = items[i]
  BY AppendProperties
<1>3. DOMAIN items' = 1 .. n + 1
  BY <1>2, LenProperties
<1>4. 1 .. n + 1 = 1 .. n \union {n + 1} /\ n + 1 \notin 1 .. n
  <2> HIDE DEF n
  <2> QED
    BY <1>1
<1>5. /\ DOMAIN items' = DOMAIN items \union {n + 1} /\ n + 1 \notin DOMAIN items
      /\ \A i \in DOMAIN items : items'[i] = items[i]
  <2> HIDE DEF n
  <2> QED
    BY <1>1, <1>2, <1>3, <1>4, Zenon
<1>6. Protected' = Protected \union {item.request}
  <2>1. Protected' = {items'[i].request : i \in DOMAIN items'}
    BY DEF Protected
  <2> HIDE DEF n
  <2>2. \A i \in DOMAIN items' : i \in DOMAIN items \/ i = n + 1
    BY <1>5
  <2> QED
    BY <1>2, <1>5, <2>1, <2>2 DEF Protected
<1>7. Budget' = Budget - item.tokens
  <2> DEFINE f == [i \in DOMAIN items |-> items[i].tokens]
             g == [i \in DOMAIN items' |-> items'[i].tokens]
             S == DOMAIN items
  <2>1. IsFiniteSet(S) /\ (\A i \in S : items[i].tokens \in Int) /\ item.tokens \in Int
    BY BudgetTyped DEF Item
  <2>2. /\ DOMAIN f = S /\ DOMAIN g = S \union {n + 1}
        /\ \A i \in S : f[i] \in Int /\ g[i] = f[i]
        /\ g[n + 1] = item.tokens
    <3>1. DOMAIN g = S \union {n + 1} /\ g[n + 1] = item.tokens
      BY <1>2, <1>5
    <3>2. \A i \in S : f[i] = items[i].tokens /\ g[i] = items'[i].tokens
      BY <1>5
    <3>3. \A i \in S : f[i] \in Int /\ g[i] = f[i]
      BY <1>5, <2>1, <3>2
    <3> QED
      BY <3>1, <3>3
  <2>3. Budget' = BatchTokens - SumFunction(g) /\ Budget = BatchTokens - SumFunction(f)
    BY DEF Budget
  <2>4. n + 1 \notin S
    BY <1>5
  <2> HIDE DEF f, g, S, n
  <2>5. SumFunctionOnSet(g, S \union {n + 1}) = item.tokens + SumFunctionOnSet(g, S)
    <3>1. \A i \in S : g[i] \in Int
      BY <2>2
    <3>2. g[n + 1] \in Int
      BY <2>1, <2>2
    <3>3. SumFunctionOnSet(g, S \union {n + 1}) = g[n + 1] + SumFunctionOnSet(g, S)
      BY <2>1, <2>4, <3>1, <3>2, SumAdd
    <3> QED
      BY <2>2, <3>3
  <2>6. SumFunctionOnSet(g, S) = SumFunctionOnSet(f, S)
    <3>1. \A i \in S : g[i] \in Int /\ g[i] = f[i]
      BY <2>2
    <3> QED
      BY <2>1, <3>1, SumAgree
  <2>7. SumFunctionOnSet(f, S) \in Int
    BY <2>1, <2>2, SumInt
  <2>8. SumFunction(f) = SumFunctionOnSet(f, S)
    BY <2>2, Zenon DEF SumFunction
  <2>9. SumFunction(g) = SumFunctionOnSet(g, S \union {n + 1})
    BY <2>2, Zenon DEF SumFunction
  <2>10. SumFunction(g) = SumFunction(f) + item.tokens /\ SumFunction(f) \in Int
    BY <2>1, <2>5, <2>6, <2>7, <2>8, <2>9
  <2>11. BatchTokens \in Int
    BY ServingAssumption
  <2> QED
    BY <2>1, <2>3, <2>10, <2>11
<1> QED
  BY <1>2, <1>5, <1>6, <1>7

LEMMA GrantedItemKeeps ==
    ASSUME IInv, Granted, asker = "build"
    PROVE  IInv'
<1> USE DEF IInv
<1>1. /\ pc = "reserve" /\ Fits(owner, target) /\ used' = used + target - state[owner].pages
      /\ state' = [state EXCEPT ![owner] = Resize(state[owner], target)]
      /\ items' = Append(items, [request |-> owner, phase |-> Phase,
                                 context |-> Context(owner, Phase),
                                 tokens |-> Chunk(owner, Phase)])
      /\ pc' = "build" /\ agenda' = agenda /\ queue' = queue
      /\ UNCHANGED <<input, arrived>> /\ load' = load /\ offloaded' = offloaded
      /\ admission' = admission /\ served' = served
  BY DEF Granted, input
<1>2. /\ ItemsOK /\ agenda \in Seq(Seq(Phases) \ {<<>>}) /\ agenda # <<>>
      /\ queue \subseteq Requests /\ \A r \in queue \cap Running : InPhase(r, Phase)
  BY <1>1 DEF CohortInv, Asking
<1>3. PICK phase \in Phases : phase = Phase
  BY <1>2, PhaseTyped
<1>4. PICK r \in Requests : r = owner
  BY <1>1 DEF ReserveInv
<1>5. /\ target \in Nat /\ r \in Running /\ r \notin Protected /\ InPhase(r, phase) /\ Room
      /\ ItemPages(r, phase) <= target
  BY <1>1, <1>3, <1>4 DEF ReserveInv
<1>6. PICK n \in Nat : n = target
  BY <1>5
<1> DEFINE new == [request |-> r, phase |-> phase,
                   context |-> Context(r, phase), tokens |-> Chunk(r, phase)]
<1>7. /\ Context(r, phase) \in Nat
      /\ Chunk(r, phase) \in 1 .. Remaining(r, phase) /\ Chunk(r, phase) <= Budget
      /\ Chunk(r, phase) \in Nat /\ ItemPages(r, phase) \in Nat
      /\ (IF phase = "decode"
          THEN LiveTokens(state[r].prefill, state[r].committed + 1)
          ELSE Context(r, phase) + Chunk(r, phase)) <= ItemPages(r, phase) * PageTokens
      /\ state[r].goal = 0 => Cached(r) <= ItemPages(r, phase) * PageTokens
  BY <1>2, <1>5, DemandTyped
<1>8. /\ state[r] \in RequestState /\ RecordOK(r, state[r]) /\ state[r].status = "running"
      /\ state[r].prefill \in Nat /\ state[r].committed \in Nat
      /\ Cached(r) \in Nat /\ state[r].pages \in Nat
  BY <1>5, StateTyped DEF StateInv, Running, InStatus
<1>9. ItemPages(r, phase) * PageTokens <= n * PageTokens /\ n * PageTokens \in Nat
      /\ ItemPages(r, phase) * PageTokens \in Nat
  <2> DEFINE m == ItemPages(r, phase)
  <2>1. m \in Nat /\ n \in Nat /\ m <= n /\ PageTokens \in Nat
    BY <1>5, <1>6, <1>7, ServingAssumption
  <2> HIDE DEF m
  <2>2. m * PageTokens <= n * PageTokens /\ n * PageTokens \in Nat /\ m * PageTokens \in Nat
    BY <2>1
  <2> QED
    BY <2>2 DEF m
<1>10. state[r].goal = 0 => LiveTokens(state[r].prefill, state[r].committed) <= n * PageTokens
  <2>1. Cached(r) = LiveTokens(state[r].prefill, state[r].committed)
    BY DEF Cached
  <2> QED
    BY <1>7, <1>8, <1>9, <2>1
<1>11. PICK s : s = Resize(state[r], n)
  OBVIOUS
<1>12. /\ s \in RequestState /\ RecordOK(r, s)
       /\ s.pages = n /\ s.swapped = state[r].swapped /\ s.status = state[r].status
       /\ s.prefill = state[r].prefill /\ s.committed = state[r].committed
       /\ s.cursor = state[r].cursor /\ s.goal = state[r].goal
  BY <1>8, <1>10, <1>11, ResizeOK
<1>13. state' = [state EXCEPT ![r] = s]
  BY <1>1, <1>4, <1>6, <1>11
<1>14. /\ StateInv'
       /\ state'[r] = s /\ \A x \in Requests \ {r} : state'[x] = state[x]
       /\ SumFunction(PagesHeld') = used - state[r].pages + s.pages
       /\ SumFunction(PagesSwapped') = offloaded - state[r].swapped + s.swapped
       /\ state[r].swapped \in Nat
  BY <1>1, <1>12, <1>13, OneRequest
<1>15. LedgerInv'
  <2>1. /\ used \in Nat /\ offloaded \in Nat /\ CapacityPages \in Nat
        /\ offloaded <= OffloadPages
    BY LedgerTyped DEF LedgerInv
  <2>2. used' = used + n - state[r].pages /\ used + n - state[r].pages <= CapacityPages
    BY <1>1, <1>4, <1>6 DEF Fits
  <2>3. used' = SumFunction(PagesHeld') /\ used' <= CapacityPages
    BY <1>8, <1>12, <1>14, <2>1, <2>2
  <2>4. offloaded' = SumFunction(PagesSwapped') /\ offloaded' <= OffloadPages
    BY <1>1, <1>12, <1>14, <2>1
  <2> QED
    BY <2>3, <2>4 DEF LedgerInv
<1>16. RejectedInv'
  BY <1>1, <1>8, <1>12, <1>14 DEF RejectedInv, InStatus
<1>17. TypeInv'
  BY <1>1, TypeKept DEF TypeInv, Places
<1>18. AdmissionInv' /\ ReserveInv'
  BY <1>1 DEF AdmissionInv, ReserveInv, Asking
<1>19. new \in Item /\ items' = Append(items, new)
  <2>1. new \in Item
    BY <1>7 DEF Item
  <2>2. items' = Append(items, new)
    BY <1>1, <1>3, <1>4
  <2> QED
    BY <2>1, <2>2
<1>20. PICK item \in Item : item = new
  BY <1>19
<1>21. /\ item.request = r /\ item.phase = phase
       /\ item.context = Context(r, phase) /\ item.tokens = Chunk(r, phase)
  BY <1>20
<1> HIDE DEF new
<1>22. \A x \in Requests :
          /\ state'[x].status = state[x].status
          /\ state'[x].prefill = state[x].prefill /\ state'[x].committed = state[x].committed
          /\ state'[x].cursor = state[x].cursor /\ state'[x].goal = state[x].goal
  BY <1>12, <1>14
<1>23. /\ InPhase(r, phase)' <=> InPhase(r, phase)
       /\ Context(r, phase)' = Context(r, phase)
       /\ Remaining(r, phase)' = Remaining(r, phase)
       /\ r \in Running' <=> r \in Running
  BY <1>1, <1>22, NeedKept
<1>24. ItemOK(item)'
  <2>1. Needs(item)' <= state'[r].pages * PageTokens
    <3>1. Needs(item)' = IF phase = "decode"
                         THEN LiveTokens(state[r].prefill, state[r].committed + 1)
                         ELSE Context(r, phase) + Chunk(r, phase)
      BY <1>21, <1>22 DEF Needs
    <3>2. LiveTokens(state[r].prefill, state[r].committed + 1) \in Nat
      <4>1. state[r].committed + 1 \in Nat
        BY <1>8
      <4> QED
        BY <1>8, <4>1, LiveTokensNat
    <3>3. Needs(item)' \in Nat /\ Needs(item)' <= ItemPages(r, phase) * PageTokens
      BY <1>7, <3>1, <3>2
    <3>4. state'[r].pages = n
      BY <1>12, <1>14
    <3> QED
      BY <1>9, <3>3, <3>4
  <2> QED
    BY <1>5, <1>7, <1>21, <1>23, <2>1 DEF ItemOK
<1>25. /\ items' \in Seq(Item) /\ Len(items') = Len(items) + 1
       /\ DOMAIN items' = DOMAIN items \union {Len(items) + 1}
       /\ items'[Len(items) + 1] = item /\ \A i \in DOMAIN items : items'[i] = items[i]
       /\ Protected' = Protected \union {item.request}
       /\ Budget' = Budget - item.tokens
  BY <1>2, <1>19, <1>20, ItemAppended DEF ItemsOK
<1>26. ASSUME NEW i \in DOMAIN items' PROVE ItemOK(items[i])'
  <2>1. CASE i = Len(items) + 1
    BY <1>24, <1>25, <2>1
  <2>2. CASE i \in DOMAIN items
    <3>1. items[i] \in Item /\ ItemOK(items[i]) /\ items[i].request \in Protected
      BY <1>2, <2>2 DEF ItemsOK, Protected
    <3>2. PICK old \in Item : old = items[i]
      BY <3>1
    <3>3. old.request \in Requests /\ old.request # r
      BY <1>5, <3>1, <3>2 DEF Item
    <3>4. state'[old.request] = state[old.request] /\ ItemOK(old)
      BY <1>14, <3>1, <3>2, <3>3
    <3>5. ItemOK(old)'
      BY <1>1, <3>4, ItemFrame
    <3>6. items'[i] = old
      BY <1>25, <2>2, <3>2
    <3> QED
      BY <3>5, <3>6
  <2> QED
    BY <1>25, <2>1, <2>2
<1>27. Cardinality(Protected') = Len(items')
  <2>1. Protected \subseteq Requests
    <3>1. \A i \in DOMAIN items : items[i] \in Item
      BY <1>2 DEF ItemsOK
    <3> QED
      BY <3>1 DEF Protected, Item
  <2>2. IsFiniteSet(Protected)
    BY <2>1, RequestsFinite
  <2>3. Cardinality(Protected \union {r}) = Cardinality(Protected) + 1
    BY <1>5, <2>2, FS_AddElement
  <2> QED
    BY <1>2, <1>21, <1>25, <2>3 DEF ItemsOK
<1>28. Len(items') <= Slots /\ Budget' >= 0
  <2>1. Len(items) \in Nat /\ Slots \in Nat /\ Budget \in Int
    BY <1>2, LenProperties, BudgetTyped, ServingAssumption DEF ItemsOK
  <2>2. Len(items) < Slots
    BY <1>5 DEF Room
  <2>3. Len(items') <= Slots
    BY <1>25, <2>1, <2>2
  <2>4. Budget' = Budget - Chunk(r, phase)
    BY <1>21, <1>25
  <2>5. Budget' >= 0
    BY <1>7, <2>1, <2>4
  <2> QED
    BY <2>3, <2>5
<1>29. ItemsOK'
  BY <1>25, <1>26, <1>27, <1>28 DEF ItemsOK
<1>30. ASSUME NEW x \in queue' \cap Running' PROVE InPhase(x, Phase)'
  <2>1. x \in Requests /\ x \in queue
    BY <1>1, <1>2, <1>30
  <2>2. (InPhase(x, phase)' <=> InPhase(x, phase)) /\ (x \in Running' <=> x \in Running)
    BY <1>1, <1>22, <2>1, NeedKept
  <2>3. InPhase(x, phase)
    BY <1>2, <1>3, <1>30, <2>1, <2>2
  <2>4. Phase' = phase
    BY <1>1, <1>3 DEF Phase
  <2> QED
    BY <2>2, <2>3, <2>4
<1>31. CohortInv'
  BY <1>1, <1>2, <1>29, <1>30 DEF CohortInv
<1> QED
  BY <1>14, <1>15, <1>16, <1>17, <1>18, <1>31

LEMMA GrantedKeeps ==
    ASSUME IInv, Granted
    PROVE  IInv'
<1>1. CASE asker = "build"
  BY <1>1, GrantedItemKeeps
<1>2. CASE asker # "build"
  <2> USE DEF IInv
  <2>1. /\ pc = "reserve" /\ Fits(owner, target)
        /\ used' = used + target - state[owner].pages
        /\ state' = [state EXCEPT ![owner] = Run(Resize(state[owner], target))]
        /\ Launched(owner) /\ offloaded' = offloaded /\ pc # "done"
        /\ UNCHANGED <<input, arrived, served>>
    BY <1>2 DEF Granted
  <2>2. PICK r \in Requests : r = owner
    BY <2>1 DEF ReserveInv
  <2>3. PICK n \in Nat : n = target
    BY <2>1 DEF ReserveInv
  <2>4. /\ r \in Queued /\ state[r].swapped = 0
        /\ state[r].goal = 0 => Cached(r) <= n * PageTokens
    BY <1>2, <2>1, <2>2, <2>3 DEF ReserveInv
  <2>5. /\ state[r] \in RequestState /\ RecordOK(r, state[r])
        /\ state[r].status \in {"waiting", "swapped"} /\ state[r].pages \in Nat
    BY <2>4, StateTyped DEF StateInv, Queued, InStatus
  <2>6. PICK s : s = Run(Resize(state[r], n))
    OBVIOUS
  <2>7. /\ s \in RequestState /\ RecordOK(r, s)
        /\ s.pages = n /\ s.swapped = 0 /\ s.status = "running"
    BY <2>4, <2>5, <2>6, AdmittedOK DEF Cached
  <2>8. state' = [state EXCEPT ![r] = s] /\ Launched(r)
    BY <2>1, <2>2, <2>3, <2>6
  <2>9. used \in Nat /\ offloaded \in Nat /\ CapacityPages \in Nat
    BY LedgerTyped
  <2>10. used' = used + n - state[r].pages /\ used + n - state[r].pages <= CapacityPages
    BY <2>1, <2>2, <2>3 DEF Fits
  <2>11. /\ used' = used - state[r].pages + s.pages /\ used' <= CapacityPages
         /\ offloaded' = offloaded - state[r].swapped + s.swapped
    BY <2>1, <2>4, <2>5, <2>7, <2>9, <2>10
  <2> QED
    BY <2>1, <2>7, <2>8, <2>11, LaunchKeeps
<1> QED
  BY <1>1, <1>2

\* The order of service is a rank for every request.
LEMMA LastServicesTyped == LastServices \in [Requests -> Nat]
<1> DEFINE slot(r) == CHOOSE i \in DOMAIN items : items[i].request = r
           sequence == [r \in Requests |->
              IF r \in Protected
              THEN N + 1 + Cardinality({i \in DOMAIN items : Precedes(i, slot(r))})
              ELSE served[r]]
           services == {sequence[r] : r \in Requests} \ {0}
<1>1. LastServices = [r \in Requests |-> Cardinality({n \in services : n <= sequence[r]})]
  BY DEF LastServices
<1> HIDE DEF sequence
<1>2. IsFiniteSet(services)
  <2>1. IsFiniteSet(Requests)
    BY RequestsFinite
  <2> DEFINE values == {sequence[r] : r \in Requests}
  <2>2. DOMAIN sequence = Requests /\ sequence = [r \in Requests |-> sequence[r]]
    BY DEF sequence
  <2>3. sequence \in Surjection(Requests, values)
    BY <2>2 DEF Surjection
  <2>4. IsFiniteSet(values)
    <3> HIDE DEF values
    <3> QED
      BY <2>1, <2>3, FS_Surjection
  <2> QED
    BY <2>4, FS_Subset
<1> HIDE DEF services
<1>3. ASSUME NEW r \in Requests
      PROVE  Cardinality({n \in services : n <= sequence[r]}) \in Nat
  <2>1. IsFiniteSet({n \in services : n <= sequence[r]})
    BY <1>2, FS_Subset
  <2> QED
    BY <2>1, FS_CardinalityType
<1> QED
  BY <1>1, <1>3

LEMMA ExecuteKeeps ==
    ASSUME IInv, Execute
    PROVE  IInv'
<1> USE DEF IInv
<1> DEFINE chosen(r) == CHOOSE i \in ToSet(items) : i.request = r
<1> DEFINE after == [r \in Requests |-> IF r \in Protected THEN Committed(state[r], chosen(r))
                                                          ELSE state[r]]
<1>0. /\ state' = Aged(after, Protected)
      /\ used' = used + SumFunction([r \in Protected |-> after[r].pages - state[r].pages])
  BY Zenon DEF Execute
<1> HIDE DEF after
<1>1. PICK next : next = after
  OBVIOUS
<1>13. /\ state' = Aged(next, Protected)
       /\ used' = used + SumFunction([r \in Protected |-> next[r].pages - state[r].pages])
  BY <1>0, <1>1, Zenon
<1>14. next = [r \in Requests |-> IF r \in Protected THEN Committed(state[r], chosen(r))
                                                       ELSE state[r]]
  BY <1>1 DEF after
<1>2. /\ pc = "execute" /\ pc' = "round" /\ served' = LastServices
      /\ UNCHANGED <<input, arrived>> /\ load' = load
      /\ offloaded' = offloaded /\ admission' = admission
  BY DEF Execute, input
<1>3. ItemsOK
  BY <1>2 DEF CohortInv
<1>4. ASSUME NEW r \in Protected
      PROVE  /\ r \in Requests
             /\ chosen(r) \in Item /\ ItemOK(chosen(r)) /\ chosen(r).request = r
  <2>1. PICK i \in DOMAIN items : items[i].request = r
    BY DEF Protected
  <2>2. items[i] \in ToSet(items)
    BY <2>1 DEF ToSet
  <2>3. chosen(r) \in ToSet(items) /\ chosen(r).request = r
    BY <2>1, <2>2
  <2>4. PICK j \in DOMAIN items : chosen(r) = items[j]
    BY <2>3 DEF ToSet
  <2>5. items[j] \in Item /\ ItemOK(items[j])
    BY <1>3 DEF ItemsOK
  <2>6. chosen(r) \in Item /\ ItemOK(chosen(r))
    <3> HIDE DEF chosen
    <3> QED
      BY <2>4, <2>5
  <2>7. r \in Requests
    <3> HIDE DEF chosen
    <3> QED
      BY <2>3, <2>6 DEF Item
  <2> QED
    BY <2>3, <2>6, <2>7
<1>5. Protected \subseteq Requests
  BY <1>4
<1> HIDE DEF chosen
<1>6. ASSUME NEW r \in Requests
      PROVE  /\ next[r] \in RequestState /\ RecordOK(r, next[r])
             /\ next[r].pages \in Nat /\ next[r].pages <= state[r].pages
             /\ next[r].swapped = state[r].swapped
             /\ next[r].status = "rejected" => next[r] = state[r]
             /\ r \notin Protected => next[r] = state[r]
  <2>1. state[r] \in RequestState /\ RecordOK(r, state[r]) /\ state[r].pages \in Nat
    BY StateTyped DEF StateInv
  <2>2. CASE r \in Protected
    <3>1. next[r] = Committed(state[r], chosen(r))
      BY <1>14, <2>2
    <3>2. chosen(r) \in Item /\ ItemOK(chosen(r)) /\ chosen(r).request = r
      BY <1>4, <2>2
    <3>3. PICK item \in Item : item = chosen(r)
      BY <3>2
    <3>4. ItemOK(item) /\ state[item.request] = state[r] /\ next[r] = Committed(state[r], item)
      BY <3>1, <3>2, <3>3
    <3>5. /\ next[r] \in RequestState /\ RecordOK(item.request, next[r])
          /\ next[r].pages \in Nat /\ next[r].pages <= state[r].pages
          /\ next[r].swapped = 0 /\ state[r].swapped = 0
          /\ next[r].status \in {"running", "finished"}
      BY <3>4, CommittedOK
    <3> QED
      BY <2>2, <3>2, <3>3, <3>5
  <2>3. CASE r \notin Protected
    <3>1. next[r] = state[r]
      BY <1>14, <2>3
    <3> QED
      BY <2>1, <3>1
  <2> QED
    BY <2>2, <2>3
<1>7. next \in [Requests -> RequestState]
  <2>1. next = [r \in Requests |-> next[r]]
    BY <1>14
  <2> QED
    BY <1>6, <2>1
<1>8. /\ state' \in [Requests -> RequestState]
      /\ \A r \in Requests :
            /\ RecordOK(r, state'[r])
            /\ state'[r].pages = next[r].pages /\ state'[r].swapped = next[r].swapped
            /\ state'[r].status = next[r].status
  BY <1>6, <1>7, <1>13, AgedOK
<1>9. StateInv'
  BY <1>2, <1>8, StateFrame
<1>10. RejectedInv'
  BY <1>2, <1>6, <1>8 DEF RejectedInv, InStatus
<1>11. TypeInv'
  <2>1. served' \in [Requests -> Nat]
    BY <1>2, LastServicesTyped
  <2> QED
    BY <1>2, <2>1, TypeKept DEF TypeInv, Places
<1>12. LedgerInv'
  <2> DEFINE d == [r \in Protected |-> next[r].pages - state[r].pages]
  <2>1. PICK f : f = PagesHeld
    OBVIOUS
  <2>2. PICK g : g = PagesHeld'
    OBVIOUS
  <2>3. \A r \in Requests : /\ f[r] = state[r].pages /\ g[r] = next[r].pages
                            /\ f[r] \in Nat /\ g[r] \in Nat /\ g[r] <= f[r]
    BY <1>6, <1>8, <2>1, <2>2, StateTyped DEF PagesHeld
  <2>4. f \in [Requests -> Nat] /\ g \in [Requests -> Nat]
    <3>1. f = [r \in Requests |-> f[r]]
      BY <2>1 DEF PagesHeld
    <3>2. g = [r \in Requests |-> g[r]]
      BY <2>2 DEF PagesHeld
    <3> QED
      BY <2>3, <3>1, <3>2
  <2>5. IsFiniteSet(Requests)
    BY RequestsFinite
  <2>6. /\ \A r \in Requests : f[r] \in Int /\ g[r] \in Int
        /\ \A r \in Protected : d[r] = g[r] - f[r]
        /\ \A r \in Requests \ Protected : g[r] = f[r]
    BY <1>5, <1>6, <2>3
  <2>7. SumFunction(d) = SumFunctionOnSet(d, Protected)
    <3>1. DOMAIN d = Protected
      OBVIOUS
    <3> HIDE DEF d
    <3> QED
      BY <3>1, Zenon DEF SumFunction
  <2>8. used' = used + SumFunction(d)
    BY <1>13
  <2> HIDE DEF d
  <2>9. SumFunctionOnSet(g, Requests)
          = SumFunctionOnSet(f, Requests) + SumFunctionOnSet(d, Protected)
    BY <1>5, <2>5, <2>6, SumChange
  <2>10. SumFunctionOnSet(g, Requests) <= SumFunctionOnSet(f, Requests)
    BY <2>3, <2>5, <2>6, SumMonotone
  <2>11. /\ SumFunction(f) = SumFunctionOnSet(f, Requests)
         /\ SumFunction(g) = SumFunctionOnSet(g, Requests)
         /\ SumFunction(f) \in Nat /\ SumFunction(g) \in Nat
    BY <2>4, RequestSum
  <2>12. used = SumFunction(f) /\ used <= CapacityPages /\ CapacityPages \in Nat
    BY <2>1, LedgerTyped DEF LedgerInv
  <2>13. used' = SumFunction(g) /\ used' <= CapacityPages
    BY <2>7, <2>8, <2>9, <2>10, <2>11, <2>12
  <2>14. PagesSwapped' = PagesSwapped
    BY <1>6, <1>8 DEF PagesSwapped
  <2> QED
    BY <1>2, <2>2, <2>13, <2>14 DEF LedgerInv
<1> QED
  BY <1>2, <1>9, <1>10, <1>11, <1>12, IdleSteps DEF Idle

------------------------------------------------------------------------------
(* The theorems. *)

LEMMA InitIInv == Init => IInv
<1> SUFFICES ASSUME Init PROVE IInv
  OBVIOUS
<1>1. load \in Loads /\ plan \in Plans /\ pc = "round"
  BY DEF Init
<1>2. TypeInv
  <2>1. 0 \in 0 .. N
    BY ServingAssumption
  <2>2. arrived = 0 /\ admission = <<>> /\ served = [r \in Requests |-> 0]
    BY DEF Init
  <2> QED
    BY <1>1, <2>1, <2>2 DEF TypeInv, Places
<1>3. ASSUME NEW r \in Requests
      PROVE  /\ state[r] \in RequestState /\ RecordOK(r, state[r])
             /\ state[r].pages = 0 /\ state[r].swapped = 0
  <2>1. PICK status \in {"arrivals", "rejected"} :
           /\ state[r] = [NewState EXCEPT !.status = status]
           /\ status = "arrivals" => ~(Peak(r) > CapacityPages)
    BY DEF Init
  <2>2. /\ state[r] \in RequestState /\ state[r].status = status
        /\ state[r].prefill = 0 /\ state[r].committed = 0 /\ state[r].goal = 0
        /\ state[r].pages = 0 /\ state[r].swapped = 0
    BY <2>1 DEF NewState, RequestState, Statuses
  <2>3. Peak(r) \in Nat /\ CapacityPages \in Nat
    <3>1. load[r].prompt \in Nat /\ load[r].output \in Nat
      BY <1>2, LoadTyped
    <3>2. LiveTokens(load[r].prompt, load[r].output) \in Nat
      BY <3>1, LiveTokensNat
    <3> QED
      BY <3>2, PagesForEnough, ServingAssumption DEF Peak
  <2>4. HistoryHeld(state[r])
    <3>1. LiveTokens(state[r].prefill, state[r].committed) = 0
      <4>1. LiveTokens(0, 0) = 0
        BY LiveTokensNat
      <4> QED
        BY <2>2, <4>1
    <3>2. (state[r].pages + state[r].swapped) * PageTokens = 0
      <4>1. PageTokens \in Nat /\ state[r].pages + state[r].swapped = 0
        BY <2>2, ServingAssumption
      <4> QED
        BY <4>1
    <3>3. 0 .. 0 - 1 = {}
      OBVIOUS
    <3> QED
      BY <3>1, <3>2, <3>3 DEF HistoryHeld
  <2>5. load[r].prompt \in Nat /\ load[r].output \in Nat
    BY <1>2, LoadTyped
  <2>6. RecordOK(r, state[r])
    BY <2>1, <2>2, <2>3, <2>4, <2>5 DEF RecordOK
  <2> QED
    BY <2>2, <2>6
<1>4. StateInv
  <2>1. state \in [Requests -> RequestState]
    <3>1. state = [r \in Requests |-> state[r]]
      BY DEF Init
    <3> QED
      BY <1>3, <3>1
  <2> QED
    BY <1>3, <2>1 DEF StateInv
<1>5. RejectedInv
  BY <1>3 DEF RejectedInv, InStatus
<1>6. LedgerInv
  <2>1. ASSUME NEW f \in [Requests -> Nat], \A r \in Requests : f[r] = 0
        PROVE  SumFunction(f) = 0
    <3>1. IsFiniteSet(Requests)
      BY RequestsFinite
    <3>2. SumFunctionOnSet(f, Requests) = 0
      BY <2>1, <3>1, SumZero
    <3> QED
      BY <3>2, RequestSum
  <2>2. PagesHeld \in [Requests -> Nat] /\ \A r \in Requests : PagesHeld[r] = 0
    BY <1>3 DEF PagesHeld
  <2>3. PagesSwapped \in [Requests -> Nat] /\ \A r \in Requests : PagesSwapped[r] = 0
    BY <1>3 DEF PagesSwapped
  <2>4. SumFunction(PagesHeld) = 0 /\ SumFunction(PagesSwapped) = 0
    BY <2>1, <2>2, <2>3
  <2>5. used = 0 /\ offloaded = 0 /\ 0 <= CapacityPages /\ 0 <= OffloadPages
    BY ServingAssumption DEF Init
  <2> QED
    BY <2>4, <2>5 DEF LedgerInv
<1>7. CohortInv /\ AdmissionInv /\ ReserveInv
  BY <1>1 DEF CohortInv, AdmissionInv, ReserveInv, Asking
<1> QED
  BY <1>2, <1>4, <1>5, <1>6, <1>7 DEF IInv

LEMMA NextIInv == IInv /\ [Next]_vars => IInv'
<1> SUFFICES ASSUME IInv, [Next]_vars PROVE IInv'
  OBVIOUS
<1>1. CASE Arrive
  BY <1>1, ArriveKeeps
<1>2. CASE EndRun
  BY <1>2, EndRunKeeps
<1>3. CASE PriorityPreempt
  BY <1>3, PriorityPreemptKeeps
<1>4. CASE FillSlots
  BY <1>4, FillSlotsKeeps
<1>5. CASE EndFill
  BY <1>5, EndFillKeeps
<1>6. CASE ResumeSwapped
  BY <1>6, ResumeSwappedKeeps
<1>7. CASE ReserveAdmission
  BY <1>7, ReserveAdmissionKeeps
<1>8. CASE AdmitLazily
  BY <1>8, AdmitLazilyKeeps
<1>9. CASE Granted
  BY <1>9, GrantedKeeps
<1>10. CASE EvictVictim
  BY <1>10, EvictVictimKeeps
<1>11. CASE Denied
  BY <1>11, DeniedKeeps
<1>12. CASE SelectCohort
  BY <1>12, SelectCohortKeeps
<1>13. CASE ReserveItem
  BY <1>13, ReserveItemKeeps
<1>14. CASE EndPhase
  BY <1>14, EndPhaseKeeps
<1>15. CASE Execute
  BY <1>15, ExecuteKeeps
<1>16. CASE WakeUp
  BY <1>16, WakeUpKeeps
<1>17. CASE Stall
  BY <1>17, StallKeeps
<1>18. CASE PassOver
  BY <1>18, PassOverKeeps
<1>19. CASE GiveUp
  BY <1>19, GiveUpKeeps
<1>20. CASE UNCHANGED vars
  <2>1. /\ load' = load /\ plan' = plan /\ state' = state /\ used' = used
        /\ offloaded' = offloaded /\ arrived' = arrived
        /\ admission' = admission /\ served' = served /\ pc' = pc
        /\ queue' = queue /\ owner' = owner /\ target' = target /\ victims' = victims
        /\ asker' = asker /\ agenda' = agenda /\ items' = items
    BY <1>20 DEF vars, input, ledger, orders, boundary, control
  <2>2. TypeInv'
    BY <2>1 DEF IInv, TypeInv
  <2>3. StateInv'
    BY <2>1 DEF IInv, StateInv, RecordOK, HistoryHeld, Peak
  <2>4. RejectedInv'
    BY <2>1 DEF IInv, RejectedInv, InStatus
  <2>5. LedgerInv'
    BY <2>1 DEF IInv, LedgerInv, PagesHeld, PagesSwapped
  <2>6. /\ Running' = Running /\ Queued' = Queued /\ Unfinished' = Unfinished
        /\ Protected' = Protected /\ Phase' = Phase
    BY <2>1 DEF Running, Queued, Unfinished, InStatus, Protected, Phase
  <2>7. CohortInv'
    <3>1. ItemsOK => ItemsOK'
      BY <2>1, ItemsFrame
    <3>2. ASSUME Asking("build") PROVE \A r \in queue' \cap Running' : InPhase(r, Phase)'
      <4>1. /\ agenda \in Seq(Seq(Phases) \ {<<>>}) /\ agenda # <<>>
            /\ queue \subseteq Requests /\ \A r \in queue \cap Running : InPhase(r, Phase)
        BY <3>2 DEF IInv, CohortInv
      <4> QED
        BY <2>1, <4>1, PhaseTyped, QueueFrame
    <3>3. Asking("build")' => Asking("build")
      BY <2>1 DEF Asking
    <3> QED
      BY <2>1, <3>1, <3>2, <3>3 DEF IInv, CohortInv
  <2>8. AdmissionInv'
    BY <2>1, <2>6 DEF IInv, AdmissionInv, Asking
  <2>9. ReserveInv'
    <3>1. ASSUME pc = "reserve", asker = "build"
          PROVE  /\ InPhase(owner, Phase)' /\ Room' /\ ItemPages(owner, Phase)' <= target'
      <4>1. /\ owner \in Requests /\ InPhase(owner, Phase) /\ Room
            /\ ItemPages(owner, Phase) <= target
        BY <3>1 DEF IInv, ReserveInv
      <4>2. PICK r \in Requests : r = owner
        BY <4>1
      <4>3. PICK phase \in Phases : phase = Phase
        BY <3>1, PhaseTyped DEF IInv, CohortInv, Asking
      <4>4. /\ InPhase(r, phase)' <=> InPhase(r, phase)
            /\ ItemPages(r, phase)' = ItemPages(r, phase) /\ (Room' <=> Room)
        BY <2>1, NeedFrame, DemandFrame
      <4>5. Phase' = phase /\ owner' = r
        BY <2>1, <2>6, <4>2, <4>3
      <4>6. InPhase(r, phase) /\ ItemPages(r, phase) <= target
        BY <4>1, <4>2, <4>3
      <4> QED
        BY <2>1, <4>1, <4>4, <4>5, <4>6
    <3>2. Cached(owner)' = Cached(owner)
      BY <2>1 DEF Cached
    <3> QED
      BY <2>1, <2>6, <3>1, <3>2 DEF IInv, ReserveInv
  <2> QED
    BY <2>2, <2>3, <2>4, <2>5, <2>7, <2>8, <2>9 DEF IInv
<1> QED
  BY <1>1, <1>2, <1>3, <1>4, <1>5, <1>6, <1>7, <1>8, <1>9, <1>10, <1>11, <1>12, <1>13, <1>14,
     <1>15, <1>16, <1>17, <1>18, <1>19, <1>20 DEF Next

\* The invariant of the scheduler: requests, ledger, cohort and the loops that
\* admit, recover and reserve are in order at every step.
THEOREM ServingInvariant == Spec => []IInv
<1>1. Init => IInv
  BY InitIInv
<1>2. IInv /\ [Next]_vars => IInv'
  BY NextIInv
<1> QED
  BY <1>1, <1>2, PTL DEF Spec

\* The page ledger is exact: used pages are those of the requests, offloaded ones
\* those swapped out, and neither exceeds its capacity, whatever was preempted,
\* resumed, resized or finished.
THEOREM ServingLedgerExact == Spec => []LedgerInv
<1>1. IInv => LedgerInv
  BY DEF IInv
<1> QED
  BY <1>1, ServingInvariant, PTL

\* Pages belong to running requests and swapped pages to swapped ones; a request
\* that finished has all its tokens.
THEOREM ServingPagesFollowStatus == Spec => []PagesFollowStatus
<1>1. IInv => PagesFollowStatus
  <2> SUFFICES ASSUME IInv, NEW r \in Requests
               PROVE  /\ state[r].pages > 0 => state[r].status \in {"running", "rejected"}
                      /\ state[r].swapped > 0 => state[r].status \in {"swapped", "rejected"}
                      /\ state[r].status = "finished" =>
                           /\ state[r].committed = load[r].output
                           /\ state[r].prefill = load[r].prompt
    BY DEF PagesFollowStatus
  <2>1. RecordOK(r, state[r])
    BY DEF IInv, StateInv
  <2> QED
    BY <2>1 DEF RecordOK
<1> QED
  BY <1>1, ServingInvariant, PTL

\* A cohort about to execute is funded: every item's request is running, has the
\* context the item was made for and the pages it writes.
THEOREM ServingCohortFunded == Spec => []CohortFunded
<1>1. IInv => CohortFunded
  <2> SUFFICES ASSUME IInv, pc = "execute" PROVE CohortFunded
    BY DEF CohortFunded
  <2>1. ItemsOK
    BY DEF IInv, CohortInv
  <2>2. ASSUME NEW i \in DOMAIN items
        PROVE  LET item == items[i]
                   writes == IF item.phase = "decode" /\ state[item.request].committed = 0
                             THEN 0 ELSE item.tokens
               IN /\ state[item.request].status = "running"
                  /\ item.context = Context(item.request, item.phase)
                  /\ state[item.request].pages * PageTokens >= item.context + writes
    <3>1. items[i] \in Item /\ ItemOK(items[i])
      BY <2>1 DEF ItemsOK
    <3>2. PICK item \in Item : item = items[i]
      BY <3>1
    <3>3. PICK r \in Requests : r = item.request
      BY DEF Item
    <3>4. /\ state[r].status = "running" /\ item.context = Context(r, item.phase)
          /\ InPhase(r, item.phase) /\ item.tokens \in 1 .. Remaining(r, item.phase)
          /\ Needs(item) <= state[r].pages * PageTokens
      BY <3>1, <3>2, <3>3 DEF ItemOK, Running, InStatus
    <3>5. /\ state[r].prefill \in Nat /\ state[r].committed \in Nat
          /\ load[r].output \in Nat /\ item.tokens \in Nat /\ item.context \in Nat
      BY StateTyped, LoadTyped DEF IInv, Item
    <3> DEFINE writes == IF item.phase = "decode" /\ state[r].committed = 0
                         THEN 0 ELSE item.tokens
    <3>6. item.context + writes <= Needs(item)
      <4>1. CASE item.phase = "decode"
        <5>1. Remaining(r, item.phase) = Min({1, load[r].output - state[r].committed})
          BY <4>1 DEF Remaining
        <5>2. state[r].committed < load[r].output
          BY <3>4, <4>1 DEF InPhase
        <5>3. Min({1, load[r].output - state[r].committed}) = 1
          BY <3>5, <5>2, MinOfTwo
        <5>4. item.tokens = 1
          BY <3>4, <5>1, <5>3
        <5>5. item.context = LiveTokens(state[r].prefill, state[r].committed)
          BY <3>4, <4>1 DEF Context, Cached
        <5>6. Needs(item) = LiveTokens(state[r].prefill, state[r].committed + 1)
          BY <3>3, <4>1 DEF Needs
        <5>7. Needs(item) = state[r].prefill + state[r].committed
          BY <3>5, <5>6, LiveTokensNat
        <5>8. item.context = state[r].prefill
                               + (IF state[r].committed = 0 THEN 0 ELSE state[r].committed - 1)
          <6>1. state[r].prefill \in Nat /\ state[r].committed \in Nat
            BY <3>5
          <6>2. LiveTokens(state[r].prefill, state[r].committed)
                  = state[r].prefill
                      + (IF state[r].committed = 0 THEN 0 ELSE state[r].committed - 1)
            BY <6>1, LiveTokensNat, Zenon
          <6> QED
            BY <5>5, <6>2, Zenon
        <5> QED
          BY <3>5, <4>1, <5>4, <5>7, <5>8
      <4>2. CASE item.phase # "decode"
        <5>1. Needs(item) = item.context + item.tokens /\ writes = item.tokens
          BY <4>2 DEF Needs
        <5> QED
          BY <3>5, <5>1
      <4> QED
        BY <4>1, <4>2
    <3>7. /\ Needs(item) \in Int /\ item.context + writes \in Int
          /\ state[r].pages * PageTokens \in Int
      <4>1. Needs(item) \in Int
        <5>1. state[r].committed + 1 \in Nat
          BY <3>5
        <5>2. LiveTokens(state[r].prefill, state[r].committed + 1) \in Int
          <6>1. LiveTokens(state[r].prefill, state[r].committed + 1) \in Nat
            BY <3>5, <5>1, LiveTokensNat, Zenon
          <6> QED
            BY <6>1
        <5> QED
          BY <3>3, <3>5, <5>2 DEF Needs
      <4>2. item.context + writes \in Int
        BY <3>5
      <4>3. state[r].pages \in Nat /\ PageTokens \in Nat
        BY StateTyped, ServingAssumption DEF IInv
      <4>4. state[r].pages * PageTokens \in Int
        BY <4>3
      <4> QED
        BY <4>1, <4>2, <4>4
    <3>8. state[r].pages * PageTokens >= item.context + writes
      <4> HIDE DEF writes
      <4> QED
        BY <3>4, <3>6, <3>7
    <3> QED
      BY <3>2, <3>3, <3>4, <3>8
  <2> QED
    BY <2>1, <2>2 DEF CohortFunded, ItemsOK
<1> QED
  BY <1>1, ServingInvariant, PTL

\* Attention reads K/V that is there: a request never told to recompute has all
\* the history its item reads, through any number of swaps.
THEOREM ServingSwapKeepsHistory == Spec => []SwapKeepsHistory
<1>1. IInv => SwapKeepsHistory
  <2> SUFFICES ASSUME IInv, pc = "execute", NEW i \in DOMAIN items,
                      state[items[i].request].goal = 0
               PROVE  HistoryOf(items[i])
    BY DEF SwapKeepsHistory
  <2>1. ItemsOK
    BY DEF IInv, CohortInv
  <2>2. items[i] \in Item /\ ItemOK(items[i])
    BY <2>1 DEF ItemsOK
  <2>3. PICK item \in Item : item = items[i]
    BY <2>2
  <2>4. PICK r \in Requests : r = item.request
    BY DEF Item
  <2>5. /\ state[r].status = "running" /\ item.context = Context(r, item.phase)
        /\ InPhase(r, item.phase) /\ item.phase \in Phases /\ state[r].goal = 0
    BY <2>2, <2>3, <2>4 DEF ItemOK, Running, InStatus, Item
  <2>6. RecordOK(r, state[r]) /\ state[r].prefill \in Nat /\ state[r].cursor \in Nat
    BY StateTyped DEF IInv, StateInv
  <2>7. 0 .. Cached(r) - 1 \subseteq state[r].kv
    BY <2>5, <2>6 DEF RecordOK, HistoryHeld, Alive, Cached
  <2>8. item.context = Cached(r)
    <3>1. CASE item.phase = "decode"
      BY <2>5, <3>1 DEF Context
    <3>2. CASE item.phase = "prefill"
      <4>1. state[r].prefill < load[r].prompt /\ item.context = state[r].prefill
        BY <2>5, <3>2 DEF InPhase, Context
      <4>2. state[r].committed = 0
        BY <2>6, <4>1 DEF RecordOK
      <4>3. Cached(r) = LiveTokens(state[r].prefill, 0)
        BY <4>2 DEF Cached
      <4>4. LiveTokens(state[r].prefill, 0) = state[r].prefill + 0
        <5>1. state[r].prefill \in Nat /\ 0 \in Nat
          BY <2>6
        <5> QED
          BY <5>1, LiveTokensNat
      <4> QED
        BY <2>6, <4>1, <4>3, <4>4
    <3>3. CASE item.phase = "recompute"
      BY <2>5, <2>6, <3>3 DEF InPhase
    <3> QED
      BY <2>5, <3>1, <3>2, <3>3 DEF Phases
  <2>9. 0 .. item.context - 1 \subseteq state[r].kv
    BY <2>7, <2>8, Zenon
  <2> QED
    BY <2>3, <2>4, <2>9, Zenon DEF HistoryOf
<1> QED
  BY <1>1, ServingInvariant, PTL

\* Stall recovery never gives up on a lone swapped request: with every other page
\* free, what it was swapped out with, or its peak, fits.
THEOREM ServingLoneSwappedResumes == Spec => LoneSwappedResumes
<1>1. IInv /\ [Next]_vars =>
        [GiveUp => ~\E r \in Requests : Unfinished = {r} /\ state[r].status = "swapped"]_vars
  <2> SUFFICES ASSUME IInv, GiveUp, NEW r \in Requests, Unfinished = {r},
                      state[r].status = "swapped"
               PROVE  FALSE
    OBVIOUS
  <2>1. pc = "recover" /\ queue = {}
    BY DEF GiveUp
  <2> QED
    BY <2>1 DEF IInv, AdmissionInv
<1> QED
  BY <1>1, ServingInvariant, PTL DEF Spec, LoneSwappedResumes
==============================================================================
