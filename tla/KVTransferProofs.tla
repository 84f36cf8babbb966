-------------------------- MODULE KVTransferProofs ---------------------------
(***************************************************************************)
(* For any requests, pages, capacities and number of phases, and however   *)
(* often snapshots are restored: a callback of a discarded future is       *)
(* refused; pool, executor and allocators agree on where the pages are and *)
(* on what is allocated; and a page keeps its content wherever it goes.    *)
(***************************************************************************)
EXTENDS KVTransfer, CollectionTheorems

------------------------------------------------------------------------------
(* The inductive invariant about callbacks. *)

CallbackFields == {"plan", "page", "target", "gen", "phase", "steps", "token", "data"}

\* No two callbacks have the same token, and none a token still to be given.
TokensUnique ==
  /\ nextToken \in Nat
  /\ \A c \in issued : /\ DOMAIN c = CallbackFields
                       /\ c.token \in Nat /\ c.token < nextToken
  /\ \A c, d \in issued : c.token = d.token => c = d

\* On a timeline, the state of a live plan is the one its last callback expects.
Consistent(ps, cur, held) ==
  /\ DOMAIN ps = DOMAIN cur
  /\ \A i \in DOMAIN ps : /\ cur[i] \in issued
                          /\ cur[i].plan = i
                          /\ cur[i].token = ps[i].token
  /\ held \in Seq(issued)

Guarded == {"publish", "discard", "offload", "restore", "cohort"}
SavedConsistent ==
  mode \in Guarded => Consistent(saved.plans, saved.current, saved.batch)

\* A plan closed in this epoch has ended on this timeline.
ClosedEnded ==
  /\ epoch \in Nat
  /\ \A i \in DOMAIN closed : /\ closed[i] \in Nat /\ closed[i] <= epoch
                              /\ closed[i] = epoch => i \in ended

TimelineInv ==
  /\ TokensUnique
  /\ Consistent(plans, current, batch)
  /\ SavedConsistent
  /\ ClosedEnded

------------------------------------------------------------------------------
(* Facts the actions share. *)

\* Removing an element of a sequence leaves a sequence of the same set.
LEMMA RemoveAtSeq ==
  ASSUME NEW S, NEW s \in Seq(S), NEW i \in 1 .. Len(s)
  PROVE  RemoveAt(s, i) \in Seq(S)
<1>1. SubSeq(s, 1, i - 1) \in Seq(S)
  BY SubSeqProperties, LenProperties
<1>2. SubSeq(s, i + 1, Len(s)) \in Seq(S)
  BY SubSeqProperties, LenProperties
<1> QED
  BY <1>1, <1>2, ConcatProperties DEF RemoveAt

\* The elements of a non-empty sequence, and what is left of it without the first.
LEMMA SeqParts ==
  ASSUME NEW S, NEW s \in Seq(S), s # <<>>
  PROVE  /\ Len(s) \in 1 .. Len(s) /\ 1 \in 1 .. Len(s)
         /\ s[Len(s)] \in S /\ s[1] \in S
BY EmptySeq, LenProperties, ElementOfSeq

\* What is consistent stays so when callbacks are added.
LEMMA ConsistentMonotone ==
  ASSUME NEW ps, NEW cur, NEW held, Consistent(ps, cur, held), issued \subseteq issued'
  PROVE  /\ DOMAIN ps = DOMAIN cur
         /\ \A i \in DOMAIN ps : /\ cur[i] \in issued'
                                 /\ cur[i].plan = i
                                 /\ cur[i].token = ps[i].token
         /\ held \in Seq(issued')
BY DEF Consistent

\* A snapshot taken in a consistent state is consistent.
LEMMA SnapshotFields ==
  /\ Snapshot.plans = plans
  /\ Snapshot.current = current
  /\ Snapshot.batch = batch
BY DEF Snapshot

\* Steps that change no callback, no plan and no snapshot.
LEMMA QuietStep ==
  ASSUME TimelineInv,
         UNCHANGED <<issued, nextToken, plans, current, epoch, closed, ended>>,
         batch' \in Seq(issued),
         mode' \in Guarded => UNCHANGED <<mode, saved>> \/ saved' = Snapshot
  PROVE  TimelineInv'
<1>1. TokensUnique'
  BY DEF TimelineInv, TokensUnique
<1>2. Consistent(plans, current, batch)'
  BY DEF TimelineInv, Consistent
<1>3. SavedConsistent'
  BY SnapshotFields DEF TimelineInv, SavedConsistent, Consistent
<1>4. ClosedEnded'
  BY DEF TimelineInv, ClosedEnded
<1> QED
  BY <1>1, <1>2, <1>3, <1>4 DEF TimelineInv

\* Finishing a plan.
LEMMA FinishStep ==
  ASSUME TimelineInv, NEW c, Finish(c),
         UNCHANGED <<issued, nextToken, epoch, mode, saved>>,
         batch' \in Seq(issued)
  PROVE  TimelineInv'
<1>1. TokensUnique'
  BY DEF TimelineInv, TokensUnique
<1>2. Consistent(plans, current, batch)'
  BY DEF TimelineInv, Consistent, Finish, Without
<1>3. SavedConsistent'
  BY DEF TimelineInv, SavedConsistent, Consistent
<1>4. ClosedEnded'
  BY DEF TimelineInv, ClosedEnded, Finish, With
<1> QED
  BY <1>1, <1>2, <1>3, <1>4 DEF TimelineInv

\* Making a callback with the next token.
LEMMA IssueTokens ==
  ASSUME TokensUnique, NEW c, DOMAIN c = CallbackFields, c.token = nextToken,
         issued' = issued \cup {c}, nextToken' = nextToken + 1
  PROVE  TokensUnique'
BY DEF TokensUnique

\* A plan begins or goes on with the callback c it has made.
LEMMA IssueStep ==
  ASSUME TimelineInv, NEW c, DOMAIN c = CallbackFields, c.token = nextToken,
         Issue(c), nextToken' = nextToken + 1,
         DOMAIN plans' = DOMAIN plans \cup {c.plan},
         plans'[c.plan].token = c.token,
         \A i \in DOMAIN plans \ {c.plan} : plans'[i] = plans[i],
         UNCHANGED <<ended, epoch, closed, mode, saved>>,
         batch' \in Seq(issued')
  PROVE  TimelineInv'
<1>1. TokensUnique'
  BY IssueTokens DEF TimelineInv, Issue
<1>2. Consistent(plans, current, batch)'
  BY DEF TimelineInv, Consistent, Issue, With
<1>3. SavedConsistent'
  <2>1. issued \subseteq issued'
    BY DEF Issue
  <2> QED
    BY <2>1, ConsistentMonotone DEF TimelineInv, SavedConsistent, Consistent
<1>4. ClosedEnded'
  BY DEF TimelineInv, ClosedEnded
<1> QED
  BY <1>1, <1>2, <1>3, <1>4 DEF TimelineInv

------------------------------------------------------------------------------
(* The actions. *)

LEMMA PrepareKeeps ==
  ASSUME TimelineInv, PreparePage
  PROVE  TimelineInv'
<1> DEFINE p == todo[1]
           flushed == Flushed(Buffer(p))
           c == CallbackFor(p, "hbm", Steps, flushed.media[Buffer(p)])
<1>1. DOMAIN c = CallbackFields /\ c.token = nextToken /\ c.plan = nextPlan
  BY DEF CallbackFor, CallbackFields
<1>2. /\ NewPlan(c) /\ batch' = Append(batch, c)
      /\ UNCHANGED <<mode, saved>>
  BY DEF PreparePage
<1>3. Issue(c) /\ plans' = With(plans, nextPlan, [phase |-> 0, token |-> nextToken])
      /\ nextToken' = nextToken + 1 /\ UNCHANGED <<ended, epoch, closed>>
  BY <1>2 DEF NewPlan
<1>4. issued' = issued \cup {c}
  BY <1>3 DEF Issue
<1>5. batch' \in Seq(issued')
  BY <1>2, <1>4, AppendProperties DEF TimelineInv, Consistent
<1>6. /\ DOMAIN plans' = DOMAIN plans \cup {c.plan}
      /\ plans'[c.plan].token = c.token
      /\ \A i \in DOMAIN plans \ {c.plan} : plans'[i] = plans[i]
  BY <1>1, <1>3 DEF With
<1> HIDE DEF c
<1> QED
  BY <1>1, <1>2, <1>3, <1>5, <1>6, IssueStep

LEMMA AdvanceKeeps ==
  ASSUME TimelineInv, NEW i \in DOMAIN batch, Advance(i)
  PROVE  TimelineInv'
<1> DEFINE c == [batch[i] EXCEPT !.phase = @ + 1, !.token = nextToken]
<1>1. batch \in Seq(issued) /\ batch[i] \in issued /\ i \in 1 .. Len(batch)
  BY LenProperties, ElementOfSeq DEF TimelineInv, Consistent
<1>2. DOMAIN batch[i] = CallbackFields
  BY <1>1 DEF TimelineInv, TokensUnique
<1>3. DOMAIN c = CallbackFields /\ c.token = nextToken /\ c.plan = batch[i].plan
  BY <1>2 DEF CallbackFields
<1>4. /\ Issue(c)
      /\ plans' = [plans EXCEPT ![c.plan] = [phase |-> c.phase, token |-> nextToken]]
      /\ batch' = [batch EXCEPT ![i] = c]
      /\ nextToken' = nextToken + 1
      /\ UNCHANGED <<ended, epoch, closed, mode, saved>>
  BY DEF Advance, loopState
<1>5. c.plan \in DOMAIN plans
  BY <1>3 DEF Advance, MayAdvance, IsLive
<1>6. issued' = issued \cup {c}
  BY <1>4 DEF Issue
<1>7. batch \in Seq(issued')
  BY <1>1, <1>6
<1>8. batch' \in Seq(issued')
  BY <1>1, <1>4, <1>6, <1>7, ExceptSeq
<1>9. /\ DOMAIN plans' = DOMAIN plans \cup {c.plan}
      /\ plans'[c.plan].token = c.token
      /\ \A j \in DOMAIN plans \ {c.plan} : plans'[j] = plans[j]
  BY <1>3, <1>4, <1>5
<1> HIDE DEF c
<1> QED
  BY <1>3, <1>4, <1>8, <1>9, IssueStep

LEMMA MoveKeeps ==
  ASSUME TimelineInv, MovePage
  PROVE  TimelineInv'
<1> DEFINE p == todo[1]
           flushed == Flushed(Buffer(p))
           c == CallbackFor(p, Target, 0, flushed.media[Buffer(p)])
<1>1. DOMAIN c = CallbackFields /\ c.token = nextToken
  BY DEF CallbackFor, CallbackFields
<1>2. /\ issued' = issued \cup {c} /\ nextToken' = nextToken + 1
      /\ closed' = With(closed, c.plan, epoch) /\ ended' = ended \cup {c.plan}
      /\ UNCHANGED <<plans, current, batch, epoch, mode, saved>>
  BY DEF MovePage
<1> HIDE DEF c
<1>3. TokensUnique'
  BY <1>1, <1>2, IssueTokens DEF TimelineInv
<1>4. Consistent(plans, current, batch)' /\ SavedConsistent'
  BY <1>2, ConsistentMonotone DEF TimelineInv, SavedConsistent, Consistent
<1>5. ClosedEnded'
  BY <1>2 DEF TimelineInv, ClosedEnded, With
<1> QED
  BY <1>3, <1>4, <1>5 DEF TimelineInv

LEMMA RestoreKeeps ==
  ASSUME TimelineInv, Restore
  PROVE  TimelineInv'
<1>1. mode \in Guarded /\ mode' = "boundary"
  BY DEF Restore, Guarded
<1>2. TokensUnique'
  BY DEF TimelineInv, TokensUnique, Restore
<1>3. Consistent(plans, current, batch)'
  BY <1>1 DEF TimelineInv, SavedConsistent, Consistent, Restore
<1>4. SavedConsistent'
  BY <1>1 DEF SavedConsistent, Guarded
<1>5. ClosedEnded'
  BY DEF TimelineInv, ClosedEnded, Restore
<1> QED
  BY <1>2, <1>3, <1>4, <1>5 DEF TimelineInv

\* The steps that finish the plan of a callback.
LEMMA FinishingKeeps ==
  ASSUME TimelineInv, AbortLast \/ PublishPage \/ DiscardPage
  PROVE  TimelineInv'
<1>1. batch \in Seq(issued)
  BY DEF TimelineInv, Consistent
<1>2. CASE AbortLast
  <2>1. batch # <<>> /\ batch' = RemoveAt(batch, Len(batch))
    BY <1>2 DEF AbortLast, Abort
  <2>2. batch' \in Seq(issued)
    BY <1>1, <2>1, SeqParts, RemoveAtSeq
  <2> QED
    BY <1>2, <2>2, FinishStep DEF AbortLast, Abort
<1>3. CASE PublishPage
  BY <1>1, <1>3, FinishStep DEF PublishPage
<1>4. CASE DiscardPage
  BY <1>1, <1>4, FinishStep DEF DiscardPage
<1> QED
  BY <1>2, <1>3, <1>4

\* The steps that change neither a callback nor a plan.
LEMMA QuietKeeps ==
  ASSUME TimelineInv,
         \/ \E c \in Range(batch) : PhaseEnds(c)
         \/ \E r \in Requests : StartPrefetch(r) \/ StartMoves(r) \/ Access(r)
                                \/ Grow(r) \/ Release(r)
         \/ EndPrepare \/ StartPublish \/ EndPublish \/ StartDiscard \/ EndDiscard
         \/ EndMoves \/ FinishCohort \/ PrepareFails \/ CancelPrefetch \/ StartCohort
  PROVE  TimelineInv'
<1> USE DEF restorable, counters, loopState
<1>1. batch \in Seq(issued) /\ <<>> \in Seq(issued)
  BY DEF TimelineInv, Consistent
<1>2. CASE \E c \in Range(batch) : PhaseEnds(c)
  BY <1>1, <1>2, QuietStep DEF PhaseEnds
<1>3. CASE \E r \in Requests : StartPrefetch(r)
  BY <1>1, <1>3, QuietStep DEF StartPrefetch, Guarded
<1>4. CASE \E r \in Requests : StartMoves(r)
  BY <1>1, <1>4, QuietStep DEF StartMoves, Begin
<1>5. CASE \E r \in Requests : Access(r)
  BY <1>1, <1>5, QuietStep DEF Access
<1>6. CASE \E r \in Requests : Grow(r)
  BY <1>1, <1>6, QuietStep DEF Grow
<1>7. CASE \E r \in Requests : Release(r)
  BY <1>1, <1>7, QuietStep DEF Release
<1>8. CASE EndPrepare \/ EndPublish \/ EndDiscard \/ EndMoves \/ FinishCohort \/ PrepareFails
  BY <1>1, <1>8, QuietStep
     DEF EndPrepare, EndPublish, EndDiscard, EndMoves, FinishCohort, PrepareFails, Guarded
<1>9. CASE StartPublish \/ StartDiscard \/ StartCohort
  BY <1>1, <1>9, QuietStep DEF StartPublish, StartDiscard, StartCohort, Begin
<1>10. CASE CancelPrefetch
  BY <1>1, <1>10, QuietStep DEF CancelPrefetch
<1> QED
  BY <1>2, <1>3, <1>4, <1>5, <1>6, <1>7, <1>8, <1>9, <1>10

LEMMA TimelineInit ==
  ASSUME Init
  PROVE  TimelineInv
BY DEF Init, TimelineInv, TokensUnique, Consistent, SavedConsistent, ClosedEnded, Guarded

LEMMA TimelineNext ==
  ASSUME TimelineInv, [Next]_vars
  PROVE  TimelineInv'
<1>1. CASE UNCHANGED vars
  <2>1. /\ UNCHANGED <<issued, nextToken, plans, current, epoch, closed, ended>>
        /\ UNCHANGED <<batch, mode, saved>>
    BY <1>1 DEF vars, restorable, counters, loopState
  <2> QED
    BY <2>1, QuietStep DEF TimelineInv, Consistent
<1>2. CASE Next
  BY <1>2, PrepareKeeps, AdvanceKeeps, MoveKeeps, RestoreKeeps, FinishingKeeps, QuietKeeps
     DEF Next, InFlight, Finishing
<1> QED
  BY <1>1, <1>2

------------------------------------------------------------------------------
(* The theorems. *)

\* The tokens, plans and snapshots of the executor stay consistent.
THEOREM TransferInvariant == Spec => []TimelineInv
<1>1. Init => TimelineInv
  BY TimelineInit
<1>2. TimelineInv /\ [Next]_vars => TimelineInv'
  BY TimelineNext
<1> QED
  BY <1>1, <1>2, PTL DEF Spec

\* A callback acts only if it is the last one its plan made on this timeline: the
\* tokens of advance(), cancel(), commit() and rollback() and the restore epoch of
\* finished plans are enough, whatever is restored.
THEOREM StaleCallbacksRefused == Spec => []OnlyThisTimeline
<1>1. TimelineInv => OnlyThisTimeline
  <2> SUFFICES ASSUME TimelineInv, NEW c \in issued
               PROVE  /\ MayAdvance(c) \/ MayCancel(c) \/ MayCommit(c) \/ MayRollBack(c) =>
                           c.plan \in DOMAIN current /\ current[c.plan] = c
                      /\ MayRepeat(c) => c.plan \in ended
    BY DEF OnlyThisTimeline
  <2>1. ASSUME IsLive(c), TokenCurrent(c)
        PROVE  c.plan \in DOMAIN current /\ current[c.plan] = c
    BY <2>1 DEF TimelineInv, Consistent, TokensUnique, IsLive, TokenCurrent
  <2>2. ASSUME MayRepeat(c) PROVE c.plan \in ended
    BY <2>2 DEF TimelineInv, ClosedEnded, MayRepeat
  <2> QED
    BY <2>1, <2>2 DEF MayAdvance, MayCancel, MayCommit, MayRollBack
<1> QED
  BY <1>1, TransferInvariant, PTL
------------------------------------------------------------------------------
(* What a timeline satisfies: P and B are what the pool and the executor say *)
(* of the pages, M and C the allocators and the caches, X the last contents, *)
(* ps and cur the plans in flight and their last callbacks.                  *)

TierNames == Tiers \cup {"none", "gone"}
Line == [buffer : Pages \X Tiers \X Nat, value : Nat, dirty : BOOLEAN]

BoundIn(B) == {p \in Pages : B[p].tier \in Tiers}
BufferIn(B, p) == <<p, B[p].tier, B[p].gen>>

\* The pool and the executor agree, and a page never written has its first buffer to come.
Placed(P, B) ==
  /\ P \in [Pages -> [tier : TierNames, gen : Nat, pending : BOOLEAN]]
  /\ B \in [Pages -> [tier : TierNames, gen : Nat]]
  /\ \A p \in Pages : /\ B[p].tier = P[p].tier /\ B[p].gen = P[p].gen
                      /\ B[p].tier = "none" => B[p].gen = 0

\* A plan in flight copies the last content of a page of its own, which is swapped out.
InTransfer(P, B, X, ps, cur, i) ==
  /\ cur[i].plan = i /\ cur[i].page \in Pages
  /\ cur[i].target = "hbm" /\ cur[i].gen = B[cur[i].page].gen + 1
  /\ B[cur[i].page].tier = "hbf" /\ P[cur[i].page].pending
  /\ cur[i].phase = ps[i].phase /\ cur[i].phase \in Nat /\ cur[i].steps = Steps
  /\ cur[i].data = X[cur[i].page]
Transfers(P, B, X, ps, cur) ==
  /\ DOMAIN ps = DOMAIN cur
  /\ \A i \in DOMAIN ps : InTransfer(P, B, X, ps, cur, i)
  /\ \A i, j \in DOMAIN ps : cur[i].page = cur[j].page => i = j
  /\ \A p \in Pages : P[p].pending => \E i \in DOMAIN ps : cur[i].page = p

\* What is allocated, and what is in the targets that were written.
TransferBuffers(cur, I) == UNION {{TargetOf(cur[i]), RelayOf(cur[i])} : i \in I}
BuffersOf(held, n) == UNION {{TargetOf(held[m]), RelayOf(held[m])} : m \in 1 .. n}
Allocated(B, M, ps, cur) ==
  /\ DOMAIN M = {BufferIn(B, p) : p \in BoundIn(B)} \cup TransferBuffers(cur, DOMAIN ps)
  /\ \A i \in DOMAIN ps : cur[i].phase = cur[i].steps => M[TargetOf(cur[i])] = cur[i].data

\* The caches hold lines of pages, with their last content, and a page whose buffer has
\* an older one has a dirty line.
Coherent(B, M, C, X) ==
  /\ X \in [Pages -> Nat] /\ C \in Seq(Line)
  /\ \A l \in Range(C) : \E p \in BoundIn(B) : l.buffer = BufferIn(B, p)
  /\ \A p \in BoundIn(B) :
       /\ \A l \in Range(C) : l.buffer = BufferIn(B, p) => l.value = X[p]
       /\ M[BufferIn(B, p)] = X[p] \/ \E l \in Range(C) : IsDirty(BufferIn(B, p), l)

\* The loop holds the last callback of every plan in flight, once.
Holds(held, ps, cur) ==
  /\ held \in Seq({cur[i] : i \in DOMAIN ps})
  /\ \A m, n \in DOMAIN held : held[m].plan = held[n].plan => m = n
  /\ \A i \in DOMAIN ps : \E n \in DOMAIN held : held[n].plan = i

Sound(P, B, M, C, X, ps, cur, held) ==
  /\ Placed(P, B) /\ Transfers(P, B, X, ps, cur) /\ Allocated(B, M, ps, cur)
  /\ Coherent(B, M, C, X) /\ Holds(held, ps, cur)

\* The numbers of plans are not given out again.
Fresh(ps) == \A i \in DOMAIN ps : i \in Nat /\ i < nextPlan

------------------------------------------------------------------------------
(* The inductive invariant about pages. *)

Held == IF mode \in {"publish", "discard"} THEN todo ELSE batch
Now == Sound(pool, binding, media, cache, content, plans, current, Held)

\* A snapshot was sound when it was taken.
SavedSound ==
  mode \in Guarded =>
    /\ Sound(saved.pool, saved.binding, saved.media, saved.cache, saved.content,
             saved.plans, saved.current, saved.batch)
    /\ Fresh(saved.plans)

\* The pages still to be treated are where the operation expects them, each once.
TodoPages ==
  mode \in {"prepare", "offload", "restore"} =>
    /\ todo \in Seq(Pages)
    /\ \A m, n \in DOMAIN todo : todo[m] = todo[n] => m = n
    /\ \A n \in DOMAIN todo :
         /\ pool[todo[n]].tier = (IF mode = "prepare" THEN "hbf" ELSE OtherTier(Target))
         /\ ~pool[todo[n]].pending

\* Before the n-th preparation, what was allocated were the pages and the buffers of those
\* prepared earlier, and no phase has ended since.
UndoSound ==
  IF mode \in {"prepare", "abort"}
    THEN /\ undo \in Seq(Range(undo)) /\ Len(undo) = Len(batch)
         /\ \A i \in DOMAIN plans : current[i].phase = 0
         /\ \A n \in DOMAIN undo :
              /\ undo[n].binding = binding
              /\ DOMAIN undo[n].media = {Buffer(p) : p \in Bound} \cup BuffersOf(batch, n - 1)
              /\ Coherent(binding, undo[n].media, undo[n].cache, content)
    ELSE undo = <<>>

TransferInv == /\ Now /\ SavedSound /\ TodoPages /\ UndoSound
               /\ nextPlan \in Nat /\ Fresh(plans)
               /\ mode \in Guarded \cup {"boundary", "prepare", "abort"}
------------------------------------------------------------------------------
(* Caches. *)

\* discard_buffer() keeps the lines of all other buffers.
LEMMA DiscardedIs ==
  ASSUME NEW C \in Seq(Line), NEW S
  PROVE  /\ Discarded(C, S) \in Seq(Line)
         /\ Range(Discarded(C, S)) = {l \in Range(C) : l.buffer \notin S}
<1> DEFINE I == {i \in DOMAIN C : C[i].buffer \notin S}
           D == ElementsAt(C, I)
<1>1. D \in Seq(Line)
  BY ElementsAtIs
<1>2. \A n \in DOMAIN D : \E i \in I : D[n] = C[i]
  BY ElementsAtIs
<1>3. \A i \in I : \E n \in DOMAIN D : D[n] = C[i]
  BY ElementsAtIs
<1>4. Discarded(C, S) = D
  BY DEF Discarded
<1> HIDE DEF D
<1>5. Range(D) = {l \in Range(C) : l.buffer \notin S}
  BY <1>2, <1>3 DEF Range
<1> QED
  BY <1>1, <1>4, <1>5

\* A page's buffer says which page it is.
LEMMA BufferPage ==
  ASSUME NEW B, NEW D, NEW p, NEW q, BufferIn(B, p) = BufferIn(D, q)
  PROVE  p = q
BY DEF BufferIn

\* The lines of the pages of S go, and what else is in the caches is still where it was.
LEMMA CoherentStep ==
  ASSUME NEW B, NEW M, NEW C, NEW X, Coherent(B, M, C, X),
         NEW B2, NEW M2, NEW D \in Seq(Line), NEW S,
         Range(D) = {l \in Range(C) : \A p \in S : l.buffer # BufferIn(B, p)},
         \A p \in BoundIn(B) \ S : /\ p \in BoundIn(B2)
                                   /\ BufferIn(B2, p) = BufferIn(B, p)
                                   /\ M2[BufferIn(B, p)] = M[BufferIn(B, p)],
         BoundIn(B2) \subseteq BoundIn(B) \cup S,
         \A p \in BoundIn(B2) \cap S : M2[BufferIn(B2, p)] = X[p]
  PROVE  Coherent(B2, M2, D, X)
<1>1. X \in [Pages -> Nat]
  BY DEF Coherent
<1>2. ASSUME NEW l \in Range(D)
      PROVE  \E p \in BoundIn(B) \ S : l.buffer = BufferIn(B, p) /\ l.value = X[p]
  BY <1>2 DEF Coherent
<1>3. \A l \in Range(D) : \E p \in BoundIn(B2) : l.buffer = BufferIn(B2, p)
  BY <1>2
<1>4. ASSUME NEW p \in BoundIn(B2), NEW l \in Range(D), l.buffer = BufferIn(B2, p)
      PROVE  l.value = X[p]
  <2>1. PICK q \in BoundIn(B) \ S : l.buffer = BufferIn(B, q) /\ l.value = X[q]
    BY <1>2
  <2>2. BufferIn(B, q) = BufferIn(B2, p)
    BY <1>4, <2>1
  <2>3. q = p
    BY <2>2, BufferPage
  <2> QED
    BY <2>1, <2>3
<1>5. ASSUME NEW p \in BoundIn(B2)
      PROVE  M2[BufferIn(B2, p)] = X[p] \/ \E l \in Range(D) : IsDirty(BufferIn(B2, p), l)
  <2>1. CASE p \in S
    BY <2>1
  <2>2. CASE p \notin S
    <3>1. /\ p \in BoundIn(B) /\ BufferIn(B2, p) = BufferIn(B, p)
          /\ M2[BufferIn(B, p)] = M[BufferIn(B, p)]
      BY <2>2
    <3>2. M[BufferIn(B, p)] = X[p] \/ \E l \in Range(C) : IsDirty(BufferIn(B, p), l)
      BY <3>1 DEF Coherent
    <3>3. ASSUME NEW l \in Range(C), IsDirty(BufferIn(B, p), l) PROVE l \in Range(D)
      <4>1. \A q \in S : l.buffer # BufferIn(B, q)
        BY <2>2, <3>3, BufferPage DEF IsDirty
      <4> QED
        BY <4>1
    <3> QED
      BY <3>1, <3>2, <3>3
  <2> QED
    BY <2>1, <2>2
<1> QED
  BY <1>1, <1>3, <1>4, <1>5 DEF Coherent

\* The same when no line goes.
LEMMA CoherentFrame ==
  ASSUME NEW B, NEW M, NEW C, NEW X, Coherent(B, M, C, X), NEW M2,
         \A p \in BoundIn(B) : M2[BufferIn(B, p)] = M[BufferIn(B, p)]
  PROVE  Coherent(B, M2, C, X)
BY DEF Coherent

\* flush() leaves the memory with the page's last content, and nothing else changed.
LEMMA FlushedIs ==
  ASSUME Coherent(binding, media, cache, content), NEW p \in Bound,
         \A q \in Bound : Buffer(q) \in DOMAIN media, NEW f, f = Flushed(Buffer(p))
  PROVE  /\ DOMAIN f.media = DOMAIN media /\ f.media[Buffer(p)] = content[p]
         /\ \A x \in DOMAIN media \ {Buffer(p)} : f.media[x] = media[x]
         /\ Coherent(binding, f.media, f.cache, content)
<1>1. PICK b : b = Buffer(p)
  OBVIOUS
<1>2. p \in BoundIn(binding) /\ b = BufferIn(binding, p)
  BY <1>1 DEF Bound, BoundIn, Buffer, BufferIn
<1>3. /\ f.media = [x \in DOMAIN media |->
                      IF x = b /\ \E l \in Range(cache) : IsDirty(b, l)
                        THEN (CHOOSE l \in Range(cache) : IsDirty(b, l)).value ELSE media[x]]
      /\ f.cache = [i \in DOMAIN cache |->
                      IF cache[i].buffer = b THEN [cache[i] EXCEPT !.dirty = FALSE] ELSE cache[i]]
  BY <1>1 DEF Flushed
<1>4. \A l \in Range(cache) : IsDirty(b, l) => l.value = content[p]
  BY <1>2 DEF Coherent, IsDirty
<1>5. f.media[b] = content[p]
  <2>1. CASE \E l \in Range(cache) : IsDirty(b, l)
    <3>1. PICK l : l = CHOOSE k \in Range(cache) : IsDirty(b, k)
      OBVIOUS
    <3>2. l \in Range(cache) /\ IsDirty(b, l)
      BY <2>1, <3>1
    <3>3. f.media[b] = l.value
      BY <1>1, <1>3, <2>1, <3>1
    <3> QED
      BY <1>4, <3>2, <3>3
  <2>2. CASE ~\E l \in Range(cache) : IsDirty(b, l)
    <3>1. f.media[b] = media[b]
      BY <1>1, <1>3, <2>2
    <3>2. media[b] = content[p]
      BY <1>2, <2>2 DEF Coherent
    <3> QED
      BY <3>1, <3>2
  <2> QED
    BY <2>1, <2>2
<1>6. \A x \in DOMAIN media \ {b} : f.media[x] = media[x]
  BY <1>3
<1>7. f.cache \in Seq(Line)
  <2>1. Len(cache) \in Nat /\ DOMAIN cache = 1 .. Len(cache)
        /\ \A i \in DOMAIN cache : cache[i] \in Line
    BY LenProperties, ElementOfSeq DEF Coherent
  <2>2. \A l \in Line : [l EXCEPT !.dirty = FALSE] \in Line
    BY DEF Line
  <2>3. f.cache \in [1 .. Len(cache) -> Line]
    BY <1>3, <2>1, <2>2
  <2> QED
    BY <2>1, <2>3, SeqDef
<1>8. \A l \in Line : /\ [l EXCEPT !.dirty = FALSE].buffer = l.buffer
                      /\ [l EXCEPT !.dirty = FALSE].value = l.value
  BY DEF Line
<1>9. \A l \in Range(cache) : l \in Line
  BY ElementOfSeq, LenProperties DEF Range, Coherent
<1>10. ASSUME NEW l \in Range(f.cache)
       PROVE  \E k \in Range(cache) :
                /\ l.buffer = k.buffer /\ l.value = k.value
                /\ k.buffer # b => l = k
  <2>1. PICK i \in DOMAIN f.cache : l = f.cache[i]
    BY <1>10 DEF Range
  <2>2. i \in DOMAIN cache /\ cache[i] \in Range(cache)
    BY <1>3, <2>1 DEF Range
  <2> QED
    BY <1>3, <1>8, <1>9, <2>1, <2>2
<1>11. \A k \in Range(cache) : k.buffer # b => k \in Range(f.cache)
  BY <1>3 DEF Range
<1>12. Coherent(binding, f.media, f.cache, content)
  <2>1. ASSUME NEW q \in BoundIn(binding), q # p
        PROVE  \/ f.media[BufferIn(binding, q)] = content[q]
               \/ \E l \in Range(f.cache) : IsDirty(BufferIn(binding, q), l)
    <3>1. BufferIn(binding, q) # b
      BY <1>2, <2>1, BufferPage
    <3>2. CASE \E l \in Range(cache) : IsDirty(BufferIn(binding, q), l)
      BY <1>11, <3>1, <3>2 DEF IsDirty
    <3>3. CASE ~\E l \in Range(cache) : IsDirty(BufferIn(binding, q), l)
      <4>1. media[BufferIn(binding, q)] = content[q]
        BY <3>3 DEF Coherent
      <4>2. BufferIn(binding, q) \in DOMAIN media
        BY <2>1 DEF Bound, BoundIn, Buffer, BufferIn
      <4> QED
        BY <1>6, <3>1, <4>1, <4>2
    <3> QED
      BY <3>2, <3>3
  <2>2. \A l \in Range(f.cache) : \E q \in BoundIn(binding) : l.buffer = BufferIn(binding, q)
    BY <1>10 DEF Coherent
  <2>3. \A q \in BoundIn(binding) : \A l \in Range(f.cache) :
          l.buffer = BufferIn(binding, q) => l.value = content[q]
    BY <1>10 DEF Coherent
  <2> QED
    BY <1>2, <1>5, <1>7, <2>1, <2>2, <2>3 DEF Coherent
<1> QED
  BY <1>1, <1>3, <1>5, <1>6, <1>12

\* access() reads or writes the last content of a page: the line it makes room for is
\* written back when it must be.
LEMMA CacheAccessIs ==
  ASSUME Coherent(binding, media, cache, content), NEW p \in Bound,
         \A q \in Bound : Buffer(q) \in DOMAIN media /\ binding[q].gen \in Nat,
         NEW dirty \in BOOLEAN, NEW X \in [Pages -> Nat],
         \A q \in Pages \ {p} : X[q] = content[q], ~dirty => X[p] = content[p],
         CacheAccess(Buffer(p), dirty, X[p])
  PROVE  /\ DOMAIN media' = DOMAIN media
         /\ \A x \in DOMAIN media : (\A q \in Bound : x # Buffer(q)) => media'[x] = media[x]
         /\ Coherent(binding, media', cache', X)
<1>1. PICK b : b = Buffer(p)
  OBVIOUS
<1>2. PICK rest : rest = Discarded(cache, {b})
  OBVIOUS
<1>3. PICK hit : hit = {i \in DOMAIN cache : cache[i].buffer = b}
  OBVIOUS
<1>4. PICK full \in BOOLEAN : full <=> (hit = {} /\ Len(cache) >= CacheLines)
  <2>1. (hit = {} /\ Len(cache) >= CacheLines) \in BOOLEAN
    OBVIOUS
  <2> QED
    BY <2>1
<1>5. PICK line : line = [buffer |-> b, value |-> X[p],
                          dirty |-> dirty \/ \E i \in hit : cache[i].dirty]
  OBVIOUS
<1>6. /\ cache' = Append(IF full THEN Tail(rest) ELSE rest, line)
      /\ media' = IF full /\ rest[1].dirty
                    THEN [media EXCEPT ![rest[1].buffer] = rest[1].value] ELSE media
  BY <1>1, <1>2, <1>3, <1>4, <1>5 DEF CacheAccess
<1>7. /\ rest \in Seq(Line)
      /\ Range(rest) = {l \in Range(cache) : l.buffer # b}
  <2>1. cache \in Seq(Line)
    BY DEF Coherent
  <2> QED
    BY <1>2, <2>1, DiscardedIs
<1>8. /\ p \in Pages /\ b = BufferIn(binding, p) /\ b \in Pages \X Tiers \X Nat
      /\ X[p] \in Nat
  <2>1. p \in BoundIn(binding) /\ b = BufferIn(binding, p) /\ p \in Pages
    BY <1>1 DEF Bound, BoundIn, Buffer, BufferIn
  <2>2. b = <<p, binding[p].tier, binding[p].gen>> /\ binding[p].tier \in Tiers
        /\ binding[p].gen \in Nat
    BY <2>1 DEF BoundIn, BufferIn
  <2> QED
    BY <2>1, <2>2
<1>9. line \in Line
  BY <1>5, <1>8 DEF Line
<1>10. ASSUME full
       PROVE  rest # <<>>
  <2>1. Len(cache) \in Nat /\ Len(cache) >= 1 /\ 1 \in DOMAIN cache /\ cache[1].buffer # b
    BY <1>3, <1>4, <1>10, CacheHoldsALine, LenProperties DEF Coherent
  <2>2. cache[1] \in Range(rest)
    BY <1>7, <2>1 DEF Range
  <2> QED
    BY <2>2 DEF Range
<1>11. PICK kept : kept = IF full THEN Tail(rest) ELSE rest
  OBVIOUS
<1>12. /\ kept \in Seq(Line) /\ Range(kept) \subseteq Range(rest)
       /\ \A l \in Range(rest) : l \in Range(kept) \/ (full /\ l = rest[1])
  <2>1. CASE ~full
    BY <1>7, <1>11, <2>1
  <2>2. CASE full
    <3>1. /\ Tail(rest) \in Seq(Line) /\ Len(rest) \in Nat /\ Len(Tail(rest)) = Len(rest) - 1
          /\ DOMAIN rest = 1 .. Len(rest) /\ DOMAIN Tail(rest) = 1 .. Len(rest) - 1
          /\ \A i \in 1 .. Len(rest) - 1 : Tail(rest)[i] = rest[i + 1]
      BY <1>7, <1>10, <2>2, HeadTailProperties, LenProperties
    <3>2. Range(Tail(rest)) \subseteq Range(rest)
      BY <3>1 DEF Range
    <3>3. ASSUME NEW l \in Range(rest) PROVE l \in Range(Tail(rest)) \/ l = rest[1]
      <4>1. PICK i \in 1 .. Len(rest) : l = rest[i]
        BY <3>1, <3>3 DEF Range
      <4>2. CASE i = 1
        BY <4>1, <4>2
      <4>3. CASE i # 1
        <5>1. i - 1 \in 1 .. Len(rest) - 1 /\ (i - 1) + 1 = i
          BY <3>1, <4>3
        <5>2. Tail(rest)[i - 1] = l
          BY <3>1, <4>1, <5>1
        <5> QED
          BY <3>1, <5>1, <5>2 DEF Range
      <4> QED
        BY <4>2, <4>3
    <3> QED
      BY <1>11, <2>2, <3>1, <3>2, <3>3
  <2> QED
    BY <2>1, <2>2
<1>13. /\ cache' \in Seq(Line)
       /\ Range(cache') = Range(kept) \cup {line}
  <2>1. cache' = Append(kept, line)
    BY <1>6, <1>11
  <2>2. /\ cache' \in Seq(Line) /\ Len(kept) \in Nat /\ DOMAIN kept = 1 .. Len(kept)
        /\ DOMAIN cache' = 1 .. Len(kept) + 1
        /\ \A i \in 1 .. Len(kept) : cache'[i] = kept[i]
        /\ cache'[Len(kept) + 1] = line
    BY <1>9, <1>12, <2>1, AppendProperties, LenProperties
  <2>3. \A i \in DOMAIN cache' : i \in 1 .. Len(kept) \/ i = Len(kept) + 1
    BY <2>2
  <2>4. Len(kept) + 1 \in DOMAIN cache'
    BY <2>2
  <2>5. \A i \in 1 .. Len(kept) : i \in DOMAIN cache'
    BY <2>2
  <2> QED
    BY <2>2, <2>3, <2>4, <2>5 DEF Range
<1>14. \A l \in Range(rest) :
         /\ l.buffer # b /\ l \in Range(cache)
         /\ \E q \in Bound : /\ q \in BoundIn(binding) /\ q # p
                             /\ l.buffer = BufferIn(binding, q) /\ l.buffer = Buffer(q)
                             /\ l.value = content[q] /\ X[q] = content[q]
  <2> SUFFICES ASSUME NEW l \in Range(rest)
               PROVE  /\ l.buffer # b /\ l \in Range(cache)
                      /\ \E q \in Bound :
                           /\ q \in BoundIn(binding) /\ q # p
                           /\ l.buffer = BufferIn(binding, q) /\ l.buffer = Buffer(q)
                           /\ l.value = content[q] /\ X[q] = content[q]
    OBVIOUS
  <2>1. l.buffer # b /\ l \in Range(cache)
    BY <1>7
  <2>2. PICK q \in BoundIn(binding) : l.buffer = BufferIn(binding, q) /\ l.value = content[q]
    BY <2>1 DEF Coherent
  <2>3. q # p /\ q \in Bound /\ Buffer(q) = BufferIn(binding, q) /\ q \in Pages
    BY <1>8, <2>1, <2>2 DEF Bound, BoundIn, Buffer, BufferIn
  <2> QED
    BY <2>1, <2>2, <2>3
<1>15. /\ DOMAIN media' = DOMAIN media
       /\ \A x \in DOMAIN media :
            \/ media'[x] = media[x]
            \/ full /\ rest[1].dirty /\ x = rest[1].buffer /\ media'[x] = rest[1].value
  BY <1>6
<1>16. full => rest[1] \in Range(rest)
  BY <1>7, <1>10, LenProperties, EmptySeq DEF Range
<1>17. \A x \in DOMAIN media : (\A q \in Bound : x # Buffer(q)) => media'[x] = media[x]
  BY <1>14, <1>15, <1>16
<1>18. \A l \in Range(cache') : \E q \in BoundIn(binding) : l.buffer = BufferIn(binding, q)
  <2>1. p \in BoundIn(binding) /\ line.buffer = BufferIn(binding, p)
    BY <1>5, <1>8 DEF Bound, BoundIn
  <2> QED
    BY <1>12, <1>13, <1>14, <2>1
<1>19. ASSUME NEW q \in BoundIn(binding), NEW l \in Range(cache'),
              l.buffer = BufferIn(binding, q)
       PROVE  l.value = X[q]
  <2>1. CASE l = line
    <3>1. BufferIn(binding, q) = BufferIn(binding, p)
      BY <1>5, <1>8, <1>19, <2>1
    <3>2. q = p
      BY <3>1, BufferPage
    <3> QED
      BY <1>5, <2>1, <3>2
  <2>2. CASE l \in Range(rest)
    <3>1. PICK k \in Bound : /\ l.buffer = BufferIn(binding, k)
                             /\ l.value = content[k] /\ X[k] = content[k]
      BY <1>14, <2>2
    <3>2. BufferIn(binding, q) = BufferIn(binding, k)
      BY <1>19, <3>1
    <3>3. q = k
      BY <3>2, BufferPage
    <3> QED
      BY <3>1, <3>3
  <2> QED
    BY <1>12, <1>13, <2>1, <2>2
\* Another page's line is kept, or written back; p's content is in its line.
<1>20. ASSUME NEW q \in BoundIn(binding)
       PROVE  \/ media'[BufferIn(binding, q)] = X[q]
              \/ \E l \in Range(cache') : IsDirty(BufferIn(binding, q), l)
  <2>1. /\ q \in Pages /\ BufferIn(binding, q) \in DOMAIN media
        /\ \/ media[BufferIn(binding, q)] = content[q]
           \/ \E l \in Range(cache) : IsDirty(BufferIn(binding, q), l)
    BY DEF Coherent, BoundIn, Bound, Buffer, BufferIn
  <2>2. CASE q = p
    <3>1. CASE line.dirty
      BY <1>5, <1>8, <1>13, <2>2, <3>1 DEF IsDirty
    <3>2. CASE ~line.dirty
      <4>1. ~dirty /\ \A i \in DOMAIN cache : cache[i].buffer = b => ~cache[i].dirty
        BY <1>3, <1>5, <3>2
      <4>2. ~\E l \in Range(cache) : IsDirty(b, l)
        BY <4>1 DEF Range, IsDirty
      <4>3. media[b] = content[p] /\ X[p] = content[p]
        BY <1>8, <2>1, <2>2, <4>1, <4>2
      <4>4. media'[b] = media[b]
        BY <1>8, <1>14, <1>15, <1>16, <2>1, <2>2
      <4> QED
        BY <1>8, <2>2, <4>3, <4>4
    <3> QED
      BY <3>1, <3>2
  <2>3. CASE q # p
    <3>1. X[q] = content[q] /\ BufferIn(binding, q) # b
      BY <1>8, <2>1, <2>3, BufferPage
    <3>2. CASE full /\ rest[1].dirty /\ rest[1].buffer = BufferIn(binding, q)
      <4>1. media'[BufferIn(binding, q)] = rest[1].value
        BY <1>6, <2>1, <3>2
      <4>2. PICK k \in Bound : /\ rest[1].buffer = BufferIn(binding, k)
                               /\ rest[1].value = content[k]
        BY <1>14, <1>16, <3>2
      <4>3. BufferIn(binding, q) = BufferIn(binding, k)
        BY <3>2, <4>2
      <4>4. q = k
        BY <4>3, BufferPage
      <4> QED
        BY <3>1, <4>1, <4>2, <4>4
    <3>3. CASE ~(full /\ rest[1].dirty /\ rest[1].buffer = BufferIn(binding, q))
      <4>1. media'[BufferIn(binding, q)] = media[BufferIn(binding, q)]
        BY <1>15, <2>1, <3>3
      <4>2. ASSUME NEW l \in Range(cache), IsDirty(BufferIn(binding, q), l)
            PROVE  l \in Range(cache')
        BY <1>7, <1>12, <1>13, <3>1, <3>3, <4>2 DEF IsDirty
      <4> QED
        BY <2>1, <3>1, <4>1, <4>2
    <3> QED
      BY <3>2, <3>3
  <2> QED
    BY <2>2, <2>3
<1> QED
  BY <1>13, <1>15, <1>17, <1>18, <1>19, <1>20 DEF Coherent

------------------------------------------------------------------------------
(* What a step leaves alone. *)

\* The buffers of a transfer are no page's, and no other transfer's.
LEMMA TransferBuffersApart ==
  ASSUME NEW P, NEW B, NEW X, NEW ps, NEW cur, Placed(P, B), Transfers(P, B, X, ps, cur),
         NEW i \in DOMAIN ps
  PROVE  /\ \A p \in BoundIn(B) : /\ TargetOf(cur[i]) # BufferIn(B, p)
                                  /\ RelayOf(cur[i]) # BufferIn(B, p)
         /\ \A j \in DOMAIN ps : /\ RelayOf(cur[i]) # TargetOf(cur[j])
                                 /\ i # j => /\ TargetOf(cur[i]) # TargetOf(cur[j])
                                             /\ RelayOf(cur[i]) # RelayOf(cur[j])
<1>1. /\ InTransfer(P, B, X, ps, cur, i)
      /\ \A j \in DOMAIN ps : InTransfer(P, B, X, ps, cur, j)
      /\ \A j \in DOMAIN ps : i # j => cur[i].page # cur[j].page
  BY DEF Transfers
<1>2. ASSUME NEW p \in BoundIn(B) PROVE TargetOf(cur[i]) # BufferIn(B, p)
  BY <1>1 DEF InTransfer, Placed, TargetOf, BufferIn
<1>3. ASSUME NEW p \in BoundIn(B) PROVE RelayOf(cur[i]) # BufferIn(B, p)
  BY DEF RelayOf, BufferIn, BoundIn, Tiers
<1>4. \A j \in DOMAIN ps : RelayOf(cur[i]) # TargetOf(cur[j])
  BY <1>1 DEF InTransfer, RelayOf, TargetOf
<1>5. \A j \in DOMAIN ps : i # j => /\ TargetOf(cur[i]) # TargetOf(cur[j])
                                    /\ RelayOf(cur[i]) # RelayOf(cur[j])
  BY <1>1 DEF RelayOf, TargetOf
<1> QED
  BY <1>2, <1>3, <1>4, <1>5

LEMMA TransfersFrame ==
  ASSUME NEW P, NEW B, NEW X, NEW ps, NEW cur, Transfers(P, B, X, ps, cur),
         NEW P2, NEW B2, NEW X2,
         \A i \in DOMAIN ps : /\ P2[cur[i].page].pending = P[cur[i].page].pending
                              /\ B2[cur[i].page] = B[cur[i].page]
                              /\ X2[cur[i].page] = X[cur[i].page],
         \A p \in Pages : P2[p].pending => P[p].pending
  PROVE  Transfers(P2, B2, X2, ps, cur)
<1>1. \A i \in DOMAIN ps : InTransfer(P2, B2, X2, ps, cur, i)
  BY DEF Transfers, InTransfer
<1> QED
  BY <1>1 DEF Transfers

LEMMA AllocatedFrame ==
  ASSUME NEW B, NEW M, NEW ps, NEW cur, Allocated(B, M, ps, cur), NEW M2, DOMAIN M2 = DOMAIN M,
         \A i \in DOMAIN ps : M2[TargetOf(cur[i])] = M[TargetOf(cur[i])]
  PROVE  Allocated(B, M2, ps, cur)
BY DEF Allocated

\* An idle page is in no transfer.
LEMMA IdleApart ==
  ASSUME Now, NEW p \in Pages, ~pool[p].pending
  PROVE  \A i \in DOMAIN plans : current[i].page \in Pages /\ current[i].page # p
BY DEF Now, Sound, Transfers, InTransfer

LEMMA NowFacts ==
  ASSUME Now
  PROVE  /\ \A p \in Pages : binding[p].tier = pool[p].tier /\ binding[p].gen = pool[p].gen
                             /\ binding[p].gen \in Nat
         /\ Bound = BoundIn(binding) /\ Bound \subseteq Pages
         /\ \A p : Buffer(p) = BufferIn(binding, p)
         /\ \A p \in Bound : Buffer(p) \in DOMAIN media
         /\ \A i \in DOMAIN plans : \A p \in Bound : /\ TargetOf(current[i]) # Buffer(p)
                                                     /\ RelayOf(current[i]) # Buffer(p)
         /\ \A i \in DOMAIN plans : TargetOf(current[i]) \in DOMAIN media
<1>1. /\ \A p \in Pages : binding[p].tier = pool[p].tier /\ binding[p].gen = pool[p].gen
                          /\ binding[p].gen \in Nat
  BY DEF Now, Sound, Placed
<1>2. /\ Bound = BoundIn(binding) /\ Bound \subseteq Pages
      /\ \A p : Buffer(p) = BufferIn(binding, p)
  BY DEF Bound, BoundIn, Buffer, BufferIn
<1>3. /\ \A p \in Bound : Buffer(p) \in DOMAIN media
      /\ \A i \in DOMAIN plans : TargetOf(current[i]) \in DOMAIN media
  BY <1>2 DEF Now, Sound, Allocated, TransferBuffers
<1>4. \A i \in DOMAIN plans : \A p \in Bound : /\ TargetOf(current[i]) # Buffer(p)
                                               /\ RelayOf(current[i]) # Buffer(p)
  BY <1>2, TransferBuffersApart DEF Now, Sound
<1> QED
  BY <1>1, <1>2, <1>3, <1>4

\* Snapshots outlive the steps that leave them alone.
LEMMA SavedFrame ==
  ASSUME SavedSound, nextPlan \in Nat, nextPlan' \in Nat, nextPlan <= nextPlan',
         mode' \in Guarded => mode' = mode /\ saved' = saved
  PROVE  SavedSound'
<1>1. CASE mode' \in Guarded
  <2>1. mode \in Guarded /\ saved' = saved
    BY <1>1
  <2>2. \A i \in DOMAIN saved.plans : i \in Nat /\ i < nextPlan'
    BY <2>1 DEF SavedSound, Fresh
  <2> QED
    BY <2>1, <2>2 DEF SavedSound, Fresh
<1>2. CASE mode' \notin Guarded
  BY <1>2 DEF SavedSound
<1> QED
  BY <1>1, <1>2

\* The conjuncts of the invariant about modes, where nothing they speak of changes or
\* the mode is one they do not speak of.
LEMMA ModesFrame ==
  ASSUME TransferInv, mode' = mode, saved' = saved, nextPlan' = nextPlan, undo' = undo,
         DOMAIN plans' \subseteq DOMAIN plans,
         mode \notin {"prepare", "abort", "offload", "restore"}
  PROVE  /\ SavedSound' /\ TodoPages' /\ UndoSound'
         /\ nextPlan' \in Nat /\ Fresh(plans)'
         /\ mode' \in Guarded \cup {"boundary", "prepare", "abort"}
<1>1. SavedSound' /\ nextPlan' \in Nat
  BY SavedFrame DEF TransferInv
<1>2. TodoPages' /\ UndoSound'
  BY DEF TransferInv, TodoPages, UndoSound, Guarded
<1>3. Fresh(plans)'
  BY DEF TransferInv, Fresh
<1> QED
  BY <1>1, <1>2, <1>3 DEF TransferInv

------------------------------------------------------------------------------
(* Cohorts and releases. *)

LEMMA AccessSound ==
  ASSUME TransferInv, NEW r \in Requests, Access(r)
  PROVE  TransferInv'
<1>1. PICK p \in PagesOf[r] \cap Bound :
        \/ /\ content' = [content EXCEPT ![p] = (@ + 1) % Versions]
           /\ CacheAccess(Buffer(p), TRUE, content'[p])
        \/ /\ CacheAccess(Buffer(p), FALSE, ValueOf(p))
           /\ UNCHANGED content
  BY DEF Access
<1>2. /\ mode = "cohort" /\ ~pool[p].pending
      /\ UNCHANGED <<pool, binding, plans, current, batch, nextPlan, mode, todo, undo, saved>>
  BY DEF Access, Resident, Idle, loopState, counters
<1>3. Now /\ content \in [Pages -> Nat]
  BY DEF TransferInv, Now, Sound, Coherent
<1>4. /\ p \in Pages /\ p \in BoundIn(binding) /\ Buffer(p) = BufferIn(binding, p)
  BY <1>3, NowFacts
<1>5. /\ content' \in [Pages -> Nat]
      /\ \A q \in Pages \ {p} : content'[q] = content[q]
      /\ \E dirty \in BOOLEAN : /\ ~dirty => content'[p] = content[p]
                                /\ CacheAccess(Buffer(p), dirty, content'[p])
  <2>1. CASE /\ content' = [content EXCEPT ![p] = (@ + 1) % Versions]
             /\ CacheAccess(Buffer(p), TRUE, content'[p])
    <3>1. (content[p] + 1) % Versions \in Nat
      BY <1>3, <1>4, BoundsNatural
    <3>2. /\ content' \in [Pages -> Nat]
          /\ \A q \in Pages \ {p} : content'[q] = content[q]
      BY <1>3, <1>4, <2>1, <3>1
    <3> QED
      BY <2>1, <3>2
  <2>2. CASE CacheAccess(Buffer(p), FALSE, ValueOf(p)) /\ UNCHANGED content
    <3>1. ValueOf(p) = content[p]
      <4>1. CASE \E l \in Range(cache) : l.buffer = Buffer(p)
        <5>1. PICK l : l = CHOOSE k \in Range(cache) : k.buffer = Buffer(p)
          OBVIOUS
        <5>2. l \in Range(cache) /\ l.buffer = Buffer(p)
          BY <4>1, <5>1
        <5>3. ValueOf(p) = l.value
          BY <4>1, <5>1 DEF ValueOf
        <5> QED
          BY <1>3, <1>4, <5>2, <5>3 DEF Now, Sound, Coherent
      <4>2. CASE ~\E l \in Range(cache) : l.buffer = Buffer(p)
        <5>1. ValueOf(p) = media[Buffer(p)]
          BY <4>2 DEF ValueOf
        <5> QED
          BY <1>3, <1>4, <4>2, <5>1 DEF Now, Sound, Coherent, IsDirty
      <4> QED
        BY <4>1, <4>2
    <3> QED
      BY <1>3, <2>2, <3>1
  <2> QED
    BY <1>1, <2>1, <2>2
<1>6. /\ DOMAIN media' = DOMAIN media
      /\ \A x \in DOMAIN media : (\A q \in Bound : x # Buffer(q)) => media'[x] = media[x]
      /\ Coherent(binding, media', cache', content')
  <2>1. PICK X : X = content'
    OBVIOUS
  <2>2. PICK dirty \in BOOLEAN : /\ ~dirty => X[p] = content[p]
                                 /\ CacheAccess(Buffer(p), dirty, X[p])
    BY <1>5, <2>1
  <2>3. X \in [Pages -> Nat] /\ \A q \in Pages \ {p} : X[q] = content[q]
    BY <1>5, <2>1
  <2>4. \A q \in Bound : Buffer(q) \in DOMAIN media /\ binding[q].gen \in Nat
    BY <1>3, NowFacts
  <2>5. Coherent(binding, media, cache, content) /\ p \in Bound
    BY <1>3, <1>4, NowFacts DEF Now, Sound
  <2>6. /\ DOMAIN media' = DOMAIN media
        /\ \A x \in DOMAIN media : (\A q \in Bound : x # Buffer(q)) => media'[x] = media[x]
        /\ Coherent(binding, media', cache', X)
    BY <2>2, <2>3, <2>4, <2>5, CacheAccessIs
  <2> QED
    BY <2>1, <2>6
<1>7. Placed(pool, binding)'
  BY <1>2, <1>3 DEF Now, Sound
<1>8. Transfers(pool, binding, content, plans, current)'
  <2>1. \A i \in DOMAIN plans : current[i].page \in Pages /\ current[i].page # p
    BY <1>2, <1>3, <1>4, IdleApart
  <2>2. Transfers(pool, binding, content', plans, current)
    BY <1>3, <1>5, <2>1, TransfersFrame DEF Now, Sound
  <2> QED
    BY <1>2, <2>2
<1>9. Allocated(binding, media, plans, current)'
  <2>1. \A i \in DOMAIN plans : media'[TargetOf(current[i])] = media[TargetOf(current[i])]
    BY <1>3, <1>6, NowFacts
  <2>2. Allocated(binding, media', plans, current)
    BY <1>3, <1>6, <2>1, AllocatedFrame DEF Now, Sound
  <2> QED
    BY <1>2, <2>2
<1>10. Coherent(binding, media, cache, content)'
  BY <1>2, <1>6
<1>11. Holds(Held, plans, current)'
  BY <1>2, <1>3 DEF Now, Sound, Held
<1> QED
  BY <1>2, <1>7, <1>8, <1>9, <1>10, <1>11, ModesFrame DEF TransferInv, Now, Sound

LEMMA GrowSound ==
  ASSUME TransferInv, NEW r \in Requests, Grow(r)
  PROVE  TransferInv'
<1>1. PICK p \in PagesOf[r] \ Bound :
        /\ pool' = [pool EXCEPT ![p].tier = "hbm"]
        /\ binding' = [binding EXCEPT ![p].tier = "hbm"]
        /\ media' = With(media, <<p, "hbm", 0>>, content[p])
  BY DEF Grow
<1>2. /\ mode = "cohort" /\ ~pool[p].pending /\ pool[p].tier \in {"hbm", "none"}
      /\ UNCHANGED <<cache, content, plans, current, batch, nextPlan, mode, todo, undo, saved>>
  BY DEF Grow, Resident, Idle, loopState, counters
<1>3. Now /\ p \in Pages
  BY RequestPages DEF TransferInv
<1>4. binding[p].tier = "none" /\ binding[p].gen = 0 /\ p \notin BoundIn(binding)
  BY <1>1, <1>2, <1>3, NowFacts DEF Now, Sound, Placed, Bound, Tiers
<1>5. /\ \A q \in Pages \ {p} : binding'[q] = binding[q] /\ pool'[q] = pool[q]
      /\ binding'[p] = [binding[p] EXCEPT !.tier = "hbm"]
      /\ pool'[p] = [pool[p] EXCEPT !.tier = "hbm"]
      /\ pool'[p].pending = pool[p].pending
      /\ binding'[p].tier = "hbm" /\ binding'[p].gen = 0
  BY <1>1, <1>3, <1>4 DEF Now, Sound, Placed
<1>6. /\ BoundIn(binding') = BoundIn(binding) \cup {p}
      /\ \A q \in BoundIn(binding) : BufferIn(binding', q) = BufferIn(binding, q)
      /\ BufferIn(binding', p) = <<p, "hbm", 0>>
  BY <1>3, <1>4, <1>5 DEF BoundIn, BufferIn, Tiers
<1>7. Placed(pool, binding)'
  BY <1>1, <1>3, <1>5 DEF Now, Sound, Placed, TierNames, Tiers
<1>8. \A i \in DOMAIN plans : current[i].page \in Pages /\ current[i].page # p
  BY <1>2, <1>3, IdleApart
<1>9. Transfers(pool, binding, content, plans, current)'
  <2>1. \A q \in Pages : pool'[q].pending => pool[q].pending
    BY <1>3, <1>5
  <2>2. \A i \in DOMAIN plans : /\ pool'[current[i].page].pending = pool[current[i].page].pending
                                /\ binding'[current[i].page] = binding[current[i].page]
    BY <1>5, <1>8
  <2>3. Transfers(pool', binding', content, plans, current)
    BY <1>3, <2>1, <2>2, TransfersFrame DEF Now, Sound
  <2> QED
    BY <1>2, <2>3
<1>10. /\ DOMAIN media' = DOMAIN media \cup {BufferIn(binding', p)}
       /\ media'[BufferIn(binding', p)] = content[p]
       /\ \A x \in DOMAIN media \ {BufferIn(binding', p)} : media'[x] = media[x]
  BY <1>1, <1>6 DEF With
<1>11. Allocated(binding, media, plans, current)'
  <2>1. {BufferIn(binding', q) : q \in BoundIn(binding')}
          = {BufferIn(binding, q) : q \in BoundIn(binding)} \cup {BufferIn(binding', p)}
    BY <1>6
  <2>2. ASSUME NEW i \in DOMAIN plans, current[i].phase = current[i].steps
        PROVE  media'[TargetOf(current[i])] = current[i].data
    <3>1. TargetOf(current[i]) # BufferIn(binding', p)
      BY <1>8 DEF TargetOf, BufferIn
    <3>2. TargetOf(current[i]) \in DOMAIN media
      BY <1>3, NowFacts
    <3> QED
      BY <1>3, <1>10, <2>2, <3>1, <3>2 DEF Now, Sound, Allocated
  <2>3. Allocated(binding', media', plans, current)
    BY <1>3, <1>10, <2>1, <2>2 DEF Now, Sound, Allocated
  <2> QED
    BY <1>2, <2>3
<1>12. Coherent(binding, media, cache, content)'
  <2>1. Coherent(binding, media, cache, content) /\ cache \in Seq(Line)
    BY <1>3 DEF Now, Sound, Coherent
  <2>2. \A l \in Range(cache) : l.buffer # BufferIn(binding, p)
    BY <1>4, <2>1, BufferPage DEF Coherent
  <2> DEFINE S == {p}
  <2>3. Range(cache) = {l \in Range(cache) : \A q \in S : l.buffer # BufferIn(binding, q)}
    BY <2>2
  <2>4. \A q \in BoundIn(binding) \ S :
          /\ q \in BoundIn(binding') /\ BufferIn(binding', q) = BufferIn(binding, q)
          /\ media'[BufferIn(binding, q)] = media[BufferIn(binding, q)]
    <3> SUFFICES ASSUME NEW q \in BoundIn(binding) \ S
                 PROVE  media'[BufferIn(binding, q)] = media[BufferIn(binding, q)]
      BY <1>6
    <3>1. BufferIn(binding, q) # BufferIn(binding', p)
      BY BufferPage
    <3>2. BufferIn(binding, q) \in DOMAIN media
      BY <1>3, NowFacts
    <3> QED
      BY <1>10, <3>1, <3>2
  <2>5. \A q \in BoundIn(binding') \cap S : media'[BufferIn(binding', q)] = content[q]
    BY <1>10
  <2>6. BoundIn(binding') \subseteq BoundIn(binding) \cup S
    BY <1>6
  <2> HIDE DEF S
  <2>7. Coherent(binding', media', cache, content)
    BY <2>1, <2>3, <2>4, <2>5, <2>6, CoherentStep
  <2> QED
    BY <1>2, <2>7
<1>13. Holds(Held, plans, current)'
  BY <1>2, <1>3 DEF Now, Sound, Held
<1> QED
  BY <1>2, <1>7, <1>9, <1>11, <1>12, <1>13, ModesFrame DEF TransferInv, Now, Sound

\* Idle pages go, with their buffers and their lines.
LEMMA ReleasedSound ==
  ASSUME Now, NEW S \in SUBSET Bound, \A p \in S : ~pool[p].pending, Released(S),
         UNCHANGED <<plans, content, current>>, Holds(Held, plans, current)'
  PROVE  Now'
<1>1. /\ pool' = [p \in Pages |-> IF p \in S THEN [pool[p] EXCEPT !.tier = "gone"] ELSE pool[p]]
      /\ binding' = [p \in Pages |-> IF p \in S THEN [binding[p] EXCEPT !.tier = "gone"]
                                                ELSE binding[p]]
      /\ media' = Without(media, {Buffer(p) : p \in S})
      /\ cache' = Discarded(cache, {Buffer(p) : p \in S})
  BY DEF Released, Freed
<1>2. /\ Bound = BoundIn(binding) /\ Bound \subseteq Pages
      /\ \A p : Buffer(p) = BufferIn(binding, p)
  BY NowFacts
<1>3. /\ \A q \in Pages \ S : binding'[q] = binding[q] /\ pool'[q] = pool[q]
      /\ \A p \in S : /\ binding'[p] = [binding[p] EXCEPT !.tier = "gone"]
                      /\ pool'[p] = [pool[p] EXCEPT !.tier = "gone"]
                      /\ binding'[p].tier = "gone" /\ pool'[p].pending = pool[p].pending
  BY <1>1, <1>2 DEF Now, Sound, Placed
<1>4. /\ BoundIn(binding') = BoundIn(binding) \ S
      /\ \A q \in BoundIn(binding') : BufferIn(binding', q) = BufferIn(binding, q)
  BY <1>2, <1>3 DEF BoundIn, BufferIn, Tiers
<1>5. Placed(pool, binding)'
  <2>1. \A p \in Pages : /\ binding'[p].tier = pool'[p].tier /\ binding'[p].gen = pool'[p].gen
                         /\ binding'[p].tier = "none" => binding'[p].gen = 0
                         /\ pool'[p] \in [tier : TierNames, gen : Nat, pending : BOOLEAN]
                         /\ binding'[p] \in [tier : TierNames, gen : Nat]
    <3> TAKE p \in Pages
    <3>1. /\ binding[p].tier = pool[p].tier /\ binding[p].gen = pool[p].gen
          /\ binding[p].tier = "none" => binding[p].gen = 0
          /\ pool[p] \in [tier : TierNames, gen : Nat, pending : BOOLEAN]
          /\ binding[p] \in [tier : TierNames, gen : Nat]
      BY DEF Now, Sound, Placed
    <3>2. CASE p \in S
      BY <1>3, <3>1, <3>2 DEF TierNames
    <3>3. CASE p \notin S
      BY <1>3, <3>1, <3>3
    <3> QED
      BY <3>2, <3>3
  <2>2. pool' = [p \in Pages |-> pool'[p]] /\ binding' = [p \in Pages |-> binding'[p]]
    BY <1>1
  <2>3. /\ pool' \in [Pages -> [tier : TierNames, gen : Nat, pending : BOOLEAN]]
        /\ binding' \in [Pages -> [tier : TierNames, gen : Nat]]
    BY <2>1, <2>2
  <2>4. \A p \in Pages : /\ binding'[p].tier = pool'[p].tier /\ binding'[p].gen = pool'[p].gen
                         /\ binding'[p].tier = "none" => binding'[p].gen = 0
    BY <2>1
  <2>5. Placed(pool', binding')
    BY <2>3, <2>4 DEF Placed
  <2> QED
    BY <2>5
<1>6. \A i \in DOMAIN plans : current[i].page \in Pages /\ current[i].page \notin S
  BY <1>2, IdleApart DEF Now, Sound, Transfers, InTransfer
<1>7. Transfers(pool, binding, content, plans, current)'
  <2>1. \A p \in Pages : pool'[p].pending => pool[p].pending
    BY <1>3
  <2>2. \A i \in DOMAIN plans : /\ pool'[current[i].page].pending = pool[current[i].page].pending
                                /\ binding'[current[i].page] = binding[current[i].page]
    BY <1>3, <1>6
  <2>3. Transfers(pool', binding', content, plans, current)
    BY <2>1, <2>2, TransfersFrame DEF Now, Sound
  <2> QED
    BY <2>3
<1>8. /\ DOMAIN media' = DOMAIN media \ {BufferIn(binding, p) : p \in S}
      /\ \A x \in DOMAIN media' : media'[x] = media[x]
  BY <1>1, <1>2 DEF Without
<1>9. \A i \in DOMAIN plans : \A p \in S : /\ TargetOf(current[i]) # BufferIn(binding, p)
                                           /\ RelayOf(current[i]) # BufferIn(binding, p)
  BY <1>2, NowFacts
<1>10. Allocated(binding, media, plans, current)'
  <2>1. {BufferIn(binding', q) : q \in BoundIn(binding')}
          = {BufferIn(binding, q) : q \in BoundIn(binding)} \ {BufferIn(binding, p) : p \in S}
    BY <1>4, BufferPage
  <2>2. TransferBuffers(current, DOMAIN plans) \cap {BufferIn(binding, p) : p \in S} = {}
    BY <1>9 DEF TransferBuffers
  <2>3. \A i \in DOMAIN plans : TargetOf(current[i]) \in DOMAIN media'
    BY <1>8, <1>9, NowFacts
  <2>4. DOMAIN media = {BufferIn(binding, q) : q \in BoundIn(binding)}
                         \cup TransferBuffers(current, DOMAIN plans)
    BY DEF Now, Sound, Allocated
  <2>5. DOMAIN media' = {BufferIn(binding', q) : q \in BoundIn(binding')}
                          \cup TransferBuffers(current, DOMAIN plans)
    BY <1>8, <2>1, <2>2, <2>4
  <2>6. \A i \in DOMAIN plans : current[i].phase = current[i].steps =>
          media'[TargetOf(current[i])] = current[i].data
    BY <1>8, <2>3 DEF Now, Sound, Allocated
  <2>7. Allocated(binding', media', plans, current)
    BY <2>5, <2>6 DEF Allocated
  <2> QED
    BY <2>7
<1>11. Coherent(binding, media, cache, content)'
  <2>1. Coherent(binding, media, cache, content) /\ cache \in Seq(Line)
    BY DEF Now, Sound, Coherent
  <2>2. /\ cache' \in Seq(Line)
        /\ Range(cache') = {l \in Range(cache) : l.buffer \notin {Buffer(p) : p \in S}}
    BY <1>1, <2>1, DiscardedIs
  <2>3. Range(cache') = {l \in Range(cache) : \A p \in S : l.buffer # BufferIn(binding, p)}
    BY <1>2, <2>2
  <2>4. \A p \in BoundIn(binding) \ S :
          /\ p \in BoundIn(binding') /\ BufferIn(binding', p) = BufferIn(binding, p)
          /\ media'[BufferIn(binding, p)] = media[BufferIn(binding, p)]
    <3> SUFFICES ASSUME NEW p \in BoundIn(binding) \ S
                 PROVE  BufferIn(binding, p) \in DOMAIN media'
      BY <1>4, <1>8
    <3>1. BufferIn(binding, p) \in DOMAIN media
      BY <1>2, NowFacts
    <3>2. \A q \in S : BufferIn(binding, p) # BufferIn(binding, q)
      BY BufferPage
    <3> QED
      BY <1>8, <3>1, <3>2
  <2>5. /\ BoundIn(binding') \subseteq BoundIn(binding) \cup S
        /\ BoundIn(binding') \cap S = {}
    BY <1>4
  <2>6. Coherent(binding', media', cache', content)
    BY <2>1, <2>2, <2>3, <2>4, <2>5, CoherentStep
  <2> QED
    BY <2>6
<1> QED
  BY <1>5, <1>7, <1>10, <1>11 DEF Now, Sound

LEMMA ReleaseSound ==
  ASSUME TransferInv, NEW r \in Requests, Release(r)
  PROVE  TransferInv'
<1>1. /\ mode = "boundary" /\ Idle(r) /\ Released(PagesOf[r] \cap Bound)
      /\ UNCHANGED <<plans, content, current, batch, nextPlan, mode, todo, undo, saved>>
  BY DEF Release, loopState, counters
<1>2. Now /\ Holds(Held, plans, current)'
  BY <1>1 DEF TransferInv, Now, Sound, Held
<1>3. Now'
  BY <1>1, <1>2, ReleasedSound DEF Idle
<1> QED
  BY <1>1, <1>3, ModesFrame DEF TransferInv

\* Once every page of a cancelled batch was discarded, no plan is left.
LEMMA EndDiscardSound ==
  ASSUME TransferInv, EndDiscard
  PROVE  TransferInv'
<1>1. PICK r \in Requests : Released(PagesOf[r] \cap Bound)
  BY DEF EndDiscard
<1>2. /\ mode = "discard" /\ todo = <<>> /\ mode' = "boundary" /\ batch' = <<>>
      /\ UNCHANGED <<plans, content, current, nextPlan, todo, undo>>
  BY DEF EndDiscard, counters
<1>3. Now /\ Held = <<>>
  BY <1>2 DEF TransferInv, Held
<1>4. DOMAIN plans = {}
  BY <1>3 DEF Now, Sound, Holds
<1>5. \A p \in Pages : ~pool[p].pending
  BY <1>3, <1>4 DEF Now, Sound, Transfers
<1>6. Holds(Held, plans, current)'
  BY <1>2, <1>4 DEF Held, Holds
<1>7. Now'
  BY <1>1, <1>2, <1>3, <1>5, <1>6, NowFacts, ReleasedSound
<1>8. SavedSound' /\ nextPlan' \in Nat
  BY <1>2, SavedFrame DEF TransferInv, Guarded
<1>9. TodoPages' /\ UndoSound' /\ Fresh(plans)'
  BY <1>2 DEF TransferInv, TodoPages, UndoSound, Fresh
<1> QED
  BY <1>2, <1>7, <1>8, <1>9 DEF TransferInv

------------------------------------------------------------------------------
(* The end of a transfer. *)

\* A sequence without its last element, and without its first.
LEMMA RemoveLast ==
  ASSUME NEW T, NEW s \in Seq(T), s # <<>>
  PROVE  /\ RemoveAt(s, Len(s)) \in Seq(T) /\ Len(s) \in Nat \ {0} /\ DOMAIN s = 1 .. Len(s)
         /\ Len(RemoveAt(s, Len(s))) = Len(s) - 1
         /\ DOMAIN RemoveAt(s, Len(s)) = 1 .. Len(s) - 1
         /\ \A n \in 1 .. Len(s) - 1 : RemoveAt(s, Len(s))[n] = s[n]
<1>1. Len(s) \in Nat \ {0} /\ DOMAIN s = 1 .. Len(s)
  BY EmptySeq, LenProperties
<1>2. PICK a : a = SubSeq(s, 1, Len(s) - 1)
  OBVIOUS
<1>3. PICK b : b = SubSeq(s, Len(s) + 1, Len(s))
  OBVIOUS
<1>4. RemoveAt(s, Len(s)) = a \o b
  BY <1>2, <1>3 DEF RemoveAt
<1>5. /\ a \in Seq(T) /\ Len(a) = Len(s) - 1
      /\ \A n \in 1 .. Len(s) - 1 : a[n] = s[n]
  BY <1>1, <1>2, SubSeqProperties
<1>6. b \in Seq(T) /\ Len(b) = 0
  BY <1>1, <1>3, SubSeqProperties
<1>7. /\ a \o b \in Seq(T) /\ Len(a \o b) = Len(a) + Len(b)
      /\ \A n \in 1 .. Len(a) + Len(b) :
           (a \o b)[n] = IF n <= Len(a) THEN a[n] ELSE b[n - Len(a)]
  BY <1>5, <1>6, ConcatProperties
<1>8. /\ Len(a \o b) = Len(s) - 1
      /\ \A n \in 1 .. Len(s) - 1 : (a \o b)[n] = s[n]
  BY <1>1, <1>5, <1>6, <1>7
<1> QED
  BY <1>1, <1>4, <1>7, <1>8, LenProperties

LEMMA TailIs ==
  ASSUME NEW T, NEW s \in Seq(T), s # <<>>
  PROVE  /\ Tail(s) \in Seq(T) /\ Len(s) \in Nat \ {0} /\ DOMAIN s = 1 .. Len(s)
         /\ 1 \in DOMAIN s /\ s[1] \in T
         /\ DOMAIN Tail(s) = 1 .. Len(s) - 1
         /\ \A n \in 1 .. Len(s) - 1 : Tail(s)[n] = s[n + 1] /\ n + 1 \in DOMAIN s /\ n + 1 # 1
         /\ \A n \in DOMAIN s \ {1} : n - 1 \in 1 .. Len(s) - 1 /\ Tail(s)[n - 1] = s[n]
<1>1. Len(s) \in Nat \ {0} /\ DOMAIN s = 1 .. Len(s) /\ 1 \in DOMAIN s /\ s[1] \in T
  BY EmptySeq, LenProperties, ElementOfSeq
<1>2. /\ Tail(s) \in Seq(T) /\ DOMAIN Tail(s) = 1 .. Len(s) - 1
      /\ \A n \in 1 .. Len(s) - 1 : Tail(s)[n] = s[n + 1]
  BY HeadTailProperties, LenProperties
<1>3. \A n \in 1 .. Len(s) - 1 : n + 1 \in DOMAIN s /\ n + 1 # 1
  BY <1>1
<1>4. \A n \in DOMAIN s \ {1} : n - 1 \in 1 .. Len(s) - 1 /\ (n - 1) + 1 = n
  BY <1>1
<1> QED
  BY <1>1, <1>2, <1>3, <1>4

\* What a held callback is.
LEMMA HeldIs ==
  ASSUME Now, NEW n \in DOMAIN Held
  PROVE  /\ Held[n].plan \in DOMAIN plans /\ Held[n] = current[Held[n].plan]
         /\ InTransfer(pool, binding, content, plans, current, Held[n].plan)
<1>1. Held[n] \in {current[i] : i \in DOMAIN plans}
  BY ElementOfSeq, LenProperties DEF Now, Sound, Holds
<1>2. \A i \in DOMAIN plans : InTransfer(pool, binding, content, plans, current, i)
  BY DEF Now, Sound, Transfers
<1> QED
  BY <1>1, <1>2 DEF InTransfer

\* The callbacks held without the one of the plan that ended.
LEMMA HoldsFinished ==
  ASSUME NEW held, NEW ps, NEW cur, Holds(held, ps, cur), NEW k \in DOMAIN held,
         DOMAIN ps = DOMAIN cur, \A i \in DOMAIN ps : cur[i].plan = i,
         NEW rest \in Seq({cur[i] : i \in DOMAIN ps}),
         \A n \in DOMAIN rest : \E m \in DOMAIN held \ {k} : rest[n] = held[m],
         \A m \in DOMAIN held \ {k} : \E n \in DOMAIN rest : rest[n] = held[m],
         \A m, n \in DOMAIN rest : rest[m].plan = rest[n].plan => m = n
  PROVE  Holds(rest, Without(ps, {held[k].plan}), Without(cur, {held[k].plan}))
<1>1. PICK i : i = held[k].plan
  OBVIOUS
<1>2. PICK ps2, cur2 : ps2 = Without(ps, {i}) /\ cur2 = Without(cur, {i})
  OBVIOUS
<1>3. /\ DOMAIN ps2 = DOMAIN ps \ {i}
      /\ \A j \in DOMAIN cur : j # i => cur2[j] = cur[j]
  BY <1>2 DEF Without
<1>4. \A m \in DOMAIN held \ {k} : \E j \in DOMAIN ps : j # i /\ held[m] = cur[j]
  <2> SUFFICES ASSUME NEW m \in DOMAIN held \ {k}
               PROVE  \E j \in DOMAIN ps : j # i /\ held[m] = cur[j]
    OBVIOUS
  <2>1. held[m] \in {cur[j] : j \in DOMAIN ps}
    BY ElementOfSeq, LenProperties DEF Holds
  <2>2. held[m].plan # i
    BY <1>1 DEF Holds
  <2> QED
    BY <2>1, <2>2
<1>5. Len(rest) \in Nat /\ DOMAIN rest = 1 .. Len(rest)
  BY LenProperties
<1>6. \A n \in DOMAIN rest : \E j \in DOMAIN ps2 : rest[n] = cur[j] /\ j # i
  BY <1>3, <1>4
<1>7. Holds(rest, ps2, cur2)
  <2>1. \A n \in DOMAIN rest : rest[n] \in {cur2[j] : j \in DOMAIN ps2}
    BY <1>3, <1>6
  <2>2. rest \in Seq({cur2[j] : j \in DOMAIN ps2})
    BY <1>5, <2>1, IsASeq, LenProperties
  <2>3. ASSUME NEW j \in DOMAIN ps2 PROVE \E n \in DOMAIN rest : rest[n].plan = j
    <3>1. j \in DOMAIN ps /\ j # i
      BY <1>3
    <3>2. PICK m \in DOMAIN held : held[m].plan = j
      BY <3>1 DEF Holds
    <3>3. m # k
      BY <1>1, <3>1, <3>2
    <3> QED
      BY <3>2, <3>3
  <2> QED
    BY <2>2, <2>3 DEF Holds
<1> QED
  BY <1>1, <1>2, <1>7

\* The transfers without one of them, whose page is idle again.
LEMMA TransfersFinished ==
  ASSUME NEW P, NEW B, NEW X, NEW ps, NEW cur, Transfers(P, B, X, ps, cur), NEW k \in DOMAIN ps,
         NEW P2, NEW B2, ~P2[cur[k].page].pending,
         \A q \in Pages \ {cur[k].page} : P2[q].pending = P[q].pending /\ B2[q] = B[q]
  PROVE  Transfers(P2, B2, X, Without(ps, {k}), Without(cur, {k}))
<1>1. PICK ps2, cur2 : ps2 = Without(ps, {k}) /\ cur2 = Without(cur, {k})
  OBVIOUS
<1>2. /\ DOMAIN ps2 = DOMAIN ps \ {k} /\ DOMAIN cur2 = DOMAIN ps \ {k}
      /\ \A i \in DOMAIN ps2 : cur2[i] = cur[i] /\ ps2[i] = ps[i]
  BY <1>1 DEF Without, Transfers
<1>3. ASSUME NEW i \in DOMAIN ps2 PROVE InTransfer(P2, B2, X, ps2, cur2, i)
  <2>1. i \in DOMAIN ps /\ cur[i].page # cur[k].page /\ cur[i].page \in Pages
    BY <1>2 DEF Transfers, InTransfer
  <2>2. InTransfer(P, B, X, ps, cur, i)
    BY <2>1 DEF Transfers
  <2>3. /\ P2[cur[i].page].pending = P[cur[i].page].pending
        /\ B2[cur[i].page] = B[cur[i].page] /\ cur2[i] = cur[i] /\ ps2[i] = ps[i]
    BY <1>2, <2>1
  <2> QED
    BY <2>2, <2>3 DEF InTransfer
<1>4. \A i, j \in DOMAIN ps2 : cur2[i].page = cur2[j].page => i = j
  BY <1>2 DEF Transfers
<1>5. ASSUME NEW p \in Pages, P2[p].pending PROVE \E i \in DOMAIN ps2 : cur2[i].page = p
  <2>1. p # cur[k].page /\ P[p].pending
    BY <1>5
  <2>2. PICK i \in DOMAIN ps : cur[i].page = p
    BY <2>1 DEF Transfers
  <2> QED
    BY <1>2, <2>1, <2>2
<1>6. Transfers(P2, B2, X, ps2, cur2)
  BY <1>2, <1>3, <1>4, <1>5 DEF Transfers
<1> QED
  BY <1>1, <1>6

\* The buffers of the other transfers.
LEMMA BuffersFinished ==
  ASSUME NEW ps, NEW cur, DOMAIN ps = DOMAIN cur, NEW k
  PROVE  TransferBuffers(Without(cur, {k}), DOMAIN Without(ps, {k}))
           = TransferBuffers(cur, DOMAIN ps \ {k})
<1>1. PICK ps2, cur2 : ps2 = Without(ps, {k}) /\ cur2 = Without(cur, {k})
  OBVIOUS
<1>2. DOMAIN ps2 = DOMAIN ps \ {k} /\ \A i \in DOMAIN ps \ {k} : cur2[i] = cur[i]
  BY <1>1 DEF Without
<1>3. TransferBuffers(cur2, DOMAIN ps2) = TransferBuffers(cur, DOMAIN ps \ {k})
  BY <1>2 DEF TransferBuffers
<1> QED
  BY <1>1, <1>3

\* The buffers of a transfer, those of the others and those of the pages are apart.
LEMMA BuffersSplit ==
  ASSUME NEW P, NEW B, NEW X, NEW ps, NEW cur, Placed(P, B), Transfers(P, B, X, ps, cur),
         NEW k \in DOMAIN ps
  PROVE  /\ TransferBuffers(cur, DOMAIN ps)
              = TransferBuffers(cur, DOMAIN ps \ {k}) \cup {TargetOf(cur[k]), RelayOf(cur[k])}
         /\ TargetOf(cur[k]) \notin TransferBuffers(cur, DOMAIN ps \ {k})
         /\ RelayOf(cur[k]) \notin TransferBuffers(cur, DOMAIN ps \ {k})
         /\ TargetOf(cur[k]) # RelayOf(cur[k])
         /\ \A p \in BoundIn(B) : /\ BufferIn(B, p) \notin TransferBuffers(cur, DOMAIN ps)
                                  /\ BufferIn(B, p) # TargetOf(cur[k])
                                  /\ BufferIn(B, p) # RelayOf(cur[k])
<1>1. TransferBuffers(cur, DOMAIN ps)
        = TransferBuffers(cur, DOMAIN ps \ {k}) \cup {TargetOf(cur[k]), RelayOf(cur[k])}
  BY DEF TransferBuffers
<1>2. \A i \in DOMAIN ps \ {k} : /\ TargetOf(cur[k]) # TargetOf(cur[i])
                                 /\ TargetOf(cur[k]) # RelayOf(cur[i])
                                 /\ RelayOf(cur[k]) # TargetOf(cur[i])
                                 /\ RelayOf(cur[k]) # RelayOf(cur[i])
  BY TransferBuffersApart
<1>3. /\ TargetOf(cur[k]) \notin TransferBuffers(cur, DOMAIN ps \ {k})
      /\ RelayOf(cur[k]) \notin TransferBuffers(cur, DOMAIN ps \ {k})
  BY <1>2 DEF TransferBuffers
<1>4. \A p \in BoundIn(B) : \A i \in DOMAIN ps : /\ TargetOf(cur[i]) # BufferIn(B, p)
                                                 /\ RelayOf(cur[i]) # BufferIn(B, p)
  BY TransferBuffersApart
<1>5. \A p \in BoundIn(B) : BufferIn(B, p) \notin TransferBuffers(cur, DOMAIN ps)
  BY <1>4 DEF TransferBuffers
<1>6. TargetOf(cur[k]) # RelayOf(cur[k])
  BY TransferBuffersApart
<1> QED
  BY <1>1, <1>3, <1>4, <1>5, <1>6

LEMMA AllocatedFinished ==
  ASSUME NEW B, NEW M, NEW ps, NEW cur, Allocated(B, M, ps, cur), DOMAIN ps = DOMAIN cur,
         NEW k \in DOMAIN ps, NEW B2, NEW M2, \A x \in DOMAIN M2 : M2[x] = M[x],
         DOMAIN M2 = {BufferIn(B2, q) : q \in BoundIn(B2)}
                       \cup TransferBuffers(cur, DOMAIN ps \ {k})
  PROVE  Allocated(B2, M2, Without(ps, {k}), Without(cur, {k}))
<1>1. PICK ps2, cur2 : ps2 = Without(ps, {k}) /\ cur2 = Without(cur, {k})
  OBVIOUS
<1>2. /\ DOMAIN ps2 = DOMAIN ps \ {k}
      /\ \A i \in DOMAIN ps2 : cur2[i] = cur[i]
  BY <1>1 DEF Without
<1>3. TransferBuffers(cur2, DOMAIN ps2) = TransferBuffers(cur, DOMAIN ps \ {k})
  BY <1>1, BuffersFinished
<1>4. \A i \in DOMAIN ps2 : TargetOf(cur[i]) \in DOMAIN M2
  BY <1>2 DEF TransferBuffers
<1>5. \A i \in DOMAIN ps2 : cur2[i].phase = cur2[i].steps => M2[TargetOf(cur2[i])] = cur2[i].data
  BY <1>2, <1>4 DEF Allocated
<1>6. Allocated(B2, M2, ps2, cur2)
  BY <1>3, <1>5 DEF Allocated
<1> QED
  BY <1>1, <1>6

\* The first callback still to be treated, and the rest.
LEMMA FirstHeld ==
  ASSUME Now, mode \in {"publish", "discard"}, todo # <<>>,
         NEW k, k = todo[1].plan
  PROVE  /\ k \in DOMAIN plans /\ todo[1] = current[k]
         /\ InTransfer(pool, binding, content, plans, current, k)
         /\ Holds(Tail(todo), Without(plans, {k}), Without(current, {k}))
<1>1. Held = todo
  BY DEF Held
<1>2. PICK T : T = {current[i] : i \in DOMAIN plans}
  OBVIOUS
<1>3. todo \in Seq(T)
  BY <1>1, <1>2 DEF Now, Sound, Holds
<1>4. /\ Tail(todo) \in Seq(T) /\ 1 \in DOMAIN todo
      /\ DOMAIN Tail(todo) = 1 .. Len(todo) - 1
      /\ \A n \in 1 .. Len(todo) - 1 :
           Tail(todo)[n] = todo[n + 1] /\ n + 1 \in DOMAIN todo /\ n + 1 # 1
      /\ \A n \in DOMAIN todo \ {1} :
           n - 1 \in 1 .. Len(todo) - 1 /\ Tail(todo)[n - 1] = todo[n]
      /\ Len(todo) \in Nat
  BY <1>3, TailIs
<1>5. /\ k \in DOMAIN plans /\ todo[1] = current[k]
      /\ InTransfer(pool, binding, content, plans, current, k)
  BY <1>1, <1>4, HeldIs
<1>6. PICK rest : rest = Tail(todo)
  OBVIOUS
<1>7. \A n \in DOMAIN rest : \E m \in DOMAIN todo \ {1} : rest[n] = todo[m]
  BY <1>4, <1>6
<1>8. \A m \in DOMAIN todo \ {1} : \E n \in DOMAIN rest : rest[n] = todo[m]
  BY <1>4, <1>6
<1>9. \A m, n \in DOMAIN rest : rest[m].plan = rest[n].plan => m = n
  <2> SUFFICES ASSUME NEW m \in DOMAIN rest, NEW n \in DOMAIN rest, rest[m].plan = rest[n].plan
               PROVE  m = n
    OBVIOUS
  <2>1. /\ m \in Int /\ n \in Int /\ m + 1 \in DOMAIN todo /\ n + 1 \in DOMAIN todo
        /\ rest[m] = todo[m + 1] /\ rest[n] = todo[n + 1]
    BY <1>4, <1>6
  <2>2. m + 1 = n + 1
    BY <1>1, <2>1 DEF Now, Sound, Holds
  <2> QED
    BY <2>1, <2>2
<1>10. /\ Holds(todo, plans, current) /\ DOMAIN plans = DOMAIN current
       /\ \A i \in DOMAIN plans : current[i].plan = i
  BY <1>1 DEF Now, Sound, Transfers, InTransfer
<1>11. rest \in Seq({current[i] : i \in DOMAIN plans})
  BY <1>2, <1>4, <1>6
<1>12. Holds(rest, Without(plans, {todo[1].plan}), Without(current, {todo[1].plan}))
  BY <1>4, <1>7, <1>8, <1>9, <1>10, <1>11, HoldsFinished
<1> QED
  BY <1>5, <1>6, <1>12

\* A published page is at its target, with its last content.
LEMMA PublishSound ==
  ASSUME TransferInv, PublishPage
  PROVE  TransferInv'
<1>1. PICK c : c = todo[1]
  OBVIOUS
<1>2. PICK k, p : k = c.plan /\ p = c.page
  OBVIOUS
<1>3. /\ mode = "publish" /\ mode' = mode /\ todo # <<>> /\ MayCommit(c)
      /\ Freed({Buffer(p), RelayOf(c)}) /\ Rebind(c) /\ Finish(c)
      /\ todo' = Tail(todo)
      /\ UNCHANGED <<content, batch, nextPlan, mode, undo, saved>>
  BY <1>1, <1>2 DEF PublishPage
<1>4. Now
  BY DEF TransferInv
<1>5. /\ k \in DOMAIN plans /\ c = current[k]
      /\ InTransfer(pool, binding, content, plans, current, k)
      /\ Holds(todo', Without(plans, {k}), Without(current, {k}))
  BY <1>1, <1>2, <1>3, <1>4, FirstHeld
<1>6. /\ p \in Pages /\ c.target = "hbm" /\ c.gen = binding[p].gen + 1
      /\ binding[p].tier = "hbf" /\ c.phase = c.steps /\ c.data = content[p]
  BY <1>2, <1>3, <1>5 DEF InTransfer, MayCommit
<1>7. /\ plans' = Without(plans, {k}) /\ current' = Without(current, {k})
      /\ media' = Without(media, {Buffer(p), RelayOf(c)})
      /\ cache' = Discarded(cache, {Buffer(p), RelayOf(c)})
      /\ binding' = [binding EXCEPT ![p] = [tier |-> c.target, gen |-> c.gen]]
      /\ pool' = [pool EXCEPT ![p] = [tier |-> c.target, gen |-> @.gen + 1, pending |-> FALSE]]
  BY <1>2, <1>3 DEF Finish, Freed, Rebind
<1>8. /\ \A q \in Pages \ {p} : binding'[q] = binding[q] /\ pool'[q] = pool[q]
      /\ binding'[p] = [tier |-> "hbm", gen |-> c.gen]
      /\ pool'[p] = [tier |-> "hbm", gen |-> pool[p].gen + 1, pending |-> FALSE]
  BY <1>4, <1>6, <1>7 DEF Now, Sound, Placed
<1>9. /\ binding'[p].tier = "hbm" /\ binding'[p].gen = c.gen /\ ~pool'[p].pending
  BY <1>8
<1>10. Placed(pool, binding)'
  <2>1. binding[p].gen = pool[p].gen /\ binding[p].gen \in Nat
    BY <1>4, <1>6, NowFacts
  <2>2. /\ pool' \in [Pages -> [tier : TierNames, gen : Nat, pending : BOOLEAN]]
        /\ binding' \in [Pages -> [tier : TierNames, gen : Nat]]
    BY <1>4, <1>6, <1>7, <2>1 DEF Now, Sound, Placed, TierNames, Tiers
  <2>3. \A q \in Pages : /\ binding'[q].tier = pool'[q].tier /\ binding'[q].gen = pool'[q].gen
                         /\ binding'[q].tier = "none" => binding'[q].gen = 0
    BY <1>4, <1>6, <1>8, <2>1 DEF Now, Sound, Placed
  <2>4. Placed(pool', binding')
    BY <2>2, <2>3 DEF Placed
  <2> QED
    BY <2>4
<1>11. Transfers(pool, binding, content, plans, current)'
  <2>1. /\ ~pool'[current[k].page].pending
        /\ \A q \in Pages \ {current[k].page} :
             pool'[q].pending = pool[q].pending /\ binding'[q] = binding[q]
    BY <1>2, <1>5, <1>8, <1>9
  <2>2. Transfers(pool, binding, content, plans, current)
    BY <1>4 DEF Now, Sound
  <2>3. Transfers(pool', binding', content, Without(plans, {k}), Without(current, {k}))
    BY <1>5, <2>1, <2>2, TransfersFinished
  <2> QED
    BY <1>3, <1>7, <2>3
<1>12. /\ BoundIn(binding) = BoundIn(binding') /\ p \in BoundIn(binding)
       /\ \A q \in BoundIn(binding) \ {p} : BufferIn(binding', q) = BufferIn(binding, q)
       /\ BufferIn(binding', p) = TargetOf(c)
       /\ Buffer(p) = BufferIn(binding, p)
  BY <1>2, <1>6, <1>8, <1>9 DEF BoundIn, BufferIn, TargetOf, Tiers, Buffer
<1>13. /\ TransferBuffers(current, DOMAIN plans)
            = TransferBuffers(current, DOMAIN plans \ {k}) \cup {TargetOf(c), RelayOf(c)}
       /\ TargetOf(c) \notin TransferBuffers(current, DOMAIN plans \ {k})
       /\ RelayOf(c) \notin TransferBuffers(current, DOMAIN plans \ {k})
       /\ TargetOf(c) # RelayOf(c)
       /\ \A q \in BoundIn(binding) :
            /\ BufferIn(binding, q) \notin TransferBuffers(current, DOMAIN plans)
            /\ BufferIn(binding, q) # TargetOf(c) /\ BufferIn(binding, q) # RelayOf(c)
  <2>1. PICK d : d = current[k]
    OBVIOUS
  <2>2. Placed(pool, binding) /\ Transfers(pool, binding, content, plans, current)
    BY <1>4 DEF Now, Sound
  <2>3. /\ TransferBuffers(current, DOMAIN plans)
             = TransferBuffers(current, DOMAIN plans \ {k}) \cup {TargetOf(d), RelayOf(d)}
        /\ TargetOf(d) \notin TransferBuffers(current, DOMAIN plans \ {k})
        /\ RelayOf(d) \notin TransferBuffers(current, DOMAIN plans \ {k})
        /\ TargetOf(d) # RelayOf(d)
        /\ \A q \in BoundIn(binding) :
             /\ BufferIn(binding, q) \notin TransferBuffers(current, DOMAIN plans)
             /\ BufferIn(binding, q) # TargetOf(d) /\ BufferIn(binding, q) # RelayOf(d)
    BY <1>5, <2>1, <2>2, BuffersSplit
  <2>4. c = d
    BY <1>5, <2>1
  <2> QED
    BY <2>3, <2>4
<1>14. /\ DOMAIN media = {BufferIn(binding, q) : q \in BoundIn(binding)}
                           \cup TransferBuffers(current, DOMAIN plans)
       /\ media[TargetOf(c)] = content[p]
  BY <1>4, <1>5, <1>6 DEF Now, Sound, Allocated
<1>15. /\ DOMAIN media' = DOMAIN media \ {BufferIn(binding, p), RelayOf(c)}
       /\ \A x \in DOMAIN media' : media'[x] = media[x]
  BY <1>7, <1>12 DEF Without
<1>16. \A q \in BoundIn(binding) : q # p => BufferIn(binding, q) # BufferIn(binding, p)
  BY BufferPage
<1>17. DOMAIN media' = {BufferIn(binding', q) : q \in BoundIn(binding')}
                         \cup TransferBuffers(current, DOMAIN plans \ {k})
  <2>1. {BufferIn(binding', q) : q \in BoundIn(binding')}
          = ({BufferIn(binding, q) : q \in BoundIn(binding)} \ {BufferIn(binding, p)})
              \cup {TargetOf(c)}
    BY <1>12, <1>16
  <2>2. /\ BufferIn(binding, p) \notin TransferBuffers(current, DOMAIN plans)
        /\ RelayOf(c) \notin {BufferIn(binding, q) : q \in BoundIn(binding)}
        /\ BufferIn(binding, p) # TargetOf(c)
    BY <1>12, <1>13
  <2> QED
    BY <1>13, <1>14, <1>15, <2>1, <2>2
<1>18. Allocated(binding, media, plans, current)'
  <2>1. Allocated(binding', media', Without(plans, {k}), Without(current, {k}))
    BY <1>4, <1>5, <1>15, <1>17, AllocatedFinished DEF Now, Sound, Transfers
  <2> QED
    BY <1>7, <2>1
<1>19. Coherent(binding, media, cache, content)'
  <2> DEFINE S == {p}
  <2>1. Coherent(binding, media, cache, content) /\ cache \in Seq(Line)
    BY <1>4 DEF Now, Sound, Coherent
  <2>2. /\ cache' \in Seq(Line)
        /\ Range(cache') = {l \in Range(cache) : l.buffer \notin {Buffer(p), RelayOf(c)}}
    BY <1>7, <2>1, DiscardedIs
  <2>3. \A l \in Range(cache) : l.buffer # RelayOf(c)
    BY <1>13, <2>1 DEF Coherent
  <2>4. Range(cache') = {l \in Range(cache) : \A q \in S : l.buffer # BufferIn(binding, q)}
    BY <1>12, <2>2, <2>3
  <2>5. \A q \in BoundIn(binding) \ S :
          /\ q \in BoundIn(binding') /\ BufferIn(binding', q) = BufferIn(binding, q)
          /\ media'[BufferIn(binding, q)] = media[BufferIn(binding, q)]
    BY <1>12, <1>13, <1>14, <1>15, <1>16
  <2>6. BoundIn(binding') \subseteq BoundIn(binding) \cup S
    BY <1>12
  <2>7. \A q \in BoundIn(binding') \cap S : media'[BufferIn(binding', q)] = content[q]
    <3>1. TargetOf(c) \in DOMAIN media'
      BY <1>12, <1>17
    <3> QED
      BY <1>12, <1>14, <1>15, <3>1
  <2> HIDE DEF S
  <2>8. Coherent(binding', media', cache', content)
    BY <2>1, <2>2, <2>4, <2>5, <2>6, <2>7, CoherentStep
  <2> QED
    BY <1>3, <2>8
<1>20. Holds(Held, plans, current)'
  <2>1. Held' = todo'
    BY <1>3 DEF Held
  <2> QED
    BY <1>5, <1>7, <2>1
<1>21. Now'
  BY <1>10, <1>11, <1>18, <1>19, <1>20 DEF Now, Sound
<1>22. DOMAIN plans' \subseteq DOMAIN plans
  BY <1>7 DEF Without
<1> QED
  BY <1>3, <1>21, <1>22, ModesFrame DEF TransferInv

\* The target of a page given up is free again; the page stays where it is.
LEMMA DiscardSound ==
  ASSUME TransferInv, DiscardPage
  PROVE  TransferInv'
<1>1. PICK c : c = todo[1]
  OBVIOUS
<1>2. PICK k, p : k = c.plan /\ p = c.page
  OBVIOUS
<1>3. /\ mode = "discard" /\ mode' = mode /\ todo # <<>>
      /\ Freed({TargetOf(c), RelayOf(c)}) /\ Finish(c)
      /\ pool' = [pool EXCEPT ![p].pending = FALSE]
      /\ todo' = Tail(todo)
      /\ UNCHANGED <<binding, content, batch, nextPlan, mode, undo, saved>>
  BY <1>1, <1>2 DEF DiscardPage
<1>4. Now
  BY DEF TransferInv
<1>5. /\ k \in DOMAIN plans /\ c = current[k]
      /\ InTransfer(pool, binding, content, plans, current, k)
      /\ Holds(todo', Without(plans, {k}), Without(current, {k}))
  BY <1>1, <1>2, <1>3, <1>4, FirstHeld
<1>6. p \in Pages
  BY <1>2, <1>5 DEF InTransfer
<1>7. /\ plans' = Without(plans, {k}) /\ current' = Without(current, {k})
      /\ media' = Without(media, {TargetOf(c), RelayOf(c)})
      /\ cache' = Discarded(cache, {TargetOf(c), RelayOf(c)})
  BY <1>2, <1>3 DEF Finish, Freed
<1>8. /\ \A q \in Pages \ {p} : pool'[q] = pool[q]
      /\ pool'[p] = [pool[p] EXCEPT !.pending = FALSE]
      /\ ~pool'[p].pending
  <2>1. /\ pool \in [Pages -> [tier : TierNames, gen : Nat, pending : BOOLEAN]]
        /\ pool[p] \in [tier : TierNames, gen : Nat, pending : BOOLEAN]
    BY <1>4, <1>6 DEF Now, Sound, Placed
  <2>2. pool' = [pool EXCEPT ![p] = [pool[p] EXCEPT !.pending = FALSE]]
    BY <1>3
  <2>3. ~[pool[p] EXCEPT !.pending = FALSE].pending
    BY <2>1
  <2> QED
    BY <1>6, <2>1, <2>2, <2>3
<1>9. Placed(pool', binding)
  <2>1. /\ pool \in [Pages -> [tier : TierNames, gen : Nat, pending : BOOLEAN]]
        /\ binding \in [Pages -> [tier : TierNames, gen : Nat]]
        /\ \A q \in Pages : /\ binding[q].tier = pool[q].tier /\ binding[q].gen = pool[q].gen
                            /\ binding[q].tier = "none" => binding[q].gen = 0
    BY <1>4 DEF Now, Sound, Placed
  <2>2. [pool[p] EXCEPT !.pending = FALSE] \in [tier : TierNames, gen : Nat, pending : BOOLEAN]
        /\ [pool[p] EXCEPT !.pending = FALSE].tier = pool[p].tier
        /\ [pool[p] EXCEPT !.pending = FALSE].gen = pool[p].gen
    BY <1>6, <2>1
  <2>3. pool' \in [Pages -> [tier : TierNames, gen : Nat, pending : BOOLEAN]]
    BY <1>3, <1>6, <2>1, <2>2
  <2>4. \A q \in Pages : pool'[q].tier = pool[q].tier /\ pool'[q].gen = pool[q].gen
    BY <1>8, <2>2
  <2> QED
    BY <2>1, <2>3, <2>4 DEF Placed
<1>10. Transfers(pool', binding, content, plans', current')
  <2>1. /\ ~pool'[current[k].page].pending
        /\ \A q \in Pages \ {current[k].page} :
             pool'[q].pending = pool[q].pending /\ binding[q] = binding[q]
    BY <1>2, <1>5, <1>8
  <2>2. Transfers(pool, binding, content, plans, current)
    BY <1>4 DEF Now, Sound
  <2>3. Transfers(pool', binding, content, Without(plans, {k}), Without(current, {k}))
    BY <1>5, <2>1, <2>2, TransfersFinished
  <2> QED
    BY <1>7, <2>3
<1>11. /\ TransferBuffers(current, DOMAIN plans)
            = TransferBuffers(current, DOMAIN plans \ {k}) \cup {TargetOf(c), RelayOf(c)}
       /\ TargetOf(c) \notin TransferBuffers(current, DOMAIN plans \ {k})
       /\ RelayOf(c) \notin TransferBuffers(current, DOMAIN plans \ {k})
       /\ \A q \in BoundIn(binding) :
            /\ BufferIn(binding, q) # TargetOf(c) /\ BufferIn(binding, q) # RelayOf(c)
  <2>1. PICK d : d = current[k]
    OBVIOUS
  <2>2. Placed(pool, binding) /\ Transfers(pool, binding, content, plans, current)
    BY <1>4 DEF Now, Sound
  <2>3. /\ TransferBuffers(current, DOMAIN plans)
             = TransferBuffers(current, DOMAIN plans \ {k}) \cup {TargetOf(d), RelayOf(d)}
        /\ TargetOf(d) \notin TransferBuffers(current, DOMAIN plans \ {k})
        /\ RelayOf(d) \notin TransferBuffers(current, DOMAIN plans \ {k})
        /\ TargetOf(d) # RelayOf(d)
        /\ \A q \in BoundIn(binding) :
             /\ BufferIn(binding, q) \notin TransferBuffers(current, DOMAIN plans)
             /\ BufferIn(binding, q) # TargetOf(d) /\ BufferIn(binding, q) # RelayOf(d)
    BY <1>5, <2>1, <2>2, BuffersSplit
  <2>4. c = d
    BY <1>5, <2>1
  <2> QED
    BY <2>3, <2>4
<1>12. DOMAIN media = {BufferIn(binding, q) : q \in BoundIn(binding)}
                        \cup TransferBuffers(current, DOMAIN plans)
  BY <1>4 DEF Now, Sound, Allocated
<1>13. /\ DOMAIN media' = DOMAIN media \ {TargetOf(c), RelayOf(c)}
       /\ \A x \in DOMAIN media' : media'[x] = media[x]
  BY <1>7 DEF Without
<1>14. DOMAIN media' = {BufferIn(binding, q) : q \in BoundIn(binding)}
                         \cup TransferBuffers(current, DOMAIN plans \ {k})
  BY <1>11, <1>12, <1>13
<1>15. Allocated(binding, media', plans', current')
  <2>1. Allocated(binding, media', Without(plans, {k}), Without(current, {k}))
    BY <1>4, <1>5, <1>13, <1>14, AllocatedFinished DEF Now, Sound, Transfers
  <2> QED
    BY <1>7, <2>1
<1>16. Coherent(binding, media', cache', content)
  <2> DEFINE S == {}
  <2>1. Coherent(binding, media, cache, content) /\ cache \in Seq(Line)
    BY <1>4 DEF Now, Sound, Coherent
  <2>2. /\ cache' \in Seq(Line)
        /\ Range(cache') = {l \in Range(cache) : l.buffer \notin {TargetOf(c), RelayOf(c)}}
    BY <1>7, <2>1, DiscardedIs
  <2>3. \A l \in Range(cache) : l.buffer # TargetOf(c) /\ l.buffer # RelayOf(c)
    BY <1>11, <2>1 DEF Coherent
  <2>4. Range(cache') = {l \in Range(cache) : \A q \in S : l.buffer # BufferIn(binding, q)}
    BY <2>2, <2>3
  <2>5. \A q \in BoundIn(binding) \ S :
          /\ q \in BoundIn(binding) /\ BufferIn(binding, q) = BufferIn(binding, q)
          /\ media'[BufferIn(binding, q)] = media[BufferIn(binding, q)]
    BY <1>13, <1>14
  <2>6. /\ BoundIn(binding) \subseteq BoundIn(binding) \cup S
        /\ \A q \in BoundIn(binding) \cap S : media'[BufferIn(binding, q)] = content[q]
    OBVIOUS
  <2> HIDE DEF S
  <2> QED
    BY <2>1, <2>2, <2>4, <2>5, <2>6, CoherentStep
<1>17. Holds(Held, plans, current)'
  <2>1. Held' = todo'
    BY <1>3 DEF Held
  <2> QED
    BY <1>5, <1>7, <2>1
<1>18. Now'
  BY <1>3, <1>9, <1>10, <1>15, <1>16, <1>17 DEF Now, Sound
<1>19. DOMAIN plans' \subseteq DOMAIN plans
  BY <1>7 DEF Without
<1> QED
  BY <1>3, <1>18, <1>19, ModesFrame DEF TransferInv

------------------------------------------------------------------------------
(* Preparations and their rollback. *)

\* A page whose move begins or ends is where it was.
PoolEntry == [tier : TierNames, gen : Nat, pending : BOOLEAN]
LEMMA PlacedPending ==
  ASSUME NEW P, NEW B, Placed(P, B), NEW p \in Pages,
         NEW x \in PoolEntry, x.tier = P[p].tier, x.gen = P[p].gen
  PROVE  Placed([P EXCEPT ![p] = x], B)
<1> DEFINE P2 == [P EXCEPT ![p] = x]
<1>1. P \in [Pages -> PoolEntry]
  BY DEF Placed, PoolEntry
<1>2. P2 \in [Pages -> PoolEntry] /\ P2[p] = x /\ \A q \in Pages \ {p} : P2[q] = P[q]
  BY <1>1
<1>3. \A q \in Pages : P2[q].tier = P[q].tier /\ P2[q].gen = P[q].gen
  BY <1>2
<1> HIDE DEF P2
<1>4. Placed(P2, B)
  BY <1>2, <1>3 DEF Placed, PoolEntry
<1> QED
  BY <1>4 DEF P2

\* The callbacks held name the buffers of the transfers in flight.
LEMMA HeldBuffers ==
  ASSUME NEW held, NEW ps, NEW cur, Holds(held, ps, cur), \A i \in DOMAIN ps : cur[i].plan = i
  PROVE  /\ TransferBuffers(cur, DOMAIN ps) = BuffersOf(held, Len(held))
         /\ Len(held) \in Nat /\ DOMAIN held = 1 .. Len(held)
<1>1. Len(held) \in Nat /\ DOMAIN held = 1 .. Len(held)
  BY LenProperties DEF Holds
<1>2. \A n \in 1 .. Len(held) : \E i \in DOMAIN ps : held[n] = cur[i]
  <2> SUFFICES ASSUME NEW n \in 1 .. Len(held) PROVE held[n] \in {cur[i] : i \in DOMAIN ps}
    OBVIOUS
  <2> QED
    BY ElementOfSeq DEF Holds
<1>3. \A i \in DOMAIN ps : \E n \in 1 .. Len(held) : held[n] = cur[i]
  <2> SUFFICES ASSUME NEW i \in DOMAIN ps PROVE \E n \in 1 .. Len(held) : held[n] = cur[i]
    OBVIOUS
  <2>1. PICK n \in DOMAIN held : held[n].plan = i
    BY DEF Holds
  <2>2. PICK j \in DOMAIN ps : held[n] = cur[j]
    BY <1>1, <1>2
  <2> QED
    BY <1>1, <2>1, <2>2
<1>4. TransferBuffers(cur, DOMAIN ps) = BuffersOf(held, Len(held))
  BY <1>2, <1>3 DEF TransferBuffers, BuffersOf
<1> QED
  BY <1>1, <1>4

\* The buffers of the callbacks held first are those of the shorter sequence.
LEMMA BuffersOfPrefix ==
  ASSUME NEW s, NEW t, NEW n, \A m \in 1 .. n : s[m] = t[m]
  PROVE  BuffersOf(s, n) = BuffersOf(t, n)
BY DEF BuffersOf

\* Taking back the last preparation.
LEMMA AbortSound ==
  ASSUME TransferInv, AbortLast
  PROVE  TransferInv'
<1>1. PICK n : n = Len(batch)
  OBVIOUS
<1>2. PICK c, k, p : c = batch[n] /\ k = c.plan /\ p = c.page
  OBVIOUS
<1>3. /\ mode = "abort" /\ mode' = mode /\ batch # <<>> /\ Finish(c)
      /\ media' = undo[n].media /\ cache' = undo[n].cache /\ binding' = undo[n].binding
      /\ pool' = [pool EXCEPT ![p].pending = FALSE]
      /\ batch' = RemoveAt(batch, n) /\ undo' = RemoveAt(undo, n)
      /\ UNCHANGED <<content, nextPlan, mode, todo, saved>>
  BY <1>1, <1>2 DEF AbortLast, Abort
<1>4. Now /\ Held = batch
  BY <1>3 DEF TransferInv, Held
<1>5. PICK T : T = {current[i] : i \in DOMAIN plans}
  OBVIOUS
<1>6. batch \in Seq(T) /\ Holds(batch, plans, current)
  BY <1>4, <1>5 DEF Now, Sound, Holds
<1>7. /\ batch' \in Seq(T) /\ n \in Nat \ {0} /\ DOMAIN batch = 1 .. n
      /\ Len(batch') = n - 1 /\ DOMAIN batch' = 1 .. n - 1
      /\ \A m \in 1 .. n - 1 : batch'[m] = batch[m]
  BY <1>1, <1>3, <1>6, RemoveLast
<1>8. n \in DOMAIN batch
  BY <1>7
<1>9. /\ k \in DOMAIN plans /\ c = current[k]
      /\ InTransfer(pool, binding, content, plans, current, k)
  BY <1>2, <1>4, <1>8, HeldIs
<1>10. /\ undo \in Seq(Range(undo)) /\ Len(undo) = n /\ undo # <<>>
       /\ \A i \in DOMAIN plans : current[i].phase = 0
       /\ \A m \in DOMAIN undo :
            /\ undo[m].binding = binding
            /\ DOMAIN undo[m].media = {Buffer(q) : q \in Bound} \cup BuffersOf(batch, m - 1)
            /\ Coherent(binding, undo[m].media, undo[m].cache, content)
  <2>1. UndoSound
    BY DEF TransferInv
  <2>2. /\ undo \in Seq(Range(undo)) /\ Len(undo) = n
    BY <1>1, <1>3, <2>1 DEF UndoSound
  <2> QED
    BY <1>3, <1>7, <2>1, <2>2, EmptySeq DEF UndoSound
<1>11. /\ undo' \in Seq(Range(undo)) /\ DOMAIN undo = 1 .. n
       /\ Len(undo') = n - 1 /\ DOMAIN undo' = 1 .. n - 1
       /\ \A m \in 1 .. n - 1 : undo'[m] = undo[m]
  BY <1>3, <1>10, RemoveLast
<1>12. /\ plans' = Without(plans, {k}) /\ current' = Without(current, {k})
       /\ binding' = binding
  <2>1. n \in DOMAIN undo
    BY <1>7, <1>8, <1>11
  <2> QED
    BY <1>2, <1>3, <1>10, <2>1 DEF Finish
<1>13. /\ p \in Pages /\ Placed(pool', binding) /\ ~pool'[p].pending
       /\ \A q \in Pages \ {p} : pool'[q] = pool[q]
  <2>1. p \in Pages
    BY <1>2, <1>9 DEF InTransfer
  <2>2. Placed(pool, binding)
    BY <1>4 DEF Now, Sound
  <2>3. PICK x : x = [pool[p] EXCEPT !.pending = FALSE]
    OBVIOUS
  <2>4. pool' = [pool EXCEPT ![p] = x]
    BY <1>3, <2>3
  <2>5. pool[p] \in PoolEntry
    BY <2>1, <2>2 DEF Placed, PoolEntry
  <2>6. x \in PoolEntry /\ x.tier = pool[p].tier /\ x.gen = pool[p].gen /\ ~x.pending
    BY <2>3, <2>5 DEF PoolEntry
  <2>7. Placed([pool EXCEPT ![p] = x], binding)
    BY <2>1, <2>2, <2>6, PlacedPending
  <2>8. Placed(pool', binding)
    BY <2>4, <2>7
  <2>9. pool'[p] = x /\ \A q \in Pages \ {p} : pool'[q] = pool[q]
    BY <2>1, <2>2, <2>4 DEF Placed
  <2> QED
    BY <2>1, <2>6, <2>8, <2>9
<1>14. Transfers(pool', binding, content, plans', current')
  <2>1. /\ ~pool'[current[k].page].pending
        /\ \A q \in Pages \ {current[k].page} :
             pool'[q].pending = pool[q].pending /\ binding[q] = binding[q]
    BY <1>2, <1>9, <1>13
  <2>2. Transfers(pool, binding, content, plans, current)
    BY <1>4 DEF Now, Sound
  <2>3. Transfers(pool', binding, content, Without(plans, {k}), Without(current, {k}))
    BY <1>9, <2>1, <2>2, TransfersFinished
  <2> QED
    BY <1>12, <2>3
<1>15. Holds(batch', plans', current')
  <2>1. PICK rest : rest = batch'
    OBVIOUS
  <2>2. \A m \in DOMAIN rest : m \in DOMAIN batch \ {n} /\ rest[m] = batch[m]
    BY <1>7, <2>1
  <2>3. \A m \in DOMAIN batch \ {n} : m \in DOMAIN rest /\ rest[m] = batch[m]
    BY <1>7, <2>1
  <2>4. \A l, m \in DOMAIN rest : rest[l].plan = rest[m].plan => l = m
    BY <1>6, <2>2 DEF Holds
  <2>5. DOMAIN plans = DOMAIN current /\ \A i \in DOMAIN plans : current[i].plan = i
    BY <1>4 DEF Now, Sound, Transfers, InTransfer
  <2>6. rest \in Seq({current[i] : i \in DOMAIN plans})
    BY <1>5, <1>7, <2>1
  <2>7. Holds(rest, Without(plans, {batch[n].plan}), Without(current, {batch[n].plan}))
    BY <1>6, <1>8, <2>2, <2>3, <2>4, <2>5, <2>6, HoldsFinished
  <2> QED
    BY <1>2, <1>12, <2>1, <2>7
<1>16. \A i \in DOMAIN plans' : i \in DOMAIN plans /\ current'[i] = current[i]
  BY <1>4, <1>12 DEF Now, Sound, Transfers, Without
<1>17. /\ \A i \in DOMAIN plans' : current'[i].phase = 0 /\ current'[i].phase # current'[i].steps
       /\ \A i \in DOMAIN plans' : current'[i].plan = i
  BY <1>10, <1>14, <1>16, StepsPositive DEF Transfers, InTransfer
<1>18. /\ Bound = BoundIn(binding) /\ Bound' = Bound
       /\ \A q : Buffer(q) = BufferIn(binding, q) /\ Buffer(q)' = Buffer(q)
  BY <1>4, <1>12, NowFacts DEF Bound, Buffer
<1>19. Allocated(binding, media', plans', current')
  <2>1. PICK ps, cur, held : ps = plans' /\ cur = current' /\ held = batch'
    OBVIOUS
  <2>2. TransferBuffers(cur, DOMAIN ps) = BuffersOf(held, n - 1)
    BY <1>7, <1>15, <1>17, <2>1, HeldBuffers
  <2>3. BuffersOf(held, n - 1) = BuffersOf(batch, n - 1)
    BY <1>7, <2>1, BuffersOfPrefix
  <2>4. DOMAIN media' = {BufferIn(binding, q) : q \in BoundIn(binding)} \cup BuffersOf(batch, n - 1)
    BY <1>3, <1>7, <1>10, <1>11, <1>18
  <2> QED
    BY <1>17, <2>1, <2>2, <2>3, <2>4 DEF Allocated
<1>20. Coherent(binding, media', cache', content)
  BY <1>3, <1>7, <1>10, <1>11
<1>21. Now'
  <2>1. Held' = batch'
    BY <1>3 DEF Held
  <2> QED
    BY <1>3, <1>12, <1>13, <1>14, <1>15, <1>19, <1>20, <2>1 DEF Now, Sound
<1>22. UndoSound'
  <2>1. \A m \in 1 .. n - 1 : BuffersOf(batch', m - 1) = BuffersOf(batch, m - 1)
    <3> SUFFICES ASSUME NEW m \in 1 .. n - 1, NEW l \in 1 .. m - 1 PROVE batch'[l] = batch[l]
      BY BuffersOfPrefix
    <3> QED
      BY <1>7
  <2>2. ASSUME NEW m \in DOMAIN undo'
        PROVE  /\ undo'[m].binding = binding'
               /\ DOMAIN undo'[m].media = {Buffer(q)' : q \in Bound'} \cup BuffersOf(batch', m - 1)
               /\ Coherent(binding', undo'[m].media, undo'[m].cache, content')
    <3>1. m \in 1 .. n - 1 /\ m \in DOMAIN undo /\ undo'[m] = undo[m]
      BY <1>7, <1>11
    <3>2. {Buffer(q)' : q \in Bound'} = {Buffer(q) : q \in Bound}
      BY <1>18
    <3> QED
      BY <1>3, <1>10, <1>12, <2>1, <3>1, <3>2
  <2>3. undo' \in Seq(Range(undo'))
    <3>1. \A m \in 1 .. Len(undo') : undo'[m] \in Range(undo')
      BY <1>11 DEF Range
    <3>2. undo' \in [1 .. Len(undo') -> Range(undo')] /\ Len(undo') \in Nat
      BY <1>11, <3>1, LenProperties
    <3> QED
      BY <3>2, SeqDef
  <2> QED
    BY <1>3, <1>7, <1>11, <1>17, <2>2, <2>3 DEF UndoSound
<1>23. SavedSound' /\ TodoPages' /\ Fresh(plans)'
  BY <1>3, <1>16 DEF SavedSound, TodoPages, TransferInv, Fresh, Guarded
<1> QED
  BY <1>3, <1>21, <1>22, <1>23 DEF TransferInv

\* A callback more is held, of a new plan.
LEMMA HoldsBegun ==
  ASSUME NEW held, NEW ps, NEW cur, Holds(held, ps, cur), \A i \in DOMAIN ps : cur[i].plan = i,
         NEW k, k \notin DOMAIN ps, NEW ps2, DOMAIN ps2 = DOMAIN ps \cup {k},
         NEW cur2, \A i \in DOMAIN ps : cur2[i] = cur[i],
         NEW c, cur2[k] = c, c.plan = k
  PROVE  Holds(Append(held, c), ps2, cur2)
<1>1. PICK T, T2 : T = {cur[i] : i \in DOMAIN ps} /\ T2 = {cur2[i] : i \in DOMAIN ps2}
  OBVIOUS
<1>2. held \in Seq(T) /\ T \subseteq T2 /\ c \in T2
  BY <1>1 DEF Holds
<1>3. /\ Len(held) \in Nat /\ DOMAIN held = 1 .. Len(held)
      /\ \A n \in 1 .. Len(held) : held[n] \in T
  BY <1>2, LenProperties, ElementOfSeq
<1>4. held \in Seq(T2)
  BY <1>2, <1>3, LenProperties, SeqDef
<1>5. PICK s : s = Append(held, c)
  OBVIOUS
<1>6. /\ s \in Seq(T2) /\ Len(s) = Len(held) + 1 /\ DOMAIN s = 1 .. Len(held) + 1
      /\ \A n \in 1 .. Len(held) : s[n] = held[n]
      /\ s[Len(held) + 1] = c
  BY <1>2, <1>4, <1>5, AppendProperties, LenProperties
<1>7. \A n \in 1 .. Len(held) : held[n].plan \in DOMAIN ps /\ held[n].plan # k
  <2> SUFFICES ASSUME NEW n \in 1 .. Len(held) PROVE held[n].plan \in DOMAIN ps
    OBVIOUS
  <2>1. PICK i \in DOMAIN ps : held[n] = cur[i]
    BY <1>1, <1>3
  <2> QED
    BY <2>1
<1>8. \A n \in DOMAIN s : n \in 1 .. Len(held) \/ n = Len(held) + 1
  BY <1>3, <1>6
<1>9. ASSUME NEW m \in DOMAIN s, NEW n \in DOMAIN s, s[m].plan = s[n].plan PROVE m = n
  <2>1. CASE m \in 1 .. Len(held) /\ n \in 1 .. Len(held)
    BY <1>3, <1>6, <1>9, <2>1 DEF Holds
  <2>2. CASE m = Len(held) + 1
    BY <1>6, <1>7, <1>8, <1>9, <2>2
  <2>3. CASE n = Len(held) + 1
    BY <1>6, <1>7, <1>8, <1>9, <2>3
  <2> QED
    BY <1>8, <2>1, <2>2, <2>3
<1>10. ASSUME NEW i \in DOMAIN ps2 PROVE \E n \in DOMAIN s : s[n].plan = i
  <2>1. CASE i = k
    <3>1. Len(held) + 1 \in DOMAIN s
      BY <1>3, <1>6
    <3> QED
      BY <1>6, <2>1, <3>1
  <2>2. CASE i \in DOMAIN ps
    <3>1. PICK n \in 1 .. Len(held) : held[n].plan = i
      BY <1>3, <2>2 DEF Holds
    <3>2. n \in DOMAIN s /\ s[n] = held[n]
      BY <1>3, <1>6
    <3> QED
      BY <3>1, <3>2
  <2> QED
    BY <2>1, <2>2
<1>11. Holds(s, ps2, cur2)
  BY <1>1, <1>6, <1>9, <1>10 DEF Holds
<1> QED
  BY <1>5, <1>11

\* The transfers and one more, of a page that was idle.
LEMMA TransfersBegun ==
  ASSUME NEW P, NEW B, NEW X, NEW ps, NEW cur, Transfers(P, B, X, ps, cur),
         NEW k, k \notin DOMAIN ps, NEW ps2, DOMAIN ps2 = DOMAIN ps \cup {k},
         NEW cur2, DOMAIN cur2 = DOMAIN ps2,
         \A i \in DOMAIN ps : cur2[i] = cur[i] /\ ps2[i] = ps[i],
         NEW P2, \A q \in Pages : q # cur2[k].page => P2[q] = P[q],
         \A i \in DOMAIN ps : cur[i].page # cur2[k].page,
         InTransfer(P2, B, X, ps2, cur2, k)
  PROVE  Transfers(P2, B, X, ps2, cur2)
<1>1. ASSUME NEW i \in DOMAIN ps PROVE InTransfer(P2, B, X, ps2, cur2, i)
  <2>1. /\ InTransfer(P, B, X, ps, cur, i)
        /\ cur[i].page \in Pages /\ cur[i].page # cur2[k].page
    BY DEF Transfers, InTransfer
  <2>2. P2[cur[i].page] = P[cur[i].page] /\ cur2[i] = cur[i] /\ ps2[i] = ps[i]
    BY <2>1
  <2> QED
    BY <2>1, <2>2 DEF InTransfer
<1>2. \A i \in DOMAIN ps2 : InTransfer(P2, B, X, ps2, cur2, i)
  BY <1>1
<1>3. ASSUME NEW i \in DOMAIN ps2, NEW j \in DOMAIN ps2, cur2[i].page = cur2[j].page PROVE i = j
  BY <1>3 DEF Transfers
<1>4. ASSUME NEW p \in Pages, P2[p].pending PROVE \E i \in DOMAIN ps2 : cur2[i].page = p
  <2>1. CASE p = cur2[k].page
    BY <2>1
  <2>2. CASE p # cur2[k].page
    <3>1. PICK i \in DOMAIN ps : cur[i].page = p
      BY <1>4, <2>2 DEF Transfers
    <3> QED
      BY <3>1
  <2> QED
    BY <2>1, <2>2
<1> QED
  BY <1>2, <1>3, <1>4 DEF Transfers

\* The first page still to be treated, and the rest.
LEMMA FirstTodo ==
  ASSUME TodoPages, mode \in {"prepare", "offload", "restore"}, todo # <<>>
  PROVE  /\ todo[1] \in Pages /\ ~pool[todo[1]].pending
         /\ pool[todo[1]].tier = (IF mode = "prepare" THEN "hbf" ELSE OtherTier(Target))
         /\ Tail(todo) \in Seq(Pages)
         /\ \A n \in DOMAIN Tail(todo) : /\ Tail(todo)[n] \in Pages
                                         /\ Tail(todo)[n] # todo[1]
                                         /\ n + 1 \in DOMAIN todo
                                         /\ Tail(todo)[n] = todo[n + 1]
         /\ \A m, n \in DOMAIN Tail(todo) : Tail(todo)[m] = Tail(todo)[n] => m = n
<1>1. /\ todo \in Seq(Pages) /\ \A m, n \in DOMAIN todo : todo[m] = todo[n] => m = n
      /\ \A n \in DOMAIN todo :
           /\ pool[todo[n]].tier = (IF mode = "prepare" THEN "hbf" ELSE OtherTier(Target))
           /\ ~pool[todo[n]].pending
  BY DEF TodoPages
<1>2. /\ Tail(todo) \in Seq(Pages) /\ Len(todo) \in Nat /\ 1 \in DOMAIN todo /\ todo[1] \in Pages
      /\ DOMAIN Tail(todo) = 1 .. Len(todo) - 1
      /\ \A n \in 1 .. Len(todo) - 1 :
           Tail(todo)[n] = todo[n + 1] /\ n + 1 \in DOMAIN todo /\ n + 1 # 1
  BY <1>1, TailIs
<1>3. PICK rest : rest = Tail(todo)
  OBVIOUS
<1>4. \A n \in DOMAIN rest : rest[n] \in Pages /\ rest[n] # todo[1]
  BY <1>1, <1>2, <1>3, ElementOfSeq, LenProperties
<1>5. ASSUME NEW m \in DOMAIN rest, NEW n \in DOMAIN rest, rest[m] = rest[n] PROVE m = n
  <2>1. m + 1 = n + 1
    BY <1>1, <1>2, <1>3, <1>5
  <2> QED
    BY <1>2, <1>3, <2>1
<1> QED
  BY <1>1, <1>2, <1>3, <1>4, <1>5

\* A new transfer copies the last content of its page, with buffers of its own.
LEMMA PrepareSound ==
  ASSUME TransferInv, PreparePage
  PROVE  TransferInv'
<1>1. PICK p : p = todo[1]
  OBVIOUS
<1>2. PICK f : f = Flushed(Buffer(p))
  OBVIOUS
<1>3. PICK c : c = CallbackFor(p, "hbm", Steps, f.media[Buffer(p)])
  OBVIOUS
<1>4. PICK k : k = nextPlan
  OBVIOUS
<1>5. /\ mode = "prepare" /\ mode' = mode /\ todo # <<>> /\ NewPlan(c)
      /\ media' = With(With(f.media, TargetOf(c), 0), RelayOf(c), 0)
      /\ cache' = f.cache
      /\ pool' = [pool EXCEPT ![p].pending = TRUE]
      /\ batch' = Append(batch, c)
      /\ undo' = Append(undo, [media |-> media, cache |-> cache, binding |-> binding])
      /\ todo' = Tail(todo)
      /\ UNCHANGED <<binding, content, mode, saved>>
  BY <1>1, <1>2, <1>3 DEF PreparePage
<1>6. Now /\ Held = batch /\ TodoPages /\ UndoSound /\ Fresh(plans) /\ nextPlan \in Nat
  BY <1>5 DEF TransferInv, Held
<1>7. /\ p \in Pages /\ ~pool[p].pending /\ pool[p].tier = "hbf"
      /\ todo' \in Seq(Pages)
      /\ \A n \in DOMAIN todo' : /\ todo'[n] \in Pages /\ todo'[n] # p
                                 /\ pool[todo'[n]].tier = "hbf" /\ ~pool[todo'[n]].pending
      /\ \A m, n \in DOMAIN todo' : todo'[m] = todo'[n] => m = n
  BY <1>1, <1>5, <1>6, FirstTodo DEF TodoPages
<1>8. /\ binding[p].tier = "hbf" /\ p \in Bound /\ Buffer(p) = BufferIn(binding, p)
      /\ Bound = BoundIn(binding)
      /\ \A q \in Bound : Buffer(q) = BufferIn(binding, q) /\ Buffer(q) \in DOMAIN media
  BY <1>6, <1>7, NowFacts DEF Bound, Tiers
<1>9. /\ DOMAIN f.media = DOMAIN media /\ f.media[Buffer(p)] = content[p]
      /\ Coherent(binding, f.media, f.cache, content)
  BY <1>2, <1>6, <1>8, FlushedIs DEF Now, Sound
<1>10. /\ c.plan = k /\ c.page = p /\ c.target = "hbm" /\ c.gen = binding[p].gen + 1
       /\ c.phase = 0 /\ c.steps = Steps /\ c.data = content[p]
  BY <1>3, <1>4, <1>9 DEF CallbackFor
<1>11. /\ k \notin DOMAIN plans /\ DOMAIN plans = DOMAIN current
       /\ DOMAIN plans' = DOMAIN plans \cup {k} /\ DOMAIN current' = DOMAIN plans'
       /\ \A i \in DOMAIN plans : current'[i] = current[i] /\ plans'[i] = plans[i]
       /\ current'[k] = c /\ plans'[k] = [phase |-> 0, token |-> nextToken]
       /\ nextPlan' = nextPlan + 1
  <2>1. k \notin DOMAIN plans
    BY <1>4, <1>6 DEF Fresh
  <2>2. DOMAIN plans = DOMAIN current
    BY <1>6 DEF Now, Sound, Transfers
  <2>3. /\ plans' = With(plans, k, [phase |-> 0, token |-> nextToken])
        /\ current' = With(current, k, c) /\ nextPlan' = nextPlan + 1
    BY <1>4, <1>5, <1>10 DEF NewPlan, Issue
  <2> QED
    BY <2>1, <2>2, <2>3 DEF With
<1>12. plans'[k].phase = 0
  BY <1>11
<1>13. /\ Placed(pool', binding) /\ pool'[p].pending /\ pool'[p].tier = "hbf"
       /\ \A q \in Pages \ {p} : pool'[q] = pool[q]
  <2>1. Placed(pool, binding)
    BY <1>6 DEF Now, Sound
  <2>2. PICK x : x = [pool[p] EXCEPT !.pending = TRUE]
    OBVIOUS
  <2>3. pool' = [pool EXCEPT ![p] = x]
    BY <1>5, <2>2
  <2>4. pool[p] \in PoolEntry
    BY <1>7, <2>1 DEF Placed, PoolEntry
  <2>5. x \in PoolEntry /\ x.tier = pool[p].tier /\ x.gen = pool[p].gen /\ x.pending
    BY <2>2, <2>4 DEF PoolEntry
  <2>6. Placed([pool EXCEPT ![p] = x], binding)
    BY <1>7, <2>1, <2>5, PlacedPending
  <2>7. Placed(pool', binding)
    BY <2>3, <2>6
  <2>8. pool'[p] = x /\ \A q \in Pages \ {p} : pool'[q] = pool[q]
    BY <1>7, <2>1, <2>3 DEF Placed
  <2> QED
    BY <1>7, <2>5, <2>7, <2>8
<1>14. \A i \in DOMAIN plans : current[i].page # p
  BY <1>6, <1>7, IdleApart
<1>15. Transfers(pool', binding, content, plans', current')
  <2>1. PICK P2, ps2, cur2 : P2 = pool' /\ ps2 = plans' /\ cur2 = current'
    OBVIOUS
  <2>2. Transfers(pool, binding, content, plans, current)
    BY <1>6 DEF Now, Sound
  <2>3. cur2[k].page = p
    BY <1>10, <1>11, <2>1
  <2>4. InTransfer(P2, binding, content, ps2, cur2, k)
    <3>1. cur2[k] = c /\ ps2[k].phase = 0
      BY <1>11, <1>12, <2>1
    <3> QED
      BY <1>7, <1>8, <1>10, <1>13, <2>1, <3>1 DEF InTransfer
  <2>5. /\ k \notin DOMAIN plans /\ DOMAIN ps2 = DOMAIN plans \cup {k} /\ DOMAIN cur2 = DOMAIN ps2
        /\ \A i \in DOMAIN plans : cur2[i] = current[i] /\ ps2[i] = plans[i]
    BY <1>11, <2>1
  <2>6. /\ \A q \in Pages : q # cur2[k].page => P2[q] = pool[q]
        /\ \A i \in DOMAIN plans : current[i].page # cur2[k].page
    BY <1>13, <1>14, <2>1, <2>3
  <2>7. Transfers(P2, binding, content, ps2, cur2)
    BY <2>2, <2>4, <2>5, <2>6, TransfersBegun
  <2> QED
    BY <2>1, <2>7
<1>16. /\ \A i \in DOMAIN plans : current[i].phase = 0
       /\ \A i \in DOMAIN plans' : current'[i].phase = 0
  BY <1>5, <1>6, <1>10, <1>11 DEF UndoSound
<1>17. /\ DOMAIN media = {BufferIn(binding, q) : q \in BoundIn(binding)}
                           \cup TransferBuffers(current, DOMAIN plans)
       /\ DOMAIN media' = DOMAIN media \cup {TargetOf(c), RelayOf(c)}
       /\ \A x \in DOMAIN media \ {TargetOf(c), RelayOf(c)} : media'[x] = f.media[x]
  <2>1. DOMAIN media = {BufferIn(binding, q) : q \in BoundIn(binding)}
                         \cup TransferBuffers(current, DOMAIN plans)
    BY <1>6 DEF Now, Sound, Allocated
  <2> QED
    BY <1>5, <1>9, <2>1 DEF With
<1>18. TransferBuffers(current', DOMAIN plans')
         = TransferBuffers(current, DOMAIN plans) \cup {TargetOf(c), RelayOf(c)}
  BY <1>11 DEF TransferBuffers
<1>19. Allocated(binding, media', plans', current')
  <2>1. \A i \in DOMAIN plans' : current'[i].phase # current'[i].steps
    BY <1>15, <1>16, StepsPositive DEF Transfers, InTransfer
  <2>2. DOMAIN media' = {BufferIn(binding, q) : q \in BoundIn(binding)}
                          \cup TransferBuffers(current', DOMAIN plans')
    BY <1>17, <1>18
  <2> QED
    BY <2>1, <2>2 DEF Allocated
<1>20. \A q \in BoundIn(binding) : BufferIn(binding, q) # TargetOf(c)
                                   /\ BufferIn(binding, q) # RelayOf(c)
  <2>1. \A q \in BoundIn(binding) : BufferIn(binding, q) # TargetOf(c)
    BY <1>8, <1>10 DEF BufferIn, TargetOf
  <2>2. \A q \in BoundIn(binding) : BufferIn(binding, q) # RelayOf(c)
    BY DEF BufferIn, RelayOf, BoundIn, Tiers
  <2> QED
    BY <2>1, <2>2
<1>21. Coherent(binding, media', cache', content)
  <2>1. \A q \in BoundIn(binding) : media'[BufferIn(binding, q)] = f.media[BufferIn(binding, q)]
    BY <1>17, <1>20
  <2>2. Coherent(binding, media', f.cache, content)
    BY <1>9, <2>1, CoherentFrame
  <2> QED
    BY <1>5, <2>2
<1>22. Holds(batch', plans', current') /\ Holds(batch, plans, current)
       /\ \A i \in DOMAIN plans : current[i].plan = i
  <2>1. Holds(batch, plans, current) /\ \A i \in DOMAIN plans : current[i].plan = i
    BY <1>6 DEF Now, Sound, Transfers, InTransfer
  <2>2. PICK ps2, cur2 : ps2 = plans' /\ cur2 = current'
    OBVIOUS
  <2>3. Holds(Append(batch, c), ps2, cur2)
    BY <1>10, <1>11, <2>1, <2>2, HoldsBegun
  <2> QED
    BY <1>5, <2>1, <2>2, <2>3
<1>23. Now'
  <2>1. Held' = batch'
    BY <1>5 DEF Held
  <2> QED
    BY <1>5, <1>13, <1>15, <1>19, <1>21, <1>22, <2>1 DEF Now, Sound
<1>24. UndoSound'
  <2>1. PICK n : n = Len(batch)
    OBVIOUS
  <2>2. PICK e : e = [media |-> media, cache |-> cache, binding |-> binding]
    OBVIOUS
  <2>3. PICK T : T = Range(undo) \cup {e}
    OBVIOUS
  <2>4. /\ undo \in Seq(Range(undo)) /\ Len(undo) = n /\ n \in Nat /\ DOMAIN undo = 1 .. n
        /\ TransferBuffers(current, DOMAIN plans) = BuffersOf(batch, n)
        /\ DOMAIN batch = 1 .. n
    BY <1>5, <1>6, <1>22, <2>1, HeldBuffers, LenProperties DEF UndoSound
  <2>5. undo \in Seq(T) /\ e \in T
    BY <2>3, <2>4, LenProperties, SeqDef
  <2>6. /\ undo' \in Seq(T) /\ Len(undo') = n + 1 /\ DOMAIN undo' = 1 .. n + 1
        /\ \A m \in 1 .. n : undo'[m] = undo[m]
        /\ undo'[n + 1] = e
    BY <1>5, <2>2, <2>4, <2>5, AppendProperties, LenProperties
  <2>7. undo' \in Seq(Range(undo'))
    <3>1. \A m \in 1 .. Len(undo') : undo'[m] \in Range(undo')
      BY <2>6 DEF Range
    <3>2. undo' \in [1 .. Len(undo') -> Range(undo')] /\ Len(undo') \in Nat
      BY <2>6, <3>1, LenProperties
    <3> QED
      BY <3>2, SeqDef
  <2>8. Len(batch') = n + 1 /\ \A m \in 1 .. n : batch'[m] = batch[m]
    <3>1. PICK T2 : T2 = {current[i] : i \in DOMAIN plans}
      OBVIOUS
    <3>2. PICK T3 : T3 = T2 \cup {c}
      OBVIOUS
    <3>3. batch \in Seq(T2)
      BY <1>22, <3>1 DEF Holds
    <3>4. batch \in Seq(T3) /\ c \in T3
      BY <3>2, <3>3, LenProperties, ElementOfSeq, SeqDef
    <3> QED
      BY <1>5, <2>1, <3>4, AppendProperties
  <2>9. {Buffer(q)' : q \in Bound'} = {Buffer(q) : q \in Bound}
    BY <1>5 DEF Buffer, Bound
  <2>10. DOMAIN media = {Buffer(q) : q \in Bound} \cup BuffersOf(batch, n)
    BY <1>8, <1>17, <2>4
  <2>11. ASSUME NEW m \in DOMAIN undo'
         PROVE  /\ undo'[m].binding = binding
                /\ DOMAIN undo'[m].media = {Buffer(q) : q \in Bound} \cup BuffersOf(batch', m - 1)
                /\ Coherent(binding, undo'[m].media, undo'[m].cache, content)
    <3>1. m - 1 \in Nat /\ m - 1 <= n /\ (m \in 1 .. n \/ m = n + 1)
      BY <2>4, <2>6
    <3>2. BuffersOf(batch', m - 1) = BuffersOf(batch, m - 1)
      <4>1. \A l \in 1 .. m - 1 : batch'[l] = batch[l]
        BY <2>4, <2>8, <3>1
      <4> QED
        BY <4>1, BuffersOfPrefix
    <3>3. CASE m \in 1 .. n
      <4>1. m \in DOMAIN undo /\ undo'[m] = undo[m]
        BY <2>4, <2>6, <3>3
      <4> QED
        BY <1>5, <1>6, <3>2, <4>1 DEF UndoSound
    <3>4. CASE m = n + 1
      <4>1. undo'[m] = e /\ m - 1 = n
        BY <2>4, <2>6, <3>4
      <4>2. /\ undo'[m].binding = binding /\ undo'[m].media = media /\ undo'[m].cache = cache
        BY <2>2, <4>1
      <4>3. Coherent(binding, media, cache, content)
        BY <1>6 DEF Now, Sound
      <4> QED
        BY <2>10, <3>2, <4>1, <4>2, <4>3
    <3> QED
      BY <3>1, <3>3, <3>4
  <2> QED
    BY <1>5, <1>16, <2>6, <2>7, <2>8, <2>9, <2>11 DEF UndoSound
<1>25. TodoPages'
  <2>1. \A n \in DOMAIN todo' : pool'[todo'[n]].tier = "hbf" /\ ~pool'[todo'[n]].pending
    BY <1>7, <1>13
  <2> QED
    BY <1>5, <1>7, <2>1 DEF TodoPages
<1>26. SavedSound' /\ Fresh(plans)' /\ nextPlan' \in Nat
  BY <1>4, <1>5, <1>6, <1>11 DEF SavedSound, Fresh, Guarded
<1> QED
  BY <1>5, <1>23, <1>24, <1>25, <1>26 DEF TransferInv

------------------------------------------------------------------------------
(* Moves at once, and phases. *)

\* A page moved at once is where it goes, with its last content.
LEMMA MoveSound ==
  ASSUME TransferInv, MovePage
  PROVE  TransferInv'
<1>1. PICK p : p = todo[1]
  OBVIOUS
<1>2. PICK f, t : f = Flushed(Buffer(p)) /\ t = Target
  OBVIOUS
<1>3. PICK c : c = CallbackFor(p, t, 0, f.media[Buffer(p)])
  OBVIOUS
<1>4. /\ mode \in {"offload", "restore"} /\ mode' = mode /\ todo # <<>>
      /\ media' = With(Without(f.media, {Buffer(p)}), TargetOf(c), c.data)
      /\ cache' = Discarded(f.cache, {Buffer(p)})
      /\ Rebind(c)
      /\ nextPlan' = nextPlan + 1 /\ todo' = Tail(todo)
      /\ UNCHANGED <<plans, content, current, batch, mode, undo, saved>>
  BY <1>1, <1>2, <1>3 DEF MovePage
<1>5. Now /\ Held = batch /\ TodoPages /\ Fresh(plans) /\ nextPlan \in Nat
  BY <1>4 DEF TransferInv, Held
<1>6. t \in {"hbm", "hbf"} /\ OtherTier(t) \in {"hbm", "hbf"}
  BY <1>2 DEF Target, OtherTier
<1>7. /\ p \in Pages /\ ~pool[p].pending /\ pool[p].tier = OtherTier(t)
      /\ todo' \in Seq(Pages)
      /\ \A n \in DOMAIN todo' : /\ todo'[n] \in Pages /\ todo'[n] # p
                                 /\ pool[todo'[n]].tier = OtherTier(t) /\ ~pool[todo'[n]].pending
      /\ \A m, n \in DOMAIN todo' : todo'[m] = todo'[n] => m = n
  <2>1. /\ todo[1] \in Pages /\ ~pool[todo[1]].pending
        /\ pool[todo[1]].tier = OtherTier(Target)
    BY <1>4, <1>5, FirstTodo
  <2>2. \A n \in DOMAIN todo : pool[todo[n]].tier = OtherTier(Target) /\ ~pool[todo[n]].pending
    BY <1>4, <1>5 DEF TodoPages
  <2> QED
    BY <1>1, <1>2, <1>4, <1>5, <2>1, <2>2, FirstTodo
<1>8. /\ binding[p].gen = pool[p].gen /\ binding[p].gen \in Nat
      /\ p \in Bound /\ Buffer(p) = BufferIn(binding, p) /\ Bound = BoundIn(binding)
      /\ \A q \in Bound : Buffer(q) = BufferIn(binding, q) /\ Buffer(q) \in DOMAIN media
  BY <1>5, <1>6, <1>7, NowFacts DEF Bound, Tiers
<1>9. /\ DOMAIN f.media = DOMAIN media /\ f.media[Buffer(p)] = content[p]
      /\ \A x \in DOMAIN media \ {Buffer(p)} : f.media[x] = media[x]
      /\ Coherent(binding, f.media, f.cache, content)
  BY <1>2, <1>5, <1>8, FlushedIs DEF Now, Sound
<1>10. /\ c.page = p /\ c.target = t /\ c.gen = binding[p].gen + 1 /\ c.data = content[p]
  BY <1>3, <1>9 DEF CallbackFor
<1>11. /\ binding' = [binding EXCEPT ![p] = [tier |-> t, gen |-> c.gen]]
       /\ pool' = [pool EXCEPT ![p] = [tier |-> t, gen |-> pool[p].gen + 1, pending |-> FALSE]]
  BY <1>4, <1>10 DEF Rebind
<1>12. /\ \A q \in Pages \ {p} : binding'[q] = binding[q] /\ pool'[q] = pool[q]
       /\ binding'[p] = [tier |-> t, gen |-> c.gen]
       /\ pool'[p] = [tier |-> t, gen |-> pool[p].gen + 1, pending |-> FALSE]
  BY <1>5, <1>7, <1>11 DEF Now, Sound, Placed
<1>13. binding'[p].tier = t /\ binding'[p].gen = c.gen /\ ~pool'[p].pending
  BY <1>12
<1>14. Placed(pool', binding')
  <2>1. /\ pool' \in [Pages -> [tier : TierNames, gen : Nat, pending : BOOLEAN]]
        /\ binding' \in [Pages -> [tier : TierNames, gen : Nat]]
    BY <1>5, <1>6, <1>7, <1>8, <1>10, <1>11 DEF Now, Sound, Placed, TierNames, Tiers
  <2>2. \A q \in Pages : /\ binding'[q].tier = pool'[q].tier /\ binding'[q].gen = pool'[q].gen
                         /\ binding'[q].tier = "none" => binding'[q].gen = 0
    BY <1>5, <1>6, <1>8, <1>10, <1>12 DEF Now, Sound, Placed
  <2> QED
    BY <2>1, <2>2 DEF Placed
<1>15. \A i \in DOMAIN plans : current[i].page \in Pages /\ current[i].page # p
  BY <1>5, <1>7, IdleApart
<1>16. Transfers(pool', binding', content, plans, current)
  <2>1. \A i \in DOMAIN plans : /\ pool'[current[i].page].pending = pool[current[i].page].pending
                                /\ binding'[current[i].page] = binding[current[i].page]
    BY <1>12, <1>15
  <2>2. \A q \in Pages : pool'[q].pending => pool[q].pending
    BY <1>12, <1>13
  <2> QED
    BY <1>5, <2>1, <2>2, TransfersFrame DEF Now, Sound
<1>17. /\ BoundIn(binding') = BoundIn(binding)
       /\ \A q \in BoundIn(binding) \ {p} : BufferIn(binding', q) = BufferIn(binding, q)
       /\ BufferIn(binding', p) = TargetOf(c)
  BY <1>6, <1>8, <1>10, <1>12, <1>13 DEF BoundIn, BufferIn, TargetOf, Tiers
<1>18. \A q \in BoundIn(binding) : q # p => /\ BufferIn(binding, q) # BufferIn(binding, p)
                                            /\ BufferIn(binding, q) # TargetOf(c)
  BY <1>10 DEF BufferIn, TargetOf
<1>19. TargetOf(c) # BufferIn(binding, p)
  BY <1>8, <1>10 DEF BufferIn, TargetOf
<1>20. \A i \in DOMAIN plans : /\ TargetOf(current[i]) # TargetOf(c) /\ RelayOf(current[i]) # TargetOf(c)
                               /\ TargetOf(current[i]) # BufferIn(binding, p)
                               /\ RelayOf(current[i]) # BufferIn(binding, p)
                               /\ TargetOf(current[i]) \in DOMAIN media
  <2>1. \A i \in DOMAIN plans : TargetOf(current[i]) \in DOMAIN media
    BY <1>5, NowFacts
  <2> QED
    BY <1>10, <1>15, <2>1 DEF TargetOf, RelayOf, BufferIn
<1>21. /\ DOMAIN media' = (DOMAIN media \ {BufferIn(binding, p)}) \cup {TargetOf(c)}
       /\ media'[TargetOf(c)] = content[p]
       /\ \A x \in DOMAIN media \ {BufferIn(binding, p), TargetOf(c)} : media'[x] = f.media[x]
  BY <1>4, <1>8, <1>9, <1>10 DEF With, Without
<1>22. Allocated(binding', media', plans, current)
  <2>1. DOMAIN media = {BufferIn(binding, q) : q \in BoundIn(binding)}
                         \cup TransferBuffers(current, DOMAIN plans)
    BY <1>5 DEF Now, Sound, Allocated
  <2>2. {BufferIn(binding', q) : q \in BoundIn(binding')}
          = ({BufferIn(binding, q) : q \in BoundIn(binding)} \ {BufferIn(binding, p)})
              \cup {TargetOf(c)}
    BY <1>8, <1>17, <1>18
  <2>3. BufferIn(binding, p) \notin TransferBuffers(current, DOMAIN plans)
    BY <1>20 DEF TransferBuffers
  <2>4. DOMAIN media' = {BufferIn(binding', q) : q \in BoundIn(binding')}
                          \cup TransferBuffers(current, DOMAIN plans)
    BY <1>21, <2>1, <2>2, <2>3
  <2>5. \A i \in DOMAIN plans : media'[TargetOf(current[i])] = media[TargetOf(current[i])]
    BY <1>8, <1>9, <1>20, <1>21
  <2>6. \A i \in DOMAIN plans : current[i].phase = current[i].steps =>
          media[TargetOf(current[i])] = current[i].data
    BY <1>5 DEF Now, Sound, Allocated
  <2> QED
    BY <2>4, <2>5, <2>6 DEF Allocated
<1>23. Coherent(binding', media', cache', content)
  <2> DEFINE S == {p}
  <2>1. f.cache \in Seq(Line)
    BY <1>9 DEF Coherent
  <2>2. /\ cache' \in Seq(Line)
        /\ Range(cache') = {l \in Range(f.cache) : l.buffer \notin {Buffer(p)}}
    BY <1>4, <2>1, DiscardedIs
  <2>3. Range(cache') = {l \in Range(f.cache) : \A q \in S : l.buffer # BufferIn(binding, q)}
    BY <1>8, <2>2
  <2>4. \A q \in BoundIn(binding) \ S :
          /\ q \in BoundIn(binding') /\ BufferIn(binding', q) = BufferIn(binding, q)
          /\ media'[BufferIn(binding, q)] = f.media[BufferIn(binding, q)]
    BY <1>8, <1>17, <1>18, <1>21
  <2>5. BoundIn(binding') \subseteq BoundIn(binding) \cup S
    BY <1>17
  <2>6. \A q \in BoundIn(binding') \cap S : media'[BufferIn(binding', q)] = content[q]
    BY <1>17, <1>21
  <2> HIDE DEF S
  <2> QED
    BY <1>9, <2>2, <2>3, <2>4, <2>5, <2>6, CoherentStep
<1>24. Now'
  <2>1. Held' = batch' /\ Holds(batch, plans, current)
    BY <1>4, <1>5 DEF Held, Now, Sound
  <2> QED
    BY <1>4, <1>14, <1>16, <1>22, <1>23, <2>1 DEF Now, Sound
<1>25. TodoPages'
  <2>1. \A n \in DOMAIN todo' : pool'[todo'[n]].tier = OtherTier(t) /\ ~pool'[todo'[n]].pending
    BY <1>7, <1>12
  <2>2. Target' = t
    BY <1>2, <1>4 DEF Target
  <2> QED
    BY <1>4, <1>7, <2>1, <2>2 DEF TodoPages
<1>26. SavedSound'
  BY <1>4, <1>5, SavedFrame DEF TransferInv
<1>27. Fresh(plans)' /\ UndoSound' /\ nextPlan' \in Nat
  BY <1>4, <1>5 DEF TransferInv, Fresh, UndoSound
<1> QED
  BY <1>4, <1>24, <1>25, <1>26, <1>27 DEF TransferInv, Guarded

\* The last phase of a transfer writes its target.
LEMMA AdvanceSound ==
  ASSUME TransferInv, TimelineInv, NEW i \in DOMAIN batch, Advance(i)
  PROVE  TransferInv'
<1>1. PICK d, k : d = batch[i] /\ k = d.plan
  OBVIOUS
<1>2. PICK c : c = [d EXCEPT !.phase = @ + 1, !.token = nextToken]
  OBVIOUS
<1>3. /\ Running /\ MayAdvance(d) /\ Issue(c)
      /\ plans' = [plans EXCEPT ![c.plan] = [phase |-> c.phase, token |-> nextToken]]
      /\ batch' = [batch EXCEPT ![i] = c]
      /\ media' = IF Final(c) THEN [media EXCEPT ![TargetOf(c)] = c.data] ELSE media
      /\ UNCHANGED <<pool, binding, cache, content, nextPlan, mode, todo, undo, saved>>
  BY <1>1, <1>2 DEF Advance, loopState
<1>4. mode \in {"boundary", "cohort"} /\ Now /\ Held = batch /\ Held' = batch'
  BY <1>3 DEF Running, TransferInv, Held
<1>5. /\ k \in DOMAIN plans /\ d = current[k]
      /\ InTransfer(pool, binding, content, plans, current, k)
  BY <1>1, <1>4, HeldIs
<1>6. DOMAIN plans = DOMAIN current /\ current[k] \in issued
  BY <1>5 DEF TimelineInv, Consistent
<1>7. DOMAIN d = CallbackFields
  BY <1>5, <1>6 DEF TimelineInv, TokensUnique
<1>8. /\ c.plan = k /\ c.page = d.page /\ c.target = d.target /\ c.gen = d.gen
      /\ c.steps = d.steps /\ c.data = d.data /\ c.phase = d.phase + 1
  <2>1. /\ c = [x \in CallbackFields |-> IF x = "token" THEN nextToken
                                         ELSE IF x = "phase" THEN d.phase + 1 ELSE d[x]]
    BY <1>2, <1>7
  <2> QED
    BY <1>1, <2>1 DEF CallbackFields
<1>9. TargetOf(c) = TargetOf(d) /\ RelayOf(c) = RelayOf(d)
  BY <1>8 DEF TargetOf, RelayOf
<1>10. /\ DOMAIN plans' = DOMAIN plans /\ DOMAIN current' = DOMAIN plans
       /\ current'[k] = c /\ plans'[k] = [phase |-> c.phase, token |-> nextToken]
       /\ \A j \in DOMAIN plans : j # k => current'[j] = current[j] /\ plans'[j] = plans[j]
  BY <1>3, <1>5, <1>6, <1>8 DEF Issue, With
<1>11. plans'[k].phase = c.phase
  BY <1>10
<1>12. Transfers(pool, binding, content, plans', current')
  <2>1. PICK ps2, cur2 : ps2 = plans' /\ cur2 = current'
    OBVIOUS
  <2>2. /\ \A j \in DOMAIN plans : InTransfer(pool, binding, content, plans, current, j)
        /\ \A j, l \in DOMAIN plans : current[j].page = current[l].page => j = l
        /\ \A p \in Pages : pool[p].pending => \E j \in DOMAIN plans : current[j].page = p
    BY <1>4 DEF Now, Sound, Transfers
  <2>3. /\ DOMAIN ps2 = DOMAIN plans /\ DOMAIN cur2 = DOMAIN plans /\ cur2[k] = c
        /\ ps2[k].phase = c.phase
        /\ \A j \in DOMAIN plans : j # k => cur2[j] = current[j] /\ ps2[j] = plans[j]
    BY <1>10, <1>11, <2>1
  <2>4. \A j \in DOMAIN plans : cur2[j].page = current[j].page
    BY <1>5, <1>8, <2>3
  <2>5. InTransfer(pool, binding, content, ps2, cur2, k)
    BY <1>5, <1>8, <2>3 DEF InTransfer
  <2>6. \A j \in DOMAIN plans : InTransfer(pool, binding, content, ps2, cur2, j)
    <3> SUFFICES ASSUME NEW j \in DOMAIN plans, j # k
                 PROVE  InTransfer(pool, binding, content, ps2, cur2, j)
      BY <2>5
    <3>1. cur2[j] = current[j] /\ ps2[j] = plans[j]
      BY <2>3
    <3> QED
      BY <2>2, <3>1 DEF InTransfer
  <2>7. Transfers(pool, binding, content, ps2, cur2)
    BY <2>2, <2>3, <2>4, <2>6 DEF Transfers
  <2> QED
    BY <2>1, <2>7
<1>13. \A j \in DOMAIN plans : /\ TargetOf(current'[j]) = TargetOf(current[j])
                               /\ RelayOf(current'[j]) = RelayOf(current[j])
  BY <1>5, <1>9, <1>10
<1>14. /\ TargetOf(d) \in DOMAIN media
       /\ \A j \in DOMAIN plans : j # k => TargetOf(current[j]) # TargetOf(d)
       /\ \A q \in BoundIn(binding) : BufferIn(binding, q) # TargetOf(d)
  <2>1. TargetOf(current[k]) \in DOMAIN media
    BY <1>4, <1>5, NowFacts
  <2>2. /\ \A j \in DOMAIN plans : j # k => TargetOf(current[j]) # TargetOf(current[k])
        /\ \A q \in BoundIn(binding) : BufferIn(binding, q) # TargetOf(current[k])
    BY <1>4, <1>5, TransferBuffersApart DEF Now, Sound
  <2> QED
    BY <1>5, <2>1, <2>2
<1>15. /\ DOMAIN media' = DOMAIN media
       /\ c.phase = c.steps => media'[TargetOf(d)] = c.data
       /\ \A x \in DOMAIN media : x # TargetOf(d) => media'[x] = media[x]
  BY <1>3, <1>9, <1>14 DEF Final
<1>16. Allocated(binding, media', plans', current')
  <2>1. TransferBuffers(current', DOMAIN plans') = TransferBuffers(current, DOMAIN plans)
    BY <1>10, <1>13 DEF TransferBuffers
  <2>2. DOMAIN media' = {BufferIn(binding, q) : q \in BoundIn(binding)}
                          \cup TransferBuffers(current', DOMAIN plans')
    BY <1>4, <1>15, <2>1 DEF Now, Sound, Allocated
  <2>3. ASSUME NEW j \in DOMAIN plans', current'[j].phase = current'[j].steps
        PROVE  media'[TargetOf(current'[j])] = current'[j].data
    <3>1. CASE j = k
      BY <1>5, <1>10, <1>13, <1>15, <2>3, <3>1
    <3>2. CASE j # k
      <4>1. j \in DOMAIN plans /\ current'[j] = current[j]
        BY <1>10, <3>2
      <4>2. TargetOf(current[j]) \in DOMAIN media /\ TargetOf(current[j]) # TargetOf(d)
        BY <1>4, <1>14, <3>2, <4>1, NowFacts
      <4>3. media[TargetOf(current[j])] = current[j].data
        BY <1>4, <2>3, <4>1 DEF Now, Sound, Allocated
      <4> QED
        BY <1>15, <4>1, <4>2, <4>3
    <3> QED
      BY <3>1, <3>2
  <2> QED
    BY <2>2, <2>3 DEF Allocated
<1>17. Coherent(binding, media', cache, content)
  <2>1. \A q \in BoundIn(binding) : BufferIn(binding, q) \in DOMAIN media
    BY <1>4, NowFacts
  <2>2. \A q \in BoundIn(binding) : media'[BufferIn(binding, q)] = media[BufferIn(binding, q)]
    BY <1>14, <1>15, <2>1
  <2> QED
    BY <1>4, <2>2, CoherentFrame DEF Now, Sound
<1>18. Holds(batch', plans', current')
  <2>1. PICK T : T = {current'[j] : j \in DOMAIN plans'}
    OBVIOUS
  <2>2. Holds(batch, plans, current)
    BY <1>4 DEF Now, Sound
  <2>3. Len(batch) \in Nat /\ DOMAIN batch = 1 .. Len(batch)
    BY <2>2, LenProperties DEF Holds
  <2>4. /\ DOMAIN batch' = 1 .. Len(batch) /\ batch'[i] = c
        /\ \A m \in DOMAIN batch : m # i => batch'[m] = batch[m]
        /\ batch' = [m \in 1 .. Len(batch) |-> batch'[m]]
    BY <1>3, <2>3
  <2>5. ASSUME NEW m \in DOMAIN batch PROVE batch'[m].plan = batch[m].plan /\ batch'[m] \in T
    <3>1. CASE m = i
      BY <1>1, <1>5, <1>8, <1>10, <2>1, <2>4, <3>1
    <3>2. CASE m # i
      <4>1. batch[m].plan \in DOMAIN plans /\ batch[m] = current[batch[m].plan]
        BY <1>4, HeldIs
      <4>2. batch[m].plan # k
        BY <1>1, <2>2, <3>2 DEF Holds
      <4> QED
        BY <1>10, <2>1, <2>4, <3>2, <4>1, <4>2
    <3> QED
      BY <3>1, <3>2
  <2>6. batch' \in Seq(T)
    <3>1. batch' \in [1 .. Len(batch) -> T]
      BY <2>3, <2>4, <2>5
    <3> QED
      BY <2>3, <3>1, SeqDef
  <2>7. /\ \A m, n \in DOMAIN batch' : batch'[m].plan = batch'[n].plan => m = n
        /\ \A j \in DOMAIN plans' : \E n \in DOMAIN batch' : batch'[n].plan = j
    BY <1>10, <2>2, <2>3, <2>4, <2>5 DEF Holds
  <2> QED
    BY <2>1, <2>6, <2>7 DEF Holds
<1>19. Now'
  <2>1. Placed(pool, binding)
    BY <1>4 DEF Now, Sound
  <2> QED
    BY <1>3, <1>4, <1>12, <1>16, <1>17, <1>18, <2>1 DEF Now, Sound
<1> QED
  BY <1>3, <1>4, <1>10, <1>19, ModesFrame DEF TransferInv

------------------------------------------------------------------------------
(* The steps that move nothing, and snapshots. *)

\* A discarded future leaves the timeline the snapshot was taken on.
LEMMA RestoreSound ==
  ASSUME TransferInv, Restore
  PROVE  TransferInv'
<1>1. /\ mode \in Guarded /\ mode' = "boundary"
      /\ pool' = saved.pool /\ binding' = saved.binding /\ plans' = saved.plans
      /\ media' = saved.media /\ cache' = saved.cache /\ content' = saved.content
      /\ current' = saved.current /\ batch' = saved.batch
      /\ UNCHANGED <<nextPlan, undo>>
  BY DEF Restore, Guarded
<1>2. /\ Sound(saved.pool, saved.binding, saved.media, saved.cache, saved.content,
               saved.plans, saved.current, saved.batch)
      /\ Fresh(saved.plans)
  BY <1>1 DEF TransferInv, SavedSound
<1>3. Now'
  <2>1. Held' = saved.batch
    BY <1>1 DEF Held
  <2>2. Sound(pool', binding', media', cache', content', plans', current', Held')
    BY <1>1, <1>2, <2>1
  <2> QED
    BY <2>2 DEF Now
<1>4. Fresh(plans)' /\ nextPlan' \in Nat
  BY <1>1, <1>2 DEF TransferInv, Fresh
<1>5. SavedSound' /\ TodoPages' /\ UndoSound'
  BY <1>1 DEF TransferInv, SavedSound, TodoPages, UndoSound, Guarded
<1> QED
  BY <1>1, <1>3, <1>4, <1>5 DEF TransferInv

LEMMA QuietSound ==
  ASSUME TransferInv, Held' = Held, SavedSound', TodoPages', UndoSound',
         UNCHANGED <<pool, binding, plans, media, cache, content, current, nextPlan>>,
         mode' \in Guarded \cup {"boundary", "prepare", "abort"}
  PROVE  TransferInv'
<1>1. Now'
  BY DEF TransferInv, Now
<1> QED
  BY <1>1 DEF TransferInv, Fresh

\* A snapshot taken now is sound.
LEMMA BeginSound ==
  ASSUME TransferInv, mode = "boundary", NEW operation \in Guarded, NEW pages,
         Begin(operation, pages), operation \in {"publish", "discard"} => pages = batch,
         TodoPages'
  PROVE  TransferInv'
<1>1. /\ mode' = operation /\ todo' = pages /\ saved' = Snapshot
      /\ UNCHANGED <<pool, binding, plans, media, cache, content, current, batch, nextPlan, undo>>
  BY DEF Begin, restorable, counters
<1>2. Held = batch /\ Held' = batch
  BY <1>1 DEF Held
<1>3. SavedSound'
  <2>1. Sound(pool, binding, media, cache, content, plans, current, batch) /\ Fresh(plans)
    BY <1>2 DEF TransferInv, Now
  <2>2. /\ saved'.pool = pool /\ saved'.binding = binding /\ saved'.media = media
        /\ saved'.cache = cache /\ saved'.content = content /\ saved'.plans = plans
        /\ saved'.current = current /\ saved'.batch = batch
    BY <1>1 DEF Snapshot
  <2>3. Sound(saved'.pool, saved'.binding, saved'.media, saved'.cache, saved'.content,
              saved'.plans, saved'.current, saved'.batch)
    BY <2>1, <2>2
  <2>4. \A i \in DOMAIN saved'.plans : i \in Nat /\ i < nextPlan'
    BY <1>1, <2>1, <2>2 DEF Fresh
  <2> QED
    BY <2>3, <2>4 DEF SavedSound, Fresh
<1>4. UndoSound'
  BY <1>1 DEF TransferInv, UndoSound, Guarded
<1> QED
  BY <1>1, <1>2, <1>3, <1>4, QuietSound

LEMMA StartPrefetchSound ==
  ASSUME TransferInv, NEW r \in Requests, StartPrefetch(r)
  PROVE  TransferInv'
<1>1. /\ mode = "boundary" /\ mode' = "prepare" /\ batch = <<>> /\ todo' = SetToSeq(Swapped(r))
      /\ UNCHANGED <<pool, binding, plans, media, cache, content, current, batch, nextPlan, undo>>
  BY DEF StartPrefetch, restorable, counters
<1>2. Now /\ Held = <<>>
  BY <1>1 DEF TransferInv, Held
<1>3. DOMAIN plans = {} /\ \A p \in Pages : ~pool[p].pending
  <2>1. \A i \in DOMAIN plans : \E n \in DOMAIN Held : Held[n].plan = i
    BY <1>2 DEF Now, Sound, Holds
  <2>2. DOMAIN Held = {}
    BY <1>2
  <2>3. DOMAIN plans = {}
    BY <2>1, <2>2
  <2>4. \A p \in Pages : ~pool[p].pending
    BY <1>2, <2>3 DEF Now, Sound, Transfers
  <2> QED
    BY <2>3, <2>4
<1>4. PICK S : S = Swapped(r)
  OBVIOUS
<1>5. /\ S \subseteq Pages /\ \A p \in S : pool[p].tier = "hbf"
  BY <1>4, RequestPages DEF Swapped
<1>6. IsFiniteSet(S)
  BY <1>5, PagesFinite, FS_Subset
<1>7. /\ todo' \in Seq(S)
      /\ \A m, n \in DOMAIN todo' : todo'[m] = todo'[n] => m = n
  BY <1>1, <1>4, <1>6, SetToSeqIs
<1>8. /\ \A n \in DOMAIN todo' : todo'[n] \in S
      /\ todo' \in Seq(Pages)
  BY <1>5, <1>7, LenProperties, ElementOfSeq, SeqDef
<1>9. TodoPages'
  BY <1>1, <1>3, <1>5, <1>7, <1>8 DEF TodoPages
<1>10. UndoSound'
  <2>1. undo = <<>>
    BY <1>1 DEF TransferInv, UndoSound
  <2>2. /\ undo' = <<>> /\ batch' = <<>> /\ DOMAIN plans' = {}
    BY <1>1, <1>3, <2>1
  <2>3. undo' \in Seq(Range(undo')) /\ Len(undo') = Len(batch') /\ DOMAIN undo' = {}
    BY <2>2, EmptySeq
  <2> QED
    BY <1>1, <2>2, <2>3 DEF UndoSound
<1>11. SavedSound'
  BY <1>1 DEF SavedSound, Guarded
<1>12. Held' = Held
  BY <1>1, <1>2 DEF Held
<1> QED
  BY <1>1, <1>9, <1>10, <1>11, <1>12, QuietSound

LEMMA StartMovesSound ==
  ASSUME TransferInv, NEW r \in Requests, StartMoves(r)
  PROVE  TransferInv'
<1>1. PICK t \in Tiers :
        LET S == {p \in PagesOf[r] : pool[p].tier = OtherTier(t)}
        IN  Begin(IF t = "hbf" THEN "offload" ELSE "restore", SetToSeq(S))
  BY DEF StartMoves
<1>2. PICK S : S = {p \in PagesOf[r] : pool[p].tier = OtherTier(t)}
  OBVIOUS
<1>3. PICK operation : operation = IF t = "hbf" THEN "offload" ELSE "restore"
  OBVIOUS
<1>4. Begin(operation, SetToSeq(S)) /\ mode = "boundary" /\ Idle(r)
  BY <1>1, <1>2, <1>3 DEF StartMoves
<1>5. mode' = operation /\ todo' = SetToSeq(S) /\ pool' = pool
  BY <1>4 DEF Begin, restorable
<1>6. /\ operation \in {"offload", "restore"}
      /\ Target' = t
  BY <1>3, <1>5 DEF Target, Tiers
<1>7. S \subseteq Pages /\ \A p \in S : pool[p].tier = OtherTier(t) /\ ~pool[p].pending
  BY <1>2, <1>4, RequestPages DEF Idle
<1>8. IsFiniteSet(S)
  BY <1>7, PagesFinite, FS_Subset
<1>9. /\ todo' \in Seq(S)
      /\ \A m, n \in DOMAIN todo' : todo'[m] = todo'[n] => m = n
  BY <1>5, <1>8, SetToSeqIs
<1>10. /\ \A n \in DOMAIN todo' : todo'[n] \in S
       /\ todo' \in Seq(Pages)
  BY <1>7, <1>9, LenProperties, ElementOfSeq, SeqDef
<1>11. TodoPages'
  BY <1>5, <1>6, <1>7, <1>9, <1>10 DEF TodoPages
<1> QED
  BY <1>4, <1>6, <1>11, BeginSound DEF Guarded

LEMMA StartSound ==
  ASSUME TransferInv, StartPublish \/ StartDiscard \/ StartCohort
  PROVE  TransferInv'
<1>1. PICK operation \in {"publish", "discard", "cohort"} :
        \E pages : Begin(operation, pages) /\ (operation # "cohort" => pages = batch)
  BY DEF StartPublish, StartDiscard, StartCohort
<1>2. PICK pages : Begin(operation, pages) /\ (operation # "cohort" => pages = batch)
  BY <1>1
<1>3. mode = "boundary"
  BY DEF StartPublish, StartDiscard, StartCohort
<1>4. TodoPages'
  BY <1>2 DEF Begin, TodoPages
<1> QED
  BY <1>2, <1>3, <1>4, BeginSound DEF Guarded

LEMMA EndSound ==
  ASSUME TransferInv, EndPrepare \/ EndPublish \/ EndMoves \/ FinishCohort
  PROVE  TransferInv'
<1>1. /\ mode # "boundary" /\ mode' = "boundary"
      /\ UNCHANGED <<pool, binding, plans, media, cache, content, current, nextPlan>>
  BY DEF EndPrepare, EndPublish, EndMoves, FinishCohort, restorable, counters
<1>2. Held' = Held
  BY DEF EndPrepare, EndPublish, EndMoves, FinishCohort, restorable, Held
<1>3. undo' = <<>>
  BY DEF EndPrepare, EndPublish, EndMoves, FinishCohort, TransferInv, UndoSound
<1>4. SavedSound' /\ TodoPages' /\ UndoSound'
  BY <1>1, <1>3 DEF SavedSound, TodoPages, UndoSound, Guarded
<1> QED
  BY <1>1, <1>2, <1>4, QuietSound

LEMMA PrepareFailsSound ==
  ASSUME TransferInv, PrepareFails
  PROVE  TransferInv'
<1>1. /\ mode = "prepare" /\ mode' = "abort"
      /\ UNCHANGED <<pool, binding, plans, media, cache, content, current, batch, nextPlan, undo>>
  BY DEF PrepareFails, restorable, counters
<1>2. Held' = Held /\ SavedSound' /\ TodoPages'
  BY <1>1 DEF Held, SavedSound, TodoPages, Guarded
<1>3. {Buffer(p)' : p \in Bound'} = {Buffer(p) : p \in Bound}
  BY <1>1 DEF Buffer, Bound
<1>4. UndoSound'
  BY <1>1, <1>3 DEF TransferInv, UndoSound
<1> QED
  BY <1>1, <1>2, <1>4, QuietSound

LEMMA UnchangedSound ==
  ASSUME TransferInv,
         UNCHANGED <<pool, binding, plans, media, cache, content, current, batch, nextPlan,
                     mode, todo, undo, saved>>
  PROVE  TransferInv'
<1>1. Held' = Held
  BY DEF Held
<1>2. SavedSound'
  BY DEF TransferInv, SavedSound, Fresh
<1>3. TodoPages'
  <2>1. Target' = Target
    BY DEF Target
  <2> QED
    BY <2>1 DEF TransferInv, TodoPages
<1>4. UndoSound'
  <2>1. {Buffer(p)' : p \in Bound'} = {Buffer(p) : p \in Bound}
    BY DEF Buffer, Bound
  <2> QED
    BY <2>1 DEF TransferInv, UndoSound
<1> QED
  BY <1>1, <1>2, <1>3, <1>4, QuietSound DEF TransferInv

LEMMA SoundInit ==
  ASSUME Init
  PROVE  TransferInv
<1>1. /\ pool = [p \in Pages |-> [tier |-> InitialTier[p], gen |-> 0, pending |-> FALSE]]
      /\ binding = [p \in Pages |-> [tier |-> InitialTier[p], gen |-> 0]]
      /\ media = [b \in {Buffer(p) : p \in Bound} |-> 0]
      /\ content = [p \in Pages |-> 0]
      /\ DOMAIN plans = {} /\ DOMAIN current = {} /\ cache = <<>> /\ batch = <<>>
      /\ nextPlan = 0 /\ mode = "boundary" /\ undo = <<>>
  BY DEF Init
<1>2. \A p \in Pages : InitialTier[p] \in TierNames
  BY TiersGiven DEF TierNames
<1>3. Placed(pool, binding)
  BY <1>1, <1>2 DEF Placed
<1>4. Transfers(pool, binding, content, plans, current)
  BY <1>1 DEF Transfers
<1>5. Bound = BoundIn(binding) /\ \A p : Buffer(p) = BufferIn(binding, p)
  BY DEF Bound, BoundIn, Buffer, BufferIn
<1>6. Allocated(binding, media, plans, current)
  BY <1>1, <1>5 DEF Allocated, TransferBuffers
<1>7. Coherent(binding, media, cache, content)
  <2>1. cache \in Seq(Line) /\ Range(cache) = {}
    BY <1>1, EmptySeq DEF Range
  <2>2. \A p \in BoundIn(binding) : media[BufferIn(binding, p)] = content[p]
    BY <1>1, <1>5 DEF BoundIn
  <2> QED
    BY <1>1, <2>1, <2>2 DEF Coherent
<1>8. Holds(Held, plans, current)
  BY <1>1, EmptySeq DEF Holds, Held
<1>9. Now
  BY <1>3, <1>4, <1>6, <1>7, <1>8 DEF Now, Sound
<1> QED
  BY <1>1, <1>9 DEF TransferInv, SavedSound, TodoPages, UndoSound, Fresh, Guarded

LEMMA SoundNext ==
  ASSUME TransferInv, TimelineInv, [Next]_vars
  PROVE  TransferInv'
<1>1. ASSUME UNCHANGED vars \/ CancelPrefetch \/ (\E c \in Range(batch) : PhaseEnds(c))
      PROVE  TransferInv'
  BY <1>1, UnchangedSound
     DEF vars, restorable, counters, loopState, CancelPrefetch, PhaseEnds
<1>2. CASE Next
  <2>1. CASE InFlight
    BY <1>1, <2>1, AdvanceSound DEF InFlight
  <2>2. CASE Finishing
    BY <2>2, AbortSound, PublishSound, DiscardSound, EndDiscardSound, EndSound, StartSound
       DEF Finishing
  <2>3. CASE \E r \in Requests :
               StartPrefetch(r) \/ StartMoves(r) \/ Access(r) \/ Grow(r) \/ Release(r)
    BY <2>3, StartPrefetchSound, StartMovesSound, AccessSound, GrowSound, ReleaseSound
  <2>4. CASE PreparePage \/ PrepareFails \/ CancelPrefetch \/ Restore \/ MovePage \/ StartCohort
    BY <1>1, <2>4, PrepareSound, PrepareFailsSound, RestoreSound, MoveSound, StartSound
  <2> QED
    BY <1>2, <2>1, <2>2, <2>3, <2>4 DEF Next
<1> QED
  BY <1>1, <1>2

------------------------------------------------------------------------------
(* The theorems. *)

\* Pool, executor, allocators, caches and callbacks agree on every timeline.
THEOREM TransferStateInvariant == Spec => []TransferInv
<1>1. Init => TransferInv
  BY SoundInit
<1>2. TransferInv /\ TimelineInv /\ [Next]_vars => TransferInv'
  BY SoundNext
<1> QED
  BY <1>1, <1>2, TransferInvariant, PTL DEF Spec

\* prepare_async(), commit(), cancel(), rollback() and restore() of the executor, and
\* the moves at once, give back what they allocate, whatever fails and is restored.
THEOREM TransfersAreAccounted == Spec => []TransfersAccounted
<1>1. TransferInv => TransfersAccounted
  <2> SUFFICES ASSUME TransferInv PROVE TransfersAccounted
    OBVIOUS
  <2>1. Now
    BY DEF TransferInv
  <2>2. \A p \in Pages : binding[p] = [tier |-> pool[p].tier, gen |-> pool[p].gen]
    BY <2>1 DEF Now, Sound, Placed
  <2>3. Bound = BoundIn(binding) /\ \A p : Buffer(p) = BufferIn(binding, p)
    BY <2>1, NowFacts
  <2>4. DOMAIN media = {Buffer(p) : p \in Bound}
          \cup UNION {{TargetOf(current[i]), RelayOf(current[i])} : i \in DOMAIN plans}
    BY <2>1, <2>3 DEF Now, Sound, Allocated, TransferBuffers
  <2>5. {p \in Pages : pool[p].pending} = {current[i].page : i \in DOMAIN plans}
    BY <2>1 DEF Now, Sound, Transfers, InTransfer
  <2> QED
    BY <2>2, <2>4, <2>5 DEF TransfersAccounted
<1> QED
  BY <1>1, TransferStateInvariant, PTL

\* Whatever transfers, flushes, evictions and restores came between, a read of a page
\* returns what was last written to it.
THEOREM ContentIsMoved == Spec => []ContentMoved
<1>1. TransferInv => ContentMoved
  <2> SUFFICES ASSUME TransferInv, NEW p \in Bound PROVE ValueOf(p) = content[p]
    BY DEF ContentMoved
  <2>1. Now /\ Coherent(binding, media, cache, content)
    BY DEF TransferInv, Now, Sound
  <2>2. p \in BoundIn(binding) /\ Buffer(p) = BufferIn(binding, p)
    BY <2>1, NowFacts
  <2>3. CASE \E l \in Range(cache) : l.buffer = Buffer(p)
    <3>1. PICK l : l = CHOOSE k \in Range(cache) : k.buffer = Buffer(p)
      OBVIOUS
    <3>2. l \in Range(cache) /\ l.buffer = Buffer(p)
      BY <2>3, <3>1
    <3>3. ValueOf(p) = l.value
      BY <2>3, <3>1 DEF ValueOf
    <3> QED
      BY <2>1, <2>2, <3>2, <3>3 DEF Coherent
  <2>4. CASE ~\E l \in Range(cache) : l.buffer = Buffer(p)
    <3>1. ValueOf(p) = media[Buffer(p)]
      BY <2>4 DEF ValueOf
    <3> QED
      BY <2>1, <2>2, <2>4, <3>1 DEF Coherent, IsDirty
  <2> QED
    BY <2>3, <2>4
<1> QED
  BY <1>1, TransferStateInvariant, PTL
==============================================================================
