------------------------------- MODULE KVPool -------------------------------
(***************************************************************************)
(* DynamicKVPool of kv_pool.py: the paged KV cache.  Requests and          *)
(* registered prefixes hold references to pages; a page occupies one       *)
(* component (HBM, HBF, DRAM) and may be copied to another at once (_move) *)
(* or while other calls go on (a prepared restore, which reserves the      *)
(* destination until it is completed, cancelled or aborted).               *)
(*                                                                         *)
(* Every public call is one action: the pool has no lock and one caller at *)
(* a time.  A call that raises or returns False changes nothing unless an  *)
(* action says so.  All pages have the same payload; what one of them      *)
(* takes on a component (allocation_bytes()) depends on the component and  *)
(* on the transfer executor.  Read-only components never hold a page and   *)
(* are left out; a missing route or an incompatible component is a choice  *)
(* of `allowed`.                                                           *)
(***************************************************************************)
EXTENDS Integers, Sequences, FiniteSets, SequencesExt

CONSTANTS
    Requests, PrefixKeys,
    Components,
    Active,              \* components pages are allocated on and restored to
    Offload,             \* offload_components
    Capacity,            \* Capacity[c]: bytes of component c
    LogicalSize,         \* LogicalSize[c] and PhysicalSize[c]: bytes a page takes on c
    PhysicalSize,        \* before and after a transfer executor is attached
    Rank,                \* Rank[c]: order of c among equally free components
    PageLimit,           \* bound on pages ever allocated
    SizeLimit,           \* bound on the pages of a request
    GenerationLimit,     \* bound on the moves of a page
    PrepareShared        \* whether a restore is prepared for a page no request
                         \* holds, as the pool allows; serving.py never does

ASSUME KVPoolAssumption ==
    /\ IsFiniteSet(Requests) /\ IsFiniteSet(PrefixKeys)
    /\ Active \subseteq Components
    /\ Offload \subseteq Components
    /\ Capacity \in [Components -> Nat]
    /\ LogicalSize \in [Components -> Nat \ {0}]
    /\ PhysicalSize \in [Components -> Nat \ {0}]
    /\ Rank \in [Components -> Nat]
    /\ {PageLimit, SizeLimit, GenerationLimit} \subseteq Nat
    /\ PrepareShared \in BOOLEAN

VARIABLES
    page,        \* page[p]: the live KvPage p
    requests,    \* requests[r]: the page table of r, empty when r is unknown
    prefixes,    \* prefixes[k]: pages registered under k, empty when k is not
    pending,     \* pending[p]: the prepared restore of p (_pending_moves)
    used,        \* the ledger's used_bytes
    owned,       \* _owned_bytes
    recency,     \* live pages by last_access, the least recent first
    pageCounter, \* _page_counter
    executor     \* whether a transfer executor is attached

pageVars   == <<page, used, owned, recency, pageCounter>>
vars       == <<pageVars, requests, prefixes, pending, executor>>

Live == DOMAIN page
PageIds == 0 .. PageLimit - 1

\* A page record: its owner component, refs, whether it is pinned and whether it is
\* keyed (prefix_key is not None), the requests bound to it (_bindings[p]), its
\* generation and the index its token_start was computed from.

Init ==
    /\ page = <<>>
    /\ requests = [r \in Requests |-> <<>>]
    /\ prefixes = [k \in PrefixKeys |-> <<>>]
    /\ pending = <<>>
    /\ used = [c \in Components |-> 0]
    /\ owned = [c \in Components |-> 0]
    /\ recency = <<>>
    /\ pageCounter = 0
    /\ executor = FALSE

----------------------------------------------------------------------------
(* Helpers *)

Footprint(c) == IF executor THEN PhysicalSize[c] ELSE LogicalSize[c]
IsPending(p) == p \in DOMAIN pending
Held(r) == ToSet(requests[r])
InFlight(r) == \E p \in Held(r) : IsPending(p)

\* The elements of s outside S, in their order.
Without(s, S) ==
    LET kept  == {i \in DOMAIN s : s[i] \notin S}
        at(n) == CHOOSE i \in kept : Cardinality({j \in kept : j <= i}) = n
    IN [n \in 1 .. Cardinality(kept) |-> s[at(n)]]

Touched(s, touched) == Without(s, ToSet(touched)) \o touched
Bytes(c, pages, rec) == Footprint(c) * Cardinality({p \in pages : rec[p].owner = c})

\* _free_page() of every page of `freed`, the other pages becoming as in `rec`.
Keep(rec, freed) ==
    /\ page' = [p \in DOMAIN rec \ freed |-> rec[p]]
    /\ used' = [c \in Components |-> used[c] - Bytes(c, freed, rec)]
    /\ owned' = [c \in Components |-> owned[c] - Bytes(c, freed, rec)]
    /\ recency' = Without(recency, freed)

\* The pages whose last reference _drop_ref() frees.
LastUnpinned(pages) == {p \in pages : page[p].refs = 1 /\ ~page[p].pinned}

\* _drop_ref(p, r) of every page of `pages`: a last reference frees an unpinned
\* page and leaves a pinned one without references.
DropRefs(pages, r) ==
    Keep([p \in Live |->
            IF p \in pages
            THEN [page[p] EXCEPT !.refs = @ - 1, !.bound = @ \ {r}]
            ELSE page[p]],
         LastUnpinned(pages))

\* Fault: a page freed stays registered.
ForgetNothing(freed) == UNCHANGED prefixes

\* Pages freed leave every prefix.
ForgetFreed(freed) == prefixes' = [k \in PrefixKeys |-> Without(prefixes[k], freed)]

----------------------------------------------------------------------------
(* resize_detailed(request, n, prefix_key, compatible_components) *)

Taken(c, owners) == Footprint(c) * Cardinality({i \in DOMAIN owners : owners[i] = c})
Free(c, owners) == Capacity[c] - used[c] - Taken(c, owners)

\* _candidate_ids(): the allowed active components with room after `taken`,
\* and whether c comes first among them, being the freest.
Roomy(allowed, taken) ==
    {c \in allowed \cap Active : Free(c, taken) >= Footprint(c)}
Freest(c, cs, taken) ==
    /\ c \in cs
    /\ \A d \in cs \ {c} :
         \/ Free(c, taken) > Free(d, taken)
         \/ Free(c, taken) = Free(d, taken) /\ Rank[c] < Rank[d]

\* The owners _allocate_one() gives n new pages, one after the other: fewer than n
\* when one of them finds no component.
Placements(allowed, n) ==
    {owners \in UNION {[1 .. m -> Components] : m \in 0 .. n} :
        /\ Len(owners) < n => Roomy(allowed, owners) = {}
        /\ \A i \in DOMAIN owners :
             LET taken == SubSeq(owners, 1, i - 1) IN
             Freest(owners[i], Roomy(allowed, taken), taken)}

SameSize(r) ==
    /\ recency' = Touched(recency, requests[r])
    /\ UNCHANGED <<page, used, owned, pageCounter, requests, prefixes, pending, executor>>

Shrink(r, n) ==
    LET removed == ToSet(SubSeq(requests[r], n + 1, Len(requests[r]))) IN
    /\ DropRefs(removed, r)
    /\ ForgetFreed(LastUnpinned(removed))
    /\ requests' = [requests EXCEPT ![r] = SubSeq(@, 1, n)]
    /\ UNCHANGED <<pageCounter, pending, executor>>

\* An empty request takes the first pages of the prefix; the others are new.
\* When one cannot be placed the references and the new pages are given back,
\* but not the page numbers nor the prefix pages' place in the LRU order.
Grow(r, n, attached, allowed) ==
    LET missing == n - Len(requests[r]) - Len(attached)
        first   == Len(requests[r]) + Len(attached)
    IN \E owners \in Placements(allowed, missing) :
         LET new == [i \in 1 .. Len(owners) |-> pageCounter + i - 1] IN
         /\ pageCounter + missing <= PageLimit
         /\ pageCounter' = pageCounter + Len(owners)
         /\ \/ /\ Len(owners) = missing
               /\ page' = [p \in Live \union ToSet(new) |->
                             IF p \in ToSet(new)
                             THEN [owner |-> owners[p - pageCounter + 1], refs |-> 1,
                                   pinned |-> FALSE, keyed |-> FALSE, bound |-> {r},
                                   generation |-> 0, start |-> first + p - pageCounter]
                             ELSE IF p \in ToSet(attached)
                             THEN [page[p] EXCEPT !.refs = @ + 1, !.bound = @ \union {r}]
                             ELSE page[p]]
               /\ used' = [c \in Components |-> used[c] + Taken(c, owners)]
               /\ owned' = [c \in Components |-> owned[c] + Taken(c, owners)]
               /\ recency' = Touched(recency, attached) \o new
               /\ requests' = [requests EXCEPT ![r] = @ \o attached \o new]
            \/ /\ Len(owners) < missing
               /\ recency' = Touched(recency, attached)
               /\ UNCHANGED <<page, used, owned, requests>>
         /\ UNCHANGED <<prefixes, pending, executor>>

\* `shared` is the page list registered under prefix_key, empty without one.
Resize(r, n, shared, allowed) ==
    LET attached == IF requests[r] = <<>> THEN SubSeq(shared, 1, Min({n, Len(shared)}))
                                         ELSE <<>>
    IN
    /\ ~InFlight(r)
    /\ \/ n = Len(requests[r]) /\ SameSize(r)
       \/ n < Len(requests[r]) /\ Shrink(r, n)
       \/ n > Len(requests[r]) /\ Grow(r, n, attached, allowed)

----------------------------------------------------------------------------
(* References: requests, prefixes and pins *)

\* Fault: a request is released under the copy of one of its pages.
ReleaseInFlight(r) ==
    /\ DropRefs(Held(r), r)
    /\ ForgetFreed(LastUnpinned(Held(r)))
    /\ requests' = [requests EXCEPT ![r] = <<>>]
    /\ UNCHANGED <<pageCounter, pending, executor>>

Release(r) ==
    /\ ~InFlight(r)
    /\ DropRefs(Held(r), r)
    /\ ForgetFreed(LastUnpinned(Held(r)))
    /\ requests' = [requests EXCEPT ![r] = <<>>]
    /\ UNCHANGED <<pageCounter, pending, executor>>

HandoffRequest(r, s) ==
    /\ r # s
    /\ requests[s] = <<>>
    /\ \A p \in Held(r) : page[p].refs = 1 /\ ~page[p].pinned /\ ~page[p].keyed /\ ~IsPending(p)
    /\ requests' = [requests EXCEPT ![r] = <<>>, ![s] = requests[r]]
    /\ page' = [p \in Live |-> IF p \in Held(r)
                               THEN [page[p] EXCEPT !.bound = (@ \ {r}) \union {s}]
                               ELSE page[p]]
    /\ UNCHANGED <<used, owned, recency, pageCounter, prefixes, pending, executor>>

\* The first n pages of r, as every caller registers them.
RegisterPrefix(k, r, n) ==
    LET ids == SubSeq(requests[r], 1, n) IN
    /\ prefixes[k] = <<>>
    /\ n \in 1 .. Len(requests[r])
    /\ page' = [p \in Live |-> IF p \in ToSet(ids)
                               THEN [page[p] EXCEPT !.refs = @ + 1, !.keyed = TRUE]
                               ELSE page[p]]
    /\ recency' = Touched(recency, ids)
    /\ prefixes' = [prefixes EXCEPT ![k] = ids]
    /\ UNCHANGED <<used, owned, pageCounter, requests, pending, executor>>

\* A page still registered under another key stays keyed.
ReleasePrefix(k) ==
    LET ids   == ToSet(prefixes[k])
        freed == LastUnpinned(ids)
    IN
    /\ Keep([p \in Live |->
                IF p \in ids
                THEN [page[p] EXCEPT !.refs = @ - 1,
                                     !.keyed = \E other \in PrefixKeys \ {k} : p \in ToSet(prefixes[other])]
                ELSE page[p]],
            freed)
    /\ prefixes' = [j \in PrefixKeys |-> IF j = k THEN <<>> ELSE Without(prefixes[j], freed)]
    /\ UNCHANGED <<pageCounter, requests, pending, executor>>

Pin(r, p) ==
    /\ p \in Held(r)
    /\ page' = [page EXCEPT ![p].pinned = TRUE]
    /\ recency' = Touched(recency, <<p>>)
    /\ UNCHANGED <<used, owned, pageCounter, requests, prefixes, pending, executor>>

\* unpin(r, p) and unpin_page(p): a page nobody refers to goes with its pin.
Unpin(p) ==
    LET freed == {q \in {p} : page[q].refs = 0} IN
    /\ p \in Live
    /\ page[p].pinned
    /\ Keep([page EXCEPT ![p].pinned = FALSE], freed)
    /\ ForgetFreed(freed)
    /\ UNCHANGED <<pageCounter, requests, pending, executor>>

Touch(r) == SameSize(r)

\* evict(): the least recently used pages that only a prefix refers to, as many
\* as bytes_needed asks for (n covers every amount).
Evict(allowed, n) ==
    LET evictable(p) == /\ page[p].refs = 1
                        /\ ~page[p].pinned
                        /\ page[p].bound = {}
                        /\ page[p].owner \in allowed
        oldest == Without(recency, {p \in Live : ~evictable(p)})
        freed == ToSet(SubSeq(oldest, 1, n))
    IN
    /\ n <= Len(oldest)
    /\ Keep(page, freed)
    /\ ForgetFreed(freed)
    /\ UNCHANGED <<pageCounter, requests, pending, executor>>

----------------------------------------------------------------------------
(* Moves *)

Fits(c) == used[c] + Footprint(c) <= Capacity[c]

\* Fault: a page is moved under its own copy.
MovableInFlight(p, c) == page[p].owner # c /\ Fits(c)

\* _move(): the copy, the ledger transfer and the new identity in one call.
Movable(p, c) == ~IsPending(p) /\ page[p].owner # c /\ Fits(c)

\* Fault: the target is charged what the page took on its source.
MoveSourceSized(p, c) ==
    LET source == page[p].owner IN
    /\ page[p].generation < GenerationLimit
    /\ used' = [used EXCEPT ![source] = @ - Footprint(source), ![c] = @ + Footprint(source)]
    /\ owned' = [owned EXCEPT ![source] = @ - Footprint(source), ![c] = @ + Footprint(source)]
    /\ page' = [page EXCEPT ![p].owner = c, ![p].generation = @ + 1]
    /\ recency' = Touched(recency, <<p>>)
    /\ UNCHANGED <<pageCounter, requests, prefixes, pending, executor>>

Move(p, c) ==
    LET source == page[p].owner IN
    /\ page[p].generation < GenerationLimit
    /\ used' = [used EXCEPT ![source] = @ - Footprint(source), ![c] = @ + Footprint(c)]
    /\ owned' = [owned EXCEPT ![source] = @ - Footprint(source), ![c] = @ + Footprint(c)]
    /\ page' = [page EXCEPT ![p].owner = c, ![p].generation = @ + 1]
    /\ recency' = Touched(recency, <<p>>)
    /\ UNCHANGED <<pageCounter, requests, prefixes, pending, executor>>

\* migrate_page() moves to an active component, offload_page() to an offload
\* component and restore_page() to the first active candidate; each may be told
\* the target.
MovePage(p, c) ==
    /\ executor
    /\ p \in Live
    /\ c \in Active \union Offload
    /\ Movable(p, c)
    /\ Move(p, c)

Preparable(p, c) ==
    /\ ~IsPending(p)
    /\ c \in Active
    /\ page[p].owner # c
    /\ page[p].refs = 1
    /\ ~page[p].pinned
    /\ Fits(c)

PrepareRestorePage(p, c) ==
    /\ executor
    /\ p \in Live
    /\ PrepareShared \/ page[p].bound # {}
    /\ Preparable(p, c)
    /\ page[p].generation < GenerationLimit
    /\ used' = [used EXCEPT ![c] = @ + Footprint(c)]
    /\ pending' = [q \in DOMAIN pending \union {p} |->
                     IF q = p THEN [source |-> page[p].owner, target |-> c,
                                    generation |-> page[p].generation]
                     ELSE pending[q]]
    /\ UNCHANGED <<page, owned, recency, pageCounter, requests, prefixes, executor>>

Settle(p) == pending' = [q \in DOMAIN pending \ {p} |-> pending[q]]

\* abort_prepared_restore() and cancel_prepared_restore(): the reservation is
\* given back.  Both, and completion, start with self.page(p), which raises for
\* a page that is gone.
DropPreparedRestore(p) ==
    LET target == pending[p].target IN
    /\ IsPending(p) /\ p \in Live
    /\ used' = [used EXCEPT ![target] = @ - Footprint(target)]
    /\ Settle(p)
    /\ UNCHANGED <<page, owned, recency, pageCounter, requests, prefixes, executor>>

CompletePreparedRestore(p) ==
    LET move == pending[p] IN
    /\ IsPending(p) /\ p \in Live
    /\ page[p].owner = move.source
    /\ page[p].generation = move.generation
    /\ used' = [used EXCEPT ![move.source] = @ - Footprint(move.source)]
    /\ owned' = [owned EXCEPT ![move.source] = @ - Footprint(move.source),
                              ![move.target] = @ + Footprint(move.target)]
    /\ page' = [page EXCEPT ![p].owner = move.target, ![p].generation = @ + 1]
    /\ recency' = Touched(recency, <<p>>)
    /\ Settle(p)
    /\ UNCHANGED <<pageCounter, requests, prefixes, executor>>

----------------------------------------------------------------------------
(* set_transfer_executor(): pages allocated before are charged what they take  *)
(* physically, or the executor is refused when that does not fit.  Another     *)
(* executor for the same memory changes nothing more.                          *)

OnComponent(c) == Cardinality({p \in Live : page[p].owner = c})

SetTransferExecutor ==
    LET charged(c) == OnComponent(c) * PhysicalSize[c] - owned[c] IN
    /\ ~executor
    /\ DOMAIN pending = {}
    /\ \A c \in Components : charged(c) > 0 => used[c] + charged(c) <= Capacity[c]
    /\ executor' = TRUE
    /\ used' = [c \in Components |-> used[c] + charged(c)]
    /\ owned' = [c \in Components |-> owned[c] + charged(c)]
    /\ UNCHANGED <<page, recency, pageCounter, requests, prefixes, pending>>

----------------------------------------------------------------------------

RequestStep(r) ==
    \/ \E n \in 0 .. SizeLimit, shared \in {<<>>} \union {prefixes[k] : k \in PrefixKeys},
          allowed \in SUBSET Active : Resize(r, n, shared, allowed)
    \/ Release(r)
    \/ \E s \in Requests : HandoffRequest(r, s)
    \/ Touch(r)
    \/ \E p \in Held(r) : Pin(r, p)

PrefixStep(k) ==
    \/ \E r \in Requests, n \in 1 .. SizeLimit : RegisterPrefix(k, r, n)
    \/ ReleasePrefix(k)

PageStep(p) ==
    \/ Unpin(p)
    \/ \E c \in Components : MovePage(p, c) \/ PrepareRestorePage(p, c)
    \/ DropPreparedRestore(p)
    \/ CompletePreparedRestore(p)

Next ==
    \/ \E r \in Requests : RequestStep(r)
    \/ \E k \in PrefixKeys : PrefixStep(k)
    \/ \E p \in Live : PageStep(p)
    \/ \E allowed \in SUBSET Components, n \in 1 .. PageLimit : Evict(allowed, n)
    \/ SetTransferExecutor

Spec == Init /\ [][Next]_vars

----------------------------------------------------------------------------
(* Properties *)

\* The shared ledger charges exactly the pages on a component and the
\* destinations reserved for copies under way, and never more than it has.
LedgerConserved ==
    \A c \in Components :
        /\ owned[c] = Bytes(c, Live, page)
        /\ used[c] = owned[c] + Footprint(c) * Cardinality({p \in DOMAIN pending : pending[p].target = c})
        /\ used[c] <= Capacity[c]

\* A page's references are its requests and its prefixes, nothing it appears in
\* has been freed, and its bindings are exactly the requests that hold it.
ReferencesExact ==
    /\ \A r \in Requests : Held(r) \subseteq Live
    /\ \A k \in PrefixKeys : ToSet(prefixes[k]) \subseteq Live
    /\ \A p \in Live :
         LET keys == {k \in PrefixKeys : p \in ToSet(prefixes[k])} IN
         /\ page[p].bound = {r \in Requests : p \in Held(r)}
         /\ page[p].refs = Cardinality(page[p].bound) + Cardinality(keys)
         /\ page[p].keyed = (keys # {})

\* "Destination capacity is reserved while the authoritative source page
\* remains live" (kv_pool.py, _pending_moves): the source of a copy under way is
\* there, where the copy started from, and nobody else's.
PendingSourceLive ==
    \A p \in DOMAIN pending :
        /\ p \in Live
        /\ page[p].owner = pending[p].source
        /\ page[p].generation = pending[p].generation

\* While the copy of a page is under way the page stays where it is, and no
\* request that holds it loses it to a resize, release or handoff.
InFlightUndisturbed ==
    [][\A p \in DOMAIN pending \cap DOMAIN pending' :
          p \in Live => /\ p \in DOMAIN page'
                        /\ page'[p].owner = page[p].owner
                        /\ page[p].bound \subseteq page'[p].bound]_vars
=============================================================================
