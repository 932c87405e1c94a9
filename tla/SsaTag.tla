------------------------------- MODULE SsaTag -------------------------------
(***************************************************************************)
(* Tag handles (class ssa_tag, src/src/ssa_tag_gc.h) and the two calls     *)
(* that make them, ssa_tag_alloc and ssa_tag_combine with its per-thread   *)
(* single-entry cache (src/src/ssa_tag_gc.cpp).                            *)
(*                                                                         *)
(* A handle is a pointer to a slot or NULL; copying one adds one to the    *)
(* slot's ref_count, destroying or overwriting one takes one away, moving  *)
(* one changes nothing.  Handles live in the shadow memory and registers   *)
(* (Cells) and in each producer's cache (cb_cache_l/r/v).  A slot's bdd is *)
(* modelled by the set of input offsets it denotes: Sylvan's BDDs are      *)
(* canonical, so two bdds are equal exactly when their sets are, and the   *)
(* OR the worker computes for a combine is the union.                      *)
(*                                                                         *)
(* Each call is one step: the claim of a fresh slot is a choice of any     *)
(* slot whose ref_count is 0 or all-ones, which is what SsaFreeList shows  *)
(* the free list hands out when one producer claims at a time.             *)
(***************************************************************************)
EXTENDS Integers, FiniteSets, FiniteSetsExt

CONSTANTS
    Producers,   \* analysed-program threads (tid), each with its ssa_tls
    Cells,       \* shadow bytes and registers that hold a tag
    Offsets,     \* input offsets a fresh tag can denote
    Slots,       \* tag slots of ssa_blk_list (model values)
    NULL

ALL_ONES == -1
Handle == Slots \cup {NULL}

VARIABLES
    ref_count,   \* ssa.ref_count
    bdd,         \* ssa.bdd, as the set of offsets it denotes
    tagmap,      \* the handle each cell holds
    cb_cache_l,  \* ssa_tls[tid].cb_cache_l
    cb_cache_r,  \* ssa_tls[tid].cb_cache_r
    cb_cache_v,  \* ssa_tls[tid].cb_cache_v
    running,     \* producers between ssa_thread_start and ssa_thread_fini
    exited,      \* ssa_exit has run ssa_lastcheck
    logged       \* the errors ssa_lastcheck logged

vars == <<ref_count, bdd, tagmap, cb_cache_l, cb_cache_r, cb_cache_v, running,
          exited, exited, logged>>
cache == <<cb_cache_l, cb_cache_r, cb_cache_v>>

-----------------------------------------------------------------------------
\* ref_count changed by d for a handle to s; nothing for a NULL handle
Adj(rc, s, d) == IF s = NULL THEN rc ELSE [rc EXCEPT ![s] = @ + d]

\* operator=(const ssa_tag &): ++ on the new slot, then -- on the old one
CopyAssign(rc, old, new) == Adj(Adj(rc, new, 1), old, -1)

\* ssa_tag::operator==: same slot, or both set and equal bdds
TagEq(a, b) == a = b \/ (a # NULL /\ b # NULL /\ bdd[a] = bdd[b])

\* the set a handle denotes; NULL is the cleared tag
Denote(x) == IF x = NULL THEN {} ELSE bdd[x]

\* the three copy assignments of tls->cb_cache_l/r/v in ssa_tag_combine
CacheRefsLeak(rc, p, l, r, v) == Adj(Adj(Adj(rc, l, 1), r, 1), v, 1)
CacheRefs(rc, p, l, r, v) ==
    CopyAssign(CopyAssign(CopyAssign(rc, cb_cache_l[p], l),
                          cb_cache_r[p], r),
               cb_cache_v[p], v)

\* the slots the free list may hand out
Free == {s \in Slots : ref_count[s] \in {0, ALL_ONES}}

-----------------------------------------------------------------------------
Init ==
    /\ ref_count = [s \in Slots |-> ALL_ONES]
    /\ bdd = [s \in Slots |-> {}]
    /\ tagmap = [c \in Cells |-> NULL]
    /\ cb_cache_l = [p \in Producers |-> NULL]
    /\ cb_cache_r = [p \in Producers |-> NULL]
    /\ cb_cache_v = [p \in Producers |-> NULL]
    /\ running = {}
    /\ exited = FALSE
    /\ logged = {}

\* ssa_thread_start: the tls block is zeroed, so the cache is all NULL
ThreadStart(p) ==
    /\ p \notin running
    /\ running' = running \cup {p}
    /\ cb_cache_l' = [cb_cache_l EXCEPT ![p] = NULL]
    /\ cb_cache_r' = [cb_cache_r EXCEPT ![p] = NULL]
    /\ cb_cache_v' = [cb_cache_v EXCEPT ![p] = NULL]
    /\ UNCHANGED <<ref_count, bdd, tagmap, exited, logged>>

ThreadFiniNoDestroy(p) ==
    /\ p \in running
    /\ running' = running \ {p}
    /\ cb_cache_l' = [cb_cache_l EXCEPT ![p] = NULL]
    /\ cb_cache_r' = [cb_cache_r EXCEPT ![p] = NULL]
    /\ cb_cache_v' = [cb_cache_v EXCEPT ![p] = NULL]
    /\ UNCHANGED <<ref_count, bdd, tagmap, exited, logged>>

\* ssa_thread_fini: after the worker quits, the three cache handles are
\* destroyed, giving back their references
ThreadFini(p) ==
    /\ p \in running
    /\ running' = running \ {p}
    /\ ref_count' = Adj(Adj(Adj(ref_count, cb_cache_l[p], -1),
                            cb_cache_r[p], -1), cb_cache_v[p], -1)
    /\ cb_cache_l' = [cb_cache_l EXCEPT ![p] = NULL]
    /\ cb_cache_r' = [cb_cache_r EXCEPT ![p] = NULL]
    /\ cb_cache_v' = [cb_cache_v EXCEPT ![p] = NULL]
    /\ UNCHANGED <<bdd, tagmap, exited, logged>>

\* c := tag_alloc(o, tid): a claimed slot gets ref_count 1 and the
\* singleton set; the returned handle is moved into c, whose old handle
\* is released
TagAlloc(p, c, o) ==
    /\ p \in running
    /\ \E s \in Free :
          /\ ref_count' = Adj([ref_count EXCEPT ![s] = 1], tagmap[c], -1)
          /\ bdd' = [bdd EXCEPT ![s] = {o}]
          /\ tagmap' = [tagmap EXCEPT ![c] = s]
    /\ UNCHANGED <<cache, running, exited, logged>>

\* the caller's c = tag_xxx(...): the returned handle is a copy of x (copy
\* constructor, ++), then moved into c, whose old handle is released
ReturnNoCopy(rc, x, old) == Adj(rc, old, -1)
ReturnCopy(rc, x, old) == Adj(Adj(rc, x, 1), old, -1)

\* tls->cb_cache_l == lhs && tls->cb_cache_r == rhs, by operator==
CacheHitLhsOnly(p, l, r) == TagEq(cb_cache_l[p], l)
CacheHit(p, l, r) == TagEq(cb_cache_l[p], l) /\ TagEq(cb_cache_r[p], r)

\* tls->cb_cache_l = lhs; tls->cb_cache_r = rhs; tls->cb_cache_v = v
SetCacheKeysOnly(p, l, r, v) ==
    /\ cb_cache_l' = [cb_cache_l EXCEPT ![p] = l]
    /\ cb_cache_r' = [cb_cache_r EXCEPT ![p] = r]
    /\ UNCHANGED cb_cache_v
SetCache(p, l, r, v) ==
    /\ cb_cache_l' = [cb_cache_l EXCEPT ![p] = l]
    /\ cb_cache_r' = [cb_cache_r EXCEPT ![p] = r]
    /\ cb_cache_v' = [cb_cache_v EXCEPT ![p] = v]

\* c := tag_combine(a, b, tid).  The early returns and the cache hit
\* return a copy of an existing handle; on a miss the worker computes the
\* union, the handle returned is lhs, rhs or a fresh slot, and the cache
\* is set to (lhs, rhs) -> result.
TagCombine(p, c, a, b) ==
    LET lhs == tagmap[a]
        rhs == tagmap[b]
        res == Denote(lhs) \cup Denote(rhs)
        \* return x unchanged, x taken from the engine result's operands
        Shared(x) ==
            /\ ref_count' = ReturnCopy(CacheRefs(ref_count, p, lhs, rhs, x),
                                       x, tagmap[c])
            /\ tagmap' = [tagmap EXCEPT ![c] = x]
            /\ SetCache(p, lhs, rhs, x)
            /\ UNCHANGED bdd
    IN
    /\ p \in running
    /\ \/ /\ lhs = NULL
          /\ ref_count' = ReturnCopy(ref_count, rhs, tagmap[c])
          /\ tagmap' = [tagmap EXCEPT ![c] = rhs]
          /\ UNCHANGED <<bdd, cache>>
       \/ /\ lhs # NULL
          /\ rhs = NULL \/ TagEq(lhs, rhs)
          /\ ref_count' = ReturnCopy(ref_count, lhs, tagmap[c])
          /\ tagmap' = [tagmap EXCEPT ![c] = lhs]
          /\ UNCHANGED <<bdd, cache>>
       \/ /\ lhs # NULL /\ rhs # NULL /\ ~TagEq(lhs, rhs)
          /\ CacheHit(p, lhs, rhs)
          /\ ref_count' = ReturnCopy(ref_count, cb_cache_v[p], tagmap[c])
          /\ tagmap' = [tagmap EXCEPT ![c] = cb_cache_v[p]]
          /\ UNCHANGED <<bdd, cache>>
       \/ /\ lhs # NULL /\ rhs # NULL /\ ~TagEq(lhs, rhs)
          /\ ~CacheHit(p, lhs, rhs)
          /\ \/ res = bdd[lhs] /\ Shared(lhs)
             \/ res # bdd[lhs] /\ res = bdd[rhs] /\ Shared(rhs)
             \/ /\ res # bdd[lhs] /\ res # bdd[rhs]
                /\ \E s \in Free :
                      \* victim->ref_count = 1; ssa_tag res(victim) is
                      \* copied into cb_cache_v and moved to the caller
                      /\ bdd' = [bdd EXCEPT ![s] = res]
                      /\ ref_count' =
                           Adj(CacheRefs([ref_count EXCEPT ![s] = 1],
                                         p, lhs, rhs, s), tagmap[c], -1)
                      /\ tagmap' = [tagmap EXCEPT ![c] = s]
                      /\ SetCache(p, lhs, rhs, s)
    /\ UNCHANGED <<running, exited, logged>>

\* c := a, by operator=(const ssa_tag &)
TagCopy(p, c, a) ==
    /\ p \in running
    /\ ref_count' = CopyAssign(ref_count, tagmap[c], tagmap[a])
    /\ tagmap' = [tagmap EXCEPT ![c] = tagmap[a]]
    /\ UNCHANGED <<bdd, cache, running, exited, logged>>

\* c := tag_traits<ssa_tag>::cleared_val, the NULL handle
TagClear(p, c) ==
    /\ p \in running
    /\ ref_count' = Adj(ref_count, tagmap[c], -1)
    /\ tagmap' = [tagmap EXCEPT ![c] = NULL]
    /\ UNCHANGED <<bdd, cache, running, exited, logged>>

\* the cells holding a handle to s: the tag pages and the vcpu registers
\* ssa_lastcheck walks
CellRefs(s) == Quantify(Cells, LAMBDA c : tagmap[c] = s)

\* the slots ssa_lastcheck puts in c_map, with their counts
InUse(s) == ref_count[s] \notin {0, ALL_ONES}

\* ssa_lastcheck run by ssa_exit (SSA_PROFILE builds) once lace_stop has
\* returned, so after every thread's ssa_thread_fini: c_map gets every
\* slot in use; each cell's handle takes one off its slot's count
\* (through the pointer, so ref_count itself drops) and the entry is
\* erased at 0.  A cell whose slot is not (or no longer) in c_map logs
\* "empty" (and dereferences c_map.end(): the check ends with it here); a
\* c_map left non-empty logs "remain".

\* the slots a cell points at that are not in c_map when the cell is reached
Missing == {s \in Slots : CellRefs(s) > 0 /\ (~InUse(s) \/ CellRefs(s) > ref_count[s])}
\* the slots left in c_map at the end
Remaining == {s \in Slots : InUse(s) /\ CellRefs(s) < ref_count[s]}

ssa_lastcheck ==
    /\ running = {} /\ ~exited
    /\ exited' = TRUE
    /\ logged' = (IF Missing # {} THEN {"empty"} ELSE {})
                 \cup (IF Remaining # {} THEN {"remain"} ELSE {})
    /\ ref_count' = [s \in Slots |->
                        IF InUse(s) /\ s \notin Missing
                        THEN ref_count[s] - CellRefs(s) ELSE ref_count[s]]
    /\ UNCHANGED <<bdd, tagmap, cache, running>>

Next ==
    \/ ssa_lastcheck
    \/ exited /\ UNCHANGED vars
    \/ ~exited /\ \E p \in Producers :
        \/ ThreadStart(p) \/ ThreadFini(p)
        \/ \E c \in Cells, o \in Offsets : TagAlloc(p, c, o)
        \/ \E c, a, b \in Cells : TagCombine(p, c, a, b)
        \/ \E c, a \in Cells : TagCopy(p, c, a)
        \/ \E c \in Cells : TagClear(p, c)

Spec == Init /\ [][Next]_vars

-----------------------------------------------------------------------------
(* Properties *)

TypeOK ==
    /\ ref_count \in [Slots -> Nat \cup {ALL_ONES}]
    /\ bdd \in [Slots -> SUBSET Offsets]
    /\ tagmap \in [Cells -> Handle]
    /\ cb_cache_l \in [Producers -> Handle]
    /\ cb_cache_r \in [Producers -> Handle]
    /\ cb_cache_v \in [Producers -> Handle]
    /\ running \subseteq Producers
    /\ exited \in BOOLEAN
    /\ logged \subseteq {"empty", "remain"}

\* the handles that point at s: cells and every producer's cache entries
Holders(s) ==
    Quantify(Cells, LAMBDA c : tagmap[c] = s)
    + Quantify(Producers, LAMBDA p : cb_cache_l[p] = s)
    + Quantify(Producers, LAMBDA p : cb_cache_r[p] = s)
    + Quantify(Producers, LAMBDA p : cb_cache_v[p] = s)

\* After any sequence of allocations, combines (through every branch and
\* the cache), copies, clears and thread exits, a slot's ref_count is the
\* number of handles that point at it, and a slot no handle points at
\* reads 0 or all-ones, so the collector reclaims it and nothing else.
RefCountExact ==
    ~exited =>
    \A s \in Slots :
        IF Holders(s) = 0 THEN ref_count[s] \in {0, ALL_ONES}
                          ELSE ref_count[s] = Holders(s)

\* A cache hit is never stale: whenever a producer's cache is set, its
\* value denotes the union of what its two keys denote, so returning
\* cb_cache_v on a hit by value gives the combine the worker would give.
CacheSound ==
    \A p \in Producers :
        cb_cache_l[p] # NULL =>
            Denote(cb_cache_v[p]) = Denote(cb_cache_l[p]) \cup Denote(cb_cache_r[p])

\* ssa_lastcheck, run by ssa_exit after every thread has been through
\* ssa_thread_fini, logs no error: every handle left in the tag pages and
\* registers is counted by its slot, and no slot in use counts a handle
\* the walk does not see (a cache entry ssa_thread_fini did not destroy,
\* or a reference leaked by a copy or a combine).
LastCheckClean == logged = {}

\* The handle layer implements TaintMap: what each cell denotes evolves as
\* the abstract taint map does, whatever slots, sharing and cache hits
\* the calls go through.
TaintOf == [c \in Cells |-> Denote(tagmap[c])]
Abstract == INSTANCE TaintMap WITH taint <- TaintOf
TaintRefinement == Abstract!Spec
=============================================================================
