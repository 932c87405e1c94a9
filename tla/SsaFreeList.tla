----------------------------- MODULE SsaFreeList -----------------------------
(***************************************************************************)
(* The slot allocator and collector of src/src/ssa_tag_gc.cpp.             *)
(*                                                                         *)
(* Tag slots ("ssa") live in blocks of SSA_BLK slots (ssa_blk_list).  The  *)
(* circular free list free_ssa (_q, _h, _t) holds at most SSA_BLK - 1      *)
(* slots; a producer claims one with a CAS on _h.  When it finds the list  *)
(* empty, the producer that wins the CAS on gc_lock runs ssa_gc, which     *)
(* sweeps every block for slots whose ref_count is 0 (used, now dead) or   *)
(* all-ones (never used), unprotects the dead ones' bdds and refills the   *)
(* list; if too few are found it appends a fresh block (add_ssa_blk).      *)
(*                                                                         *)
(* The handles themselves (SsaTag) are abstracted here to what the         *)
(* allocator sees of them: copies and destructions that add one to or take *)
(* one from a live slot's ref_count.  held is the true number of           *)
(* references, a history variable the code does not keep.                  *)
(***************************************************************************)
EXTENDS Integers, Sequences, FiniteSets, FiniteSetsExt, Functions

CONSTANTS
    Producers,   \* analysed-program threads calling into the tag layer (tid)
    SSA_BLK,     \* slots per block, also the length of free_ssa._q
    MaxBlocks,   \* bound on add_ssa_blk growth
    MaxRefs,     \* bound on the references the program holds at once
    NULL

ASSUME SSA_BLK \in Nat /\ SSA_BLK >= 2
ASSUME MaxBlocks \in Nat \ {0}
ASSUME MaxRefs \in Nat \ {0}

SSA_GC_THRESHOLD == SSA_BLK \div 2
\* ref_count is a uint64_t: 0xffffffffffffffff is -1 modulo 2^64, and the
\* small negative numbers stand for the other values just below 2^64.
ALL_ONES == -1
Slots == 0 .. MaxBlocks * SSA_BLK - 1
Index == 0 .. SSA_BLK - 1

VARIABLES
    ref_count,   \* ssa.ref_count of every slot (memset 0xff in add_ssa_blk)
    protected,   \* slots whose &bdd is registered by sylvan_protect
    q, h, t,     \* free_ssa._q, free_ssa._h, free_ssa._t
    gc_lock,     \* free_ssa.gc_lock
    nblk,        \* ssa_blk_list.size()
    held,        \* history: references the program really holds per slot
    pc,          \* where each producer is in the claim loop
    idx,         \* local idx / ssa_idx read from _h
    victim,      \* local victim = free_ssa._q[idx]
    target,      \* the slot whose ref_count a producer is updating
    tmp          \* the value it loaded, plus or minus one

vars == <<ref_count, protected, q, h, t, gc_lock, nblk, held, pc, idx, victim,
         target, tmp>>
refLocals == <<target, tmp>>
freeList == <<q, h, t, gc_lock, nblk>>

-----------------------------------------------------------------------------
\* number of slots in the free list, and free room as ssa_gc computes it
Queued(hh, tt) == (tt - hh + SSA_BLK) % SSA_BLK
EmptyCount(hh, tt) ==
    IF tt >= hh THEN SSA_BLK - 1 - (tt - hh) ELSE hh - tt - 1

\* write the sequence s into the circular array qq from position from on;
\* a later write to the same position wins
Fill(qq, from, s) ==
    [j \in Index |->
        LET W == {i \in 1 .. Len(s) : (from + i - 1) % SSA_BLK = j}
        IN  IF W = {} THEN qq[j] ELSE s[Max(W)]]

\* producers that are inside the claim loop or about to finish the call
Busy == {p \in Producers : pc[p] \notin {"idle", "store_rc"}}
Outstanding == FoldFunction(+, 0, held) + Cardinality(Busy)

-----------------------------------------------------------------------------
(* State after ssa_init: free_ssa emptied, then add_ssa_blk has filled      *)
(* SSA_BLK - 1 entries from the first block; _q[SSA_BLK - 1] is untouched   *)
(* malloc'd memory.                                                         *)
Init ==
    /\ ref_count = [s \in Slots |-> ALL_ONES]
    /\ protected = {}
    /\ q = [j \in Index |-> IF j < SSA_BLK - 1 THEN j ELSE NULL]
    /\ h = 0
    /\ t = SSA_BLK - 1
    /\ gc_lock = 0
    /\ nblk = 1
    /\ held = [s \in Slots |-> 0]
    /\ pc = [p \in Producers |-> "idle"]
    /\ idx = [p \in Producers |-> 0]
    /\ victim = [p \in Producers |-> NULL]
    /\ target = [p \in Producers |-> NULL]
    /\ tmp = [p \in Producers |-> 0]

-----------------------------------------------------------------------------
(* The program's use of handles, as the allocator sees it.                 *)

\* ssa_tag_alloc, or ssa_tag_combine when the result is a new set, enters
\* the slot-claim loop
StartClaim(p) ==
    /\ pc[p] = "idle"
    /\ Outstanding < MaxRefs
    /\ pc' = [pc EXCEPT ![p] = "read_h"]
    /\ UNCHANGED <<ref_count, protected, freeList, held, idx, victim, refLocals>>

\* A handle to s is copied (copy constructor, copy assignment) or
\* destroyed (destructor, assignment over it).  ref_count++ and
\* ref_count-- are plain read-modify-writes (the __sync_add_and_fetch and
\* __sync_sub_and_fetch calls are commented out), so the load and the
\* store are two steps; held changes when the handle does.
Share(p, s) ==
    /\ pc[p] = "idle"
    /\ held[s] > 0
    /\ Outstanding < MaxRefs
    /\ held' = [held EXCEPT ![s] = @ + 1]
    /\ target' = [target EXCEPT ![p] = s]
    /\ tmp' = [tmp EXCEPT ![p] = ref_count[s] + 1]
    /\ pc' = [pc EXCEPT ![p] = "store_rc"]
    /\ UNCHANGED <<ref_count, protected, freeList, idx, victim>>

ReleaseUnguarded(p, s) ==
    /\ pc[p] = "idle"
    /\ held' = [held EXCEPT ![s] = @ - 1]
    /\ target' = [target EXCEPT ![p] = s]
    /\ tmp' = [tmp EXCEPT ![p] = ref_count[s] - 1]
    /\ pc' = [pc EXCEPT ![p] = "store_rc"]
    /\ UNCHANGED <<ref_count, protected, freeList, idx, victim>>

Release(p, s) ==
    /\ pc[p] = "idle"
    /\ held[s] > 0
    /\ held' = [held EXCEPT ![s] = @ - 1]
    /\ target' = [target EXCEPT ![p] = s]
    /\ tmp' = [tmp EXCEPT ![p] = ref_count[s] - 1]
    /\ pc' = [pc EXCEPT ![p] = "store_rc"]
    /\ UNCHANGED <<ref_count, protected, freeList, idx, victim>>

\* the store of the value computed from the load
StoreRef(p) ==
    /\ pc[p] = "store_rc"
    /\ ref_count' = [ref_count EXCEPT ![target[p]] = tmp[p]]
    /\ pc' = [pc EXCEPT ![p] = "idle"]
    /\ target' = [target EXCEPT ![p] = NULL]
    /\ tmp' = [tmp EXCEPT ![p] = 0]
    /\ UNCHANGED <<protected, freeList, held, idx, victim>>

-----------------------------------------------------------------------------
(* The slot-claim loop shared by ssa_tag_alloc and ssa_tag_combine:        *)
(*   do { idx = _h; while (idx == _t) if (CAS(gc_lock,0,1)) ssa_gc(); }    *)
(*   while (!CAS(_h, idx, (idx + 1) % SSA_BLK));                           *)

ReadHead(p) ==
    /\ pc[p] = "read_h"
    /\ idx' = [idx EXCEPT ![p] = h]
    /\ pc' = [pc EXCEPT ![p] = "check"]
    /\ UNCHANGED <<ref_count, protected, freeList, held, victim, refLocals>>

\* the while condition idx == _t: _t is volatile and read afresh, idx is not
CheckTail(p) ==
    /\ pc[p] = "check"
    /\ pc' = [pc EXCEPT ![p] = IF idx[p] = t THEN "try_gc" ELSE "cas_h"]
    /\ UNCHANGED <<ref_count, protected, freeList, held, idx, victim, refLocals>>

\* __sync_bool_compare_and_swap(&free_ssa.gc_lock, 0, 1)
TryGcLock(p) ==
    /\ pc[p] = "try_gc"
    /\ IF gc_lock = 0
       THEN gc_lock' = 1 /\ pc' = [pc EXCEPT ![p] = "gc"]
       ELSE UNCHANGED gc_lock /\ pc' = [pc EXCEPT ![p] = "check"]
    /\ UNCHANGED <<ref_count, protected, q, h, t, nblk, held, idx, victim, refLocals>>

\* the sweep's test on a slot: ref_count == 0 (used, now dead) or
\* ref_count == 0xffffffffffffffff (never used)
ReclaimableAny(s) == TRUE
Reclaimable(s) == ref_count[s] \in {0, ALL_ONES}

\* whether add_ssa_blk runs after a sweep that started with ec free
\* entries and found n reclaimable slots: the sweep stops early when it
\* fills the list; otherwise empty_count is ec - n, or has wrapped below
\* zero when ec was 0, and is compared with SSA_GC_THRESHOLD
GrowNever(ec, n) == FALSE
Grow(ec, n) == (ec = 0 /\ n > 0) \/ (ec > n /\ ec - n > SSA_GC_THRESHOLD)

\* ssa_gc, and add_ssa_blk when too little was recovered; the sweep is one
\* step.  empty_count is a uint64_t: when it starts at 0 the first
\* --empty_count wraps, the loop never stops early and every free slot is
\* written.  Every bdd a used slot holds is non-empty, so "bdd != 0" holds
\* for each dead slot and it is unprotected.
SsaGc(p) ==
    LET ec   == EmptyCount(h, t)
        free == SelectSeq([i \in 1 .. nblk * SSA_BLK |-> i - 1], Reclaimable)
        n    == Len(free)
        k    == IF ec = 0 THEN n ELSE Min({ec, n})
        enq  == SubSeq(free, 1, k)
        t1   == (t + k) % SSA_BLK
        grow == Grow(ec, n)
        ec2  == EmptyCount(h, t1)
        blk  == [i \in 1 .. ec2 |-> nblk * SSA_BLK + i - 1]
    IN
    /\ pc[p] = "gc"
    /\ grow => nblk < MaxBlocks
    /\ protected' = protected \ {s \in Range(enq) : ref_count[s] = 0}
    /\ q' = IF grow THEN Fill(Fill(q, t, enq), t1, blk) ELSE Fill(q, t, enq)
    /\ t' = IF grow THEN (t1 + ec2) % SSA_BLK ELSE t1
    /\ nblk' = IF grow THEN nblk + 1 ELSE nblk
    /\ gc_lock' = 0
    /\ pc' = [pc EXCEPT ![p] = "check"]
    /\ UNCHANGED <<ref_count, h, held, idx, victim, refLocals>>

\* __sync_bool_compare_and_swap(&free_ssa._h, idx, (idx + 1) % SSA_BLK),
\* then victim = free_ssa._q[idx]
CasHead(p) ==
    /\ pc[p] = "cas_h"
    /\ IF h = idx[p]
       THEN /\ h' = (idx[p] + 1) % SSA_BLK
            /\ victim' = [victim EXCEPT ![p] = q[idx[p]]]
            /\ pc' = [pc EXCEPT ![p] = "finish"]
       ELSE /\ UNCHANGED <<h, victim>>
            /\ pc' = [pc EXCEPT ![p] = "read_h"]
    /\ UNCHANGED <<ref_count, protected, q, t, gc_lock, nblk, held, idx, refLocals>>

FinishNoRefInit(p) ==
    LET v == victim[p] IN
    /\ pc[p] = "finish"
    /\ v \in Slots
    /\ protected' = protected \cup {v}
    /\ held' = [held EXCEPT ![v] = @ + 1]
    /\ pc' = [pc EXCEPT ![p] = "idle"]
    /\ idx' = [idx EXCEPT ![p] = 0]
    /\ victim' = [victim EXCEPT ![p] = NULL]
    /\ UNCHANGED <<ref_count, freeList, refLocals>>

FinishNoProtect(p) ==
    LET v == victim[p] IN
    /\ pc[p] = "finish"
    /\ v \in Slots
    /\ ref_count' = [ref_count EXCEPT ![v] = 1]
    /\ held' = [held EXCEPT ![v] = @ + 1]
    /\ pc' = [pc EXCEPT ![p] = "idle"]
    /\ idx' = [idx EXCEPT ![p] = 0]
    /\ victim' = [victim EXCEPT ![p] = NULL]
    /\ UNCHANGED <<protected, freeList, refLocals>>

\* victim->ref_count = 1; the engine computes the bdd; victim->bdd = res;
\* sylvan_protect(&victim->bdd); the new handle is returned
Finish(p) ==
    LET v == victim[p] IN
    /\ pc[p] = "finish"
    /\ v \in Slots
    /\ ref_count' = [ref_count EXCEPT ![v] = 1]
    /\ protected' = protected \cup {v}
    /\ held' = [held EXCEPT ![v] = @ + 1]
    /\ pc' = [pc EXCEPT ![p] = "idle"]
    /\ idx' = [idx EXCEPT ![p] = 0]
    /\ victim' = [victim EXCEPT ![p] = NULL]
    /\ UNCHANGED <<freeList, refLocals>>

-----------------------------------------------------------------------------
Internal(p) ==
    \/ ReadHead(p) \/ CheckTail(p) \/ TryGcLock(p) \/ SsaGc(p)
    \/ CasHead(p) \/ Finish(p) \/ StoreRef(p)

Next ==
    \/ \E p \in Producers : StartClaim(p) \/ Internal(p)
    \/ \E p \in Producers, s \in Slots : Share(p, s) \/ Release(p, s)

\* A producer is an OS thread that spins until its call returns; it is
\* never descheduled forever, so its steps inside a call are weakly fair.
\* Starting a call or touching a handle is the analysed program's choice.
Fairness == \A p \in Producers : WF_vars(Internal(p))

Spec == Init /\ [][Next]_vars /\ Fairness

-----------------------------------------------------------------------------
(* Properties *)

TypeOK ==
    /\ ref_count \in [Slots -> Int]
    /\ protected \subseteq Slots
    /\ q \in [Index -> Slots \cup {NULL}]
    /\ h \in Index /\ t \in Index
    /\ gc_lock \in {0, 1}
    /\ nblk \in 1 .. MaxBlocks
    /\ held \in [Slots -> 0 .. MaxRefs]
    /\ pc \in [Producers -> {"idle", "read_h", "check", "try_gc", "gc",
                             "cas_h", "finish", "store_rc"}]
    /\ idx \in [Producers -> Index]
    /\ victim \in [Producers -> Slots \cup {NULL}]
    /\ target \in [Producers -> Slots \cup {NULL}]
    /\ tmp \in [Producers -> Int]

\* A slot has one owner at a time.  The entries from _h up to _t are
\* distinct slots nobody references; a slot a producer has claimed with
\* the CAS on _h is not still queued, not claimed by another producer and
\* not referenced.  This is what ssa_gc's sweep, its empty_count and the
\* CAS on _h must ensure together so that no slot is handed out twice.
FreeListSound ==
    LET pos(i)  == q[(h + i) % SSA_BLK]
        live    == 0 .. Queued(h, t) - 1
        claimed == {p \in Producers : pc[p] = "finish"}
    IN
    /\ \A i \in live : pos(i) \in Slots /\ held[pos(i)] = 0
    /\ \A i, j \in live : i # j => pos(i) # pos(j)
    /\ \A p \in claimed :
           /\ held[victim[p]] = 0
           /\ \A i \in live : pos(i) # victim[p]
           /\ \A p2 \in claimed \ {p} : victim[p2] # victim[p]

\* The ref_count the collector reads is the number of references the
\* program holds, and a slot nobody references reads 0 or all-ones, once
\* every copy or destruction of a handle to it has stored its count.
\* Two threads copying or dropping handles to one slot at once must not
\* lose an update: a count too low frees a live slot, one too high leaks.
RefCountExact ==
    \A s \in Slots :
        (\A p \in Producers : pc[p] = "store_rc" => target[p] # s) =>
            IF held[s] = 0 THEN ref_count[s] \in {0, ALL_ONES}
                           ELSE ref_count[s] = held[s]

\* A referenced slot's bdd stays protected from Sylvan's own collector:
\* ssa_gc unprotects only what it finds dead, and a claimed slot is
\* protected again before its handle is returned.
LiveProtected ==
    \A s \in Slots : held[s] > 0 => s \in protected

\* The head of free_ssa never passes its tail: _h advances only while the
\* list holds an entry (_h # _t), so a producer never claims a slot that
\* ssa_gc has not put in the list.  The CAS on _h compares only the index,
\* so a producer that read _h long ago can advance it after other
\* producers have emptied the list and brought _h round to the same index.
HeadNeverPassesTail == [][h' # h => h # t]_vars

\* Every call that enters the claim loop returns: ssa_gc always either
\* refills the free list or grows it, so the loop does not spin forever.
ClaimReturns == \A p \in Producers : pc[p] # "idle" ~> pc[p] = "idle"
=============================================================================
