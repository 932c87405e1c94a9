----------------------------- MODULE SsaTagNoGc -----------------------------
(***************************************************************************)
(* The no-GC tag layer, src/src/ssa_tag_nogc.cpp (built with SSA_NOGC),    *)
(* and the worker side of its request slot in lace_steal_loop_ex.  A tag   *)
(* is the BDD itself: Sylvan's collector is disabled, and a BDD is         *)
(* canonical, so a tag is modelled by the set of TAG_WIDTH-bit values it   *)
(* denotes and the empty set is the BDD 0.                                 *)
(*                                                                         *)
(* Each producer thread owns its cells (its registers and the bytes it    *)
(* writes) and talks to its dedicated worker through the slot ssa_p[id]:  *)
(* it writes the arguments, fences, sets task_type and spins; the worker  *)
(* writes res, fences and clears task_type.  Producers share nothing but   *)
(* spawn_exit_lock, taken by lace_spawn_worker and by a worker's exit.     *)
(***************************************************************************)
EXTENDS Integers, Sequences
LOCAL INSTANCE SequencesExt

CONSTANTS
    Producers,
    Cells,       \* each producer's cells
    Offsets,     \* offsets passed to ssa_tag_alloc
    TAG_WIDTH,
    MaxCalls     \* MaxCalls[p]: the tag calls producer p makes

Vals == 0 .. 2^TAG_WIDTH - 1

VARIABLES
    tag,      \* tag[p][c]: the BDD in producer p's cell c
    ppc,      \* producer: "none", "idle", "wait" (spinning on task_type), "fini", "done"
    call,     \* the call p is in: kind, destination cell, and lhs / rhs of a combine
    slot,     \* ssa_p of p's worker: task_type, arg and res
    cache,    \* ssa_tls[p].cb_cache_l / _r / _v
    quit,     \* ssa_tls[p].quit
    wpc,      \* p's worker: "none", "init", "loop", "res" (res written), "exit", "gone"
    lock,     \* spawn_exit_lock
    ncalls

vars == <<tag, ppc, call, slot, cache, quit, wpc, lock, ncalls>>

\* VAR_ORDER = VAR_ORDER_RE: the BDD variable that holds bit i of an offset
VAR_ORDER(i) == i

BitsReversed(o) == [i \in 0 .. TAG_WIDTH - 1 |-> (o \div 2^(TAG_WIDTH - 1 - i)) % 2]

\* array[VAR_ORDER] = offset >> i & 1, for i < TAG_WIDTH: the value of each
\* variable of var_set (higher bits of the offset are dropped)
Bits(o) == [j \in 0 .. TAG_WIDTH - 1 |->
               (o \div 2^(CHOOSE i \in 0 .. TAG_WIDTH - 1 : VAR_ORDER(i) = j)) % 2]

\* A BDD over var_set is the set of assignments it accepts; an assignment
\* res is kept as the value x whose bit j is res[j].
Assignment(x) == [j \in 0 .. TAG_WIDTH - 1 |-> (x \div 2^j) % 2]

\* mtbdd_cube(var_set, array, true): the one assignment array
Cube(arr) == {x \in Vals : Assignment(x) = arr}

\* for (i < TAG_WIDTH) if (res[VAR_ORDER]) offset += 1 << i
RECURSIVE OffsetFrom(_, _)
OffsetFrom(res, i) ==
    IF i = TAG_WIDTH THEN 0
    ELSE res[VAR_ORDER(i)] * 2^i + OffsetFrom(res, i + 1)

\* the offsets of the assignments mtbdd_enum_all_first/next yield
Listed(t) == {OffsetFrom(Assignment(x), 0) : x \in t}

\* ssa_tag_print: those offsets sorted; this variant prints each as "%d "
ssa_tag_print(t) == SetToSortSeq(Listed(t), <)

\* ssa_tag_print of ssa_tag_gc.cpp: the same sorted offsets, each printed as
\* the interval "(%d, %d) " of o and o + 1
ssa_tag_print_gc(t) ==
    LET s == ssa_tag_print(t) IN [i \in 1 .. Len(s) |-> <<s[i], s[i] + 1>>]

NoCall == [kind |-> "none", dst |-> CHOOSE c \in Cells : TRUE, off |-> 0, lhs |-> {}, rhs |-> {}]
Idle == [type |-> 0, arg |-> Bits(0), lhs |-> {}, rhs |-> {}, res |-> {}]

Init ==
    /\ tag = [p \in Producers |-> [c \in Cells |-> {}]]
    /\ ppc = [p \in Producers |-> "none"]
    /\ call = [p \in Producers |-> NoCall]
    /\ slot = [p \in Producers |-> Idle]
    /\ cache = [p \in Producers |-> [l |-> {}, r |-> {}, v |-> {}]]
    /\ quit = [p \in Producers |-> FALSE]
    /\ wpc = [p \in Producers |-> "none"]
    /\ lock = 0
    /\ ncalls = [p \in Producers |-> 0]

-----------------------------------------------------------------------------
(* The producer                                                            *)

\* ssa_thread_start: zero ssa_tls[p] (cache and quit), lace_spawn_worker
\* takes spawn_exit_lock and starts the worker
ssa_thread_start(p) ==
    /\ ppc[p] = "none"
    /\ lock = 0
    /\ lock' = 1
    /\ wpc' = [wpc EXCEPT ![p] = "init"]
    /\ cache' = [cache EXCEPT ![p] = [l |-> {}, r |-> {}, v |-> {}]]
    /\ quit' = [quit EXCEPT ![p] = FALSE]
    /\ ppc' = [ppc EXCEPT ![p] = "idle"]
    /\ UNCHANGED <<tag, call, slot, ncalls>>

\* ssa_tag_alloc(o) into cell c: write the bits of o, fence, task_type = 1
ssa_tag_alloc(p, c, o) ==
    /\ ppc[p] = "idle" /\ ncalls[p] < MaxCalls[p]
    /\ ncalls' = [ncalls EXCEPT ![p] = @ + 1]
    /\ slot' = [slot EXCEPT ![p].type = 1, ![p].arg = Bits(o)]
    /\ call' = [call EXCEPT ![p] = [NoCall EXCEPT !.kind = "alloc", !.dst = c, !.off = o]]
    /\ ppc' = [ppc EXCEPT ![p] = "wait"]
    /\ UNCHANGED <<tag, cache, quit, wpc, lock>>

CacheHitLhsOnly(p, lhs, rhs) == cache[p].l = lhs

\* the cache holds the result for exactly these operands
CacheHit(p, lhs, rhs) == cache[p].l = lhs /\ cache[p].r = rhs

\* ssa_tag_combine(a, b) into cell c: the early returns on 0 and on equal
\* operands, the cache, and otherwise a request with task_type = 2
ssa_tag_combine(p, c, a, b) ==
    LET lhs == tag[p][a]
        rhs == tag[p][b]
    IN
    /\ ppc[p] = "idle" /\ ncalls[p] < MaxCalls[p]
    /\ ncalls' = [ncalls EXCEPT ![p] = @ + 1]
    /\ \/ /\ lhs = {}
          /\ tag' = [tag EXCEPT ![p][c] = rhs]
          /\ UNCHANGED <<slot, call, ppc>>
       \/ /\ lhs # {} /\ (rhs = {} \/ lhs = rhs)
          /\ tag' = [tag EXCEPT ![p][c] = lhs]
          /\ UNCHANGED <<slot, call, ppc>>
       \/ /\ lhs # {} /\ rhs # {} /\ lhs # rhs
          /\ CacheHit(p, lhs, rhs)
          /\ tag' = [tag EXCEPT ![p][c] = cache[p].v]
          /\ UNCHANGED <<slot, call, ppc>>
       \/ /\ lhs # {} /\ rhs # {} /\ lhs # rhs
          /\ ~CacheHit(p, lhs, rhs)
          /\ slot' = [slot EXCEPT ![p].type = 2, ![p].lhs = lhs, ![p].rhs = rhs]
          /\ call' = [call EXCEPT ![p] = [NoCall EXCEPT !.kind = "combine", !.dst = c,
                                           !.lhs = lhs, !.rhs = rhs]]
          /\ ppc' = [ppc EXCEPT ![p] = "wait"]
          /\ UNCHANGED tag
    /\ UNCHANGED <<cache, quit, wpc, lock>>

\* task_type is back to 0: take res; a combine also fills the cache
Return(p) ==
    /\ ppc[p] = "wait"
    /\ slot[p].type = 0
    /\ tag' = [tag EXCEPT ![p][call[p].dst] = slot[p].res]
    /\ cache' = IF call[p].kind = "combine"
                THEN [cache EXCEPT ![p] = [l |-> call[p].lhs, r |-> call[p].rhs,
                                           v |-> slot[p].res]]
                ELSE cache
    /\ ppc' = [ppc EXCEPT ![p] = "idle"]
    /\ call' = [call EXCEPT ![p] = NoCall]
    /\ UNCHANGED <<slot, quit, wpc, lock, ncalls>>

\* ssa_thread_fini: quit = true, then spin until the worker clears it
ssa_thread_fini(p) ==
    /\ ppc[p] = "idle"
    /\ quit' = [quit EXCEPT ![p] = TRUE]
    /\ ppc' = [ppc EXCEPT ![p] = "fini"]
    /\ UNCHANGED <<tag, call, slot, cache, wpc, lock, ncalls>>

FiniDone(p) ==
    /\ ppc[p] = "fini"
    /\ ~quit[p]
    /\ ppc' = [ppc EXCEPT ![p] = "done"]
    /\ UNCHANGED <<tag, call, slot, cache, quit, wpc, lock, ncalls>>

Producer(p) ==
    \/ ssa_thread_start(p) \/ Return(p) \/ ssa_thread_fini(p) \/ FiniDone(p)
    \/ \E c \in Cells, o \in Offsets : ssa_tag_alloc(p, c, o)
    \/ \E c, a, b \in Cells : ssa_tag_combine(p, c, a, b)

-----------------------------------------------------------------------------
(* The worker (lace_worker_thread, lace_steal_loop_ex under SSA_NOGC)       *)

\* lace_worker_thread has set itself up: release spawn_exit_lock
Register(p) ==
    /\ wpc[p] = "init"
    /\ lock' = 0
    /\ wpc' = [wpc EXCEPT ![p] = "loop"]
    /\ UNCHANGED <<tag, ppc, call, slot, cache, quit, ncalls>>

\* task_type 1: res = mtbdd_cube_nogc(arg1, arg2, true);
\* task_type 2: res = not(and(not arg1, not arg2)), the union
Compute(p) ==
    /\ wpc[p] = "loop"
    /\ ~quit[p]
    /\ slot[p].type \in {1, 2}
    /\ slot' = [slot EXCEPT ![p].res = IF slot[p].type = 1 THEN Cube(slot[p].arg)
                                       ELSE slot[p].lhs \cup slot[p].rhs]
    /\ wpc' = [wpc EXCEPT ![p] = "res"]
    /\ UNCHANGED <<tag, ppc, call, cache, quit, lock, ncalls>>

\* mfence(); task_type = 0
Answer(p) ==
    /\ wpc[p] = "res"
    /\ slot' = [slot EXCEPT ![p].type = 0]
    /\ wpc' = [wpc EXCEPT ![p] = "loop"]
    /\ UNCHANGED <<tag, ppc, call, cache, quit, lock, ncalls>>

\* *quit is set: CAS spawn_exit_lock from 0 to 1 (yielding while it fails)
ExitLock(p) ==
    /\ wpc[p] = "loop"
    /\ quit[p]
    /\ lock = 0
    /\ lock' = 1
    /\ wpc' = [wpc EXCEPT ![p] = "exit"]
    /\ UNCHANGED <<tag, ppc, call, slot, cache, quit, ncalls>>

ExitReleaseKeepQuit(p) ==
    /\ wpc[p] = "exit"
    /\ lock' = 0
    /\ wpc' = [wpc EXCEPT ![p] = "gone"]
    /\ UNCHANGED <<tag, ppc, call, slot, cache, quit, ncalls>>

\* *quit = 0; lace_n_workers_alive--; spawn_exit_lock = 0
ExitRelease(p) ==
    /\ wpc[p] = "exit"
    /\ quit' = [quit EXCEPT ![p] = FALSE]
    /\ lock' = 0
    /\ wpc' = [wpc EXCEPT ![p] = "gone"]
    /\ UNCHANGED <<tag, ppc, call, slot, cache, ncalls>>

Worker(p) ==
    Register(p) \/ Compute(p) \/ Answer(p) \/ ExitLock(p) \/ ExitRelease(p)

\* every producer has run ssa_thread_fini to its end
Finished == \A p \in Producers : ppc[p] = "done" /\ UNCHANGED vars

Next == (\E p \in Producers : Producer(p) \/ Worker(p)) \/ Finished

\* Workers spin without blocking; a producer inside a call spins too.
Spec == Init /\ [][Next]_vars
        /\ \A p \in Producers : WF_vars(Worker(p)) /\ WF_vars(Return(p) \/ FiniDone(p))

-----------------------------------------------------------------------------
\* the tag layer's promise (TaintMap) over every producer's cells: alloc
\* stores the singleton of its offset, combine the union of its operands
Abstract == INSTANCE TaintMap
    WITH Cells <- Producers \X Cells,
         taint <- [x \in Producers \X Cells |-> Listed(tag[x[1]][x[2]])]

\* Whatever the order of the producer's and its worker's steps, every value
\* ssa_tag_alloc and ssa_tag_combine store (early return, cache hit or the
\* worker's res) is the one TaintMap prescribes.
NoGcRefinement == Abstract!Spec

\* Every ssa_tag_alloc, ssa_tag_combine and ssa_thread_fini that spins on
\* its worker returns.
CallsReturn ==
    \A p \in Producers : ppc[p] \in {"wait", "fini"} ~> ppc[p] \in {"idle", "done"}

\* ssa_tag_print reads back exactly {o} from the tag ssa_tag_alloc(o)
\* returns, for every offset that fits in TAG_WIDTH bits (the width is
\* the configured maximum offset width, spec.md section 5; a wider offset
\* is cut to it by design): the bits the producer writes into
\* array[VAR_ORDER] are the ones mtbdd_cube sets and the print routine
\* decodes in the same variable order, and the producer takes res only
\* once its worker has written it, not the answer to its previous call.
AllocDenotesOffset ==
    [][\A p \in Producers :
         (/\ ppc[p] = "wait" /\ ppc'[p] = "idle"
          /\ call[p].kind = "alloc" /\ call[p].off < 2^TAG_WIDTH)
         => ssa_tag_print(tag'[p][call[p].dst]) = <<call[p].off>>]_vars

\* spec.md section 8: formatting a tag prints adjacent offsets merged into
\* one interval, so that the tag of offsets 0, 1 and 2 prints as (0, 3).
\* ssa_tag_print prints one interval per offset; no run checks this (see
\* the README).
PrintMerged ==
    \A p \in Producers, c \in Cells :
        LET s == ssa_tag_print_gc(tag[p][c]) IN
        \A i \in 1 .. Len(s) - 1 : s[i][2] < s[i + 1][1]
=============================================================================
