---------------------------- MODULE LaceLifecycle ----------------------------
(***************************************************************************)
(* The life of the Lace worker pool from ssa_init to ssa_exit             *)
(* (src/src/ssa_tag_gc.cpp, src/src/ssa_tag_nogc.cpp and lace_start,      *)
(* lace_spawn_worker, lace_worker_thread, the exit path of                 *)
(* lace_steal_loop_ex and lace_stop in src/sylvan/src/lace.cpp).           *)
(*                                                                         *)
(* lace_start allocates ssa_p and the per-worker arrays for max_workers =  *)
(* THREAD_CTX_BLK entries (cap); lace_stop frees them (cap = 0).  Every    *)
(* analysed thread that starts gets a worker whose index is                *)
(* lace_n_workers_id at the time of its spawn; that counter only grows.   *)
(* Requests and frames are left out here: LaceFrame checks them.           *)
(*                                                                         *)
(* Pin calls ssa_init before the program starts, ssa_thread_start and      *)
(* ssa_thread_fini in each thread, and ssa_exit at the end.  How Pin       *)
(* orders the last two is outside this repository: ExitAnytime = FALSE     *)
(* lets ssa_exit run only once every started thread has left              *)
(* ssa_thread_fini, TRUE lets it run at any time after ssa_init.          *)
(***************************************************************************)
EXTENDS Integers, FiniteSets

CONSTANTS
    Threads,     \* the analysed program's threads, each started at most once
    CtxBlk,      \* THREAD_CTX_BLK, the max_workers given to lace_start
    MaxLive,     \* most threads the program runs at the same time
    ExitAnytime  \* may ssa_exit overlap a thread's start or fini?

ASSUME MaxLive \in 1 .. Cardinality(Threads) /\ ExitAnytime \in BOOLEAN

VARIABLES
    main,        \* the main path: "pre", "run", "stop" (in lace_stop), "done"
    ppc,         \* thread t: "none", "run", "fini" (spinning on quit), "done"
    wpc,         \* t's worker: "none", "init", "loop", "exit_lock", "exit_clear",
                 \* "exit_dec", "exit_rel", "gone"
    idx,         \* the ssa_p index of t's worker
    quit,        \* ssa_tls[t].quit
    lock,        \* spawn_exit_lock
    alive,       \* lace_n_workers_alive
    wid,         \* lace_n_workers_id
    helper_inited,
    cap          \* entries of ssa_p / workers / lace_worker_tls now allocated

vars == <<main, ppc, wpc, idx, quit, lock, alive, wid, helper_inited, cap>>

\* worker control points at which it still reads or writes ssa_p[idx],
\* workers[idx] or lace_worker_tls[idx]
Touching == {"init", "loop", "exit_lock", "exit_clear"}

Init ==
    /\ main = "pre"
    /\ ppc = [t \in Threads |-> "none"]
    /\ wpc = [t \in Threads |-> "none"]
    /\ idx = [t \in Threads |-> 0]
    /\ quit = [t \in Threads |-> FALSE]
    /\ lock = 0 /\ alive = 0 /\ wid = 0 /\ helper_inited = FALSE /\ cap = 0

-----------------------------------------------------------------------------
\* lace_start: allocate workers, workers_p, workers_memory, lace_worker_tls
\* and ssa_p with max_workers entries each
LaceStart == cap' = CtxBlk

\* ssa_init: lace_start(THREAD_CTX_BLK, ...); the var_set is built with
\* lace_n_workers_id set to 1 and put back to 0; allocate ssa_tls
SsaInit ==
    /\ main = "pre"
    /\ main' = "run"
    /\ LaceStart
    /\ wid' = 0
    /\ UNCHANGED <<ppc, wpc, idx, quit, lock, alive, helper_inited>>

LaceSpawnWorkerNext(t) ==
    /\ lock = 0
    /\ lock' = 1
    /\ IF helper_inited THEN UNCHANGED <<alive, helper_inited>>
                       ELSE alive' = wid /\ helper_inited' = TRUE
    /\ idx' = [idx EXCEPT ![t] = wid + 1]
    /\ wpc' = [wpc EXCEPT ![t] = "init"]

\* lace_spawn_worker: take spawn_exit_lock, on the first spawn count the
\* HELPER_THREAD_NUM = 0 helpers, point ssa_p[lace_n_workers_id].quit at
\* the caller's quit flag and start the worker with that index
LaceSpawnWorker(t) ==
    /\ lock = 0
    /\ lock' = 1
    /\ IF helper_inited THEN UNCHANGED <<alive, helper_inited>>
                       ELSE alive' = wid /\ helper_inited' = TRUE
    /\ idx' = [idx EXCEPT ![t] = wid]
    /\ wpc' = [wpc EXCEPT ![t] = "init"]

\* ssa_thread_start: zero ssa_tls[t] (quit among it), lace_spawn_worker
ThreadStart(t) ==
    /\ main = "run"
    /\ ppc[t] = "none"
    /\ Cardinality({u \in Threads : ppc[u] \in {"run", "fini"}}) < MaxLive
    /\ LaceSpawnWorker(t)
    /\ quit' = [quit EXCEPT ![t] = FALSE]
    /\ ppc' = [ppc EXCEPT ![t] = "run"]
    /\ UNCHANGED <<main, wid, cap>>

\* ssa_thread_fini: set quit and spin until the worker clears it
Fini(t) ==
    /\ ppc[t] = "run"
    /\ quit' = [quit EXCEPT ![t] = TRUE]
    /\ ppc' = [ppc EXCEPT ![t] = "fini"]
    /\ UNCHANGED <<main, wpc, idx, lock, alive, wid, helper_inited, cap>>

FiniDone(t) ==
    /\ ppc[t] = "fini"
    /\ ~quit[t]
    /\ ppc' = [ppc EXCEPT ![t] = "done"]
    /\ UNCHANGED <<main, wpc, idx, quit, lock, alive, wid, helper_inited, cap>>

Producer(t) == ThreadStart(t) \/ Fini(t) \/ FiniDone(t)

-----------------------------------------------------------------------------
(* The worker thread                                                       *)

\* lace_worker_thread: set up its tls and deque, count itself in
\* lace_n_workers_id and lace_n_workers_alive, release spawn_exit_lock
Register(t) ==
    /\ wpc[t] = "init"
    /\ wid' = wid + 1
    /\ alive' = alive + 1
    /\ lock' = 0
    /\ wpc' = [wpc EXCEPT ![t] = "loop"]
    /\ UNCHANGED <<main, ppc, idx, quit, helper_inited, cap>>

\* lace_steal_loop_ex: leave the loop once *quit is set
SeeQuit(t) ==
    /\ wpc[t] = "loop"
    /\ quit[t]
    /\ wpc' = [wpc EXCEPT ![t] = "exit_lock"]
    /\ UNCHANGED <<main, ppc, idx, quit, lock, alive, wid, helper_inited, cap>>

\* CAS spawn_exit_lock from 0 to 1 (YIELD_NEWFRAME while it fails), then
\* mtbdd_unprotect(&ssa_p[worker_id].res)
ExitLock(t) ==
    /\ wpc[t] = "exit_lock"
    /\ lock = 0
    /\ lock' = 1
    /\ wpc' = [wpc EXCEPT ![t] = "exit_clear"]
    /\ UNCHANGED <<main, ppc, idx, quit, alive, wid, helper_inited, cap>>

\* *ssa_p[worker_id].quit = 0
ExitClear(t) ==
    /\ wpc[t] = "exit_clear"
    /\ quit' = [quit EXCEPT ![t] = FALSE]
    /\ wpc' = [wpc EXCEPT ![t] = "exit_dec"]
    /\ UNCHANGED <<main, ppc, idx, lock, alive, wid, helper_inited, cap>>

ExitDecTwice(t) ==
    /\ wpc[t] = "exit_dec"
    /\ alive' = alive - 2
    /\ wpc' = [wpc EXCEPT ![t] = "exit_rel"]
    /\ UNCHANGED <<main, ppc, idx, quit, lock, wid, helper_inited, cap>>

ExitNoDec(t) ==
    /\ wpc[t] = "exit_dec"
    /\ wpc' = [wpc EXCEPT ![t] = "exit_rel"]
    /\ UNCHANGED <<main, ppc, idx, quit, lock, alive, wid, helper_inited, cap>>

\* lace_n_workers_alive--; mfence()
ExitDec(t) ==
    /\ wpc[t] = "exit_dec"
    /\ alive' = alive - 1
    /\ wpc' = [wpc EXCEPT ![t] = "exit_rel"]
    /\ UNCHANGED <<main, ppc, idx, quit, lock, wid, helper_inited, cap>>

\* spawn_exit_lock = 0, and the worker thread returns
ExitRelease(t) ==
    /\ wpc[t] = "exit_rel"
    /\ lock' = 0
    /\ wpc' = [wpc EXCEPT ![t] = "gone"]
    /\ UNCHANGED <<main, ppc, idx, quit, alive, wid, helper_inited, cap>>

Worker(t) ==
    Register(t) \/ SeeQuit(t) \/ ExitLock(t) \/ ExitClear(t) \/ ExitDec(t)
    \/ ExitRelease(t)

-----------------------------------------------------------------------------
(* The main path                                                           *)

\* ssa_exit -> lace_stop: helper_quit = 1, wake the helpers
SsaExit ==
    /\ main = "run"
    /\ ExitAnytime \/ \A t \in Threads : ppc[t] \in {"none", "done"}
    /\ main' = "stop"
    /\ UNCHANGED <<ppc, wpc, idx, quit, lock, alive, wid, helper_inited, cap>>

\* lace_stop: spin until lace_n_workers_alive = 0, wait for the barrier to
\* empty, free every worker's memory and the arrays; then sylvan_quit and
\* free(ssa_tls)
LaceStop ==
    /\ main = "stop"
    /\ alive = 0
    /\ main' = "done"
    /\ cap' = 0
    /\ UNCHANGED <<ppc, wpc, idx, quit, lock, alive, wid, helper_inited>>

\* the program has ended and every worker thread has returned
Terminated ==
    /\ main = "done"
    /\ \A t \in Threads : wpc[t] \in {"none", "gone"}
    /\ UNCHANGED vars

Next ==
    \/ SsaInit \/ SsaExit \/ LaceStop \/ Terminated
    \/ \E t \in Threads : Producer(t) \/ Worker(t)

\* Worker threads spin on their own; lace_stop spins on alive.
Spec == Init /\ [][Next]_vars
        /\ \A t \in Threads : WF_vars(Worker(t))
        /\ WF_vars(LaceStop)

-----------------------------------------------------------------------------
TypeOK ==
    /\ main \in {"pre", "run", "stop", "done"}
    /\ ppc \in [Threads -> {"none", "run", "fini", "done"}]
    /\ wpc \in [Threads -> {"none", "init", "loop", "exit_lock", "exit_clear",
                            "exit_dec", "exit_rel", "gone"}]
    /\ idx \in [Threads -> 0 .. Cardinality(Threads)]
    /\ quit \in [Threads -> BOOLEAN]
    /\ lock \in {0, 1} /\ helper_inited \in BOOLEAN
    /\ alive \in 0 .. Cardinality(Threads)
    /\ wid \in 0 .. Cardinality(Threads)
    /\ cap \in {0, CtxBlk}

\* Every worker that still uses its entry of ssa_p, workers and
\* lace_worker_tls (lace_spawn_worker writes ssa_p[lace_n_workers_id]
\* before the worker runs) has an index inside the arrays lace_start
\* allocated and lace_stop has not yet freed.
SsaPInBounds ==
    \A t \in Threads : wpc[t] \in Touching => idx[t] < cap

\* Once ssa_exit is in lace_stop, lace_stop returns: every worker
\* eventually leaves its loop and takes itself out of lace_n_workers_alive.
StopReturns == main = "stop" ~> main = "done"
=============================================================================
