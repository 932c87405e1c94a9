------------------------------ MODULE LaceFrame ------------------------------
(***************************************************************************)
(* The Lace scheduler as this repository uses it (src/sylvan/src/lace.cpp  *)
(* and ssa_thread_start / ssa_thread_fini / the request slot of            *)
(* src/src/ssa_tag_gc.cpp).  Each producer thread p has one dedicated      *)
(* worker, also named p, serving its SSA_Task request slot in              *)
(* lace_steal_loop_ex.  Three things take spawn_exit_lock: a producer      *)
(* spawning its worker (lace_spawn_worker, released by lace_worker_thread  *)
(* once the worker is counted alive), a worker leaving its steal loop, and *)
(* a worker running a new frame (lace_run_newframe).  A new frame makes    *)
(* every alive worker meet at three barriers (lace_wrap_newframe,          *)
(* lace_yield, lace_exec_in_new_frame); the barrier is taken atomically    *)
(* here (LaceBarrier checks lace_barrier itself).                          *)
(*                                                                         *)
(* The Sylvan operation a worker runs for a request may need Sylvan's      *)
(* collector.  Sylvan's code is not in this repository; its sylvan_gc is   *)
(* taken as: CAS a gc flag from 0 to 1 and call lace_run_newframe, or, if  *)
(* the flag is set, spin with YIELD_NEWFRAME until it is 0.               *)
(***************************************************************************)
EXTENDS Integers, FiniteSets

CONSTANTS
    Producers,   \* the analysed program's threads; worker p serves producer p
    NULL,
    MaxReq,      \* bound on requests per producer
    MaxGc        \* bound on Sylvan collections

VARIABLES
    ppc,         \* producer control point
    task_type,   \* ssa_p[p].task_type: 0, 1 (cube) or 2 (combine)
    arg,         \* ssa_p[p].arg1/arg2: the request number written
    res,         \* ssa_p[p].res: the request number answered
    quit,        \* ssa_tls[p].quit
    nreq,        \* requests issued by each producer
    got,         \* what the producer read from res after its last request
    wpc,         \* worker control point
    cur,         \* the arguments the worker read
    gcret,       \* the compute step a collector call returns to
    fret,        \* where a frame participant resumes (YIELD_NEWFRAME's caller)
    lock,        \* spawn_exit_lock
    alive,       \* lace_n_workers_alive
    wid,         \* lace_n_workers_id
    helper_inited,
    newframe,    \* lace_newframe.t: the publishing worker, or NULL
    done,        \* the `done` flag of lace_wrap_newframe's frame
    gc,          \* Sylvan's gc flag
    ngc,         \* collections run so far
    bar_arr,     \* workers that have arrived at the current barrier
    bar_gen,     \* the barrier's sense, flipped by the last arrival
    lgen         \* each worker's copy of the sense on arrival

producer == <<ppc, task_type, arg, quit, nreq, got>>
worker == <<wpc, cur, gcret, fret, res>>
shared == <<lock, alive, wid, helper_inited, newframe, done, gc, ngc>>
barrier == <<bar_arr, bar_gen, lgen>>
vars == <<producer, worker, shared, barrier>>

N == Cardinality(Producers)

\* control points of a worker taking part in a frame it did not publish
Participating == {"pb1", "pb1w", "pb2", "pb2w", "pwork", "pb3", "pb3w"}
\* control points of the worker running lace_run_newframe
Initiating == {"rnf_lock", "publish", "ib1", "ib1w", "ireset", "ib2",
               "ib2w", "iroot", "ib3", "ib3w", "irel"}

\* workers counted by the code: registered and not yet past their exit
Registered == {w \in Producers : wpc[w] \notin {"none", "init", "gone"}}

(* The globals start at their static zero values.  ssa_p comes from      *)
(* posix_memalign in lace_start and nothing ever stores task_type = 0     *)
(* before a worker first polls it: the model starts every slot idle, as   *)
(* fresh heap memory is, and leaves the uninitialised read as a hazard.   *)
Init ==
    /\ ppc = [p \in Producers |-> "start"]
    /\ task_type = [p \in Producers |-> 0]
    /\ arg = [p \in Producers |-> 0]
    /\ res = [p \in Producers |-> 0]
    /\ quit = [p \in Producers |-> FALSE]
    /\ nreq = [p \in Producers |-> 0]
    /\ got = [p \in Producers |-> 0]
    /\ wpc = [w \in Producers |-> "none"]
    /\ cur = [w \in Producers |-> 0]
    /\ gcret = [w \in Producers |-> "c1"]
    /\ fret = [w \in Producers |-> "loop"]
    /\ lock = 0 /\ alive = 0 /\ wid = 0 /\ helper_inited = FALSE
    /\ newframe = NULL /\ done = 0 /\ gc = 0 /\ ngc = 0
    /\ bar_arr = {} /\ bar_gen = 0 /\ lgen = [w \in Producers |-> 0]

-----------------------------------------------------------------------------
(* Barrier: the last of `alive` arrivals flips the sense; a worker leaves  *)
(* once the sense differs from the one it saw on arrival.                 *)
BarArrive(w, from, to) ==
    /\ wpc[w] = from
    /\ lgen' = [lgen EXCEPT ![w] = bar_gen]
    /\ IF Cardinality(bar_arr \cup {w}) = alive
         THEN bar_arr' = {} /\ bar_gen' = 1 - bar_gen
         ELSE bar_arr' = bar_arr \cup {w} /\ UNCHANGED bar_gen
    /\ wpc' = [wpc EXCEPT ![w] = to]

BarLeave(w, from, to) ==
    /\ wpc[w] = from
    /\ bar_gen # lgen[w]
    /\ wpc' = [wpc EXCEPT ![w] = to]
    /\ UNCHANGED barrier

\* YIELD_NEWFRAME at a worker's poll point: if a frame is published, copy
\* its task (lace_yield) and remember where to resume.
Yield(w, from, to) ==
    /\ wpc[w] = from
    /\ newframe # NULL
    /\ wpc' = [wpc EXCEPT ![w] = "pb1"]
    /\ fret' = [fret EXCEPT ![w] = to]
    /\ UNCHANGED <<producer, cur, gcret, res, shared, barrier>>

-----------------------------------------------------------------------------
(* Producer side                                                           *)

ThreadStartHelperAgain(p) ==
    /\ ppc[p] = "start"
    /\ lock = 0
    /\ lock' = 1
    /\ alive' = wid /\ helper_inited' = TRUE
    /\ quit' = [quit EXCEPT ![p] = FALSE]
    /\ wpc' = [wpc EXCEPT ![p] = "init"]
    /\ ppc' = [ppc EXCEPT ![p] = "idle"]
    /\ UNCHANGED <<task_type, arg, nreq, got, cur, gcret, fret, res, wid,
                   newframe, done, gc, ngc, barrier>>

\* ssa_thread_start: clear the tls block, then lace_spawn_worker: spin on
\* spawn_exit_lock, on the first spawn count the helper threads (there are
\* HELPER_THREAD_NUM = 0 of them), and start the worker thread.
ThreadStart(p) ==
    /\ ppc[p] = "start"
    /\ lock = 0
    /\ lock' = 1
    /\ IF helper_inited THEN UNCHANGED <<alive, helper_inited>>
                       ELSE alive' = wid /\ helper_inited' = TRUE
    /\ quit' = [quit EXCEPT ![p] = FALSE]
    /\ wpc' = [wpc EXCEPT ![p] = "init"]
    /\ ppc' = [ppc EXCEPT ![p] = "idle"]
    /\ UNCHANGED <<task_type, arg, nreq, got, cur, gcret, fret, res, wid,
                   newframe, done, gc, ngc, barrier>>

\* ssa_tag_alloc / ssa_tag_combine: t->arg1, t->arg2 = ...; mfence()
WriteArgs(p) ==
    /\ ppc[p] = "idle"
    /\ nreq[p] < MaxReq
    /\ arg' = [arg EXCEPT ![p] = nreq[p] + 1]
    /\ nreq' = [nreq EXCEPT ![p] = @ + 1]
    /\ ppc' = [ppc EXCEPT ![p] = "args"]
    /\ UNCHANGED <<task_type, quit, got, worker, shared, barrier>>

\* t->task_type = 1 (alloc's cube) or 2 (combine)
SetType(p) ==
    /\ ppc[p] = "args"
    /\ \E k \in {1, 2} :
         /\ task_type' = [task_type EXCEPT ![p] = k]
         /\ ppc' = [ppc EXCEPT ![p] = IF k = 1 THEN "wait1" ELSE "wait2"]
    /\ UNCHANGED <<arg, quit, nreq, got, worker, shared, barrier>>

\* while (t->task_type != 0); then read t->res.  Alloc clears it; combine
\* clears it only when the union is a new set (not lhs or rhs).
ReadResNoWait(p) ==
    /\ ppc[p] \in {"wait1", "wait2"}
    /\ got' = [got EXCEPT ![p] = res[p]]
    /\ \/ res' = [res EXCEPT ![p] = 0]
       \/ ppc[p] = "wait2" /\ UNCHANGED res
    /\ ppc' = [ppc EXCEPT ![p] = "idle"]
    /\ UNCHANGED <<task_type, arg, quit, nreq, wpc, cur, gcret, fret,
                   shared, barrier>>

ReadRes(p) ==
    /\ ppc[p] \in {"wait1", "wait2"}
    /\ task_type[p] = 0
    /\ got' = [got EXCEPT ![p] = res[p]]
    /\ \/ res' = [res EXCEPT ![p] = 0]
       \/ ppc[p] = "wait2" /\ UNCHANGED res
    /\ ppc' = [ppc EXCEPT ![p] = "idle"]
    /\ UNCHANGED <<task_type, arg, quit, nreq, wpc, cur, gcret, fret,
                   shared, barrier>>

\* ssa_thread_fini: t->quit = true
Fini(p) ==
    /\ ppc[p] = "idle"
    /\ quit' = [quit EXCEPT ![p] = TRUE]
    /\ ppc' = [ppc EXCEPT ![p] = "fini"]
    /\ UNCHANGED <<task_type, arg, nreq, got, worker, shared, barrier>>

\* while (t->quit); then the cache handles are destroyed (SsaTag)
FiniDone(p) ==
    /\ ppc[p] = "fini"
    /\ ~quit[p]
    /\ ppc' = [ppc EXCEPT ![p] = "gone"]
    /\ UNCHANGED <<task_type, arg, quit, nreq, got, worker, shared, barrier>>

-----------------------------------------------------------------------------
(* Worker side                                                             *)

RegisterKeepLock(w) ==
    /\ wpc[w] = "init"
    /\ wid' = wid + 1
    /\ alive' = alive + 1
    /\ wpc' = [wpc EXCEPT ![w] = "loop"]
    /\ UNCHANGED <<producer, cur, gcret, fret, res, lock, helper_inited,
                   newframe, done, gc, ngc, barrier>>

\* lace_worker_thread: lace_n_workers_id++, lace_n_workers_alive++,
\* mfence, spawn_exit_lock = 0
Register(w) ==
    /\ wpc[w] = "init"
    /\ wid' = wid + 1
    /\ alive' = alive + 1
    /\ lock' = 0
    /\ wpc' = [wpc EXCEPT ![w] = "loop"]
    /\ UNCHANGED <<producer, cur, gcret, fret, res, helper_inited, newframe,
                   done, gc, ngc, barrier>>

\* while (*quit == 0) { ... }
LoopTop(w) ==
    /\ wpc[w] = "loop"
    /\ wpc' = [wpc EXCEPT ![w] = IF quit[w] THEN "exit" ELSE "t1"]
    /\ UNCHANGED <<producer, cur, gcret, fret, res, shared, barrier>>

\* if (t->task_type == 1) ...; if (t->task_type == 2) ...: a matching type
\* starts the Sylvan operation on the arguments written
Poll(w) ==
    /\ wpc[w] \in {"t1", "t2"}
    /\ LET k == IF wpc[w] = "t1" THEN 1 ELSE 2
           taken == task_type[w] = k
       IN /\ wpc' = [wpc EXCEPT ![w] =
                       IF taken THEN IF k = 1 THEN "c1" ELSE "c2"
                       ELSE IF k = 1 THEN "t2" ELSE "yield"]
          /\ cur' = IF taken THEN [cur EXCEPT ![w] = arg[w]] ELSE cur
    /\ UNCHANGED <<producer, gcret, fret, res, shared, barrier>>

\* t->res = mtbdd_cube(...) / sylvan_not(res); mfence()
Finish(w) ==
    /\ wpc[w] \in {"c1", "c2"}
    /\ res' = [res EXCEPT ![w] = cur[w]]
    /\ wpc' = [wpc EXCEPT ![w] = IF wpc[w] = "c1" THEN "r1" ELSE "r2"]
    /\ UNCHANGED <<producer, cur, gcret, fret, shared, barrier>>

\* t->task_type = 0
ClearType(w) ==
    /\ wpc[w] \in {"r1", "r2"}
    /\ task_type' = [task_type EXCEPT ![w] = 0]
    /\ wpc' = [wpc EXCEPT ![w] = IF wpc[w] = "r1" THEN "t2" ELSE "yield"]
    /\ UNCHANGED <<ppc, arg, quit, nreq, got, cur, gcret, fret, res, shared,
                   barrier>>

\* YIELD_NEWFRAME() at the end of an iteration
YieldPoint(w) ==
    \/ /\ wpc[w] = "yield" /\ newframe = NULL
       /\ wpc' = [wpc EXCEPT ![w] = "loop"]
       /\ UNCHANGED <<producer, cur, gcret, fret, res, shared, barrier>>
    \/ Yield(w, "yield", "loop")

-----------------------------------------------------------------------------
(* Sylvan's collector call inside a request's operation (sylvan_gc)        *)

\* CAS(gc, 0, 1) and lace_run_newframe; or wait for the running collection
GcCall(w) ==
    /\ wpc[w] \in {"c1", "c2"}
    /\ ngc < MaxGc
    /\ gcret' = [gcret EXCEPT ![w] = wpc[w]]
    /\ IF gc = 0
         THEN /\ gc' = 1 /\ ngc' = ngc + 1
              /\ wpc' = [wpc EXCEPT ![w] = "rnf_lock"]
         ELSE /\ UNCHANGED <<gc, ngc>>
              /\ wpc' = [wpc EXCEPT ![w] = "gcwait"]
    /\ UNCHANGED <<producer, cur, fret, res, lock, alive, wid, helper_inited,
                   newframe, done, barrier>>

\* while (gc) YIELD_NEWFRAME();
GcWait(w) ==
    \/ /\ wpc[w] = "gcwait" /\ gc = 0
       /\ wpc' = [wpc EXCEPT ![w] = gcret[w]]
       /\ UNCHANGED <<producer, cur, gcret, fret, res, shared, barrier>>
    \/ Yield(w, "gcwait", "gcwait")

-----------------------------------------------------------------------------
(* lace_run_newframe / lace_wrap_newframe / lace_exec_in_new_frame         *)

\* while (!CAS(&spawn_exit_lock, 0, 1)); -- spinning without yielding
RnfLock(w) ==
    /\ wpc[w] = "rnf_lock"
    /\ lock = 0
    /\ lock' = 1
    /\ wpc' = [wpc EXCEPT ![w] = "publish"]
    /\ UNCHANGED <<producer, cur, gcret, fret, res, alive, wid, helper_inited,
                   newframe, done, gc, ngc, barrier>>

\* done = 0; CAS(&lace_newframe.t, 0, &_s).  It cannot fail: a frame is
\* only published under spawn_exit_lock, which this worker holds.
Publish(w) ==
    /\ wpc[w] = "publish"
    /\ newframe = NULL
    /\ newframe' = w
    /\ done' = 0
    /\ wpc' = [wpc EXCEPT ![w] = "ib1"]
    /\ UNCHANGED <<producer, cur, gcret, fret, res, lock, alive, wid,
                   helper_inited, gc, ngc, barrier>>

\* lace_newframe.t = 0, after the barrier that all copies were made
ResetFrame(w) ==
    /\ wpc[w] = "ireset"
    /\ newframe' = NULL
    /\ wpc' = [wpc EXCEPT ![w] = "ib2"]
    /\ UNCHANGED <<producer, cur, gcret, fret, res, lock, alive, wid,
                   helper_inited, done, gc, ngc, barrier>>

\* lace_newframe_root: run the collector, then *done = 1
Root(w) ==
    /\ wpc[w] = "iroot"
    /\ done' = 1
    /\ wpc' = [wpc EXCEPT ![w] = "ib3"]
    /\ UNCHANGED <<producer, cur, gcret, fret, res, lock, alive, wid,
                   helper_inited, newframe, gc, ngc, barrier>>

\* spawn_exit_lock = 0 in lace_run_newframe; gc = 0 in sylvan_gc
Release(w) ==
    /\ wpc[w] = "irel"
    /\ lock' = 0
    /\ gc' = 0
    /\ wpc' = [wpc EXCEPT ![w] = gcret[w]]
    /\ UNCHANGED <<producer, cur, gcret, fret, res, alive, wid, helper_inited,
                   newframe, done, ngc, barrier>>

\* lace_steal_loop_in, the task the other workers run: until *done
StealIn(w) ==
    /\ wpc[w] = "pwork"
    /\ done = 1
    /\ wpc' = [wpc EXCEPT ![w] = "pb3"]
    /\ UNCHANGED <<producer, cur, gcret, fret, res, shared, barrier>>

\* the three barriers, for the publisher and for the others
Barriers(w) ==
    /\ \/ BarArrive(w, "ib1", "ib1w") \/ BarLeave(w, "ib1w", "ireset")
       \/ BarArrive(w, "ib2", "ib2w") \/ BarLeave(w, "ib2w", "iroot")
       \/ BarArrive(w, "ib3", "ib3w") \/ BarLeave(w, "ib3w", "irel")
       \/ BarArrive(w, "pb1", "pb1w") \/ BarLeave(w, "pb1w", "pb2")
       \/ BarArrive(w, "pb2", "pb2w") \/ BarLeave(w, "pb2w", "pwork")
       \/ BarArrive(w, "pb3", "pb3w") \/ BarLeave(w, "pb3w", fret[w])
    /\ UNCHANGED <<producer, cur, gcret, fret, res, shared>>

-----------------------------------------------------------------------------
(* The exit path of lace_steal_loop_ex                                     *)

ExitNoLock(w) ==
    \/ /\ wpc[w] = "exit"
       /\ lock' = 1
       /\ wpc' = [wpc EXCEPT ![w] = "exit_q"]
       /\ UNCHANGED <<producer, cur, gcret, fret, res, alive, wid,
                      helper_inited, newframe, done, gc, ngc, barrier>>
    \/ Yield(w, "exit", "exit")

\* while (!CAS(&spawn_exit_lock, 0, 1)) YIELD_NEWFRAME();
ExitLock(w) ==
    \/ /\ wpc[w] = "exit" /\ lock = 0
       /\ lock' = 1
       /\ wpc' = [wpc EXCEPT ![w] = "exit_q"]
       /\ UNCHANGED <<producer, cur, gcret, fret, res, alive, wid,
                      helper_inited, newframe, done, gc, ngc, barrier>>
    \/ Yield(w, "exit", "exit")

\* mtbdd_unprotect(&res); *quit = 0
ExitQuit(w) ==
    /\ wpc[w] = "exit_q"
    /\ quit' = [quit EXCEPT ![w] = FALSE]
    /\ wpc' = [wpc EXCEPT ![w] = "exit_rel"]
    /\ UNCHANGED <<ppc, task_type, arg, nreq, got, cur, gcret, fret, res,
                   shared, barrier>>

ExitReleaseDoubleDec(w) ==
    /\ wpc[w] = "exit_rel"
    /\ alive' = alive - 2
    /\ lock' = 0
    /\ wpc' = [wpc EXCEPT ![w] = "gone"]
    /\ UNCHANGED <<producer, cur, gcret, fret, res, wid, helper_inited,
                   newframe, done, gc, ngc, barrier>>

\* lace_n_workers_alive--; mfence(); spawn_exit_lock = 0
ExitRelease(w) ==
    /\ wpc[w] = "exit_rel"
    /\ alive' = alive - 1
    /\ lock' = 0
    /\ wpc' = [wpc EXCEPT ![w] = "gone"]
    /\ UNCHANGED <<producer, cur, gcret, fret, res, wid, helper_inited,
                   newframe, done, gc, ngc, barrier>>

-----------------------------------------------------------------------------
Producer(p) ==
    \/ ThreadStart(p) \/ WriteArgs(p) \/ SetType(p) \/ ReadRes(p)
    \/ Fini(p) \/ FiniDone(p)

Worker(w) ==
    \/ Register(w) \/ LoopTop(w) \/ Poll(w) \/ Finish(w) \/ ClearType(w)
    \/ YieldPoint(w) \/ GcCall(w) \/ GcWait(w) \/ RnfLock(w) \/ Publish(w)
    \/ ResetFrame(w) \/ Root(w) \/ Release(w) \/ StealIn(w) \/ Barriers(w)
    \/ ExitLock(w) \/ ExitQuit(w) \/ ExitRelease(w)

\* every thread has finished
Terminated ==
    /\ \A p \in Producers : ppc[p] = "gone" /\ wpc[p] = "gone"
    /\ UNCHANGED vars

Next == (\E p \in Producers : Producer(p) \/ Worker(p)) \/ Terminated

\* Producer steps once a call is under way, and every worker step, are
\* weakly fair: they are OS threads that spin and are never descheduled
\* for good.  Starting a call (WriteArgs, Fini, ThreadStart) is not.
ProducerWaits(p) == SetType(p) \/ ReadRes(p) \/ FiniDone(p)

Spec ==
    /\ Init /\ [][Next]_vars
    /\ \A p \in Producers : WF_vars(ProducerWaits(p)) /\ WF_vars(Worker(p))

-----------------------------------------------------------------------------
TypeOK ==
    /\ task_type \in [Producers -> {0, 1, 2}]
    /\ arg \in [Producers -> 0 .. MaxReq] /\ res \in [Producers -> 0 .. MaxReq]
    /\ got \in [Producers -> 0 .. MaxReq] /\ cur \in [Producers -> 0 .. MaxReq]
    /\ quit \in [Producers -> BOOLEAN]
    /\ lock \in {0, 1} /\ gc \in {0, 1} /\ done \in {0, 1}
    /\ alive \in 0 .. N /\ wid \in 0 .. N
    /\ newframe \in Producers \cup {NULL}
    /\ bar_arr \subseteq Producers /\ bar_gen \in {0, 1}

\* A producer back from ssa_tag_alloc / ssa_tag_combine holds the result of
\* the request it just wrote, never a previous one: the spin on task_type
\* and the worker's res-then-task_type order make the slot a call.
ResultFresh ==
    \A p \in Producers : ppc[p] = "idle" /\ nreq[p] > 0 => got[p] = nreq[p]

\* lace_n_workers_alive, which every lace_barrier compares with its arrival
\* count, equals the number of worker threads that still run their steal
\* loop, across spawns (lace_spawn_worker's helper initialisation) and
\* exits.
AliveExact == alive = Cardinality(Registered)

\* While a new frame runs (from the publisher taking spawn_exit_lock until
\* it releases it) no worker is registered or leaves: the barriers of the
\* frame always wait for the same set of workers.
InFrame == \E w \in Producers : wpc[w] \in Initiating \ {"rnf_lock"}

FrameStable == [][InFrame => alive' = alive]_vars

\* Every request a producer makes and every ssa_thread_fini returns, even
\* when collections, spawns and exits compete for spawn_exit_lock.
CallsReturn ==
    \A p \in Producers :
        ppc[p] \in {"wait1", "wait2", "fini"} ~> ppc[p] \in {"idle", "gone"}
=============================================================================
