----------------------------- MODULE LaceBarrier -----------------------------
(***************************************************************************)
(* lace_barrier of src/sylvan/src/lace.cpp: a sense-reversing barrier for *)
(* the lace_n_workers_alive workers, reused back to back (every new frame *)
(* crosses it three or four times).                                       *)
(*                                                                         *)
(*   int wait = lace_bar.wait;                                             *)
(*   if (alive == __sync_add_and_fetch(&lace_bar.count, 1)) {              *)
(*       lace_bar.count = 0; lace_bar.leaving = alive;                     *)
(*       lace_bar.wait = 1 - wait;                                         *)
(*   } else while (wait == lace_bar.wait) {}                               *)
(*   __sync_add_and_fetch(&lace_bar.leaving, -1);                          *)
(***************************************************************************)
EXTENDS Integers, FiniteSets

CONSTANTS
    Workers,     \* the alive workers; lace_n_workers_alive = |Workers|
    MaxRounds    \* bound on how many barriers each worker crosses

VARIABLES
    count,       \* lace_bar.count
    leaving,     \* lace_bar.leaving
    wait,        \* lace_bar.wait, the sense
    lwait,       \* each worker's local copy `wait`
    pc,
    arrived,     \* history: barriers each worker has arrived at
    left         \* history: barriers each worker has left

vars == <<count, leaving, wait, lwait, pc, arrived, left>>

Alive == Cardinality(Workers)

Init ==
    /\ count = 0 /\ leaving = 0 /\ wait = 0      \* lace_barrier_init: memset 0
    /\ lwait = [w \in Workers |-> 0]
    /\ pc = [w \in Workers |-> "run"]
    /\ arrived = [w \in Workers |-> 0]
    /\ left = [w \in Workers |-> 0]

\* int wait = lace_bar.wait
Enter(w) ==
    /\ pc[w] = "run"
    /\ arrived[w] < MaxRounds
    /\ lwait' = [lwait EXCEPT ![w] = wait]
    /\ pc' = [pc EXCEPT ![w] = "arrive"]
    /\ UNCHANGED <<count, leaving, wait, arrived, left>>

\* __sync_add_and_fetch(&lace_bar.count, 1) compared with the alive count
ArriveOffByOne(w) ==
    /\ pc[w] = "arrive"
    /\ count' = count + 1
    /\ arrived' = [arrived EXCEPT ![w] = @ + 1]
    /\ pc' = [pc EXCEPT ![w] = IF count + 1 >= Alive - 1 THEN "reset" ELSE "spin"]
    /\ UNCHANGED <<leaving, wait, lwait, left>>

Arrive(w) ==
    /\ pc[w] = "arrive"
    /\ count' = count + 1
    /\ arrived' = [arrived EXCEPT ![w] = @ + 1]
    /\ pc' = [pc EXCEPT ![w] = IF count + 1 = Alive THEN "reset" ELSE "spin"]
    /\ UNCHANGED <<leaving, wait, lwait, left>>

\* the last to arrive: lace_bar.count = 0; lace_bar.leaving = alive
ResetNoCount(w) ==
    /\ pc[w] = "reset"
    /\ leaving' = Alive
    /\ pc' = [pc EXCEPT ![w] = "flip"]
    /\ UNCHANGED <<count, wait, lwait, arrived, left>>

Reset(w) ==
    /\ pc[w] = "reset"
    /\ count' = 0
    /\ leaving' = Alive
    /\ pc' = [pc EXCEPT ![w] = "flip"]
    /\ UNCHANGED <<wait, lwait, arrived, left>>

\* lace_bar.wait = 1 - wait
Flip(w) ==
    /\ pc[w] = "flip"
    /\ wait' = 1 - lwait[w]
    /\ pc' = [pc EXCEPT ![w] = "leave"]
    /\ UNCHANGED <<count, leaving, lwait, arrived, left>>

\* while (wait == lace_bar.wait) {}: the step out of the spin
Spin(w) ==
    /\ pc[w] = "spin"
    /\ wait # lwait[w]
    /\ pc' = [pc EXCEPT ![w] = "leave"]
    /\ UNCHANGED <<count, leaving, wait, lwait, arrived, left>>

\* __sync_add_and_fetch(&lace_bar.leaving, -1)
Leave(w) ==
    /\ pc[w] = "leave"
    /\ leaving' = leaving - 1
    /\ left' = [left EXCEPT ![w] = @ + 1]
    /\ pc' = [pc EXCEPT ![w] = "run"]
    /\ UNCHANGED <<count, wait, lwait, arrived>>

\* every worker has crossed the bounded number of barriers
Done ==
    /\ \A w \in Workers : pc[w] = "run" /\ arrived[w] = MaxRounds
    /\ UNCHANGED vars

Step(w) ==
    Enter(w) \/ Arrive(w) \/ Reset(w) \/ Flip(w) \/ Spin(w) \/ Leave(w)

Next == (\E w \in Workers : Step(w)) \/ Done

\* every worker thread keeps running (it spins, it never blocks)
Spec == Init /\ [][Next]_vars /\ \A w \in Workers : WF_vars(Step(w))

-----------------------------------------------------------------------------
TypeOK ==
    /\ count \in 0 .. Alive
    /\ leaving \in Int
    /\ wait \in {0, 1} /\ lwait \in [Workers -> {0, 1}]
    /\ pc \in [Workers -> {"run", "arrive", "reset", "flip", "spin", "leave"}]
    /\ arrived \in [Workers -> 0 .. MaxRounds]
    /\ left \in [Workers -> 0 .. MaxRounds]

\* lace_barrier implements a reusable barrier: no worker leaves a barrier
\* before every alive worker has arrived at it, even when a fast worker
\* leaves one barrier and arrives at the next while slow ones are still
\* spinning on the flipped sense.  A worker is inside from its increment
\* of count to its decrement of leaving.
Abstract == INSTANCE ReusableBarrier
    WITH inside <- {w \in Workers : arrived[w] > left[w]}, crossed <- left
BarrierRefinement == Abstract!Spec

\* Every worker that enters the barrier eventually leaves it: the last
\* arrival's reset of count and flip of the sense are never lost.
BarrierReturns == \A w \in Workers : pc[w] # "run" ~> pc[w] = "run"
=============================================================================
