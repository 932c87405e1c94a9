------------------------------ MODULE LaceSteal ------------------------------
(***************************************************************************)
(* The thief's side of a steal in src/sylvan/src/lace.cpp: what a worker  *)
(* passes to lace_steal(__lace_worker, __lace_dq_head, *victim) in        *)
(* lace_steal_loop_in, the loop the other workers run during a new frame. *)
(*                                                                         *)
(* lace_get_head finds the first task of a worker's deque whose thief     *)
(* field is 0.  The deque is filled from the bottom: slots below the head *)
(* hold spawned tasks (thief non-zero), the rest are empty.  The search   *)
(* checks slots 0..3 linearly, then doubles a probe from 4 until it finds *)
(* an empty slot or reaches the deque's end, then bisects.                 *)
(*                                                                         *)
(* The victim is chosen at random by the LCG rng, seeded with the        *)
(* worker's index, or, for the next i iterations (i itself drawn from rng),*)
(* round-robin over workers[0 .. lace_n_workers_id - 1] skipping the thief.*)
(*                                                                         *)
(* The loops are RECURSIVE operators.  The state machine pushes and pops  *)
(* tasks (lace.h's SPAWN and SYNC, not in this repository) and registers  *)
(* further workers (lace_worker_thread's lace_n_workers_id++), so that    *)
(* both are checked on every head of deques of every size in Sizes and    *)
(* for every thief index and worker count up to MaxWorkers.               *)
(***************************************************************************)
EXTENDS Integers, FiniteSets

CONSTANTS
    Sizes,       \* deque lengths self->end - self->dq to check
    MaxWorkers,  \* bound on lace_n_workers_id
    MaxSteals    \* steal-loop iterations whose victims are checked

VARIABLES
    size,        \* self->end - self->dq
    head,        \* the number of spawned tasks: dq[i].thief # 0 iff i < head
    self,        \* __lace_worker->worker, the thief's index
    n            \* lace_n_workers_id

vars == <<size, head, self, n>>

\* dq[i].thief, with 1 standing for any non-zero thief
Thief(i) == IF i < head THEN 1 ELSE 0

\* for (;;) { if (low*2 >= high) break; else if (dq[low*2].thief == 0)
\*            { high = low*2; break; } else low *= 2; }
\* Each operator returns the bounds it ends with and the slots it read.
RECURSIVE DoubleLastProbe(_, _, _)
DoubleLastProbe(low, high, read) ==
    IF low * 2 > high THEN <<low, high, read>>
    ELSE IF Thief(low * 2) = 0 THEN <<low, low * 2, read \cup {low * 2}>>
    ELSE DoubleLastProbe(low * 2, high, read \cup {low * 2})

RECURSIVE Double(_, _, _)
Double(low, high, read) ==
    IF low * 2 >= high THEN <<low, high, read>>
    ELSE IF Thief(low * 2) = 0 THEN <<low, low * 2, read \cup {low * 2}>>
    ELSE Double(low * 2, high, read \cup {low * 2})

\* while (low < high) { mid = low + (high-low)/2;
\*   if (dq[mid].thief == 0) high = mid; else low = mid + 1; }
RECURSIVE BisectSkipMid(_, _, _)
BisectSkipMid(low, high, read) ==
    IF low >= high THEN <<low, read>>
    ELSE LET mid == low + (high - low) \div 2
         IN IF Thief(mid) = 0 THEN BisectSkipMid(low, mid - 1, read \cup {mid})
            ELSE BisectSkipMid(mid + 1, high, read \cup {mid})

RECURSIVE Bisect(_, _, _)
Bisect(low, high, read) ==
    IF low >= high THEN <<low, read>>
    ELSE LET mid == low + (high - low) \div 2
         IN IF Thief(mid) = 0 THEN Bisect(low, mid, read \cup {mid})
            ELSE Bisect(mid + 1, high, read \cup {mid})

\* lace_get_head: the index it returns (dq + index) and the slots it reads
GetHead ==
    CASE Thief(0) = 0 -> <<0, {0}>>
      [] Thief(1) = 0 -> <<1, 0 .. 1>>
      [] Thief(2) = 0 -> <<2, 0 .. 2>>
      [] Thief(3) = 0 -> <<3, 0 .. 3>>
      [] OTHER -> LET d == Double(2, size, 0 .. 3) IN Bisect(d[1], d[2], d[3])

(* rng: next = seed * 1103515245 + 12345 in uint32_t, seed = next,       *)
(* return next % max.  A uint32_t is kept as <<high, low>> 16-bit halves, *)
(* so that every product stays within TLC's integers.                     *)
Half == 65536
LCG_HI == 16838     \* 1103515245 = 16838 * 2^16 + 20077
LCG_LO == 20077

SeedOf(k) == <<k \div Half, k % Half>>

LcgNext(s) ==
    LET low == s[2] * LCG_LO + 12345
    IN  << (low \div Half + ((s[1] * LCG_LO) % Half)
                               + ((s[2] * LCG_HI) % Half)) % Half,
          low % Half >>

\* next % max for a uint32_t next and 0 < max < 2^15
UMod(s, max) == ((s[1] % max) * (Half % max) + s[2]) % max

rng(s, max) == [seed |-> LcgNext(s), val |-> UMod(LcgNext(s), max)]

RoundRobinNoRecheck(v, worker_id, nid) ==
    LET v1 == IF v + 1 = worker_id THEN v + 2 ELSE v + 1
    IN  IF v1 >= nid THEN 0 ELSE v1

\* the round-robin branch: victim++, skip self, wrap at lace_n_workers_id,
\* skip self again
RoundRobin(v, worker_id, nid) ==
    LET v1 == IF v + 1 = worker_id THEN v + 2 ELSE v + 1
        v2 == IF v1 >= nid THEN 0 ELSE v1
    IN  IF v2 = worker_id THEN v2 + 1 ELSE v2

(* An iteration of lace_steal_loop_in's while loop, while *done == 0 and  *)
(* lace_n_workers_alive > 1, changes only the task's locals seed, i and   *)
(* victim before it calls lace_steal (in lace.h, not in this repository); *)
(* lace_n_workers_id is fixed while a frame runs (LaceFrame's             *)
(* FrameStable).  The iterations are therefore an operator.               *)

\* the locals at each call of the task: seed = worker_id, i = 0,
\* victim = self
StealStart(worker_id) ==
    [seed |-> SeedOf(worker_id), i |-> 0, victim |-> worker_id]

\* one iteration's victim selection, nid = lace_n_workers_id
NextLocals(me, worker_id, nid) ==
    IF me.i > 0
    THEN [me EXCEPT !.i = @ - 1, !.victim = RoundRobin(@, worker_id, nid)]
    ELSE LET r1 == rng(me.seed, 40)         \* i = rng(&seed, 40)
             r2 == rng(r1.seed, nid - 1)
         IN  [seed |-> r2.seed, i |-> r1.val,
              victim |-> (r2.val + worker_id + 1) % nid]

\* the victims of the first k iterations from locals me
RECURSIVE StealVictims(_, _, _, _)
StealVictims(me, worker_id, nid, k) ==
    IF k = 0 THEN {}
    ELSE LET nx == NextLocals(me, worker_id, nid)
         IN  {nx.victim} \cup StealVictims(nx, worker_id, nid, k - 1)

\* the thief registered last: lace_init_worker(lace_n_workers_id), then
\* lace_n_workers_id++
Init ==
    /\ size \in Sizes
    /\ head \in 0 .. size
    /\ self \in 0 .. MaxWorkers - 1
    /\ n = self + 1

\* a task is spawned onto the deque
Push ==
    /\ head < size
    /\ head' = head + 1
    /\ UNCHANGED <<size, self, n>>

\* the top task is synced
Pop ==
    /\ head > 0
    /\ head' = head - 1
    /\ UNCHANGED <<size, self, n>>

\* another worker registers (lace_worker_thread, under spawn_exit_lock)
Register ==
    /\ n < MaxWorkers
    /\ n' = n + 1
    /\ UNCHANGED <<size, head, self>>

Next == Push \/ Pop \/ Register

Spec == Init /\ [][Next]_vars

-----------------------------------------------------------------------------
\* Types, and the search's result and every slot it reads lie within the
\* deque: neither the doubling probe nor the bisection reads dq[end - dq].
TypeOK ==
    /\ size \in Sizes /\ head \in 0 .. size
    /\ self \in 0 .. MaxWorkers - 1 /\ n \in self + 1 .. MaxWorkers
    /\ GetHead \in (0 .. size) \X SUBSET (0 .. size - 1)

\* The reference: the first slot whose thief is 0, or the deque's end.
LinearHead == CHOOSE i \in 0 .. size :
                  /\ \A j \in 0 .. i - 1 : Thief(j) # 0
                  /\ i < size => Thief(i) = 0

\* lace_get_head returns the first empty slot, for deques of every length
\* (powers of two and others) and every fill, the full one included.
HeadCorrect == GetHead[1] = LinearHead

\* Once lace_n_workers_alive > 1 lets the loop steal (so at least two
\* workers are registered), the victims of its first MaxSteals iterations
\* are exactly the other registered workers: never the thief itself, never
\* an index at or past lace_n_workers_id, and none left out -- through the
\* uint32_t wrap of rng, the alternation of random and round-robin
\* choices, and the round-robin's wrap past the last worker.
Others == (0 .. n - 1) \ {self}

VictimsExact ==
    n >= 2 => StealVictims(StealStart(self), self, n, MaxSteals) = Others

=============================================================================
