---------------------------- MODULE ReusableBarrier ----------------------------
(***************************************************************************)
(* What a barrier crossed again and again by a fixed set of workers        *)
(* promises: a worker arrives at its next barrier, and may depart from it *)
(* only once every worker has arrived at that same barrier.  Departures   *)
(* are one at a time, so a fast worker may arrive at the next barrier     *)
(* while others have still to depart from this one.  LaceBarrier, the     *)
(* sense-reversing lace_barrier, implements it.                           *)
(***************************************************************************)
EXTENDS Naturals

CONSTANTS Workers

VARIABLES
    inside,   \* the workers that have arrived and not yet departed
    crossed   \* how many barriers each worker has departed from

vars == <<inside, crossed>>

\* the number of barriers w has arrived at
Reached(w) == crossed[w] + (IF w \in inside THEN 1 ELSE 0)

Init == inside = {} /\ crossed = [w \in Workers |-> 0]

Arrive(w) ==
    /\ w \notin inside
    /\ inside' = inside \cup {w}
    /\ UNCHANGED crossed

\* w departs from barrier crossed[w] + 1 once everyone has reached it
Depart(w) ==
    /\ w \in inside
    /\ \A v \in Workers : Reached(v) >= crossed[w] + 1
    /\ inside' = inside \ {w}
    /\ crossed' = [crossed EXCEPT ![w] = @ + 1]

Next == \E w \in Workers : Arrive(w) \/ Depart(w)

Spec == Init /\ [][Next]_vars
================================================================================
