---------------------------- MODULE MC_SsaTagNoGc ----------------------------
(* Model-checking instance of SsaTagNoGc.                                  *)
EXTENDS SsaTagNoGc, TLC

CONSTANTS p1, p2, c1, c2

\* p1 makes five calls: two allocs, a combine, a third alloc and a combine
\* that shares only its lhs with the cached one; p2 only starts and stops,
\* contending with p1 for spawn_exit_lock
MC_MaxCalls == [p \in {p1, p2} |-> IF p = p1 THEN 5 ELSE 0]
=============================================================================
