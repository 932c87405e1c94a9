--------------------------- MODULE MC_LaceLifecycle ---------------------------
(* Model-checking instance of LaceLifecycle: threads are model values.     *)
EXTENDS LaceLifecycle, TLC

CONSTANTS t1, t2, t3, t4
=============================================================================
