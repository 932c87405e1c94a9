---------------------------- MODULE MC_LaceBarrier ----------------------------
(* Four workers crossing three barriers back to back.                      *)
EXTENDS LaceBarrier

CONSTANTS w1, w2, w3, w4
=============================================================================
