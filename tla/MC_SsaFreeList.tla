--------------------------- MODULE MC_SsaFreeList ---------------------------
(* Model-checking instance of SsaFreeList: a tiny block size so that the   *)
(* free list runs empty, ssa_gc recycles dead slots and add_ssa_blk grows   *)
(* the list within a few calls.                                             *)
EXTENDS SsaFreeList

CONSTANTS p1, p2

MC_SSA_BLK == 3
MC_MaxBlocks == 2
MC_MaxRefs == 4
=============================================================================
