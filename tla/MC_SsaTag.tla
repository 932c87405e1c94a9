------------------------------ MODULE MC_SsaTag ------------------------------
(* Model-checking instance of SsaTag: slots are interchangeable model      *)
(* values, so the permutations of Slots are a sound symmetry.              *)
EXTENDS SsaTag, TLC

CONSTANTS p1, p2, c1, c2, c3, s1, s2, s3

MC_Offsets == {0, 1, 2}
MC_OffsetsPair == {0, 1}
MC_Symmetry == Permutations({s1, s2, s3})
=============================================================================
