---------------------------- MODULE MC_LaceFrame ----------------------------
EXTENDS LaceFrame

CONSTANTS p1, p2

MC_MaxReq == 2
MC_MaxGc == 2
=============================================================================
