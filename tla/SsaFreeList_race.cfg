\* Two producer threads claiming slots concurrently.
CONSTANTS
    Producers = {p1, p2}
    p1 = p1
    p2 = p2
    NULL = NULL
    SSA_BLK <- MC_SSA_BLK
    MaxBlocks <- MC_MaxBlocks
    MaxRefs <- MC_MaxRefs
SPECIFICATION Spec
INVARIANT
    FreeListSound
