\* Two producer threads copying and dropping handles to one slot at once.
CONSTANTS
    Producers = {p1, p2}
    p1 = p1
    p2 = p2
    NULL = NULL
    SSA_BLK <- MC_SSA_BLK
    MaxBlocks <- MC_MaxBlocks
    MaxRefs <- MC_MaxRefs
SPECIFICATION Spec
INVARIANT
    RefCountExact
