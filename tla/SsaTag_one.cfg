\* Two producer threads and three cells over three slots.
CONSTANTS
    Producers = {p1, p2}
    Cells = {c1, c2, c3}
    Slots = {s1, s2, s3}
    Offsets <- MC_Offsets
    NULL = NULL
    p1 = p1
    p2 = p2
    c1 = c1
    c2 = c2
    c3 = c3
    s1 = s1
    s2 = s2
    s3 = s3
SYMMETRY MC_Symmetry
SPECIFICATION Spec
INVARIANTS
    TypeOK
    RefCountExact
    LastCheckClean
    CacheSound
PROPERTIES
    TaintRefinement
