\* Two producers with their workers: requests, Sylvan collections run as new
\* frames, spawns and exits all competing for spawn_exit_lock.
SPECIFICATION Spec
CONSTANTS
    p1 = p1
    p2 = p2
    NULL = NULL
    Producers = {p1, p2}
    MaxReq <- MC_MaxReq
    MaxGc <- MC_MaxGc
INVARIANTS
    TypeOK
    ResultFresh
    AliveExact
PROPERTIES
    FrameStable
    CallsReturn
