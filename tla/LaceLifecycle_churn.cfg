\* One thread at a time, three over the run, THREAD_CTX_BLK = 2: the third
\* spawn indexes ssa_p past its end although no more than one runs at once.
CONSTANTS
    Threads = {t1, t2, t3}
    t1 = t1
    t2 = t2
    t3 = t3
    t4 = t4
    CtxBlk = 2
    MaxLive = 1
    ExitAnytime = FALSE
SPECIFICATION Spec
INVARIANTS
    SsaPInBounds
