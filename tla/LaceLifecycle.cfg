\* Four threads, at most three at once, and THREAD_CTX_BLK = 4: ssa_exit
\* comes after every started thread has left ssa_thread_fini.
CONSTANTS
    Threads = {t1, t2, t3, t4}
    t4 = t4
    t1 = t1
    t2 = t2
    t3 = t3
    CtxBlk = 4
    MaxLive = 3
    ExitAnytime = FALSE
SPECIFICATION Spec
INVARIANTS
    TypeOK
    SsaPInBounds
PROPERTIES
    StopReturns
