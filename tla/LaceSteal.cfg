\* lace_get_head on every fill of deques of 4 to 40 slots; the victims of
\* lace_steal_loop_in for every thief index and 2 to 8 registered workers.
SPECIFICATION Spec
CONSTANTS
    Sizes <- MC_Sizes
    MaxWorkers <- MC_MaxWorkers
    MaxSteals <- MC_MaxSteals
INVARIANTS
    TypeOK
    HeadCorrect
    VictimsExact
