\* Four alive workers, three consecutive barriers.
CONSTANTS
    Workers = {w1, w2, w3, w4}
    w4 = w4
    w1 = w1
    w2 = w2
    w3 = w3
    MaxRounds = 3
SPECIFICATION Spec
INVARIANTS
    TypeOK
PROPERTIES
    BarrierRefinement
    BarrierReturns
