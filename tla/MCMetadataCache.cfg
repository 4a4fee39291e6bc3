CONSTANTS
    p1 = p1
    p2 = p2
    g1 = g1
    g2 = g2
    g3 = g3
    Procs <- TwoProcs
    Gens <- ThreeGens
    Freshness = 0
    MaxTime = 1
    MaxFaults = 1
SPECIFICATION Spec
SYMMETRY Symmetric
INVARIANTS TypeOK WriteOutcome
PROPERTIES ReadsOneRegister
CHECK_DEADLOCK FALSE
