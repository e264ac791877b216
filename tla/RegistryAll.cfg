CONSTANTS
    k1 = k1
    k2 = k2
    t1 = t1
    t2 = t2
    g1 = g1
    g2 = g2
    g3 = g3
    g4 = g4
    NoKey = NoKey
    NoGate = NoGate
    Keys <- TwoKeys
    Handlers <- TwoTasks
    Gates <- FourGates
    Evictors <- AllThree
    MaxAttach = 2
SPECIFICATION Spec
CHECK_DEADLOCK FALSE
SYMMETRY KeyAndTaskSymmetry
INVARIANTS
    TypeOK
    DanglingLeaseIsPurged
    LeaseReachesClient
    RefCountExact
PROPERTIES
    ImplementsLeaseService
