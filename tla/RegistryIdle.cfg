CONSTANTS
    k1 = k1
    k2 = k2
    t1 = t1
    t2 = t2
    g1 = g1
    g2 = g2
    g3 = g3
    g4 = g4
    NoKey = NoKey
    NoGate = NoGate
    Keys <- OneKey
    Handlers <- TwoTasks
    Gates <- ThreeGates
    Evictors <- IdleOnly
    MaxAttach = 3
SPECIFICATION FairSpec
CHECK_DEADLOCK FALSE
INVARIANTS
    GatesSound
PROPERTIES
    IdleScanSparesLeased
    RemovalFollowsStop
    AttachIsAnswered
    UnreferencedIsEvicted
