CONSTANTS
    k1 = k1
    t1 = t1
    g1 = g1
    g2 = g2
    NoKey = NoKey
    NoGate = NoGate
    Keys <- OneKey
    Handlers <- OneTask
    Gates <- TwoGates
    Evictors <- LoopAndStop
    MaxAttach = 2
    DaemonIdleTtls <- ZeroTtl
SPECIFICATION DaemonSpec
CHECK_DEADLOCK FALSE
PROPERTIES
    ZeroNeverFires
