CONSTANTS
    k1 = k1
    t1 = t1
    g1 = g1
    g2 = g2
    NoKey = NoKey
    NoGate = NoGate
    Keys <- OneKey
    Handlers <- OneTask
    Gates <- TwoGates
    Evictors <- AllEvictors
    MaxAttach = 2
    DaemonIdleTtls <- AllTtls
SPECIFICATION DaemonFairSpec
CHECK_DEADLOCK FALSE
INVARIANTS
    DaemonTypeOK
    ShutdownIsSoleEvictor
    TableIsStoppedAtExit
PROPERTIES
    AutoShutdownSparesLeases
    ShutdownCompletes
    AbandonedDaemonExits
