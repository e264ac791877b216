CONSTANTS
    MaxOut = 2
    MaxIn = 2
    Ring = 1
    QueueCap = 1
    WireCap = 1
    UpCap = 1
SPECIFICATION FairSpec
CHECK_DEADLOCK FALSE
INVARIANTS
    TypeOK
    OutInOrder
    LostOnlyToLag
    InboundExact
PROPERTIES
    LeaseReturns
    NoticeReachesEditor
