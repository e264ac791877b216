CONSTANTS
    c1 = c1
    c2 = c2
    i1 = i1
    i2 = i2
    NoId = NoId
    NoCaller = NoCaller
    NoMessage = NoMessage
    Callers <- TwoCallers
    Ids <- TwoIds
    RequestId <- OwnIds
    ServerIds <- OneId
    QueueSize = 1
    RingSize = 2
    MaxOutbound = 3
SPECIFICATION FairSpec
CHECK_DEADLOCK FALSE
INVARIANTS
    TypeOK
    AnswerIsAhead
    RequestOnce
PROPERTIES
    AnsweredCallReturns
    StopEndsUnlessStuck
