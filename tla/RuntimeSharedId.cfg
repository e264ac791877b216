CONSTANTS
    c1 = c1
    c2 = c2
    i1 = i1
    i2 = i2
    NoId = NoId
    NoCaller = NoCaller
    NoMessage = NoMessage
    Callers <- TwoCallers
    Ids <- TwoIds
    RequestId <- SharedId
    ServerIds <- NoIds
    QueueSize = 1
    RingSize = 2
    MaxOutbound = 2
SPECIFICATION Spec
CHECK_DEADLOCK FALSE
INVARIANT AnswerIsOwn
