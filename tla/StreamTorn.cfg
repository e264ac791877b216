CONSTANTS
    MaxOut = 1
    MaxIn = 1
    Ring = 1
    QueueCap = 1
    WireCap = 1
    UpCap = 1
SPECIFICATION Spec
CHECK_DEADLOCK FALSE
INVARIANT EverythingElseForwarded
