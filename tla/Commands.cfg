CONSTANTS
    c1 = c1
    c2 = c2
    Clients = {c1, c2}
    Daemons = {d1, d2}
    KindsOf <- DoBeside
    None = None
    MaxKills = 1
SPECIFICATION FairSpec
CHECK_DEADLOCK FALSE
INVARIANT ReleasedAtEnd
PROPERTIES
    RequestSeesDocument
    CommandsEnd
    OrphansExit
