CONSTANTS
    ra = ra
    other = other
    c1 = c1
    c2 = c2
    Ids <- TwoIds
    Commands <- TwoCommands
    BuiltIn <- DefaultCatalog
    UserFiles <- SomeUserFiles
    ProjectFiles <- SomeProjectFiles
    Writers = {w1, w2}
    Clients = {k1, k2}
    MaxEdits = 2
    Empty = Empty
    None = None
    Absent = Absent
    NotTables = NotTables
    Bad = Bad
    Missing = Missing
SPECIFICATION Spec
SYMMETRY Everyone
CHECK_DEADLOCK FALSE
INVARIANTS
    LastLayerWins
    ClientsServer
    EditsLast
