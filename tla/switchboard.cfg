CONSTANTS
    t1 = t1
    t2 = t2
    t3 = t3
    shared = shared
    own = own
    Threads <- MCThreads
    Files <- MCFiles
    FileOf <- MCFileOf
    Connections = 2
SPECIFICATION FairSpec
INVARIANTS
    TypeOK
    FindsFirstFree
PROPERTIES
    NoSpaceRight
    CountRight
    PersistentStays
    Returns
