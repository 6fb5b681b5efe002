CONSTANTS
    Threads = {t1}
    m_page_size = 2
    BlockSize = 4
    MemorySize = 5
    MAX_ITERATES = 2
    Bits = {0, 1}
    MaxLength = 4
    Data <- MCData
    Calls <- AllCalls
    NoCall = NoCall
SPECIFICATION FairSpec
INVARIANTS
    ChangeComplete
    ReadComplete
PROPERTY
    Returns
