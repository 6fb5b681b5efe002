CONSTANTS
    Threads = {t1, t2}
    m_page_size = 2
    BlockSize = 2
    MemorySize = 5
    MAX_ITERATES = 2
    Bits = {0, 1}
    MaxLength = 4
    Data <- MCData
    Calls <- MCCalls
    NoCall = NoCall
SYMMETRY Symmetry
SPECIFICATION Spec
INVARIANT
    TypeOK
PROPERTIES
    OnlyWhatIsAsked
    NearerReturn
    ImplementsContract
