CONSTANTS
    Threads = {t1, t2}
    LastAddress = 2
    Populations <- MCPopulations
    LastLocation = 1
    Bits = {0, 1}
    Contents <- MCContents
    Options <- MCOptions
    NoOptions = NoOptions
SYMMETRY Symmetry
SPECIFICATION Spec
INVARIANTS
    TypeOK
    OnlyReadBytes
    ScanVerdict
PROPERTY
    ModifySetsBit
