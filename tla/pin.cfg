CONSTANTS
    Threads = {t1, t2}
    MaxScopes = 1
SYMMETRY Symmetry
SPECIFICATION Spec
INVARIANTS
    TypeOK
    ProbeProgress
    FloatingVerdict
