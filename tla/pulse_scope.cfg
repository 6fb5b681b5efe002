CONSTANTS
    Threads = {t1}
    MaxScopes = 2
SPECIFICATION Spec
PROPERTY
    PulseScopeResets
