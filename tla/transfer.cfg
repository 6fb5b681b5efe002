CONSTANTS
    Threads = {t1, t2}
    Frames = {f1, f2}
    NoFrame = NoFrame
    Slots = {s1, s2}
    Channels <- MCChannels
SPECIFICATION FairSpec
INVARIANTS
    TypeOK
    BusyIffQueued
    ReadBeforeWrite
PROPERTIES
    ImplementsContract
    OnlyFailedWriteAbandons
    TransferReturns
