CONSTANTS
    Threads = {t1, t2}
    Frames = {f1, f2}
    NoFrame = NoFrame
    Slots = {s1, s2, s3}
    Channels <- MCChannels
SPECIFICATION Spec
INVARIANT
    AioOutlivesRead
