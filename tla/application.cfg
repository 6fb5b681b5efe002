CONSTANTS
    t1 = t1
    t2 = t2
    s1 = s1
    s2 = s2
    i1 = i1
    i2 = i2
    i3 = i3
    r1 = r1
    r2 = r2
    Threads <- MCThreads
    Signals <- MCSignals
    NoSignal = NoSignal
    Channels <- MCChannels
    Events <- MCEvents
    Infos <- MCInfos
    Temporary = Temporary
    Argument = Argument
    Records <- MCRecords
    MaxPages = 3
    MaxGiven = 1
SPECIFICATION Spec
INVARIANTS
    TypeOK
    HandlersAlive
    ChannelsConsistent
    PagesRight
    NothingUninitialized
