CONSTANTS
    t1 = t1
    t2 = t2
    t3 = t3
    t4 = t4
    e1 = e1
    e2 = e2
    Threads <- MCThreads
    MarkValue <- MCMarkValue
    RingRoom = 2
    QueueSize = 1
    MaxLines = 2
    MaxTokens = 2
    Ring = Ring
    None = None
SPECIFICATION MCSpec
CHECK_DEADLOCK FALSE
INVARIANTS
    Exclusion
    NotesMatchChunks
PROPERTIES
    ImplementsLock
    EverybodyPasses
    LinesAreShown
