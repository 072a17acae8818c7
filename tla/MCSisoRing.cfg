CONSTANTS
    N = 8
    W = 16
    Sizes = {0, 2, 5}
    Rounds = 5
    MaxCrashes = 1
    LateCrash = FALSE
    u1 = u1
    u2 = u2
    None = None
SPECIFICATION MCSpec
INVARIANTS
    NothingIsOverwritten
    SnapshotIsSound
PROPERTIES
    ImplementsStream
CHECK_DEADLOCK FALSE
