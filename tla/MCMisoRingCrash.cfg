CONSTANTS
    p1 = p1
    p2 = p2
    Producers <- TwoThreads
    N = 8
    W = 24
    Sizes = {1, 5}
    Rounds = 2
    Sleepers = FALSE
    MaxCrashes = 1
SPECIFICATION CSpec
SYMMETRY Swap
INVARIANTS
    CommittedIntact
    ReaderFindsHeader
    NoSharedBlock
    RingInv
PROPERTIES
    RecoveryIsExact
