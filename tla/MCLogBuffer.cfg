CONSTANTS
    t1 = t1
    t2 = t2
    g1 = g1
    g2 = g2
    g3 = g3
    Threads <- TwoThreads
    Groups <- ThreeGroups
    BlocksPerGroup = 1
    Rounds <- ThreeAndTwo
    LpRoom = 2
    BlockRoom = 2
    AutoExpand = TRUE
    None = None
SPECIFICATION Spec
SYMMETRY SwapGroups
PROPERTIES
    ImplementsStream
INVARIANTS
    NothingOverdue
    SecondEmptyIsTrue
    NothingDangles
