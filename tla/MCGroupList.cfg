CONSTANTS
    t1 = t1
    t2 = t2
    g1 = g1
    g2 = g2
    g3 = g3
    g4 = g4
    Threads <- TwoThreads
    Groups <- FourGroups
    BlocksPerGroup = 1
    Head = Head
    Reader = Reader
    None = None
SPECIFICATION Spec
SYMMETRY Swap
INVARIANTS
    ListIsSound
    NoBlockIsLost
    NobodyInRetired
