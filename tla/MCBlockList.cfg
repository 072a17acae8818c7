CONSTANTS
    t1 = t1
    t2 = t2
    b1 = b1
    b2 = b2
    b3 = b3
    Threads <- TwoThreads
    Reader = Reader
    Blocks <- ThreeBlocks
    MarkWrap = 4
    MaxDeaths = 1
    None = None
SPECIFICATION Spec
SYMMETRY Symmetric
INVARIANTS
    LinkIsCurrent
PROPERTIES
    ImplementsStacks
