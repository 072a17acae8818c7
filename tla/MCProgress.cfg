CONSTANTS
    p1 = p1
    p2 = p2
    t1 = t1
    t2 = t2
    g1 = g1
    None = None
    Producers <- MCProducers
    N = 8
    W = 24
    Sizes = {3}
    Rounds = 2
    Sleepers = FALSE
SPECIFICATION MCSpec
PROPERTIES
    ImplementsQueue
    RingProgress
    ReadAndGivenBack
