CONSTANTS
    Threads = {t1, t2}
    Slots = {1, 2}
    Room = 2
    Span = 1
    V = 4
    MaxRecords = 2
    MaxDeaths = 2
    None = None
SPECIFICATION Spec
INVARIANTS
    RightData
    NobodyLosesABuffer
PROPERTIES
    NothingMissing
    SurvivorsAreRead
    BuffersGoAway
CHECK_DEADLOCK FALSE
