CONSTANTS
    Callers = {c1, c2}
    async = async
    ind = ind
    sync = sync
    Logs = {async, ind, sync}
    Mode <- MCMode
    Blocking = {async}
    Room = 1
    Pub = pub
    Created <- MCCreated
    MaxCalls = 3
    MaxKills = 1
SPECIFICATION Spec
INVARIANTS
    AppendersOwned
    NoWorkerAfterUninit
PROPERTIES
    FlushKeepsItsWord
    NothingWaitsForEver
CHECK_DEADLOCK FALSE
