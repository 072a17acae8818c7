CONSTANTS
    MaxEntries = 3
    CacheSize = 3
    MaxFileSize = 6
    Capacity = 12
    Plenty = 8
    MaxDeaths = 1
    MaxErrors = 0
    MaxResets = 0
SPECIFICATION Spec
INVARIANTS
    CacheIsKept
CHECK_DEADLOCK FALSE
