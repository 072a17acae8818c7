CONSTANTS
    MaxEntries = 3
    CacheSize = 3
    MaxFileSize = 2
    Capacity = 12
    Plenty = 8
    MaxDeaths = 0
    MaxErrors = 0
    MaxResets = 0
SPECIFICATION Spec
PROPERTIES
    DoorReopens
CHECK_DEADLOCK FALSE
