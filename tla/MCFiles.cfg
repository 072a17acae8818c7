CONSTANTS
    MaxEntries = 2
    CacheSize = 3
    MaxFileSize = 2
    Capacity = 5
    Plenty = 6
    MaxDeaths = 2
    MaxErrors = 1
    MaxResets = 1
SPECIFICATION MCSpec
INVARIANTS
    NothingAcceptedIsLost
    RepeatedOnlyByRecovery
    DecodedIsLogged
    WriterKnowsTheReader
PROPERTIES
    ReachesTheDisk
    CachesAreSound
CHECK_DEADLOCK FALSE
