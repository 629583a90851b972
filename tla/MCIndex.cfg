SPECIFICATION FairEncoderSpec
CONSTANTS
    File <- AllFiles
    Given <- MCGiven
    Filters <- MCFilters
    CountWidth = 2
    LogId = {0, 1, 3, 6, 9}
    Timestamp = {0, 1, 2}
    Width = 6
    headerSize = 2
    filenameSize = 3
    logDirEntrySize = 1
    entrySize = 2
INVARIANTS
    IndexTypeOK
    AcceptedIsWellFormed
    WellFormedAccepted
    LookupExact
    EncodedIsServed
PROPERTY
    EveryCallEnds
CHECK_DEADLOCK FALSE
