SPECIFICATION FairSpec
CONSTANTS
    MaxJob = 1
    MaxWrites = 2
    MaxCalls = 2
INVARIANTS
    OwnWritesShow
    NextIsFresh
PROPERTIES
    PageCatchesUp
CHECK_DEADLOCK TRUE
