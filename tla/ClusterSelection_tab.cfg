SPECIFICATION FairSpec
CONSTANTS
    MaxCluster = 2
    MaxName = 2
    MaxWrites = 3
INVARIANTS
    FormIsOfActive
    SelectionHolds
PROPERTIES
    RemovedIsLeft
    DuplicateGoes
CHECK_DEADLOCK TRUE
