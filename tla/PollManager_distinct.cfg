SPECIFICATION FairSpec
CONSTANTS
    p1 = p1
    p2 = p2
    r1 = r1
    r2 = r2
    Cluster <- TwoClusters
    Poller <- TwoPollers
    Request <- TwoRequests
    Racing = {}
    Faults <- AllFaults
    MaxCrashes = 1
INVARIANTS
    NoStrayPoller
    PollersMatchRows
    OnePollerWithClient
PROPERTIES
    RemovedIsClosed
    ActiveIsCached
CHECK_DEADLOCK TRUE
