SPECIFICATION FairSpec
CONSTANTS
    n1 = n1 n2 = n2 n3 = n3 n4 = n4
    s1 = s1
    j1 = j1 j2 = j2
    Node = {n1, n2, n3, n4}
    Shard = {s1}
    Home <- OnFirst
    Room = 1
    Persistent = {n4}
    Job = {j1, j2}
    NodeOf <- TwoNodes
    MaxConcurrent = 2
    Faults = {"call"}
    MaxCrashes = 1
INVARIANT PersistentKept
PROPERTIES SettledStays ReleasedStays DrainEnds
\* When every drain has ended and every shard is placed nothing is left to do.
CHECK_DEADLOCK FALSE
