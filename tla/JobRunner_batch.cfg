SPECIFICATION FairSpec
CONSTANTS
    Job = {j1, j2, j3}
    Request = {h1}
    IndexOf <- TwoIndexes
    Ops = {"recommend", "approve", "reject", "execute-all", "clear-history"}
    MaxConcurrent = 1
    Faults = {}
    MaxCrashes = 1
INVARIANTS InFlightIsDriven ExecutingRowsWithinCap
PROPERTIES EveryJobEnds ShutdownEnds
