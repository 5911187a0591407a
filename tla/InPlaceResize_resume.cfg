SPECIFICATION Spec
CONSTANTS
    Doc = {d1, d2, d3}
    Stored = {d1, d2}
    Faults = {}
    CrashAt <- Step
    CancelAt = {}
    WriteAt = {}
    MaxAttempts = 2
PROPERTY DestroysOnlyCopies
\* After its last run the job stops.
CHECK_DEADLOCK FALSE
