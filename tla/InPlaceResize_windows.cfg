SPECIFICATION FairSpec
CONSTANTS
    Doc = {d1, d2, d3, d4}
    Stored = {d1, d2}
    Faults = {"work"}
    CrashAt <- Step
    CancelAt <- NotRestoring
    WriteAt <- Step
    MaxAttempts = 3
INVARIANTS CompletedIsWhole AbortLeavesWritable
PROPERTIES SourceIsCopied TempIsCopied AttemptEnds
\* After its last run the job stops.
CHECK_DEADLOCK FALSE
