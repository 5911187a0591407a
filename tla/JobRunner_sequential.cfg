SPECIFICATION Spec
CONSTANTS
    Job = {j1, j2, j3}
    Request = {h1}
    IndexOf <- OneIndex
    Ops = {"recommend", "approve", "reject", "bulk-approve", "execute", "execute-all", "create", "cancel", "clear-queue", "clear-history"}
    MaxConcurrent = 1
    Faults = {"database", "es_factory"}
    MaxCrashes = 1
SYMMETRY Symmetry
INVARIANTS RunningRowIsExecuting SlotsConserved ExecutorsWithinCap NoLostWakeup
PROPERTIES ImplementsLifecycle
