SPECIFICATION Spec
SYMMETRY Names
CONSTANTS
    c1 = c1
    c2 = c2
    c3 = c3
    s1 = s1
    s2 = s2
    n1 = n1
    n2 = n2
    None = None
    Cluster <- Clusters
    ReadOnly <- Secured
    Subject <- Subjects
    Text <- Texts
    MaxCalls = 2
INVARIANTS
    ExplainsItsRow
PROPERTIES
    RelocatesAsArmed
    ArmingIsSpent
    ReadOnlyIsSpared
CHECK_DEADLOCK TRUE
