SPECIFICATION FairSpec
CONSTANTS
    t1 = t1
    t2 = t2
    Tab <- TwoTabs
    MaxTokens = 2
    MaxCalls = 2
INVARIANTS
    QuietSessionLasts
PROPERTIES
    LoginLands
    DeadSessionLeaves
CHECK_DEADLOCK TRUE
