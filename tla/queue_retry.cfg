SPECIFICATION FairSpec
CONSTANTS
    e1 = e1
    e2 = e2
    e3 = e3
    e4 = e4
    Events = {e1, e2, e3, e4}
    Poison = {e2}
    InitialDead = {e3}
    Pops = {TRUE, FALSE}
    MaxRetries = 3
    MaxFaults = 2
    MaxCrashes = 2
INVARIANTS
    LossesCounted
    SingleCopy
    RetriesCounted
PROPERTIES
    LivesOnce
    Drains
CHECK_DEADLOCK FALSE
