SPECIFICATION FairDriftSpec
CONSTANTS
    Completed = {0, 1, 3, 4}
    Stubborn = {4}
    AutoHeal = TRUE
    MaxBreaks = 3
    MaxDriftFaults = 2
INVARIANTS
    HealedOnce
PROPERTIES
    Converges
    ShownTruly
CHECK_DEADLOCK FALSE
