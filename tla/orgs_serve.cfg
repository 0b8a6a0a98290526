SPECIFICATION FairSpec
CONSTANTS
    a = a
    b = b
    api = api
    Orgs = {a, b}
    SpecOrgs = {a}
    UserOrgs = {a}
    Senders = TRUE
    MaxRetries = 2
    MaxFaults = 1
    MaxCrashes = 1
    Worlds <- MCWorlds
    Holders = {api}
INVARIANTS
    TypeOK
    OutputComplete
    AckedDurable
PROPERTIES
    Consumed
    ComesUp
CHECK_DEADLOCK FALSE
