SPECIFICATION FairSpec
CONSTANTS
    a = a
    b = b
    Orgs = {a, b}
    SpecOrgs = {a}
    UserOrgs = {a}
    Senders = FALSE
    MaxRetries = 2
    MaxFaults = 0
    MaxCrashes = 0
    Worlds <- OnlyMail
    Holders = {}
PROPERTIES
    AdmittedGetsClient
CHECK_DEADLOCK FALSE
