SPECIFICATION FairPoolSpec
CONSTANTS
    a = a
    b = b
    NoLease = NoLease
    Callers = {1, 2, 3}
    AndNames = {a, b}
    NameOf <- TwoForOne
    CandidatesOf <- TwoPools
    Subnets = {1, 2}
    Serialised = TRUE
    MaxCallFaults = 2
INVARIANTS
    UniqueSubnet
    GrantMatchesLease
PROPERTIES
    ExhaustedTruly
    GrantsTenancy
CHECK_DEADLOCK FALSE
