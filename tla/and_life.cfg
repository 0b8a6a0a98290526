SPECIFICATION FairSpec
CONSTANTS
    routed = routed
    transit = transit
    NoCidr = NoCidr
    NoProfile = NoProfile
    Instances = {1, 2}
    Orgs = {3}
    Cidrs = {11, 12}
    Profiles = {routed, transit}
    PoolOf <- SmallPools
    FeaturesOf <- TwoProfiles
    Required <- TransitRequired
    MaxFaults = 1
    MaxChanges = 1
INVARIANTS
    SubnetsApart
    AllOrNothing
PROPERTIES
    KeepsTenancy
    Converges
CHECK_DEADLOCK FALSE
