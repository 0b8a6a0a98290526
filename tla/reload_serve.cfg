SPECIFICATION Spec
CONSTANTS
    NoWorld = NoWorld
    r1 = r1
    r2 = r2
    Reloads = {r1, r2}
    Instances = {1, 2}
    Offers <- MCOffers
    MaxWorlds = 2
    MaxEdits = 2
    MaxFaults = 1
SYMMETRY Alike
INVARIANTS
    ImmutableKept
    PersistentPkiKept
PROPERTIES
    SuccessServed
CHECK_DEADLOCK FALSE
