SPECIFICATION TendedSpec
CONSTANTS
    UpToChoices <- UpToAll
    Modes <- AnyMode
    Launches <- AllLaunches
    Apps <- BothWorlds
    ImportLevels <- FromBundles
    MaxFaults = 2
    MaxDowns = 1
INVARIANTS
    FinishedDurable
PROPERTIES
    NeverRedone
    ClimbsLadder
    EventuallyBootedWithCa
