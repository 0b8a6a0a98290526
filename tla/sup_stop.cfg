SPECIFICATION FairSupervisorSpec
CONSTANTS
    monitoring = monitoring
    rotation = rotation
    drift = drift
    Workers = {monitoring, rotation, drift}
    Absorbing = {monitoring}
    Healers = {drift}
    BackoffBase = 40
    BackoffMax = 60
    MaxWorkerCrashes = 2
INVARIANTS
    AllEndedAtStop
PROPERTIES
    RestartedAfterCrash
    StopTerminates
CHECK_DEADLOCK FALSE
