SPECIFICATION FairSpec
CONSTANTS
    Root = Root
    Platform = Platform
    Tlds = {com}
    Reverse = {arpa}
    Signed = {Platform}
    Keys = {a, b}
    Ptr = a
    Values = {x}
    NoValue = NoValue
    Calls = {1, 2}
    Attempts = 2
    MaxWorlds = 2
    MaxFaults = 1
INVARIANTS
    KeptAlone
    CompletedServes
PROPERTIES
    FlushedServed
CHECK_DEADLOCK FALSE
