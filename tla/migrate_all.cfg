SPECIFICATION Spec
CONSTANTS
    Last = 2
    MaxVersion = 3
    Broken <- MCBroken
    Once = {2}
    Bare <- MCBare
    s1 = s1
    s2 = s2
    Sessions = {s1, s2}
    Kinds = {"run", "service", "shared", "helper"}
    MaxCrashes = 1
    MaxStarts = 3
SYMMETRY Alike
INVARIANTS
    InOrder
    RecordedWhole
    OnceByRun
CHECK_DEADLOCK FALSE
