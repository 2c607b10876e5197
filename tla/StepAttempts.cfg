SPECIFICATION Spec
CONSTANTS
    Ranks = {r1, r2}
    Precision = 5
    DtInit = 4
    DtMin = 2
    DtMax = 8
    MaxRejections = 2
    RunEnds = {8, 12}
    MaxRuns = 2
    MaxFaults = 1
INVARIANTS
    SameFate
    RestartReplays
PROPERTIES
    RunsEnd
CHECK_DEADLOCK FALSE
