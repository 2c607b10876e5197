SPECIFICATION Spec
CONSTANTS
    Ranks = {r1}
    Precision = 3
    DtInit = 16
    DtMin = 4
    DtMax = 64
    MaxRejections = 2
    RunEnds = {112}
    MaxRuns = 1
    MaxFaults = 0
INVARIANTS
    BoundaryIsCheckpointable
CHECK_DEADLOCK FALSE
