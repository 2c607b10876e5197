\* Two-step windows in three substeps, three windows, one failure, one restart.
SPECIFICATION Spec
CONSTANTS
    Stride = 2
    Substeps = 3
    Program <- FourNodes
    Dts = {1, 3}
    Hosts = {"fresh", "live"}
    MaxSteps = 6
    MaxAttempts = 7
    MaxFailures = 1
    MaxRestarts = 1
INVARIANTS
    ProgramCoversTime
    ResumesTheRun
    HeldIsLatest
CHECK_DEADLOCK FALSE
