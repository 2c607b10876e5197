\* Two clocks, an EveryDt(3) lattice, two failures, two process deaths or restarts.
SPECIFICATION Spec
CONSTANTS
    Topology <- MCTopology
    Clocks <- MCClocks
    RunEnds = {2, 4}
    DtInit = 2
    DtMin = 1
    DtMax = 2
    MaxRejections = 1
    MaxSteps = 3
    MaxRuns = 2
    MaxFaults = 2
    MaxEpochs = 2
INVARIANTS
    PublishedExactlyOnce
    EngineAndEnvelopeAgree
    VisibleIsAccounted
    OwnersKeepTheirReport
    NoLatticePointSkipped
    CheckpointTellsTheTruth
CHECK_DEADLOCK FALSE
