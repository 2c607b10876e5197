SPECIFICATION Spec
CONSTANTS
    NQueues = 2
    Capacity <- TwoCapacities
    MaxAttempts <- TwoAttempts
    MaxFrames = 3
    MaxFaults = 2
INVARIANTS
    NoFrameLost
    StoppedIsDrained
PROPERTIES
    SessionDiscipline
    CallsReturn
CHECK_DEADLOCK FALSE
