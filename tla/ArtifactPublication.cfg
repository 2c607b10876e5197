\* Faults, and other processes at any moment.
SPECIFICATION FileSpec
CONSTANTS
    Inodes = {1, 2, 3}
    Ours = 1
    None = 0
    MaxCalls = 3
    MaxFaults = 1
    MaxMoves = 3
INVARIANTS
    OthersSurvive
    LeftIsRecorded
CHECK_DEADLOCK FALSE
