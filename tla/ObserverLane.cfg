SPECIFICATION LaneSpec
CONSTANTS
    Ranks = {r1, r2}
    MaxLaneFrames = 2
    MaxLaneFaults = 3
INVARIANTS
    SameOrder
    OneFarewell
PROPERTIES
    LaneCallsReturn
CHECK_DEADLOCK FALSE
