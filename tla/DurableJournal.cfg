\* Two frames, two delivery attempts, any two faults of any kind.
SPECIFICATION Spec
CONSTANTS
    NFrames = 2
    MaxAttempts = 2
    Faults = {"fsync", "process", "power"}
    MaxFaults = 2
INVARIANTS
    HandoffSurvives
    AckIsFinal
    PendingIsQueued
