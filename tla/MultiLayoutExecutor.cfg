\* Three layouts in a cycle, any three calls fail, one interrupt.
SPECIFICATION Spec
CONSTANTS
    Layouts = 3
    Routes <- MCRoutes
    MaxSteps = 2
    MaxBegun = 7
    MaxRejects = 2
    MaxFaults = 3
    MaxInterrupts = 1
INVARIANTS
    SourcesAreAccepted
    ChildrenStayTogether
    FedOncePerStep
CHECK_DEADLOCK FALSE
