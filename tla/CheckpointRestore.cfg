SPECIFICATION Spec
CONSTANTS
    r1 = r1
    r2 = r2
    Ranks = {r1, r2}
    Root = r1
    NEngines = 2
    MaxCalls = 2
    MaxFaults = 3
INVARIANTS
    AllOrNothing
    RollbackStaysPossible
PROPERTIES
    CallsReturn
CHECK_DEADLOCK FALSE
