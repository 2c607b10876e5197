\* Two patches, uneven limits, budgets that run out.
SPECIFICATION Spec
CONSTANTS
    Dim = 2
    Coordinates <- Five
    Patches <- TwoPatches
    MinBox <- MinWide
    MaxBox <- MaxTwo
    Efficiency <- TwoThirds
    NodeBudget = 6
    CellBudget = 60
    OutputBudget = 3
    MaxTags = 5
INVARIANTS
    CoversTags
    AxesAreAlike
CHECK_DEADLOCK FALSE
