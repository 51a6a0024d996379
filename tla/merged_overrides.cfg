SPECIFICATION Spec
CONSTANTS
    i1 = i1
    i2 = i2
    h1 = h1
    h2 = h2
    Host = {h1}
    Instance = {i1, i2}
    Body = {"icon", "badge", "card", "card2", "banner"}
    Def <- Merging
    MaxDependencies = 2
    MaxClosureDepth = 3
    MaxNodes = 5
    Plans <- AllPlans
    Selections <- MCSelections
    Overrides <- MCOverrides
    Careless = {}
    MaxHistory = 2
PROPERTIES OverridesKept
CHECK_DEADLOCK FALSE
