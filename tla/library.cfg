SPECIFICATION FairSpec
CONSTANTS
    i1 = i1
    i2 = i2
    h1 = h1
    h2 = h2
    Host = {h1}
    Instance = {i1, i2}
    Body = {"icon", "badge", "card", "card2", "banner"}
    Def <- MCDef
    MaxDependencies = 2
    MaxClosureDepth = 3
    MaxNodes = 5
    Plans <- AllPlans
    Selections <- MCSelections
    Overrides <- MCOverrides
    Careless = {}
    MaxHistory = 2
INVARIANTS UndoApplies
PROPERTIES NoNewHole ExactHistory AdmissionSettles
CHECK_DEADLOCK FALSE
