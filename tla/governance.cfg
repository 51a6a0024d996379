SPECIFICATION Spec
CONSTANTS
    Lower <- MCLower
    MaxPath = 4
    Plans <- AllPlans
    Contexts <- MCContexts
    Spare <- MCSpare
    Formats <- MCFormats
    Scales <- MCScales
    Budgets <- MCBudgets
    Limits <- MCLimits
    MaxRevision = 2
INVARIANTS RebrandSettles UndoStaysAllowed SmallerExportFits
PROPERTIES RebrandAddsNoIssue GovernedEdits
CHECK_DEADLOCK FALSE
