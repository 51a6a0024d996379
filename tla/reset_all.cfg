SPECIFICATION Spec
CONSTANTS
    Lower <- MCLower
    MaxPath = 4
    Plans <- JustGoverning
    Contexts <- MCContexts
    Spare <- MCSpare
    Formats <- MCFormats
    Scales <- MCScales
    Budgets <- MCBudgets
    Limits <- MCLimits
    MaxRevision = 2
PROPERTIES EveryEditGoverned
CHECK_DEADLOCK FALSE
