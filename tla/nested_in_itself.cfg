SPECIFICATION Spec
CONSTANTS
    pg = pg
    cA = cA
    cB = cB
    cC = cC
    pVis = pVis
    pText = pText
    Page = {pg}
    Component = {cA}
    Property = {pVis}
    Value = {hidden}
    MaxId = 4
    Plain = Plain
    NoValue = NoValue
    NoDefinition = NoDefinition
    MaxDefinitions = 2
    MaxProperties = 2
    MaxOverrides = 1
    MaxNesting = 2
    MaxExpanded = 6
    Host = {h1}
    InitialDocuments <- JustCarded
    Offered = {"component-instance.insert"}
    Nestings <- InItself
    EnforceLocked = FALSE
    MaxHistory = 2
    MaxRevision = 3
INVARIANT GraphAcyclic
CHECK_DEADLOCK FALSE
