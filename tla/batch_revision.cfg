SPECIFICATION Spec
CONSTANTS
    pg = pg
    cA = cA
    cB = cB
    cC = cC
    pVis = pVis
    pText = pText
    Page = {pg}
    Component = {cA}
    Property = {pVis, pText}
    Value = {hidden}
    MaxId = 4
    Plain = Plain
    NoValue = NoValue
    NoDefinition = NoDefinition
    MaxDefinitions = 2
    MaxProperties = 2
    MaxOverrides = 1
    MaxNesting = 2
    MaxExpanded = 6
    Host = {h1}
    InitialDocuments <- JustCarded
    Offered = {"component.rename", "component.add-property", "batch"}
    Nestings <- OnPage
    EnforceLocked = FALSE
    MaxHistory = 3
    MaxRevision = 4
PROPERTY RevisionOnce
CHECK_DEADLOCK FALSE
