SPECIFICATION Spec
CONSTANTS
    pg = pg
    cA = cA
    cB = cB
    cC = cC
    pVis = pVis
    pText = pText
    Page = {pg}
    Component = {cA, cB}
    Property = {pVis, pText}
    Value = {hidden}
    MaxId = 5
    Plain = Plain
    NoValue = NoValue
    NoDefinition = NoDefinition
    MaxDefinitions = 2
    MaxProperties = 2
    MaxOverrides = 1
    MaxNesting = 2
    MaxExpanded = 6
    Host = {h1}
    InitialDocuments <- JustCarded
    Offered = {"component.create", "component.duplicate", "component.delete", "component.rename", "component.add-property", "component.update-property", "component.remove-property", "node.create", "node.delete", "batch"}
    Nestings <- OnPage
    EnforceLocked = FALSE
    MaxHistory = 3
    MaxRevision = 4
PROPERTIES InverseExact RevisionMoves
CHECK_DEADLOCK FALSE
