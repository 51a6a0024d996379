SPECIFICATION Spec
CONSTANTS
    pg = pg
    cA = cA
    cB = cB
    cC = cC
    pVis = pVis
    pText = pText
    Page = {pg}
    Component = {cA, cB}
    Property = {}
    Value = {hidden}
    MaxId = 10
    Plain = Plain
    NoValue = NoValue
    NoDefinition = NoDefinition
    MaxDefinitions = 2
    MaxProperties = 2
    MaxOverrides = 1
    MaxNesting = 2
    MaxExpanded = 6
    Host = {h1}
    InitialDocuments <- DrawingAndNested
    Offered = {"component.create", "component.extract", "component.delete", "component-instance.insert", "component-instance.detach", "node.delete", "batch"}
    Nestings <- BothOnPage
    EnforceLocked = FALSE
    MaxHistory = 3
    MaxRevision = 3
INVARIANTS UniqueIds NoDangling GraphAcyclic
PROPERTIES InverseExact
CHECK_DEADLOCK FALSE
