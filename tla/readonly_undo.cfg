SPECIFICATION Spec
CONSTANTS
    pg = pg
    cA = cA
    cB = cB
    cC = cC
    pVis = pVis
    pText = pText
    Page = {pg}
    Component = {cA}
    Property = {pVis}
    Value = {hidden}
    MaxId = 4
    Plain = Plain
    NoValue = NoValue
    NoDefinition = NoDefinition
    MaxDefinitions = 2
    MaxProperties = 2
    MaxOverrides = 1
    MaxNesting = 2
    MaxExpanded = 6
    Host = {h1, h2}
    InitialDocuments <- JustCarded
    Offered = {"component-instance.set-override", "component-instance.reset-all-overrides", "node.update"}
    Nestings <- OnPage
    EnforceLocked = TRUE
    MaxHistory = 3
    MaxRevision = 4
PROPERTY ReadOnlyOverrides
CHECK_DEADLOCK FALSE
