SPECIFICATION Spec
CONSTANTS
    cA = cA
    cB = cB
    lib = lib
    i1 = i1
    i2 = i2
    p1 = p1
    p2 = p2
    leaf = leaf
    other = other
    Component = {cA, cB}
    Library = {lib}
    Binding = {visible, text, color}
    BodiesOf <- Nesting
    Page = {p1, p2}
    Instance = {i1, i2}
    Paint <- InOrder
    PageOf <- TwoPages
    SourceOf <- AAndB
    Position = {here, there}
    Value = {none, set}
    MaxDepth = 2
    Hosts <- ThreeHosts
    MaxRevision = 3
    MaxUndo = 3
INVARIANTS Transparent BudgetKept
CHECK_DEADLOCK FALSE
