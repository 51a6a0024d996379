SPECIFICATION Spec
CONSTANTS
    root = root
    grp = grp
    grp2 = grp2
    frm = frm
    leafA = leafA
    leafB = leafB
    leafC = leafC
    Groups = {root, grp, grp2}
    Frames = {frm}
    Leaves = {leafA, leafB, leafC}
    Roots = {root}
    NoNode = NoNode
    MaxTreeDepth = 6
    Host = {h1}
    InitialDocuments <- FlatAndNested
    Offered = {"node.create", "node.delete", "node.reorder", "node.reparent", "node.group", "node.ungroup"}
    Positions = {0}
    EnforceOnSubmit = FALSE
    EnforceOnReplay = FALSE
    MaxHistory = 2
INVARIANT TreeShape
PROPERTIES InverseExact NothingLost SplicesAgree GroupingKeepsPlace
CHECK_DEADLOCK FALSE
