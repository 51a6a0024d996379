SPECIFICATION Spec
CONSTANTS
    root = root
    grp = grp
    grp2 = grp2
    frm = frm
    leafA = leafA
    leafB = leafB
    leafC = leafC
    Groups = {root, grp, grp2}
    Frames = {frm}
    Leaves = {leafA, leafB, leafC}
    Roots = {root}
    NoNode = NoNode
    MaxTreeDepth = 6
    Host = {h1}
    InitialDocuments <- OneNested
    Offered = {"node.delete", "node.ungroup"}
    Positions = {0}
    EnforceOnSubmit = FALSE
    EnforceOnReplay = FALSE
    MaxHistory = 2
INVARIANT EveryInverseApplies
CHECK_DEADLOCK FALSE
