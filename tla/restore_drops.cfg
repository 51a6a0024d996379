SPECIFICATION Spec
CONSTANTS
    root = root
    grp = grp
    grp2 = grp2
    frm = frm
    leafA = leafA
    leafB = leafB
    leafC = leafC
    Groups = {root, grp, grp2}
    Frames = {frm}
    Leaves = {leafA, leafB, leafC}
    Roots = {root}
    NoNode = NoNode
    MaxTreeDepth = 6
    Host = {h1, h2}
    InitialDocuments <- OneFramed
    Offered = {"node.create", "node.group"}
    Positions = {0}
    EnforceOnSubmit = FALSE
    EnforceOnReplay = FALSE
    MaxHistory = 2
PROPERTY NothingLost
CHECK_DEADLOCK FALSE
