SPECIFICATION Spec
CONSTANTS
    root = root
    grp = grp
    grp2 = grp2
    frm = frm
    leafA = leafA
    leafB = leafB
    leafC = leafC
    Groups = {root, grp, grp2}
    Frames = {frm}
    Leaves = {leafA, leafB, leafC}
    Roots = {root}
    NoNode = NoNode
    MaxTreeDepth = 6
    Host = {h1, h2}
    InitialDocuments <- OneSmall
    Offered = {"node.create", "node.delete", "node.group", "node.ungroup", "node.update", "node.move", "node.reparent", "node.reorder"}
    Positions = {3}
    EnforceOnSubmit = TRUE
    EnforceOnReplay = TRUE
    MaxHistory = 1
SYMMETRY Interchangeable
INVARIANTS RootsStay OneOwner
PROPERTIES LockedUntouched
CHECK_DEADLOCK FALSE
