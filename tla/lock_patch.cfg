SPECIFICATION Spec
CONSTANTS
    root = root
    grp = grp
    grp2 = grp2
    frm = frm
    leafA = leafA
    leafB = leafB
    leafC = leafC
    Groups = {root, grp, grp2}
    Frames = {frm}
    Leaves = {leafA, leafB, leafC}
    Roots = {root}
    NoNode = NoNode
    MaxTreeDepth = 6
    Host = {h1}
    InitialDocuments <- OneFlat
    Offered = {"node.update"}
    Positions = {0}
    EnforceOnSubmit = TRUE
    EnforceOnReplay = TRUE
    MaxHistory = 2
INVARIANT LockPatchApplies
CHECK_DEADLOCK FALSE
