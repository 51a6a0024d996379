SPECIFICATION Spec
CONSTANTS
    root = root
    root2 = root2
    frm = frm
    frm2 = frm2
    img = img
    rct = rct
    img2 = img2
    rct2 = rct2
    p1 = p1
    p2 = p2
    logo = logo
    photo = photo
    Frames = {frm, frm2}
    Rects = {rct, rct2}
    Images = {img, img2}
    Roots = {root, root2}
    MaxDepth = 4
    Asset = {logo, photo}
    NoAsset = NoAsset
    MaxComposite = 3
    Page = {p1, p2}
    Positions = {5}
    Widths = {0, 2, 6}
    Plans <- AllPlans
    Careless = {}
    MaxHistory = 2
    MaxEntry = 7
INVARIANTS UndoApplies FromIsCurrent
PROPERTIES ExactHistory
CHECK_DEADLOCK FALSE
