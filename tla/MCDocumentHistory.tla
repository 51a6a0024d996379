-------------------------- MODULE MCDocumentHistory --------------------------
(***************************************************************************)
(* Small instances of DocumentHistory: one page with a frame, an image and *)
(* a rect, and a second page's worth of ids.                               *)
(***************************************************************************)
EXTENDS DocumentHistory

CONSTANTS root, root2, frm, frm2, img, rct, img2, rct2, p1, p2, logo, photo

(* A page whose root holds the nodes of kids in order; inner ones are in    *)
(* the first of them.                                                       *)
PageOf(kids, inner) ==
    LET held == Range(kids) \cup Range(inner)
    IN  [kids   |-> [n \in Node |-> CASE n = root -> kids [] n = kids[1] -> inner [] OTHER -> <<>>],
         look   |-> [n \in Node |-> CASE n \notin held \cup {root} -> Blank
                                      [] n = root -> [Blank EXCEPT !.w = 4]
                                      [] n \in Frames -> [Blank EXCEPT !.w = 4, !.path = 3]
                                      [] n \in Images -> [Blank EXCEPT !.w = 2, !.asset = logo, !.x = 1]
                                      [] OTHER -> [Blank EXCEPT !.w = 2, !.shadow = 1, !.x = 3]],
         pages  |-> <<[id |-> p1, root |-> root, w |-> 4, name |-> "Page", background |-> 0,
                       layoutAids |-> 0]>>,
         assets |-> [a \in Asset |-> IF a = logo THEN 1 ELSE 0]]

(* The same under enforceLocked, with node n locked. *)
Locked(p, n) == [p EXCEPT !.enforce = TRUE, !.doc.look[n].locked = TRUE]

Plan(d, offers, second) == [doc |-> d, offers |-> offers, second |-> second, enforce |-> FALSE]

Appearance ==
    Plan(PageOf(<<frm, rct>>, <<>>),
         {"node.move", "node.rotate", "node.resize", "node.applyStyle"}, {"node.applyStyle"})

Layouts ==
    Plan(PageOf(<<img, rct, frm>>, <<>>),
         {"wrap", "frame.set-layout", "frame.remove-layout", "node.delete"}, {})

Nested ==
    Locked(Plan(PageOf(<<frm, rct>>, <<img>>),
                {"frame.set-layout", "frame.remove-layout", "node.resize", "node.delete"}, {}), rct)

PageSetup ==
    Plan(PageOf(<<rct, img>>, <<>>),
         {"page.create", "page.delete", "page.duplicate", "page.reorder", "page.resize",
          "page.rename", "page.set"}, {"page.delete", "page.reorder"})

Assets ==
    Plan(PageOf(<<rct, img>>, <<>>),
         {"asset.put", "asset.remove", "asset.migrate", "image.replace"}, {"image.replace"})

AllPlans == {Appearance, Layouts, Nested, PageSetup, Assets}

(* For the inputs of a careless host. *)
JustPages == {Plan(PageOf(<<rct, img>>, <<>>), {"page.resize", "node.resize"}, {})}

Crowd == {Plan(PageOf(<<img, rct, img2, rct2>>, <<>>), {"wrap"}, {})}

Heavy == {Plan(PageOf(<<frm>>, <<img, rct, img2, rct2>>), {"frame.set-layout"}, {})}

Thin == {Plan([PageOf(<<frm>>, <<>>) EXCEPT !.look[frm].path = 1], {"node.resize"}, {})}

=============================================================================
