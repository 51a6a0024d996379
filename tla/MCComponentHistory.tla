------------------------- MODULE MCComponentHistory -------------------------
(***************************************************************************)
(* Small instances of ComponentHistory: one page and two or three Sources. *)
(***************************************************************************)
EXTENDS ComponentHistory

CONSTANTS pg, cA, cB, cC, pVis, pText

PlainTree(root, children) ==
    {PlainNode(root, 0, "absent")} \cup {PlainNode(n, root, "absent") : n \in children}

Instance(id, under, c) == [PlainNode(id, under, "absent") EXCEPT !.of = c]

Source(root, tree, props) == [name |-> "Hero", rev |-> 1, root |-> root, tree |-> tree, props |-> props]

NoSources == [c \in Component |-> NoDefinition]

(* A group of one leaf and a second leaf, no Source yet.                    *)
Drawing == [page |-> [p \in Page |-> PlainTree(1, {2}) \cup {PlainNode(3, 0, "absent")}],
            defs |-> NoSources]

(* A Source with an exposed child and an instance of it on the page.        *)
Carded == [page |-> [p \in Page |-> {Instance(1, 0, cA)}],
           defs |-> (cA :> Source(2, PlainTree(2, {3}), <<[id |-> pVis, node |-> 3]>>)) @@ NoSources]

(* A Source that holds an instance of another, itself on the page.          *)
Nested == [page |-> [p \in Page |-> {Instance(1, 0, cA)}],
           defs |-> cA :> Source(2, PlainTree(2, {}) \cup {Instance(3, 2, cB)}, <<>>)
                    @@ cB :> Source(4, PlainTree(4, {5}), <<>>) @@ NoSources]

DrawingAndNested == {Drawing, Nested}
JustCarded == {Carded}

OnPage == {<<cA, pg>>}
BothOnPage == {<<cA, pg>>, <<cB, pg>>}
InItself == {<<cA, cA>>}

=============================================================================
