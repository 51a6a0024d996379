----------------------------- MODULE ChildArrays -----------------------------
(***************************************************************************)
(* The arrays the code splices, beside the index arithmetic of             *)
(* NodeCommands: what filter, splice and the restore loop do to            *)
(* parent.children, stated on sequences.                                   *)
(***************************************************************************)
EXTENDS CommandHistory, SequencesExt

Children(d, p) ==
    LET at(i) == {n \in Kids(d, p) : d.pos[n] = i}
    IN  [i \in 1 .. Width(d, p) |-> IF at(i - 1) = {} THEN NoNode ELSE CHOOSE n \in at(i - 1) : TRUE]

(* Array.prototype.splice(at, 0, ...items): an index past the end appends.  *)
Splice(s, at, items) ==
    LET i == Smaller(at, Len(s))
    IN  SubSeq(s, 1, i) \o items \o SubSeq(s, i + 1, Len(s))

Without(s, S) == SelectSeq(s, LAMBDA n : n \notin S)

(* parent.children after node.group, from parent.children before.           *)
GroupSplice(s, kids, at, g) == Splice(Without(s, kids), at, <<g>>)

(* parent.children after node.ungroup with a restore plan sorted by index.  *)
RestoreSplice(s, g, restore, index) ==
    LET plan == SetToSortSeq(restore, LAMBDA m, n : index[m] < index[n])
    IN  FoldLeft(LAMBDA acc, n : Splice(acc, index[n], <<n>>), Without(s, {g}), plan)

(* parent.children after node.ungroup without one.                          *)
SpillSplice(s, g, at, kids) == Splice(Without(s, {g}), at, kids)

AppliedGroup(h) == Acted(h) /\ Pushed(h).type = "node.ungroup"
AppliedUngroup(h) == Acted(h) /\ Pushed(h).type = "node.group"

(* Grouping takes the selected siblings out of their parent's array in      *)
(* order and puts the group where the topmost one was.                      *)
GroupsArray(h) ==
    LET g == Pushed(h).group
        kids == Pushed(h).restore
        p == doc'.parent[g]
        old == Children(doc, p)
        minIndex == SelectInSeq(old, LAMBDA n : n \in kids) - 1
    IN  /\ Children(doc', p) = GroupSplice(old, kids, minIndex, g)
        /\ Children(doc', g) = SelectSeq(old, LAMBDA n : n \in kids)

(* Ungrouping puts the children back in the parent's array exactly where    *)
(* applyNodeUngroup splices them: with the plan of an undone node.group in  *)
(* its restore loop, without a plan (a submitted command, no redo pending)  *)
(* at the slot of the group.                                                *)
UngroupsArray(h) ==
    LET g == Pushed(h).group
        p == doc.parent[g]
        old == Children(doc, p)
    IN  /\ PushedRedo(h) =>
             Children(doc', p) = RestoreSplice(old, g, Head(undo[h]).restore, Head(undo[h]).index)
        /\ redo[h] = <<>> /\ PushedUndo(h) =>
             Children(doc', p) = SpillSplice(old, g, doc.pos[g], Children(doc, g))

(* The index arithmetic of node.group, of node.ungroup and of their undos   *)
(* is what the filters and splices of the code do to the children arrays.   *)
SplicesAgree ==
    [][\A h \in Host : /\ AppliedGroup(h) => GroupsArray(h)
                       /\ AppliedUngroup(h) => UngroupsArray(h)]_vars

=============================================================================
