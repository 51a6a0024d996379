-------------------------- MODULE MCCommandHistory --------------------------
(***************************************************************************)
(* Small instances of CommandHistory: one page with a root, two groups, a  *)
(* frame and three leaves, some of them in the first document.             *)
(***************************************************************************)
EXTENDS ChildArrays

CONSTANTS root, grp, grp2, frm, leafA, leafB, leafC

(* A document given by the children array of each container in it.         *)
Tree(arrays) ==
    LET slots == {<<p, i>> \in (DOMAIN arrays) \X (1 .. 3) : i <= Len(arrays[p])}
        nodes == {root} \cup {arrays[s[1]][s[2]] : s \in slots}
        slot(n) == CHOOSE s \in slots : arrays[s[1]][s[2]] = n
    IN  [live   |-> nodes,
         parent |-> [n \in Node |-> IF n \in nodes \ {root} THEN slot(n)[1] ELSE NoNode],
         pos    |-> [n \in Node |-> IF n \in nodes \ {root} THEN slot(n)[2] - 1 ELSE 0],
         x      |-> [n \in Node |-> 0],
         lock   |-> [n \in Node |-> "absent"]]

Flat == Tree(root :> <<leafA, leafB, leafC>>)
(* The group is not at the page's origin. *)
Nested == [Tree(root :> <<leafA, grp, leafC>> @@ grp :> <<leafB>>) EXCEPT !.x[grp] = 3]
Framed == Tree(root :> <<frm, leafB>> @@ frm :> <<leafA>>)
Small == Tree(root :> <<grp, leafB>> @@ grp :> <<leafA>>)

OneFlat == {Flat}
OneNested == {Nested}
OneFramed == {Framed}
OneSmall == {Small}
FlatAndNested == {Flat, Nested}

Interchangeable == Permutations(Host)

=============================================================================
