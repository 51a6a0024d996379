---------------------------- MODULE NodeCommands ----------------------------
(***************************************************************************)
(* The node commands of src/commands/runtime.ts and the tree mutations of  *)
(* src/ir/mutations.ts they run: for every command, when it is accepted,   *)
(* the document it returns and the inverse command it returns.             *)
(*                                                                         *)
(* The code keeps a tree of immutable nodes, each container holding an     *)
(* array of children.  Here a document is a record of functions over node  *)
(* ids: the parent of a node and its index in the parent's array.  An      *)
(* array splice is the shift of the indices of the siblings it causes.     *)
(* Node content is abstracted to the two fields the commands treat         *)
(* specially: "locked", and the transform, of which one translation        *)
(* coordinate is kept (so composing two transforms is an addition).        *)
(***************************************************************************)
EXTENDS Integers, FiniteSets

CONSTANTS Groups,        \* ids of nodes of kind "group", page roots included
          Frames,        \* ids of nodes of kind "frame"
          Leaves,        \* ids of nodes of every other kind
          Roots,         \* the roots of the document's trees
          NoNode,        \* the parent of a root and of an absent node
          MaxTreeDepth   \* MAX_TREE_DEPTH of src/limits.ts

Node == Groups \cup Frames \cup Leaves

Containers == Groups \cup Frames

ASSUME NodeAssumption ==
    /\ IsFiniteSet(Node)
    /\ Roots \subseteq Groups
    /\ NoNode \notin Node
    /\ Containers \cap Leaves = {}
    /\ Groups \cap Frames = {}
    /\ MaxTreeDepth \in Nat

(* "absent" is a missing key: the patch value undefined deletes the key. *)
LockState == {"absent", "false", "true"}

Document == [live   : SUBSET Node,
             parent : [Node -> Node \cup {NoNode}],
             pos    : [Node -> Int],
             x      : [Node -> Int],
             lock   : [Node -> LockState]]

(* The roots are there, and nothing holds them. *)
Rooted(d) == \A r \in Roots : r \in d.live /\ d.parent[r] = NoNode

-----------------------------------------------------------------------------
(* Reading a tree. *)

Kids(d, p) == {n \in d.live : d.parent[n] = p}

Width(d, p) == Cardinality(Kids(d, p))

Below(d, n) ==
    LET Closed == {S \in SUBSET d.live : n \in S /\ \A m \in d.live : d.parent[m] \in S => m \in S}
    IN  {m \in d.live : \A S \in Closed : m \in S}

Above(d, n) == {m \in d.live : n \in Below(d, m)}

Depth(d, n) == Cardinality(Above(d, n)) - 1

(* insertIntoTree refuses a child whose deepest node would pass the limit. *)
FitsUnder(d, sub, p) ==
    \A m \in sub.live : Depth(d, p) + 1 + Depth(sub, m) <= MaxTreeDepth

(* The walk every lookup starts with throws CanvasIRDepthError. *)
TooDeep(d) ==
    /\ Cardinality(d.live) > MaxTreeDepth + 1
    /\ \E n \in d.live : Depth(d, n) > MaxTreeDepth

Movable_RootToo(d, n) == n \in d.live

Movable(d, n) == n \in d.live \ Roots

LockedOut(enforce, d, n) == enforce /\ n \in d.live /\ d.lock[n] = "true"

Smaller(a, b) == IF a < b THEN a ELSE b

Clamp(i, max) == IF i < 0 THEN 0 ELSE Smaller(i, max)

(* How many members of S lie before index i in their parent's array. *)
Before(d, S, i) == Cardinality({s \in S : d.pos[s] < i})

-----------------------------------------------------------------------------
(* Array splices, as index shifts. *)

WithGap(d, p, at) ==
    [n \in Node |-> IF n \in Kids(d, p) /\ d.pos[n] >= at THEN d.pos[n] + 1 ELSE d.pos[n]]

WithoutSlot(d, gone) ==
    [n \in Node |-> IF n \in Kids(d, d.parent[gone]) /\ d.pos[n] > d.pos[gone]
                    THEN d.pos[n] - 1 ELSE d.pos[n]]

(* The fields of the nodes in S; every other id reads as absent. *)
Only(d, S) ==
    [live   |-> S,
     parent |-> [n \in Node |-> IF n \in S THEN d.parent[n] ELSE NoNode],
     pos    |-> [n \in Node |-> IF n \in S THEN d.pos[n] ELSE 0],
     x      |-> [n \in Node |-> IF n \in S THEN d.x[n] ELSE 0],
     lock   |-> [n \in Node |-> IF n \in S THEN d.lock[n] ELSE "absent"]]

(* The subtree of n as a payload: detached from its parent. *)
Subtree(d, n) ==
    LET own == Only(d, Below(d, n))
    IN  [own EXCEPT !.parent = [@ EXCEPT ![n] = NoNode], !.pos = [@ EXCEPT ![n] = 0]]

-----------------------------------------------------------------------------
(* node.create *)

CreateAccepts(enforce, d, c) ==
    /\ c.parent \in d.live \cap Containers
    /\ c.at \in 0 .. Width(d, c.parent)
    /\ FitsUnder(d, c.sub, c.parent)

Created(d, c) ==
    LET gap == WithGap(d, c.parent, c.at)
        new == c.sub.live
    IN  [live   |-> d.live \cup new,
         parent |-> [n \in Node |-> IF n = c.node THEN c.parent
                                    ELSE IF n \in new THEN c.sub.parent[n] ELSE d.parent[n]],
         pos    |-> [n \in Node |-> IF n = c.node THEN c.at
                                    ELSE IF n \in new THEN c.sub.pos[n] ELSE gap[n]],
         x      |-> [n \in Node |-> IF n \in new THEN c.sub.x[n] ELSE d.x[n]],
         lock   |-> [n \in Node |-> IF n \in new THEN c.sub.lock[n] ELSE d.lock[n]]]

CreateInverse(d, c) == [type |-> "node.delete", node |-> c.node]

(* node.delete *)

DeleteAccepts(enforce, d, c) == Movable(d, c.node) /\ ~LockedOut(enforce, d, c.node)

Deleted_NodeOnly(d, c) ==
    Only([d EXCEPT !.pos = WithoutSlot(d, c.node)], d.live \ {c.node})

Deleted(d, c) ==
    Only([d EXCEPT !.pos = WithoutSlot(d, c.node)], d.live \ Below(d, c.node))

DeleteInverse_NodeOnly(d, c) ==
    [type |-> "node.create", node |-> c.node,
     sub |-> Subtree(Only(d, {c.node}), c.node), parent |-> d.parent[c.node], at |-> d.pos[c.node]]

DeleteInverse(d, c) ==
    [type |-> "node.create", node |-> c.node, sub |-> Subtree(d, c.node),
     parent |-> d.parent[c.node], at |-> d.pos[c.node]]

-----------------------------------------------------------------------------
(* node.move; node.resize and node.rotate write other parts of the same     *)
(* geometry the same way.                                                   *)

MoveAccepts(enforce, d, c) == c.node \in d.live /\ ~LockedOut(enforce, d, c.node)

Moved(d, c) == [d EXCEPT !.x[c.node] = c.to]

MoveInverse(d, c) == [type |-> "node.move", node |-> c.node, to |-> d.x[c.node]]

(* node.update: the patch writes the fields in c.keys; the inverse patch    *)
(* carries the same keys with their prior values.                           *)

UpdateAccepts_AnyLockPatch(enforce, d, c) ==
    /\ c.node \in d.live
    /\ "locked" \in c.keys \/ ~LockedOut(enforce, d, c.node)

UpdateAccepts(enforce, d, c) ==
    /\ c.node \in d.live
    /\ \/ "locked" \in c.keys /\ c.lock = "false"
       \/ ~LockedOut(enforce, d, c.node)

Updated(d, c) ==
    [d EXCEPT !.lock[c.node] = IF "locked" \in c.keys THEN c.lock ELSE @,
              !.x[c.node] = IF "transform" \in c.keys THEN c.to ELSE @]

UpdateInverse(d, c) ==
    [type |-> "node.update", node |-> c.node, keys |-> c.keys,
     lock |-> IF "locked" \in c.keys THEN d.lock[c.node] ELSE "absent",
     to |-> IF "transform" \in c.keys THEN d.x[c.node] ELSE 0]

-----------------------------------------------------------------------------
(* node.reorder: the index is clamped, never refused. *)

ReorderAccepts(enforce, d, c) == Movable(d, c.node) /\ ~LockedOut(enforce, d, c.node)

Reordered(d, c) ==
    LET p == d.parent[c.node]
        to == Clamp(c.at, Width(d, p) - 1)
        out == [d EXCEPT !.pos = WithoutSlot(d, c.node), !.live = @ \ {c.node}]
    IN  [d EXCEPT !.pos = [WithGap(out, p, to) EXCEPT ![c.node] = to]]

ReorderInverse(d, c) == [type |-> "node.reorder", node |-> c.node, at |-> d.pos[c.node]]

(* node.reparent: within one tree, never under the node itself; the index   *)
(* is clamped to the target's array without the node.                       *)

ReparentAccepts(enforce, d, c) ==
    /\ Movable(d, c.node)
    /\ ~LockedOut(enforce, d, c.node)
    /\ c.parent \in d.live \cap Containers
    /\ c.parent \notin Below(d, c.node)
    /\ \E r \in Roots : {c.node, c.parent} \subseteq Below(d, r)

Reparented(d, c) ==
    LET out == [d EXCEPT !.pos = WithoutSlot(d, c.node), !.live = @ \ {c.node}]
        to == Clamp(c.at, Width(out, c.parent))
    IN  [d EXCEPT !.pos = [WithGap(out, c.parent, to) EXCEPT ![c.node] = to],
                  !.parent[c.node] = c.parent]

ReparentInverse(d, c) ==
    [type |-> "node.reparent", node |-> c.node, parent |-> d.parent[c.node],
     at |-> d.pos[c.node]]

-----------------------------------------------------------------------------
(* node.group: the selected siblings become the children of a new group at  *)
(* the slot of the topmost one.  c.shift and c.lock are the groupTemplate's *)
(* (0 and "absent" without one); a child is re-expressed relative to it.    *)

GroupAccepts(enforce, d, c) ==
    /\ c.kids # {}
    /\ c.group \notin d.live
    /\ \A n \in c.kids : Movable(d, n) /\ ~LockedOut(enforce, d, n)
    /\ \A m, n \in c.kids : d.parent[m] = d.parent[n]

GroupSlot_Bottommost(d, p, kids) ==
    Cardinality({m \in Kids(d, p) \ kids : \E n \in kids : d.pos[m] < d.pos[n]})

GroupSlot(d, p, kids) ==
    Cardinality({m \in Kids(d, p) : \A n \in kids : d.pos[m] < d.pos[n]})

Grouped(d, c) ==
    LET p == d.parent[CHOOSE n \in c.kids : TRUE]
        top == GroupSlot(d, p, c.kids)
        rank(n) == Before(d, c.kids, d.pos[n])
        rest(n) == d.pos[n] - rank(n)
    IN  [live   |-> d.live \cup {c.group},
         parent |-> [n \in Node |-> IF n = c.group THEN p
                                    ELSE IF n \in c.kids THEN c.group ELSE d.parent[n]],
         pos    |-> [n \in Node |-> IF n = c.group THEN top
                                    ELSE IF n \in c.kids THEN rank(n)
                                    ELSE IF n \in Kids(d, p)
                                    THEN rest(n) + (IF rest(n) >= top THEN 1 ELSE 0)
                                    ELSE d.pos[n]],
         x      |-> [n \in Node |-> IF n = c.group THEN c.shift
                                    ELSE IF n \in c.kids THEN d.x[n] - c.shift ELSE d.x[n]],
         lock   |-> [d.lock EXCEPT ![c.group] = c.lock]]

GroupInverse_NoPlan(d, c) ==
    [type |-> "node.ungroup", group |-> c.group, restore |-> {}, index |-> [n \in Node |-> 0]]

GroupInverse(d, c) ==
    [type |-> "node.ungroup", group |-> c.group, restore |-> c.kids,
     index |-> [n \in Node |-> IF n \in c.kids THEN d.pos[n] ELSE 0]]

-----------------------------------------------------------------------------
(* node.ungroup: without restore the children spill out at the group's      *)
(* slot; with restore the listed children are spliced back, by ascending    *)
(* index, into the parent's array without the group, and the children that  *)
(* restore does not list are not spliced back at all.                       *)

UngroupAccepts(enforce, d, c) ==
    /\ c.group \in d.live \cap Groups
    /\ c.group \notin Roots
    /\ ~LockedOut(enforce, d, c.group)
    /\ c.restore \subseteq Kids(d, c.group)

SpilledPos(d, c) ==
    LET g == c.group
        siblings == Kids(d, d.parent[g]) \ {g}
    IN  [n \in Node |->
           IF n \in Kids(d, g) THEN d.pos[g] + d.pos[n]
           ELSE IF n \in siblings /\ d.pos[n] > d.pos[g] THEN d.pos[n] - 1 + Width(d, g)
           ELSE d.pos[n]]

RestoredPos(d, c) ==
    LET g == c.group
        siblings == Kids(d, d.parent[g]) \ {g}
        base(n) == IF d.pos[n] > d.pos[g] THEN d.pos[n] - 1 ELSE d.pos[n]
        earlier(n) == Cardinality({m \in c.restore : c.index[m] < c.index[n]})
    IN  [n \in Node |->
           IF n \in c.restore THEN Smaller(c.index[n], Cardinality(siblings) + earlier(n))
           ELSE IF n \in siblings
           THEN base(n) + Cardinality({m \in c.restore : c.index[m] - earlier(m) <= base(n)})
           ELSE d.pos[n]]

(* reprojectTransform: a child's transform in its grandparent's space. *)
Reprojected_NotComposed(d, g) == d.x

Reprojected(d, g) ==
    [n \in Node |-> IF n \in Kids(d, g) THEN d.x[n] + d.x[g] ELSE d.x[n]]

Lifted(d, c) == IF c.restore = {} THEN Kids(d, c.group) ELSE c.restore

Ungrouped(d, c) ==
    LET g == c.group
        dropped == UNION {Below(d, n) : n \in Kids(d, g) \ Lifted(d, c)}
        flat == [d EXCEPT
                   !.parent = [n \in Node |-> IF n \in Kids(d, g) THEN d.parent[g] ELSE d.parent[n]],
                   !.pos = IF c.restore = {} THEN SpilledPos(d, c) ELSE RestoredPos(d, c),
                   !.x = Reprojected(d, g)]
    IN  Only(flat, (d.live \ {g}) \ dropped)

UngroupInverse(d, c) ==
    [type |-> "node.group", group |-> c.group, kids |-> Kids(d, c.group),
     shift |-> d.x[c.group], lock |-> d.lock[c.group]]

-----------------------------------------------------------------------------
(* applyCommandCore: dispatch on the command's type.  Every command but     *)
(* node.create looks a node up first, and that walk refuses a tree that is  *)
(* too deep.                                                                *)

Accepts(enforce, d, c) ==
    CASE c.type = "node.create"   -> CreateAccepts(enforce, d, c)
      [] c.type = "node.delete"   -> ~TooDeep(d) /\ DeleteAccepts(enforce, d, c)
      [] c.type = "node.move"     -> ~TooDeep(d) /\ MoveAccepts(enforce, d, c)
      [] c.type = "node.update"   -> ~TooDeep(d) /\ UpdateAccepts(enforce, d, c)
      [] c.type = "node.reorder"  -> ~TooDeep(d) /\ ReorderAccepts(enforce, d, c)
      [] c.type = "node.reparent" -> ~TooDeep(d) /\ ReparentAccepts(enforce, d, c)
      [] c.type = "node.group"    -> ~TooDeep(d) /\ GroupAccepts(enforce, d, c)
      [] c.type = "node.ungroup"  -> ~TooDeep(d) /\ UngroupAccepts(enforce, d, c)

After(d, c) ==
    CASE c.type = "node.create"   -> Created(d, c)
      [] c.type = "node.delete"   -> Deleted(d, c)
      [] c.type = "node.move"     -> Moved(d, c)
      [] c.type = "node.update"   -> Updated(d, c)
      [] c.type = "node.reorder"  -> Reordered(d, c)
      [] c.type = "node.reparent" -> Reparented(d, c)
      [] c.type = "node.group"    -> Grouped(d, c)
      [] c.type = "node.ungroup"  -> Ungrouped(d, c)

InverseOf(d, c) ==
    CASE c.type = "node.create"   -> CreateInverse(d, c)
      [] c.type = "node.delete"   -> DeleteInverse(d, c)
      [] c.type = "node.move"     -> MoveInverse(d, c)
      [] c.type = "node.update"   -> UpdateInverse(d, c)
      [] c.type = "node.reorder"  -> ReorderInverse(d, c)
      [] c.type = "node.reparent" -> ReparentInverse(d, c)
      [] c.type = "node.group"    -> GroupInverse(d, c)
      [] c.type = "node.ungroup"  -> UngroupInverse(d, c)

=============================================================================
