--------------------------- MODULE CommandHistory ---------------------------
(***************************************************************************)
(* The life of a document: hosts submit node commands to applyCommand      *)
(* (src/commands/runtime.ts) and push the inverses it returns on their own *)
(* undo stacks; re-applying an inverse yields a redo inverse.              *)
(*                                                                         *)
(* There is one document.  Each host keeps its own stacks (README.md:      *)
(* history is caller-managed) and never records the commands of another,   *)
(* so an inverse may be applied to a document that others have edited      *)
(* since ("remote" records may bypass a host's local undo stack).          *)
(***************************************************************************)
EXTENDS NodeCommands, Sequences, FiniteSetsExt

CONSTANTS Host,            \* the hosts that edit the document
          InitialDocuments,
          Offered,         \* the command types hosts submit
          Positions,       \* the coordinates hosts move nodes to
          EnforceOnSubmit, \* options.enforceLocked of a submitted command
          EnforceOnReplay, \* options.enforceLocked of an undo or a redo
          MaxHistory       \* bound: the entries of one host's stacks

(* The trees of a document are trees of containers and their children       *)
(* arrays.                                                                  *)
Shaped(d) ==
    /\ \A n \in d.live \ Roots : d.parent[n] \in d.live \cap Containers
    /\ d.live = UNION {Below(d, r) : r \in Roots}
    /\ \A p \in d.live : {d.pos[n] : n \in Kids(d, p)} = 0 .. Width(d, p) - 1

(* An id that is not in the document has no fields. *)
Blank(d) == d = Only(d, d.live)

ASSUME HistoryAssumption ==
    /\ InitialDocuments \subseteq {d \in Document : Rooted(d) /\ Shaped(d) /\ Blank(d)}
    /\ Positions \subseteq Int
    /\ EnforceOnSubmit \in BOOLEAN /\ EnforceOnReplay \in BOOLEAN
    /\ MaxHistory \in Nat

VARIABLES doc,     \* the document
          minted,  \* the ids some command has introduced: uuids, never reused
          undo,    \* each host's inverses, newest first
          redo     \* each host's inverses of undone commands, newest first

vars == <<doc, minted, undo, redo>>

Init ==
    /\ doc \in InitialDocuments
    /\ minted = doc.live
    /\ undo = [h \in Host |-> <<>>]
    /\ redo = [h \in Host |-> <<>>]

-----------------------------------------------------------------------------
(* A host applies a command: a refused command throws and changes nothing.  *)

Submit(h, c) ==
    /\ c.type \in Offered
    /\ Len(undo[h]) + Len(redo[h]) < MaxHistory
    /\ Accepts(EnforceOnSubmit, doc, c)
    /\ doc' = After(doc, c)
    /\ undo' = [undo EXCEPT ![h] = <<InverseOf(doc, c)>> \o @]
    /\ redo' = [redo EXCEPT ![h] = <<>>]

(* What a host hands to node.create: a new node n, or a new container n     *)
(* with a new child m in it (m = n stands for none).                        *)
Payload(n, m) ==
    [live |-> {n, m}, parent |-> [i \in Node |-> IF i = m /\ m # n THEN n ELSE NoNode],
     pos |-> [i \in Node |-> 0], x |-> [i \in Node |-> 0],
     lock |-> [i \in Node |-> "absent"]]

NodeCreate(h) ==
    \E n, m \in Node \ minted : \E p \in doc.live \cap Containers : \E at \in 0 .. Width(doc, p) :
        /\ m = n \/ n \in Containers
        /\ Submit(h, [type |-> "node.create", node |-> n, sub |-> Payload(n, m),
                      parent |-> p, at |-> at])
        /\ minted' = minted \cup {n, m}

NodeDelete(h) ==
    \E n \in doc.live :
        /\ Submit(h, [type |-> "node.delete", node |-> n])
        /\ UNCHANGED minted

NodeMove(h) ==
    \E n \in doc.live : \E to \in Positions :
        /\ Submit(h, [type |-> "node.move", node |-> n, to |-> to])
        /\ UNCHANGED minted

NodeUpdate(h) ==
    \E n \in doc.live : \E keys \in (SUBSET {"locked", "transform"}) \ {{}} :
    \E lock \in {"false", "true"} : \E to \in Positions :
        /\ Submit(h, [type |-> "node.update", node |-> n, keys |-> keys,
                      lock |-> lock, to |-> to])
        /\ UNCHANGED minted

(* The index runs past the end: the commands clamp it. *)
NodeReorder(h) ==
    \E n \in doc.live : \E at \in 0 .. Cardinality(Node) :
        /\ Submit(h, [type |-> "node.reorder", node |-> n, at |-> at])
        /\ UNCHANGED minted

NodeReparent(h) ==
    \E n \in doc.live : \E p \in doc.live : \E at \in 0 .. Width(doc, p) + 1 :
        /\ Submit(h, [type |-> "node.reparent", node |-> n, parent |-> p, at |-> at])
        /\ UNCHANGED minted

NodeGroup(h) ==
    \E g \in Groups \ minted : \E kids \in SUBSET doc.live :
        /\ Submit(h, [type |-> "node.group", group |-> g, kids |-> kids,
                      shift |-> 0, lock |-> "absent"])
        /\ minted' = minted \cup {g}

NodeUngroup(h) ==
    \E g \in doc.live :
        /\ Submit(h, [type |-> "node.ungroup", group |-> g, restore |-> {},
                      index |-> [n \in Node |-> 0]])
        /\ UNCHANGED minted

(* Undo and redo re-apply the newest entry of one stack and push the        *)
(* inverse that comes back on the other.  An entry the runtime refuses      *)
(* throws and stays where it is.                                            *)

Undo(h) ==
    /\ undo[h] # <<>>
    /\ Accepts(EnforceOnReplay, doc, Head(undo[h]))
    /\ doc' = After(doc, Head(undo[h]))
    /\ undo' = [undo EXCEPT ![h] = Tail(@)]
    /\ redo' = [redo EXCEPT ![h] = <<InverseOf(doc, Head(undo[h]))>> \o @]
    /\ UNCHANGED minted

Redo(h) ==
    /\ redo[h] # <<>>
    /\ Accepts(EnforceOnReplay, doc, Head(redo[h]))
    /\ doc' = After(doc, Head(redo[h]))
    /\ redo' = [redo EXCEPT ![h] = Tail(@)]
    /\ undo' = [undo EXCEPT ![h] = <<InverseOf(doc, Head(redo[h]))>> \o @]
    /\ UNCHANGED minted

Next ==
    \E h \in Host :
        \/ NodeCreate(h) \/ NodeDelete(h) \/ NodeMove(h) \/ NodeUpdate(h)
        \/ NodeReorder(h) \/ NodeReparent(h) \/ NodeGroup(h) \/ NodeUngroup(h)
        \/ Undo(h) \/ Redo(h)

Spec == Init /\ [][Next]_vars

-----------------------------------------------------------------------------
(* Types. *)

CreateCommand == [type : {"node.create"}, node : Node, sub : Document,
                  parent : Node \cup {NoNode}, at : Int]
DeleteCommand == [type : {"node.delete"}, node : Node]
MoveCommand == [type : {"node.move"}, node : Node, to : Int]
UpdateCommand == [type : {"node.update"}, node : Node, keys : SUBSET {"locked", "transform"},
                  lock : LockState, to : Int]
ReorderCommand == [type : {"node.reorder"}, node : Node, at : Int]
ReparentCommand == [type : {"node.reparent"}, node : Node, parent : Node \cup {NoNode}, at : Int]
GroupCommand == [type : {"node.group"}, group : Node, kids : SUBSET Node, shift : Int,
                 lock : LockState]
UngroupCommand == [type : {"node.ungroup"}, group : Node, restore : SUBSET Node,
                   index : [Node -> Int]]

Command == CreateCommand \cup DeleteCommand \cup MoveCommand \cup UpdateCommand
           \cup ReorderCommand \cup ReparentCommand \cup GroupCommand \cup UngroupCommand

(* Every reachable document is a document, and every stack entry is a       *)
(* command the runtime can dispatch.                                        *)
TypeOK ==
    /\ doc \in Document
    /\ minted \subseteq Node
    /\ undo \in [Host -> Seq(Command)]
    /\ redo \in [Host -> Seq(Command)]

-----------------------------------------------------------------------------
(* Properties. *)

(* No interleaving of commands, undos and redos removes a page root or puts *)
(* it under another node (cannot-remove-page-root, cannot-move-page-root).  *)
RootsStay == Rooted(doc)

(* Every tree stays a tree: a live node but a root has a live container as  *)
(* its parent, every node is reached from a root, and the indices of        *)
(* siblings are those of an array, without gap or tie.  The rewriters leave *)
(* this to their callers (replaceChildrenInParent: "the caller owns IR      *)
(* invariants ... within the returned array").                              *)
TreeShape == Shaped(doc)

(* The ids a stack entry would bring into the document. *)
Brings(c) ==
    CASE c.type = "node.create" -> c.sub.live
      [] c.type = "node.group"  -> {c.group}
      [] OTHER                  -> {}

Entries == {<<h, "undo", i>> : h \in Host, i \in 1 .. MaxHistory}
           \cup {<<h, "redo", i>> : h \in Host, i \in 1 .. MaxHistory}

EntryBrings(e) ==
    LET stack == IF e[2] = "undo" THEN undo[e[1]] ELSE redo[e[1]]
    IN  IF e[3] <= Len(stack) THEN Brings(stack[e[3]]) ELSE {}

(* node.create does not check that its ids are new (the caller owns INV-2,  *)
(* unique node ids), and neither do the inverses of node.delete.  They stay *)
(* safe for any interleaving of hosts because an id that left the document  *)
(* is held by one stack entry only, and never while it is in the document.  *)
OneOwner ==
    /\ \A e \in Entries : EntryBrings(e) \cap doc.live = {}
    /\ \A e, f \in Entries : e # f => EntryBrings(e) \cap EntryBrings(f) = {}

(* The inverse that the step of host h pushed. *)
PushedUndo(h) == Len(undo'[h]) > Len(undo[h])
PushedRedo(h) == Len(redo'[h]) > Len(redo[h])
Acted(h) == PushedUndo(h) \/ PushedRedo(h)
Pushed(h) == IF PushedUndo(h) THEN Head(undo'[h]) ELSE Head(redo'[h])

(* The inverse of node.ungroup on a group without children is a node.group  *)
(* without childIds, which is refused.                                      *)
EmptyGroup(c) == c.type = "node.group" /\ c.kids = {}

(* applyCommand's inverse applies and is exact: the document its command    *)
(* returned accepts it and becomes the document the command was given; the  *)
(* same holds of the inverse an undo returns and of that of a redo, so that *)
(* a host that edits alone can undo and redo all it did.                    *)
InverseExact ==
    [][\A h \in Host :
         Acted(h) /\ ~EmptyGroup(Pushed(h))
         => Accepts(EnforceOnReplay, doc', Pushed(h)) /\ After(doc', Pushed(h)) = doc]_vars

(* The same without the exception, as README.md states it: re-applying an   *)
(* inverse yields a redo inverse.                                           *)
EveryInverseApplies ==
    \A h \in Host : undo[h] # <<>> => Accepts(EnforceOnReplay, doc, Head(undo[h]))

(* No step loses a node: what leaves the document is in the inverse that    *)
(* the same step returned, so its host can bring it back.                   *)
NothingLost ==
    [][\A n \in doc.live \ doc'.live : \E h \in Host : Acted(h) /\ n \in Brings(Pushed(h))]_vars

(* Where a node is on the page: the composition of its transform with those *)
(* of its ancestors.                                                        *)
World(d, n) == MapThenSumSet(LAMBDA m : d.x[m], Above(d, n))

(* node.group, node.ungroup and their inverses change the space a node's    *)
(* transform is relative to, and re-express it so that no leaf moves.       *)
GroupingKeepsPlace ==
    [][\A h \in Host :
         Acted(h) /\ Pushed(h).type \in {"node.group", "node.ungroup"}
         => \A n \in Leaves \cap doc.live \cap doc'.live : World(doc, n) = World(doc', n)]_vars

(* With enforceLocked a locked node changes in two ways only: a patch that  *)
(* unlocks it, and the ungrouping of its (unlocked) parent, which           *)
(* re-expresses its transform.                                              *)
LockedUntouched ==
    [][\A n \in doc.live \cap doc'.live :
         doc.lock[n] = "true"
         => \/ doc'.lock[n] = "false"
            \/ doc.parent[n] # NoNode /\ doc.parent[n] \notin doc'.live
            \/ /\ doc'.lock[n] = "true"
               /\ doc'.x[n] = doc.x[n]
               /\ doc'.parent[n] = doc.parent[n]]_vars

(* options.enforceLocked exempts a node.update whose patch touches locked:  *)
(* the inverse of such an update, which touches locked too, applies.        *)
LockPatchApplies ==
    \A h \in Host :
        undo[h] # <<>> /\ Head(undo[h]).type = "node.update" /\ "locked" \in Head(undo[h]).keys
        /\ Head(undo[h]).node \in doc.live
        => Accepts(EnforceOnReplay, doc, Head(undo[h]))

(* C-16: no command produces a tree deeper than MAX_TREE_DEPTH, which every *)
(* later reader would refuse to walk.                                       *)
DepthBounded == ~TooDeep(doc)

=============================================================================
