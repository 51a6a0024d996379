--------------------------- MODULE ComponentHistory ---------------------------
(***************************************************************************)
(* Hosts that edit one document with Component commands and undo and redo *)
(* by re-applying inverses.  A command and a batch of commands are both a *)
(* sequence of simple commands here: applyBatch folds over its commands,  *)
(* applies all of them or none, and a nested batch adds nothing to that.  *)
(* After the whole of it, settleComponentRevisions moves the revision of  *)
(* every definition that was rewritten without one of its own.            *)
(***************************************************************************)
EXTENDS ComponentCommands

CONSTANTS Host,
          InitialDocuments,
          Offered,          \* the command types the hosts submit
          Nestings,         \* the <<component, place>> pairs the hosts insert
          EnforceLocked,    \* options.enforceLocked
          MaxHistory,       \* BOUND: entries on the two stacks of a host
          MaxRevision       \* BOUND: undoing and redoing an edit of a Source moves
                            \* its revision each time, forever

ASSUME HostAssumption ==
    /\ Nestings \subseteq Component \X Place
    /\ EnforceLocked \in BOOLEAN
    /\ {MaxHistory, MaxRevision} \subseteq Nat

-----------------------------------------------------------------------------
(* A document as nested children arrays and the ids validator leave it.     *)

(* A set of nodes that hang from each other and from u: ids and parents are  *)
(* unique, nothing hangs from an instance, and nothing from itself, however  *)
(* far below (every part of it has a node whose parent is outside).          *)
Grown(nodes, u) ==
    /\ \A n \in nodes : n.id \in Id
    /\ \A n \in nodes : n.under = u \/ n.under \in IdsOf(nodes)
    /\ \A m, n \in nodes : m.id = n.id => m = n
    /\ \A m, n \in nodes : n.under = m.id => m.of = Plain
    /\ \A S \in SUBSET nodes : S # {} => \E n \in S : n.under \notin IdsOf(S)

(* One of them, top, hangs from u and all others are below it.               *)
Subtree(nodes, top, u) ==
    /\ Grown(nodes, u) /\ top \in IdsOf(nodes)
    /\ \A n \in nodes : IF n.id = top THEN n.under = u ELSE n.under \in IdsOf(nodes)

(* A tree at the place p: on a page anything may hang from the page's root,  *)
(* which is in no tree, and in a Source only the root hangs from nothing.    *)
Rooted(d, p, tree) == IF p \in Page THEN Grown(tree, 0) ELSE Subtree(tree, d.defs[p].root, 0)

Planted(d) ==
    /\ \A p \in Places(d) : Rooted(d, p, Tree(d, p))
    /\ \A p, q \in Places(d) : p # q => IdsOf(Tree(d, p)) \cap IdsOf(Tree(d, q)) = {}

(* The hosts start with a document that validateComponentGraph has nothing  *)
(* against: instances have a definition and no definition embeds itself.    *)
ASSUME DocumentAssumption ==
    \A d \in InitialDocuments :
        /\ d \in Document
        /\ IsFiniteSet(Defined(d)) /\ \A p \in Place : IsFiniteSet(Tree(d, p))
        /\ \A p \in Place : \A n \in Tree(d, p) : n.of # Plain => n.of \in Defined(d)
        /\ ~Cyclic(d)
        /\ Planted(d)

-----------------------------------------------------------------------------
VARIABLES doc,     \* the document
          undo,    \* undo[h], redo[h]: the stacks of host h, newest entry first
          redo,
          minted,  \* node ids that were ever used
          named    \* component ids that were ever used

vars == <<doc, undo, redo, minted, named>>

-----------------------------------------------------------------------------
(* applyCommandCore: dispatch on the command's type.                        *)

Accepts(d, c) ==
    CASE c.type = "node.create" -> CreateAccepts(EnforceLocked, d, c)
      [] c.type = "node.delete" -> DeleteAccepts(EnforceLocked, d, c)
      [] c.type = "node.update" -> UpdateAccepts(EnforceLocked, d, c)
      [] c.type = "component.create" -> RestoreAccepts(EnforceLocked, d, c)
      [] c.type = "component.extract" -> ExtractAccepts(EnforceLocked, d, c)
      [] c.type = "component.duplicate" -> DuplicateAccepts(EnforceLocked, d, c)
      [] c.type = "component.delete" -> RemoveAccepts(EnforceLocked, d, c)
      [] c.type = "component.rename" -> RenameAccepts(EnforceLocked, d, c)
      [] c.type = "component.add-property" -> AddPropertyAccepts(EnforceLocked, d, c)
      [] c.type = "component.update-property" -> UpdatePropertyAccepts(EnforceLocked, d, c)
      [] c.type = "component.remove-property" -> RemovePropertyAccepts(EnforceLocked, d, c)
      [] c.type = "component-instance.insert" -> InsertAccepts(EnforceLocked, d, c)
      [] c.type = "component-instance.set-override" -> SetOverrideAccepts(EnforceLocked, d, c)
      [] c.type = "component-instance.reset-override" -> ResetOverrideAccepts(EnforceLocked, d, c)
      [] c.type = "component-instance.reset-all-overrides" -> ResetAllAccepts(EnforceLocked, d, c)
      [] c.type = "component-instance.detach" -> DetachAccepts(EnforceLocked, d, c)

After(d, c) ==
    CASE c.type = "node.create" -> Created(d, c)
      [] c.type = "node.delete" -> Deleted(d, c)
      [] c.type = "node.update" -> Updated(d, c)
      [] c.type = "component.create" -> Restored(d, c)
      [] c.type = "component.extract" -> Extracted(d, c)
      [] c.type = "component.duplicate" -> Duplicated(d, c)
      [] c.type = "component.delete" -> Removed(d, c)
      [] c.type = "component.rename" -> Renamed(d, c)
      [] c.type = "component.add-property" -> PropertyAdded(d, c)
      [] c.type = "component.update-property" -> PropertyUpdated(d, c)
      [] c.type = "component.remove-property" -> PropertyRemoved(d, c)
      [] c.type = "component-instance.insert" -> Inserted(d, c)
      [] c.type = "component-instance.set-override" -> OverrideSet(d, c)
      [] c.type = "component-instance.reset-override" -> OverrideReset(d, c)
      [] c.type = "component-instance.reset-all-overrides" -> AllReset(d, c)
      [] c.type = "component-instance.detach" -> Detached(d, c)

InverseOf(d, c) ==
    CASE c.type = "node.create" -> CreateInverse(d, c)
      [] c.type = "node.delete" -> DeleteInverse(d, c)
      [] c.type = "node.update" -> UpdateInverse(d, c)
      [] c.type = "component.create" -> RestoreInverse(d, c)
      [] c.type = "component.extract" -> ExtractInverse(d, c)
      [] c.type = "component.duplicate" -> DuplicateInverse(d, c)
      [] c.type = "component.delete" -> RemoveInverse(d, c)
      [] c.type = "component.rename" -> RenameInverse(d, c)
      [] c.type = "component.add-property" -> AddPropertyInverse(d, c)
      [] c.type = "component.update-property" -> UpdatePropertyInverse(d, c)
      [] c.type = "component.remove-property" -> RemovePropertyInverse(d, c)
      [] c.type = "component-instance.insert" -> InsertInverse(d, c)
      [] c.type \in {"component-instance.set-override", "component-instance.reset-override"} -> PriorOverride(d, c)
      [] c.type = "component-instance.reset-all-overrides" -> ResetAllInverse(d, c)
      [] c.type = "component-instance.detach" -> DetachInverse(d, c)

(* The commands on one definition, not on a node of a tree.                 *)
ManagesRevision(c) == "place" \notin DOMAIN c

(* The definitions a command replaces by a new object, changed or not: that *)
(* of the Source whose tree it edits, unless it is a reset of nothing.      *)
ResetsNothing(d, c) ==
    \/ c.type = "component-instance.reset-override" /\ The(d, c.place, c.id).over[c.property] = NoValue
    \/ c.type = "component-instance.reset-all-overrides" /\ The(d, c.place, c.id).over = NoOverrides

Touches(d, c) ==
    CASE c.type \in {"component.create", "component.duplicate", "component.delete"} -> {}
      [] ManagesRevision(c) -> {c.component}
      [] OTHER -> IF ResetsNothing(d, c) THEN {} ELSE {c.place} \cap Component

-----------------------------------------------------------------------------
(* applyBatch over applyCommandCore, then applyCommand's settling.          *)

Fold(acc, c) ==
    IF ~acc.ok \/ ~Accepts(acc.doc, c) THEN [acc EXCEPT !.ok = FALSE]
    ELSE [ok |-> TRUE, doc |-> After(acc.doc, c), inverse |-> InverseOf(acc.doc, c) \o acc.inverse,
          touched |-> acc.touched \cup Touches(acc.doc, c)]

Folded(d, cmds) ==
    FoldLeft(Fold, [ok |-> TRUE, doc |-> d, inverse |-> <<>>, touched |-> {}], cmds)

Settled_Never(before, after, touched) == after

Settled(before, after, touched) ==
    LET moves == {c \in touched \cap Defined(before) \cap Defined(after) :
                    before.defs[c].rev = after.defs[c].rev}
    IN  [after EXCEPT !.defs = [c \in Component |-> IF c \in moves
                                                    THEN [after.defs[c] EXCEPT !.rev = @ + 1]
                                                    ELSE after.defs[c]]]

Outcome(d, r) ==
    [ok |-> r.ok, doc |-> IF r.ok THEN Settled(d, r.doc, r.touched) ELSE d, inverse |-> r.inverse]

Applied(d, cmds) == Outcome(d, Folded(d, cmds))

-----------------------------------------------------------------------------
Init ==
    /\ doc \in InitialDocuments
    /\ undo = [h \in Host |-> <<>>]
    /\ redo = [h \in Host |-> <<>>]
    /\ minted = DocumentIds(doc)
    /\ named = Defined(doc)

(* The ids of new nodes are drawn at random; here the least unused ones,    *)
(* which is the same up to renaming.  Fresh(i) is the i-th of them.         *)
Enough(k) == Cardinality(Id \ minted) >= k

Fresh(i) == CHOOSE n \in Id \ minted : Cardinality({m \in Id \ minted : m < n}) = i - 1

(* New ids for the members of ids, in their order, after the first skip.    *)
FreshFor(ids, skip) ==
    [n \in Id |-> IF n \in ids THEN Fresh(skip + Cardinality({m \in ids : m <= n})) ELSE n]

Minting(k) == minted' = minted \cup {Fresh(i) : i \in 1 .. k}

Naming(c) == named' = named \cup {c}

Bounded(d) == \A c \in Defined(d) : d.defs[c].rev <= MaxRevision

(* The document becomes the one applyCommand returned, unless it threw.     *)
Commits(r) == r.ok /\ Bounded(r.doc) /\ doc' = r.doc

(* A host applies a command or a batch: all of it, or it throws.            *)
Record(h, r) ==
    /\ Commits(r)
    /\ undo' = [undo EXCEPT ![h] = <<r.inverse>> \o @]
    /\ redo' = [redo EXCEPT ![h] = <<>>]

Submit(h, cmds) ==
    /\ \A i \in DOMAIN cmds : cmds[i].type \in Offered
    /\ Len(undo[h]) + Len(redo[h]) < MaxHistory
    /\ Record(h, Applied(doc, cmds))

NodeCreate(h) ==
    \E p \in Places(doc) :
        /\ Enough(1)
        /\ Submit(h, <<[type |-> "node.create", place |-> p, id |-> Fresh(1), under |-> Top(doc, p),
                       nodes |-> {PlainNode(Fresh(1), Top(doc, p), "absent")}]>>)
        /\ Minting(1) /\ UNCHANGED named

NodeDelete(h) ==
    \E p \in Places(doc) : \E id \in IdsOf(Tree(doc, p)) :
        /\ Submit(h, <<[type |-> "node.delete", place |-> p, id |-> id]>>)
        /\ UNCHANGED <<minted, named>>

NodeLock(h) ==
    \E p \in Places(doc) : \E id \in IdsOf(Tree(doc, p)) : \E lock \in {"false", "true"} :
        /\ Submit(h, <<[type |-> "node.update", place |-> p, id |-> id, key |-> "locked", to |-> lock]>>)
        /\ UNCHANGED <<minted, named>>

(* component.create in restore mode, of a definition the host brings: one   *)
(* with new ids, which may hold an instance of a Source that is there or of *)
(* itself, or a copy of one that is there.  A host that brings an instance  *)
(* of a Source that is missing is accepted by the code and left out here.   *)
NewDefinition(used) ==
    LET root == PlainNode(Fresh(1), 0, "absent")
        child == [PlainNode(Fresh(2), Fresh(1), "absent") EXCEPT !.of = used]
    IN  [name |-> "Component", rev |-> 1, root |-> root.id, tree |-> {root, child}, props |-> <<>>]

ComponentCreate(h) ==
    \E c \in Component \ named :
        /\ Enough(2)
        /\ \E def \in {NewDefinition(used) : used \in Defined(doc) \cup {c, Plain}}
                      \cup {doc.defs[x] : x \in Defined(doc)} :
              Submit(h, <<[type |-> "component.create", component |-> c, definition |-> def]>>)
        /\ Minting(2) /\ Naming(c)

ComponentExtract(h) ==
    \E c \in Component \ named : \E p \in Places(doc) :
    \E ids \in (SUBSET IdsOf(Tree(doc, p))) \ {{}} : \E reuse \in BOOLEAN :
        LET old == UNION {IdsOf(Below(Tree(doc, p), id)) : id \in ids}
            count == 2 + Cardinality(old)
        IN  /\ Enough(count)
            /\ Submit(h, <<[type |-> "component.extract", place |-> p, ids |-> ids, component |-> c,
                           root |-> Fresh(1), instance |-> Fresh(2), fresh |-> FreshFor(old, 2),
                           reuse |-> reuse]>>)
            /\ Minting(count) /\ Naming(c)

ComponentDuplicate(h) ==
    \E c \in Defined(doc) : \E copy \in Component \ named :
        LET old == IdsOf(Tree(doc, c))
        IN  /\ Enough(Cardinality(old))
            /\ Submit(h, <<[type |-> "component.duplicate", component |-> c, copy |-> copy,
                           fresh |-> FreshFor(old, 0)]>>)
            /\ Minting(Cardinality(old)) /\ Naming(copy)

ComponentDelete(h) ==
    \E c \in Defined(doc) :
        /\ Submit(h, <<[type |-> "component.delete", component |-> c]>>)
        /\ UNCHANGED <<minted, named>>

Renaming(c, name) == [type |-> "component.rename", component |-> c, to |-> name, rev |-> 0]

ComponentRename(h) ==
    \E c \in Defined(doc) : \E name \in {"Card", "Hero"} :
        /\ Submit(h, <<Renaming(c, name)>>)
        /\ UNCHANGED <<minted, named>>

Exposing(c, b, at) ==
    [type |-> "component.add-property", component |-> c, binding |-> b, at |-> at, rev |-> 0]

AddProperty(h) ==
    \E c \in Defined(doc) : \E b \in [id : Property, node : IdsOf(Tree(doc, c))] :
    \E at \in 1 .. Len(doc.defs[c].props) + 1 :
        /\ Submit(h, <<Exposing(c, b, at)>>)
        /\ UNCHANGED <<minted, named>>

UpdateProperty(h) ==
    \E c \in Defined(doc) : \E b \in [id : Property, node : IdsOf(Tree(doc, c))] :
        /\ Submit(h, <<[type |-> "component.update-property", component |-> c, binding |-> b, rev |-> 0]>>)
        /\ UNCHANGED <<minted, named>>

RemoveProperty(h) ==
    \E c \in Defined(doc) : \E p \in Property :
        /\ Submit(h, <<[type |-> "component.remove-property", component |-> c, property |-> p, rev |-> 0]>>)
        /\ UNCHANGED <<minted, named>>

InstanceInsert(h) ==
    \E pair \in Nestings :
        /\ Enough(1)
        /\ pair[2] \in Places(doc)
        /\ Submit(h, <<[type |-> "component-instance.insert", component |-> pair[1], place |-> pair[2],
                       instance |-> Fresh(1)]>>)
        /\ Minting(1) /\ UNCHANGED named

SetOverride(h) ==
    \E p \in Places(doc) : \E id \in IdsOf(Tree(doc, p)) : \E q \in Property : \E v \in Value :
        /\ Submit(h, <<[type |-> "component-instance.set-override", place |-> p, id |-> id,
                       property |-> q, value |-> v]>>)
        /\ UNCHANGED <<minted, named>>

ResetOverride(h) ==
    \E p \in Places(doc) : \E id \in IdsOf(Tree(doc, p)) : \E q \in Property :
        /\ Submit(h, <<[type |-> "component-instance.reset-override", place |-> p, id |-> id, property |-> q]>>)
        /\ UNCHANGED <<minted, named>>

ResetAllOverrides(h) ==
    \E p \in Places(doc) : \E id \in IdsOf(Tree(doc, p)) :
        /\ Submit(h, <<[type |-> "component-instance.reset-all-overrides", place |-> p, id |-> id]>>)
        /\ UNCHANGED <<minted, named>>

Detaching(p, id, skip) ==
    LET count == Cardinality(Inside(doc, The(doc, p, id).of))
    IN  [type |-> "component-instance.detach", place |-> p, id |-> id,
         fresh |-> [i \in 1 .. count |-> Fresh(skip + i)]]

InstanceDetach(h) ==
    \E p \in Places(doc) : \E id \in {n.id : n \in {m \in Tree(doc, p) : m.of # Plain}} :
        LET count == Cardinality(Inside(doc, The(doc, p, id).of))
        IN  /\ Enough(count)
            /\ Submit(h, <<Detaching(p, id, 0)>>)
            /\ Minting(count) /\ UNCHANGED named

(* component-ops: every instance of c detached, those in Sources first, and *)
(* c deleted, as one batch.                                                 *)
DetachAllAndDelete(h) ==
    \E c \in Defined(doc) :
        LET inSources == SetToSeq({r \in References(doc, c) : r[1] \in Component})
            onPages == SetToSeq({r \in References(doc, c) : r[1] \in Page})
            refs == inSources \o onPages
            each == Cardinality(Inside(doc, c))
        IN  /\ "batch" \in Offered
            /\ Enough(each * Len(refs))
            /\ Submit(h, [i \in DOMAIN refs |-> Detaching(refs[i][1], refs[i][2].id, each * (i - 1))]
                         \o <<[type |-> "component.delete", component |-> c]>>)
            /\ Minting(each * Len(refs)) /\ UNCHANGED named

(* A batch with two commands that manage the same revision.                 *)
RenameAndExpose(h) ==
    \E c \in Defined(doc) : \E b \in [id : Property, node : IdsOf(Tree(doc, c))] :
        /\ "batch" \in Offered
        /\ Submit(h, <<Renaming(c, "Card"), Exposing(c, b, 1)>>)
        /\ UNCHANGED <<minted, named>>

MoveBack(h, r) ==
    /\ Commits(r)
    /\ undo' = [undo EXCEPT ![h] = Tail(@)]
    /\ redo' = [redo EXCEPT ![h] = <<r.inverse>> \o @]

MoveForth(h, r) ==
    /\ Commits(r)
    /\ redo' = [redo EXCEPT ![h] = Tail(@)]
    /\ undo' = [undo EXCEPT ![h] = <<r.inverse>> \o @]

Undo(h) ==
    /\ undo[h] # <<>>
    /\ MoveBack(h, Applied(doc, Head(undo[h])))
    /\ UNCHANGED <<minted, named>>

Redo(h) ==
    /\ redo[h] # <<>>
    /\ MoveForth(h, Applied(doc, Head(redo[h])))
    /\ UNCHANGED <<minted, named>>

Next ==
    \E h \in Host :
        \/ NodeCreate(h) \/ NodeDelete(h) \/ NodeLock(h)
        \/ ComponentCreate(h) \/ ComponentExtract(h) \/ ComponentDuplicate(h) \/ ComponentDelete(h)
        \/ ComponentRename(h) \/ AddProperty(h) \/ UpdateProperty(h) \/ RemoveProperty(h)
        \/ InstanceInsert(h) \/ SetOverride(h) \/ ResetOverride(h) \/ ResetAllOverrides(h)
        \/ InstanceDetach(h) \/ DetachAllAndDelete(h) \/ RenameAndExpose(h)
        \/ Undo(h) \/ Redo(h)

Spec == Init /\ [][Next]_vars

-----------------------------------------------------------------------------
(* Every reachable document is a document: a Source holds its root, exposes *)
(* a property once, and stays below the caps.                               *)
TypeOK ==
    /\ \A p \in Page : doc.page[p] \subseteq Node
    /\ \A c \in Defined(doc) :
          LET def == doc.defs[c]
          IN  /\ def.rev \in Nat /\ def.tree \subseteq Node /\ def.root \in IdsOf(def.tree)
              /\ \A i \in DOMAIN def.props : def.props[i] \in Binding
              /\ Cardinality(Exposed(def)) = Len(def.props) /\ Len(def.props) <= MaxProperties
    /\ Cardinality(Defined(doc)) <= MaxDefinitions

(* INV-2: a node id occurs once in the whole document, on pages and in      *)
(* Sources, whatever is copied, extracted, detached, deleted and brought    *)
(* back.                                                                    *)
UniqueIds ==
    \A p, q \in Places(doc) : \A m \in Tree(doc, p), n \in Tree(doc, q) :
        m.id = n.id => p = q /\ m = n

(* LC-DELETE: no step leaves an instance without its definition, neither a  *)
(* deletion nor an undo that brings an instance back.                       *)
NoDangling == \A p \in Places(doc) : \A n \in Tree(doc, p) : n.of # Plain => n.of \in Defined(doc)

(* LC-GRAPH: no definition embeds itself.                                   *)
GraphAcyclic == ~Cyclic(doc)

PushedUndo(h) == Len(undo'[h]) > Len(undo[h])
Acted(h) == PushedUndo(h) \/ Len(redo'[h]) > Len(redo[h])
Pushed(h) == IF PushedUndo(h) THEN Head(undo'[h]) ELSE Head(redo'[h])

Unversioned(d) ==
    [d EXCEPT !.defs = [c \in Component |-> IF c \in Defined(d) THEN [@[c] EXCEPT !.rev = 0] ELSE @[c]]]

(* A binding whose node was deleted from the Source can be removed or       *)
(* retargeted, and that cannot be undone: add-property and update-property  *)
(* refuse a target that is not there.                                       *)
Unbindable(d, cmds) ==
    \E i \in DOMAIN cmds : /\ cmds[i].type \in {"component.add-property", "component.update-property"}
                           /\ cmds[i].component \in Defined(d)
                           /\ ~Bindable(d.defs[cmds[i].component], cmds[i].binding)

(* The inverse a step returned applies and leads back to the document the   *)
(* step found, so that a host that edits alone can undo and redo all it     *)
(* did.  An inverse of registry commands restores the revision too; one     *)
(* that edits a Source tree moves it once more.                             *)
InverseExact ==
    [][\A h \in Host : Acted(h) /\ ~Unbindable(doc', Pushed(h)) =>
         LET back == Applied(doc', Pushed(h))
         IN  /\ back.ok
             /\ Unversioned(back.doc) = Unversioned(doc)
             /\ (\A i \in DOMAIN Pushed(h) : ManagesRevision(Pushed(h)[i])) => back.doc = doc]_vars

(* LC-PROPAGATE: whatever a step does to a definition, by which command or  *)
(* undo it may be, its revision is not what it was.                         *)
RevisionMoves ==
    [][\A c \in Defined(doc) \cap Defined(doc)' :
         doc'.defs[c] # doc.defs[c] => doc'.defs[c].rev # doc.defs[c].rev]_vars

(* One command or batch increments the revision exactly once.               *)
RevisionOnce ==
    [][\A c \in Defined(doc) \cap Defined(doc)' : doc'.defs[c].rev <= doc.defs[c].rev + 1]_vars

(* Under enforceLocked an override of a property that is bound to a locked  *)
(* Source node does not change.                                             *)
ReadOnlyOverrides ==
    [][\A p \in Places(doc) : \A m \in Tree(doc, p), n \in Tree(doc, p)' :
         m.id = n.id /\ m.of = n.of /\ m.of # Plain
         => \A q \in Property : ReadOnly(doc, m.of, q) => m.over[q] = n.over[q]]_vars

=============================================================================
