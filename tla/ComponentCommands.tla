--------------------------- MODULE ComponentCommands ---------------------------
(***************************************************************************)
(* The Component registry and instance commands of                         *)
(* src/commands/runtime.ts: a document with pages and with Component       *)
(* Sources, each Source a tree of its own with a revision and exposed      *)
(* properties, and instances of Sources on pages and inside other Sources. *)
(*                                                                         *)
(* The index of a node among its siblings is what NodeCommands models, so  *)
(* here a tree is the set of its nodes: of a node are kept its id, its     *)
(* parent, the Source it is an instance of, its override map and its lock. *)
(***************************************************************************)
EXTENDS Integers, FiniteSets, SequencesExt

CONSTANTS Page,           \* ids of the pages
          Component,      \* ids of Component definitions
          Property,       \* ids of exposed properties
          Value,          \* override values
          MaxId,          \* BOUND: node ids are 1 .. MaxId
          Plain,          \* "of" for a node that is not an instance
          NoValue,        \* no override under this property
          NoDefinition,   \* registry[componentId] is undefined
          MaxDefinitions, \* MAX_COMPONENT_DEFINITIONS_PER_DOCUMENT
          MaxProperties,  \* MAX_COMPONENT_PROPERTIES_PER_COMPONENT
          MaxOverrides,   \* MAX_COMPONENT_OVERRIDES_PER_INSTANCE
          MaxNesting,     \* MAX_COMPONENT_NESTED_DEPTH
          MaxExpanded     \* MAX_COMPONENT_EXPANDED_NODES_PER_RESOLUTION

ASSUME ComponentAssumption ==
    /\ Page \cap Component = {} /\ IsFiniteSet(Page)
    /\ Plain \notin Component
    /\ NoValue \notin Value
    /\ {MaxId, MaxDefinitions, MaxProperties, MaxOverrides, MaxNesting, MaxExpanded} \subseteq Nat
    /\ MaxNesting > 0

Id == 1 .. MaxId

Place == Page \cup Component

LockState == {"absent", "false", "true"}

Overrides == [Property -> Value \cup {NoValue}]

NoOverrides == [p \in Property |-> NoValue]

(* under is the parent's id, 0 for the root of a Source and for the         *)
(* children of a page root, which is in no tree of the model.               *)
Node == [id : Id, under : Id \cup {0}, of : Component \cup {Plain}, over : Overrides, locked : LockState]

Binding == [id : Property, node : Id]

(* A registry entry: root is the id of the Source's root, one of tree.      *)
Definition == [name : STRING, rev : Nat, root : Id, tree : SUBSET Node, props : Seq(Binding)]

Document == [page : [Page -> SUBSET Node], defs : [Component -> Definition \cup {NoDefinition}]]

-----------------------------------------------------------------------------
(* Reading a document. *)

Defined(d) == {c \in Component : d.defs[c] # NoDefinition}

Places(d) == Page \cup Defined(d)

Tree(d, p) == IF p \in Page THEN d.page[p]
              ELSE IF p \in Defined(d) THEN d.defs[p].tree ELSE {}

(* collectDocumentNodeIds.                                                  *)
IdsOf(nodes) == {n.id : n \in nodes}

DocumentIds(d) == UNION {IdsOf(Tree(d, p)) : p \in Place}

IsRoot(d, p, id) == p \in Defined(d) /\ d.defs[p].root = id

(* The parent a node gets when the command names none.                      *)
Top(d, p) == IF p \in Page THEN 0 ELSE d.defs[p].root

Holds(d, p, id) == id \in IdsOf(Tree(d, p))

The(d, p, id) == CHOOSE n \in Tree(d, p) : n.id = id

Below(tree, id) ==
    LET Closed == {S \in SUBSET IdsOf(tree) :
                     id \in S /\ \A n \in tree : n.under \in S => n.id \in S}
    IN  {n \in tree : \A S \in Closed : n.id \in S}

LockedOut(enforce, d, p, id) == enforce /\ Holds(d, p, id) /\ The(d, p, id).locked = "true"

IsInstance(d, p, id) == Holds(d, p, id) /\ The(d, p, id).of # Plain

Plant(d, p, tree) ==
    IF p \in Page THEN [d EXCEPT !.page[p] = tree] ELSE [d EXCEPT !.defs[p].tree = tree]

Rewrite(d, p, id, node) == Plant(d, p, (Tree(d, p) \ {The(d, p, id)}) \cup {node})

-----------------------------------------------------------------------------
(* The component graph: a Source depends on the Sources nested in its tree. *)

Uses(d, c) == {n.of : n \in Tree(d, c)} \ {Plain}

(* Everything an expansion of c embeds, c left out unless it is in a cycle. *)
Cone(d, c) ==
    LET Closed == {S \in SUBSET Component :
                     Uses(d, c) \subseteq S /\ \A x \in S : Uses(d, x) \subseteq S}
    IN  {x \in Component : \A S \in Closed : x \in S}

Cyclic(d) == \E c \in Defined(d) : c \in Cone(d, c)

(* A chain of nested definitions longer than the cap, starting in C.        *)
LongChain(d, C) ==
    \E s \in [1 .. MaxNesting + 1 -> Defined(d)] :
        s[1] \in C /\ \A i \in 1 .. MaxNesting : s[i + 1] \in Uses(d, s[i])

(* buildComponentReferenceIndex: where instances of c live, on pages and in *)
(* Sources.                                                                 *)
References_PagesOnly(d, c) == {r \in Page \X UNION {Tree(d, q) : q \in Page} :
                                 r[2] \in Tree(d, r[1]) /\ r[2].of = c}

References(d, c) == {r \in Places(d) \X UNION {Tree(d, q) : q \in Places(d)} :
                       r[2] \in Tree(d, r[1]) /\ r[2].of = c}

(* assertRegistryAddable, on the document the definition is about to join.  *)
Addable_AnyIds(d, c, def) ==
    LET with == [d EXCEPT !.defs[c] = def]
    IN  /\ c \notin Defined(d)
        /\ Cardinality(Defined(d)) < MaxDefinitions
        /\ ~Cyclic(with)
        /\ ~LongChain(with, Defined(with))

Addable_AnyGraph(d, c, def) ==
    /\ c \notin Defined(d)
    /\ Cardinality(Defined(d)) < MaxDefinitions
    /\ IdsOf(def.tree) \cap DocumentIds(d) = {}

Addable(d, c, def) ==
    LET with == [d EXCEPT !.defs[c] = def]
    IN  /\ c \notin Defined(d)
        /\ Cardinality(Defined(d)) < MaxDefinitions
        /\ IdsOf(def.tree) \cap DocumentIds(d) = {}
        /\ ~Cyclic(with)
        /\ ~LongChain(with, Defined(with))

(* regenerateNodeIds: the nodes under the new ids that fresh gives them; a  *)
(* parent outside of the nodes is left as it is.                            *)
Remapped(nodes, fresh) ==
    {[n EXCEPT !.id = fresh[n.id], !.under = IF @ \in IdsOf(nodes) THEN fresh[@] ELSE @] : n \in nodes}

-----------------------------------------------------------------------------
(* Expanding an instance of c: the nodes strictly inside it, each as the    *)
(* path of nested instances that leads to it (the virtual id of             *)
(* identity.ts).                                                            *)

Inner(d, c) == {n \in Tree(d, c) : ~IsRoot(d, c, n.id)}

Inside(d, c) ==
    LET upTo[k \in 0 .. MaxNesting] ==
            [x \in Component |->
               IF k = 0 THEN {}
               ELSE {<<n>> : n \in Inner(d, x)}
                    \cup UNION {{<<n>> \o path : path \in upTo[k - 1][n.of]} :
                                 n \in {m \in Inner(d, x) : m.of # Plain}}]
    IN  upTo[MaxNesting][c]

(* The path of a node's parent, <<>> for the expanded instance itself.      *)
ParentPath(d, c, path) ==
    LET n == Last(path)
        host == IF Len(path) = 1 THEN c ELSE path[Len(path) - 1].of
    IN  IF n.under = d.defs[host].root THEN Front(path)
        ELSE Append(Front(path), The(d, host, n.under))

(* What an expansion takes from the budget: a nested instance is paid for   *)
(* twice, as a node of its host and as the root of its Source.              *)
Cost(d, c) == 1 + Cardinality(Inside(d, c))
                + Cardinality({path \in Inside(d, c) : Last(path).of # Plain})

(* resolveComponentInstance leaves no placeholder and reports no error.     *)
Resolvable(d, c) ==
    LET all == {c} \cup Cone(d, c)
    IN  /\ all \subseteq Defined(d)
        /\ \A x \in all : x \notin Cone(d, x)
        /\ ~LongChain(d, {c})
        /\ Cost(d, c) <= MaxExpanded

(* The lock of an expanded instance: its own, or else its Source root's.    *)
ComposedLock(d, n) ==
    IF n.of = Plain \/ n.locked # "absent" THEN n.locked
    ELSE The(d, n.of, d.defs[n.of].root).locked

-----------------------------------------------------------------------------
(* node.create, node.delete and node.update, in the tree of c.place.        *)

(* spliceChild: the parent is the page's root, here 0, or a node of the     *)
(* tree that can have children, which an instance cannot.                   *)
MayHold(d, p, id) ==
    \/ p \in Page /\ id = 0
    \/ Holds(d, p, id) /\ ~IsInstance(d, p, id)

CreateAccepts(enforce, d, c) == c.place \in Places(d) /\ MayHold(d, c.place, c.under)

Created(d, c) == Plant(d, c.place, Tree(d, c.place) \cup c.nodes)

CreateInverse(d, c) == <<[type |-> "node.delete", place |-> c.place, id |-> c.id]>>

DeleteAccepts(enforce, d, c) ==
    /\ Holds(d, c.place, c.id)
    /\ ~IsRoot(d, c.place, c.id)
    /\ ~LockedOut(enforce, d, c.place, c.id)

Deleted(d, c) == Plant(d, c.place, Tree(d, c.place) \ Below(Tree(d, c.place), c.id))

(* The command that brings the subtree of id back.                          *)

Recreate(d, p, id) ==
    [type |-> "node.create", place |-> p, id |-> id, under |-> The(d, p, id).under,
     nodes |-> Below(Tree(d, p), id)]

DeleteInverse(d, c) == <<Recreate(d, c.place, c.id)>>

(* The patch {locked: c.to} or, on an instance, {overrides: c.to}.          *)
UpdateAccepts(enforce, d, c) ==
    /\ Holds(d, c.place, c.id)
    /\ c.key = "overrides" => IsInstance(d, c.place, c.id)
    /\ \/ c.key = "locked" /\ c.to = "false"
       \/ ~LockedOut(enforce, d, c.place, c.id)

Updated(d, c) ==
    LET n == The(d, c.place, c.id)
    IN  Rewrite(d, c.place, c.id, IF c.key = "locked" THEN [n EXCEPT !.locked = c.to]
                                  ELSE [n EXCEPT !.over = c.to])

UpdateInverse(d, c) ==
    LET n == The(d, c.place, c.id)
    IN  <<[c EXCEPT !.to = IF c.key = "locked" THEN n.locked ELSE n.over]>>

-----------------------------------------------------------------------------
(* component.create                                                         *)

RestoreAccepts(enforce, d, c) == Addable(d, c.component, c.definition)

Restored(d, c) == [d EXCEPT !.defs[c.component] = c.definition]

RestoreInverse(d, c) == <<[type |-> "component.delete", component |-> c.component]>>

(* from-selection: the siblings c.ids become a Source and its first         *)
(* instance.  A single container may become the Source's root itself        *)
(* (c.reuse), otherwise a new frame wraps the selection.  c.fresh are the   *)
(* ids regenerateNodeIds draws.                                             *)

Selected(d, c) == UNION {Below(Tree(d, c.place), id) : id \in c.ids}

PlainNode(id, under, lock) ==
    [id |-> id, under |-> under, of |-> Plain, over |-> NoOverrides, locked |-> lock]

InstanceNode(c, under) ==
    [id |-> c.instance, under |-> under, of |-> c.component, over |-> NoOverrides,
     locked |-> "absent"]

SourceTree(d, c) ==
    IF c.reuse
    THEN {[n EXCEPT !.under = IF n.id = c.root THEN 0 ELSE @] :
            n \in Remapped(Selected(d, c), [i \in Id |-> IF i \in c.ids THEN c.root ELSE c.fresh[i]])}
    ELSE {[n EXCEPT !.under = IF @ \in {c.fresh[m.id] : m \in Selected(d, c)} THEN @ ELSE c.root] :
            n \in Remapped(Selected(d, c), c.fresh)}
         \cup {PlainNode(c.root, 0, "absent")}

SourceOf(d, c) ==
    [name |-> "Component", rev |-> 1, root |-> c.root, tree |-> SourceTree(d, c), props |-> <<>>]

Placed(d, c) ==
    LET under == The(d, c.place, CHOOSE id \in c.ids : TRUE).under
    IN  Plant(d, c.place, (Tree(d, c.place) \ Selected(d, c)) \cup {InstanceNode(c, under)})

ExtractAccepts(enforce, d, c) ==
    /\ c.ids # {}
    /\ c.place \in Places(d)
    /\ \A id \in c.ids : /\ Holds(d, c.place, id)
                         /\ ~IsRoot(d, c.place, id)
                         /\ ~LockedOut(enforce, d, c.place, id)
    /\ \A i, j \in c.ids : The(d, c.place, i).under = The(d, c.place, j).under
    /\ c.reuse => \E id \in c.ids : c.ids = {id} /\ Below(Tree(d, c.place), id) # {The(d, c.place, id)}
    /\ {c.instance, c.root} \cap DocumentIds(d) = {}
    /\ Addable(Placed(d, c), c.component, SourceOf(d, c))

Extracted(d, c) == [Placed(d, c) EXCEPT !.defs[c.component] = SourceOf(d, c)]

(* The inverse takes the instance out, brings the nodes back and only then  *)
(* drops the definition, which would be refused while it is referenced.     *)
ExtractInverse_SourceFirst(d, c) ==
    <<[type |-> "component.delete", component |-> c.component],
      [type |-> "node.delete", place |-> c.place, id |-> c.instance]>>
    \o SetToSeq({Recreate(d, c.place, id) : id \in c.ids})

ExtractInverse(d, c) ==
    <<[type |-> "node.delete", place |-> c.place, id |-> c.instance]>>
    \o SetToSeq({Recreate(d, c.place, id) : id \in c.ids})
    \o <<[type |-> "component.delete", component |-> c.component]>>

(* component.duplicate: bindings follow the remapped ids.                   *)

Duplicate(d, c) ==
    LET def == d.defs[c.component]
    IN  [name |-> def.name, rev |-> 1, root |-> c.fresh[def.root],
         tree |-> Remapped(def.tree, c.fresh),
         props |-> [i \in DOMAIN def.props |->
                      IF def.props[i].node \in IdsOf(def.tree)
                      THEN [def.props[i] EXCEPT !.node = c.fresh[@]] ELSE def.props[i]]]

DuplicateAccepts(enforce, d, c) ==
    c.component \in Defined(d) /\ Addable(d, c.copy, Duplicate(d, c))

Duplicated(d, c) == [d EXCEPT !.defs[c.copy] = Duplicate(d, c)]

DuplicateInverse(d, c) == <<[type |-> "component.delete", component |-> c.copy]>>

(* component.delete: refused while anything refers to the definition.       *)

RemoveAccepts(enforce, d, c) == c.component \in Defined(d) /\ References(d, c.component) = {}

Removed(d, c) == [d EXCEPT !.defs[c.component] = NoDefinition]

RemoveInverse(d, c) ==
    <<[type |-> "component.create", component |-> c.component,
       definition |-> d.defs[c.component]]>>

-----------------------------------------------------------------------------
(* The commands that manage a definition's revision themselves: c.rev is    *)
(* the revision to write, 0 when the command carries none; an inverse       *)
(* carries the revision the command found.                                  *)

Versioned(def, c) == [def EXCEPT !.rev = IF c.rev = 0 THEN @ + 1 ELSE c.rev]

RenameAccepts(enforce, d, c) == c.component \in Defined(d)

Renamed(d, c) == [d EXCEPT !.defs[c.component] = [Versioned(@, c) EXCEPT !.name = c.to]]

RenameInverse(d, c) ==
    <<[c EXCEPT !.to = d.defs[c.component].name, !.rev = d.defs[c.component].rev]>>

Exposed(def) == {def.props[i].id : i \in DOMAIN def.props}

IndexOfProperty(def, p) == SelectInSeq(def.props, LAMBDA b : b.id = p)

(* assertPropertyBindable: the target is in the Source tree.                *)
Bindable(def, b) == b.node \in IdsOf(def.tree)

AddPropertyAccepts(enforce, d, c) ==
    LET def == d.defs[c.component]
    IN  /\ c.component \in Defined(d)
        /\ c.binding.id \notin Exposed(def)
        /\ Len(def.props) < MaxProperties
        /\ Bindable(def, c.binding)
        /\ c.at \in 1 .. Len(def.props) + 1

PropertyAdded(d, c) ==
    LET def == Versioned(d.defs[c.component], c)
    IN  [d EXCEPT !.defs[c.component] = [def EXCEPT !.props = InsertAt(@, c.at, c.binding)]]

AddPropertyInverse(d, c) ==
    <<[type |-> "component.remove-property", component |-> c.component,
       property |-> c.binding.id, rev |-> d.defs[c.component].rev]>>

UpdatePropertyAccepts(enforce, d, c) ==
    LET def == d.defs[c.component]
    IN  c.component \in Defined(d) /\ c.binding.id \in Exposed(def) /\ Bindable(def, c.binding)

PropertyUpdated(d, c) ==
    LET def == Versioned(d.defs[c.component], c)
    IN  [d EXCEPT !.defs[c.component] =
            [def EXCEPT !.props[IndexOfProperty(def, c.binding.id)] = c.binding]]

UpdatePropertyInverse(d, c) ==
    LET def == d.defs[c.component]
    IN  <<[c EXCEPT !.binding = def.props[IndexOfProperty(def, c.binding.id)], !.rev = def.rev]>>

RemovePropertyAccepts(enforce, d, c) ==
    c.component \in Defined(d) /\ c.property \in Exposed(d.defs[c.component])

PropertyRemoved(d, c) ==
    LET def == Versioned(d.defs[c.component], c)
    IN  [d EXCEPT !.defs[c.component] = [def EXCEPT !.props = SelectSeq(@, LAMBDA b : b.id # c.property)]]

RemovePropertyInverse_Append(d, c) ==
    LET def == d.defs[c.component]
    IN  <<[type |-> "component.add-property", component |-> c.component,
           binding |-> def.props[IndexOfProperty(def, c.property)],
           at |-> Len(def.props), rev |-> def.rev]>>

RemovePropertyInverse(d, c) ==
    LET def == d.defs[c.component]
        at == IndexOfProperty(def, c.property)
    IN  <<[type |-> "component.add-property", component |-> c.component,
           binding |-> def.props[at], at |-> at, rev |-> def.rev]>>

-----------------------------------------------------------------------------
(* component-instance.*                                                     *)

InsertAccepts(enforce, d, c) ==
    /\ c.component \in Defined(d)
    /\ c.place \in Places(d)
    /\ MayHold(d, c.place, Top(d, c.place))

Inserted(d, c) ==
    Plant(d, c.place, Tree(d, c.place) \cup {InstanceNode(c, Top(d, c.place))})

InsertInverse(d, c) == <<[type |-> "node.delete", place |-> c.place, id |-> c.instance]>>

(* assertPropertyWritable: under enforceLocked a property bound to a locked *)
(* Source node is read-only in every instance.                              *)
ReadOnly(d, c, p) ==
    /\ c \in Defined(d)
    /\ \E i \in DOMAIN d.defs[c].props :
          LET b == d.defs[c].props[i]
          IN  b.id = p /\ Holds(d, c, b.node) /\ The(d, c, b.node).locked = "true"

Overridden(over) == {p \in Property : over[p] # NoValue}

MayOverride_InstanceLock(enforce, d, c, p) ==
    IsInstance(d, c.place, c.id) /\ ~LockedOut(enforce, d, c.place, c.id)

MayOverride(enforce, d, c, p) ==
    /\ IsInstance(d, c.place, c.id)
    /\ ~LockedOut(enforce, d, c.place, c.id)
    /\ enforce => ~ReadOnly(d, The(d, c.place, c.id).of, p)

WithOverrides(d, c, over) ==
    Rewrite(d, c.place, c.id, [The(d, c.place, c.id) EXCEPT !.over = over])

SetOverrideAccepts(enforce, d, c) ==
    /\ MayOverride(enforce, d, c, c.property)
    /\ Cardinality(Overridden(The(d, c.place, c.id).over) \cup {c.property}) <= MaxOverrides

OverrideSet(d, c) ==
    WithOverrides(d, c, [The(d, c.place, c.id).over EXCEPT ![c.property] = c.value])

(* The inverse of setting or resetting an override: the prior entry, or a   *)
(* reset when there was none.                                               *)
PriorOverride(d, c) ==
    LET prior == The(d, c.place, c.id).over[c.property]
    IN  IF prior = NoValue
        THEN <<[type |-> "component-instance.reset-override", place |-> c.place, id |-> c.id,
                property |-> c.property]>>
        ELSE <<[type |-> "component-instance.set-override", place |-> c.place, id |-> c.id,
                property |-> c.property, value |-> prior]>>

ResetOverrideAccepts(enforce, d, c) == MayOverride(enforce, d, c, c.property)

OverrideReset(d, c) ==
    WithOverrides(d, c, [The(d, c.place, c.id).over EXCEPT ![c.property] = NoValue])

(* All or nothing: one read-only override blocks the reset.                 *)
ResetAllAccepts(enforce, d, c) ==
    /\ IsInstance(d, c.place, c.id)
    /\ ~LockedOut(enforce, d, c.place, c.id)
    /\ \A p \in Overridden(The(d, c.place, c.id).over) : MayOverride(enforce, d, c, p)

AllReset(d, c) == WithOverrides(d, c, NoOverrides)

(* On an instance without overrides nothing is done and nothing is to undo. *)
ResetAllInverse(d, c) ==
    LET over == The(d, c.place, c.id).over
    IN  IF over = NoOverrides THEN <<c>>
        ELSE <<[type |-> "node.update", place |-> c.place, id |-> c.id,
                key |-> "overrides", to |-> over]>>

(* detach: the full expansion takes the instance's place, the root under    *)
(* the instance's id, every other node under an id of c.fresh.              *)
Materialized(d, c) ==
    LET n == The(d, c.place, c.id)
        paths == SetToSeq(Inside(d, n.of))
        idOf(path) == IF path = <<>> THEN c.id ELSE c.fresh[SelectInSeq(paths, LAMBDA q : q = path)]
    IN  {PlainNode(c.id, n.under, ComposedLock(d, n))}
        \cup {PlainNode(idOf(path), idOf(ParentPath(d, n.of, path)), ComposedLock(d, Last(path))) :
              path \in Range(paths)}

DetachAccepts(enforce, d, c) ==
    /\ IsInstance(d, c.place, c.id)
    /\ ~LockedOut(enforce, d, c.place, c.id)
    /\ ~IsRoot(d, c.place, c.id)
    /\ Resolvable(d, The(d, c.place, c.id).of)
    /\ IdsOf(Materialized(d, c)) \cap (DocumentIds(d) \ {c.id}) = {}

Detached(d, c) ==
    Plant(d, c.place, (Tree(d, c.place) \ {The(d, c.place, c.id)}) \cup Materialized(d, c))

DetachInverse(d, c) ==
    <<[type |-> "node.delete", place |-> c.place, id |-> c.id], Recreate(d, c.place, c.id)>>

=============================================================================
