---------------------------- MODULE ResolutionCache ----------------------------
(***************************************************************************)
(* The session cache of expanded component instances (components/cache.ts, *)
(* components/resolve.ts) under resolveCanvasDocument                      *)
(* (layout/resolve-document.ts), while Sources are edited and undone,      *)
(* and instances are moved and overridden.                                 *)
(*                                                                         *)
(* The body of a Source is a root and the sequence of its children, each a *)
(* leaf or an instance of another Source: deeper trees add nothing to the  *)
(* order in which an expansion is paid for.                                *)
(***************************************************************************)
EXTENDS Integers, FiniteSets, SequencesExt

CONSTANTS Component,    \* local Sources, which can be edited
          Library,      \* library components, which cannot
          Binding,      \* what the properties of a Source are bound to
          BodiesOf,     \* BodiesOf[s]: the bodies Source s may have, no cycles
          Page,         \* the pages of the document
          Instance,     \* the component instances on its pages
          Paint,        \* all instances, page after page and in paint order
          PageOf,       \* PageOf[i]: the page instance i is on
          SourceOf,     \* SourceOf[i]: the Source of instance i
          Position,     \* transforms and bounds of an instance
          Value,        \* override maps
          MaxDepth,     \* options.maxComponentDepth
          Hosts,        \* the ways of using the library that are looked at
          MaxRevision,  \* BOUND: revision of a Source
          MaxUndo       \* BOUND: entries on the undo stack

Source == Component \cup Library

Edits == {"edit", "rebind", "undo", "move", "override"}

(* A host: whether it passes options.componentCache, calls                  *)
(* invalidateComponent after a Source edit, and passes options.previous and *)
(* dirtyPageIds; its options.maxExpandedNodes; the edits it makes.          *)
HostOptions == [session : BOOLEAN, invalidating : BOOLEAN, incremental : BOOLEAN,
                budget : Nat, offered : SUBSET Edits]

(* A node id is on one page, in one place of its paint order.               *)
ASSUME CacheAssumption ==
    /\ Component \cap Library = {}
    /\ \A s \in Source : BodiesOf[s] # {} /\ \A b \in BodiesOf[s] : b \in Seq(Range(b))
    /\ Binding # {} /\ Position # {} /\ Value # {}
    /\ Paint \in Seq(Instance) /\ IsInjective(Paint) /\ Range(Paint) = Instance
    /\ PageOf \in [Instance -> Page] /\ SourceOf \in [Instance -> Source]
    /\ {MaxDepth, MaxRevision, MaxUndo} \subseteq Nat
    /\ Hosts \subseteq HostOptions

VARIABLES host,      \* the host that edits the document
          doc,       \* doc.registry[c]: the definition of Source c;
                     \* doc.node[i]: what the document says of instance i
          cache,     \* the instance layer: results by composite key
          shown,     \* shown[i]: the expansion in the resolved document
          dirty,     \* pages whose resolved tree may differ from the one shown
          undo       \* inverses of the Source edits, newest first

vars == <<host, doc, cache, shown, dirty, undo>>

-----------------------------------------------------------------------------
(* Expansion. *)

Body(d, s) == IF s \in Library THEN CHOOSE b \in BodiesOf[s] : TRUE ELSE d.registry[s].body

(* getDefinition in a document pass: resolveCanvasDocument hands            *)
(* resolveComponentInstance no snapshot index, so no library component is   *)
(* found, stored in the document or not.                                    *)
Found(s) == s \in Component

Nested(d, s) == Range(Body(d, s)) \cap Source

(* The nodes of an expansion one level further out: node n of its host is   *)
(* on the way to each of them.                                              *)
Within(n, nodes) == [j \in DOMAIN nodes |-> [at |-> <<n>> \o nodes[j].at, is |-> nodes[j].is]]

(* The nodes a full expansion pays for, in order; a nested instance is paid *)
(* for as a node of its host and again as the root of its Source, which     *)
(* takes over its virtual id.                                               *)
Child(d, s, below, n) ==
    LET is == Body(d, s)[n]
    IN  <<[at |-> <<n>>, is |-> is]>> \o (IF Found(is) THEN Within(n, below[is]) ELSE <<>>)

Level(d, below) ==
    [s \in Component |-> <<[at |-> <<>>, is |-> d.registry[s].bound]>>
                        \o FlattenSeq([n \in DOMAIN Body(d, s) |-> Child(d, s, below, n)])]

Walk(d, source) ==
    LET upTo[k \in 0 .. MaxDepth] ==
            IF k = 0 THEN [s \in Component |-> <<>>] ELSE Level(d, upTo[k - 1])
    IN  IF Found(source) THEN upTo[MaxDepth][source] ELSE <<>>

(* resolveComponentInstance without a cache, for an instance with the given *)
(* place and overrides, in a budget: no nodes stand for the instance        *)
(* itself, the placeholder.  An issue is reported when nodes are left out   *)
(* or a nested instance is a placeholder.                                   *)
Expansion(d, source, node, budget) ==
    LET all == Walk(d, source)
        paid == IF Len(all) <= budget THEN all ELSE SubSeq(all, 1, budget)
        alone == {n \in Range(paid) : n.is \in Source /\ \A m \in Range(paid) : m.at = n.at => m = n}
    IN  [nodes |-> paid, at |-> node.at, over |-> node.over,
         issue |-> paid # all \/ paid = <<>> \/ alone # {}]

Placeholder(result) == result.nodes = <<>>

(* origins.size                                                             *)
Count(result) == Cardinality({n.at : n \in Range(result.nodes)})

(* computeDependencyRevisionHash: the local Sources below s.                *)
LocalCone(d, s) ==
    LET Closed == {S \in SUBSET Component :
                     \A x \in S \cup {s} : Nested(d, x) \cap Component \subseteq S}
    IN  {x \in Component : \A S \in Closed : x \in S}

(* The local Sources an expansion of s is made from.                        *)
Parts(d, s) == ({s} \cup LocalCone(d, s)) \cap Component

(* composeCacheKey                                                          *)
Key(d, i) == [instance |-> i, source |-> SourceOf[i], over |-> d.node[i].over,
              revisions |-> {<<x, d.registry[x].rev>> : x \in Parts(d, SourceOf[i])}]

With(cached, key, result) ==
    [k \in DOMAIN cached \cup {key} |-> IF k = key THEN result ELSE cached[k]]

(* One instance of a document pass: from the cache when its key is there,   *)
(* or else expanded with what is left of the budget.                        *)
Resolve_OwnBudget(d, budget, acc, i) ==
    LET key == Key(d, i)
        hit == key \in DOMAIN acc.cache
        result == IF hit THEN acc.cache[key] ELSE Expansion(d, SourceOf[i], d.node[i], budget)
    IN  [expanded |-> acc.expanded + Count(result),
         shown |-> [acc.shown EXCEPT ![i] = result],
         cache |-> IF hit \/ Placeholder(result) THEN acc.cache ELSE With(acc.cache, key, result)]

Resolve(d, budget, acc, i) ==
    LET key == Key(d, i)
        hit == key \in DOMAIN acc.cache
        left == IF acc.expanded < budget THEN budget - acc.expanded ELSE 0
        result == IF hit THEN acc.cache[key] ELSE Expansion(d, SourceOf[i], d.node[i], left)
    IN  [expanded |-> acc.expanded + Count(result),
         shown |-> [acc.shown EXCEPT ![i] = result],
         cache |-> IF hit \/ Placeholder(result) THEN acc.cache ELSE With(acc.cache, key, result)]

EmptyCache == [k \in {} |-> k]

(* The pass over some of the pages; the others stay as they are shown.      *)
Pass(d, budget, pages, before, cached) ==
    LET after[k \in 0 .. Len(Paint)] ==
            IF k = 0 THEN [expanded |-> 0, shown |-> before, cache |-> cached]
            ELSE IF PageOf[Paint[k]] \in pages THEN Resolve(d, budget, after[k - 1], Paint[k])
            ELSE after[k - 1]
    IN  after[Len(Paint)]

-----------------------------------------------------------------------------
Init ==
    /\ host \in Hosts
    /\ doc = [registry |-> [c \in Component |-> [rev |-> 1, body |-> CHOOSE b \in BodiesOf[c] : TRUE,
                                                 bound |-> CHOOSE b \in Binding : TRUE]],
              node |-> [i \in Instance |-> [at |-> CHOOSE x \in Position : TRUE,
                                            over |-> CHOOSE v \in Value : TRUE]]]
    /\ cache = EmptyCache
    /\ shown = [i \in Instance |-> Expansion(doc, SourceOf[i], doc.node[i], 0)]
    /\ dirty = Page
    /\ undo = <<>>

(* canReuseUndirtyPages: the pages that are not dirty stay as they are      *)
(* shown, if nothing shown has an issue.                                    *)
Reuse == host.incremental /\ \A i \in Instance : ~shown[i].issue

ResolveDocument ==
    /\ dirty # {}
    /\ LET pass == Pass(doc, host.budget, IF Reuse THEN dirty ELSE Page, shown, cache)
       IN  shown' = pass.shown /\ cache' = IF host.session THEN pass.cache ELSE EmptyCache
    /\ dirty' = {}
    /\ UNCHANGED <<host, doc, undo>>

Embedding(c) == {i \in Instance : c \in Parts(doc, SourceOf[i])}

(* collectDependents                                                        *)
Dependents_Self(c) == {c}

Dependents(c) == {x \in Component : c \in Parts(doc, x)}

(* invalidateComponent                                                      *)
Invalidated(c) == [k \in {k \in DOMAIN cache : k.source \notin Dependents(c)} |-> cache[k]]

(* A step that replaces the definition of Source c.                         *)
Rewrite(c, def) ==
    /\ def.rev <= MaxRevision
    /\ doc' = [doc EXCEPT !.registry[c] = def]
    /\ dirty' = dirty \cup {PageOf[i] : i \in Embedding(c)}
    /\ cache' = IF host.invalidating THEN Invalidated(c) ELSE cache
    /\ UNCHANGED <<host, shown>>

Remember(c, rev) ==
    /\ Len(undo) < MaxUndo
    /\ LET old == doc.registry[c]
       IN  undo' = <<[component |-> c, body |-> old.body, bound |-> old.bound, rev |-> rev]>> \o undo

(* A node command on the tree of a Source: its undo is another one, and     *)
(* settleComponentRevisions moves the revision both times.                  *)
EditBody(c) ==
    /\ "edit" \in host.offered
    /\ \E b \in BodiesOf[c] \ {doc.registry[c].body} :
          Rewrite(c, [doc.registry[c] EXCEPT !.body = b, !.rev = @ + 1])
    /\ Remember(c, 0)

(* component.update-property: its undo writes the former revision.          *)
Rebind(c) ==
    /\ "rebind" \in host.offered
    /\ \E b \in Binding \ {doc.registry[c].bound} :
          Rewrite(c, [doc.registry[c] EXCEPT !.bound = b, !.rev = @ + 1])
    /\ Remember(c, doc.registry[c].rev)

UndoEdit ==
    /\ "undo" \in host.offered
    /\ undo # <<>>
    /\ LET last == Head(undo)
           c == last.component
       IN  Rewrite(c, [body |-> last.body, bound |-> last.bound,
                       rev |-> IF last.rev = 0 THEN doc.registry[c].rev + 1 ELSE last.rev])
    /\ undo' = Tail(undo)

(* node.move, node.resize and the like on an instance.                      *)
Move(i) ==
    /\ "move" \in host.offered
    /\ \E x \in Position \ {doc.node[i].at} : doc' = [doc EXCEPT !.node[i].at = x]
    /\ dirty' = dirty \cup {PageOf[i]}
    /\ UNCHANGED <<host, cache, shown, undo>>

Override(i) ==
    /\ "override" \in host.offered
    /\ \E v \in Value \ {doc.node[i].over} : doc' = [doc EXCEPT !.node[i].over = v]
    /\ dirty' = dirty \cup {PageOf[i]}
    /\ UNCHANGED <<host, cache, shown, undo>>

Next ==
    \/ ResolveDocument
    \/ \E c \in Component : EditBody(c) \/ Rebind(c)
    \/ UndoEdit
    \/ \E i \in Instance : Move(i) \/ Override(i)

Spec == Init /\ [][Next]_vars

-----------------------------------------------------------------------------
(* Definitions, results and inverses are what the code makes them.          *)
Definition == [rev : Nat, body : UNION {BodiesOf[c] : c \in Component}, bound : Binding]

Document ==
    {d \in [registry : [Component -> Definition], node : [Instance -> [at : Position, over : Value]]] :
        \A c \in Component : d.registry[c].body \in BodiesOf[c]}

Retraction ==
    {u \in [component : Component, body : UNION {BodiesOf[c] : c \in Component},
            bound : Binding, rev : Nat] : u.body \in BodiesOf[u.component]}

TypeOK ==
    /\ host \in Hosts
    /\ doc \in Document
    /\ \A k \in DOMAIN cache : ~Placeholder(cache[k]) /\ cache[k].over = k.over
    /\ shown = [i \in Instance |-> shown[i]]
    /\ dirty \subseteq Page
    /\ undo \in Seq(Retraction)

(* The cache only saves work: a resolved document is the one an empty cache *)
(* would have led to.                                                       *)
Uncached == Pass(doc, host.budget, Page, shown, EmptyCache)

Transparent == dirty = {} => shown = Uncached.shown

(* An instance is shown with nodes missing only if they would be missing    *)
(* without the cache too.                                                   *)
DegradedForCause == dirty = {} => \A i \in Instance : shown[i].issue => Uncached.shown[i].issue

(* The budget is that of the whole document: no resolved document has more  *)
(* expanded nodes.                                                          *)
BudgetKept ==
    LET expanded[k \in 0 .. Len(Paint)] ==
            IF k = 0 THEN 0 ELSE expanded[k - 1] + Count(shown[Paint[k]])
    IN  dirty = {} => expanded[Len(Paint)] <= host.budget

(* An instance of a library component is shown expanded: the document       *)
(* stores the snapshot of each.                                             *)
LibraryShown ==
    dirty = {} => \A i \in Instance : SourceOf[i] \in Library => ~Placeholder(shown[i])

=============================================================================
