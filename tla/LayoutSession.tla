---------------------------- MODULE LayoutSession ----------------------------
(***************************************************************************)
(* An editor that resolves its document after edits, from nothing, from    *)
(* the warm state of the previous resolution, or only where it says the    *)
(* document is dirty; component instances are expanded before the layout.  *)
(* A page is known by the id of its root.                                  *)
(***************************************************************************)
EXTENDS LayoutEngine

CONSTANTS Plan,        \* the document to start with, and what its editor may change
          Virtual,     \* instance -> id of the node it expands to
          Unstamped,   \* no materialization stamp
          Modes,       \* ways to resolve: cold, warm, incremental
          Closure,     \* what the editor calls dirty: family, ancestors
          MaxEdits,    \* bound: edits in a behaviour
          MaxPasses    \* bound: resolutions in a behaviour

VARIABLES doc,         \* nodes, pages (roots in order) and stamp
          source,      \* the width of the component's definition
          fonts,       \* the metric of the measurement provider
          resolved,    \* the last resolution
          cache,       \* its warm state
          warmed,      \* a warm pass without hints came after the last cold one
          recalled,    \* an incremental pass since the last full one met a node moved back
          dirtyNodes, dirtyPages,  \* what was edited since
          edits, passes

vars == <<doc, source, fonts, resolved, cache, warmed, recalled, dirtyNodes, dirtyPages, edits, passes>>

Nothing == [present |-> FALSE, nodes |-> EmptyMap, records |-> EmptyMap, roots |-> {},
            issues |-> <<>>, truncated |-> 0]
NoCache == [placed |-> EmptyMap, fonts |-> NoFonts]

Restricted(f, S) == [i \in DOMAIN f \cap S |-> f[i]]
Under(nodes, roots) == UNION {Subtree(nodes, r) : r \in roots}

-----------------------------------------------------------------------------
(* The layout pass over an expanded document.                              *)

computeInputHash(nodes, pages, f) == [nodes |-> nodes, pages |-> pages, fonts |-> f]

RECURSIVE emitRecords(_, _)
emitRecords(placed, parents) ==
    FoldLeft(LAMBDA records, p : emitRecords(p, Append(parents, placed.id)) @@ records,
             placed.id :> [node |-> placed.node, path |-> parents, bounds |-> placed.bounds,
                           pose |-> placed.pose, at |-> placed.at,
                           kids |-> [k \in DOMAIN placed.children |-> placed.children[k].id]],
             placed.children)

RECURSIVE RecordSubtree(_, _)
RecordSubtree(records, id) ==
    IF id \notin DOMAIN records THEN {}
    ELSE {id} \union UNION {RecordSubtree(records, k) : k \in ToSet(records[id].kids)}

(* Issues of a node no edit touched outlive the pass that does not visit it. *)
Retained_OfDirty(previous, order, dirty) ==
    {i \in ToSet(previous.issues) : i.node \in ToSet(order) \cap dirty}
Retained(previous, order, dirty) ==
    {i \in ToSet(previous.issues) : i.node \in ToSet(order) \ dirty}

(* opt is what the caller passes: the previous resolution and the dirty sets. *)
Incremental(opt) == opt.hinted /\ opt.previous.present /\ opt.previous.truncated = 0

Warm_AnyFonts(opt, f) == opt.cache.placed
Warm(opt, f) == IF opt.cache.fonts = f THEN opt.cache.placed ELSE EmptyMap

Visited(opt, pages) ==
    IF ~Incremental(opt) THEN pages
    ELSE SelectSeq(pages, LAMBDA p : p \in opt.pages \/ p \notin opt.previous.roots)

Dropped(records, roots) ==
    Restricted(records, DOMAIN records \ UNION {RecordSubtree(records, r) : r \in roots})

(* The records of the pages that are gone are dropped first. *)
KeptRecords(opt, pages) ==
    IF Incremental(opt) THEN Dropped(opt.previous.records, opt.previous.roots \ ToSet(pages)) ELSE EmptyMap

(* Then page by page what is listed under the page's old root is dropped, be it
   old or of a page before, and the records of the page are added. *)
Replaced(opt, records, placed) ==
    emitRecords(placed, <<>>)
      @@ Dropped(records, IF Incremental(opt) THEN {placed.id} \cap opt.previous.roots ELSE {})

EmittedRecords(opt, pages, placed) ==
    FoldLeft(LAMBDA records, p : Replaced(opt, records, p), KeptRecords(opt, pages), placed)

StaleStamp(stamp, hash) ==
    IF stamp \in {Unstamped, hash} THEN {} ELSE {Issue("materialization-stale", Unset, Unset, 0)}

Start(nodes, next, issues) ==
    [sizings |-> [id \in DOMAIN nodes |-> 0], last |-> EmptyMap, issues |-> issues,
     reported |-> {}, next |-> next, measured |-> {}]

Diagnosed(opt, order, issues) ==
    orderLayoutIssues(issues \union (IF Incremental(opt) THEN Retained(opt.previous, order, opt.nodes) ELSE {}), order)

Resolution(nodes, pages, records, ordered) ==
    [present |-> TRUE, nodes |-> nodes, records |-> records, roots |-> ToSet(pages),
     issues |-> SubSeq(ordered, 1, Min({Len(ordered), MaxDiagnostics})),
     truncated |-> AtLeast0(Len(ordered) - MaxDiagnostics)]

Emitted(nodes, pages, f, opt, pass) ==
    [resolved |-> Resolution(nodes, pages, EmittedRecords(opt, pages, pass.placed),
                      Diagnosed(opt, buildDocumentOrder(nodes, pages),
                                validateLayoutInvariants(nodes) \union pass.st.issues)),
     cache |-> [placed |-> pass.st.next, fonts |-> f]]

resolveCanvasLayout(nodes, pages, stamp, f, opt) ==
    Emitted(nodes, pages, f, opt,
            ResolveFree([nodes |-> nodes, demoted |-> buildSizingGraph(nodes), placed |-> Warm(opt, f),
                         dirty |-> opt.nodes, fonts |-> f],
                        Visited(opt, pages), 0,
                        Start(nodes, IF Incremental(opt) THEN Warm(opt, f) ELSE EmptyMap,
                              StaleStamp(stamp, computeInputHash(nodes, pages, f)))))

-----------------------------------------------------------------------------
(* The composed pass: instances first, then the layout.                    *)

(* An instance stands for a group around a copy of its definition's root. *)
Expanded(nodes, width) ==
    LET instances == {id \in DOMAIN nodes : nodes[id].kind = "instance"}
        copy == [kind |-> "rect", kids |-> <<>>, bounds |-> Extents(width, 2), at |-> Extents(0, 0),
                 scale |-> Extents(1, 1), turned |-> FALSE, auto |-> NoLayout, absolute |-> FALSE,
                 sizing |-> Extents("fixed", "fixed"), length |-> 0, paint |-> 1]
    IN [id \in instances |-> [nodes[id] EXCEPT !.kind = "group", !.kids = <<Virtual[id]>>]]
         @@ [v \in {Virtual[id] : id \in instances} |-> copy] @@ nodes

resolveCanvasDocument(d, width, f, opt) ==
    LET reused == IF ~opt.hinted \/ ~opt.previous.present THEN {}
                  ELSE (ToSet(d.pages) \cap opt.previous.roots) \ opt.pages
        fresh == Restricted(d.nodes, Under(d.nodes, ToSet(d.pages) \ reused))
        old == Restricted(opt.previous.nodes, Under(opt.previous.nodes, reused))
        expansions == {Virtual[id] : id \in opt.nodes \cap DOMAIN Virtual}
    IN resolveCanvasLayout(Expanded(fresh, width) @@ old, d.pages, d.stamp, f,
                           [opt EXCEPT !.nodes = @ \union expansions])

NoHints == [previous |-> Nothing, cache |-> NoCache, hinted |-> FALSE, nodes |-> {}, pages |-> {}]
Cold == resolveCanvasDocument(doc, source, fonts, NoHints).resolved

-----------------------------------------------------------------------------
(* Writing a resolution back into the document.                            *)

writeGeometry_KeepsScale(nodes, records, stripped) ==
    [id \in DOMAIN nodes |->
        LET n == nodes[id]
            placed == IF id \notin DOMAIN records THEN n
                      ELSE [n EXCEPT !.bounds = records[id].bounds, !.at = records[id].at]
        IN IF ~stripped THEN placed
           ELSE [placed EXCEPT !.auto = NoLayout, !.absolute = FALSE, !.sizing = Extents("fixed", "fixed")]]

writeGeometry(nodes, records, stripped) ==
    [id \in DOMAIN nodes |->
        LET n == nodes[id]
            placed == IF id \notin DOMAIN records THEN n
                      ELSE [n EXCEPT !.bounds = records[id].bounds, !.at = records[id].at,
                                     !.scale = records[id].pose.scale]
        IN IF ~stripped THEN placed
           ELSE [placed EXCEPT !.auto = NoLayout, !.absolute = FALSE, !.sizing = Extents("fixed", "fixed")]]

materializeCanvasLayout(d, records, f) ==
    LET written == writeGeometry(d.nodes, records, FALSE) IN
    [d EXCEPT !.nodes = written, !.stamp = computeInputHash(written, d.pages, f)]

flattenCanvasLayout(d, records) ==
    [d EXCEPT !.nodes = writeGeometry(@, records, TRUE), !.stamp = Unstamped]

-----------------------------------------------------------------------------
Init ==
    /\ doc = Plan.doc
    /\ source = Plan.source
    /\ fonts = Plan.fonts
    /\ resolved = Nothing
    /\ cache = NoCache
    /\ warmed = FALSE /\ recalled = FALSE
    /\ dirtyNodes = {} /\ dirtyPages = {}
    /\ edits = 0 /\ passes = 0

PageOf(nodes, id) == ToSet(doc.pages) \cap ({id} \union Ancestors(nodes, id))

(* The editor's conservative closure: the node, the ancestors that may size
   themselves from it, the children it sizes, and the siblings it shares its
   parent's space with. *)
Siblings(nodes, id) == UNION {ToSet(nodes[p].kids) : p \in ParentsOf(nodes, id)}

DirtyAround(nodes, id) ==
    {id} \union Ancestors(nodes, id)
         \union IF Closure = "family" THEN ToSet(nodes[id].kids) \union Siblings(nodes, id) ELSE {}

Marked(nodes, ids) ==
    /\ dirtyNodes' = dirtyNodes \union UNION {DirtyAround(nodes, id) : id \in ids}
    /\ dirtyPages' = dirtyPages \union UNION {PageOf(nodes, id) : id \in ids}

Edit ==
    /\ resolved.present
    /\ edits < MaxEdits
    /\ edits' = edits + 1
    /\ UNCHANGED <<resolved, cache, warmed, recalled, passes>>

Rewrite(id, n) ==
    /\ Edit
    /\ n # doc.nodes[id]
    /\ doc' = [doc EXCEPT !.nodes[id] = n]
    /\ Marked(doc.nodes, {id})
    /\ UNCHANGED <<source, fonts>>

SetBounds(id) ==
    \E width \in Plan.widths : Rewrite(id, [doc.nodes[id] EXCEPT !.bounds[Horizontal] = width])

Paint(id) ==
    \E colour \in {1, 2} : Rewrite(id, [doc.nodes[id] EXCEPT !.paint = colour])

SetSizing(id) ==
    \E mode \in {"fixed", "hug", "fill"} : Rewrite(id, [doc.nodes[id] EXCEPT !.sizing[Horizontal] = mode])

SetLayout(id) ==
    \E layout \in Plan.layouts : Rewrite(id, [doc.nodes[id] EXCEPT !.auto = layout])

(* To the end of another container. *)
Move(id) ==
    \E to \in (Plan.targets \cap DOMAIN doc.nodes) \ ParentsOf(doc.nodes, id) :
        LET from == CHOOSE p \in ParentsOf(doc.nodes, id) : TRUE
            moved == [doc.nodes EXCEPT ![from].kids = SelectSeq(@, LAMBDA k : k # id), ![to].kids = Append(@, id)]
        IN /\ Edit
           /\ to \notin Subtree(doc.nodes, id)
           /\ doc' = [doc EXCEPT !.nodes = moved]
           /\ dirtyNodes' = dirtyNodes \union DirtyAround(doc.nodes, id) \union DirtyAround(moved, id)
                               \union DirtyAround(doc.nodes, from) \union DirtyAround(moved, to)
           /\ dirtyPages' = dirtyPages \union PageOf(doc.nodes, id) \union PageOf(moved, id)
           /\ UNCHANGED <<source, fonts>>

DeletePage(p) ==
    /\ Edit
    /\ Len(doc.pages) > 1
    /\ doc' = [doc EXCEPT !.pages = SelectSeq(@, LAMBDA q : q # p),
                          !.nodes = Restricted(@, DOMAIN @ \ Subtree(@, p))]
    /\ dirtyPages' = dirtyPages \union {p}
    /\ UNCHANGED <<source, fonts, dirtyNodes>>

(* An edit of the Main marks the instances of it, a font load the texts. *)
EditSource ==
    /\ Edit
    /\ source' \in Plan.sources \ {source}
    /\ Marked(doc.nodes, {id \in DOMAIN doc.nodes : doc.nodes[id].kind = "instance"})
    /\ UNCHANGED <<doc, fonts>>

LoadFonts ==
    /\ Edit
    /\ fonts' \in Plan.metrics \ {fonts}
    /\ Marked(doc.nodes, {id \in DOMAIN doc.nodes : doc.nodes[id].kind = "text"})
    /\ UNCHANGED <<doc, source>>

Pass(opt) ==
    /\ passes < MaxPasses
    /\ passes' = passes + 1
    /\ \E r \in {resolveCanvasDocument(doc, source, fonts, opt)} : resolved' = r.resolved /\ cache' = r.cache
    /\ dirtyNodes' = {} /\ dirtyPages' = {}
    /\ UNCHANGED <<doc, source, fonts, edits>>

ResolveCold == "cold" \in Modes /\ Pass(NoHints) /\ warmed' = FALSE /\ recalled' = FALSE

ResolveWarm ==
    /\ "warm" \in Modes
    /\ resolved.present
    /\ Pass([NoHints EXCEPT !.previous = resolved, !.cache = cache])
    /\ warmed' = TRUE /\ recalled' = FALSE

(* A node of a page that the last resolution has on a page after it. *)
MovedBack ==
    \E i, j \in DOMAIN doc.pages :
        i < j /\ Subtree(doc.nodes, doc.pages[i]) \cap Subtree(resolved.nodes, doc.pages[j]) # {}

ResolveIncrementally ==
    /\ "incremental" \in Modes
    /\ resolved.present
    /\ \E opt \in {[previous |-> resolved, cache |-> cache, hinted |-> TRUE,
                     nodes |-> dirtyNodes, pages |-> dirtyPages]} :
          /\ Pass(opt)
          /\ recalled' = (Incremental(opt) /\ (recalled \/ MovedBack))
    /\ UNCHANGED warmed

Current == resolved.present /\ dirtyNodes = {} /\ dirtyPages = {}

(* The save writes what is shown; all of the document is new afterwards. *)
Materialize ==
    LET written == materializeCanvasLayout(doc, resolved.records, fonts) IN
    /\ Edit
    /\ Current
    /\ written # doc
    /\ doc' = written
    /\ dirtyNodes' = DOMAIN doc.nodes
    /\ dirtyPages' = ToSet(doc.pages)
    /\ UNCHANGED <<source, fonts>>

Next ==
    \/ \E id \in Plan.resizable \cap DOMAIN doc.nodes : SetBounds(id)
    \/ \E id \in Plan.paintable \cap DOMAIN doc.nodes : Paint(id)
    \/ \E id \in Plan.sizable \cap DOMAIN doc.nodes : SetSizing(id)
    \/ \E id \in Plan.frames \cap DOMAIN doc.nodes : SetLayout(id)
    \/ \E id \in Plan.movable \cap DOMAIN doc.nodes : Move(id)
    \/ \E p \in Plan.deletable \cap ToSet(doc.pages) : DeletePage(p)
    \/ EditSource \/ LoadFonts \/ Materialize
    \/ ResolveCold \/ ResolveWarm \/ ResolveIncrementally

Spec == Init /\ [][Next]_vars

-----------------------------------------------------------------------------
Geometry(r) == [id \in DOMAIN r.records |-> [r.records[id] EXCEPT !.node = 0]]
Content(r) == [id \in DOMAIN r.records |-> r.records[id].node]

(* What an editor shows after any sequence of edits and resolutions is where a
   resolution from nothing puts every node: the warm state, the records kept for
   clean pages and the reused expansions are an optimisation and no semantics.
   Left out is what follows an incremental pass over a node that was moved to an
   earlier page: RecordsComplete says what is lost then. *)
Transparent == Current /\ ~recalled => Geometry(resolved) = Geometry(Cold)

(* The nodes its records carry to the renderer are the nodes of the document,
   as long as every pass after a cold one is told what is dirty, and none of
   them met a node that was moved to an earlier page. *)
ContentFresh == Current /\ ~warmed /\ ~recalled => Content(resolved) = Content(Cold)

(* Every node that a resolution from nothing places has a record. The code does
   not keep this: the pages are resolved in order, and what an incremental pass
   has recorded for a node that came from a later page is deleted with the old
   subtree of that page. *)
RecordsComplete == Current => DOMAIN Cold.records \subseteq DOMAIN resolved.records

(* A container that lacks space, or a text that could not be measured, is never
   lost from the diagnostics by the pages and nodes a pass does not visit. *)
NothingUnreported ==
    Current /\ ~warmed /\ resolved.truncated = 0 => ToSet(Cold.issues) \subseteq ToSet(resolved.issues)

(* Writing the geometry back and resolving again moves nothing, and a document
   without instances does not call the fresh stamp stale. *)
MaterializeSettles ==
    Current =>
    LET written == materializeCanvasLayout(doc, Cold.records, fonts)
        again == resolveCanvasDocument(written, source, fonts, NoHints).resolved
    IN /\ Geometry(again) = Geometry(Cold)
       /\ (\A id \in DOMAIN doc.nodes : doc.nodes[id].kind # "instance")
            => Unset \notin {i.node : i \in ToSet(again.issues)}

(* The flattened document renders as the one it was made from. *)
FlattenRendersTheSame ==
    Current =>
    Geometry(resolveCanvasDocument(flattenCanvasLayout(doc, Cold.records), source, fonts, NoHints).resolved)
        = Geometry(Cold)

=============================================================================
