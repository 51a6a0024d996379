--------------------------- MODULE DocumentImport ---------------------------
(***************************************************************************)
(* How content enters a document: admission budgets and migrations         *)
(* (src/ir/document-budget.ts, migrations.ts, validators.ts), clipboard    *)
(* payloads (src/clipboard/payload.ts), templates and size variants        *)
(* (src/templates/), with the whole-document checks they are held to       *)
(* (src/ir/invariants.ts, capabilities.ts, src/components/validate.ts).    *)
(*                                                                         *)
(* A tree is the sequence of its nodes in pre-order, each with its depth.  *)
(* Ids are numbers, 0 standing for no asset; a source is <<>>, or a kind   *)
(* and an id.  A text is its length.                                       *)
(***************************************************************************)
EXTENDS Integers, FiniteSets, SequencesExt

CONSTANTS Policy,           \* nodes, depth, children, assets, components, characters, expanded, pages
          MaxDefinitions,   \* definitions one Registry holds
          MaxSnapshots,     \* external snapshots one document holds
          MaxSourceNodes,   \* nodes of one definition
          MaxNesting,       \* definitions on a chain of nested ones
          MaxClipboardNodes,
          CurrentVersion, Missing,
          KnownCapabilities \* what this build can paste

ASSUME ImportAssumption ==
    /\ \A limit \in DOMAIN Policy : Policy[limit] \in Nat
    /\ {MaxDefinitions, MaxSnapshots, MaxSourceNodes, MaxNesting, MaxClipboardNodes} \subseteq Nat
    /\ Missing \notin Int

Layout == "layout.auto.v1"
LocalComponents == "components.local.v1"
ExternalComponents == "components.external.v1"

(* The literals the records below are made of are strings: said for the    *)
(* provers, whose encodings do not know it.                                 *)
ASSUME LiteralsAreStrings == {"1", "2", "3", Layout, LocalComponents, ExternalComponents} \subseteq STRING

NoMap == [x \in {} |-> 0]
Over(f, g) == [x \in DOMAIN f \cup DOMAIN g |-> IF x \in DOMAIN f THEN f[x] ELSE g[x]]
Entry(key, value) == [x \in {key} |-> value]
Ascending(S) == CHOOSE s \in [1..Cardinality(S) -> S] : \A i, j \in DOMAIN s : i < j => s[i] < s[j]

-----------------------------------------------------------------------------
(* Trees and documents.                                                     *)

NodeRecord == [id : Int, depth : Int, kind : STRING, asset : Int, mask : Int,
               source : {<<>>} \cup ({"local", "external"} \X Int), text : Int, flows : BOOLEAN, bounds : Int]
NodeTree == Seq(NodeRecord) \ {<<>>}
PageRecord == [id : Int, size : Int, variant : Int, nodes : NodeTree]
DefinitionRecord == [id : Int, nodes : NodeTree, binds : SUBSET Int]
SnapshotRecord == [key : Int, ref : {"local", "external"} \X Int, nodes : NodeTree]
AssetRecord == [id : Int, uri : STRING]

IsMap(f, V) == f \in [DOMAIN f -> V] /\ DOMAIN f \subseteq Int /\ IsFiniteSet(DOMAIN f)

IsDocument(d) ==
    /\ d \in [id : Int, version : STRING, pages : Seq(PageRecord), components : {d.components},
              snapshots : Seq(SnapshotRecord), assets : {d.assets}, capabilities : SUBSET STRING]
    /\ IsMap(d.components, DefinitionRecord)
    /\ IsMap(d.assets, AssetRecord)

IsPayload(payload) ==
    /\ payload \in [version : Int, wellFormed : BOOLEAN, document : Int \cup {Missing}, nodes : NodeTree,
                    assets : {payload.assets}, capabilities : SUBSET STRING]
    /\ IsMap(payload.assets, AssetRecord)

IsTemplate(template) ==
    /\ template \in [doc : {template.doc}, slots : {template.slots}, variables : {template.variables},
                     locked : SUBSET Int]
    /\ IsDocument(template.doc)
    /\ IsMap(template.slots, [node : Int, kind : STRING])
    /\ IsMap(template.variables, [slot : Int, default : Int \cup {Missing}, required : BOOLEAN])

IsInstance(n) == n.source # <<>>
IsLocal(n) == IsInstance(n) /\ n.source[1] = "local"

Ends(nodes, i) == {j \in i + 1..Len(nodes) : nodes[j].depth <= nodes[i].depth} \cup {Len(nodes) + 1}

(* The node at i and everything below it, its own depth taken as 0. *)
Subtree(nodes, i) ==
    LET last == CHOOSE j \in Ends(nodes, i) : \A k \in Ends(nodes, i) : j <= k
    IN  [k \in 1..last - i |-> [nodes[i + k - 1] EXCEPT !.depth = @ - nodes[i].depth]]

Width(nodes, i) == Len(SelectSeq(Subtree(nodes, i), LAMBDA n : n.depth = 1))

PageTrees(d) == [p \in 1..Len(d.pages) |-> d.pages[p].nodes]
SourceTrees(d) == [c \in 1..Cardinality(DOMAIN d.components) |-> d.components[Ascending(DOMAIN d.components)[c]].nodes]
SnapshotTrees(d) == [s \in 1..Len(d.snapshots) |-> d.snapshots[s].nodes]

walk(d) == FlattenSeq(PageTrees(d))
walkDocument(d) == FlattenSeq(PageTrees(d) \o SourceTrees(d))

Sources(nodes) == LET uses == SelectSeq(nodes, IsInstance) IN [i \in DOMAIN uses |-> uses[i].source]

assetIdsReferencedByNode(n) == {n.asset, n.mask} \ {0}
AssetsUsed(nodes) == UNION {assetIdsReferencedByNode(n) : n \in Range(nodes)}

localRefs(nodes) == {n.source[2] : n \in {m \in Range(nodes) : IsLocal(m)}}

-----------------------------------------------------------------------------
(* The admission budget.                                                    *)

cappedAdd(current, amount, limit) ==
    IF current > limit \/ amount > limit - current THEN limit + 1 ELSE current + amount

CappedSum(terms, limit) == FoldLeft(LAMBDA sum, term : cappedAdd(sum, term, limit), 0, terms)

LeastOf(a, b) == IF a < b THEN a ELSE b
MostOf(S) == IF S = {} THEN 0 ELSE CHOOSE m \in S : \A n \in S : n <= m

measureJson(d) ==
    FoldLeft(LAMBDA sum, n : cappedAdd(sum, n.text, Policy.characters), 0,
             FlattenSeq(PageTrees(d) \o SourceTrees(d) \o SnapshotTrees(d)))

(* Nodes below the depth ceiling are not entered, and at most one more than *)
(* the node ceiling is.                                                     *)
Entered(nodes) ==
    LET within == SelectSeq(nodes, LAMBDA n : n.depth <= Policy.depth)
    IN  SubSeq(within, 1, LeastOf(Len(within), Policy.nodes + 1))

inspectTree(nodes) ==
    [own   |-> Len(Entered(nodes)),
     depth |-> LeastOf(MostOf({n.depth : n \in Range(nodes)}), Policy.depth + 1),
     width |-> MostOf({Width(nodes, i) : i \in {j \in DOMAIN nodes : nodes[j].depth <= Policy.depth}}),
     refs  |-> Sources(Entered(nodes))]

inspectDefinitions(d) ==
    FoldLeft(LAMBDA defs, c : Over(Entry(<<"local", c>>, inspectTree(d.components[c].nodes)), defs),
             FoldLeft(LAMBDA defs, s : Over(Entry(s.ref, inspectTree(s.nodes)), defs), NoMap, d.snapshots),
             Ascending(DOMAIN d.components))

(* Sizes of the definitions that n rounds of the queue reach, a definition *)
(* after everything it refers to.                                          *)
CappedTotal(refs, sizes, start) ==
    FoldLeft(LAMBDA sum, ref : IF ref \in DOMAIN sizes THEN cappedAdd(sum, sizes[ref], Policy.expanded) ELSE sum,
             start, refs)

ExpandedSizes(defs) ==
    LET Ready(sizes) == {k \in DOMAIN defs \ DOMAIN sizes :
                           Range(defs[k].refs) \cap DOMAIN defs \subseteq DOMAIN sizes}
        Size(k, sizes) == CappedTotal(defs[k].refs, sizes, LeastOf(defs[k].own, Policy.expanded + 1))
        Round[n \in 0..Cardinality(DOMAIN defs)] ==
            IF n = 0 THEN NoMap
            ELSE LET sizes == Round[n - 1] IN Over(sizes, [k \in Ready(sizes) |-> Size(k, sizes)])
    IN  Round[Cardinality(DOMAIN defs)]

(* As if a definition named a nested one once, however often it does. *)
calculateExpandedNodes_Deduped(defs, refs) ==
    LET once == [k \in DOMAIN defs |-> [defs[k] EXCEPT !.refs = SetToSeq(Range(@))]]
        sizes == ExpandedSizes(once)
    IN  IF DOMAIN sizes # DOMAIN defs THEN Policy.expanded + 1
        ELSE CappedTotal(refs, sizes, 0)

calculateExpandedNodes(defs, refs) ==
    LET sizes == ExpandedSizes(defs)
    IN  IF DOMAIN sizes # DOMAIN defs THEN Policy.expanded + 1
        ELSE CappedTotal(refs, sizes, 0)

(* The codes of what a candidate exceeds.  trees: every page, Source and    *)
(* snapshot tree; an empty set admits it.                                   *)
BudgetIssues(d, defs, trees) ==
    LET Seen(field) == {inspectTree(trees[t])[field] : t \in DOMAIN trees}
        pages == FlattenSeq([p \in DOMAIN d.pages |-> inspectTree(d.pages[p].nodes).refs])
        nodes == CappedSum([t \in DOMAIN trees |-> Len(Entered(trees[t]))], Policy.nodes)
        Exceeds == [pages |-> Len(d.pages), nodes |-> nodes, depth |-> MostOf(Seen("depth")),
                    children |-> MostOf(Seen("width")), assets |-> Cardinality(DOMAIN d.assets),
                    components |-> Cardinality(DOMAIN d.components) + Len(d.snapshots),
                    characters |-> measureJson(d), expanded |-> calculateExpandedNodes(defs, pages)]
    IN  {limit \in DOMAIN Exceeds : Exceeds[limit] > Policy[limit]}
        \cup (IF DOMAIN ExpandedSizes(defs) # DOMAIN defs THEN {"cycle"} ELSE {})

assertCanvasDocumentBudget(d) ==
    BudgetIssues(d, inspectDefinitions(d), PageTrees(d) \o SourceTrees(d) \o SnapshotTrees(d)) = {}

(* The schema's own rules: a page, a group at each root, keys that name     *)
(* what they hold, and the Registries' limits.                              *)
CanvasComponentRegistrySchema(components) ==
    /\ Cardinality(DOMAIN components) <= MaxDefinitions
    /\ \A c \in DOMAIN components : components[c].id = c /\ Len(components[c].nodes) <= MaxSourceNodes

CanvasExternalComponentSnapshotRegistrySchema(snapshots) ==
    /\ Len(snapshots) <= MaxSnapshots
    /\ \A s \in Range(snapshots) : s.key = s.ref[2]

CanvasIRSchema(d) ==
    /\ d.version = CurrentVersion
    /\ d.pages # <<>>
    /\ \A p \in Range(d.pages) : p.nodes[1].kind = "group"
    /\ CanvasComponentRegistrySchema(d.components)
    /\ CanvasExternalComponentSnapshotRegistrySchema(d.snapshots)

-----------------------------------------------------------------------------
(* Whole-document checks.                                                   *)

Repeated(list) == {list[i] : i \in {j \in DOMAIN list : \E k \in DOMAIN list : k # j /\ list[k] = list[j]}}

(* Errors as pairs of a code and what it is about. *)
validateCanvasIRInvariants(d) ==
    LET nodes == walkDocument(d)
    IN  {<<"duplicate-page-id", id>> : id \in Repeated([p \in DOMAIN d.pages |-> d.pages[p].id])}
        \cup {<<"duplicate-node-id", id>> : id \in Repeated([i \in DOMAIN nodes |-> nodes[i].id])}
        \cup {<<"asset-key-id-mismatch", a>> : a \in {k \in DOMAIN d.assets : d.assets[k].id # k}}
        \cup {<<"dangling-asset-reference", a>> : a \in AssetsUsed(nodes) \ DOMAIN d.assets}
        \cup (IF (\E n \in Range(nodes) : n.flows) /\ Layout \notin d.capabilities
              THEN {<<"missing-required-capability", 0>>} ELSE {})

computeRequiredCapabilities(d) ==
    LET sources == {n.source[1] : n \in {m \in Range(walkDocument(d)) : IsInstance(m)}}
    IN  d.capabilities
        \cup (IF DOMAIN d.components # {} \/ "local" \in sources THEN {LocalComponents} ELSE {})
        \cup (IF d.snapshots # <<>> \/ "external" \in sources THEN {ExternalComponents} ELSE {})
        \cup (IF \E n \in Range(walkDocument(d)) : n.flows THEN {Layout} ELSE {})

withComputedCapabilities(d) == [d EXCEPT !.capabilities = computeRequiredCapabilities(d)]

(* The dependency graph of a Registry: definitions in dependency order, as  *)
(* chain depths; a definition on a cycle, or above one, has none.           *)
dependencies(components) == [c \in DOMAIN components |-> localRefs(components[c].nodes)]

ChainDepths(deps) ==
    LET Above(depths) == {c \in DOMAIN deps \ DOMAIN depths : deps[c] \cap DOMAIN deps \subseteq DOMAIN depths}
        Round[n \in 0..Cardinality(DOMAIN deps)] ==
            IF n = 0 THEN NoMap
            ELSE LET depths == Round[n - 1] IN Over(depths, [c \in Above(depths) |-> n])
    IN  Round[Cardinality(DOMAIN deps)]

(* Sizes as validateComponentGraph predicts them: a definition's nodes and  *)
(* the sizes of the definitions it depends on, each once.                   *)
PredictedSizes(components, deps) ==
    LET Round[n \in 0..Cardinality(DOMAIN deps)] ==
            IF n = 0 THEN NoMap
            ELSE LET sizes == Round[n - 1]
                 IN  Over(sizes, [c \in {x \in DOMAIN deps : ChainDepths(deps)[x] = n} |->
                        FoldLeft(LAMBDA sum, dep : IF dep \in DOMAIN sizes THEN sum + sizes[dep] ELSE sum,
                                 Len(components[c].nodes), SetToSeq(deps[c]))])
    IN  IF DOMAIN ChainDepths(deps) = DOMAIN deps THEN Round[Cardinality(DOMAIN deps)] ELSE NoMap

PredictedTotal(d) ==
    LET sizes == PredictedSizes(d.components, dependencies(d.components))
    IN  FoldLeft(LAMBDA sum, n : IF IsLocal(n) /\ n.source[2] \in DOMAIN sizes THEN sum + sizes[n.source[2]] ELSE sum,
                 0, walkDocument(d))

(* The definitions an error-severity issue of the graph names; Missing for  *)
(* the limit on the whole document.                                         *)
validateComponentGraph(d) ==
    LET deps == dependencies(d.components)
        depths == ChainDepths(deps)
        own == {n.id : n \in Range(FlattenSeq(SourceTrees(d)))}
        twice == Repeated([i \in DOMAIN walkDocument(d) |-> walkDocument(d)[i].id])
    IN  (DOMAIN deps \ DOMAIN depths)
        \cup {c \in DOMAIN depths : depths[c] > MaxNesting}
        \cup {c \in DOMAIN deps : \E b \in d.components[c].binds : b \notin {n.id : n \in Range(d.components[c].nodes)}}
        \cup {c \in DOMAIN deps : \E n \in Range(d.components[c].nodes) : n.id \in twice}
        \cup (localRefs(walkDocument(d)) \ DOMAIN deps)
        \cup (IF PredictedTotal(d) > Policy.expanded THEN {Missing} ELSE {})

-----------------------------------------------------------------------------
(* Fresh ids.  from: how many ids were handed out before.                   *)

regenerateNodeIds(nodes, from) == [i \in DOMAIN nodes |-> [nodes[i] EXCEPT !.id = from + i]]

(* Each old id to the last new one given to a node that had it. *)
IdMap(nodes, from) ==
    [id \in {n.id : n \in Range(nodes)} |-> from + MostOf({i \in DOMAIN nodes : nodes[i].id = id})]

Renamed(n, assets) ==
    [n EXCEPT !.asset = IF @ \in DOMAIN assets THEN assets[@] ELSE @,
              !.mask  = IF @ \in DOMAIN assets THEN assets[@] ELSE @]

-----------------------------------------------------------------------------
(* The clipboard.                                                           *)

validateClipboardPayload(payload) ==
    CASE payload.version # 1 -> "unsupported-version"
      [] ~payload.wellFormed -> "invalid-payload"
      [] \E n \in Range(payload.nodes) : n.depth > Policy.depth -> "excessive-depth"
      [] Len(payload.nodes) > MaxClipboardNodes -> "too-many-nodes"
      [] ~(payload.capabilities \subseteq KnownCapabilities) -> "unsupported-version"
      [] OTHER -> "ok"

(* Payload assets whose key the target has given to something else. *)
Colliding(payload, target) ==
    {k \in DOMAIN payload.assets \cap DOMAIN target.assets : target.assets[k] # payload.assets[k]}

(* As if an entry under the same key were the same asset. *)
materializeClipboardNodes_ByKey(payload, target, from) ==
    LET nodes == regenerateNodeIds(payload.nodes, from)
    IN  [nodes |-> nodes,
         assetsToAdd |-> IF payload.document = target.id THEN NoMap
                         ELSE [k \in DOMAIN payload.assets \ DOMAIN target.assets |-> payload.assets[k]]]

materializeClipboardNodes(payload, target, from) ==
    LET nodes == regenerateNodeIds(payload.nodes, from)
        clash == Ascending(Colliding(payload, target))
        rekeyed == [k \in Range(clash) |-> from + Len(nodes) + MostOf({i \in DOMAIN clash : clash[i] = k})]
        taken == DOMAIN payload.assets \ DOMAIN target.assets
    IN  IF payload.document = target.id THEN [nodes |-> nodes, assetsToAdd |-> NoMap]
        ELSE [nodes |-> [i \in DOMAIN nodes |-> Renamed(nodes[i], rekeyed)],
              assetsToAdd |-> Over([k \in taken |-> payload.assets[k]],
                                   [a \in Range(rekeyed) |->
                                      [payload.assets[CHOOSE k \in DOMAIN rekeyed : rekeyed[k] = a] EXCEPT !.id = a]])]

(* As if only what was selected were looked at. *)
findForeignComponentRefs_Selected(nodes, components) == localRefs(<<nodes[1]>>) \ DOMAIN components

findForeignComponentRefs(nodes, components) == localRefs(nodes) \ DOMAIN components

-----------------------------------------------------------------------------
(* Templates.                                                               *)

resolveTemplateVariables(template, supplied) ==
    [v \in {x \in DOMAIN template.variables : x \in DOMAIN supplied \/ template.variables[x].default # Missing} |->
        IF v \in DOMAIN supplied THEN supplied[v] ELSE template.variables[v].default]

Writes(n, slot) ==
    CASE slot.kind = "text"  -> n.kind \in {"text", "rich-text"}
      [] slot.kind = "image" -> n.kind = "image" \/ (n.kind = "frame" /\ n.asset # 0)
      [] OTHER -> FALSE

applySlotValue(n, slot, value) ==
    CASE Writes(n, slot) /\ slot.kind = "text"  -> [n EXCEPT !.text = value]
      [] Writes(n, slot) /\ slot.kind = "image" -> [n EXCEPT !.asset = value]
      [] OTHER -> n

Retargeted(n, ids) ==
    IF IsLocal(n) /\ n.source[2] \in DOMAIN ids THEN [n EXCEPT !.source = <<"local", ids[n.source[2]]>>] ELSE n

(* Where the fresh ids of a template's parts begin: its pages take the      *)
(* first, then every page tree, the definitions, every Source tree.         *)
FirstId(trees, t, from) == from + FoldLeft(+, 0, [i \in 1..t - 1 |-> Len(trees[i])])

TreeIds(trees, from) ==
    FoldLeft(LAMBDA map, t : Over(IdMap(trees[t], FirstId(trees, t, from)), map), NoMap, [t \in DOMAIN trees |-> t])

(* The template's document under fresh ids.  newId: its definitions' ids,   *)
(* which the factory hands out in no particular order.                      *)
Cloned(d, newId, from) ==
    LET sources == Ascending(DOMAIN d.components)
        roots == Len(d.pages) + from
        below == roots + Len(walk(d)) + Len(sources)
        Tree(nodes, first) == [i \in DOMAIN nodes |-> Retargeted(regenerateNodeIds(nodes, first)[i], newId)]
        Page(page, p) == [page EXCEPT !.id = from + p, !.nodes = Tree(page.nodes, FirstId(PageTrees(d), p, roots))]
        Source(c, first, map) ==
            [id |-> newId[c], nodes |-> Tree(d.components[c].nodes, first),
             binds |-> {IF b \in DOMAIN map THEN map[b] ELSE b : b \in d.components[c].binds}]
        First(c) == FirstId(SourceTrees(d), MostOf({i \in DOMAIN sources : sources[i] = c}), below)
    IN  [d EXCEPT !.id = below + Len(FlattenSeq(SourceTrees(d))) + 1,
                  !.pages = [p \in DOMAIN d.pages |-> Page(d.pages[p], p)],
                  !.components = [c \in Range(newId) |->
                      LET old == CHOOSE x \in DOMAIN newId : newId[x] = c
                      IN  Source(old, First(old), IdMap(d.components[old].nodes, First(old)))]]

(* Every old id of the template, pages and nodes, to its new one. *)
AllIds(d, from) ==
    LET roots == Len(d.pages) + from
        below == roots + Len(walk(d)) + Cardinality(DOMAIN d.components)
    IN  Over(TreeIds(SourceTrees(d), below),
             Over(TreeIds(PageTrees(d), roots),
                  [id \in {p.id : p \in Range(d.pages)} |->
                     from + MostOf({p \in DOMAIN d.pages : d.pages[p].id = id})]))

(* As if the lock were looked up under the new id. *)
Reaching_Unlocked(template, values, ids, pageIds) ==
    {v \in DOMAIN values :
        LET slot == template.variables[v].slot
        IN  /\ slot \in DOMAIN template.slots
            /\ template.slots[slot].node \in DOMAIN ids
            /\ ids[template.slots[slot].node] \notin template.locked
            /\ ids[template.slots[slot].node] \in pageIds}

(* The variables whose slot names a node the clone knows, is not locked,    *)
(* and is on a page.                                                        *)
Reaching(template, values, ids, pageIds) ==
    {v \in DOMAIN values :
        LET slot == template.variables[v].slot
        IN  /\ slot \in DOMAIN template.slots
            /\ template.slots[slot].node \in DOMAIN ids
            /\ ids[template.slots[slot].node] \notin {ids[l] : l \in template.locked \cap DOMAIN ids}
            /\ ids[template.slots[slot].node] \in pageIds}

(* The variables a warning mentions. *)
Warned(template, values, ids, nodes) ==
    {v \in DOMAIN template.variables \ DOMAIN values : template.variables[v].required}
    \cup {v \in DOMAIN values :
            LET slot == template.variables[v].slot
            IN  \/ slot \notin DOMAIN template.slots
                \/ template.slots[slot].node \notin DOMAIN ids
                \/ /\ ids[template.slots[slot].node] \notin {ids[l] : l \in template.locked \cap DOMAIN ids}
                   /\ \E n \in nodes : n.id = ids[template.slots[slot].node] /\ ~Writes(n, template.slots[slot])}

(* variables: in the template's order, each writing over the last. *)
Filled(n, template, values, ids, variables) ==
    FoldLeft(LAMBDA m, v : IF m.id = ids[template.slots[template.variables[v].slot].node]
                           THEN applySlotValue(m, template.slots[template.variables[v].slot], values[v]) ELSE m,
             n, variables)

Instantiated(template, values, ids, clone) ==
    LET reached == Ascending(Reaching(template, values, ids, {n.id : n \in Range(walk(clone))}))
        tree(nodes) == [i \in DOMAIN nodes |-> Filled(nodes[i], template, values, ids, reached)]
    IN  [clone EXCEPT !.pages = [p \in DOMAIN clone.pages |-> [clone.pages[p] EXCEPT !.nodes = tree(clone.pages[p].nodes)]]]

(* The batch: definitions in the order of their new ids, then the pages. *)
TemplateCommand(d) ==
    [c \in 1..Cardinality(DOMAIN d.components) |-> <<"component.create", d.components[Ascending(DOMAIN d.components)[c]]>>]
    \o [p \in DOMAIN d.pages |-> <<"page.create", d.pages[p]>>]

-----------------------------------------------------------------------------
(* Size variants: one page for each preset.                                 *)

resizeToVariants_SharedTree(page, presets, from) ==
    [v \in DOMAIN presets |->
        [id |-> from + (v - 1) * (Len(page.nodes) + 1) + Len(page.nodes) + 1, size |-> presets[v],
         variant |-> page.id, nodes |-> [regenerateNodeIds(page.nodes, from) EXCEPT ![1].bounds = presets[v]]]]

resizeToVariants(page, presets, from) ==
    [v \in DOMAIN presets |->
        LET first == from + (v - 1) * (Len(page.nodes) + 1)
        IN  [id |-> first + Len(page.nodes) + 1, size |-> presets[v], variant |-> page.id,
             nodes |-> [regenerateNodeIds(page.nodes, first) EXCEPT ![1].bounds = presets[v]]]]

-----------------------------------------------------------------------------
(* The commands an import issues, and their inverses.                       *)

(* The registry guard on a definition that arrives. *)
assertRegistryAddable(d, definition) ==
    LET all == Over(Entry(definition.id, definition), d.components)
        depths == ChainDepths(dependencies(all))
    IN  /\ definition.id \notin DOMAIN d.components
        /\ Cardinality(DOMAIN d.components) < MaxDefinitions
        /\ \A n \in Range(definition.nodes) : n.id \notin {m.id : m \in Range(walkDocument(d))}
        /\ DOMAIN depths = DOMAIN all
        /\ \A c \in DOMAIN depths : depths[c] <= MaxNesting

Allowed(d, command) ==
    CASE command[1] = "component.create" -> assertRegistryAddable(d, command[2])
      [] command[1] = "component.delete" ->
            command[2] \in DOMAIN d.components /\ command[2] \notin localRefs(walkDocument(d))
      [] command[1] = "page.create" -> command[2].id \notin {p.id : p \in Range(d.pages)}
      [] command[1] = "page.delete" -> \E p \in Range(d.pages) : p.id = command[2] /\ Len(d.pages) > 1

PagesBut(pages, id) == FoldLeft(LAMBDA kept, p : IF p.id = id THEN kept ELSE Append(kept, p), <<>>, pages)

Carried(d, command) ==
    CASE command[1] = "component.create" -> [d EXCEPT !.components = Over(Entry(command[2].id, command[2]), @)]
      [] command[1] = "component.delete" -> [d EXCEPT !.components = [c \in DOMAIN @ \ {command[2]} |-> @[c]]]
      [] command[1] = "page.create" -> [d EXCEPT !.pages = Append(@, command[2])]
      [] command[1] = "page.delete" -> [d EXCEPT !.pages = PagesBut(@, command[2])]

InverseOf(command) ==
    IF command[1] = "component.create" THEN <<"component.delete", command[2].id>> ELSE <<"page.delete", command[2].id>>

(* A batch is applied whole, or its first refused command throws: Missing. *)
applyBatch(d, commands) ==
    FoldLeft(LAMBDA doc, command : IF doc # Missing /\ Allowed(doc, command) THEN Carried(doc, command) ELSE Missing,
             d, commands)

(* As if what came with the pages were left behind. *)
InverseBatch_PagesOnly(commands) ==
    LET pages == SelectSeq(commands, LAMBDA command : command[1] = "page.create")
    IN  Reverse([i \in DOMAIN pages |-> InverseOf(pages[i])])

InverseBatch(commands) == Reverse([i \in DOMAIN commands |-> InverseOf(commands[i])])
=============================================================================
