--------------------------- MODULE ImportSession ----------------------------
(***************************************************************************)
(* An open document and what is brought into it: clipboard payloads,       *)
(* templates opened or applied, size variants, and documents loaded        *)
(* through the migration chain.  The editor that copies, and that adds     *)
(* what a paste prepared, is not part of src/.                             *)
(***************************************************************************)
EXTENDS DocumentImport

CONSTANTS Documents,     \* documents a session opens with
          Foreign,       \* documents of other sessions, to copy from
          Payloads,      \* payloads other builds put on the clipboard
          Templates,     \* [doc, variables, slots, locked]
          Supplied,      \* values a host supplies for variables
          Presets,       \* sequences of sizes
          Candidates,    \* [doc, seam]: what a host loads, and through which entry point
          Registered,    \* migrations of the extensions: <<from, to, grows>>, in order
          MaxMinted,     \* bound: ids the factory hands out
          MaxPage        \* bound: nodes of a page pasted on

(* An identity is given once: no two nodes of the pages and Sources, and no *)
(* two pages, share an id, and every asset is filed under its own id.  The  *)
(* other errors of the invariants, a missing asset entry and a missing      *)
(* capability, are no part of it: see InvariantsHold.                       *)
Identified(d) ==
    \A issue \in validateCanvasIRInvariants(d) :
        issue[1] \notin {"duplicate-page-id", "duplicate-node-id", "asset-key-id-mismatch"}

(* What the graph check has nothing against, but for the predicted sizes.   *)
Resolved(d) ==
    /\ validateComponentGraph(d) \subseteq {Missing}
    /\ \A c \in DOMAIN d.components : d.components[c].id = c

Sound(d) == IsDocument(d) /\ Identified(d) /\ Resolved(d)

(* What a session starts with was given ids before, and what it is handed   *)
(* is sound, or turned away by the budget.                                  *)
ASSUME SessionAssumption ==
    /\ {MaxMinted, MaxPage} \subseteq Nat
    /\ Registered \in Seq(STRING \X STRING \X BOOLEAN)
    /\ \A d \in Documents :
         /\ Sound(d)
         /\ \A p \in Range(d.pages) : p.id <= 100
         /\ \A n \in Range(walkDocument(d)) : n.id <= 100
    /\ \A d \in Documents \cup Foreign : IsDocument(d) /\ \A a \in DOMAIN d.assets : a <= 100 /\ d.assets[a].id = a
    /\ \A payload \in Payloads :
         IsPayload(payload) /\ \A a \in DOMAIN payload.assets : a <= 100 /\ payload.assets[a].id = a
    /\ \A template \in Templates :
         IsTemplate(template) /\ Sound(template.doc) /\ \A a \in DOMAIN template.doc.assets : a <= 100
    /\ \A values \in Supplied : IsMap(values, Int)
    /\ Presets \subseteq Seq(Int)
    /\ \A candidate \in Candidates :
         /\ IsDocument(candidate.doc) /\ candidate.seam \in {"core", "runtime"}
         /\ Sound(candidate.doc) \/ ~assertCanvasDocumentBudget(candidate.doc)

VARIABLES doc,      \* the open document
          clip,     \* the payload on the clipboard, or Missing
          minted,   \* how many ids the factory handed out
          inverse,  \* what undoes the last batch applied, and to which document, or Missing
          last,     \* what the last import should have brought
          load      \* the load under way, or how the last one ended

vars == <<doc, clip, minted, inverse, last, load>>

Idle == load.phase = "idle"

(* Bounds: a session loads or imports, and fills the clipboard once. *)
Imports == Idle /\ load.outcome = "none"
Fills == Imports /\ clip = Missing

Nothing == [kind |-> "none"]

(* The chain every registry is seeded with, under the extensions' steps. *)
CANVAS_IR_MIGRATIONS == <<<<"1", "2", FALSE>>, <<"2", "3", FALSE>>>>

Steps(list) == FoldLeft(LAMBDA map, m : Over(Entry(m[1], m), map), NoMap, list)

createMigrationRegistry(seam) ==
    Steps(IF seam = "core" THEN CANVAS_IR_MIGRATIONS ELSE CANVAS_IR_MIGRATIONS \o Registered)

-----------------------------------------------------------------------------

Init ==
    /\ doc \in Documents
    /\ clip = Missing
    /\ minted = 100
    /\ inverse = Missing
    /\ last = Nothing
    /\ load = [phase |-> "idle", seam |-> "core", raw |-> doc, seen |-> {}, outcome |-> "none"]

Mint(n) == minted' = minted + n /\ minted + n <= 100 + MaxMinted

(* The editor copies the subtree at i of a page, with the assets it names.  *)
Copy(d, p, i) ==
    LET nodes == Subtree(d.pages[p].nodes, i)
    IN  /\ Fills
        /\ clip' = [version |-> 1, wellFormed |-> TRUE, document |-> d.id, nodes |-> nodes,
                    assets |-> [a \in AssetsUsed(nodes) \cap DOMAIN d.assets |-> d.assets[a]],
                    capabilities |-> IF \E n \in Range(nodes) : n.flows THEN {Layout} ELSE {}]
        /\ UNCHANGED <<doc, minted, inverse, last, load>>

Receive(payload) == Fills /\ clip' = payload /\ UNCHANGED <<doc, minted, inverse, last, load>>

(* The editor adds what materializeClipboardNodes prepared below a page's   *)
(* root, having cancelled a paste whose Sources the document lacks.         *)
Paste(p) ==
    LET prepared == materializeClipboardNodes(clip, doc, minted)
        under(n) == [n EXCEPT !.depth = @ + 1]
        foreign == clip.document # doc.id
    IN  /\ Imports /\ clip # Missing
        /\ validateClipboardPayload(clip) = "ok"
        /\ findForeignComponentRefs(clip.nodes, doc.components) = {}
        /\ Len(doc.pages[p].nodes) + Len(clip.nodes) <= MaxPage
        /\ Mint(Len(clip.nodes) + Cardinality(DOMAIN prepared.assetsToAdd))
        /\ doc' = [doc EXCEPT !.pages[p].nodes = @ \o [i \in DOMAIN prepared.nodes |-> under(prepared.nodes[i])],
                              !.assets = Over(prepared.assetsToAdd, @)]
        /\ last' = [kind |-> "paste", page |-> p, of |-> Len(doc.pages[p].nodes),
                    wanted |-> [i \in DOMAIN clip.nodes |->
                                  IF foreign /\ clip.nodes[i].asset \in DOMAIN clip.assets
                                  THEN clip.assets[clip.nodes[i].asset].uri ELSE Missing]]
        /\ inverse' = Missing
        /\ UNCHANGED <<clip, load>>

(* newId: the template's definitions to the ids the factory gives them. *)
Instantiates(template, newId) ==
    LET from == minted + Len(template.doc.pages) + Len(walk(template.doc))
    IN  /\ assertCanvasDocumentBudget(template.doc)
        /\ newId \in [DOMAIN template.doc.components ->
                        from + 1..from + Cardinality(DOMAIN template.doc.components)]
        /\ \A c, e \in DOMAIN newId : newId[c] = newId[e] => c = e
        /\ Mint(Len(template.doc.pages) + Len(walkDocument(template.doc)) + Cardinality(DOMAIN newId) + 1)

Orders(template) ==
    [DOMAIN template.doc.components ->
        minted + Len(template.doc.pages) + Len(walk(template.doc)) + 1
          ..minted + Len(template.doc.pages) + Len(walk(template.doc)) + Cardinality(DOMAIN template.doc.components)]

instantiateTemplate(template, values, ids, newId) ==
    Instantiated(template, resolveTemplateVariables(template, values), ids, Cloned(template.doc, newId, minted))

LastTemplate(template, values, ids, result) ==
    [kind |-> "template", template |-> template, values |-> resolveTemplateVariables(template, values), ids |-> ids,
     document |-> result]

(* The result's document is opened in place of the one there was. *)
OpenTemplate(template, values, newId) ==
    /\ Imports
    /\ Instantiates(template, newId)
    /\ \E ids \in {AllIds(template.doc, minted)} :
       \E result \in {instantiateTemplate(template, values, ids, newId)} :
          /\ CanvasIRSchema(result)
          /\ doc' = result
          /\ last' = LastTemplate(template, values, ids, result)
    /\ inverse' = Missing
    /\ UNCHANGED <<clip, load>>

(* The result's command is applied to the document that is open. *)
ApplyTemplate(template, values, newId) ==
    /\ Imports
    /\ Instantiates(template, newId)
    /\ \E ids \in {AllIds(template.doc, minted)} :
       \E result \in {instantiateTemplate(template, values, ids, newId)} :
          /\ CanvasIRSchema(result)
          /\ applyBatch(doc, TemplateCommand(result)) # Missing
          /\ doc' = applyBatch(doc, TemplateCommand(result))
          /\ inverse' = [commands |-> InverseBatch(TemplateCommand(result)), to |-> doc]
          /\ last' = LastTemplate(template, values, ids, result)
    /\ UNCHANGED <<clip, load>>

Resize(p, presets) ==
    /\ Imports
    /\ Mint(Len(presets) * (Len(doc.pages[p].nodes) + 1))
    /\ \E pages \in {resizeToVariants(doc.pages[p], presets, minted)} :
          /\ applyBatch(doc, [v \in DOMAIN pages |-> <<"page.create", pages[v]>>]) # Missing
          /\ doc' = applyBatch(doc, [v \in DOMAIN pages |-> <<"page.create", pages[v]>>])
          /\ inverse' = [to |-> doc,
                          commands |-> InverseBatch([v \in DOMAIN pages |-> <<"page.create", pages[v]>>])]
    /\ last' = Nothing
    /\ UNCHANGED <<clip, load>>

(* A refused inverse throws and leaves the document as it is. *)
Undo ==
    /\ Imports /\ inverse # Missing
    /\ \E undone \in {applyBatch(doc, inverse.commands)} :
          /\ doc' = IF undone = Missing THEN doc ELSE undone
          /\ last' = [kind |-> "undo", undone |-> undone, to |-> inverse.to]
    /\ inverse' = Missing
    /\ UNCHANGED <<clip, minted, load>>

Save ==
    /\ Imports
    /\ doc' = withComputedCapabilities(doc)
    /\ last' = [kind |-> "save"]
    /\ inverse' = Missing
    /\ UNCHANGED <<clip, minted, load>>

-----------------------------------------------------------------------------
(* Loading: a budget, the chain of migrations, a budget again, the schema.  *)

Ended(outcome, raw) == load' = [load EXCEPT !.phase = "idle", !.outcome = outcome, !.raw = raw, !.seen = {}]

(* migrateCanvasIR asks whether the version is supported before the chain   *)
(* runs; the runtime's migrate leaves that to the chain.                    *)
BeginLoad(candidate) ==
    LET raw == candidate.doc
        refused == IF ~assertCanvasDocumentBudget(raw) THEN "over-budget"
                   ELSE IF candidate.seam = "core"
                           /\ raw.version \notin DOMAIN createMigrationRegistry("core") \cup {CurrentVersion}
                   THEN "unsupported" ELSE "none"
    IN  /\ Fills /\ minted = 100
        /\ load' = [phase |-> IF refused = "none" THEN "migrating" ELSE "idle", seam |-> candidate.seam,
                    raw |-> raw, seen |-> {}, outcome |-> refused]
        /\ last' = Nothing
        /\ inverse' = Missing
        /\ UNCHANGED <<doc, clip, minted>>

(* An extension's step that adds a node, under an id of its own. *)
Grown(raw) ==
    LET id == MostOf({n.id : n \in Range(walkDocument(raw))}) + 1
    IN  [raw EXCEPT !.pages[1].nodes = Append(@, [@[1] EXCEPT !.id = id, !.depth = 1])]

MigrateStep_Unseen ==
    LET steps == createMigrationRegistry(load.seam)
    IN  /\ load.phase = "migrating" /\ load.raw.version # CurrentVersion
        /\ \/ load.raw.version \notin DOMAIN steps /\ Ended("unsupported", load.raw)
           \/ /\ load.raw.version \in DOMAIN steps
              /\ load' = [load EXCEPT !.raw.version = steps[load.raw.version][2]]
        /\ UNCHANGED <<doc, clip, minted, inverse, last>>

(* One turn of the chain's loop. *)
MigrateStep ==
    LET steps == createMigrationRegistry(load.seam)
        step == steps[load.raw.version]
    IN  /\ load.phase = "migrating" /\ load.raw.version # CurrentVersion
        /\ \/ load.raw.version \in load.seen /\ Ended("cycle", load.raw)
           \/ load.raw.version \notin load.seen \cup DOMAIN steps /\ Ended("unsupported", load.raw)
           \/ /\ load.raw.version \in DOMAIN steps \ load.seen
              /\ load' = [load EXCEPT !.seen = @ \cup {load.raw.version},
                                      !.raw = [(IF step[3] THEN Grown(load.raw) ELSE load.raw) EXCEPT !.version = step[2]]]
        /\ UNCHANGED <<doc, clip, minted, inverse, last>>

FinishLoad ==
    /\ load.phase = "migrating" /\ load.raw.version = CurrentVersion
    /\ \/ ~assertCanvasDocumentBudget(load.raw) /\ Ended("over-budget", load.raw) /\ doc' = doc
       \/ /\ assertCanvasDocumentBudget(load.raw) /\ ~CanvasIRSchema(load.raw)
          /\ Ended("invalid", load.raw) /\ doc' = doc
       \/ /\ assertCanvasDocumentBudget(load.raw) /\ CanvasIRSchema(load.raw)
          /\ Ended("loaded", load.raw) /\ doc' = load.raw
    /\ UNCHANGED <<clip, minted, inverse, last>>

-----------------------------------------------------------------------------

Next ==
    \/ \E d \in Foreign \cup {doc} : \E p \in DOMAIN d.pages : \E i \in 2..Len(d.pages[p].nodes) : Copy(d, p, i)
    \/ \E payload \in Payloads : Receive(payload)
    \/ \E p \in DOMAIN doc.pages : Paste(p)
    \/ \E template \in Templates : \E values \in Supplied : \E newId \in Orders(template) :
          OpenTemplate(template, values, newId) \/ ApplyTemplate(template, values, newId)
    \/ \E p \in DOMAIN doc.pages : \E presets \in Presets : Resize(p, presets)
    \/ Undo
    \/ Save
    \/ \E candidate \in Candidates : BeginLoad(candidate)
    \/ MigrateStep
    \/ FinishLoad

Spec == Init /\ [][Next]_vars

(* A load is one synchronous call: its loop, once begun, keeps turning. *)
FairSpec == Spec /\ WF_vars(MigrateStep)

-----------------------------------------------------------------------------
(* Properties.                                                              *)

(* An identity is given once: whatever is pasted, instantiated, resized,    *)
(* undone or loaded, no two nodes of the pages and Sources, and no two      *)
(* pages, share an id, and every asset is filed under its own id            *)
(* (src/ir/invariants.ts, INV-2).                                           *)
IdentitiesAreUnique == Identified(doc)

(* No import leaves a Registry that the graph check would refuse            *)
(* (src/components/validate.ts): no instance without its Source, nested     *)
(* ones included, no Source inside itself or nested too deep, no binding    *)
(* outside its tree.  What the check predicts of sizes is left out:         *)
(* pasting has no budget.                                                   *)
SourcesResolve == Resolved(doc)

(* Both together: no import, resize, paste, undo or load leaves a document  *)
(* with an id given twice, or a Registry that the graph check would refuse  *)
(* but for its sizes.                                                       *)
DocumentStaysSound == IdentitiesAreUnique /\ SourcesResolve

(* What assertCanvasIRInvariants (src/ir/invariants.ts) asks of a document  *)
(* in full.  The code does not keep it: the command of a template brings no *)
(* assets along, and a pasted frame with a layout does not make the         *)
(* document require the layout capability.                                  *)
InvariantsHold == validateCanvasIRInvariants(doc) = {}

(* Documents, payloads and loads keep the shapes of src/ir/types.ts and     *)
(* src/clipboard/payload.ts.                                                *)
TypeOK ==
    /\ IsDocument(doc)
    /\ minted \in Nat
    /\ clip = Missing \/ IsPayload(clip)
    /\ last.kind \in {"none", "paste", "template", "undo", "save"}
    /\ load.phase \in {"idle", "migrating"} /\ load.seam \in {"core", "runtime"}
    /\ IsDocument(load.raw) /\ load.seen \subseteq STRING
    /\ load.outcome \in {"none", "unsupported", "over-budget", "cycle", "invalid", "loaded"}

(* A node pasted from another document shows the picture it showed there,   *)
(* whatever the target files under the same id.                             *)
PastedPicturesKept ==
    last.kind = "paste" =>
        \A i \in DOMAIN last.wanted :
            last.wanted[i] # Missing =>
                LET shown == doc.pages[last.page].nodes[last.of + i].asset
                IN  shown \in DOMAIN doc.assets /\ doc.assets[shown].uri = last.wanted[i]

(* No variable changes a node the template locks (src/templates/            *)
(* instantiate.ts: a hard invariant), and none changes the tree's shape.    *)
LockedNodesKept ==
    last.kind = "template" =>
        \A p \in DOMAIN last.template.doc.pages : \A i \in DOMAIN last.template.doc.pages[p].nodes :
            LET old == last.template.doc.pages[p].nodes[i]
                new == last.document.pages[p].nodes[i]
            IN  /\ <<old.kind, old.depth, old.mask>> = <<new.kind, new.depth, new.mask>>
                /\ old.id \in last.template.locked => <<old.text, old.asset>> = <<new.text, new.asset>>

(* The nodes met when the given sources are unfolded n levels deep, each    *)
(* source as often as it is met.                                            *)
Unfolded(d, sources, n) ==
    LET Tree(key) == CASE key[1] = "local" /\ key[2] \in DOMAIN d.components -> d.components[key[2]].nodes
                       [] \E s \in Range(d.snapshots) : s.ref = key ->
                             (CHOOSE s \in Range(d.snapshots) : s.ref = key).nodes
                       [] OTHER -> <<>>
        Trees(keys) == FoldLeft(LAMBDA nodes, key : nodes \o Tree(key), <<>>, keys)
        Level[k \in 0..n] == Trees(IF k = 0 THEN sources ELSE Sources(Level[k - 1]))
    IN  Level[n]

Definitions(d) == Cardinality(DOMAIN d.components) + Len(d.snapshots)

(* A chain of nested Sources longer than there are Sources. *)
Recursive(d) ==
    LET locals == Ascending(DOMAIN d.components)
        keys == [c \in DOMAIN locals |-> <<"local", locals[c]>>] \o [s \in DOMAIN d.snapshots |-> d.snapshots[s].ref]
    IN  Unfolded(d, keys, Definitions(d)) # <<>>

Expansion(d) ==
    FoldLeft(LAMBDA sum, k : sum + Len(Unfolded(d, Sources(walk(d)), k - 1)), 0,
             [k \in 1..Definitions(d) + 1 |-> k])

Parent(nodes, j) == MostOf({k \in 1..j - 1 : nodes[k].depth < nodes[j].depth})

Fits(d) ==
    LET trees == Range(PageTrees(d) \o SourceTrees(d) \o SnapshotTrees(d))
    IN  /\ \A nodes \in trees : \A i \in DOMAIN nodes :
              /\ nodes[i].depth <= Policy.depth
              /\ Cardinality({j \in DOMAIN nodes \ {1} : Parent(nodes, j) = i}) <= Policy.children
        /\ Len(FlattenSeq(PageTrees(d) \o SourceTrees(d) \o SnapshotTrees(d))) <= Policy.nodes
        /\ ~Recursive(d)
        /\ Expansion(d) <= Policy.expanded

(* The saturating count made in dependency order decides as unfolding every *)
(* instance would: what is loaded fits, and what the budget turns away does *)
(* not.                                                                     *)
BudgetVerdictIsRight ==
    /\ load.outcome = "loaded" => Fits(load.raw)
    /\ load.outcome = "over-budget" => ~Fits(load.raw)

(* The chain ends, at the current version or in a refusal, whatever steps   *)
(* the extensions registered (migrateWithRegistry's loop).                  *)
Migrating == load.phase = "migrating" /\ load.raw.version # CurrentVersion
ChainEnds == Migrating ~> ~Migrating

(* What a template or a resize adds is undone in one step (src/templates/   *)
(* instantiate.ts: "one reversible undo step").                             *)
BatchUndone == last.kind = "undo" => last.undone = last.to

(* It is undone exactly, or refused as a whole. *)
UndoneOrRefused == last.kind = "undo" => last.undone \in {Missing, last.to}

(* A resolved variable reaches its slot, is held back by a lock, or is      *)
(* warned about (src/templates/instantiate.ts).                             *)
NoValueDropped ==
    last.kind = "template" =>
        \A v \in DOMAIN last.values :
            LET slot == last.template.slots[last.template.variables[v].slot]
            IN  \/ slot.node \in last.template.locked
                \/ v \in Warned(last.template, last.values, last.ids, Range(walk(last.document)))
                \/ \A n \in Range(walkDocument(last.document)) :
                      n.id = last.ids[slot.node] => last.values[v] = IF slot.kind = "text" THEN n.text ELSE n.asset

=============================================================================
