# A verification model of anvilkit-canvas-core

`canvas-core` is the headless core of a canvas editor. It keeps a document (a
`CanvasIR`: pages with trees of nodes, assets, a registry of Component
definitions, a registry of external snapshots), and hosts change it with
commands. A command returns the next document and an *inverse* command; the host
keeps the undo and redo stacks. Around that core the library resolves Component
instances into trees, computes Auto Layout, brings content in (clipboard,
templates, migrations, external libraries), applies and enforces brand rules, and
prepares documents for export. All source paths below are relative to the
repository's `src/` directory.

The modules here are TLA+ models of the parts that keep state or whose order of
steps matters. TLC checks small instances; TLAPS proves theorems about the node
commands, the Component registry, the resolution cache, what is imported and the
component libraries for every instance.

## 1. Inventory

The library is synchronous and single-threaded. Every command handler runs to
its end, returns a new document, and leaves the one it was given alone; a refused
command throws and changes nothing. What is concurrent is the *use* of it:
several hosts (editors, collaborators, scripts) submit commands to the same
document and keep their own stacks, so an inverse meets documents that are not
the one it was computed from. Only snapshot admission
(`component-libraries/admission.ts`) and the renderers (`serialize/svg.ts`,
`serialize/pdf.ts`) await anything. What makes the code hard is therefore

- inverses: computed from one document, applied to another;
- state kept outside the document (caches, warm layouts, policy evaluators) that
  has to follow it;
- index arithmetic on arrays that several steps of one command change;
- guards that one path applies and another (a batch, an inverse, a paste) skips.

| Component | State | Operations | What makes it correct | Modelled in |
|---|---|---|---|---|
| Node commands (`commands/runtime.ts`, `ir/mutations.ts`) | the trees of a document | `node.*`, `image.replace` | trees stay trees, every inverse is exact and applies, ids are unique, roots stay, locks and the depth limit hold | NodeCommands, DocumentCommands |
| Auto Layout commands (same file) | layout of frames, geometry writes | `frame.set-layout`, `frame.remove-layout`, `selection.wrap-in-layout-frame` | inverses exact, composite ceiling respected | DocumentCommands |
| Page and asset commands (same file) | pages, page order, asset table | `page.*`, `asset.put/remove/migrate` | one page at least; references follow assets; inverses exact | DocumentCommands |
| Component registry (same file, `ir/regenerate-ids.ts`, `components/graph.ts`) | definitions, their Sources, properties, revisions; instances and overrides | `component.*`, `component-instance.*`, `batch` | no dangling instance, no cycle, unique ids, revisions move with changes, read-only overrides stay | ComponentCommands |
| Transactions and change events (`commands/transaction.ts`, `commands/change-events.ts`) | change records, listeners | `applyCommands`, `replayChanges`, `createChangeEmitter` | a transaction is all or nothing; records tell what happened | DocumentHistory (partly) |
| Resolution and its cache (`components/*`) | the session cache, the previous resolved document | `resolveComponentInstance`, `resolveCanvasDocument`, `invalidateComponent` | the cache only saves work; budgets hold | ResolutionCache |
| Component operations (`component-ops/*`) | none | detach, detach all and delete, copy and paste, export of variants | all or nothing | ComponentHistory (partly) |
| Component libraries (`component-libraries/*`) | snapshot registry, admissions under way | admission, insert, update, swap, set-variant, recover, collect | only verified snapshots are stored, none in use is collected, undo returns exactly what was there | LibraryCommands |
| Auto Layout engine (`layout/*`) | placements and records of the last pass | `resolveCanvasLayout`, `resolveCanvasDocument`, materialize, flatten | incremental equals full; writing geometry back settles | LayoutEngine |
| Extension runtime (`extensions/*`) | registries of commands, node kinds and migrations | register, `apply`, `migrate` | a chain of migrations ends | ImportSession (partly) |
| Brand application (`brand/*`) | none | colours, fonts, logos, typography, compliance report | idempotent; makes nothing non-compliant | BrandGovernance |
| Brand governance (`brand-governance/*`) | evaluator bound to a document, compliance cache, audit log | policy path, evaluation, governed report, prepared export | no edit passes a policy that withholds it; undo is not locked out | BrandGovernance |
| Templates, clipboard (`templates/*`, `clipboard/payload.ts`) | none | instantiate, apply, resize to variants, validate and paste | fresh ids, references and pictures kept, locked nodes kept | DocumentImport |
| Document budget, IR invariants, migrations (`ir/*`) | none | budget, migrate, validate, capabilities | the verdict is the real size; accepted documents satisfy the invariants | DocumentImport |
| Export, preflight (`export/*`, `print-preflight.ts`) | none | estimate, limits, prepare | smaller is never dearer | BrandGovernance (cost, prepareExport) |
| Serialization (`serialize/*`) | none | SVG, PDF | text output | not modelled |
| Telemetry, release controls and dashboard | host-owned snapshot | emit, evaluate | | not modelled |
| Provider contracts (`*-contracts.ts`) | none | interfaces, validators | | not modelled |
| Geometry, paths, URIs, hashing | none | pure functions | numeric | not modelled |

How they interact: `applyCommand` dispatches on the type of a command, runs the
handler on the immutable document, and afterwards `settleComponentRevisions`
compares the registry before and after and moves the revision of every
definition that was replaced without one of its own. The resolver reads the
registry and keys its cache by revisions, so the commands and the cache meet
only through the revision number. The composed pass `resolveCanvasDocument`
expands the instances of all pages within one budget, through the session cache a
host passes, reuses the pages of the previous result that the host does not call
dirty, and hands the expanded document to the layout pass, which has a warm state
of its own. Component operations, templates and external libraries build batches
of commands and hand them to `applyCommand`; the commands over instances ask the
brand policy port before they change anything.

`PROJECT.json` lists each component with its status and every hazard with the
source line where it bites and the properties that cover it.

## 2. Modules

```
NodeCommands ─> CommandHistory ─> ChildArrays ─> MCCommandHistory
                       └────────> CommandHistory_proofs
DocumentCommands ─> DocumentHistory ─> MCDocumentHistory      ┐ refine
LibraryCommands ──> LibraryHistory ──> MCLibraryHistory       ┘ LinearHistory
                            └────────> LibraryHistory_proofs
ComponentCommands ─> ComponentHistory ─> MCComponentHistory
                                └──────> ComponentHistory_proofs ─> ComponentIds_proofs
                                                               └──> ComponentReferences_proofs
ResolutionCache ─> MCResolutionCache
           └─────> ResolutionCache_proofs
IntervalInduction ─> CommandHistory_proofs, ComponentHistory_proofs,
                     ResolutionCache_proofs, ImportSession_proofs,
                     LibraryHistory_proofs
LinearHistory <──refines── CommandHistory_proofs, LibraryHistory_proofs (one host)
LayoutEngine ─> LayoutSession ─> MCLayoutSession
BrandGovernance ─> GovernedSession ─> MCGovernedSession
DocumentImport ─> ImportSession ─> MCImportSession
                            └────> ImportSession_proofs
```

Each pair `X ─> Y` separates what the code computes (operators, one per handler)
from the session that calls it (variables, one action per call a host makes). The
session modules are the compositions: registry commands, batches and component
operations on one document (ComponentHistory); instance expansion below the
layout pass (LayoutSession); commands, policy port, brand transforms and export
(GovernedSession); clipboard, templates, budget and migrations (ImportSession);
admission, commands and histories (LibraryHistory).

Definitions named `X_Something` before a definition `X` are the way `X` could
plausibly be wrong (a dropped guard, a swapped order). Putting one in place of
`X` violates a property; `PROJECT.json` records which, and so shows that each
property depends on the code and not on the shape of the model.

### NodeCommands, CommandHistory, ChildArrays

For each command: `…Accepts` (the handler's conditions), the document it returns,
and the inverse it returns. The code keeps nested arrays of children; the model
keeps for each node its parent and its index, and array splices are index shifts
(`WithGap`, `WithoutSlot`). Node content is reduced to what the handlers treat
specially: `locked` (with a missing key distinct from `false`) and one coordinate
of the transform, in which composing two transforms is addition.

| Definition | Code |
|---|---|
| `LockedOut` and the `Accepts` guards | `assertUnlocked`, `expectNode`, the early throws of each handler |
| `Created`, `Deleted`, `Moved`, `Updated`, `Reordered`, `Reparented` | the handlers with `insertNode`, `removeNode`, `updateNode`, `replaceChildrenInParent` of `ir/mutations.ts` |
| `Grouped`, `Ungrouped`, `GroupSlot`, `SpilledPos` | `applyNodeGroup`, `applyNodeUngroup` with the restore plan |
| `FitsUnder`, `TooDeep` | `MAX_TREE_DEPTH` where insertion checks it, and the walkers that refuse to read past it |

`TooDeep` looks at all trees of the document where the code walks the one it
needs; with the single page of the instances the two agree.

`CommandHistory` has hosts with their own stacks. `Submit` applies a command and
pushes its inverse, `Undo` and `Redo` re-apply the newest entry and push what
comes back. That is how the package's README asks hosts to do it ("History is
caller-managed"). New ids are taken from those never used, as uuids are.

`ChildArrays` is a second, direct reading of grouping and ungrouping: the
children as sequences and the code's `splice` on them. `SplicesAgree` says that
every group and ungroup step of `CommandHistory` is exactly that splice: it is the
abstract specification of the index arithmetic.

### DocumentCommands, DocumentHistory, LinearHistory

The commands beyond the tree: geometry and style of a node, `image.replace`, the
Auto Layout commands with the geometry writes a host sends along, pages, assets,
`batch`, and the tree commands their inverses consist of. Here a document keeps
the array of children of every container, because the inverse of a wrap is a batch
of reparents, a delete and reorders by old index. `Core(e, d, c)` is the outcome
of a command: empty when it throws, else the document and the inverse.

| Definition | Code |
|---|---|
| `EffectivePatch`, `Update`, `Reshaped` | `applyNodeUpdate`, the resize of a frame's path shape (`RescalesPath`) |
| `StylePatch`, `StyleInverse` | `commands/apply-style.ts`: which keys each kind takes, and what the inverse restores |
| `WriteOne`, `Written` | `applyLayoutGeometryWrites` |
| `WrapAccepts`, `Wrapped`, `WrapInverse` | `applyWrapInLayoutFrame` |
| `PageDuplicate`, `PageResized`, `PageResizeInverse`, … | the page handlers; the copies of a page take fresh node ids (`Reissued`) |
| `Rereferenced`, `MigrateInverse` | `asset.migrate` with `ir/asset-references.ts` |
| `Transaction`, `RecordedPages` | `applyCommands`, `commandToChangeRecord` |

`DocumentHistory` is one host with both stacks, single commands (`Submit`) and
transactions of two commands (`Transact`). The variables `past` and `future` are
history variables; with them `ExactHistory` states that the stacks of inverses
implement `LinearHistory` (`Line == INSTANCE LinearHistory WITH present <- doc`,
`ExactHistory == Line!Spec`): a line of versions with a cursor, which is what undo
and redo promise a user. The refinement is where an inexact inverse shows, however
many steps later it is used.

`Careful` names the inputs for which the code's inverse is *not* exact or is
refused, and `Careless` switches them on one by one:

| Name | Input | Plans that show it |
|---|---|---|
| `"root resize"` | the root of a page resized as a node | `JustPages` |
| `"twice"` | a property of a node written twice by one list | `AllPlans` |
| `"dangling"` | a reference that dangles on the id an asset migrates to | `AllPlans` |
| `"clip"`, `"new frame"` | the geometry of a clipped node, or of the new frame itself, among the writes of a wrap | `AllPlans` |
| `"scattered"` | a selection to wrap with an unselected sibling between its first child and two neighbours | `Crowd` |
| `"composite"` | a layout for a frame that holds more than the composite ceiling, which `frame.set-layout` accepts and its inverse, `frame.remove-layout`, refuses | `Heavy` |
| `"rounding"` | a resize whose path shape rounds to the same shape, there or back | `Thin` |

`ExactHistory` and `UndoApplies` hold without them; adding any one of the names to
`Careless` in `document.cfg`, with the plans of the last column, lets TLC find the
counterexample.

### ComponentCommands, ComponentHistory

A document with pages and definitions; the tree of a page or of a Source is a set
of nodes (id, parent, the Source it is an instance of, override map, lock), since
sibling order is the matter of the modules above. All commands of the
`component.*` and `component-instance.*` families are here, `node.create`,
`node.delete` and the lock patch of `node.update` with a page or a Source as
location, and `component-ops/delete.ts` and `detach.ts` as the batches they build.
A command and a batch are both a sequence of simple commands: `Folded` is
`applyBatch`, `Settled` is `settleComponentRevisions`, `Applied` both. The lock,
the graph checks (`Cyclic`, `LongChain`), the expansion that a detach writes out
(`Inside`, `Cost`, `Resolvable`, `Materialized`) and the revision that registry
commands carry are modelled.

### ResolutionCache

The instance layer of `components/cache.ts` as a function from composite keys to
results, below whole-document passes: `Key` is `composeCacheKey`, `Resolve`
`resolveComponentInstance` with a hit, a miss or a placeholder, `Pass`
`resolveCanvasDocument` with its shared budget and its reuse of clean pages.
`EditBody`, `Rebind`, `UndoEdit`, `Move` and `Override` are the edits that change
what should be shown, with the revision each really writes. `doc` is what the document
says of its Sources and instances; `Paint` is the order in which a pass meets the
instances and `PageOf` the page of each. The body of a Source is a root and a row
of children; what it expands to (`Walk`) is built level by level, as deep as
`MaxDepth`. What a host does is a record fixed in
`Init` (`HostOptions`): a session cache or none, calling `invalidateComponent` or
not, passing `previous` and `dirtyPageIds` or not, its budget, the edits it makes.
The definition layer of the cache is primed and never read by the resolver, and
the base and page layers are never filled, so neither is in the model.

### LibraryCommands, LibraryHistory

A provider's envelope is admitted in steps, because the code awaits the host's
verifier: `Admit` (`admission.ts` up to the `await`: schema, byte ceiling,
closure), `Settle` (the verifier answers or rejects), `Resume` (the code after the `await`: brand or
refuse), `Report` (the rejected promise). Other admissions and commands go on in
between. `validateExternalClosure` is the depth-first walk over dependencies:
`Visit` is one call of `walk`, `Walk` a recursive function along the depth that is
left, and what the calls share (the visited set, the nodes counted, whether a problem
was met) is handed from one to the next. `collectReferencedSnapshotKeys` is where its
worklist ends: the least set that holds what instances and local Sources name and
what its stored members keep alive.

| Definition | Code |
|---|---|
| `applyInsertExternal`, `applyRevertExternalInsert` | `commands/insert-external.ts`; `Merged`, `Added`, `Conflicts` are the merge of the closure into the registry |
| `Candidates`, `MappingOf`, `migrateComponentOverrides`, `Classification` | `compatibility.ts`, the mapping of properties by id, then by kind and semantics |
| `applySourceChange`, `applyRevertSourceChange` | `commands/update-source.ts` (update and swap) |
| `resolveComponentVariant`, `applySetVariant` | `components/variant-resolution.ts`, `commands/set-variant.ts` |
| `previewCollectUnused`, `applyCollectUnused`, `applyRestoreCollected` | `commands/collect-unused.ts` |
| `applyRecoverSnapshot`, `applyUnrecoverSnapshot` | `commands/recover-snapshot.ts` |

A digest is modelled by what it covers (the canonical subject), so equal digests
are equal contents; canonical bytes are not built. `Careful` leaves out three inputs:

| Name in `Careless` | Input | What happens |
|---|---|---|
| `"retaining"` | a collection whose retained set matters | its redo collects what was retained |
| `"discarding nothing"` | a variant that discards overrides where there are none | its redo is not the same command |
| `"beside"` | among the dependencies of an insert, update, swap or recovery a snapshot that the candidate's closure does not reach and that the document refers to without having it | it is stored without having been validated, and opens a hole further down |

Adding one of the first two names to `library.cfg` violates `ExactHistory`; the third,
with `Plans <- Beside`, violates `NoNewHole`.

### LayoutEngine, LayoutSession

One pass over the expanded document: `effectiveSizing` and `buildSizingGraph`
(what is demoted to Fixed), `applySizing` and `solveBounds` (boxes of scaled and
quarter-turned nodes), `Measured` (one provider call per text, counted),
`resolvePlainNode`, `resolveAutoLayoutFrame` (provisional sizes, distribution
among Fill children, second sizing, alignment, overflow), `resolveNode` with the
warm placements (`cacheKey`, `subtreeSignature`, `Reusable`, `Remembered`).
Lengths are integers counted in the solver's quantum on two axes.
`LayoutSession` resolves cold, warm or incrementally between edits of bounds,
sizing, layouts, tree, paint, pages, text metrics and a Source, and writes
geometry back (`materializeCanvasLayout`, `flattenCanvasLayout`). The records of an
incremental pass are built as the code builds them: those of vanished pages go first
(`KeptRecords`), then, page by page in document order, what is listed under the old
root is deleted from the map as it is by then and the page's new records are added
(`Replaced`). `recalled` remembers that such a pass met a node which the previous
resolution had on a later page (`MovedBack`); a full pass clears it.

### BrandGovernance, GovernedSession

`collectPolicyPath` (one path through nested instances), `Forbids`,
`validateBrandComponentCommand` (the decision), `generateBrandComplianceReport`,
the transforms of `brand/apply.ts` (`applyBrandColors`, `replaceFonts`,
`replaceLogoPlaceholders`, `normalizeTypography`, run by `runBrandTransform` over
pages and Sources), `prepareExport`, and the cost of an export
(`estimateCanvasExportCost`, `checkCanvasExportLimits`). `GovernedSession` is an
editor with a bounded history whose evaluator closes over the document it was
created with (`bound`); the host may change its context (`SetContext`), rebind,
edit instances, rebrand, undo and export. `GraphErrors` has the errors of
`validateComponentGraph` but its two limits, on nesting and on expanded size: no
document of the session comes near them, and no property reads the outcome
(DocumentImport has the limits).

### DocumentImport, ImportSession

Trees as pre-order sequences with depths. `assertCanvasDocumentBudget` with its
saturating count of expanded nodes over the graph of Sources, the schemas'
refinements, `validateCanvasIRInvariants`, `validateComponentGraph`, capabilities,
`validateClipboardPayload` and `materializeClipboardNodes`, templates
(`resolveTemplateVariables`, `Cloned`, `Instantiated`, `TemplateCommand`),
`resizeToVariants`, and the batch that applies them with its inverse.
`ImportSession` opens a document, copies, receives a payload, pastes, opens or
applies a template, resizes, undoes, saves, or loads another document through the
migration chain, one turn of the loop of `migrateWithRegistry` per `MigrateStep`.

## 3. What the runs check

Deadlock is not checked anywhere because a host may simply stop, and because the
bounds on stacks, passes and ids end every behaviour. Every refused command is a
step that does not happen: the code throws before any write.

| Run | Question | Instance and bounds |
|---|---|---|
| `structure` (MCCommandHistory) | Are trees kept (`TreeShape`), inverses accepted and exact (`InverseExact`), is nothing lost (`NothingLost`), is grouping the code's splice (`SplicesAgree`), and does no leaf move on the page when it is grouped (`GroupingKeepsPlace`)? | one host; root, two groups, a frame, three leaves; a flat page and one with a displaced group; `MaxHistory` 2 |
| `shared` (MCCommandHistory) | Two hosts undo past each other, under `enforceLocked`: do roots stay (`RootsStay`), does an id never come back twice (`OneOwner`), what can change a locked node (`LockedUntouched`)? | two hosts (symmetric), one entry each, all node commands |
| `document` (MCDocumentHistory) | Do the stacks implement the line of versions (`ExactHistory`), can every entry be re-applied, as a command and as a recorded transaction with the same effect (`UndoApplies`), is the distance a record reports the distance moved (`FromIsCurrent`)? | five plans: appearance, layouts, a nested layout under locks, pages, assets; two entries; `MaxEntry` 7 leaf commands in an entry that is re-applied; composite ceiling 3 |
| `registry` (MCComponentHistory) | Are definitions and properties restored exactly, positions and revisions included (`InverseExact`), and does a changed definition never keep its revision (`RevisionMoves`)? | a Source with an exposed child, two component and property ids, three entries, `MaxRevision` 4 |
| `instances` (MCComponentHistory) | Ids unique (`UniqueIds`), no instance without its Source (`NoDangling`), no cycle (`GraphAcyclic`), inverses accepted and exact, over extraction, import, insertion, detaching one by one or by the batch that deletes the Source | a drawing of three nodes, and a Source nested in another; ten node ids, three entries, expansion budget 6 |
| `overrides` (MCComponentHistory) | Under `enforceLocked` with one host, do overrides bound to locked nodes stay (`ReadOnlyOverrides`)? | one property, four entries |
| `cache` (MCResolutionCache) | Is what is shown always what an empty cache would lead to (`Transparent`), and never more than the budget (`BudgetKept`)? | two Sources, one embedding the other, two pages, three hosts |
| `library` (MCLibraryHistory) | Does no command open a hole in the stored closure (`NoNewHole`), do undo and redo walk the line of versions (`ExactHistory`) and always apply (`UndoApplies`), is every admission decided (`AdmissionSettles`)? | five definitions (a card in two versions, a banner, badge, icon), two instances, four plans (insert, change, repair, a host that is denied swaps), two entries |
| `layout` (MCLayoutSession) | Is a warm or incremental result the cold one, in geometry (`Transparent`), content (`ContentFresh`), both but for `recalled` passes, and diagnostics (`NothingUnreported`); does writing geometry back settle (`MaterializeSettles`) and flattening render the same (`FlattenRendersTheSame`)? | a row with a frame that fills it, scaled, turned, absolute and text children, a second page with an instance; three edits, three passes |
| `governance` (MCGovernedSession) | Does no edit pass a policy that withholds it (`GovernedEdits`), can the last change be undone while the rules are the same (`UndoStaysAllowed`), is rebranding idempotent (`RebrandSettles`) and harmless (`RebrandAddsNoIssue`), are smaller exports cheaper (`SmallerExportFits`)? | eight plans over a card built from a badge and an icon and a stamp in a snapshot; history 1 or 2; four contexts |
| `import` (MCImportSession) | Do ids stay unique and Sources resolved (`DocumentStaysSound`), pasted pictures theirs (`PastedPicturesKept`), locked template nodes untouched (`LockedNodesKept`), what a template or a resize added undone exactly or not at all (`UndoneOrRefused`); is the budget verdict the real size (`BudgetVerdictIsRight`), does a migration chain end (`ChainEnds`)? | an open document, a foreign one with colliding assets, four payloads, a template with a nested Source, 108 graphs of three definitions and a snapshot to load, seven versions through both entry points |
| `template_undo` (MCImportSession) | expected violation of `BatchUndone` | the same without candidates |

Why the bounds are enough. Two or three stack entries undo, redo and undo again
across a command that changed the slots the inverse names; three leaves are the
fewest with which a selection is not contiguous and has a sibling in the gap; two
hosts the fewest with which an inverse meets another's edit. Three definitions
make every shape the expansion count distinguishes (shared, chained, cyclic,
reached through a snapshot). Three edits and passes let an edit be made before,
between and after a cold and an incremental pass. The limits of the code
(`MaxDefinitions`, `MaxProperties`, `MaxNesting`, `MaxExpanded`, `MaxComposite`,
the import `Policy`, `MaxClosureDepth`, `MaxRequests`, `MaxDiagnostics`) are small
so that the runs reach them; `MaxTreeDepth` is out of reach in `structure`. `MaxId`, `MaxMinted`, `MaxPage`, `MaxHistory`, `MaxEntry`,
`MaxEdits`, `MaxPasses`, `MaxUndo` and `MaxRevision` bound the behaviours; the
last is needed because undoing and redoing an edit of a Source moves its revision
each time.

The three hosts of `cache` are three ways of using the cache safely. `KeyReliant`
never invalidates, edits Sources and overrides, and undoes no registry command:
the composite key has to do. `Invalidator` undoes registry commands, which brings
revisions back, and calls `invalidateComponent`: `Dependents` has to reach every
embedding Source. Both resolve the dirty pages only. `Cacheless` has a budget that
some of the bodies exceed and resolves all pages each time. `Transparent` compares
what is shown with a pass from an empty cache whenever all pages have been
resolved, so it covers keys, invalidation and page reuse at once.

What the properties leave out by name: `InverseExact` excepts the re-grouping of
an emptied group (`EmptyGroup`) and the inverse that binds a property to a node
that is gone (`Unbindable`); `NothingLost` and `ReadOnlyOverrides` are for one
host; `ExactHistory` is for careful hosts (section 2); `ContentFresh` and
`NothingUnreported` are for passes that are told what is dirty, `Transparent` (of
LayoutSession) and `ContentFresh` not for what follows an incremental pass over a node
that was moved to an earlier page; `GovernedEdits`
leaves out reset-all. Each exception has a configuration, or a property to add to
one, that shows what happens without it (below).

`DocumentStaysSound` is about identities and the Registry: of the errors of
`ir/invariants.ts` it has repeated page and node ids and assets filed under another
key, and all of `components/validate.ts` but the predicted sizes. It does not say that
every asset reference has its entry (`dangling-asset-reference`) nor that the
document declares the capabilities it needs (`missing-required-capability`): the code
does not keep these two (below). A page root that is no group and a tree that is too
deep are not part of the model's invariants at all.

The type invariants of CommandHistory, ResolutionCache, ComponentHistory, DocumentHistory,
LibraryHistory, GovernedSession and ImportSession (`TypeOK`) are stated in the modules
and hold in these instances; adding the name to a run's `INVARIANTS` checks them.

### Fairness

Two properties are about something that must happen, each under fairness of its own:

- `AdmissionSettles` (`library`, `FairSpec`): weak fairness of the verifier's
  answer and of the continuation, per envelope. `CanvasIntegrityVerifier.verify`
  returns a promise; that it settles is the contract of the host's verifier, that
  the continuation then runs is the event loop. Fetching, editing, undoing are not
  fair. The property would fail if a rejected promise were left unhandled.
- `ChainEnds` (`import`, `FairSpec`): weak fairness of one turn of the migration
  loop. `migrateWithRegistry` is one synchronous call, so a loop that has begun
  keeps turning. The chains of the instance include one that runs in a circle and
  one that stops at a version nobody supports.

### Where the code disagrees with its documents

One run has an expected violation. `template_undo`: `templates/instantiate.ts`
says that a template is applied as "one reversible undo step". Its batch creates
the Sources in the order of their fresh ids; the inverse deletes them in the
opposite order, and `component.delete` refuses a Source that another still embeds.
When the fresh ids happen to put the embedded Source first the undo works, and
otherwise it is refused as a whole.

`component-libraries/commands/insert-external.ts:66` says of the dependencies of an
insert that they "are validated together and committed together". They are committed
together, but only the closure of the candidate is validated: a snapshot beside it
comes in whatever it depends on, and so it does in an update, a swap and a recovery.
When an instance was waiting for that snapshot, the reference it had is filled and
the ones of the new snapshot are open (`"beside"`, section 2).

A comment in `applyWrapInLayoutFrame` says of the inverse that "`node.reorder` then
restores the exact permutation" (`commands/runtime.ts:1321`), and a test restores one
for a selection of the first and the third of four siblings. Wrapping A, B and C of
`[A, u, B, C]` and undoing it leaves `[A, B, u, C]`: each child is moved to its old
index once, in order, and the move of B shifts C, the move of C then shifts u. Over all
arrays of up to six siblings and all selections, the undo is exact unless the selection
is `Scattered`. To see it, add `"scattered"` to `Careless` in `document.cfg`, take
`Crowd` as `Plans` and check `UndoRestoresOrder`.

The other configurations are of the same form, for the modules named, and are kept
to be run by hand (`tlc -config <name>.cfg <module>`). Each violates its property,
and together they bound what the passing runs claim:

| Configuration (module) | Property | What happens |
|---|---|---|
| `empty_group` (MCCommandHistory) | `EveryInverseApplies` | ungrouping an emptied group cannot be undone: the inverse is a `node.group` of nothing |
| `restore_drops` (MCCommandHistory) | `NothingLost` | with two hosts, undoing a grouping drops what another host added to the group |
| `lock_patch` (MCCommandHistory) | `LockPatchApplies` | the undo of a first lock, the patch `{locked: undefined}`, is refused under `enforceLocked`, though "a `node.update` whose patch touches `locked` always applies" (`commands/types.ts:658`) |
| `nested_in_itself` (MCComponentHistory) | `GraphAcyclic` | an instance can be inserted into its own Source, since only the commands that register a definition look at the graph |
| `batch_revision` (MCComponentHistory) | `RevisionOnce` | a batch of two registry commands moves the revision twice, where `commands/types.ts:42` says exactly once |
| `readonly_undo` (MCComponentHistory) | `ReadOnlyOverrides` | with two hosts, the undo of a reset-all writes a read-only override |
| `cache_moved` (MCResolutionCache) | `Transparent` | a cached instance is shown where it was before it moved |
| `cache_revision` (MCResolutionCache) | `Transparent` | an undo reuses a revision, and the entries cached under it |
| `cache_truncated` (MCResolutionCache) | `DegradedForCause` | a result cut by the budget is cached and served when the budget suffices |
| `warm_geometry` (MCLayoutSession) | `Transparent` | with Fill inside Fill, the warm state keeps the geometry of an arrangement its signature misses |
| `merged_overrides` (MCLibraryHistory) | `OverridesKept` | two properties that map to one lose one of the values |
| `reused_snapshot` (MCLibraryHistory) | `UndoKeepsSnapshots` | with two hosts, an undone insert takes away a snapshot another insert reused |
| `reset_all` (MCGovernedSession) | `EveryEditGoverned` | `reset-all-overrides` asks no policy, though the header of `brand-governance/command-policy.ts` says every mutation of a governed instance does |

Two more properties are stated and fail on the very instance of a passing run:

- `RecordsComplete` of LayoutSession, with `layout.cfg`. An incremental pass deletes the
  old subtree of each page from the records just before it adds the page's new ones,
  in document order (`layout/resolve.ts:959`). Resolve; move a node from a later page to
  an earlier one; resolve with both pages dirty. The earlier page adds the node's
  record, then the later page's old root still lists the node, and
  `deleteRecordSubtree` deletes what was just added. The node has no record until a
  full pass or one that visits its page again. `layout/types.ts:204` says of `previous`
  that "the resolver validates it against the current IR rather than trusting it, so a
  stale or foreign document degrades to a cold pass instead of producing wrong
  geometry". Moving a node to a later page, or away from a page that is deleted, is
  fine.
- `InvariantsHold` of ImportSession, with `import.cfg`. The command of
  `instantiateTemplate` creates Sources and pages and carries no assets
  (`templates/instantiate.ts:374`), so applied to a document it leaves images without an
  entry; a paste adds nodes and assets, so a frame with a layout leaves the document
  without the layout capability until `withComputedCapabilities` runs on a save, and a
  reference that already dangled where it was copied dangles where it is pasted. In
  both cases `assertCanvasIRInvariants` (`ir/invariants.ts:384`) would throw for the
  document; TLC finds no other step of the instance that adds such an error.

Three more are stated and fail on other constants of the runs `structure`,
`cache` and `import`: `DepthBounded` of CommandHistory with `MaxTreeDepth = 2`, since
grouping nests past the depth limit, after which every walk throws; `LibraryShown` of ResolutionCache with `SourceOf <- LibraryInstance`
(and `BodiesOf <- Growing`, one page and `Hosts <- Editor`), since a document pass
resolves no library instance; `NoValueDropped` of ImportSession with
`Templates <- OnlyOnSource` and `Candidates <- NoCandidates`, since a variable
whose slot is a node of a Source is dropped without a warning.

Other observations made while reading, which no property is about: token
constraints of a policy are carried and never enforced; `definitionFor` of the
governance does not look at quarantine; the batch of `extensions/canvas-runtime.ts`
settles revisions per sub-command although its comment says the result is
"identical"; `isCanvasMigrationEnabled` is not consulted by `migrateCanvasIR`;
`page.resize` looks at no lock, so its inverse may be refused under
`enforceLocked`; `frame.remove-layout` holds the frame's subtree to the composite
ceiling, `frame.set-layout` with the same geometry writes does not.

## 4. What is proved

`CommandHistory_proofs` proves, for every finite set of nodes, every set of hosts
and every bound:

- `TypeCorrect`: `Spec => []TypeOK`. Whatever is submitted, undone and redone, the
  document is a document and every stack entry is a command the runtime can
  dispatch. There is one lemma per command: given a document and a command of its
  type, it returns a document and a command.
- `RootsAreSafe`: `Spec => []RootsStay`. No interleaving removes a page root or
  puts it below another node. `RootsStay` is not inductive: a command is refused by
  its guard only when it names a root, and deleting removes everything below the
  node it names. `RootsInv` adds what a stack entry may carry: no entry creates or
  groups a root, or restores a subtree that contains one; and `RootsNotBelow` shows
  that in a document whose roots have no parent, no root is below another node,
  so a subtree that leaves contains none. One lemma per group of commands
  (`DeleteRoots`, `GroupRoots`, `UngroupRoots`, `StepRoots`) carries it over a step.

- `OneOwnerHolds`: `Spec => []OneOwner`. `node.create` does not check that its ids
  are new, so nothing but the protocol of the stacks keeps an inverse from
  bringing an id the document already has. The strengthening `OwnerInv` says of
  all places of all stacks (not only those below the bound) that what they hold
  was minted, is not in the document and is in no other place, and that a pending
  creation contains the node it names. The argument has two halves. `Handover`
  goes through the commands: what a command takes out of the document is all that
  its inverse brings, and what enters came with the command. `HoldersStayApart`
  is about sets only: when each place is handed the content of one place before
  the step, one to one (`From`), and the document and the pushed entry share what
  the document and the applied entry had, nobody shares an id afterwards.
  `SubmitOwner` and `ReplayOwner` supply its premises for a push that clears the
  other stack and for a pop with a push.
- `LocksAreHonoured`: with `EnforceOnSubmit` and `EnforceOnReplay` true,
  `Spec => LockedUntouched`. A guard protects the node a command names, but the
  payload of a creation could overwrite a locked node; that it does not is
  `OneOwnerHolds`, which is why `LocksHold` assumes that the command brings
  nothing the document has, and the theorem uses `OwnerInv`.

Of the index arithmetic, the same module proves:

- `TreesStayTrees`: `Spec => []TreeShape`. Every container keeps its children at the
  indices `0 .. n-1`, parents are containers, every node hangs from a root, through
  any interleaving of any hosts. `ShapeInv` says it as a `Forest`, of the document
  and of the payload of every pending `node.create`: no set smaller than all nodes
  holds the roots and the children of its members. It also keeps the ids that
  pending groupings bring to groups, and restore plans well formed. Indices are
  handled through ranks (`RankSplit`: the children below an index, those from it
  on), so that a gap, a removed slot and a restored one shift exactly the right
  children.

The same module shows what undo promises:

- `UndoIsExact`: `Spec /\ []DepthBounded => InverseExact`, for a single host whose
  replays do not enforce locks. Per command, the document it returns accepts the
  inverse it returns, and applying that gives back the document before
  (`Invertible`); the stacks keep that property (`ExactInv`: `Retraced` says that
  the entries lead, one after the other, through documents in which each is `Good`).
- `NothingIsLost`: `Spec /\ []DepthBounded => NothingLost`, under the same hypotheses.
- `SmallDocumentsUndo`: with no more nodes than `MaxTreeDepth + 1` the depth
  hypothesis can be dropped (`FewNodes`).
- `UndoKeepsALine`: `Spec /\ []DepthBounded /\ []NoEmptyGroup => Line!Spec`, where
  `Line` is `LinearHistory`: for one host, again without locks on replay,
  `CommandHistory` implements the line of versions. The refinement mapping needs no
  history variables: `past` is what the entries of the undo stack lead back to, one
  after the other (`Versions`), `future` the same for the redo stack. An entry is
  pushed in front of versions it leaves as they were, because it leads back to the
  document before (`VersionsPush`, from `UndoIsExact`'s invariant), and one is popped
  where the document goes (`VersionsPop`). `NoEmptyGroup` says that no group
  without children is ungrouped: its entry is refused and stands for no version.

Each hypothesis is one a configuration shows to be needed: with locks enforced on
replay the undo of a first lock is refused (`lock_patch`), with two hosts the undo
of a grouping drops another host's node (`restore_drops`), past the depth limit
every walk throws (`DepthBounded`, section 3), and the re-grouping of an emptied group, which
`InverseExact` leaves out by name, is refused (`empty_group`).

`ResolutionCache_proofs` is about the cache, for any Sources, bodies, pages,
instances, budgets and edits:

- `CacheTypeCorrect`: `Spec => []TypeOK`, without hypotheses.
- `CacheIsTransparent`: `Spec /\ []Roomy => []Transparent`, when all hosts are
  `Careful`. `Careful` says that a host with a session cache moves no instance, and
  that it invalidates what it edits, unless it offers no
  `component.update-property` (`"rebind"`) or no undo.
  `Roomy` says that the full expansions of all instances fit into the budget of a
  host that keeps results from pass to pass. Each is needed: `cache_moved`,
  `cache_revision` and `cache_truncated` are the counterexamples without. A host
  without cache or page reuse needs neither.
- `BudgetIsKept`: under the same hypotheses `[]BudgetKept`.

`Transparent` speaks of the documents that are resolved; the inductive `CacheInv`
speaks of every entry. `KeysInv`: an entry that can still be asked for (under a key
that names the revisions of now, or any entry of a host that invalidates) is what
its instance expands to now. `RevisionsInv`: no key is ahead of the document, and a
key of now names exactly the Sources its expansion is made from, so that editing a
Source outdates the keys of all instances that embed it. `ShownInv`: what is shown
on a clean page is right. The step that replaces a definition rests on `SameParts`
and `SameWalk`: documents that agree on the Sources below `s` have the same Sources
below `s` and expand it alike; it does not matter how deep the nesting goes. The
step that resolves rests on `PassShowsWhole` (with room, hits and misses are
indistinguishable), `PassCongruent` and `PassFits` (a pass from an empty cache is
within its budget). TLC checks the parts of `CacheInv`, and that
`Roomy` holds, on the instance of `cache`.

`ComponentHistory_proofs` is about the registry, for any number of hosts, pages,
definitions, nodes and batches:

- `GraphStaysAcyclic`: `InsertOnPages => (Spec => []GraphAcyclic)`. No definition
  ever embeds itself, as long as instances are inserted on pages only; with an
  instance inserted in a Source it is false (`nested_in_itself`).
- `RevisionsAlwaysMove`: `Spec => RevisionMoves`, without hypotheses.

The document being acyclic is not inductive: an undo brings back a definition or an
instance that was deleted long ago, into a document other hosts have changed since,
and nothing on that path looks at cycles except for whole definitions. `GraphInv`
says that there is one relation `T` on the places ever `named` that is transitive
and never relates a place to itself (`Orders`), such that every use in the document
is a pair of `T` (`Within`) *and* every entry of every stack, applied to any
document within `T`, leaves it within `T` (`StackAllowed`, `Allowed`). `T` is not
the graph of the document: it only grows, with the names. A new definition is put
below everything its tree embeds (`Under`), one that is extracted between the place
it is taken from and what that place embeds (`Between`); `UnderOrders` and
`BetweenOrders` show that both leave an order. Component ids are never used twice,
so a new name is at the end of no pair of `T`.

Per command there is one lemma (`CreateSteps` … `ExtractSteps`, together
`CommandSteps`): from a document within `T` an allowed command leads to one
(`Leads`), and each command of its inverse is allowed and names no definition that
the document did not have (`Backs`). `FoldSteps` carries that through a batch by induction
along its commands, `SettledForm` and `AppliedSteps` through the settling of
revisions, and one lemma per action (`…Keeps`) through the step of a host.

For revisions, the command lemmas say which definitions a command leaves as they
are (all that it does not touch), and `MovedForm` that settling moves what was
touched. A batch that deletes a definition and brings it back could hide a change
from `Settled`; `Pure` says that no entry does both, and is kept because an inverse
brings only if the command deleted and the other way round.

`ComponentIds_proofs` goes on from there, again for any number of hosts:

- `IdsStayUnique`: `Spec => []UniqueIds`, without hypotheses. A node id occurs once in
  the whole document, on pages and in Sources (INV-2). The commands that register a
  definition, extract or detach refuse ids that are in use, `node.create` and an
  insert do not look, and the inverses bring back ids that were in use before, in
  documents other hosts have changed since.

The strengthening `IdsInv` says three things. The document is `Planted`: the trees
of its pages and Sources are trees (a parent is there, is no instance, nothing is
below itself) and share no id; without the shape a deletion would not take what its
inverse brings. Every stack entry is `Loaded`: a batch may free an id and bring it
again (the inverse of an extraction takes the instance out before it brings the
selection back, that of a detach deletes the node it recreates), so of each command
is said what it `Brings` and what it `Frees`, and of a batch that nothing is brought
twice without being freed in between (`Tidy`). And what an entry `Needs`, the ids it
brings before it frees them, is neither in the document nor needed by any other
entry of any host.

Per command there is a lemma (`CreateAnswers` … `DetachAnswers`): the document it leads
to is planted, holds nothing but what was there and what it brought, and its inverse
needs only ids that are gone (`Answers`). Grafting, pruning and renaming trees
(`GraftGrown`, `PruneGrown`, `RemapGrown`) are the facts about trees these rest on, and
`LaidGrown` with `ParentIn` that the expansion a detach writes out is one tree.
`BatchIds` carries `Answers` along a batch: half-way through, what is still needed by
the commands left and by the inverse so far is not in the document, and what both
need is an id that was freed and comes back by its own command (`Midway`). `StackIds`
hands the needs of the entries from step to step, as `HoldersStayApart` does for node
commands, and `RecordIds`, `MoveIds` apply it to a submission and to an undo or redo.
The batch that detaches every instance of a Source and deletes it needs one thing
more: that a detach leaves the other instances where they are and their expansion as
it was (`DetachedElsewhere`), since the ids for all of them are drawn beforehand.

`ComponentReferences_proofs` is about one host:

- `NothingDangles`: `OneHost /\ NoneIsNoSource => (Spec => []NoDangling)`. No instance is
  ever without its definition (LC-DELETE). A deletion checks that nothing refers to
  the definition, but an undo that brings a subtree with instances back checks
  nothing: that their definitions are there follows from the order in which the
  stacks are emptied. `OneHost` is needed: what another host deletes in between is not
  there when the undo comes. `NoneIsNoSource` says that the absence of a registry
  entry is not a definition record, and holds of any model value.

`ReferenceInv` says that the document is `Sound` (every use finds its definition) and
that each stack is a `Chain`: its first entry `Carries` the definitions there are now
to those at the time before, the next one from there on, and so to the end. An entry
carries definitions `D` to `E` when there is a `Course`: sets of definitions, one after
each command, that follow from each other by what the commands add and delete, such
that no command mentions a definition that is not in its set. The commands of a batch
can depend on each other (the undo of an extraction deletes the definition last), so a
set for the whole batch would not do. Per command, `CommandReturns` shows that the
document stays sound and that the inverse carries what is defined afterwards back to
what was (`SteadyReturns`, `BirthReturns`, `DeleteReturns`); `FoldAlong` joins the
inverses of a batch in their reversed order (`CarriesJoin`), `SettledDefined` passes the
settling of revisions, and `RecordReturns` and `MoveReturns` push and pop.

`ImportSession_proofs` is about everything that is brought into a document, for any
number of documents, payloads, templates, presets and migrations, of any size:

- `TypeCorrect`: `Spec => []TypeOK`.
- `ImportsStaySound`: `Spec => []DocumentStaysSound` (identities and Registry, see
  section 3). Copying, pasting, opening or
  applying a template, resizing, undoing, saving, migrating and loading, in any order,
  leave a document whose node, page and asset ids are unique (INV-2) and whose
  Registry the graph check accepts: every instance has its Source, no Source contains
  itself, none is nested too deep, no binding leaves its tree.
- `PicturesSurvivePasting`: `Spec => []PastedPicturesKept`. Whatever keys the assets of
  the two documents have in common.
- `LocksAreHard`: `Spec => []LockedNodesKept`, for all templates and all values.
- `BatchesAreReversible`: `Spec => []UndoneOrRefused`. The inverse of what a template or
  a resize added leads back to the very document, or is refused as a whole;
  `template_undo` shows that it may be refused.

The inductive invariant is `SessionInv`. A sound document alone is not inductive: the
ids a paste or a template is given are new only if the document holds none that the
factory could still give, and an undo is only as good as the document it leads to. So
`Fresh` says, as long as no load has ended (after one the session imports nothing
more), that all ids and asset keys of the document and all asset keys on the clipboard
are below what was minted, and that the pending inverse, applied to the document there
is now, is refused or leads to its `to`, itself sound and below what was minted.
`Turning` says that a load under way runs on a sound document. TLC checks these parts
on the instance of `import`.

`SoundMeans` translates what the code computes (repeated ids in a list of all nodes,
depths in dependency order) into `Strong`: no two places hold the same id, every
Source has a depth and a bounded one, every local instance names a definition. One
group of lemmas per import carries `Strong` over it:

- pasting: `PastedIs` (new ids, pictures re-keyed where keys collide), `AddedStrong`;
- templates: `ClonedIs` and `CloneSound` (renaming all definitions one to one renames
  the dependency graph, `ChainRenamed`, and leaves its depths), `FilledSound` and
  `LocksKept` (a value is written where the slot leads, which is no locked node, because
  ids are translated one to one, `AllIdsIs`), `TemplateAdds`;
- resizing: `ResizeAdds` (each size has a block of ids of its own, `BlocksApart`);
- batches: `BatchSound` goes through the commands one by one. A template's Sources
  are created first, in the order of their names, then its pages; so half-way a Source
  may embed one that is still to come (`assertRegistryAddable` does not refuse an
  unknown reference). `HoldsUpTo` keeps all of `Strong` but the references
  (`Sturdy`), and these are restored at the end, when all commands were carried out
  (`RefsKnown`).
  `BatchReverted` undoes them in reverse: a command that is accepted puts back what
  its counterpart found (`InverseCarried`);
- loading: `GrownSound`, `Turned`, for a migration that adds a node under a new id.

What the session is handed is assumed sound (`SessionAssumption`): documents and
templates have unique ids and a Registry the graph check accepts, candidates to load do or exceed the budget, and assets
are filed under their own ids, also in the payloads of other builds. The
node and page ids of the documents and all asset keys are at most 100, where the
factory starts (`minted`): what is minted is new, as of `crypto.randomUUID`. Filing assets under their own ids is what
a copy does; `validateClipboardPayload` does not look at it, and a payload that files
an asset under another's id would be pasted as it is. Nothing is assumed of versions,
of capabilities, of the migrations that are registered, or of the values supplied.

`LibraryHistory_proofs` is about external components, for any library, any plan,
dependencies of any depth and any limits:

- `PublishedOnly`: `Spec => []TypeOK`, for any number of hosts. What is stored or
  branded has the content its reference's digest covers and sits under its own
  reference, in whatever order envelopes, answers, commands and undos come.
- `EntriesApply`: `Spec => []UndoApplies`, for one host that is `Attentive`.
- `HistoryIsALine`: `Spec => ExactHistory`, under the same hypotheses: the stacks
  implement `LinearHistory`.
- `NoHoleOpens`: `Spec => NoNewHole`, if the host is `Watchful` too. Nothing it sends
  or redoes leaves a reference without its snapshot that had one.

The hypotheses name the inputs of `Careful` (section 2): `Attentive` hosts send neither
of the first two, `Watchful` ones not the third. With a second host the theorems about
undo are false (`reused_snapshot`).

The invariants are `Stocked` and `Lined(h)`. `Stocked` says that the document is one,
that snapshots are as published and that every stack entry was made from such
(`Sound`). `Lined` says of both stacks that they are a `Chain`: next to the document
lies a version, next to that another, and the entry between two neighbours `Toggles`
them, which is to say that the one leads to the other with an inverse that leads
exactly back, and so for ever. Per command there is a lemma that a submission toggles
(`InsertToggles`, `ChangeToggles`, `RecoverToggles`, `CollectToggles`,
`VariantToggles`). An insert toggles because its instance is new and what it stores is
taken away again, while what was there before has the same content
(`SameSnapshot`: the digest decides it) and stays; a change of Source because it keeps
the instances it changes; a collection because collecting again finds the same. Undo
and redo hand an entry from one chain to the other (`ChainShrinks`, `ChainGrows`).
Toggling is not asked of a host: it is proved of whatever an attentive one may send.

For `NoHoleOpens`, two computations that the code keeps apart have to agree: the walk
that validates a closure, which keeps a visited set and stops at the first problem, and
the reachability that collection goes by. `WalkAnswers` says that a walk without a
problem has seen everything its root keeps alive (`Extends`), by induction along the
depth that is left and, for each visit, along the fold over its dependencies
(`DescentUnfolds`): a snapshot skipped because it was seen before is complete by the
end, though it may be half done when it is skipped. `StoringHoles` then shows that the
references that are reachable once a closure is stored were reachable before or belong
to the closure, and `CollectingHoles` that collection takes nothing that is reachable.
An undo may open a hole (of a recovery it has to), so only the entries for redo carry
that they do not (`Linked`).

What the hosts start from is assumed (`HistoryAssumption`): the stored snapshots are
published ones under their own references, the branded ones are what admission lets
through, and hosts offer the six commands of the libraries.

The assumptions of the other modules are: finitely many nodes and pages, kinds
disjoint, roots are groups, initial documents are trees with their roots in place,
and unused ids blank; for the cache, that every Source has a body, bodies are
sequences, and every instance is painted once; for the registry, that the hosts
start with a document that `validateComponentGraph` has nothing against and whose
nodes are trees with ids of their own, as nested children arrays and
`validateCanvasIRInvariants` leave them (`DocumentAssumption`).

The recursive functions of ResolutionCache (the levels of an expansion, the steps of
a pass), the fold of a batch and the levels of a detach in ComponentCommands, the
folds and the chain of depths in DocumentImport, the walk of a closure in
LibraryCommands are reasoned about with an induction
that the provers can do (`IntervalInduction`):
inclusion of finite sets is well founded (a fact of the library without operator
parameters), hence a set of numbers has a least member (`LeastNat`), hence induction
along an interval (`Induction`) and the equations of functions defined along one
(`PassUnfolds`, `WalkUnfolds`, `FlattenUnfolds`, `FoldedUnfolds`).

Everything else is only model-checked. The liveness properties are out of the
prover's reach, and so are the modules with RECURSIVE operators (`LayoutEngine`,
`BrandGovernance` and those that use them) and the induction
theorems of the library, which take an operator as a parameter. Of ComponentHistory,
`InverseExact` and `ReadOnlyOverrides` are not proved, of ImportSession
`BudgetVerdictIsRight` (its reference definition unfolds instances recursively: an
induction over data) and `ChainEnds` (liveness), of LibraryHistory
`AdmissionSettles` (liveness). Nothing is proved about
`DocumentHistory`. `LiteralsAreStrings` of DocumentImport says that the literals
the records are made of are in `STRING`: true of every literal, but not known to the
encodings of the provers.

## 5. Not modelled, and why

- SVG and PDF text (`serialize/*`), path, URI and geometry parsing, hashing:
  floating-point numbers and strings in one synchronous pass, no state a model
  checker tells apart. This is the largest uncovered part of the source.
- The Zod shapes of node kinds and provider contracts: shape only. The refinements
  that relate several fields (ids, roots, references, versions) are in
  DocumentImport.
- Floating-point rounding, line breaking, wrap and right-to-left text in the layout
  engine: integers and one axis decide the same comparisons.
- The resolution of a single override (`components/overrides.ts`) and the
  validation of a variant set: values are opaque; what a definition and a selection
  decide is in ComponentCommands and LibraryCommands.
- `replayChanges`, sequence numbers and record ids of change events.
- The compliance cache and the audit log of brand governance: a map whose key the
  host composes, and a record without effect.
- Extension registries of commands and node kinds: maps filled once.
- Telemetry, release controls, capabilities and dashboard: pure functions of what
  the caller passes.
- Names, labels, timestamps and metadata of commands.
- Crashes and restarts: nothing is persisted by the library. Lost or duplicated
  messages: it sends none; what collaborators may do to each other is the
  interleaving of hosts.

## 6. What could follow

1. Proofs: `InverseExact` of the registry for one host, from the trees and the
   ownership of ids that `IdsStayUnique` rests on; the refinement of
   `LinearHistory` by DocumentHistory, as `UndoKeepsALine` and `HistoryIsALine` have
   it for the node commands and the libraries.
2. Replay of change records as a second reader of the same transactions, and the
   extension runtime's batches as a refinement of `ComponentHistory`'s `Folded`.
3. Resolution of overrides and variants below `ResolutionCache`.
4. The layout engine's wrap and line breaking on integer widths.
