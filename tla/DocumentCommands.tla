-------------------------- MODULE DocumentCommands --------------------------
(***************************************************************************)
(* The commands of src/commands/runtime.ts beyond the tree of NodeCommands: *)
(* geometry and style, Auto Layout intent, pages and assets, the batch, and *)
(* the tree commands their inverses are made of.                           *)
(*                                                                         *)
(* A document holds the children array of every container, a look (the     *)
(* fields) per node, the array of pages and the asset table.  Geometry     *)
(* keeps one axis.  Arrays are sequences: an index here is one more than   *)
(* the code's.                                                             *)
(*                                                                         *)
(* Core(e, d, c) is the outcome of command c on document d under the       *)
(* option enforceLocked e: empty when the command throws, else the pair of *)
(* the document and of the inverse that applyCommand returns.              *)
(***************************************************************************)
EXTENDS Integers, FiniteSets, SequencesExt

CONSTANTS Roots,         \* ids of page roots
          Frames,        \* ids of frames
          Images,        \* ids of leaves of kind image
          Rects,         \* ids of leaves of kind rect
          Asset,         \* asset ids
          NoAsset,       \* the assetId of a node that has none
          MaxComposite,  \* MAX_COMPOSITE_COMMAND_DESCENDANTS of src/limits.ts
          MaxDepth       \* bound: the depth of the trees

Node == Roots \cup Frames \cup Images \cup Rects

Containers == Roots \cup Frames

ASSUME DocumentAssumption ==
    /\ NoAsset \notin Asset
    /\ MaxComposite \in Nat /\ MaxDepth \in Nat

(* path is the width that the d of a frame's path shape is drawn for (0: no *)
(* such shape).                                                             *)
Blank == [x |-> 0, w |-> 0, turn |-> 0, locked |-> FALSE, path |-> 0, layout |-> "none",
          item |-> "absent", asset |-> NoAsset, opacity |-> 1, effects |-> 0, shadow |-> 0]

-----------------------------------------------------------------------------
(* Reading a document. *)

Below(d, n) ==
    FoldLeft(LAMBDA S, i : S \cup UNION {Range(d.kids[m]) : m \in S}, {n},
             [i \in 1 .. MaxDepth |-> i])

Live(d) == UNION {Below(d, d.pages[i].root) : i \in DOMAIN d.pages}

ParentsOf(d, n) == {p \in Containers : n \in Range(d.kids[p])}

ParentOf(d, n) == CHOOSE p \in Containers : n \in Range(d.kids[p])

IndexIn(s, n) == CHOOSE i \in DOMAIN s : s[i] = n

IndexOf(d, n) == IndexIn(d.kids[ParentOf(d, n)], n)

PageIds(d) == {d.pages[i].id : i \in DOMAIN d.pages}

PageAt(d, p) == CHOOSE i \in DOMAIN d.pages : d.pages[i].id = p

(* pageOf: the pages whose tree holds the node (one at most). *)
PagesOf(d, n) == {d.pages[i].id : i \in {j \in DOMAIN d.pages : n \in Below(d, d.pages[j].root)}}

(* assertUnlocked and expectNode. *)
Editable(e, d, n) == n \in Live(d) /\ ~(e /\ d.look[n].locked)

Movable(e, d, n) == Editable(e, d, n) /\ n \notin Roots

Clamp(i, low, high) == IF i < low THEN low ELSE IF i > high THEN high ELSE i

Refused == {}

(* d = d has TLC evaluate the new document once, not at each later use. *)
Done(d, inverse) == {r \in {<<d, inverse>>} : d = d}

-----------------------------------------------------------------------------
(* Patches: a function from some field names to values.  updateNode merges  *)
(* it; the inverse patch has the same keys with their prior values.         *)

Patched(d, n, patch) == [d EXCEPT !.look[n] = patch @@ d.look[n]]

Prior(d, n, patch) == [k \in DOMAIN patch |-> d.look[n][k]]

NodeUpdateC(n, patch) == [type |-> "node.update", node |-> n, patch |-> patch]

(* framePathShapeForResize: a new box rescales the path shape of a frame,   *)
(* rounding as scalePathData does; degenerate boxes and an equal box leave  *)
(* it alone.                                                                *)
RescalesPath(d, n, w) ==
    /\ n \in Frames
    /\ d.look[n].path > 0
    /\ d.look[n].w > 0 /\ w > 0 /\ w # d.look[n].w

ScaledPath(d, n, w) == (d.look[n].path * w) \div d.look[n].w

Reshaped(d, n, w) == IF RescalesPath(d, n, w) THEN ScaledPath(d, n, w) ELSE d.look[n].path

(* node.update: a patch of the box carries the path shape along, unless it  *)
(* sets the shape itself; the inverse restores what the patch really wrote. *)
EffectivePatch(d, c) ==
    IF "w" \in DOMAIN c.patch /\ "path" \notin DOMAIN c.patch /\ RescalesPath(d, c.node, c.patch["w"])
    THEN c.patch @@ [path |-> ScaledPath(d, c.node, c.patch["w"])]
    ELSE c.patch

Update(e, d, c) ==
    IF Editable(e, d, c.node)
    THEN Done(Patched(d, c.node, EffectivePatch(d, c)),
              NodeUpdateC(c.node, Prior(d, c.node, EffectivePatch(d, c))))
    ELSE Refused

-----------------------------------------------------------------------------
(* The tree commands, as array splices.                                     *)

(* The nodes of S with their arrays and fields, as a payload carries them. *)
Payload(d, S) == [n \in S |-> [kids |-> d.kids[n], look |-> d.look[n]]]

WithNodes(d, nodes) ==
    [d EXCEPT !.kids = [n \in DOMAIN nodes |-> nodes[n].kids] @@ @,
              !.look = [n \in DOMAIN nodes |-> nodes[n].look] @@ @]

WithoutNodes(d, S) ==
    [d EXCEPT !.kids = [n \in S |-> <<>>] @@ @, !.look = [n \in S |-> Blank] @@ @]

NodeDeleteC(n) == [type |-> "node.delete", node |-> n]

NodeCreateC(d, n) ==
    [type |-> "node.create", node |-> n, nodes |-> Payload(d, Below(d, n)), page |-> PagesOf(d, n),
     parent |-> ParentOf(d, n), at |-> IndexOf(d, n)]

Create(e, d, c) ==
    IF c.parent \in Live(d) \cap Containers /\ c.at \in 1 .. Len(d.kids[c.parent]) + 1
    THEN Done(WithNodes([d EXCEPT !.kids[c.parent] = InsertAt(@, c.at, c.node)], c.nodes),
              NodeDeleteC(c.node))
    ELSE Refused

Delete(e, d, c) ==
    IF Movable(e, d, c.node)
    THEN Done(WithoutNodes([d EXCEPT !.kids[ParentOf(d, c.node)] = Remove(@, c.node)],
                           Below(d, c.node)),
              NodeCreateC(d, c.node))
    ELSE Refused

(* The index is clamped: to the array without the node. *)
Reorder(e, d, c) ==
    IF Movable(e, d, c.node)
    THEN LET p == ParentOf(d, c.node)
         IN  Done([d EXCEPT !.kids[p] = InsertAt(Remove(@, c.node), Clamp(c.at, 1, Len(@)), c.node)],
                  [c EXCEPT !.at = IndexOf(d, c.node)])
    ELSE Refused

Reparent(e, d, c) ==
    IF /\ Movable(e, d, c.node)
       /\ c.parent \in (Live(d) \cap Containers) \ Below(d, c.node)
       /\ PagesOf(d, c.parent) = PagesOf(d, c.node)
    THEN LET out == [d EXCEPT !.kids[ParentOf(d, c.node)] = Remove(@, c.node)]
         IN  Done([out EXCEPT !.kids[c.parent] =
                                InsertAt(@, Clamp(c.at, 1, Len(@) + 1), c.node)],
                  [c EXCEPT !.parent = ParentOf(d, c.node), !.at = IndexOf(d, c.node)])
    ELSE Refused

-----------------------------------------------------------------------------
(* node.move and node.rotate carry the value they start from, for the       *)
(* change record only: the inverse restores what the node really had.       *)

MoveC(n, from, to) == [type |-> "node.move", node |-> n, from |-> from, to |-> to]

RotateC(n, from, to) == [type |-> "node.rotate", node |-> n, from |-> from, to |-> to]

MoveBack_Swapped(d, c) == MoveC(c.node, d.look[c.node].x, d.look[c.node].x)

MoveBack(d, c) == MoveC(c.node, c.to, d.look[c.node].x)

Move(e, d, c) ==
    IF Editable(e, d, c.node)
    THEN Done(Patched(d, c.node, [x |-> c.to]), MoveBack(d, c))
    ELSE Refused

Rotate(e, d, c) ==
    IF Editable(e, d, c.node)
    THEN Done(Patched(d, c.node, [turn |-> c.to]), RotateC(c.node, c.to, d.look[c.node].turn))
    ELSE Refused

(* node.resize: the inverse restores the shape itself, after the box.       *)
ResizeBack(d, c) ==
    [type |-> "node.resize", node |-> c.node, x |-> d.look[c.node].x, w |-> d.look[c.node].w]

ResizeInverse(d, c) ==
    IF Reshaped(d, c.node, c.w) # d.look[c.node].path
    THEN [type |-> "batch",
          commands |-> <<ResizeBack(d, c), NodeUpdateC(c.node, [path |-> d.look[c.node].path])>>]
    ELSE ResizeBack(d, c)

Resize(e, d, c) ==
    IF Editable(e, d, c.node)
    THEN Done(Patched(d, c.node, [x |-> c.x, w |-> c.w, path |-> Reshaped(d, c.node, c.w)]),
              ResizeInverse(d, c))
    ELSE Refused

(* node.applyStyle: the payload's keys the node's kind can receive.  A      *)
(* pasted effects list replaces the legacy shadow.                          *)
StyleKeys(n) == IF n \in Rects THEN {"opacity", "effects"} ELSE {"opacity"}

StylePatch(n, style) ==
    LET keys == DOMAIN style \cap StyleKeys(n)
        cleared == IF "effects" \in keys THEN {"shadow"} ELSE {}
    IN  [k \in keys \cup cleared |-> IF k \in keys THEN style[k] ELSE 0]

StyleInverse(d, c) == NodeUpdateC(c.node, Prior(d, c.node, StylePatch(c.node, c.style)))

ApplyStyle(e, d, c) ==
    IF Editable(e, d, c.node)
    THEN Done(Patched(d, c.node, StylePatch(c.node, c.style)), StyleInverse(d, c))
    ELSE Refused

ReplaceC(n, from, to) == [type |-> "image.replace", node |-> n, from |-> from, to |-> to]

Replace(e, d, c) ==
    IF Editable(e, d, c.node) /\ c.node \in Images /\ d.look[c.node].asset = c.from
    THEN Done([d EXCEPT !.look[c.node].asset = c.to], ReplaceC(c.node, c.to, c.from))
    ELSE Refused

-----------------------------------------------------------------------------
(* Auto Layout.  A geometry write patches x, w and item of one node, and    *)
(* leaves a path shape as it is; the writes are applied in order, the prior *)
(* values recorded in that order.                                           *)

CountSubtree(d, n) == Cardinality(Below(d, n))

WriteOne(e, state, write) ==
    UNION {IF ~Editable(e, s[1], write.node) THEN Refused
           ELSE IF DOMAIN write.patch = {} THEN {s}
           ELSE Done(Patched(s[1], write.node, write.patch),
                     Append(s[2], [write EXCEPT !.patch = Prior(s[1], write.node, @)]))
           : s \in state}

Written(e, d, writes) ==
    IF Len(writes) > MaxComposite THEN Refused
    ELSE FoldLeft(LAMBDA s, w : WriteOne(e, s, w), Done(d, <<>>), writes)

SetLayoutC(n, layout, writes) ==
    [type |-> "frame.set-layout", node |-> n, layout |-> layout, writes |-> writes]

RemoveLayoutC(n, writes) == [type |-> "frame.remove-layout", node |-> n, writes |-> writes]

LayoutInverse(d, n, prior) ==
    IF d.look[n].layout = "none" THEN RemoveLayoutC(n, prior)
    ELSE SetLayoutC(n, d.look[n].layout, prior)

SetLayout(e, d, c) ==
    IF Editable(e, d, c.node) /\ c.node \in Frames
    THEN UNION {Done([r[1] EXCEPT !.look[c.node].layout = c.layout], LayoutInverse(d, c.node, r[2]))
                  : r \in Written(e, d, c.writes)}
    ELSE Refused

RemoveLayout(e, d, c) ==
    IF /\ Editable(e, d, c.node) /\ c.node \in Frames
       /\ CountSubtree(d, c.node) - 1 <= MaxComposite
    THEN UNION {Done([r[1] EXCEPT !.look[c.node].layout = "none"], LayoutInverse(d, c.node, r[2]))
                  : r \in Written(e, d, c.writes)}
    ELSE Refused

(* selection.wrap-in-layout-frame: siblings of one page become the children *)
(* of a new frame at the slot of the first.  Its inverse is a batch of      *)
(* existing commands: the children go back by their old index, the frame is *)
(* deleted, and reorders by the old index restore the exact permutation.    *)
WrapAccepts(e, d, c) ==
    /\ c.kids # {} /\ c.frame \notin Live(d)
    /\ \A n \in c.kids : Movable(e, d, n) /\ c.page \in PagesOf(d, n)
    /\ \A m, n \in c.kids : ParentOf(d, m) = ParentOf(d, n)
    /\ MapThenSumSet(LAMBDA n : CountSubtree(d, n), c.kids) <= MaxComposite

(* The parent of a selection, and the selection in document order. *)
Holder(d, kids) == ParentOf(d, CHOOSE n \in kids : TRUE)

InOrder(d, kids) == SelectSeq(d.kids[Holder(d, kids)], LAMBDA n : n \in kids)

Unselected(d, kids) == SelectSeq(d.kids[Holder(d, kids)], LAMBDA n : n \notin kids)

Wrapped(d, c) ==
    LET at == IndexOf(d, Head(InOrder(d, c.kids)))
    IN  [d EXCEPT !.kids[Holder(d, c.kids)] = InsertAt(Unselected(d, c.kids), at, c.frame),
                  !.kids[c.frame] = InOrder(d, c.kids),
                  !.look[c.frame] = [Blank EXCEPT !.x = c.x, !.w = c.w, !.layout = c.layout]]

PriorUpdates(prior) == [i \in DOMAIN prior |-> NodeUpdateC(prior[i].node, prior[i].patch)]

Returned(d, kids) ==
    [i \in DOMAIN InOrder(d, kids) |->
       [type |-> "node.reparent", node |-> InOrder(d, kids)[i], parent |-> Holder(d, kids),
        at |-> IndexOf(d, InOrder(d, kids)[i])]]

Replaced(d, kids) ==
    [i \in DOMAIN InOrder(d, kids) |->
       [type |-> "node.reorder", node |-> InOrder(d, kids)[i], at |-> IndexOf(d, InOrder(d, kids)[i])]]

WrapInverse_NoReorder(d, c, prior) ==
    [type |-> "batch",
     commands |-> Returned(d, c.kids) \o <<NodeDeleteC(c.frame)>> \o PriorUpdates(prior)]

WrapInverse(d, c, prior) ==
    [type |-> "batch",
     commands |-> Returned(d, c.kids) \o <<NodeDeleteC(c.frame)>> \o Replaced(d, c.kids)
                  \o PriorUpdates(prior)]

Wrap(e, d, c) ==
    IF WrapAccepts(e, d, c)
    THEN {<<r[1], WrapInverse(d, c, r[2])>> : r \in Written(e, Wrapped(d, c), c.writes)}
    ELSE Refused

-----------------------------------------------------------------------------
(* Pages.  Page commands look at no lock.                                   *)

PageDeleteC(p) == [type |-> "page.delete", page |-> p]

PageCreate(e, d, c) ==
    IF c.page.id \notin PageIds(d) /\ c.at \in 1 .. Len(d.pages) + 1
    THEN Done(WithNodes([d EXCEPT !.pages = InsertAt(@, c.at, c.page)], c.nodes),
              PageDeleteC(c.page.id))
    ELSE Refused

PageCreateC(d, i) ==
    [type |-> "page.create", page |-> d.pages[i], at |-> i,
     nodes |-> Payload(d, Below(d, d.pages[i].root))]

(* The last page stays: a document has one page at least. *)

PageDeleteInverse(d, i) == PageCreateC(d, i)

PageDelete(e, d, c) ==
    IF c.page \in PageIds(d) /\ Len(d.pages) > 1
    THEN LET i == PageAt(d, c.page)
         IN  Done(WithoutNodes([d EXCEPT !.pages = RemoveAt(@, i)], Below(d, d.pages[i].root)),
                  PageDeleteInverse(d, i))
    ELSE Refused

RenameC(p, from, to) == [type |-> "page.rename", page |-> p, from |-> from, to |-> to]

PageRename(e, d, c) ==
    IF c.page \in PageIds(d) /\ d.pages[PageAt(d, c.page)].name = c.from
    THEN Done([d EXCEPT !.pages[PageAt(d, c.page)].name = c.to], RenameC(c.page, c.to, c.from))
    ELSE Refused

(* regenerateNodeIds: c.as gives every node of the source page a fresh id.  *)
Reissued(nodes, as) ==
    [n \in Range(as) |->
       LET old == CHOOSE m \in DOMAIN as : as[m] = n
       IN  [kids |-> [i \in DOMAIN nodes[old].kids |-> as[nodes[old].kids[i]]],
            look |-> nodes[old].look]]

PageDuplicate(e, d, c) ==
    IF c.page \in PageIds(d) /\ c.new \notin PageIds(d)
    THEN LET i == PageAt(d, c.page)
             top == d.pages[i].root
             copy == [d.pages[i] EXCEPT !.id = c.new, !.root = c.as[top], !.name = "copy"]
         IN  Done(WithNodes([d EXCEPT !.pages = InsertAt(@, i + 1, copy)],
                            Reissued(Payload(d, Below(d, top)), c.as)),
                  PageDeleteC(c.new))
    ELSE Refused

PageReorderC(p, from, to) == [type |-> "page.reorder", page |-> p, from |-> from, to |-> to]

PageReorder(e, d, c) ==
    IF c.page \in PageIds(d) /\ PageAt(d, c.page) = c.from /\ c.to \in DOMAIN d.pages
    THEN Done([d EXCEPT !.pages = InsertAt(RemoveAt(@, c.from), c.to, d.pages[c.from])],
              PageReorderC(c.page, c.to, c.from))
    ELSE Refused

(* page.resize rewrites the root's box and, by mode, the children's x.      *)
ResizedX(from, x, c) ==
    CASE c.mode = "scale-content" /\ from # 0 -> (x * c.w) \div from
      [] c.mode = "recenter"                  -> x + (c.w - from) \div 2
      [] OTHER                                -> x

PageResizeC(p, w, mode) == [type |-> "page.resize", page |-> p, w |-> w, mode |-> mode]

PageResizeInverse(d, c, page) ==
    IF c.mode = "scale-content"
    THEN [type |-> "batch",
          commands |-> <<PageResizeC(c.page, page.w, "canvas-only")>>
                       \o [i \in DOMAIN d.kids[page.root] |->
                             NodeUpdateC(d.kids[page.root][i], [x |-> d.look[d.kids[page.root][i]].x])]]
    ELSE PageResizeC(c.page, page.w, c.mode)

PageResized(d, c, page) ==
    [d EXCEPT !.pages[PageAt(d, c.page)].w = c.w,
              !.look = (page.root :> [@[page.root] EXCEPT !.w = c.w])
                       @@ [n \in Range(d.kids[page.root]) |->
                             [d.look[n] EXCEPT !.x = ResizedX(page.w, @, c)]]
                       @@ @]

PageResize(e, d, c) ==
    IF c.page \in PageIds(d)
    THEN Done(PageResized(d, c, d.pages[PageAt(d, c.page)]),
              PageResizeInverse(d, c, d.pages[PageAt(d, c.page)]))
    ELSE Refused

(* page.set-background and page.set-layout-aids replace one field. *)
SetPageC(p, field, to) == [type |-> "page.set", page |-> p, field |-> field, to |-> to]

PageSet(e, d, c) ==
    IF c.page \in PageIds(d)
    THEN Done([d EXCEPT !.pages[PageAt(d, c.page)][c.field] = c.to],
              SetPageC(c.page, c.field, d.pages[PageAt(d, c.page)][c.field]))
    ELSE Refused

-----------------------------------------------------------------------------
(* Assets: d.assets[a] is the content of asset a, 0 when it is absent.      *)

PutC(a, content) == [type |-> "asset.put", asset |-> a, content |-> content]

RemoveC(a) == [type |-> "asset.remove", asset |-> a]

AssetPut(e, d, c) ==
    Done([d EXCEPT !.assets[c.asset] = c.content],
         IF d.assets[c.asset] = 0 THEN RemoveC(c.asset) ELSE PutC(c.asset, d.assets[c.asset]))

AssetRemove(e, d, c) ==
    IF d.assets[c.asset] # 0
    THEN Done([d EXCEPT !.assets[c.asset] = 0], PutC(c.asset, d.assets[c.asset]))
    ELSE Refused

(* replaceDocumentAssetReferences: every reference, on every page. *)
Rereferenced(d, from, to) ==
    [n \in Node |-> IF d.look[n].asset = from THEN [d.look[n] EXCEPT !.asset = to] ELSE d.look[n]]

Referrers(d, a) == {n \in Live(d) : d.look[n].asset = a}

MigrateC(from, to, content) ==
    [type |-> "asset.migrate", from |-> from, to |-> to, content |-> content]

MigrateInverse(d, c) == MigrateC(c.to, c.from, d.assets[c.from])

AssetMigrate(e, d, c) ==
    IF d.assets[c.from] # 0 /\ (c.to # c.from => d.assets[c.to] = 0)
    THEN Done([d EXCEPT !.look = Rereferenced(d, c.from, c.to),
                        !.assets = (c.to :> c.content) @@ (c.from :> 0) @@ d.assets],
              MigrateInverse(d, c))
    ELSE Refused

-----------------------------------------------------------------------------
(* applyCommandCore, without the batch.                                     *)

Single(e, d, c) ==
    CASE c.type = "node.create"         -> Create(e, d, c)
      [] c.type = "node.delete"         -> Delete(e, d, c)
      [] c.type = "node.reorder"        -> Reorder(e, d, c)
      [] c.type = "node.reparent"       -> Reparent(e, d, c)
      [] c.type = "node.move"           -> Move(e, d, c)
      [] c.type = "node.rotate"         -> Rotate(e, d, c)
      [] c.type = "node.resize"         -> Resize(e, d, c)
      [] c.type = "node.update"         -> Update(e, d, c)
      [] c.type = "node.applyStyle"     -> ApplyStyle(e, d, c)
      [] c.type = "image.replace"       -> Replace(e, d, c)
      [] c.type = "frame.set-layout"    -> SetLayout(e, d, c)
      [] c.type = "frame.remove-layout" -> RemoveLayout(e, d, c)
      [] c.type = "wrap"                -> Wrap(e, d, c)
      [] c.type = "page.create"         -> PageCreate(e, d, c)
      [] c.type = "page.delete"         -> PageDelete(e, d, c)
      [] c.type = "page.rename"         -> PageRename(e, d, c)
      [] c.type = "page.duplicate"      -> PageDuplicate(e, d, c)
      [] c.type = "page.reorder"        -> PageReorder(e, d, c)
      [] c.type = "page.resize"         -> PageResize(e, d, c)
      [] c.type = "page.set"            -> PageSet(e, d, c)
      [] c.type = "asset.put"           -> AssetPut(e, d, c)
      [] c.type = "asset.remove"        -> AssetRemove(e, d, c)
      [] c.type = "asset.migrate"       -> AssetMigrate(e, d, c)

(* applyBatch: all or nothing, the inverses newest first.  A batch in a     *)
(* batch is kept flat.                                                      *)
LeavesOf(c) == IF c.type = "batch" THEN c.commands ELSE <<c>>

BatchStep(e, state, c) ==
    UNION {{<<r[1], LeavesOf(r[2]) \o s[2]>> : r \in Single(e, s[1], c)} : s \in state}

Core(e, d, c) ==
    IF c.type # "batch" THEN Single(e, d, c)
    ELSE {<<r[1], [type |-> "batch", commands |-> r[2]]>>
            : r \in FoldLeft(LAMBDA s, sub : BatchStep(e, s, sub), Done(d, <<>>), c.commands)}

=============================================================================
