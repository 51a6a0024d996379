--------------------------- MODULE DocumentHistory ---------------------------
(***************************************************************************)
(* One host edits a document with the commands of DocumentCommands through *)
(* applyCommand and applyCommands (src/commands/transaction.ts), keeps the *)
(* inverses on its stacks, and hands every change to its autosave and      *)
(* collaboration as the records of src/commands/change-events.ts.          *)
(***************************************************************************)
EXTENDS DocumentCommands

CONSTANTS Plans,       \* what the host has and does: a first document and command types
          Positions,   \* coordinates
          Widths,      \* widths, all even, so that recentring is exact
          Page,        \* page ids
          Careless,    \* the inputs a careful host never sends, see Careful
          MaxHistory,  \* bound: the entries of the two stacks
          MaxEntry     \* bound: the commands of an entry that is re-applied

-----------------------------------------------------------------------------
(* Documents. *)

Look == [x : Int, w : Nat, turn : Int, locked : BOOLEAN, path : Nat,
         layout : {"none", "row", "column"}, item : {"absent", "fill"},
         asset : Asset \cup {NoAsset}, opacity : Int, effects : Int, shadow : Int]

PageRecord == [id : Page, root : Roots, w : Nat, name : STRING, background : Int, layoutAids : Int]

Document == [kids : [Node -> Seq(Node)], look : [Node -> Look], pages : Seq(PageRecord),
             assets : [Asset -> Nat]]

(* At least one page, every page with an id and a root of its own; only     *)
(* containers have children, and every node but the roots is in one array   *)
(* at most, once.                                                           *)
Planted(d) ==
    /\ d.pages # <<>>
    /\ \A i, j \in DOMAIN d.pages :
         i # j => d.pages[i].id # d.pages[j].id /\ d.pages[i].root # d.pages[j].root
    /\ \A n \in Node :
         /\ n \notin Containers => d.kids[n] = <<>>
         /\ IsInjective(d.kids[n])
         /\ Range(d.kids[n]) \cap Roots = {}
         /\ \A m \in Node \ {n} : Range(d.kids[m]) \cap Range(d.kids[n]) = {}

(* An id that is not in the document has no children and no fields, and the *)
(* box of a root is that of its page, whose width can be halved.            *)
WellFormed(d) ==
    /\ d \in Document
    /\ Planted(d)
    /\ \A n \in Node \ Live(d) : d.kids[n] = <<>> /\ d.look[n] = Blank
    /\ \A i \in DOMAIN d.pages :
         d.look[d.pages[i].root].w = d.pages[i].w /\ d.pages[i].w % 2 = 0

CommandTypes ==
    {"node.delete", "node.move", "node.rotate", "node.resize", "node.applyStyle", "image.replace",
     "frame.set-layout", "frame.remove-layout", "wrap", "page.create", "page.delete",
     "page.rename", "page.duplicate", "page.reorder", "page.resize", "page.set",
     "asset.put", "asset.remove", "asset.migrate"}

(* page.resize looks at no lock, the update that undoes it does: a host     *)
(* under enforceLocked does not resize pages.                               *)
ASSUME HistoryAssumption ==
    /\ Positions \subseteq Int
    /\ Widths \subseteq Nat /\ \A w \in Widths : w % 2 = 0
    /\ MaxHistory \in Nat /\ MaxEntry \in Nat
    /\ \A p \in Plans :
         /\ p.enforce \in BOOLEAN /\ WellFormed(p.doc)
         /\ p.offers \cup p.second \subseteq CommandTypes
         /\ p.enforce => "page.resize" \notin p.offers \cup p.second

VARIABLES plan,    \* the element of Plans this behaviour follows
          doc,     \* the document
          minted,  \* the node and page ids ever used: uuids, never reused
          undo,    \* inverses, newest first
          redo,    \* inverses of undone commands, newest first
          past,    \* history variables: the versions before doc, newest first,
          future   \* and the undone ones, nearest first

vars == <<plan, doc, minted, undo, redo, past, future>>

Ids(d) == Live(d) \cup PageIds(d)

Init ==
    /\ plan \in Plans
    /\ doc = plan.doc
    /\ minted = Ids(plan.doc)
    /\ undo = <<>>
    /\ redo = <<>>
    /\ past = <<>>
    /\ future = <<>>

-----------------------------------------------------------------------------
(* commandToChangeRecord: the page a change is recorded for.  Page and      *)
(* asset commands name theirs or none, an added node's command carries the  *)
(* page, and for any other node the page is looked up in the document the   *)
(* command meets: no page, no record, and applyCommands throws.             *)

RecordedPages_CommandOnly(d, c) == IF "page" \in DOMAIN c THEN {c.page} ELSE {}

RecordedPages(d, c) ==
    CASE c.type = "node.create"                                     -> c.page
      [] c.type \in {"asset.put", "asset.remove", "asset.migrate"}  -> {"document"}
      [] "page" \in DOMAIN c                                        -> {c.page}
      [] OTHER                                                      -> PagesOf(d, c.node)

TransactionStep(e, state, c) ==
    UNION {IF RecordedPages(s[1], c) = {} THEN Refused
           ELSE {<<r[1], LeavesOf(r[2]) \o s[2]>> : r \in Single(e, s[1], c)} : s \in state}

(* applyCommands: every leaf command of the list is recorded against the    *)
(* document as it stands just before it, then applied.                      *)
Transaction(e, d, cs) ==
    {<<r[1], [type |-> "batch", commands |-> r[2]]>>
       : r \in FoldLeft(LAMBDA s, c : TransactionStep(e, s, c), Done(d, <<>>),
                        FlattenSeq([i \in DOMAIN cs |-> LeavesOf(cs[i])]))}

-----------------------------------------------------------------------------
(* What the host sends.                                                     *)

Shift(n) == [node |-> n, patch |-> [x |-> 3]]

(* Geometry for no node, for one, for two in order, and twice for one. *)
WriteLists(d) ==
    LET box(n) == [node |-> n, patch |-> [x |-> 2, w |-> 2]]
        fill(n) == [node |-> n, patch |-> [item |-> "fill"]]
    IN  {<<>>} \cup {<<box(n)>> : n \in Live(d) \ Roots}
        \cup {<<fill(m), box(n)>> : m, n \in Live(d) \ Roots}
        \cup {<<Shift(n), box(n)>> : n \in Live(d) \ Roots}

NewPage(p, r) ==
    [type |-> "page.create", at |-> 1, nodes |-> r :> [kids |-> <<>>, look |-> [Blank EXCEPT !.w = 4]],
     page |-> [id |-> p, root |-> r, w |-> 4, name |-> "new", background |-> 0, layoutAids |-> 0]]

(* The fresh ids of a copy: a node keeps its kind. *)
Copies(d, p) ==
    LET below == Below(d, d.pages[PageAt(d, p)].root)
        kind(n) == <<n \in Roots, n \in Frames, n \in Images>>
    IN  {as \in [below -> Node \ minted] :
           /\ \A m, n \in below : as[m] = as[n] => m = n
           /\ \A n \in below : kind(n) = kind(as[n])}

Offers(t, d) ==
    CASE t = "node.delete"  -> {[type |-> t, node |-> n] : n \in Live(d)}
      [] t = "node.move"    -> {MoveC(n, d.look[n].x, x) : n \in Live(d), x \in Positions}
      [] t = "node.rotate"  -> {RotateC(n, d.look[n].turn, x) : n \in Live(d), x \in Positions}
      [] t = "node.resize"  -> {[type |-> t, node |-> n, x |-> x, w |-> w] :
                                  n \in Live(d), x \in Positions, w \in Widths}
      [] t = "node.applyStyle" ->
           {[type |-> t, node |-> n, style |-> s] :
              n \in Live(d), s \in {[opacity |-> 2, effects |-> 1], [effects |-> 2]}}
      [] t = "image.replace" -> {ReplaceC(n, d.look[n].asset, a) : n \in Live(d), a \in Asset}
      [] t = "frame.set-layout" -> {SetLayoutC(n, l, ws) : n \in Live(d), l \in {"row", "column"},
                                                           ws \in WriteLists(d)}
      [] t = "frame.remove-layout" -> {RemoveLayoutC(n, ws) : n \in Live(d), ws \in WriteLists(d)}
      [] t = "wrap" -> {[type |-> t, frame |-> f, kids |-> s, page |-> p, x |-> 2, w |-> 4,
                         layout |-> "row", writes |-> ws] :
                          f \in Frames \ minted, s \in UNION {SUBSET Range(d.kids[n]) : n \in Live(d)}, p \in PageIds(d),
                          ws \in WriteLists(d) \cup {<<Shift(n)>> : n \in Frames \ minted}}
      [] t = "page.create" -> {NewPage(p, r) : p \in Page \ minted, r \in Roots \ minted}
      [] t = "page.delete" -> {PageDeleteC(p) : p \in PageIds(d)}
      [] t = "page.rename" -> {RenameC(p, d.pages[PageAt(d, p)].name, "new") : p \in PageIds(d)}
      [] t = "page.duplicate" ->
           UNION {{[type |-> t, page |-> p, new |-> q, as |-> as] :
                     q \in Page \ minted, as \in Copies(d, p)} : p \in PageIds(d)}
      [] t = "page.reorder" -> {PageReorderC(p, PageAt(d, p), to) :
                                  p \in PageIds(d), to \in DOMAIN d.pages}
      [] t = "page.resize" -> {PageResizeC(p, w, m) : p \in PageIds(d), w \in Widths,
                                 m \in {"canvas-only", "scale-content", "recenter"}}
      [] t = "page.set" -> {SetPageC(p, f, 1) : p \in PageIds(d), f \in {"background", "layoutAids"}}
      [] t = "asset.put" -> {PutC(a, v) : a \in Asset, v \in 1 .. 2}
      [] t = "asset.remove" -> {RemoveC(a) : a \in Asset}
      [] t = "asset.migrate" -> {MigrateC(a, b, v) : a \in Asset, b \in Asset, v \in 1 .. 2}

(* A resize whose rescaled path shape rounds to the same shape, there or    *)
(* back: no shape is recorded then, and the way back rounds elsewhere.      *)
Rounded(d, n, w) == RescalesPath(d, n, w) /\ ScaledPath(d, n, w) = d.look[n].path

RoundsAway(d, n, w) ==
    \/ Rounded(d, n, w)
    \/ Rounded(Patched(d, n, [w |-> w, path |-> Reshaped(d, n, w)]), n, d.look[n].w)

(* Two neighbours are selected behind a sibling, itself behind the first    *)
(* selected one, that is not.                                               *)
Scattered(d, kids) ==
    LET s == d.kids[Holder(d, kids)]
    IN  \E f, g, i \in DOMAIN s :
          /\ f < g /\ g < i /\ i + 1 \in DOMAIN s
          /\ {s[f], s[i], s[i + 1]} \subseteq kids /\ s[g] \notin kids

(* The inputs whose undo is not exact or does not apply: the root of a page *)
(* resized as a node, a resize that rounds a path shape away, a property of *)
(* a node written twice by one list, a layout for a frame that holds more   *)
(* than the ceiling, a reference that dangles on the id an asset migrates   *)
(* to, a scattered selection, the geometry of a clipped node or of the new  *)
(* frame among the writes of a wrap.  A careful host sends none of them.    *)
Careful(d, c) ==
    /\ "root resize" \in Careless \/ ~(c.type = "node.resize" /\ c.node \in Roots)
    /\ "rounding" \in Careless \/ ~(c.type = "node.resize" /\ RoundsAway(d, c.node, c.w))
    /\ "composite" \in Careless \/ ~(c.type = "frame.set-layout" /\ d.look[c.node].layout = "none"
                                      /\ CountSubtree(d, c.node) - 1 > MaxComposite)
    /\ "scattered" \in Careless \/ ~(c.type = "wrap" /\ c.kids # {} /\ Scattered(d, c.kids))
    /\ "twice" \in Careless \/ ~("writes" \in DOMAIN c /\ Len(c.writes) = 2
                                  /\ c.writes[1].node = c.writes[2].node
                                  /\ DOMAIN c.writes[1].patch \cap DOMAIN c.writes[2].patch # {})
    /\ "dangling" \in Careless \/ ~(c.type = "asset.migrate" /\ c.from # c.to
                                    /\ Referrers(d, c.to) # {})
    /\ "clip" \in Careless \/ ~(c.type = "wrap" /\ \E i \in DOMAIN c.writes :
                                   "w" \in DOMAIN c.writes[i].patch
                                   /\ d.look[c.writes[i].node].path > 0)
    /\ "new frame" \in Careless \/ ~(c.type = "wrap" /\ \E i \in DOMAIN c.writes :
                                                          c.writes[i].node = c.frame)

Sent(t, d) == {c \in Offers(t, d) : Careful(d, c)}

-----------------------------------------------------------------------------
(* The steps.                                                               *)

Commit(r) ==
    /\ doc' = r[1]
    /\ undo' = <<r[2]>> \o undo
    /\ redo' = <<>>
    /\ past' = <<doc>> \o past
    /\ future' = <<>>
    /\ minted' = minted \cup Ids(r[1])
    /\ UNCHANGED plan

Submit ==
    /\ Len(undo) + Len(redo) < MaxHistory
    /\ \E t \in plan.offers : \E c \in Sent(t, doc) : \E r \in Core(plan.enforce, doc, c) : Commit(r)

(* Two commands, the second made for the document the first one leaves, as  *)
(* one transaction.                                                         *)
Transact ==
    /\ Len(undo) + Len(redo) < MaxHistory
    /\ \E t \in plan.offers : \E c1 \in Sent(t, doc) : \E mid \in Core(plan.enforce, doc, c1) :
       \E u \in plan.second : \E c2 \in Sent(u, mid[1]) :
       \E r \in Transaction(plan.enforce, doc, <<c1, c2>>) : Commit(r)

Undo ==
    /\ undo # <<>>
    /\ Len(LeavesOf(Head(undo))) <= MaxEntry
    /\ \E r \in Core(plan.enforce, doc, Head(undo)) :
         /\ doc' = r[1]
         /\ redo' = <<r[2]>> \o redo
    /\ undo' = Tail(undo)
    /\ past' = Tail(past)
    /\ future' = <<doc>> \o future
    /\ UNCHANGED <<plan, minted>>

Redo ==
    /\ redo # <<>>
    /\ Len(LeavesOf(Head(redo))) <= MaxEntry
    /\ \E r \in Core(plan.enforce, doc, Head(redo)) :
         /\ doc' = r[1]
         /\ undo' = <<r[2]>> \o undo
    /\ redo' = Tail(redo)
    /\ past' = <<doc>> \o past
    /\ future' = Tail(future)
    /\ UNCHANGED <<plan, minted>>

Next ==
    \/ Submit
    \/ Transact
    \/ Undo
    \/ Redo

Spec == Init /\ [][Next]_vars

-----------------------------------------------------------------------------
(* Properties. *)

(* The document stays one, and stack entries are commands.                  *)
TypeOK ==
    /\ WellFormed(doc)
    /\ \A i \in DOMAIN undo : \A k \in DOMAIN LeavesOf(undo[i]) :
         LeavesOf(undo[i])[k].type \in CommandTypes
                                       \cup {"node.create", "node.update", "node.reorder", "node.reparent"}

(* The stacks of inverses implement the line of versions: whatever mix of   *)
(* commands, transactions, undos and redos came before, undo and redo lead  *)
(* to the exact version.                                                    *)
Line == INSTANCE LinearHistory WITH present <- doc

ExactHistory == Line!Spec

(* The host can always undo, and redo what it undid: the newest entry of    *)
(* each stack is accepted by the document it meets.  A host that goes       *)
(* through applyCommands can do so too: the entry can be recorded, each of  *)
(* its commands against the document the ones before it leave, and has the  *)
(* same effect.                                                             *)
UndoApplies ==
    \A stack \in {undo, redo} : stack # <<>> =>
        LET after == {r[1] : r \in Core(plan.enforce, doc, Head(stack))}
        IN  /\ after # {}
            /\ after = {r[1] : r \in Transaction(plan.enforce, doc, <<Head(stack)>>)}

(* The distance a change record reports for a move is computed from the     *)
(* command alone (to minus from); it is the distance the node really moves, *)
(* for the moves that undo and redo re-apply as well.                       *)
FromIsCurrent ==
    \A stack \in {undo, redo} :
        stack # <<>> /\ Head(stack).type = "node.move"
        => doc.look[Head(stack).node].x = Head(stack).from

(* The undo of a wrap puts the children back in their order: "node.reorder  *)
(* then restores the exact permutation" (src/commands/runtime.ts:1322).     *)
UndoRestoresOrder ==
    undo # <<>> => \A r \in Core(plan.enforce, doc, Head(undo)) : r[1].kids = Head(past).kids

=============================================================================
