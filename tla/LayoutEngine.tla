---------------------------- MODULE LayoutEngine -----------------------------
(***************************************************************************)
(* The Auto Layout resolver: one pass over a document that gives every     *)
(* node its box and its place in its parent.                               *)
(*                                                                         *)
(* A document is a function from ids to nodes, children being sequences of *)
(* ids.  Lengths are integers counted in the solver's quantum; a node is   *)
(* turned by a quarter or not at all, and scaled by whole factors.         *)
(***************************************************************************)
EXTENDS Integers, Sequences, FiniteSets, SequencesExt, TLC

CONSTANTS NoLayout,       \* a frame without autoLayout
          Unset,          \* an extent the parent does not allocate
          NoFonts,        \* no measurement provider
          MaxTreeDepth,   \* MAX_TREE_DEPTH
          MaxRequests,    \* MAX_MEASUREMENT_REQUESTS
          MaxDiagnostics  \* MAX_RETAINED_DIAGNOSTICS

EmptyMap == <<>>
Horizontal == "h"
Vertical == "v"
Axes == {Horizontal, Vertical}
Other(a) == CHOOSE b \in Axes : b # a
AtLeast0(n) == IF n < 0 THEN 0 ELSE n
Larger(m, n) == IF m < n THEN n ELSE m
Extents(width, height) == [h |-> width, v |-> height]
Free == Extents(Unset, Unset)

(* The nodes below and at id, and its ancestors. *)
RECURSIVE Subtree(_, _)
Subtree(nodes, id) == {id} \union UNION {Subtree(nodes, k) : k \in ToSet(nodes[id].kids)}

ParentsOf(nodes, id) == {p \in DOMAIN nodes : id \in ToSet(nodes[p].kids)}

RECURSIVE Ancestors(_, _)
Ancestors(nodes, id) ==
    ParentsOf(nodes, id) \union UNION {Ancestors(nodes, p) : p \in ParentsOf(nodes, id)}

-----------------------------------------------------------------------------
(* The layout invariants, and the axes they take back to Fixed.            *)

Issue(code, id, axis, detail) == [code |-> code, node |-> id, axis |-> axis, detail |-> detail]

HasLayout(nodes, p) == nodes[p].kind = "frame" /\ nodes[p].auto # NoLayout

InFlowOfFrame(nodes, id) ==
    /\ ~nodes[id].absolute
    /\ \E p \in ParentsOf(nodes, id) : HasLayout(nodes, p)

FillsWithoutParent(nodes, id, a) == nodes[id].sizing[a] = "fill" /\ ~InFlowOfFrame(nodes, id)

CannotBeSized(nodes, id, a) ==
    \/ nodes[id].sizing[a] = "hug" /\ nodes[id].kind = "rect"
    \/ /\ nodes[id].sizing[a] = "fill" /\ nodes[id].kind = "text"
       /\ a = Horizontal /\ InFlowOfFrame(nodes, id)

SizesInCircle(nodes, id, a) ==
    /\ nodes[id].sizing[a] = "fill" /\ InFlowOfFrame(nodes, id)
    /\ \E p \in ParentsOf(nodes, id) : nodes[p].sizing[a] = "hug"

Sides(nodes) == {<<id, a>> : id \in DOMAIN nodes, a \in Axes}

validateLayoutInvariants(nodes) ==
    {Issue("fill-without-parent", s[1], s[2], 0) :
        s \in {t \in Sides(nodes) : FillsWithoutParent(nodes, t[1], t[2])}}
    \union
    {Issue("hug-unsupported", s[1], s[2], 0) : s \in {t \in Sides(nodes) : CannotBeSized(nodes, t[1], t[2])}}
    \union
    {Issue("circular-sizing", s[1], s[2], 0) : s \in {t \in Sides(nodes) : SizesInCircle(nodes, t[1], t[2])}}

buildSizingGraph(nodes) == {<<i.node, i.axis>> : i \in validateLayoutInvariants(nodes)}

effectiveSizing(env, id, a) ==
    IF <<id, a>> \in env.demoted THEN "fixed" ELSE env.nodes[id].sizing[a]

(* Page order, then tree order, then axis, then code. *)
RECURSIVE PreOrder(_, _)
PreOrder(nodes, id) == <<id>> \o FlattenSeq([k \in DOMAIN nodes[id].kids |-> PreOrder(nodes, nodes[id].kids[k])])

buildDocumentOrder(nodes, roots) == FlattenSeq([k \in DOMAIN roots |-> PreOrder(nodes, roots[k])])

Codes == <<"circular-sizing", "depth-exceeded", "fill-without-parent", "hug-unsupported",
           "insufficient-space", "materialization-stale", "measurement-missing">>
AxisRank == <<Unset, Horizontal, Vertical>>
RankIn(seq, x) == IF x \in ToSet(seq) THEN CHOOSE k \in DOMAIN seq : seq[k] = x ELSE 0

orderLayoutIssues(issues, order) ==
    LET rank(i) == <<RankIn(order, i.node), RankIn(AxisRank, i.axis), RankIn(Codes, i.code), i.detail>>
        before(i, j) == LET r == rank(i)  s == rank(j) IN
                        \E k \in DOMAIN r : r[k] < s[k] /\ \A l \in 1..(k - 1) : r[l] = s[l]
    IN SetToSortSeq(issues, before)

-----------------------------------------------------------------------------
(* Boxes and their footprints.                                             *)

(* The footprint of a box: its extents, and how far they reach before the origin. *)
shapeExtent(pose, bounds) ==
    LET wide == bounds.h * pose.scale.h  tall == bounds.v * pose.scale.v IN
    IF pose.turned THEN [size |-> Extents(tall, wide), start |-> Extents(-tall, 0)]
    ELSE [size |-> Extents(wide, tall), start |-> Extents(0, 0)]

(* The box whose footprint has the extents asked for: of a turned box each
   extent is made by the other dimension, so that one of them alone cannot be
   reached and the box stays as it is. *)
solveBounds(pose, target, current) ==
    IF ~pose.turned
    THEN [a \in Axes |-> IF target[a] = Unset THEN current[a] ELSE target[a] \div pose.scale[a]]
    ELSE IF Unset \in {target[a] : a \in Axes} THEN current
    ELSE [a \in Axes |-> target[Other(a)] \div pose.scale[a]]

applySizing_FoldsScale(env, id, allocation, intrinsic) ==
    LET n == env.nodes[id]
        mode == [a \in Axes |-> effectiveSizing(env, id, a)]
        pose == [turned |-> n.turned, scale |-> [a \in Axes |-> IF mode[a] = "fixed" THEN n.scale[a] ELSE 1]]
        hug == shapeExtent([pose EXCEPT !.scale = n.scale], intrinsic).size
        target == [a \in Axes |-> CASE mode[a] = "fixed" -> Unset
                                    [] mode[a] = "fill" /\ allocation[a] # Unset -> allocation[a]
                                    [] OTHER -> hug[a]]
        current == [a \in Axes |-> IF mode[a] = "fixed" THEN n.bounds[a] ELSE intrinsic[a]]
    IN [bounds |-> IF \A a \in Axes : mode[a] = "fixed" THEN n.bounds ELSE solveBounds(pose, target, current),
        pose |-> pose]

applySizing(env, id, allocation, intrinsic) ==
    LET n == env.nodes[id]
        mode == [a \in Axes |-> effectiveSizing(env, id, a)]
        pose == [turned |-> n.turned, scale |-> [a \in Axes |-> IF mode[a] = "fixed" THEN n.scale[a] ELSE 1]]
        hug == shapeExtent(pose, intrinsic).size
        target == [a \in Axes |-> CASE mode[a] = "fixed" -> Unset
                                    [] mode[a] = "fill" /\ allocation[a] # Unset -> allocation[a]
                                    [] OTHER -> hug[a]]
        current == [a \in Axes |-> IF mode[a] = "fixed" THEN n.bounds[a] ELSE intrinsic[a]]
    IN [bounds |-> IF \A a \in Axes : mode[a] = "fixed" THEN n.bounds ELSE solveBounds(pose, target, current),
        pose |-> pose]

-----------------------------------------------------------------------------
(* Measuring text: one provider call for each text and manifest, counted.  *)

Measured(env, id, st) ==
    LET n == env.nodes[id]
        missing == [size |-> n.bounds,
                    st |-> [st EXCEPT !.issues = @ \union {Issue("measurement-missing", id, Unset, 0)}]]
        size == Extents(n.length * env.fonts, n.bounds.v)
    IN CASE n.kind # "text" -> [size |-> n.bounds, st |-> st]
         [] n.kind = "text" /\ n.length \in st.measured -> [size |-> size, st |-> st]
         [] n.kind = "text" /\ n.length \notin st.measured /\ env.fonts # NoFonts
              /\ Cardinality(st.measured) < MaxRequests ->
                [size |-> size, st |-> [st EXCEPT !.measured = @ \union {n.length}]]
         [] OTHER -> missing

-----------------------------------------------------------------------------
(* The signature of a subtree: what its layout depends on, and not its paint. *)

RECURSIVE subtreeSignature(_, _)
subtreeSignature(nodes, id) ==
    [of |-> id, node |-> [nodes[id] EXCEPT !.paint = 0],
     below |-> [k \in DOMAIN nodes[id].kids |-> subtreeSignature(nodes, nodes[id].kids[k])]]

cacheKey(env, id, allocation, depth) == <<id, subtreeSignature(env.nodes, id), allocation, depth>>

(* A node with its box, its place and what was placed below it. *)
Placed(id, n, bounds, pose, children) ==
    [id |-> id, node |-> n, bounds |-> bounds, pose |-> pose, at |-> n.at,
     shape |-> shapeExtent(pose, bounds), children |-> children]

RECURSIVE resolveNode(_, _, _, _, _)

With(acc, r) == [placed |-> Append(acc.placed, r.placed), st |-> r.st]

(* Nodes one after the other, none of them with an allocation. *)
RECURSIVE ResolveFrom(_, _, _, _)
ResolveFrom(env, ids, depth, acc) ==
    IF ids = <<>> THEN acc
    ELSE ResolveFrom(env, Tail(ids), depth, With(acc, resolveNode(env, Head(ids), Free, depth, acc.st)))

ResolveFree(env, ids, depth, st) == ResolveFrom(env, ids, depth, [placed |-> <<>>, st |-> st])

Below(id, n, sized, below) ==
    [placed |-> Placed(id, n, sized.bounds, sized.pose, below.placed), st |-> below.st]

Unplaced(env, id, allocation, depth, hugs, measured) ==
    Below(id, env.nodes[id],
          applySizing(env, id, allocation,
                      [a \in Axes |-> IF a \in hugs THEN measured.size[a] ELSE env.nodes[id].bounds[a]]),
          ResolveFree(env, env.nodes[id].kids, depth, measured.st))

resolvePlainNode(env, id, allocation, depth, st) ==
    LET hugs == {a \in Axes : effectiveSizing(env, id, a) = "hug"} IN
    Unplaced(env, id, allocation, depth, hugs,
             IF hugs = {} THEN [size |-> env.nodes[id].bounds, st |-> st] ELSE Measured(env, id, st))

SumOf(placed, axis) == FoldLeft(LAMBDA sum, p : sum + p.shape.size[axis], 0, placed)
WidestOf(placed, axis) == FoldLeft(LAMBDA m, p : Larger(m, p.shape.size[axis]), 0, placed)

(* Where a free length puts what it surrounds. *)
Offset(align, free) == CASE align = "start" -> 0
                         [] align = "center" -> AtLeast0(free) \div 2
                         [] OTHER -> AtLeast0(free)

(* Insufficient space is reported once for a container and an axis; on the main
   axis the report says how much is lacking. *)
reportOverflow(st, id, axis, overflows, lacking) ==
    IF ~overflows \/ <<id, axis>> \in st.reported THEN st
    ELSE [st EXCEPT !.reported = @ \union {<<id, axis>>},
                    !.issues = @ \union {Issue("insufficient-space", id, axis, lacking)}]

Pads(layout, a) == layout.before[a] + layout.after[a]
Inner(layout, bounds) == [a \in Axes |-> AtLeast0(bounds[a] - Pads(layout, a))]
Gaps(layout, children) == AtLeast0(Len(children) - 1) * layout.gap
Flow(env, id) == SelectSeq(env.nodes[id].kids, LAMBDA k : ~env.nodes[k].absolute)
Aside(env, id) == SelectSeq(env.nodes[id].kids, LAMBDA k : env.nodes[k].absolute)

(* What a frame needs to hug the children placed in it. *)
Needed(layout, placed) ==
    LET main == layout.direction IN
    [a \in Axes |-> Pads(layout, a) + IF a = main THEN Gaps(layout, placed) + SumOf(placed, main)
                                      ELSE WidestOf(placed, a)]

(* The extents a frame decides for its flow children: the Fill ones share what
   the others leave of the main axis, and take all of the cross axis. *)
Given(env, flow, layout, inner, provisional) ==
    LET main == layout.direction
        fills(a) == {k \in DOMAIN flow : effectiveSizing(env, flow[k], a) = "fill"}
        others == SelectSeq(provisional, LAMBDA p : effectiveSizing(env, p.id, main) # "fill")
        share == AtLeast0((inner[main] - Gaps(layout, flow) - SumOf(others, main))
                            \div Larger(1, Cardinality(fills(main))))
    IN [k \in DOMAIN flow |-> [a \in Axes |-> IF k \notin fills(a) THEN Unset
                                             ELSE IF a = main THEN share ELSE inner[a]]]

(* The second sizing of the children something was decided for. *)
RECURSIVE Settled(_, _, _, _, _)
Settled(env, given, provisional, depth, acc) ==
    LET k == Len(acc.placed) + 1 IN
    IF k > Len(provisional) THEN acc
    ELSE Settled(env, given, provisional, depth,
                 IF given[k] = Free THEN [acc EXCEPT !.placed = Append(@, provisional[k])]
                 ELSE With(acc, resolveNode(env, provisional[k].id, given[k], depth, acc.st)))

(* Where the flow children stand: one after the other on the main axis, each
   aligned by itself across it. *)
Positioned(layout, inner, placed) ==
    LET main == layout.direction
        cross == Other(main)
        first == layout.before[main] + Offset(layout.primary, inner[main] - Gaps(layout, placed) - SumOf(placed, main))
        cursor(k) == first + SumOf(SubSeq(placed, 1, k - 1), main) + (k - 1) * layout.gap
        across(k) == layout.before[cross] + Offset(layout.crossAlign, inner[cross] - placed[k].shape.size[cross])
    IN [k \in DOMAIN placed |->
          [placed[k] EXCEPT !.at = [a \in Axes |-> (IF a = main THEN cursor(k) ELSE across(k))
                                                  - placed[k].shape.start[a]]]]

OverflowOf(st, id, layout, inner, placed) ==
    LET main == layout.direction
        lacking == Gaps(layout, placed) + SumOf(placed, main) - inner[main]
    IN reportOverflow(reportOverflow(st, id, main, lacking > 0, lacking), id, Other(main),
                      WidestOf(placed, Other(main)) > inner[Other(main)], 0)

(* The children in the order of the layer tree, whichever way they were placed. *)
InTreeOrder(kids, placed) == [k \in DOMAIN kids |-> CHOOSE p \in placed : p.id = kids[k]]

Finished(env, id, sized, flowing, aside) ==
    [placed |-> Placed(id, env.nodes[id], sized.bounds, sized.pose,
                       InTreeOrder(env.nodes[id].kids, ToSet(flowing) \union ToSet(aside.placed))),
     st |-> aside.st]

Aligned(env, id, depth, sized, layout, inner, final) ==
    Finished(env, id, sized, Positioned(layout, inner, final.placed),
             ResolveFree(env, Aside(env, id), depth, OverflowOf(final.st, id, layout, inner, final.placed)))

Distributed(env, id, depth, layout, sized, provisional) ==
    Aligned(env, id, depth, sized, layout, Inner(layout, sized.bounds),
            Settled(env, Given(env, Flow(env, id), layout, Inner(layout, sized.bounds), provisional.placed),
                    provisional.placed, depth, [placed |-> <<>>, st |-> provisional.st]))

FrameAround(env, id, allocation, depth, layout, provisional) ==
    Distributed(env, id, depth, layout,
                applySizing(env, id, allocation, Needed(layout, provisional.placed)), provisional)

resolveAutoLayoutFrame(env, id, allocation, depth, st) ==
    FrameAround(env, id, allocation, depth, env.nodes[id].auto, ResolveFree(env, Flow(env, id), depth, st))

Reusable_IgnoresDirty(env, id, key) == key \in DOMAIN env.placed
Reusable(env, id, key) == id \notin env.dirty /\ key \in DOMAIN env.placed

Remembered(key, id, r) ==
    [r EXCEPT !.st.last = id :> r.placed @@ @, !.st.next = key :> r.placed @@ @]

(* One node: from the warm state, or a sizing, of which a pass makes two. *)
resolveNode(env, id, allocation, depth, st) ==
    LET key == cacheKey(env, id, allocation, depth)
        n == env.nodes[id]
        counted == [st EXCEPT !.sizings[id] = @ + 1]
        reported(code, detail) == [counted EXCEPT !.issues = @ \union {Issue(code, id, Unset, detail)}]
    IN IF Reusable(env, id, key) THEN [placed |-> env.placed[key], st |-> st]
       ELSE IF st.sizings[id] >= 2 /\ id \in DOMAIN st.last
       THEN [placed |-> st.last[id], st |-> reported("measurement-missing", 3)]
       ELSE IF depth >= MaxTreeDepth
       THEN [placed |-> Placed(id, n, n.bounds, [turned |-> n.turned, scale |-> n.scale], <<>>),
             st |-> reported("depth-exceeded", 0)]
       ELSE Remembered(key, id,
                IF HasLayout(env.nodes, id)
                THEN resolveAutoLayoutFrame(env, id, allocation, depth + 1, counted)
                ELSE resolvePlainNode(env, id, allocation, depth + 1, counted))

=============================================================================
