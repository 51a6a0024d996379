--------------------------- MODULE MCLayoutSession ---------------------------
(***************************************************************************)
(* Small instances of LayoutSession: a row with a frame that fills it and  *)
(* a text on one page, an instance on another.                             *)
(***************************************************************************)
EXTENDS LayoutSession

Node(kind, kids, width) ==
    [kind |-> kind, kids |-> kids, bounds |-> Extents(width, 4), at |-> Extents(1, 1), scale |-> Extents(1, 1),
     turned |-> FALSE, auto |-> NoLayout, absolute |-> FALSE, sizing |-> Extents("fixed", "fixed"),
     length |-> 2, paint |-> 1]

Row(primary, crossAlign) ==
    [direction |-> Horizontal, before |-> Extents(1, 1), after |-> Extents(1, 0), gap |-> 1,
     primary |-> primary, crossAlign |-> crossAlign]
Column == [Row("start", "center") EXCEPT !.direction = Vertical]

MCNodes ==
    "r1" :> Node("group", <<"a">>, 20)
    @@ "a" :> [Node("frame", <<"b", "t", "s">>, 14) EXCEPT !.auto = Row("start", "center")]
    @@ "b" :> [Node("frame", <<"c", "d">>, 6) EXCEPT !.auto = Row("end", "end"),
                                                 !.sizing = Extents("fill", "hug")]
    @@ "c" :> [Node("rect", <<>>, 3) EXCEPT !.scale = Extents(2, 1)]
    @@ "d" :> [Node("rect", <<>>, 2) EXCEPT !.turned = TRUE, !.sizing = Extents("fixed", "fill")]
    @@ "t" :> [Node("text", <<>>, 3) EXCEPT !.scale = Extents(2, 1), !.sizing = Extents("hug", "fixed")]
    @@ "s" :> [Node("rect", <<>>, 2) EXCEPT !.absolute = TRUE]
    @@ "r2" :> Node("group", <<"i">>, 20)
    @@ "i" :> Node("instance", <<>>, 4)

MCVirtual == "i" :> "i/v"

Base ==
    [doc |-> [nodes |-> MCNodes, pages |-> <<"r1", "r2">>, stamp |-> Unstamped],
     source |-> 2, fonts |-> 1, sources |-> {2, 5}, metrics |-> {1, NoFonts},
     widths |-> {3, 14}, layouts |-> {Row("start", "center"), Column},
     resizable |-> {"a", "c"}, paintable |-> {"c"}, sizable |-> {"t"}, frames |-> {"a"},
     movable |-> {"c"}, targets |-> {"a", "b", "r2"}, deletable |-> {"r2"}]

(* A frame that fills a frame that fills: the innermost is sized a third time. *)
NestedFill == [Base EXCEPT !.doc.nodes["c"].sizing[Horizontal] = "fill", !.paintable = {"t"}]

=============================================================================
