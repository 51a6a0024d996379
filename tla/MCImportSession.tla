-------------------------- MODULE MCImportSession ---------------------------
(***************************************************************************)
(* Small instances of ImportSession: a document with one Source, foreign   *)
(* documents whose assets collide with its own, a template with a nested   *)
(* Source, and candidates to load whose definitions refer to each other    *)
(* in every way three definitions can.                                     *)
(***************************************************************************)
EXTENDS ImportSession, TLC

MCPolicy == [pages |-> 4, nodes |-> 14, depth |-> 2, children |-> 3, assets |-> 3, components |-> 4, characters |-> 9,
             expanded |-> 6]

Node(id, depth, kind) == [id |-> id, depth |-> depth, kind |-> kind, asset |-> 0, mask |-> 0, source |-> <<>>,
                          text |-> 0, flows |-> FALSE, bounds |-> 0]
Image(id, depth, asset, mask) == [Node(id, depth, "image") EXCEPT !.asset = asset, !.mask = mask]
Use(id, depth, component) == [Node(id, depth, "component-instance") EXCEPT !.source = <<"local", component>>]

Page(id, nodes) == [id |-> id, size |-> 0, variant |-> 0, nodes |-> nodes]
Definition(id, nodes, binds) == [id |-> id, nodes |-> nodes, binds |-> binds]
Asset(id, uri) == id :> [id |-> id, uri |-> uri]

Doc(id, nodes, components, assets) ==
    [id |-> id, version |-> "3", pages |-> <<Page(10 * id, <<Node(10 * id + 1, 0, "group")>> \o nodes)>>,
     components |-> components, snapshots |-> <<>>, assets |-> assets, capabilities |-> {}]

Badge == 31 :> Definition(31, <<Node(32, 0, "group"), Image(33, 1, 52, 0)>>, {33})

Open == Doc(1, <<Image(12, 1, 51, 0), Use(14, 1, 31)>>, Badge, Asset(51, "a") @@ Asset(52, "b"))

Elsewhere ==
    Doc(2, <<[Node(22, 1, "frame") EXCEPT !.asset = 51, !.flows = TRUE], Image(23, 2, 52, 53), Use(24, 1, 31)>>, Badge,
        Asset(51, "c") @@ Asset(52, "b") @@ Asset(53, "d"))

MCDocuments == {Open}
MCForeign == {Elsewhere}

Payload == [version |-> 1, wellFormed |-> TRUE, document |-> Missing, nodes |-> <<Node(5, 0, "group"), Use(6, 1, 99)>>, assets |-> NoMap,
            capabilities |-> {}]
MCPayloads == {Payload, [Payload EXCEPT !.capabilities = {"future.v1"}],
               [Payload EXCEPT !.nodes = [i \in 1..5 |-> Node(4, 0, "text")]],
               [Payload EXCEPT !.nodes = <<Node(5, 0, "group"), Image(6, 1, 51, 51)>>, !.assets = Asset(51, "c")]}

(* Slots: a text, a locked picture, a locked text, and a text of a Source. *)
Flyer ==
    [doc |-> Doc(4, <<[Node(42, 1, "text") EXCEPT !.text = 1], Image(43, 1, 54, 52), Use(44, 1, 46)>>,
                 46 :> Definition(46, <<Node(47, 0, "group"), Use(48, 1, 49)>>, {48})
                 @@ 49 :> Definition(49, <<Node(38, 0, "group"), [Node(39, 1, "text") EXCEPT !.text = 1]>>, {39}),
                 Asset(54, "a") @@ Asset(52, "b")),
     slots |-> 1 :> [node |-> 42, kind |-> "text"] @@ 2 :> [node |-> 43, kind |-> "image"],
     variables |-> 1 :> [slot |-> 1, default |-> Missing, required |-> TRUE]
                   @@ 2 :> [slot |-> 2, default |-> 52, required |-> FALSE],
     locked |-> {43}]

OnSource == [Flyer EXCEPT !.slots = 1 :> [node |-> 39, kind |-> "text"] @@ 2 :> [node |-> 43, kind |-> "image"]]

MCTemplates == {Flyer}
OnlyOnSource == {OnSource}
MCSupplied == {NoMap, 1 :> 3}

MCPresets == {<<7, 8>>}

Registry(a, b, c) ==
    LET Tree(id, refs) == <<Node(id, 0, "group")>> \o [i \in DOMAIN refs |-> [Use(id + i, 1, 0) EXCEPT !.source = refs[i]]]
    IN  71 :> Definition(71, Tree(710, a), {}) @@ 72 :> Definition(72, Tree(720, b), {})
        @@ 73 :> Definition(73, Tree(730, c), {})

A == <<"local", 71>>
B == <<"local", 72>>
C == <<"local", 73>>
X == <<"external", 9>>

Snapshot(refs) == [key |-> 9, ref |-> X, nodes |-> <<Node(90, 0, "group")>> \o
                     [i \in DOMAIN refs |-> [Use(90 + i, 1, 0) EXCEPT !.source = refs[i]]]]

Candidate(registry, uses, snapshots) ==
    [Doc(7, [i \in DOMAIN uses |-> [Use(79 + i, 1, 0) EXCEPT !.source = uses[i]]], registry, NoMap)
        EXCEPT !.snapshots = snapshots]

Graphs ==
    {Candidate(Registry(a, b, c), uses, snapshots) :
        a \in {<<B>>, <<B, B>>, <<B, C>>}, b \in {<<>>, <<C>>, <<X, X>>}, c \in {<<>>, <<A>>, <<X>>},
        uses \in {<<A>>, <<A, B>>}, snapshots \in {<<Snapshot(<<>>)>>, <<Snapshot(<<X>>)>>}}

Versions ==
    {[doc |-> [Open EXCEPT !.id = 3, !.version = v], seam |-> s] :
        v \in {"0", "1", "2", "3", "4", "a", "b"}, s \in {"core", "runtime"}}

Long == [doc |-> Doc(5, [i \in 1..14 |-> Node(500 + i, 1, "text")], NoMap, NoMap), seam |-> "core"]
Deep == [doc |-> Doc(5, <<Node(52, 1, "group"), Node(53, 2, "group"), Node(54, 3, "text")>>, NoMap, NoMap), seam |-> "core"]
Edge == [doc |-> [Doc(5, [i \in 1..3 |-> Node(500 + i, 1, "text")], NoMap, NoMap) EXCEPT !.version = "0"], seam |-> "runtime"]

Blank == [doc |-> [Open EXCEPT !.id = 6, !.pages = <<>>], seam |-> "core"]

Mislabelled == [doc |-> [Open EXCEPT !.id = 8, !.snapshots = <<[Snapshot(<<>>) EXCEPT !.key = 8]>>], seam |-> "core"]

MCCandidates == {[doc |-> d, seam |-> "core"] : d \in Graphs} \cup Versions \cup {Long, Deep, Edge, Blank, Mislabelled}
NoCandidates == {}

MCRegistered == <<<<"0", "1", TRUE>>, <<"a", "b", FALSE>>, <<"b", "a", FALSE>>>>
=============================================================================
