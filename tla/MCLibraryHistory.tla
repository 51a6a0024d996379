-------------------------- MODULE MCLibraryHistory ---------------------------
(***************************************************************************)
(* Small instances of LibraryHistory: a card in two versions, the banner   *)
(* it may be swapped for, the badge and icon they are built from.          *)
(***************************************************************************)
EXTENDS LibraryHistory

CONSTANTS i1, i2, h1, h2

Prop(id, kind, sem) == [id |-> id, kind |-> kind, sem |-> sem]

Leaf == [dependencies |-> <<>>, nested |-> {}, local |-> FALSE, nodes |-> 1, properties |-> <<>>,
         axes |-> EmptyMap, variants |-> <<>>, defaultVariant |-> ""]

Icon == Ref("icon", 1, "icon")
Badge == Ref("badge", 1, "badge")
Card == Ref("card", 1, "card")
Card2 == Ref("card", 2, "card2")
Banner == Ref("banner", 1, "banner")

Size == ("size" :> [values |-> {"s", "m"}, default |-> "s"])
Variant(id, value, unbound) == [id |-> id, selection |-> "size" :> value, unbound |-> unbound]

MCDef ==
    [b \in {"icon", "badge", "card", "card2", "banner"} |->
        CASE b = "icon"  -> Leaf
          [] b = "badge" -> [Leaf EXCEPT !.dependencies = <<Icon>>, !.nested = {Icon}]
          [] b = "card"  -> [Leaf EXCEPT !.dependencies = <<Badge>>, !.nested = {Badge}, !.nodes = 2,
                                         !.properties = <<Prop(1, "text", 1), Prop(2, "image", 0)>>,
                                         !.axes = Size, !.defaultVariant = "small",
                                         !.variants = <<Variant("small", "s", {}), Variant("medium", "m", {2})>>]
          [] b = "card2" -> [Leaf EXCEPT !.dependencies = <<Icon, Badge>>, !.nested = {Badge}, !.nodes = 2,
                                         !.properties = <<Prop(3, "text", 1), Prop(2, "image", 0)>>,
                                         !.axes = Size, !.defaultVariant = "small",
                                         !.variants = <<Variant("small", "s", {})>>]
          [] b = "banner" -> [Leaf EXCEPT !.properties = <<Prop(1, "image", 0), Prop(2, "image", 0)>>]]

Snap(r) == Snapshot(r, r.integrity[3])
Stored(refs) == [r \in refs |-> Snap(r)]
Placed(ref) == [source |-> ref, overrides |-> {1 :> "a" @@ 2 :> "b"}, selection |-> Nothing]

Document(instances, refs) == [instances |-> instances, registry |-> Stored(refs), locals |-> {}]

Envelope(ref, body) == [ref |-> ref, body |-> body, parses |-> TRUE, oversize |-> FALSE]

Plan(d, envelopes, snapshots, offers) ==
    [doc |-> d, envelopes |-> envelopes, admitted |-> {Snap(r) : r \in snapshots}, offers |-> offers,
     denied |-> {}]

Inserting == Plan(Document(EmptyMap, {Icon}), {Envelope(Card, "card"), Envelope(Badge, "icon")}, {Badge, Icon},
                  {"insert", "set-variant", "collect"})

Changing == Plan(Document(i1 :> Placed(Card) @@ i2 :> Placed(Card), {Card, Badge, Icon}), {Envelope(Card2, "card2")},
                 {Badge, Banner}, {"update", "swap", "collect"})

Repairing == Plan([Document(i1 :> Placed(Card), {Badge}) EXCEPT !.locals = {Banner}],
                  {[Envelope(Card, "card") EXCEPT !.oversize = TRUE], Envelope(Icon, "icon")}, {Card, Badge},
                  {"recover", "collect", "set-variant"})

Guarded == [Changing EXCEPT !.denied = {"swap"}, !.offers = {"swap", "update"}]

AllPlans == {Inserting, Changing, Repairing, Guarded}

JustInserting == {Plan(Document(EmptyMap, {}), {}, {Card, Badge, Icon}, {"insert"})}

(* Of two references without snapshots, the badge's is admitted with the    *)
(* banner but without the icon it depends on.                               *)
Beside == {Plan(Document(i1 :> Placed(Badge) @@ i2 :> Placed(Banner), {}), {Envelope(Icon, "icon")},
                {Badge, Banner}, {"recover"})}

MCSelections == {EmptyMap, "size" :> "m"}
MCOverrides == {Nothing, {2 :> "b"}}

(* Two properties of one definition map to one of the other. *)
Merging == [MCDef EXCEPT !["card2"].properties = <<Prop(2, "image", 7)>>,
                         !["card"].properties = <<Prop(1, "image", 7), Prop(2, "image", 0)>>]

(* A chain of four reached past a member that was met on a shorter path. *)
Deep == [b \in {"icon", "badge", "card", "card2"} |->
           CASE b = "icon" -> Leaf
             [] b = "badge" -> [Leaf EXCEPT !.dependencies = <<Icon>>]
             [] b = "card" -> [Leaf EXCEPT !.dependencies = <<Badge>>]
             [] b = "card2" -> [Leaf EXCEPT !.dependencies = <<Badge, Card>>]]

=============================================================================
