------------------------- MODULE MCGovernedSession --------------------------
(***************************************************************************)
(* Small instances of GovernedSession: a card built from a badge and an    *)
(* icon, a stamp that travels in a snapshot, and a kit of one colour, one  *)
(* font and one logo.                                                      *)
(***************************************************************************)
EXTENDS GovernedSession, TLC

MCLower == ("Red" :> "red" @@ "red" :> "red" @@ "grey" :> "grey" @@ "ban" :> "ban" @@ "Sans" :> "sans" @@ "sans" :> "sans")

Kit == [colors |-> <<[id |-> "c1", value |-> "red"]>>, fonts |-> <<[id |-> "f1", family |-> "Sans"]>>,
        logos |-> <<[id |-> "l0", kind |-> "image"], [id |-> "l1", kind |-> "logo"]>>,
        typography |-> <<[size |-> Literal("16px")]>>,
        rules |-> {<<<<"forbidden", "color">>, "ban">>}]

Node(id, kind) == [id |-> <<id>>, kind |-> kind, fill |-> Unset, stroke |-> Unset, font |-> Unset, size |-> Unset,
                   logo |-> Unset, locked |-> FALSE, source |-> Unset, overrides |-> EmptyMap]
Rect(id, fill) == [Node(id, "rect") EXCEPT !.fill = Literal(fill), !.stroke = Literal("grey")]
Text(id, fill, font) == [Node(id, "text") EXCEPT !.fill = Literal(fill), !.font = Literal(font)]
Logo(id) == [Node(id, "frame") EXCEPT !.logo = <<"empty">>]
Local(id, component) == [Node(id, "component-instance") EXCEPT !.source = <<"local", component>>]
External(id, ref) == [Node(id, "component-instance") EXCEPT !.source = <<"external", ref>>]

Open == [editable |-> <<>>, forbids |-> {}, recommends |-> FALSE]
Strict == [editable |-> <<{"p"}>>, forbids |-> {"flatten"}, recommends |-> TRUE]
Pinned == [editable |-> <<{"p", "q"}>>, forbids |-> {"detach"}, recommends |-> FALSE]

Definition(id, parts, policy) == [id |-> id, revision |-> 0, parts |-> parts, policy |-> policy, properties |-> EmptyMap]

Badge(policy) == [Definition("badge", <<Rect("b1", "Red")>>, policy) EXCEPT !.properties = "q" :> <<"b1">>]
Icon(policy) == Definition("icon", <<Text("t1", "grey", "Sans")>>, policy)
Card(nested, policy) ==
    [Definition("card", <<[Rect("s1", "red") EXCEPT !.locked = TRUE], Rect("s2", "Red")>> \o nested, policy)
        EXCEPT !.properties = "p" :> <<"s2">>]

Stamp(nested) == Definition("stamp", nested, {})

Components(card, badge, icon) == [c \in {"card", "badge", "icon"} |->
    CASE c = "card" -> card [] c = "badge" -> badge [] c = "icon" -> icon]

Nested == <<Local("n1", "badge"), Local("n2", "icon")>>

Doc(parts, components, snapshots) ==
    [pages |-> <<[parts |-> parts, width |-> 15, height |-> 7], [parts |-> <<>>, width |-> 3, height |-> 4]>>,
     components |-> components, snapshots |-> snapshots]

Everything == {"canEditOverrides", "canDetach", "canFlatten", "canChangeVariant", "canInsertExternalComponents",
               "canUpdateComponents"}

Context(enforcement) == [enforcement |-> enforcement, can |-> Everything, editable |-> EmptyMap]
Narrow == [Context("blocking") EXCEPT !.editable = <<"i1">> :> {"q"}, !.can = Everything \ {"canDetach", "canFlatten"}]

Plan(d, rules, offers, values, whole) ==
    [doc |-> d, context |-> rules, kit |-> Kit, offers |-> offers, values |-> values, whole |-> whole,
     quarantined |-> {}, history |-> 1]

i1 == [Local("i1", "card") EXCEPT !.overrides = "p" :> Literal("grey")]

Governing ==
    Plan(Doc(<<i1>>, Components(Card(Nested, {Strict}), Badge({}), Icon({Pinned})), EmptyMap), Context("blocking"),
         {"set-override", "reset-override", "reset-all", "detach", "context"}, {Literal("Red")}, TRUE)
Joining == [Governing EXCEPT !.offers = {"set-override", "detach", "insert", "rebind"}]
Detaching ==
    [Plan(Doc(<<i1, Local("i2", "badge")>>, Components(Card(Nested, {Open}), Badge({Strict}), Icon({})), EmptyMap),
         Context("blocking"), {"detach", "reset-all", "colors", "context"}, {}, FALSE)
        EXCEPT !.history = 2]
Branding(whole) ==
    Plan(Doc(<<Text("a1", "Red", "sans"), [Logo("a2") EXCEPT !.locked = TRUE], Rect("a3", "ban"), i1>>,
             Components(Card(Nested, {}), Badge({}), Icon({})), EmptyMap), Context("warning"),
         {"set-override", "colors", "fonts", "logos", "typography"},
         {Literal("Red"), Literal("ban")}, whole)
Exporting ==
    Plan(Doc(<<[i1 EXCEPT !.source = <<"local", "card">>], External("i2", "stamp1")>>,
             Components(Card(Nested, {}), Badge({}), Icon({Strict})), [r \in {"stamp1"} |-> Stamp(<<Rect("e1", "grey")>>)]),
         Context("blocking"), {"export", "colors", "detach", "context"}, {}, TRUE)
Quarantined == [Exporting EXCEPT !.quarantined = {"stamp1"}]
Broken ==
    [Exporting EXCEPT !.doc.components["card"].parts = <<Local("n1", "gone")>>, !.offers = {"export"}]

AllPlans == {Governing, Joining, Detaching, Branding(TRUE), Branding(FALSE), Exporting, Quarantined, Broken}

JustGoverning == {Governing}

MCContexts == {Context("blocking"), Context("warning"), Context("off"), Narrow}
MCSpare == {Local("x1", "icon")}
MCBudgets == [main |-> 100, background |-> 300]
MCLimits == [scale |-> 20, pages |-> 2, edge |-> 30, pagePixels |-> 300, total |-> 310]
MCScales == {5, 13, 25}
MCFormats == {"png", "svg"}

=============================================================================
