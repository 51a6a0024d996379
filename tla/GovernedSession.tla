--------------------------- MODULE GovernedSession ---------------------------
(***************************************************************************)
(* An editing session under brand governance: the host edits instances     *)
(* through the commands that consult the policy port, rebrands the whole   *)
(* document, undoes, changes the context it runs under and exports.  The   *)
(* evaluator it wires holds the document it was created with.              *)
(***************************************************************************)
EXTENDS BrandGovernance

CONSTANTS Plans,      \* [doc, context, kit, offers, values, whole, quarantined,
                      \*  history: undo entries kept]
          Contexts,   \* contexts the host may switch to
          Spare,      \* ids of instances that may be inserted
          Formats, Scales, Budgets, Limits,
          MaxRevision \* revisions of a Source

VARIABLES plan, doc, context, bound, undo, out

vars == <<plan, doc, context, bound, undo, out>>

Nothing == [ok |-> FALSE, code |-> "none"]

(* All that an evaluator reads of its document: the instances, their        *)
(* Sources and the definitions.                                             *)
Skeleton(d) ==
    [pages |-> <<[parts |-> [k \in DOMAIN componentInstances(d) |->
                    [componentInstances(d)[k] EXCEPT !.overrides = EmptyMap]]]>>,
     components |-> [c \in DOMAIN d.components |-> [d.components[c] EXCEPT !.revision = 0]],
     snapshots |-> d.snapshots]

Init ==
    /\ plan \in Plans
    /\ doc = plan.doc /\ bound = Skeleton(plan.doc) /\ context = plan.context
    /\ undo = <<>> /\ out = Nothing

-----------------------------------------------------------------------------
(* Commands over instances of a page.  A command maps a document to the set *)
(* of its results, <<document, inverse>>, empty when it throws.             *)

Place(d, id) ==
    CHOOSE s \in UNION {{<<p, k>> : k \in DOMAIN d.pages[p].parts} : p \in DOMAIN d.pages} :
        d.pages[s[1]].parts[s[2]].id = id

OnPages(d, id) == \E n \in Range(PageNodes(d)) : n.id = id
NodeOf(d, id) == CHOOSE n \in Range(PageNodes(d)) : n.id = id
ExpectInstance(d, id) == OnPages(d, id) /\ IsInstance(NodeOf(d, id))

Asks(operation, cmd) == [operation |-> operation, instance |-> cmd.id, property |-> cmd.property]

(* assertBrandPolicy: the port answers for the document it holds. *)
assertBrandPolicy(operation, cmd, rules) ==
    validateBrandComponentCommand(rules.bound, Asks(operation, cmd), rules.context) # "deny"

Command(type, id, property, value) == [type |-> type, id |-> id, property |-> property, value |-> value]

Write(d, id, field, value) == PatchPages(d, [n \in {id} |-> [f \in {field} |-> value]])

WithoutKey(map, key) == [k \in DOMAIN map \ {key} |-> map[k]]
WithKey(map, key, value) == [k \in DOMAIN map \cup {key} |-> IF k = key THEN value ELSE map[k]]

SetBack(cmd, prior) ==
    IF cmd.property \in DOMAIN prior THEN Command("set-override", cmd.id, cmd.property, prior[cmd.property])
    ELSE Command("reset-override", cmd.id, cmd.property, Unset)

applySetOverride(d, cmd, prior) ==
    {<<Write(d, cmd.id, "overrides", WithKey(prior, cmd.property, cmd.value)), SetBack(cmd, prior)>>}

applyResetOverride(d, cmd, prior) ==
    IF cmd.property \notin DOMAIN prior THEN {<<d, cmd>>}
    ELSE {<<Write(d, cmd.id, "overrides", WithoutKey(prior, cmd.property)), SetBack(cmd, prior)>>}

(* No policy is asked. *)
applyResetAllOverrides(d, cmd, prior) ==
    IF prior = EmptyMap THEN {<<d, cmd>>}
    ELSE {<<Write(d, cmd.id, "overrides", EmptyMap),
            Command("patch", cmd.id, "", <<"patches", [n \in {cmd.id} |-> [f \in {"overrides"} |-> prior]]>>)>>}

Detached(n) == [n EXCEPT !.kind = "group", !.source = Unset, !.overrides = EmptyMap]

(* A property paints the fill of the node it is bound to. *)
Overridden(def, n, overrides) ==
    LET painting == {p \in DOMAIN overrides \cap DOMAIN def.properties : def.properties[p] = n.id}
    IN  IF painting = {} THEN n ELSE [n EXCEPT !.fill = overrides[CHOOSE p \in painting : TRUE]]

(* The expansion of a Source: its nodes, overridden, and under each nested  *)
(* instance its own expansion, the ids allocated by place.                  *)
RECURSIVE Expansion(_, _, _, _)

Expansion(d, def, overrides, prefix) ==
    FlattenSeq([k \in DOMAIN def.parts |->
        LET n == def.parts[k]
        IN  IF IsInstance(n)
            THEN <<Detached([n EXCEPT !.id = prefix \o n.id])>>
                     \o Expansion(d, d.components[n.source[2]], n.overrides, prefix \o n.id)
            ELSE <<[Overridden(def, n, overrides) EXCEPT !.id = prefix \o n.id]>>])

(* A complete expansion: every Source it reaches is local and present.      *)
Expandable(d, source) ==
    /\ source[1] = "local"
    /\ LET reached == LocalReach(d, {source[2]})
       IN  /\ reached \subseteq DOMAIN d.components
           /\ \A c \in reached : \A n \in Range(d.components[c].parts) :
                 /\ IsInstance(n) => n.source[1] = "local"
                 /\ c \notin LocalReach(d, LocalSources(d.components[c].parts))

applyDetach(d, cmd, n, at) ==
    IF ~Expandable(d, n.source) THEN {}
    ELSE LET parts == d.pages[at[1]].parts
             copies == Expansion(d, d.components[n.source[2]], n.overrides, n.id)
         IN  {<<[d EXCEPT !.pages[at[1]].parts = SubSeq(parts, 1, at[2] - 1) \o <<Detached(n)>> \o copies
                                                   \o SubSeq(parts, at[2] + 1, Len(parts))],
                Command("reattach", n.id, "", <<"subtree", [node |-> n, copies |-> Len(copies)]>>)>>}

(* The batch that deletes the materialised subtree and creates the instance. *)
applyReattach(d, cmd, at) ==
    LET parts == d.pages[at[1]].parts
    IN  {<<[d EXCEPT !.pages[at[1]].parts = SubSeq(parts, 1, at[2] - 1) \o <<cmd.value[2].node>>
                                              \o SubSeq(parts, at[2] + 1 + cmd.value[2].copies, Len(parts))],
           Command("detach", cmd.id, "", Unset)>>}

applyInsert(d, cmd) ==
    IF cmd.value[2].source[2] \notin DOMAIN d.components \/ OnPages(d, cmd.id) THEN {}
    ELSE {<<[d EXCEPT !.pages[1].parts = Append(@, cmd.value[2])], Command("delete", cmd.id, "", Unset)>>}

applyDelete(d, cmd, n, at) ==
    {<<[d EXCEPT !.pages[at[1]].parts = RemoveAt(@, at[2])], Command("insert", cmd.id, "", <<"node", n>>)>>}

(* node.update over a set of nodes, as one batch. *)
applyPatches(d, cmd, prior) ==
    IF ~\A id \in DOMAIN cmd.value[2] : OnPages(d, id) THEN {}
    ELSE {<<PatchPages(d, cmd.value[2]), Command("patch", cmd.id, "", <<"patches", prior>>)>>}

PriorOf(d, patches) ==
    [id \in DOMAIN patches |-> [f \in DOMAIN patches[id] |-> NodeOf(d, id)[f]]]

Apply(d, cmd, rules) ==
    CASE cmd.type = "patch"    -> applyPatches(d, cmd, PriorOf(d, cmd.value[2]))
      [] cmd.type = "insert"   -> applyInsert(d, cmd)
      [] cmd.type = "delete"   -> IF OnPages(d, cmd.id) THEN applyDelete(d, cmd, NodeOf(d, cmd.id), Place(d, cmd.id)) ELSE {}
      [] cmd.type = "reattach" -> IF OnPages(d, cmd.id) THEN applyReattach(d, cmd, Place(d, cmd.id)) ELSE {}
      [] ~ExpectInstance(d, cmd.id) -> {}
      [] cmd.type = "reset-all" -> applyResetAllOverrides(d, cmd, NodeOf(d, cmd.id).overrides)
      [] cmd.type = "set-override" /\ assertBrandPolicy("override-set", cmd, rules)
            -> applySetOverride(d, cmd, NodeOf(d, cmd.id).overrides)
      [] cmd.type = "reset-override" /\ assertBrandPolicy("override-reset", cmd, rules)
            -> applyResetOverride(d, cmd, NodeOf(d, cmd.id).overrides)
      [] cmd.type = "detach" /\ assertBrandPolicy("detach", cmd, rules)
            -> applyDetach(d, cmd, NodeOf(d, cmd.id), Place(d, cmd.id))
      [] OTHER -> {}

-----------------------------------------------------------------------------
(* The host.                                                                *)

Rules == [bound |-> bound, context |-> context]

(* steady: whether the rules are still those the change was made under. *)
Record(inverse) ==
    LET entry == [inverse |-> inverse, steady |-> TRUE]
    IN  <<entry>> \o SubSeq(undo, 1, IF Len(undo) < plan.history THEN Len(undo) ELSE plan.history - 1)

Unsteady == undo' = [k \in DOMAIN undo |-> [undo[k] EXCEPT !.steady = FALSE]]

Commit(cmd) ==
    /\ cmd.type \in plan.offers
    /\ \E result \in Apply(doc, cmd, Rules) :
          /\ result[1] # doc
          /\ doc' = result[1]
          /\ undo' = Record(result[2])
    /\ UNCHANGED <<plan, context, bound, out>>

Ids == {n.id : n \in {m \in Range(PageNodes(doc)) : IsInstance(m)}}

Properties == {"p", "q"}

Edit ==
    \E id \in Ids :
        \/ \E p \in Properties, v \in plan.values : Commit(Command("set-override", id, p, v))
        \/ \E p \in Properties : Commit(Command("reset-override", id, p, Unset))
        \/ Commit(Command("reset-all", id, "", Unset))
        \/ Commit(Command("detach", id, "", Unset))

Insert == \E n \in Spare : Commit(Command("insert", n.id, "", <<"node", n>>))

(* The host keeps the document of a transform, or commits its command.      *)
Rebrand ==
    \E transform \in plan.offers \cap {"colors", "fonts", "logos", "typography"}, includeLocked \in BOOLEAN :
        LET patches == PatchesOf(Range(PageNodes(doc)), transform, plan.kit, includeLocked)
        IN  /\ doc' = IF plan.whole THEN Rebranded(doc, transform, plan.kit, includeLocked)
                      ELSE PatchPages(doc, patches)
            /\ doc' # doc
            /\ undo' = IF patches = EmptyMap THEN undo
                       ELSE Record(Command("patch", <<>>, "", <<"patches", PriorOf(doc, patches)>>))
            /\ \A c \in DOMAIN doc'.components : doc'.components[c].revision <= MaxRevision
            /\ UNCHANGED <<plan, context, bound, out>>

Undo ==
    /\ undo # <<>>
    /\ \E result \in Apply(doc, Head(undo).inverse, Rules) : doc' = result[1]
    /\ undo' = Tail(undo)
    /\ UNCHANGED <<plan, context, bound, out>>

SetContext == "context" \in plan.offers /\ \E c \in Contexts \ {context} : context' = c /\ Unsteady /\ UNCHANGED <<plan, doc, bound, out>>

(* createBrandPolicyEvaluator over the present document. *)
Rebind == "rebind" \in plan.offers /\ bound # Skeleton(doc) /\ bound' = Skeleton(doc) /\ Unsteady /\ UNCHANGED <<plan, doc, context, out>>

Export ==
    /\ "export" \in plan.offers
    /\ \E shape \in {"ref", "document", "invalid"}, flatten \in BOOLEAN :
          out' = prepareExport(<<shape, doc>>, context, plan.kit, plan.quarantined, flatten) @@ [flatten |-> flatten]
    /\ UNCHANGED <<plan, doc, context, bound, undo>>

Next == Edit \/ Insert \/ Rebrand \/ Undo \/ SetContext \/ Rebind \/ Export

Spec == Init /\ [][Next]_vars

-----------------------------------------------------------------------------
(* Properties.                                                              *)

(* TypeOK: page ids stay distinct whatever is detached, inserted or         *)
(* undone, and a Source keeps its nodes (findDuplicateSourceNodeId).        *)
TypeOK ==
    /\ context \in Contexts \cup {plan.context} /\ Len(undo) <= plan.history
    /\ \A s, t \in DOMAIN PageNodes(doc) : PageNodes(doc)[s].id = PageNodes(doc)[t].id => s = t
    /\ DOMAIN doc.components = DOMAIN plan.doc.components
    /\ \A c \in DOMAIN doc.components :
          [k \in DOMAIN doc.components[c].parts |-> doc.components[c].parts[k].id]
              = [k \in DOMAIN plan.doc.components[c].parts |-> plan.doc.components[c].parts[k].id]

(* RebrandAddsNoIssue: a step that leaves every instance in place and only  *)
(* rewrites styles, as the transforms of brand/apply.ts do, reports no      *)
(* issue that was not there before.                                         *)
RebrandAddsNoIssue ==
    [][Rebrand => generateBrandComplianceReport(doc', plan.kit) \subseteq generateBrandComplianceReport(doc, plan.kit)]_vars

(* RebrandSettles: whatever edits came before, a linking transform finds    *)
(* nothing left to link after itself, on pages and in Sources alike.        *)
RebrandSettles ==
    \A transform \in plan.offers \cap {"colors", "fonts", "logos"}, includeLocked \in BOOLEAN :
        LET once == Rebranded(doc, transform, plan.kit, includeLocked)
        IN  Rebranded(once, transform, plan.kit, includeLocked) = once

(* UndoStaysAllowed: as long as the host changes neither its context nor    *)
(* the document the evaluator holds, the last change can be undone.         *)
UndoStaysAllowed ==
    undo # <<>> /\ Head(undo).steady => Apply(doc, Head(undo).inverse, Rules) # {}

(* GovernedOverrides: with an evaluator of the present document, no edit    *)
(* under blocking changes an override that a policy of the instance's path  *)
(* withholds.  Resetting every override asks no policy and is left out.     *)
Overrides(d, id) == NodeOf(d, id).overrides
Withheld(d, id, p) ==
    \E policy \in collectPolicyPath(d, id) : Forbids(policy, [operation |-> "override-set", instance |-> id, property |-> p])
Differs(f, g, p) == (p \in DOMAIN f) # (p \in DOMAIN g) \/ (p \in DOMAIN f /\ f[p] # g[p])

GovernedStep(cleared) ==
    (Edit /\ context.enforcement = "blocking" /\ bound = Skeleton(doc))
        => \A id \in Ids : \A p \in Properties :
              ExpectInstance(doc', id) /\ (cleared => Overrides(doc', id) # EmptyMap)
                  => ~(Withheld(doc, id, p) /\ Differs(Overrides(doc, id), Overrides(doc', id), p))

GovernedEdits == [][GovernedStep(TRUE)]_vars

(* EveryEditGoverned: the same of every edit, as the header of              *)
(* command-policy.ts:6-10 says: every mutation that can touch a governed    *)
(* instance asks the same question through the same function.               *)
EveryEditGoverned == [][GovernedStep(FALSE)]_vars

(* SmallerExportFits: an export within its limits stays within them at any  *)
(* smaller scale and never needs a higher execution tier.                   *)
SmallerExportFits ==
    \A format \in Formats : \A large \in Scales : \A small \in {s \in Scales : s <= large} :
        LET Cost(scale) == estimateCanvasExportCost(doc.pages, format, scale)
        IN  /\ checkCanvasExportLimits(Cost(small), small, Limits)
                 \subseteq checkCanvasExportLimits(Cost(large), large, Limits)
            /\ ExecutionTier(Cost(small), Budgets) <= ExecutionTier(Cost(large), Budgets)

=============================================================================
