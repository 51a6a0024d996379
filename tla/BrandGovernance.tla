--------------------------- MODULE BrandGovernance ---------------------------
(***************************************************************************)
(* Brand rules over a document: the decision a governed command asks for   *)
(* (src/brand-governance/command-policy.ts), the compliance report, the    *)
(* transforms that formalise literals into tokens (src/brand/apply.ts),    *)
(* and the preparation and pricing of an export.                           *)
(*                                                                         *)
(* A tree is the list of the nodes below its root, in walk order; an id is *)
(* a path of names.  A style is <<>> when absent, a literal, a token or a  *)
(* gradient; an optional policy is a set of at most one.  Case is folded   *)
(* by the constant Lower.                                                  *)
(***************************************************************************)
EXTENDS Integers, FiniteSets, SequencesExt

CONSTANTS Lower,       \* a literal -> its lower case
          MaxPath      \* how many definitions collectPolicyPath follows

ASSUME GovernanceAssumption == MaxPath \in Nat /\ \A l \in DOMAIN Lower : Lower[l] \in DOMAIN Lower

Unset == <<>>
Literal(l) == <<"literal", l>>
Token(id) == <<"token", id>>
IsLiteral(style) == style # Unset /\ style[1] = "literal"
IsToken(style) == style # Unset /\ style[1] = "token"

caseInsensitiveEquals(a, b) == Lower[a] = Lower[b]

EmptyMap == [x \in {} |-> 0]

(* The first element that satisfies a test, as a sequence of at most one. *)
Found(list, Test(_)) == LET hits == SelectSeq(list, Test) IN SubSeq(hits, 1, IF hits = <<>> THEN 0 ELSE 1)

-----------------------------------------------------------------------------
(* Documents.                                                               *)

IsInstance(n) == n.kind = "component-instance"

PageNodes(d) == FlattenSeq([p \in 1..Len(d.pages) |-> d.pages[p].parts])

SourceNodes(d) ==
    FlattenSeq([c \in 1..Len(SetToSeq(DOMAIN d.components)) |->
                  d.components[SetToSeq(DOMAIN d.components)[c]].parts])

walkDocument(d) == PageNodes(d) \o SourceNodes(d)

componentInstances(d) == SelectSeq(PageNodes(d), IsInstance)

definitionFor(d, source) ==
    IF source[1] = "local"
    THEN {d.components[c] : c \in {source[2]} \cap DOMAIN d.components}
    ELSE {d.snapshots[r] : r \in {source[2]} \cap DOMAIN d.snapshots}

-----------------------------------------------------------------------------
(* The policies on an instance's path.                                      *)

RECURSIVE PathFrom(_, _, _)

(* At each definition the walk goes on into one nested instance, the first  *)
(* a stack finds: the last of the tree.                                     *)
PathFrom(d, source, seen) ==
    UNION {def.policy
             \cup (IF def.id \in seen THEN {}
                   ELSE LET nested == SelectSeq(def.parts, IsInstance)
                        IN  IF nested = <<>> \/ Cardinality(seen) + 1 >= MaxPath THEN {}
                            ELSE PathFrom(d, Last(nested).source, seen \cup {def.id}))
             : def \in definitionFor(d, source)}

collectPolicyPath(d, id) ==
    UNION {PathFrom(d, n.source, {}) : n \in {m \in Range(walkDocument(d)) : IsInstance(m) /\ m.id = id}}

Capability ==
    [o \in {"override-set", "override-reset", "variant-change", "detach", "flatten", "insert-external",
            "source-update", "source-swap"} |->
        CASE o \in {"override-set", "override-reset"} -> "canEditOverrides"
          [] o = "variant-change"  -> "canChangeVariant"
          [] o = "detach"          -> "canDetach"
          [] o = "flatten"         -> "canFlatten"
          [] o = "insert-external" -> "canInsertExternalComponents"
          [] OTHER                 -> "canUpdateComponents"]

Overriding == {"override-set", "override-reset"}

(* One policy's answer.  forbids: the boolean capabilities it withholds;    *)
(* editable: the property ids it lists, none listed being <<>>.             *)
Forbids_ResetAny(policy, query) ==
    IF query.operation = "override-set"
    THEN policy.editable # <<>> /\ query.property \notin policy.editable[1]
    ELSE query.operation \in policy.forbids \/ (query.operation = "override-reset" /\ policy.editable # <<>>)

Forbids(policy, query) ==
    IF query.operation \in Overriding
    THEN policy.editable # <<>> /\ query.property \notin policy.editable[1]
    ELSE query.operation \in policy.forbids

Violation_NoPath(d, query, context) ==
    \/ query.operation \in DOMAIN Capability /\ Capability[query.operation] \notin context.can
    \/ /\ query.operation \in Overriding
       /\ query.instance \in DOMAIN context.editable
       /\ query.property \notin context.editable[query.instance]

Violation(d, query, context) ==
    \/ query.operation \in DOMAIN Capability /\ Capability[query.operation] \notin context.can
    \/ /\ query.operation \in Overriding
       /\ query.instance \in DOMAIN context.editable
       /\ query.property \notin context.editable[query.instance]
    \/ \E policy \in collectPolicyPath(d, query.instance) : Forbids(policy, query)

validateBrandComponentCommand(d, query, context) ==
    CASE context.enforcement = "off"      -> "allow"
      [] ~Violation(d, query, context)    -> "allow"
      [] context.enforcement = "blocking" -> "deny"
      [] OTHER                            -> "warn"

-----------------------------------------------------------------------------
(* The compliance report.                                                   *)

Issue(n, property, code, value) == [node |-> n.id, property |-> property, code |-> code, value |-> value]

(* tokens: the ids of the kit; names: its literals; what: color or font.    *)
checkStyle(n, property, style, tokens, names, rules, what) ==
    CASE IsToken(style) ->
            IF style[2] \in tokens THEN {} ELSE {Issue(n, property, <<"unresolved", what>>, style[2])}
      [] IsLiteral(style) ->
            LET Ruled(verdict) == \E r \in rules : r[1] = <<verdict, what>> /\ caseInsensitiveEquals(r[2], style[2])
                known == \E l \in names : caseInsensitiveEquals(l, style[2])
            IN  CASE Ruled("forbidden") -> {Issue(n, property, <<"forbidden", what>>, style[2])}
                  [] names = {} \/ known \/ Ruled("allowed") -> {}
                  [] OTHER -> {Issue(n, property, <<"off-brand", what>>, style[2])}
      [] OTHER -> {}

checkColor(n, property, style, kit) ==
    checkStyle(n, property, style, {c.id : c \in Range(kit.colors)}, {c.value : c \in Range(kit.colors)},
               kit.rules, "color")

checkFont(n, style, kit) ==
    checkStyle(n, "fontFamily", style, {f.id : f \in Range(kit.fonts)}, {f.family : f \in Range(kit.fonts)},
               kit.rules, "font")

Painted == {"rect", "ellipse", "polygon", "star", "path"}

NodeIssues(n, kit) ==
    CASE n.kind \in Painted   -> checkColor(n, "fill", n.fill, kit) \cup checkColor(n, "stroke", n.stroke, kit)
      [] n.kind = "line"      -> checkColor(n, "stroke", n.stroke, kit)
      [] n.kind \in {"text", "rich-text"} -> checkColor(n, "fill", n.fill, kit) \cup checkFont(n, n.font, kit)
      [] n.kind = "frame"     -> checkColor(n, "background", n.fill, kit)
      [] OTHER                -> {}

generateBrandComplianceReport(d, kit) == UNION {NodeIssues(n, kit) : n \in Range(walkDocument(d))}

effectivePathSeverity(path, context) ==
    IF context.enforcement = "blocking" /\ \E policy \in path : policy.recommends THEN "blocking" ELSE "warning"

(* Only the instance nodes themselves are entered under an instance. *)
applyComponentContext(d, issues, context) ==
    LET instances == {n.id : n \in Range(componentInstances(d))}
        path(i) == IF i.node \in instances THEN collectPolicyPath(d, i.node) ELSE {}
    IN  {[issue |-> i, severity |-> effectivePathSeverity(path(i), context)] : i \in issues}

normalizeComplianceIssues(found) ==
    {f \in found : f.severity = "blocking" \/ ~\E g \in found : g.issue = f.issue /\ g.severity = "blocking"}

generateGovernedComplianceReport(d, kit, context) ==
    normalizeComplianceIssues(applyComponentContext(d, generateBrandComplianceReport(d, kit), context))

-----------------------------------------------------------------------------
(* The transforms.  A patch is a function from fields to values, empty when *)
(* the transform leaves the node alone.                                     *)

ColorToken(style, kit) ==
    Found(kit.colors, LAMBDA c : IsLiteral(style) /\ caseInsensitiveEquals(c.value, style[2]))
FontToken(style, kit) ==
    Found(kit.fonts, LAMBDA f : IsLiteral(style) /\ caseInsensitiveEquals(f.family, style[2]))

(* The style linked to the token that a literal names, or Unset. *)
Linked(token) == IF token # <<>> /\ token[1].id # "" THEN Token(token[1].id) ELSE Unset

PatchOf(field, value) == IF value = Unset THEN EmptyMap ELSE [f \in {field} |-> value]

LinkedColor_ByValue(style, kit) ==
    LET token == ColorToken(style, kit) IN Linked([k \in DOMAIN token |-> [id |-> token[k].value]])

LinkedColor(style, kit) == Linked(ColorToken(style, kit))

LinkedOverrides(n, kit) ==
    [p \in DOMAIN n.overrides |->
        IF LinkedColor(n.overrides[p], kit) # Unset THEN LinkedColor(n.overrides[p], kit) ELSE n.overrides[p]]

applyBrandColors(n, kit) ==
    CASE n.kind \in Painted \cup {"text", "frame"} -> PatchOf("fill", LinkedColor(n.fill, kit))
      [] IsInstance(n) /\ LinkedOverrides(n, kit) # n.overrides -> [f \in {"overrides"} |-> LinkedOverrides(n, kit)]
      [] OTHER -> EmptyMap

replaceFonts(n, kit) ==
    IF n.kind = "text" THEN PatchOf("font", Linked(FontToken(n.font, kit))) ELSE EmptyMap

pickLogo(kit) ==
    LET tagged == Found(kit.logos, LAMBDA l : l.kind = "logo")
    IN  IF tagged # <<>> THEN tagged ELSE Found(kit.logos, LAMBDA l : TRUE)

(* logo: <<>> where a frame has no empty logo placeholder to fill.          *)
replaceLogoPlaceholders(n, kit) ==
    IF n.kind = "frame" /\ n.logo = <<"empty">> /\ pickLogo(kit) # <<>>
    THEN PatchOf("logo", Token(pickLogo(kit)[1].id))
    ELSE EmptyMap

(* Overwrites, whether or not the text already has the preset's values.     *)
normalizeTypography(n, kit) ==
    IF n.kind = "text" /\ kit.typography # <<>> THEN PatchOf("size", kit.typography[1].size) ELSE EmptyMap

Patch(transform, n, kit) ==
    CASE transform = "colors"     -> applyBrandColors(n, kit)
      [] transform = "fonts"      -> replaceFonts(n, kit)
      [] transform = "logos"      -> replaceLogoPlaceholders(n, kit)
      [] transform = "typography" -> normalizeTypography(n, kit)

Patched(n, patch) == [f \in DOMAIN n |-> IF f \in DOMAIN patch THEN patch[f] ELSE n[f]]

(* patches: node id -> patch. *)
patchNodeTree(parts, patches) ==
    [k \in DOMAIN parts |-> IF parts[k].id \in DOMAIN patches THEN Patched(parts[k], patches[parts[k].id]) ELSE parts[k]]

patchDefinitions_Every(components, patches) ==
    [c \in DOMAIN components |-> [components[c] EXCEPT !.revision = @ + 1, !.parts = patchNodeTree(@, patches)]]

patchDefinitions(components, patches) ==
    [c \in DOMAIN components |->
        IF {n.id : n \in Range(components[c].parts)} \cap DOMAIN patches = {} THEN components[c]
        ELSE [components[c] EXCEPT !.revision = @ + 1, !.parts = patchNodeTree(@, patches)]]

(* What a transform would patch among some nodes. *)
PatchesOf(nodes, transform, kit, includeLocked) ==
    LET hit == {n \in nodes : Patch(transform, n, kit) # EmptyMap /\ (includeLocked \/ ~n.locked)}
    IN  [id \in {n.id : n \in hit} |-> Patch(transform, CHOOSE n \in hit : n.id = id, kit)]

PatchPages(d, patches) ==
    [d EXCEPT !.pages = [p \in DOMAIN d.pages |-> [d.pages[p] EXCEPT !.parts = patchNodeTree(@, patches)]]]

(* The document it makes; its command holds the page patches only. *)
runBrandTransform(d, pagePatches, sourcePatches) ==
    [PatchPages(d, pagePatches) EXCEPT !.components = patchDefinitions(@, sourcePatches)]

Rebranded(d, transform, kit, includeLocked) ==
    runBrandTransform(d, PatchesOf(Range(PageNodes(d)), transform, kit, includeLocked),
                         PatchesOf(Range(SourceNodes(d)), transform, kit, includeLocked))

-----------------------------------------------------------------------------
(* Export.                                                                  *)

(* getDefinition over the index: a quarantined snapshot does not resolve.   *)
Resolves(d, source, quarantined) ==
    definitionFor(d, source) # {} /\ ~(source[1] = "external" /\ source[2] \in quarantined)

LocalSources(parts) == {n.source[2] : n \in {m \in Range(parts) : IsInstance(m) /\ m.source[1] = "local"}}

RECURSIVE LocalReach(_, _)

LocalReach(d, ids) ==
    LET next == ids \cup UNION {LocalSources(d.components[c].parts) : c \in ids \cap DOMAIN d.components}
    IN  IF next = ids THEN ids ELSE LocalReach(d, next)

(* Whether validateComponentGraph finds an error, its two limits on size    *)
(* left out: a local Source that is missing or that reaches itself, a       *)
(* property whose node is gone or takes no colour, an id that a Source      *)
(* shares with another tree.                                                *)
GraphErrors(d) ==
    LET Holders(id) == {k \in DOMAIN walkDocument(d) : walkDocument(d)[k].id = id}
        Wrong(def) ==
            \/ def.id \in LocalReach(d, LocalSources(def.parts))
            \/ \E p \in DOMAIN def.properties :
                  ~\E n \in Range(def.parts) : n.id = def.properties[p] /\ n.kind \in {"rect", "text"}
            \/ \E n \in Range(def.parts) : Cardinality(Holders(n.id)) > 1
    IN  \/ LocalSources(walkDocument(d)) \ DOMAIN d.components # {}
        \/ \E c \in DOMAIN d.components : Wrong(d.components[c])

Refusal(code) == [ok |-> FALSE, code |-> code]

(* source: <<"ref">>, or a document with whether it parses.                 *)
prepareExport(source, context, kit, quarantined, flatten) ==
    LET d == source[2]
        Flattening(n) == [operation |-> "flatten", instance |-> n.id, property |-> ""]
    IN  CASE source[1] = "ref"     -> Refusal("document-ref-unresolved")
          [] source[1] = "invalid" -> Refusal("document-invalid")
          [] GraphErrors(d) \/ \E n \in Range(componentInstances(d)) : ~Resolves(d, n.source, quarantined)
                -> Refusal("component-unresolved")
          [] flatten /\ \E n \in Range(componentInstances(d)) :
                           validateBrandComponentCommand(d, Flattening(n), context) = "deny"
                -> Refusal("flatten-denied")
          [] OTHER -> [ok |-> TRUE, document |-> d, report |-> generateGovernedComplianceReport(d, kit, context)]

(* Cost.  A ratio is in tenths; a page is as large as its size.             *)
Rasterized == {"png", "jpeg", "webp", "pdf", "pdf-print"}

outputDimension_Inverse(size, ratio) == (size * 10) \div ratio

outputDimension(size, ratio) == (size * ratio + 9) \div 10

MaxOf(numbers) == IF numbers = <<>> THEN 0 ELSE CHOOSE m \in Range(numbers) : \A n \in Range(numbers) : n <= m

estimateCanvasExportCost(pages, format, ratio) ==
    LET drawn(p) == IF format \in Rasterized THEN ratio ELSE 10
        width(p) == outputDimension(p.width, drawn(p))
        height(p) == outputDimension(p.height, drawn(p))
        cost(p) == [edge |-> MaxOf(<<width(p), height(p)>>),
                    pixels |-> IF format \in Rasterized THEN width(p) * height(p) ELSE 0]
        costs == [k \in DOMAIN pages |-> cost(pages[k])]
    IN  [pages |-> costs, total |-> FoldLeft(LAMBDA sum, c : sum + c.pixels, 0, costs)]

ExecutionTier(estimate, budgets) ==
    CASE estimate.total <= budgets.main       -> 1
      [] estimate.total <= budgets.background -> 2
      [] OTHER                                -> 3

checkCanvasExportLimits(estimate, scale, limits) ==
    (IF scale > limits.scale THEN {"EXPORT_SCALE_LIMIT"} ELSE {})
    \cup (IF Len(estimate.pages) > limits.pages THEN {"EXPORT_PAGE_COUNT_LIMIT"} ELSE {})
    \cup {"EXPORT_EDGE_LIMIT" : c \in {c \in Range(estimate.pages) : c.pixels > 0 /\ c.edge > limits.edge}}
    \cup {"EXPORT_PAGE_PIXELS_LIMIT" : c \in {c \in Range(estimate.pages) : c.pixels > limits.pagePixels}}
    \cup (IF estimate.total > limits.total THEN {"EXPORT_TOTAL_PIXELS_LIMIT"} ELSE {})

=============================================================================
