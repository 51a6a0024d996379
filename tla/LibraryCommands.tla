--------------------------- MODULE LibraryCommands ---------------------------
(***************************************************************************)
(* External components: admission of a provider's envelope, the closure of *)
(* its dependencies, and the extension commands of                         *)
(* src/component-libraries/commands over a document that stores snapshots. *)
(*                                                                         *)
(* A reference names a component, a version and a digest; the digest is    *)
(* modelled by what it covers, the canonical subject, so equal digests are *)
(* equal contents.  An optional field is a set of at most one value.  A    *)
(* command maps a document to the set of its results, <<document, inverse  *)
(* command>>, empty when it throws.                                        *)
(***************************************************************************)
EXTENDS Integers, FiniteSets, SequencesExt

CONSTANTS Body,              \* definitions, as opaque contents
          Def,               \* Body -> what a definition holds
          MaxDependencies,   \* MAX_EXTERNAL_DEPENDENCIES_PER_COMPONENT
          MaxClosureDepth,   \* MAX_EXTERNAL_DEPENDENCY_DEPTH
          MaxNodes           \* MAX_COMPONENT_EXPANDED_NODES_PER_RESOLUTION

ASSUME LibraryAssumption ==
    /\ MaxDependencies \in Nat /\ MaxClosureDepth \in Nat /\ MaxNodes \in Nat
    /\ DOMAIN Def = Body
    /\ \A b \in Body : Def[b].nodes \in Nat /\ Def[b].dependencies \in Seq(Range(Def[b].dependencies))

Nothing == {}
Refused == {}
Done(d, inverse) == {<<d, inverse>>}

(* One optional value over another. *)
Given(option, default) == IF option = {} THEN default ELSE CHOOSE v \in option : TRUE

EmptyMap == [x \in {} |-> 0]
Over(f, g) == [k \in DOMAIN f \cup DOMAIN g |-> IF k \in DOMAIN f THEN f[k] ELSE g[k]]
Entry(key, value) == [k \in {key} |-> value]
Without(map, keys) == [k \in DOMAIN map \ keys |-> map[k]]

-----------------------------------------------------------------------------
(* References and what is hashed.                                           *)

Subject(component, version, body) == <<component, version, body>>

Ref(component, version, body) ==
    [component |-> component, version |-> version, integrity |-> Subject(component, version, body)]

Snapshot(ref, body) == [ref |-> ref, body |-> body]

canonicalSubject(s) == Subject(s.ref.component, s.ref.version, s.body)

(* snapshotKey throws on an empty field; otherwise one key per reference. *)
Keyable(ref) == ref.component # ""

parseIntegrity(ref) == ref.integrity # <<>>

-----------------------------------------------------------------------------
(* validateExternalClosure: a depth-first walk that stops at the first      *)
(* problem.  A snapshot seen before is not walked again, whatever the depth *)
(* it is met at; one met on its own path, or too deep, is a problem first.  *)

Declared(s) == Range(Def[s.body].dependencies)

SoundManifest(s) ==
    /\ Len(Def[s.body].dependencies) <= MaxDependencies
    /\ \A r \in Declared(s) : Keyable(r)
    /\ ~Def[s.body].local
    /\ Def[s.body].nested \subseteq Declared(s)

(* How far a walk has come: the snapshots it has seen, the nodes they       *)
(* expand to, and whether it met no problem.                                *)
Walked(refs) == [seen : SUBSET refs, nodes : Nat, sound : BOOLEAN]

Problem(w) == [w EXCEPT !.sound = FALSE]

(* c: the snapshot the walk starts from, those that can be looked up, and   *)
(* whether a dependency that is not among them is a problem.                *)
Known(c) == {c.root} \cup Range(c.found)

Visits(c) ==
    LET refs == {s.ref : s \in Known(c)}
    IN  [at : Known(c), path : SUBSET refs, sofar : Walked(refs)]

(* One visit; deeper is what a visit one step further down the path does.   *)
Visit(c, deeper, v) ==
    LET s == v.at
        met == [v.sofar EXCEPT !.seen = @ \cup {s.ref}, !.nodes = @ + Def[s.body].nodes]
        into(w, r) ==
            IF w.sound /\ r \in DOMAIN c.found
            THEN deeper[[at |-> c.found[r], path |-> v.path \cup {s.ref}, sofar |-> w]]
            ELSE [w EXCEPT !.sound = @ /\ ~c.present]
    IN  IF ~Keyable(s.ref) \/ s.ref \in v.path THEN Problem(v.sofar)
        ELSE IF s.ref \in v.sofar.seen THEN v.sofar
        ELSE IF ~SoundManifest(s) \/ met.nodes > MaxNodes THEN Problem(met)
        ELSE FoldLeft(into, met, Def[s.body].dependencies)

(* left: how many more snapshots the path may take up.                      *)
Walk(c) ==
    LET walk[left \in 0 .. MaxClosureDepth] ==
            [v \in Visits(c) |-> IF left = 0 THEN Problem(v.sofar) ELSE Visit(c, walk[left - 1], v)]
    IN  walk[MaxClosureDepth][[at |-> c.root, path |-> {},
                               sofar |-> [seen |-> {}, nodes |-> 0, sound |-> TRUE]]]

ByRef(snapshots) == [r \in {s.ref : s \in snapshots} |-> CHOOSE s \in snapshots : s.ref = r]

(* registry: the snapshots of the document, or Nothing where admission has  *)
(* no document; without it and without pending snapshots, presence is not   *)
(* required.                                                                *)
Closure(s, registry, pending) ==
    Walk([root |-> s, found |-> Over(ByRef(pending), Given(registry, EmptyMap)),
          present |-> registry # Nothing \/ pending # {}])

validateExternalClosure(s, registry, pending) ==
    s.ref \notin Declared(s) /\ Closure(s, registry, pending).sound

-----------------------------------------------------------------------------
(* admitExternalSnapshot up to the verifier: everything before the await.   *)

(* The strict schema and the byte ceiling, as flags of the envelope. *)
WellFormed(e) == e.parses /\ ~e.oversize

Admissible(e, registry, pending) ==
    LET s == Snapshot(e.ref, e.body)
    IN  /\ WellFormed(e)
        /\ validateExternalClosure(s, registry, pending)
        /\ Keyable(e.ref)
        /\ parseIntegrity(e.ref)

(* What a faithful verifier answers for the canonical bytes. *)
Verifies(s) == canonicalSubject(s) = s.ref.integrity

-----------------------------------------------------------------------------
(* The document: the instances on its pages, the references its local       *)
(* Sources make, and its registry of snapshots.                             *)

(* What a reference keeps alive: the dependencies of its snapshot, if that  *)
(* is stored, and what the tree of the snapshot instantiates.               *)
Needs(registry, r) ==
    IF r \in DOMAIN registry
    THEN {q \in Declared(registry[r]) \cup Def[registry[r].body].nested : Keyable(q)}
    ELSE {}

(* The worklist ends with the least set that holds what the document refers *)
(* to and what its members keep alive.                                      *)
collectReferencedSnapshotKeys(d) ==
    LET direct == {r \in {d.instances[i].source : i \in DOMAIN d.instances} \cup d.locals : Keyable(r)}
        refs == direct \cup UNION {Needs(d.registry, r) : r \in DOMAIN d.registry}
    IN  {r \in refs : \A kept \in SUBSET refs :
           direct \subseteq kept /\ (\A q \in kept : Needs(d.registry, q) \subseteq kept) => r \in kept}

(* admitInto for each snapshot in turn: kept when stored already. *)
Conflicts(registry, snapshots) ==
    \E s \in snapshots : s.ref \in DOMAIN registry /\ registry[s.ref] # s

Merged(registry, snapshots) ==
    [r \in DOMAIN registry \cup {s.ref : s \in snapshots} |->
        IF r \in DOMAIN registry THEN registry[r] ELSE ByRef(snapshots)[r]]

(* Forgets which snapshots were reused. *)
Added_Reused(registry, snapshots) == {s.ref : s \in snapshots}

Added(registry, snapshots) == {s.ref : s \in snapshots} \ DOMAIN registry

Allowed(denied, operation) == operation \notin denied

-----------------------------------------------------------------------------
(* component-instance.insert-external and its inverse.                      *)

InsertC(i, s, deps, overrides) ==
    [type |-> "insert", instance |-> i, candidate |-> s, dependencies |-> deps,
     source |-> s.ref, overrides |-> overrides]

applyInsertExternal(denied, d, c) ==
    LET pending == {c.candidate} \cup c.dependencies
    IN  IF /\ Allowed(denied, "insert-external")
           /\ c.source = c.candidate.ref
           /\ validateExternalClosure(c.candidate, {d.registry}, pending)
           /\ ~Conflicts(d.registry, pending)
        THEN Done([d EXCEPT !.registry = Merged(d.registry, pending),
                            !.instances = Over(Entry(c.instance, [source |-> c.source, overrides |-> c.overrides,
                                                                  selection |-> Nothing]), d.instances)],
                  [type |-> "revert-insert", instance |-> c.instance,
                   added |-> Added(d.registry, pending), again |-> c])
        ELSE Refused

applyRevertExternalInsert_KeepsSnapshots(d, c) ==
    IF c.instance \notin DOMAIN d.instances THEN Refused
    ELSE Done([d EXCEPT !.instances = Without(d.instances, {c.instance})], c.again)

applyRevertExternalInsert(d, c) ==
    IF c.instance \notin DOMAIN d.instances THEN Refused
    ELSE Done([d EXCEPT !.registry = Without(d.registry, c.added),
                        !.instances = Without(d.instances, {c.instance})],
              c.again)

-----------------------------------------------------------------------------
(* compareComponentDefinitions and migrateComponentOverrides.  Property ids *)
(* are numbers, migrated in ascending order; sem 0 is no semantic key.      *)

PropertyIds(def) == {def.properties[k].id : k \in DOMAIN def.properties}
PropertyOf(def, id) == def.properties[CHOOSE k \in DOMAIN def.properties : def.properties[k].id = id]

Candidates(p, to) ==
    {k \in DOMAIN to.properties : to.properties[k].kind = p.kind /\ to.properties[k].sem = p.sem}

(* How property p of the old definition maps: <<kind, target id or 0>>. *)
MappingOf(p, to) ==
    CASE p.id \in PropertyIds(to) ->
           IF PropertyOf(to, p.id).kind = p.kind THEN <<"exact", p.id>> ELSE <<"blocked", p.id>>
      [] p.id \notin PropertyIds(to) /\ p.sem # 0 /\ Cardinality(Candidates(p, to)) > 1 -> <<"ambiguous", 0>>
      [] p.id \notin PropertyIds(to) /\ p.sem # 0 /\ Cardinality(Candidates(p, to)) = 1 ->
           <<"semantic", to.properties[CHOOSE k \in Candidates(p, to) : TRUE].id>>
      [] OTHER -> <<"orphaned", 0>>

(* Axes matched by id, and the components each tree instantiates. *)
DroppedValues(from, to) ==
    \E a \in DOMAIN from.axes : a \notin DOMAIN to.axes \/ ~(from.axes[a].values \subseteq to.axes[a].values)

diffDependencies(from, to) ==
    {r.component : r \in from.nested} # {r.component : r \in to.nested}

Classification(from, to) ==
    LET kinds == {MappingOf(from.properties[k], to)[1] : k \in DOMAIN from.properties}
    IN  CASE "blocked" \in kinds -> "incompatible"
          [] "blocked" \notin kinds /\ (kinds \cap {"ambiguous", "orphaned"} # {} \/ DroppedValues(from, to)
                                          \/ diffDependencies(from, to)) -> "review-required"
          [] OTHER -> "compatible"

(* Where the override of property id goes; 0 keeps it as an orphan. *)
TargetOf(from, to, id) ==
    IF id \notin PropertyIds(from) THEN 0
    ELSE LET m == MappingOf(PropertyOf(from, id), to)
         IN IF m[1] \in {"exact", "semantic"} THEN m[2] ELSE 0

(* The overrides that moved, with the orphans written over them under their *)
(* own ids; of several overrides for one target the last id wins.           *)
migrateComponentOverrides(overrides, from, to) ==
    LET orphans == {id \in DOMAIN overrides : TargetOf(from, to, id) = 0}
        comers(t) == {id \in DOMAIN overrides : TargetOf(from, to, id) = t}
        last(ids) == CHOOSE id \in ids : \A other \in ids : other <= id
    IN  [t \in orphans \cup {TargetOf(from, to, id) : id \in DOMAIN overrides \ orphans} |->
            IF t \in orphans THEN overrides[t] ELSE overrides[last(comers(t))]]


-----------------------------------------------------------------------------
(* component-instance.update-source, .swap-source and their inverse.        *)

ChangeC(type, targets, from, s, deps) ==
    [type |-> type, targets |-> targets, from |-> from, candidate |-> s, dependencies |-> deps]

(* No target carries any other reference than the one previewed. *)
StillPreviewed(d, c) ==
    /\ c.targets # {}
    /\ c.from \in DOMAIN d.registry
    /\ \A i \in c.targets : i \in DOMAIN d.instances /\ d.instances[i].source = c.from

Compatible(d, c) ==
    \/ c.type = "swap"
    \/ /\ c.candidate.ref.component = c.from.component
       /\ Classification(Def[d.registry[c.from].body], Def[c.candidate.body]) # "incompatible"

Retargeted(d, c, instance) ==
    [instance EXCEPT !.source = c.candidate.ref,
                     !.overrides = {m \in {migrateComponentOverrides(o, Def[d.registry[c.from].body],
                                                                     Def[c.candidate.body]) : o \in instance.overrides}
                                      : DOMAIN m # {}}]

applySourceChange(denied, d, c) ==
    LET pending == {c.candidate} \cup c.dependencies
    IN  IF /\ StillPreviewed(d, c)
           /\ Allowed(denied, c.type)
           /\ Compatible(d, c)
           /\ validateExternalClosure(c.candidate, {d.registry}, pending)
        THEN Done([d EXCEPT !.registry = Merged(d.registry, pending),
                            !.instances = [i \in DOMAIN d.instances |-> IF i \in c.targets THEN Retargeted(d, c, d.instances[i])
                                                                        ELSE d.instances[i]]],
                  [type |-> "revert-change", restores |-> [i \in c.targets |-> d.instances[i]],
                   added |-> Added(d.registry, pending), again |-> c])
        ELSE Refused

applyRevertSourceChange(d, c) ==
    IF ~(DOMAIN c.restores \subseteq DOMAIN d.instances) THEN Refused
    ELSE Done([d EXCEPT !.registry = Without(d.registry, c.added),
                        !.instances = Over(c.restores, d.instances)],
              c.again)

-----------------------------------------------------------------------------
(* Variants: resolveComponentVariant fills every axis, then looks for the   *)
(* combination; component-instance.set-variant stores the selection as      *)
(* chosen and keeps or discards the overrides the variant does not bind.    *)

NormalizedSelection(def, selection) ==
    [a \in DOMAIN def.axes |->
        IF a \in DOMAIN selection /\ selection[a] \in def.axes[a].values THEN selection[a]
        ELSE def.axes[a].default]

(* The index of the variant shown, 0 for the base definition. *)
resolveComponentVariant(def, selection) ==
    LET named(v) == def.variants[v].id = def.defaultVariant
        exact(v) == def.variants[v].selection = NormalizedSelection(def, selection)
    IN  CASE ~\E v \in DOMAIN def.variants : named(v) -> 0
          [] (\E v \in DOMAIN def.variants : named(v)) /\ (\E v \in DOMAIN def.variants : exact(v)) ->
               SelectInSeq([v \in DOMAIN def.variants |-> exact(v)], LAMBDA e : e)
          [] OTHER -> SelectInSeq([v \in DOMAIN def.variants |-> named(v)], LAMBDA e : e)

(* propertyTargetMap: the properties a variant leaves unbound. *)
Preserved(def, overrides, v) ==
    (DOMAIN overrides \cap PropertyIds(def)) \ (IF v = 0 THEN {} ELSE def.variants[v].unbound)

SetVariantC(i, selection, discard) ==
    [type |-> "set-variant", instance |-> i, selection |-> selection, discard |-> discard, restore |-> Nothing]

KeptOverrides(def, c, overrides) ==
    LET v == resolveComponentVariant(def, c.selection)
        current == Given(overrides, EmptyMap)
    IN  CASE c.restore # Nothing -> c.restore
          [] c.restore = Nothing /\ c.discard -> {[p \in Preserved(def, current, v) |-> current[p]]}
          [] OTHER -> overrides

VariantInverse(c, instance) ==
    [type |-> "set-variant", instance |-> c.instance, selection |-> Given(instance.selection, EmptyMap),
     discard |-> FALSE, restore |-> instance.overrides]

applySetVariant(d, c) ==
    IF c.instance \notin DOMAIN d.instances THEN Refused
    ELSE LET instance == d.instances[c.instance]
         IN  IF instance.source \notin DOMAIN d.registry THEN Refused
             ELSE LET def == Def[d.registry[instance.source].body]
                  IN  IF def.variants = <<>> THEN Refused
                      ELSE Done([d EXCEPT !.instances =
                                   Over(Entry(c.instance, [instance EXCEPT
                                                !.selection = {s \in {c.selection} : DOMAIN s # {}},
                                                !.overrides = KeptOverrides(def, c, instance.overrides)]),
                                        d.instances)],
                                VariantInverse(c, instance))

-----------------------------------------------------------------------------
(* component-snapshot.collect-unused and restore-collected, .recover and    *)
(* its inverse.                                                             *)

CollectC(retained) == [type |-> "collect", retained |-> retained]

previewCollectUnused_DirectOnly(d, retained) ==
    DOMAIN d.registry \ ({d.instances[i].source : i \in DOMAIN d.instances} \cup d.locals \cup retained)

previewCollectUnused(d, retained) ==
    DOMAIN d.registry \ (collectReferencedSnapshotKeys(d) \cup retained)

applyCollectUnused(d, c) ==
    LET eligible == previewCollectUnused(d, c.retained)
    IN  Done([d EXCEPT !.registry = Without(d.registry, eligible)],
             [type |-> "restore", removed |-> [r \in eligible |-> d.registry[r]]])

(* Its inverse collects again, retaining nothing. *)
applyRestoreCollected(d, c) ==
    Done([d EXCEPT !.registry = Over(c.removed, d.registry)], CollectC({}))

RecoverC(expected, s, deps) ==
    [type |-> "recover", expected |-> expected, candidate |-> s, dependencies |-> deps]

applyRecoverSnapshot(d, c) ==
    LET pending == {c.candidate} \cup c.dependencies
    IN  IF c.expected = c.candidate.ref /\ validateExternalClosure(c.candidate, {d.registry}, pending)
        THEN Done([d EXCEPT !.registry = Merged(d.registry, pending)],
                  [type |-> "unrecover", added |-> Added(d.registry, pending), again |-> c])
        ELSE Refused

applyUnrecoverSnapshot(d, c) ==
    Done([d EXCEPT !.registry = Without(d.registry, c.added)], c.again)

-----------------------------------------------------------------------------
(* The extension runtime finds the handler by the command's type.           *)

Apply(denied, d, c) ==
    CASE c.type = "insert"           -> applyInsertExternal(denied, d, c)
      [] c.type = "revert-insert"    -> applyRevertExternalInsert(d, c)
      [] c.type \in {"update", "swap"} -> applySourceChange(denied, d, c)
      [] c.type = "revert-change"    -> applyRevertSourceChange(d, c)
      [] c.type = "set-variant"      -> applySetVariant(d, c)
      [] c.type = "collect"          -> applyCollectUnused(d, c)
      [] c.type = "restore"          -> applyRestoreCollected(d, c)
      [] c.type = "recover"          -> applyRecoverSnapshot(d, c)
      [] c.type = "unrecover"        -> applyUnrecoverSnapshot(d, c)

=============================================================================
