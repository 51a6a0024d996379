------------------------ MODULE LibraryHistory_proofs ------------------------
(***************************************************************************)
(* Proofs about LibraryHistory: what is stored is what was published, for  *)
(* any number of hosts; and for a host that edits alone, its stacks are a  *)
(* line of versions, every entry applies, and no command opens a hole.     *)
(***************************************************************************)
EXTENDS LibraryHistory, IntervalInduction, FiniteSetTheorems, SequenceTheorems, TLAPS

-----------------------------------------------------------------------------
(* Stacks: sequences of anything.                                           *)

IsSeq(s) == s \in Seq(Range(s))

LEMMA SeqIs ==
  ASSUME NEW S, NEW s \in Seq(S)
  PROVE  IsSeq(s) /\ \A k \in 1 .. Len(s) : s[k] \in S
<1>1. Len(s) \in Nat /\ s = [i \in 1 .. Len(s) |-> s[i]] /\ \A i \in 1 .. Len(s) : s[i] \in S
  OBVIOUS
<1>2. \A i \in 1 .. Len(s) : s[i] \in Range(s)
  BY <1>1 DEF Range
<1> QED
  BY <1>1, <1>2 DEF IsSeq

(* An entry is pushed.                                                      *)
LEMMA Pushed ==
  ASSUME NEW s, IsSeq(s), NEW x
  PROVE  /\ Len(s) \in Nat /\ IsSeq(<<x>> \o s) /\ Len(<<x>> \o s) = Len(s) + 1
         /\ <<x>> \o s # <<>> /\ Head(<<x>> \o s) = x /\ Tail(<<x>> \o s) = s
         /\ (<<x>> \o s)[1] = x
         /\ \A k \in 2 .. Len(s) + 1 : (<<x>> \o s)[k] = s[k - 1]
<1> DEFINE S == Range(s) \cup {x}
<1>1. s \in Seq(S)
  <2>1. s \in Seq(Range(s))
    BY DEF IsSeq
  <2> DEFINE R == Range(s)
  <2> HIDE DEF R
  <2>2. s \in Seq(R) => s \in Seq(R \cup {x})
    OBVIOUS
  <2> QED
    BY <2>1, <2>2 DEF R
<1>2. x \in S
  OBVIOUS
<1> HIDE DEF S
<1>3. <<x>> \o s \in Seq(S)
  BY <1>1, <1>2
<1>4. IsSeq(<<x>> \o s)
  BY <1>3, SeqIs
<1>5. /\ Len(s) \in Nat /\ Len(<<x>> \o s) = Len(s) + 1
      /\ (<<x>> \o s)[1] = x
      /\ \A k \in 2 .. Len(s) + 1 : (<<x>> \o s)[k] = s[k - 1]
  BY <1>1, <1>2
<1>6. <<x>> \o s # <<>> /\ Head(<<x>> \o s) = x
  BY <1>1, <1>2
<1>7. Tail(<<x>> \o s) = s
  BY <1>1, <1>2
<1> QED
  BY <1>4, <1>5, <1>6, <1>7

(* An entry is popped.                                                      *)
LEMMA Popped ==
  ASSUME NEW s, IsSeq(s), s # <<>>
  PROVE  /\ IsSeq(Tail(s)) /\ Len(s) \in Nat \ {0} /\ Len(Tail(s)) = Len(s) - 1
         /\ Head(s) = s[1] /\ 1 \in 1 .. Len(s)
         /\ \A k \in 1 .. Len(s) - 1 : Tail(s)[k] = s[k + 1]
<1> DEFINE S == Range(s)
<1>1. s \in Seq(S)
  BY DEF IsSeq
<1> HIDE DEF S
<1>2. Tail(s) \in Seq(S)
  BY <1>1
<1>3. IsSeq(Tail(s))
  BY <1>2, SeqIs
<1> QED
  BY <1>1, <1>3

LEMMA NoEntry == IsSeq(<<>>) /\ Len(<<>>) = 0
<1>1. <<>> \in Seq({})
  OBVIOUS
<1> QED
  BY <1>1, SeqIs

-----------------------------------------------------------------------------
(* Maps and documents.                                                      *)

IsMap(f) == f = [x \in DOMAIN f |-> f[x]]

LEMMA MapInto ==
  ASSUME NEW f
  PROVE  f \in [DOMAIN f -> Range(f)] <=> IsMap(f)
BY DEF Range, IsMap


LEMMA OverIs ==
  ASSUME NEW f, NEW g
  PROVE  /\ IsMap(Over(f, g)) /\ DOMAIN Over(f, g) = DOMAIN f \cup DOMAIN g
         /\ \A k \in DOMAIN f : Over(f, g)[k] = f[k]
         /\ \A k \in DOMAIN g \ DOMAIN f : Over(f, g)[k] = g[k]
BY DEF Over, IsMap

LEMMA EntryIs ==
  ASSUME NEW k, NEW x
  PROVE  DOMAIN Entry(k, x) = {k} /\ Entry(k, x)[k] = x
BY DEF Entry

LEMMA WithoutIs ==
  ASSUME NEW f, NEW keys
  PROVE  /\ IsMap(Without(f, keys)) /\ DOMAIN Without(f, keys) = DOMAIN f \ keys
         /\ \A k \in DOMAIN f \ keys : Without(f, keys)[k] = f[k]
BY DEF Without, IsMap

(* An instance: a record with at most one selection, and that of some axis. *)
Placement(x) ==
    /\ x = [source |-> x.source, overrides |-> x.overrides, selection |-> x.selection]
    /\ \A s, t \in x.selection : s = t /\ DOMAIN s # {}

Placements(f) == IsMap(f) /\ \A i \in DOMAIN f : Placement(f[i])

(* A registry: published snapshots under their own references.              *)
Snapshots(f) == IsMap(f) /\ \A r \in DOMAIN f : Published(f[r]) /\ f[r].ref = r

Doc(instances, registry, locals) == [instances |-> instances, registry |-> registry, locals |-> locals]

LEMMA DocumentIs ==
  ASSUME NEW d, IsDocument(d)
  PROVE  /\ d = Doc(d.instances, d.registry, d.locals)
         /\ Placements(d.instances) /\ Snapshots(d.registry)
<1>1. d.instances \in [DOMAIN d.instances -> Range(d.instances)]
      /\ d.registry \in [DOMAIN d.registry -> Range(d.registry)]
  BY DEF IsDocument
<1>2. IsMap(d.instances) /\ IsMap(d.registry)
  BY <1>1, MapInto
<1>3. \A i \in DOMAIN d.instances : d.instances[i] \in Range(d.instances)
  BY DEF Range
<1> QED
  BY <1>2, <1>3 DEF IsDocument, Placements, Placement, Snapshots, Doc

LEMMA IsADocument ==
  ASSUME NEW instances, NEW registry, NEW locals, Placements(instances), Snapshots(registry)
  PROVE  IsDocument(Doc(instances, registry, locals))
<1> DEFINE d == Doc(instances, registry, locals)
<1>1. d.instances = instances /\ d.registry = registry /\ d.locals = locals
  BY DEF Doc
<1>2. d = [instances |-> d.instances, registry |-> d.registry, locals |-> d.locals]
  BY <1>1 DEF Doc
<1>3. instances \in [DOMAIN instances -> Range(instances)] /\ registry \in [DOMAIN registry -> Range(registry)]
  BY MapInto DEF Placements, Snapshots
<1>4. \A x \in Range(instances) : Placement(x)
  BY DEF Range, Placements
<1> HIDE DEF d
<1>5. IsDocument(d)
  BY <1>1, <1>2, <1>3, <1>4 DEF IsDocument, Placement, Snapshots
<1> QED
  BY <1>5 DEF d

(* The documents the commands write.                                        *)
Placing(d, instances) == [d EXCEPT !.instances = instances]
Storing(d, registry) == [d EXCEPT !.registry = registry]
Writing(d, registry, instances) == [d EXCEPT !.registry = registry, !.instances = instances]

LEMMA Written ==
  ASSUME NEW d, IsDocument(d), NEW instances, NEW registry
  PROVE  /\ Placing(d, instances) = Doc(instances, d.registry, d.locals)
         /\ Storing(d, registry) = Doc(d.instances, registry, d.locals)
         /\ Writing(d, registry, instances) = Doc(instances, registry, d.locals)
<1>1. d = [instances |-> d.instances, registry |-> d.registry, locals |-> d.locals]
  BY DEF IsDocument
<1>2. DOMAIN d = {"instances", "registry", "locals"}
  BY <1>1
<1>3. Placing(d, instances) = [k \in DOMAIN d |-> IF k = "instances" THEN instances ELSE d[k]]
  BY DEF Placing
<1>4. Storing(d, registry) = [k \in DOMAIN d |-> IF k = "registry" THEN registry ELSE d[k]]
  BY DEF Storing
<1>5. Writing(d, registry, instances)
        = [k \in DOMAIN d |-> IF k = "instances" THEN instances ELSE IF k = "registry" THEN registry ELSE d[k]]
  BY DEF Writing
<1>6. Placing(d, instances) = Doc(instances, d.registry, d.locals)
  BY <1>2, <1>3 DEF Doc
<1>7. Storing(d, registry) = Doc(d.instances, registry, d.locals)
  BY <1>2, <1>4 DEF Doc
<1>8. Writing(d, registry, instances) = Doc(instances, registry, d.locals)
  BY <1>2, <1>5 DEF Doc
<1> QED
  BY <1>6, <1>7, <1>8

LEMMA PartsOf ==
  ASSUME NEW instances, NEW registry, NEW locals
  PROVE  /\ Doc(instances, registry, locals).instances = instances
         /\ Doc(instances, registry, locals).registry = registry
         /\ Doc(instances, registry, locals).locals = locals
BY DEF Doc

(* Merging published snapshots into a registry, and taking them away again. *)
LEMMA MergedIs ==
  ASSUME NEW R, Snapshots(R), NEW S, \A s \in S : Published(s)
  PROVE  /\ Snapshots(Merged(R, S))
         /\ DOMAIN Merged(R, S) = DOMAIN R \cup {s.ref : s \in S}
         /\ \A r \in DOMAIN R : Merged(R, S)[r] = R[r]
         /\ Without(Merged(R, S), Added(R, S)) = R
<1> DEFINE M == Merged(R, S)
<1>1. /\ IsMap(M) /\ DOMAIN M = DOMAIN R \cup {s.ref : s \in S}
      /\ \A r \in DOMAIN R : M[r] = R[r]
      /\ \A r \in {s.ref : s \in S} \ DOMAIN R : M[r] = ByRef(S)[r]
  BY DEF Merged, IsMap
<1>2. \A r \in {s.ref : s \in S} : ByRef(S)[r] \in S /\ ByRef(S)[r].ref = r
  BY DEF ByRef
<1> HIDE DEF M
<1>3. Snapshots(M)
  BY <1>1, <1>2 DEF Snapshots
<1>4. DOMAIN M \ Added(R, S) = DOMAIN R
  BY <1>1 DEF Added
<1>5. Without(M, Added(R, S)) = [r \in DOMAIN R |-> M[r]]
  BY <1>4 DEF Without
<1>6. R = [r \in DOMAIN R |-> R[r]]
  BY DEF Snapshots, IsMap
<1>7. Without(M, Added(R, S)) = R
  BY <1>1, <1>5, <1>6
<1> QED
  BY <1>1, <1>3, <1>7 DEF M

-----------------------------------------------------------------------------
(* What each handler returns.                                               *)

Pending(c) == {c.candidate} \cup c.dependencies

Inserted(d, c) ==
    Doc(Over(Entry(c.instance, [source |-> c.source, overrides |-> c.overrides, selection |-> Nothing]),
             d.instances),
        Merged(d.registry, Pending(c)), d.locals)

InsertInverse(d, c) ==
    [type |-> "revert-insert", instance |-> c.instance, added |-> Added(d.registry, Pending(c)), again |-> c]

Inserts(den, d, c) ==
    /\ Allowed(den, "insert-external")
    /\ c.source = c.candidate.ref
    /\ validateExternalClosure(c.candidate, {d.registry}, Pending(c))
    /\ ~Conflicts(d.registry, Pending(c))

LEMMA InsertIs ==
  ASSUME NEW den, NEW d, IsDocument(d), NEW c, c.type = "insert"
  PROVE  Apply(den, d, c) = IF Inserts(den, d, c) THEN {<<Inserted(d, c), InsertInverse(d, c)>>} ELSE {}
<1> DEFINE instances == Over(Entry(c.instance, [source |-> c.source, overrides |-> c.overrides,
                                                selection |-> Nothing]), d.instances)
<1>1. Apply(den, d, c) = applyInsertExternal(den, d, c)
  BY DEF Apply
<1>2. applyInsertExternal(den, d, c)
        = IF Inserts(den, d, c)
          THEN {<<Writing(d, Merged(d.registry, Pending(c)), instances), InsertInverse(d, c)>>}
          ELSE {}
  BY Zenon DEF applyInsertExternal, Inserts, Pending, InsertInverse, Writing, Done, Refused
<1>3. Writing(d, Merged(d.registry, Pending(c)), instances) = Inserted(d, c)
  BY Written, Zenon DEF Inserted
<1> QED
  BY <1>1, <1>2, <1>3, Zenon

Deleted(d, c) ==
    Doc(Without(d.instances, {c.instance}), Without(d.registry, c.added), d.locals)

LEMMA RevertInsertIs ==
  ASSUME NEW den, NEW d, IsDocument(d), NEW c, c.type = "revert-insert"
  PROVE  Apply(den, d, c) = IF c.instance \in DOMAIN d.instances THEN {<<Deleted(d, c), c.again>>} ELSE {}
<1>1. Apply(den, d, c) = applyRevertExternalInsert(d, c)
  BY DEF Apply
<1>2. applyRevertExternalInsert(d, c)
        = IF c.instance \in DOMAIN d.instances
          THEN {<<Writing(d, Without(d.registry, c.added), Without(d.instances, {c.instance})), c.again>>}
          ELSE {}
  BY Zenon DEF applyRevertExternalInsert, Writing, Done, Refused
<1>3. Writing(d, Without(d.registry, c.added), Without(d.instances, {c.instance})) = Deleted(d, c)
  BY Written, Zenon DEF Deleted
<1> QED
  BY <1>1, <1>2, <1>3, Zenon

RetargetedAll(d, c) ==
    [i \in DOMAIN d.instances |-> IF i \in c.targets THEN Retargeted(d, c, d.instances[i]) ELSE d.instances[i]]

Changed(d, c) == Doc(RetargetedAll(d, c), Merged(d.registry, Pending(c)), d.locals)

ChangeInverse(d, c) ==
    [type |-> "revert-change", restores |-> [i \in c.targets |-> d.instances[i]],
     added |-> Added(d.registry, Pending(c)), again |-> c]

Changes(den, d, c) ==
    /\ StillPreviewed(d, c)
    /\ Allowed(den, c.type)
    /\ Compatible(d, c)
    /\ validateExternalClosure(c.candidate, {d.registry}, Pending(c))

LEMMA ChangeIs ==
  ASSUME NEW den, NEW d, IsDocument(d), NEW c, c.type \in {"update", "swap"}
  PROVE  Apply(den, d, c) = IF Changes(den, d, c) THEN {<<Changed(d, c), ChangeInverse(d, c)>>} ELSE {}
<1>1. Apply(den, d, c) = applySourceChange(den, d, c)
  BY DEF Apply
<1>2. applySourceChange(den, d, c)
        = IF Changes(den, d, c)
          THEN {<<Writing(d, Merged(d.registry, Pending(c)), RetargetedAll(d, c)), ChangeInverse(d, c)>>}
          ELSE {}
  BY Zenon DEF applySourceChange, Changes, Pending, ChangeInverse, Writing, RetargetedAll, Done, Refused
<1>3. Writing(d, Merged(d.registry, Pending(c)), RetargetedAll(d, c)) = Changed(d, c)
  BY Written, Zenon DEF Changed
<1> QED
  BY <1>1, <1>2, <1>3, Zenon

Restored(d, c) == Doc(Over(c.restores, d.instances), Without(d.registry, c.added), d.locals)

LEMMA RevertChangeIs ==
  ASSUME NEW den, NEW d, IsDocument(d), NEW c, c.type = "revert-change"
  PROVE  Apply(den, d, c) = IF DOMAIN c.restores \subseteq DOMAIN d.instances THEN {<<Restored(d, c), c.again>>} ELSE {}
<1>1. Apply(den, d, c) = applyRevertSourceChange(d, c)
  BY DEF Apply
<1>2. applyRevertSourceChange(d, c)
        = IF DOMAIN c.restores \subseteq DOMAIN d.instances
          THEN {<<Writing(d, Without(d.registry, c.added), Over(c.restores, d.instances)), c.again>>}
          ELSE {}
  BY Zenon DEF applyRevertSourceChange, Writing, Done, Refused
<1>3. Writing(d, Without(d.registry, c.added), Over(c.restores, d.instances)) = Restored(d, c)
  BY Written, Zenon DEF Restored
<1> QED
  BY <1>1, <1>2, <1>3, Zenon

Recovered(d, c) == Doc(d.instances, Merged(d.registry, Pending(c)), d.locals)

RecoverInverse(d, c) == [type |-> "unrecover", added |-> Added(d.registry, Pending(c)), again |-> c]

Recovers(d, c) == c.expected = c.candidate.ref /\ validateExternalClosure(c.candidate, {d.registry}, Pending(c))

LEMMA RecoverIs ==
  ASSUME NEW den, NEW d, IsDocument(d), NEW c, c.type = "recover"
  PROVE  Apply(den, d, c) = IF Recovers(d, c) THEN {<<Recovered(d, c), RecoverInverse(d, c)>>} ELSE {}
<1>1. Apply(den, d, c) = applyRecoverSnapshot(d, c)
  BY DEF Apply
<1>2. applyRecoverSnapshot(d, c)
        = IF Recovers(d, c)
          THEN {<<Storing(d, Merged(d.registry, Pending(c))), RecoverInverse(d, c)>>}
          ELSE {}
  BY Zenon DEF applyRecoverSnapshot, Recovers, Pending, RecoverInverse, Storing, Done, Refused
<1>3. Storing(d, Merged(d.registry, Pending(c))) = Recovered(d, c)
  BY Written, Zenon DEF Recovered
<1> QED
  BY <1>1, <1>2, <1>3, Zenon

LEMMA UnrecoverIs ==
  ASSUME NEW den, NEW d, IsDocument(d), NEW c, c.type = "unrecover"
  PROVE  Apply(den, d, c) = {<<Doc(d.instances, Without(d.registry, c.added), d.locals), c.again>>}
<1>1. Apply(den, d, c) = applyUnrecoverSnapshot(d, c)
  BY DEF Apply
<1>2. applyUnrecoverSnapshot(d, c) = {<<Storing(d, Without(d.registry, c.added)), c.again>>}
  BY Zenon DEF applyUnrecoverSnapshot, Storing, Done
<1>3. Storing(d, Without(d.registry, c.added)) = Doc(d.instances, Without(d.registry, c.added), d.locals)
  BY Written, Zenon
<1> QED
  BY <1>1, <1>2, <1>3, Zenon

CollectInverse(d, c) ==
    [type |-> "restore", removed |-> [r \in previewCollectUnused(d, c.retained) |-> d.registry[r]]]

LEMMA CollectIs ==
  ASSUME NEW den, NEW d, IsDocument(d), NEW c, c.type = "collect"
  PROVE  Apply(den, d, c)
           = {<<Doc(d.instances, Without(d.registry, previewCollectUnused(d, c.retained)), d.locals),
                CollectInverse(d, c)>>}
<1> DEFINE registry == Without(d.registry, previewCollectUnused(d, c.retained))
<1>1. Apply(den, d, c) = applyCollectUnused(d, c)
  BY DEF Apply
<1>2. applyCollectUnused(d, c) = {<<Storing(d, registry), CollectInverse(d, c)>>}
  BY Zenon DEF applyCollectUnused, Storing, CollectInverse, Done
<1>3. Storing(d, registry) = Doc(d.instances, registry, d.locals)
  BY Written, Zenon
<1> QED
  BY <1>1, <1>2, <1>3, Zenon

LEMMA RestoreIs ==
  ASSUME NEW den, NEW d, IsDocument(d), NEW c, c.type = "restore"
  PROVE  Apply(den, d, c) = {<<Doc(d.instances, Over(c.removed, d.registry), d.locals), CollectC({})>>}
<1>1. Apply(den, d, c) = applyRestoreCollected(d, c)
  BY DEF Apply
<1>2. applyRestoreCollected(d, c) = {<<Storing(d, Over(c.removed, d.registry)), CollectC({})>>}
  BY Zenon DEF applyRestoreCollected, Storing, Done
<1>3. Storing(d, Over(c.removed, d.registry)) = Doc(d.instances, Over(c.removed, d.registry), d.locals)
  BY Written, Zenon
<1> QED
  BY <1>1, <1>2, <1>3, Zenon

Showing(d, c, x) ==
    [x EXCEPT !.selection = {s \in {c.selection} : DOMAIN s # {}},
              !.overrides = KeptOverrides(Def[d.registry[x.source].body], c, x.overrides)]

Shown(d, c, x) ==
    [source |-> x.source, overrides |-> KeptOverrides(Def[d.registry[x.source].body], c, x.overrides),
     selection |-> {s \in {c.selection} : DOMAIN s # {}}]

LEMMA ShowingIs ==
  ASSUME NEW d, NEW c, NEW x, Placement(x)
  PROVE  Showing(d, c, x) = Shown(d, c, x)
<1> DEFINE selection == {s \in {c.selection} : DOMAIN s # {}}
           overrides == KeptOverrides(Def[d.registry[x.source].body], c, x.overrides)
<1>1. x = [source |-> x.source, overrides |-> x.overrides, selection |-> x.selection]
  BY DEF Placement
<1>2. DOMAIN x = {"source", "overrides", "selection"}
  BY <1>1
<1>3. Showing(d, c, x)
        = [k \in DOMAIN x |-> IF k = "overrides" THEN overrides ELSE IF k = "selection" THEN selection ELSE x[k]]
  BY DEF Showing
<1>4. Shown(d, c, x) = [source |-> x.source, overrides |-> overrides, selection |-> selection]
  BY DEF Shown
<1> HIDE DEF overrides, selection
<1> QED
  BY <1>2, <1>3, <1>4

CanShow(d, c) ==
    /\ c.instance \in DOMAIN d.instances
    /\ d.instances[c.instance].source \in DOMAIN d.registry
    /\ Def[d.registry[d.instances[c.instance].source].body].variants # <<>>

VariantShown(d, c) ==
    Doc(Over(Entry(c.instance, Shown(d, c, d.instances[c.instance])), d.instances), d.registry, d.locals)

LEMMA SetVariantIs ==
  ASSUME NEW den, NEW d, IsDocument(d), NEW c, c.type = "set-variant"
  PROVE  Apply(den, d, c) = IF CanShow(d, c) THEN {<<VariantShown(d, c), VariantInverse(c, d.instances[c.instance])>>}
                            ELSE {}
<1> DEFINE x == d.instances[c.instance]
           instances == Over(Entry(c.instance, Showing(d, c, x)), d.instances)
<1>1. Apply(den, d, c) = applySetVariant(d, c)
  BY DEF Apply
<1>2. applySetVariant(d, c)
        = IF CanShow(d, c) THEN {<<Placing(d, instances), VariantInverse(c, x)>>} ELSE {}
  BY Zenon DEF applySetVariant, CanShow, Placing, Showing, Done, Refused
<1>3. ASSUME CanShow(d, c)
      PROVE  Placing(d, instances) = VariantShown(d, c)
  <2>1. Placement(x)
    BY <1>3, DocumentIs DEF CanShow, Placements
  <2>2. Showing(d, c, x) = Shown(d, c, x)
    BY <2>1, ShowingIs
  <2>3. Placing(d, instances) = Doc(instances, d.registry, d.locals)
    BY Written, Zenon
  <2> QED
    BY <2>2, <2>3, Zenon DEF VariantShown
<1> QED
  BY <1>1, <1>2, <1>3, Zenon

Updated(d, c, x) ==
    [source |-> c.candidate.ref,
     overrides |-> {m \in {migrateComponentOverrides(o, Def[d.registry[c.from].body], Def[c.candidate.body])
                             : o \in x.overrides} : DOMAIN m # {}},
     selection |-> x.selection]

LEMMA RetargetedIs ==
  ASSUME NEW d, NEW c, NEW x, Placement(x)
  PROVE  Retargeted(d, c, x) = Updated(d, c, x) /\ Placement(Retargeted(d, c, x))
<1> DEFINE overrides == {m \in {migrateComponentOverrides(o, Def[d.registry[c.from].body], Def[c.candidate.body])
                                  : o \in x.overrides} : DOMAIN m # {}}
<1>1. x = [source |-> x.source, overrides |-> x.overrides, selection |-> x.selection]
  BY DEF Placement
<1>2. DOMAIN x = {"source", "overrides", "selection"}
  BY <1>1
<1>3. Retargeted(d, c, x)
        = [k \in DOMAIN x |-> IF k = "overrides" THEN overrides ELSE IF k = "source" THEN c.candidate.ref ELSE x[k]]
  BY DEF Retargeted
<1>4. Updated(d, c, x) = [source |-> c.candidate.ref, overrides |-> overrides, selection |-> x.selection]
  BY DEF Updated
<1> HIDE DEF overrides
<1>5. Retargeted(d, c, x) = Updated(d, c, x)
  BY <1>2, <1>3, <1>4
<1>6. Placement(Updated(d, c, x))
  BY <1>4 DEF Placement
<1> QED
  BY <1>5, <1>6

-----------------------------------------------------------------------------
(* The commands a history holds.                                            *)

Forward(c, M) ==
    /\ c.type \in {"insert", "update", "swap", "recover"}
    /\ \A s \in Pending(c) : Published(s)
    /\ c.type = "insert" => c.instance \in M

Sound(c, M) ==
    \/ Forward(c, M)
    \/ c.type \in {"revert-insert", "unrecover"} /\ Forward(c.again, M)
    \/ c.type = "revert-change" /\ Forward(c.again, M) /\ \A i \in DOMAIN c.restores : Placement(c.restores[i])
    \/ c.type \in {"set-variant", "collect"}
    \/ c.type = "restore" /\ \A r \in DOMAIN c.removed : Published(c.removed[r]) /\ c.removed[r].ref = r

LEMMA SoundGrows ==
  ASSUME NEW c, NEW M, NEW N, M \subseteq N, Sound(c, M)
  PROVE  Sound(c, N)
BY DEF Sound, Forward

LEMMA WithoutKeeps ==
  ASSUME NEW f, NEW keys
  PROVE  (Placements(f) => Placements(Without(f, keys))) /\ (Snapshots(f) => Snapshots(Without(f, keys)))
<1> DEFINE w == Without(f, keys)
<1>1. IsMap(w) /\ DOMAIN w = DOMAIN f \ keys /\ \A k \in DOMAIN f \ keys : w[k] = f[k]
  BY WithoutIs, Zenon
<1> HIDE DEF w
<1>2. (Placements(f) => Placements(w)) /\ (Snapshots(f) => Snapshots(w))
  BY <1>1 DEF Placements, Snapshots
<1> QED
  BY <1>2 DEF w

LEMMA OverKeeps ==
  ASSUME NEW f, NEW g
  PROVE  /\ Placements(g) /\ (\A i \in DOMAIN f : Placement(f[i])) => Placements(Over(f, g))
         /\ Snapshots(g) /\ (\A r \in DOMAIN f : Published(f[r]) /\ f[r].ref = r) => Snapshots(Over(f, g))
<1> DEFINE o == Over(f, g)
<1>1. /\ IsMap(o) /\ DOMAIN o = DOMAIN f \cup DOMAIN g
      /\ \A k \in DOMAIN f : o[k] = f[k]
      /\ \A k \in DOMAIN g \ DOMAIN f : o[k] = g[k]
  BY OverIs, Zenon
<1> HIDE DEF o
<1>2. ASSUME Placements(g), \A i \in DOMAIN f : Placement(f[i])
      PROVE  Placements(o)
  BY <1>1, <1>2 DEF Placements
<1>3. ASSUME Snapshots(g), \A r \in DOMAIN f : Published(f[r]) /\ f[r].ref = r
      PROVE  Snapshots(o)
  BY <1>1, <1>3 DEF Snapshots
<1> QED
  BY <1>2, <1>3 DEF o

(* What a command leads to is a document again, with instances minted       *)
(* before, and its inverse is a command the history may hold.               *)
Kept(M, e, i) == IsDocument(e) /\ DOMAIN e.instances \subseteq M /\ Sound(i, M)

LEMMA InsertKeeps ==
  ASSUME NEW d, IsDocument(d), NEW M, DOMAIN d.instances \subseteq M, NEW c, c.type = "insert", Forward(c, M)
  PROVE  Kept(M, Inserted(d, c), InsertInverse(d, c)) /\ c.instance \in DOMAIN Inserted(d, c).instances
<1> DEFINE x == [source |-> c.source, overrides |-> c.overrides, selection |-> Nothing]
           instances == Over(Entry(c.instance, x), d.instances)
<1>1. Placements(d.instances) /\ Snapshots(d.registry)
  BY DocumentIs
<1>2. DOMAIN instances = {c.instance} \cup DOMAIN d.instances
  BY DEF Over, Entry
<1>3. Placement(x)
  BY DEF Placement, Nothing
<1>4. Placements(instances)
  <2>1. \A i \in DOMAIN Entry(c.instance, x) : Placement(Entry(c.instance, x)[i])
    BY <1>3 DEF Entry
  <2> QED
    BY <1>1, <2>1, OverKeeps, Zenon
<1>5. Snapshots(Merged(d.registry, Pending(c)))
  BY <1>1, MergedIs DEF Forward
<1>6. Inserted(d, c) = Doc(instances, Merged(d.registry, Pending(c)), d.locals)
  BY DEF Inserted
<1> HIDE DEF instances, x
<1>7. IsDocument(Inserted(d, c)) /\ Inserted(d, c).instances = instances
  BY <1>4, <1>5, <1>6, IsADocument, PartsOf
<1>8. Sound(InsertInverse(d, c), M)
  BY DEF Sound, InsertInverse
<1>9. c.instance \in M
  BY DEF Forward
<1> QED
  BY <1>2, <1>7, <1>8, <1>9 DEF Kept

LEMMA ChangeKeeps ==
  ASSUME NEW d, IsDocument(d), NEW M, DOMAIN d.instances \subseteq M, NEW c, c.type \in {"update", "swap"},
         Forward(c, M), StillPreviewed(d, c)
  PROVE  Kept(M, Changed(d, c), ChangeInverse(d, c))
<1>1. Placements(d.instances) /\ Snapshots(d.registry)
  BY DocumentIs
<1>2. Placements(RetargetedAll(d, c)) /\ DOMAIN RetargetedAll(d, c) = DOMAIN d.instances
  <2>1. \A i \in DOMAIN d.instances : Placement(d.instances[i]) /\ Placement(Retargeted(d, c, d.instances[i]))
    BY <1>1, RetargetedIs DEF Placements
  <2> QED
    BY <2>1 DEF RetargetedAll, Placements, IsMap
<1>3. Snapshots(Merged(d.registry, Pending(c)))
  BY <1>1, MergedIs DEF Forward
<1>4. IsDocument(Changed(d, c)) /\ Changed(d, c).instances = RetargetedAll(d, c)
  BY <1>2, <1>3, IsADocument, PartsOf DEF Changed
<1>5. Sound(ChangeInverse(d, c), M)
  <2>1. \A i \in c.targets : Placement(d.instances[i])
    BY <1>1 DEF StillPreviewed, Placements
  <2>2. /\ ChangeInverse(d, c).type = "revert-change" /\ ChangeInverse(d, c).again = c
        /\ ChangeInverse(d, c).restores = [i \in c.targets |-> d.instances[i]]
    BY DEF ChangeInverse
  <2> QED
    BY <2>1, <2>2 DEF Sound
<1> QED
  BY <1>2, <1>4, <1>5 DEF Kept

LEMMA RecoverKeeps ==
  ASSUME NEW d, IsDocument(d), NEW M, DOMAIN d.instances \subseteq M, NEW c, c.type = "recover", Forward(c, M)
  PROVE  Kept(M, Recovered(d, c), RecoverInverse(d, c))
<1>1. Placements(d.instances) /\ Snapshots(Merged(d.registry, Pending(c)))
  BY DocumentIs, MergedIs DEF Forward
<1>2. IsDocument(Recovered(d, c)) /\ Recovered(d, c).instances = d.instances
  BY <1>1, IsADocument, PartsOf DEF Recovered
<1>3. Sound(RecoverInverse(d, c), M)
  BY DEF Sound, RecoverInverse
<1> QED
  BY <1>2, <1>3 DEF Kept

LEMMA SetVariantKeeps ==
  ASSUME NEW d, IsDocument(d), NEW M, DOMAIN d.instances \subseteq M, NEW c, c.type = "set-variant", CanShow(d, c)
  PROVE  Kept(M, VariantShown(d, c), VariantInverse(c, d.instances[c.instance]))
<1> DEFINE x == Shown(d, c, d.instances[c.instance])
           instances == Over(Entry(c.instance, x), d.instances)
<1>1. Placements(d.instances) /\ Snapshots(d.registry)
  BY DocumentIs
<1>2. Placement(x)
  BY DEF Placement, Shown
<1>3. Placements(instances)
  <2> HIDE DEF x
  <2>1. \A i \in DOMAIN Entry(c.instance, x) : Placement(Entry(c.instance, x)[i])
    BY <1>2 DEF Entry
  <2> QED
    BY <1>1, <2>1, OverKeeps, Zenon
<1>4. DOMAIN instances = {c.instance} \cup DOMAIN d.instances
  BY DEF Over, Entry
<1>5. VariantShown(d, c) = Doc(instances, d.registry, d.locals)
  BY DEF VariantShown
<1> HIDE DEF instances
<1>6. IsDocument(VariantShown(d, c)) /\ VariantShown(d, c).instances = instances
  BY <1>1, <1>3, <1>5, IsADocument, PartsOf
<1>7. Sound(VariantInverse(c, d.instances[c.instance]), M)
  BY DEF Sound, VariantInverse
<1> QED
  BY <1>4, <1>6, <1>7 DEF Kept, CanShow

LEMMA ApplyKeeps ==
  ASSUME NEW den, NEW d, IsDocument(d), NEW M, DOMAIN d.instances \subseteq M, NEW c, Sound(c, M),
         NEW r \in Apply(den, d, c)
  PROVE  Kept(M, r[1], r[2]) /\ (c.type = "insert" => c.instance \in DOMAIN r[1].instances)
<1>1. Placements(d.instances) /\ Snapshots(d.registry)
  BY DocumentIs
<1>2. ASSUME NEW keys PROVE Snapshots(Without(d.registry, keys))
  BY <1>1, WithoutKeeps, Zenon
<1>3. CASE c.type = "insert"
  <2>1. Forward(c, M)
    BY <1>3 DEF Sound
  <2>2. r = <<Inserted(d, c), InsertInverse(d, c)>>
    BY <1>3, InsertIs
  <2> QED
    BY <1>3, <2>1, <2>2, InsertKeeps
<1>4. CASE c.type \in {"update", "swap"}
  <2>1. Forward(c, M)
    BY <1>4 DEF Sound
  <2>2. Changes(den, d, c) /\ r = <<Changed(d, c), ChangeInverse(d, c)>>
    BY <1>4, ChangeIs
  <2> QED
    BY <1>4, <2>1, <2>2, ChangeKeeps DEF Changes
<1>5. CASE c.type = "recover"
  <2>1. Forward(c, M)
    BY <1>5 DEF Sound
  <2>2. r = <<Recovered(d, c), RecoverInverse(d, c)>>
    BY <1>5, RecoverIs
  <2> QED
    BY <1>5, <2>1, <2>2, RecoverKeeps
<1>6. CASE c.type = "revert-insert"
  <2>1. Forward(c.again, M)
    BY <1>6 DEF Sound, Forward
  <2>2. r = <<Deleted(d, c), c.again>>
    BY <1>6, RevertInsertIs
  <2>3. Placements(Without(d.instances, {c.instance})) /\ DOMAIN Without(d.instances, {c.instance}) \subseteq DOMAIN d.instances
    BY <1>1, WithoutKeeps DEF Without, Zenon
  <2>4. IsDocument(Deleted(d, c)) /\ Deleted(d, c).instances = Without(d.instances, {c.instance})
    <3>1. Snapshots(Without(d.registry, c.added))
      BY <1>2
    <3>2. IsDocument(Deleted(d, c))
      BY <2>3, <3>1, IsADocument DEF Deleted
    <3> QED
      BY <3>2, PartsOf DEF Deleted
  <2> QED
    BY <1>6, <2>1, <2>2, <2>3, <2>4 DEF Kept, Sound
<1>7. CASE c.type = "revert-change"
  <2>1. Forward(c.again, M) /\ \A i \in DOMAIN c.restores : Placement(c.restores[i])
    BY <1>7 DEF Sound, Forward
  <2>2. r = <<Restored(d, c), c.again>> /\ DOMAIN c.restores \subseteq DOMAIN d.instances
    <3>1. Apply(den, d, c) = IF DOMAIN c.restores \subseteq DOMAIN d.instances
                             THEN {<<Restored(d, c), c.again>>} ELSE {}
      BY <1>7, RevertChangeIs
    <3> QED
      BY <3>1
  <2>3. Placements(Over(c.restores, d.instances)) /\ DOMAIN Over(c.restores, d.instances) = DOMAIN d.instances
    <3>1. Placements(Over(c.restores, d.instances))
      BY <1>1, <2>1, OverKeeps, Zenon
    <3>2. DOMAIN Over(c.restores, d.instances) = DOMAIN c.restores \cup DOMAIN d.instances
      BY OverIs, Zenon
    <3> QED
      BY <2>2, <3>1, <3>2
  <2>4. IsDocument(Restored(d, c)) /\ Restored(d, c).instances = Over(c.restores, d.instances)
    <3>1. Snapshots(Without(d.registry, c.added))
      BY <1>2
    <3>2. IsDocument(Restored(d, c))
      BY <2>3, <3>1, IsADocument DEF Restored
    <3> QED
      BY <3>2, PartsOf DEF Restored
  <2> QED
    BY <1>7, <2>1, <2>2, <2>3, <2>4 DEF Kept, Sound
<1>8. CASE c.type = "unrecover"
  <2>1. Forward(c.again, M)
    BY <1>8 DEF Sound, Forward
  <2>2. r = <<Doc(d.instances, Without(d.registry, c.added), d.locals), c.again>>
    BY <1>8, UnrecoverIs
  <2>3. IsDocument(r[1]) /\ r[1].instances = d.instances
    BY <1>1, <1>2, <2>2, IsADocument, PartsOf
  <2> QED
    BY <1>8, <2>1, <2>2, <2>3 DEF Kept, Sound
<1>9. CASE c.type = "collect"
  <2> DEFINE gone == previewCollectUnused(d, c.retained)
  <2>1. r = <<Doc(d.instances, Without(d.registry, gone), d.locals), CollectInverse(d, c)>>
    BY <1>9, CollectIs
  <2>2. gone \subseteq DOMAIN d.registry
    BY DEF previewCollectUnused
  <2>3. /\ CollectInverse(d, c).type = "restore"
        /\ CollectInverse(d, c).removed = [k \in gone |-> d.registry[k]]
    BY DEF CollectInverse
  <2> HIDE DEF gone
  <2>4. IsDocument(r[1]) /\ r[1].instances = d.instances
    BY <1>1, <1>2, <2>1, IsADocument, PartsOf
  <2>5. Sound(CollectInverse(d, c), M)
    BY <1>1, <2>2, <2>3 DEF Sound, Snapshots
  <2> QED
    BY <1>9, <2>1, <2>4, <2>5 DEF Kept
<1>10. CASE c.type = "restore"
  <2>1. r = <<Doc(d.instances, Over(c.removed, d.registry), d.locals), CollectC({})>>
    BY <1>10, RestoreIs
  <2>2. \A k \in DOMAIN c.removed : Published(c.removed[k]) /\ c.removed[k].ref = k
    BY <1>10 DEF Sound, Forward
  <2>3. Snapshots(Over(c.removed, d.registry))
    BY <1>1, <2>2, OverKeeps, Zenon
  <2>4. IsDocument(r[1]) /\ r[1].instances = d.instances
    BY <1>1, <2>1, <2>3, IsADocument, PartsOf
  <2>5. Sound(r[2], M)
    BY <2>1 DEF Sound, CollectC
  <2> QED
    BY <1>10, <2>4, <2>5 DEF Kept
<1>11. CASE c.type = "set-variant"
  <2>1. CanShow(d, c) /\ r = <<VariantShown(d, c), VariantInverse(c, d.instances[c.instance])>>
    BY <1>11, SetVariantIs
  <2> QED
    BY <1>11, <2>1, SetVariantKeeps
<1> QED
  BY <1>3, <1>4, <1>5, <1>6, <1>7, <1>8, <1>9, <1>10, <1>11 DEF Sound, Forward

-----------------------------------------------------------------------------
(* What is stored is what was published.                                    *)

Stacks(f, M) ==
    /\ f = [h \in Host |-> f[h]]
    /\ \A h \in Host : IsSeq(f[h]) /\ \A k \in 1 .. Len(f[h]) : Sound(f[h][k], M)

Stages == {"idle", "verifying", "resolved", "rejected", "admitted", "refused"}

(* The inductive invariant, for any hosts: a document, published snapshots, *)
(* and entries that were made from such.                                    *)
Stocked ==
    /\ plan \in Plans
    /\ IsDocument(doc) /\ DOMAIN doc.instances \subseteq minted
    /\ \A s \in admitted : Published(s)
    /\ admission \in [plan.envelopes -> Stages]
    /\ Stacks(undo, minted) /\ Stacks(redo, minted)

LEMMA StockedIsTyped == Stocked => TypeOK
<1> SUFFICES ASSUME Stocked
             PROVE  TypeOK
  OBVIOUS
<1>1. Snapshots(doc.registry) /\ \A s \in admitted : Published(s)
  BY DocumentIs DEF Stocked
<1>2. \A s \in admitted \cup Range(doc.registry) : s.ref = Ref(s.ref.component, s.ref.version, s.body)
  <2> TAKE s \in admitted \cup Range(doc.registry)
  <2>1. Published(s)
    BY <1>1 DEF Range, Snapshots
  <2>2. s = Snapshot(Ref(s.ref.component, s.ref.version, s.body), s.body)
    BY <2>1 DEF Published
  <2> DEFINE ref == Ref(s.ref.component, s.ref.version, s.body)
  <2>3. s = [ref |-> ref, body |-> s.body]
    BY <2>2 DEF Snapshot
  <2> HIDE DEF ref
  <2>4. s.ref = ref
    BY <2>3
  <2> QED
    BY <2>4 DEF ref
<1>3. \A r \in DOMAIN doc.registry : doc.registry[r].ref = r
  BY <1>1 DEF Snapshots
<1> QED
  BY <1>2, <1>3 DEF TypeOK, Stocked, Stages

LEMMA Offered ==
  ASSUME Stocked, NEW t \in plan.offers, NEW c \in Offers(t, doc)
  PROVE  /\ c.type \in {"insert", "update", "swap", "set-variant", "collect", "recover"}
         /\ c.type \in {"insert", "update", "swap", "recover"} =>
              "dependencies" \in DOMAIN c /\ \A s \in Pending(c) : Published(s)
         /\ c.type = "insert" => c.instance \in Instance \ minted
         /\ c.type = "set-variant" => c.restore = Nothing
<1>1. t \in {"insert", "update", "swap", "set-variant", "collect", "recover"}
  BY HistoryAssumption DEF Stocked
<1>2. \A s \in admitted : Published(s)
  BY DEF Stocked
<1>3. CASE t = "insert"
  <2>1. PICK i \in Instance \ minted, s \in admitted, deps \in {{}, admitted}, o \in Overrides :
            c = InsertC(i, s, deps, o)
    BY <1>3 DEF Offers
  <2> QED
    BY <1>2, <2>1 DEF InsertC, Pending
<1>4. CASE t \in {"update", "swap"}
  <2>1. PICK targets \in SUBSET DOMAIN doc.instances, from \in {doc.instances[i].source : i \in DOMAIN doc.instances},
             s \in admitted, deps \in {{}, admitted} : c = ChangeC(t, targets, from, s, deps)
    BY <1>4 DEF Offers
  <2> QED
    BY <1>2, <1>4, <2>1 DEF ChangeC, Pending
<1>5. CASE t = "set-variant"
  <2>1. PICK i \in DOMAIN doc.instances, s \in Selections, b \in BOOLEAN : c = SetVariantC(i, s, b)
    BY <1>5 DEF Offers
  <2> QED
    BY <2>1 DEF SetVariantC
<1>6. CASE t = "collect"
  <2>1. PICK r \in SUBSET DOMAIN doc.registry : c = CollectC(r)
    BY <1>6 DEF Offers
  <2> QED
    BY <2>1 DEF CollectC
<1>7. CASE t = "recover"
  <2>1. PICK i \in DOMAIN doc.instances, s \in admitted, deps \in {{}, admitted} :
            c = RecoverC(doc.instances[i].source, s, deps)
    BY <1>7 DEF Offers
  <2> QED
    BY <1>2, <2>1 DEF RecoverC, Pending
<1> QED
  BY <1>1, <1>3, <1>4, <1>5, <1>6, <1>7

(* A submitted command keeps the document, with the ids it mints.           *)
LEMMA SubmittedKeeps ==
  ASSUME Stocked, NEW t \in plan.offers, NEW c \in Offers(t, doc), NEW r \in Apply(plan.denied, doc, c)
  PROVE  LET M == minted \cup DOMAIN r[1].instances
         IN  Sound(c, M) /\ Kept(M, r[1], r[2])
<1> DEFINE M == minted \cup DOMAIN r[1].instances
           N == minted \cup {c.instance}
<1>1. IsDocument(doc) /\ DOMAIN doc.instances \subseteq minted
  BY DEF Stocked
<1>2. Sound(c, N)
  BY Offered DEF Sound, Forward
<1>3. c.type = "insert" => c.instance \in DOMAIN r[1].instances
  BY <1>1, <1>2, ApplyKeeps
<1>4. Sound(c, M)
  BY <1>3, Offered DEF Sound, Forward
<1>5. DOMAIN doc.instances \subseteq M
  BY <1>1
<1> HIDE DEF M, N
<1>6. Kept(M, r[1], r[2])
  BY <1>1, <1>4, <1>5, ApplyKeeps
<1> QED
  BY <1>4, <1>6 DEF M

LEMMA StacksGrow ==
  ASSUME NEW f, NEW M, NEW N, M \subseteq N, Stacks(f, M)
  PROVE  Stacks(f, N)
BY SoundGrows DEF Stacks

LEMMA StackPushed ==
  ASSUME NEW f, NEW M, Stacks(f, M), NEW h \in Host, NEW c, Sound(c, M)
  PROVE  Stacks([f EXCEPT ![h] = <<c>> \o @], M)
<1> DEFINE s == <<c>> \o f[h]
           g == [f EXCEPT ![h] = s]
<1>1. IsSeq(f[h]) /\ \A k \in 1 .. Len(f[h]) : Sound(f[h][k], M)
  BY DEF Stacks
<1>2. /\ Len(f[h]) \in Nat /\ IsSeq(s) /\ Len(s) = Len(f[h]) + 1 /\ s[1] = c
      /\ \A k \in 2 .. Len(f[h]) + 1 : s[k] = f[h][k - 1]
  BY <1>1, Pushed, ZenonT(60)
<1> HIDE DEF s
<1>3. \A k \in 1 .. Len(s) : Sound(s[k], M)
  <2> TAKE k \in 1 .. Len(s)
  <2>1. CASE k = 1
    BY <1>2, <2>1
  <2>2. CASE k # 1
    <3>1. k \in 2 .. Len(f[h]) + 1 /\ k - 1 \in 1 .. Len(f[h])
      BY <1>2, <2>2
    <3> QED
      BY <1>1, <1>2, <3>1
  <2> QED
    BY <2>1, <2>2
<1>4. f = [x \in Host |-> f[x]]
  BY DEF Stacks
<1>5. g = [x \in Host |-> IF x = h THEN s ELSE f[x]]
  BY <1>4
<1> HIDE DEF g
<1>6. g = [x \in Host |-> g[x]]
  BY <1>5
<1>7. Stacks(g, M)
  BY <1>2, <1>3, <1>5, <1>6 DEF Stacks
<1> QED
  BY <1>7 DEF g, s

LEMMA StackSet ==
  ASSUME NEW f, NEW M, Stacks(f, M), NEW h \in Host, NEW s, s = <<>> \/ (f[h] # <<>> /\ s = Tail(f[h]))
  PROVE  Stacks([f EXCEPT ![h] = s], M)
<1> DEFINE g == [f EXCEPT ![h] = s]
<1>1. IsSeq(f[h]) /\ \A k \in 1 .. Len(f[h]) : Sound(f[h][k], M)
  BY DEF Stacks
<1>2. IsSeq(s) /\ \A k \in 1 .. Len(s) : Sound(s[k], M)
  <2>1. CASE s = <<>>
    BY <2>1, NoEntry
  <2>2. CASE f[h] # <<>> /\ s = Tail(f[h])
    <3>1. /\ IsSeq(s) /\ Len(f[h]) \in Nat \ {0} /\ Len(s) = Len(f[h]) - 1
          /\ \A k \in 1 .. Len(f[h]) - 1 : s[k] = f[h][k + 1]
      BY <1>1, <2>2, Popped, Zenon
    <3>2. \A k \in 1 .. Len(s) : k \in 1 .. Len(f[h]) - 1 /\ k + 1 \in 1 .. Len(f[h])
      BY <3>1
    <3> QED
      BY <1>1, <3>1, <3>2
  <2> QED
    BY <2>1, <2>2
<1>3. f = [x \in Host |-> f[x]]
  BY DEF Stacks
<1>4. g = [x \in Host |-> IF x = h THEN s ELSE f[x]]
  BY <1>3
<1> HIDE DEF g
<1>5. g = [x \in Host |-> g[x]]
  BY <1>4
<1>6. Stacks(g, M)
  BY <1>1, <1>2, <1>4, <1>5 DEF Stacks
<1> QED
  BY <1>6 DEF g

(* The newest entry of a stack. *)
LEMMA HeadIsSound ==
  ASSUME NEW f, NEW M, Stacks(f, M), NEW h \in Host, f[h] # <<>>
  PROVE  Sound(Head(f[h]), M)
<1>1. IsSeq(f[h]) /\ \A k \in 1 .. Len(f[h]) : Sound(f[h][k], M)
  BY DEF Stacks
<1>2. Head(f[h]) = f[h][1] /\ 1 \in 1 .. Len(f[h])
  BY <1>1, Popped, Zenon
<1> QED
  BY <1>1, <1>2

LEMMA InitStocks == Init => Stocked
<1> SUFFICES ASSUME Init
             PROVE  Stocked
  OBVIOUS
<1>1. plan \in Plans /\ IsDocument(plan.doc) /\ \A s \in plan.admitted : Published(s)
  BY HistoryAssumption DEF Init
<1>2. Stacks([h \in Host |-> <<>>], minted)
  <2>1. \A h \in Host : [x \in Host |-> <<>>][h] = <<>>
    OBVIOUS
  <2>2. IsSeq(<<>>) /\ \A k \in 1 .. Len(<<>>) : FALSE
    BY NoEntry
  <2> QED
    BY <2>1, <2>2 DEF Stacks
<1>3. Stacks(undo, minted) /\ Stacks(redo, minted)
  BY <1>2 DEF Init
<1>4. admission \in [plan.envelopes -> Stages]
  BY DEF Init, Stages
<1> QED
  BY <1>1, <1>3, <1>4 DEF Init, Stocked

(* A resumed admission brands what verified: the digest is of the content.  *)
LEMMA ResumedIsPublished ==
  ASSUME Stocked, NEW e \in plan.envelopes, Verifies(Snapshot(e.ref, e.body))
  PROVE  Published(Snapshot(e.ref, e.body))
<1>1. /\ e.body \in Body
      /\ e.ref = [component |-> e.ref.component, version |-> e.ref.version, integrity |-> e.ref.integrity]
  BY HistoryAssumption DEF Stocked
<1> DEFINE s == Snapshot(e.ref, e.body)
<1>2. s.ref = e.ref /\ s.body = e.body
  BY DEF Snapshot
<1>3. Subject(s.ref.component, s.ref.version, s.body) = s.ref.integrity
  BY DEF Verifies, canonicalSubject
<1>4. e.ref = Ref(e.ref.component, e.ref.version, e.body)
  BY <1>1, <1>2, <1>3 DEF Ref
<1> HIDE DEF s
<1>5. s = Snapshot(Ref(s.ref.component, s.ref.version, s.body), s.body)
  BY <1>2, <1>4 DEF s
<1>6. Published(s)
  BY <1>1, <1>2, <1>5 DEF Published
<1> QED
  BY <1>6 DEF s

LEMMA AdmissionKeeps ==
  ASSUME Stocked, NEW e \in DOMAIN admission, Admit(e) \/ Settle(e) \/ Resume(e) \/ Report(e)
  PROVE  Stocked'
<1>1. /\ doc' = doc /\ minted' = minted /\ undo' = undo /\ redo' = redo /\ plan' = plan
  BY DEF Admit, Settle, Resume, Report, editVars
<1>2. e \in plan.envelopes /\ admission \in [plan.envelopes -> Stages]
  BY DEF Stocked
<1>3. \E x \in Stages : admission' = [admission EXCEPT ![e] = x]
  BY DEF Admit, Settle, Resume, Report, Stages
<1>4. admission' \in [plan.envelopes -> Stages]
  BY <1>2, <1>3
<1>5. \A s \in admitted' : Published(s)
  <2>1. \A s \in admitted : Published(s)
    BY DEF Stocked
  <2>2. CASE Resume(e)
    <3>1. admitted' = admitted \/ (Verifies(Snapshot(e.ref, e.body)) /\ admitted' = admitted \cup {Snapshot(e.ref, e.body)})
      BY <2>2 DEF Resume
    <3> QED
      BY <1>2, <2>1, <3>1, ResumedIsPublished
  <2>3. CASE ~Resume(e)
    BY <2>1, <2>3 DEF Admit, Settle, Report
  <2> QED
    BY <2>2, <2>3
<1> QED
  BY <1>1, <1>4, <1>5 DEF Stocked

LEMMA SubmitKeeps ==
  ASSUME Stocked, NEW h \in Host, Submit(h)
  PROVE  Stocked'
<1>a. PICK t \in plan.offers : \E c \in Offers(t, doc) : \E r \in Apply(plan.denied, doc, c) :
         doc' = r[1] /\ undo' = [undo EXCEPT ![h] = <<r[2]>> \o @]
  BY DEF Submit
<1>b. PICK c \in Offers(t, doc) : \E r \in Apply(plan.denied, doc, c) :
         doc' = r[1] /\ undo' = [undo EXCEPT ![h] = <<r[2]>> \o @]
  BY <1>a
<1>1. PICK r \in Apply(plan.denied, doc, c) : doc' = r[1] /\ undo' = [undo EXCEPT ![h] = <<r[2]>> \o @]
  BY <1>b
<1>2. /\ redo' = [redo EXCEPT ![h] = <<>>] /\ minted' = minted \cup DOMAIN doc'.instances
      /\ plan' = plan /\ admission' = admission /\ admitted' = admitted
  BY DEF Submit
<1>3. Kept(minted', r[1], r[2])
  BY <1>1, <1>2, SubmittedKeeps
<1>4. Stacks(undo, minted') /\ Stacks(redo, minted')
  BY <1>2, StacksGrow DEF Stocked
<1>5. Stacks(undo', minted')
  BY <1>1, <1>3, <1>4, StackPushed DEF Kept
<1>6. Stacks(redo', minted')
  BY <1>2, <1>4, StackSet
<1> QED
  BY <1>1, <1>2, <1>3, <1>5, <1>6 DEF Stocked, Kept

LEMMA UndoKeeps ==
  ASSUME Stocked, NEW h \in Host, Undo(h)
  PROVE  Stocked'
<1>1. PICK r \in Apply(plan.denied, doc, Head(undo[h])) : doc' = r[1] /\ redo' = [redo EXCEPT ![h] = <<r[2]>> \o @]
  BY DEF Undo
<1>2. /\ undo[h] # <<>> /\ undo' = [undo EXCEPT ![h] = Tail(@)] /\ minted' = minted
      /\ plan' = plan /\ admission' = admission /\ admitted' = admitted
  BY DEF Undo
<1>3. Sound(Head(undo[h]), minted)
  BY <1>2, HeadIsSound DEF Stocked
<1>4. Kept(minted, r[1], r[2])
  BY <1>1, <1>3, ApplyKeeps DEF Stocked
<1>5. Stacks(redo', minted) /\ Stacks(undo', minted)
  BY <1>1, <1>2, <1>4, StackPushed, StackSet DEF Stocked, Kept
<1> QED
  BY <1>1, <1>2, <1>4, <1>5 DEF Stocked, Kept

LEMMA RedoKeeps ==
  ASSUME Stocked, NEW h \in Host, Redo(h)
  PROVE  Stocked'
<1>1. PICK r \in Apply(plan.denied, doc, Head(redo[h])) : doc' = r[1] /\ undo' = [undo EXCEPT ![h] = <<r[2]>> \o @]
  BY DEF Redo
<1>2. /\ redo[h] # <<>> /\ redo' = [redo EXCEPT ![h] = Tail(@)] /\ minted' = minted
      /\ plan' = plan /\ admission' = admission /\ admitted' = admitted
  BY DEF Redo
<1>3. Sound(Head(redo[h]), minted)
  BY <1>2, HeadIsSound DEF Stocked
<1>4. Kept(minted, r[1], r[2])
  BY <1>1, <1>3, ApplyKeeps DEF Stocked
<1>5. Stacks(redo', minted) /\ Stacks(undo', minted)
  BY <1>1, <1>2, <1>4, StackPushed, StackSet DEF Stocked, Kept
<1> QED
  BY <1>1, <1>2, <1>4, <1>5 DEF Stocked, Kept

LEMMA NextStocks == Stocked /\ [Next]_vars => Stocked'
<1> SUFFICES ASSUME Stocked, [Next]_vars
             PROVE  Stocked'
  OBVIOUS
<1>1. CASE UNCHANGED vars
  BY <1>1 DEF vars, Stocked
<1>2. CASE \E e \in DOMAIN admission : Admit(e) \/ Settle(e) \/ Resume(e) \/ Report(e)
  BY <1>2, AdmissionKeeps
<1>3. CASE \E h \in Host : Submit(h) \/ Undo(h) \/ Redo(h)
  BY <1>3, SubmitKeeps, UndoKeeps, RedoKeeps
<1> QED
  BY <1>1, <1>2, <1>3 DEF Next

(* Whatever any number of hosts admit, submit, undo and redo, and in which  *)
(* order answers and commands come: every snapshot that is branded or       *)
(* stored is one that its library published, under its own reference        *)
(* (admitExternalSnapshot, admitInto and the inverses that put snapshots    *)
(* back), and no instance has an id that was not minted for one.            *)
THEOREM PublishedOnly == Spec => []TypeOK
<1>1. Init => Stocked
  BY InitStocks
<1>2. Stocked /\ [Next]_vars => Stocked'
  BY NextStocks
<1>3. Stocked => TypeOK
  BY StockedIsTyped
<1> QED
  BY <1>1, <1>2, <1>3, PTL DEF Spec

-----------------------------------------------------------------------------
(* A command and its inverse lead back and forth between two documents.     *)

Toggles(den, d, e, i, c) ==
    Apply(den, e, i) = {<<d, c>>} /\ Apply(den, d, c) = {<<e, i>>}

LEMMA OverWithout ==
  ASSUME NEW f, NEW g, IsMap(g)
  PROVE  /\ DOMAIN f \cap DOMAIN g = {} => Without(Over(f, g), DOMAIN f) = g
         /\ (\A k \in DOMAIN f : k \in DOMAIN g /\ f[k] = g[k]) => Over(f, Without(g, DOMAIN f)) = g
<1>1. g = [k \in DOMAIN g |-> g[k]]
  BY DEF IsMap
<1>2. ASSUME DOMAIN f \cap DOMAIN g = {}
      PROVE  Without(Over(f, g), DOMAIN f) = g
  <2>1. (DOMAIN f \cup DOMAIN g) \ DOMAIN f = DOMAIN g
    BY <1>2
  <2> DEFINE o == Over(f, g)
  <2>2. DOMAIN o = DOMAIN f \cup DOMAIN g /\ \A k \in DOMAIN g \ DOMAIN f : o[k] = g[k]
    BY DEF Over
  <2> HIDE DEF o
  <2>3. Without(o, DOMAIN f) = [k \in DOMAIN g |-> o[k]]
    BY <2>1, <2>2 DEF Without
  <2>4. \A k \in DOMAIN g : o[k] = g[k]
    BY <1>2, <2>2
  <2>5. Without(o, DOMAIN f) = g
    BY <1>1, <2>3, <2>4
  <2> QED
    BY <2>5 DEF o
<1>3. ASSUME \A k \in DOMAIN f : k \in DOMAIN g /\ f[k] = g[k]
      PROVE  Over(f, Without(g, DOMAIN f)) = g
  <2> DEFINE w == Without(g, DOMAIN f)
  <2>1. DOMAIN w = DOMAIN g \ DOMAIN f /\ \A k \in DOMAIN g \ DOMAIN f : w[k] = g[k]
    BY DEF Without
  <2> HIDE DEF w
  <2>2. DOMAIN f \cup DOMAIN w = DOMAIN g
    BY <1>3, <2>1
  <2>3. Over(f, w) = [k \in DOMAIN g |-> IF k \in DOMAIN f THEN f[k] ELSE w[k]]
    BY <2>2 DEF Over
  <2>4. Over(f, w) = g
    BY <1>1, <1>3, <2>1, <2>3
  <2> QED
    BY <2>4 DEF w
<1> QED
  BY <1>2, <1>3

LEMMA InsertToggles ==
  ASSUME NEW den, NEW d, IsDocument(d), NEW c, c.type = "insert", c.instance \notin DOMAIN d.instances,
         \A s \in Pending(c) : Published(s), Inserts(den, d, c)
  PROVE  Toggles(den, d, Inserted(d, c), InsertInverse(d, c), c)
<1> DEFINE M == DOMAIN d.instances \cup {c.instance}
           x == [source |-> c.source, overrides |-> c.overrides, selection |-> Nothing]
           f == Entry(c.instance, x)
           e == Inserted(d, c)
           i == InsertInverse(d, c)
<1>1. IsDocument(e)
  <2>1. Forward(c, M) /\ DOMAIN d.instances \subseteq M
    BY DEF Forward
  <2> HIDE DEF M
  <2> QED
    BY <2>1, InsertKeeps DEF Kept
<1>2. e = Doc(Over(f, d.instances), Merged(d.registry, Pending(c)), d.locals)
  BY DEF Inserted
<1>3. DOMAIN f = {c.instance}
  BY DEF Entry
<1>4. i.type = "revert-insert" /\ i.instance = c.instance /\ i.added = Added(d.registry, Pending(c)) /\ i.again = c
  BY DEF InsertInverse
<1>5. Apply(den, d, c) = {<<e, i>>}
  BY InsertIs
<1> HIDE DEF e, i, f
<1>6. /\ e.instances = Over(f, d.instances) /\ e.registry = Merged(d.registry, Pending(c)) /\ e.locals = d.locals
      /\ i.instance \in DOMAIN e.instances
  <2>1. DOMAIN Over(f, d.instances) = {c.instance} \cup DOMAIN d.instances
    BY <1>3 DEF Over
  <2> QED
    BY <1>2, <1>4, <2>1, PartsOf
<1>7. Apply(den, e, i) = {<<Deleted(e, i), c>>}
  BY <1>1, <1>4, <1>6, RevertInsertIs
<1>8. IsMap(d.instances) /\ Snapshots(d.registry) /\ d = Doc(d.instances, d.registry, d.locals)
  BY DocumentIs DEF Placements
<1>9. Without(e.instances, {i.instance}) = d.instances
  BY <1>3, <1>4, <1>6, <1>8, OverWithout
<1>10. Without(e.registry, i.added) = d.registry
  <2>1. Without(Merged(d.registry, Pending(c)), Added(d.registry, Pending(c))) = d.registry
    BY <1>8, MergedIs, Zenon
  <2> QED
    BY <2>1, <1>4, <1>6
<1>11. Deleted(e, i) = d
  BY <1>6, <1>8, <1>9, <1>10 DEF Deleted
<1>12. Toggles(den, d, e, i, c)
  BY <1>5, <1>7, <1>11 DEF Toggles
<1> QED
  BY <1>12 DEF e, i

LEMMA ChangeToggles ==
  ASSUME NEW den, NEW d, IsDocument(d), NEW c, c.type \in {"update", "swap"},
         \A s \in Pending(c) : Published(s), Changes(den, d, c)
  PROVE  Toggles(den, d, Changed(d, c), ChangeInverse(d, c), c)
<1> DEFINE e == Changed(d, c)
           i == ChangeInverse(d, c)
<1>1. IsDocument(e)
  BY ChangeKeeps DEF Forward, Kept, Changes
<1>2. e = Doc(RetargetedAll(d, c), Merged(d.registry, Pending(c)), d.locals)
  BY DEF Changed
<1>3. /\ i.type = "revert-change" /\ i.restores = [x \in c.targets |-> d.instances[x]]
      /\ i.added = Added(d.registry, Pending(c)) /\ i.again = c
  BY DEF ChangeInverse
<1>4. Apply(den, d, c) = {<<e, i>>}
  BY ChangeIs
<1>5. c.targets \subseteq DOMAIN d.instances
  BY DEF Changes, StillPreviewed
<1> HIDE DEF e, i
<1>6. /\ e.instances = RetargetedAll(d, c) /\ e.registry = Merged(d.registry, Pending(c)) /\ e.locals = d.locals
  BY <1>2, PartsOf
<1>7. DOMAIN i.restores \subseteq DOMAIN e.instances
  BY <1>3, <1>5, <1>6 DEF RetargetedAll
<1>8. Apply(den, e, i) = {<<Restored(e, i), c>>}
  BY <1>1, <1>3, <1>7, RevertChangeIs
<1>9. IsMap(d.instances) /\ Snapshots(d.registry) /\ d = Doc(d.instances, d.registry, d.locals)
  BY DocumentIs DEF Placements
<1>10. Over(i.restores, e.instances) = d.instances
  <2> DEFINE o == Over(i.restores, e.instances)
  <2>1. /\ DOMAIN i.restores = c.targets /\ \A x \in c.targets : i.restores[x] = d.instances[x]
        /\ DOMAIN e.instances = DOMAIN d.instances
        /\ \A x \in DOMAIN d.instances \ c.targets : e.instances[x] = d.instances[x]
    BY <1>3, <1>6 DEF RetargetedAll
  <2>2. o = [k \in DOMAIN d.instances |-> IF k \in c.targets THEN i.restores[k] ELSE e.instances[k]]
    <3>1. c.targets \cup DOMAIN d.instances = DOMAIN d.instances
      BY <1>5
    <3> QED
      BY <2>1, <3>1 DEF Over
  <2>3. o = [k \in DOMAIN d.instances |-> d.instances[k]]
    BY <2>1, <2>2
  <2> QED
    BY <1>9, <2>3 DEF IsMap
<1>11. Without(e.registry, i.added) = d.registry
  <2>1. Without(Merged(d.registry, Pending(c)), Added(d.registry, Pending(c))) = d.registry
    BY <1>9, MergedIs, Zenon
  <2> QED
    BY <2>1, <1>3, <1>6
<1>12. Restored(e, i) = d
  BY <1>6, <1>9, <1>10, <1>11 DEF Restored
<1>13. Toggles(den, d, e, i, c)
  BY <1>4, <1>8, <1>12 DEF Toggles
<1> QED
  BY <1>13 DEF e, i

LEMMA RecoverToggles ==
  ASSUME NEW den, NEW d, IsDocument(d), NEW c, c.type = "recover",
         \A s \in Pending(c) : Published(s), Recovers(d, c)
  PROVE  Toggles(den, d, Recovered(d, c), RecoverInverse(d, c), c)
<1> DEFINE e == Recovered(d, c)
           i == RecoverInverse(d, c)
<1>1. IsDocument(e)
  BY RecoverKeeps DEF Forward, Kept
<1>2. e = Doc(d.instances, Merged(d.registry, Pending(c)), d.locals)
  BY DEF Recovered
<1>3. i.type = "unrecover" /\ i.added = Added(d.registry, Pending(c)) /\ i.again = c
  BY DEF RecoverInverse
<1>4. Apply(den, d, c) = {<<e, i>>}
  BY RecoverIs
<1> HIDE DEF e, i
<1>5. e.instances = d.instances /\ e.registry = Merged(d.registry, Pending(c)) /\ e.locals = d.locals
  BY <1>2, PartsOf
<1>6. Apply(den, e, i) = {<<Doc(e.instances, Without(e.registry, i.added), e.locals), c>>}
  BY <1>1, <1>3, UnrecoverIs
<1>7. Snapshots(d.registry) /\ d = Doc(d.instances, d.registry, d.locals)
  BY DocumentIs
<1>8. Without(e.registry, i.added) = d.registry
  <2>1. Without(Merged(d.registry, Pending(c)), Added(d.registry, Pending(c))) = d.registry
    BY <1>7, MergedIs, Zenon
  <2> QED
    BY <2>1, <1>3, <1>5
<1>9. Toggles(den, d, e, i, c)
  BY <1>4, <1>5, <1>6, <1>7, <1>8 DEF Toggles
<1> QED
  BY <1>9 DEF e, i

(* A collection that retains nothing another would take.                    *)
LEMMA CollectToggles ==
  ASSUME NEW den, NEW d, IsDocument(d), NEW c, c.type = "collect",
         previewCollectUnused(d, c.retained) = previewCollectUnused(d, {}),
         NEW r \in Apply(den, d, c)
  PROVE  Toggles(den, d, r[1], r[2], CollectC({}))
<1> DEFINE gone == previewCollectUnused(d, {})
           e == Doc(d.instances, Without(d.registry, gone), d.locals)
           i == [type |-> "restore", removed |-> [k \in gone |-> d.registry[k]]]
           c1 == CollectC({})
<1>1. r = <<e, i>>
  BY CollectIs DEF CollectInverse
<1>2. c1.type = "collect" /\ c1.retained = {}
  BY DEF CollectC
<1>3. Apply(den, d, c1) = {<<e, i>>}
  <2> HIDE DEF c1
  <2>1. previewCollectUnused(d, c1.retained) = gone
    BY <1>2
  <2> HIDE DEF gone
  <2>2. Apply(den, d, c1) = {<<Doc(d.instances, Without(d.registry, previewCollectUnused(d, c1.retained)), d.locals),
                               CollectInverse(d, c1)>>}
    BY <1>2, CollectIs
  <2>3. CollectInverse(d, c1) = i
    BY <2>1 DEF CollectInverse
  <2> QED
    BY <2>1, <2>2, <2>3
<1>4. gone \subseteq DOMAIN d.registry
  BY DEF previewCollectUnused
<1>5. i.type = "restore" /\ i.removed = [k \in gone |-> d.registry[k]]
  OBVIOUS
<1> HIDE DEF gone, i, c1
<1>6. e.instances = d.instances /\ e.registry = Without(d.registry, gone) /\ e.locals = d.locals
  BY PartsOf
<1>7. Placements(d.instances) /\ Snapshots(d.registry) /\ d = Doc(d.instances, d.registry, d.locals)
  BY DocumentIs
<1>8. IsDocument(e)
  BY <1>7, WithoutKeeps, IsADocument
<1>9. Apply(den, e, i) = {<<Doc(e.instances, Over(i.removed, e.registry), e.locals), c1>>}
  <2> HIDE DEF e
  <2> QED
    BY <1>5, <1>8, RestoreIs DEF c1
<1>10. Over(i.removed, e.registry) = d.registry
  <2>1. DOMAIN i.removed = gone /\ \A k \in gone : i.removed[k] = d.registry[k]
    BY <1>5
  <2>2. IsMap(d.registry)
    BY <1>7 DEF Snapshots
  <2> QED
    BY <1>4, <1>6, <2>1, <2>2, OverWithout
<1>11. Apply(den, e, i) = {<<d, c1>>}
  BY <1>6, <1>7, <1>9, <1>10
<1> HIDE DEF e
<1>12. r[1] = e /\ r[2] = i
  BY <1>1
<1>13. Toggles(den, d, e, i, c1)
  BY <1>3, <1>11 DEF Toggles
<1> QED
  BY <1>12, <1>13 DEF c1

(* The selection that is stored for the one an instance had.                *)
LEMMA StoredSelection ==
  ASSUME NEW old, \A s, t \in old : s = t /\ DOMAIN s # {}
  PROVE  {s \in {Given(old, EmptyMap)} : DOMAIN s # {}} = old
<1>1. CASE old = {}
  <2>1. Given(old, EmptyMap) = EmptyMap /\ DOMAIN EmptyMap = {}
    BY <1>1 DEF Given, EmptyMap
  <2> QED
    BY <1>1, <2>1
<1>2. CASE old # {}
  <2>1. PICK s \in old : TRUE
    BY <1>2
  <2>2. old = {s} /\ DOMAIN s # {}
    BY <2>1
  <2>3. Given(old, EmptyMap) = s
    BY <2>2 DEF Given
  <2> QED
    BY <2>2, <2>3
<1> QED
  BY <1>1, <1>2

(* The overrides a change of variant leads to are never taken away whole.   *)
LEMMA KeptIs ==
  ASSUME NEW def, NEW c, NEW overrides
  PROVE  /\ c.restore # Nothing => KeptOverrides(def, c, overrides) = c.restore
         /\ c.restore = Nothing /\ c.discard => KeptOverrides(def, c, overrides) # Nothing
         /\ c.restore = Nothing /\ ~c.discard => KeptOverrides(def, c, overrides) = overrides
<1> DEFINE kept == [p \in Preserved(def, Given(overrides, EmptyMap), resolveComponentVariant(def, c.selection)) |->
                       Given(overrides, EmptyMap)[p]]
<1>1. KeptOverrides(def, c, overrides)
        = CASE c.restore # Nothing -> c.restore
            [] c.restore = Nothing /\ c.discard -> {kept}
            [] OTHER -> overrides
  BY DEF KeptOverrides
<1> HIDE DEF kept
<1>2. {kept} # Nothing
  BY DEF Nothing
<1> QED
  BY <1>1, <1>2

LEMMA VariantToggles ==
  ASSUME NEW den, NEW d, IsDocument(d), NEW c, c.type = "set-variant", c.restore = Nothing, CanShow(d, c),
         c.discard => d.instances[c.instance].overrides # Nothing
  PROVE  LET e == VariantShown(d, c)
             i == VariantInverse(c, d.instances[c.instance])
         IN  Toggles(den, d, e, i, VariantInverse(i, e.instances[c.instance]))
<1> DEFINE n == c.instance
           x == d.instances[n]
           y == Shown(d, c, x)
           def == Def[d.registry[x.source].body]
           e == VariantShown(d, c)
           i == VariantInverse(c, x)
           c1 == VariantInverse(i, y)
<1>1. Placements(d.instances) /\ Snapshots(d.registry) /\ d = Doc(d.instances, d.registry, d.locals)
  BY DocumentIs
<1>2. n \in DOMAIN d.instances /\ Placement(x)
  BY <1>1 DEF CanShow, Placements
<1>3. /\ y = [source |-> x.source, overrides |-> KeptOverrides(def, c, x.overrides),
              selection |-> {s \in {c.selection} : DOMAIN s # {}}]
  BY DEF Shown
<1>4. /\ i.type = "set-variant" /\ i.instance = n /\ i.selection = Given(x.selection, EmptyMap)
      /\ i.discard = FALSE /\ i.restore = x.overrides
  BY DEF VariantInverse
<1>5. e = Doc(Over(Entry(n, y), d.instances), d.registry, d.locals)
  BY DEF VariantShown
<1>6. IsDocument(e)
  <2>1. Kept(DOMAIN d.instances, e, i)
    BY SetVariantKeeps
  <2> QED
    BY <2>1 DEF Kept
<1>7. CanShow(d, c)
  OBVIOUS
<1> HIDE DEF e
<1>8. /\ e.instances = Over(Entry(n, y), d.instances) /\ e.registry = d.registry /\ e.locals = d.locals
      /\ n \in DOMAIN e.instances /\ e.instances[n] = y
  <2>1. e.instances = Over(Entry(n, y), d.instances) /\ e.registry = d.registry /\ e.locals = d.locals
    BY <1>5, PartsOf
  <2> HIDE DEF y
  <2> QED
    BY <2>1 DEF Over, Entry
<1>9. y.source = x.source /\ y.overrides = KeptOverrides(def, c, x.overrides)
      /\ y.selection = {s \in {c.selection} : DOMAIN s # {}}
  BY <1>3
<1>10. /\ c1.type = "set-variant" /\ c1.instance = n /\ c1.selection = Given(y.selection, EmptyMap)
       /\ c1.discard = FALSE /\ c1.restore = y.overrides
  <2> HIDE DEF i, y
  <2> QED
    BY <1>4 DEF VariantInverse
<1> HIDE DEF y, c1
<1>11. CanShow(e, i)
  BY <1>4, <1>7, <1>8, <1>9 DEF CanShow
<1>12. CanShow(d, c1)
  BY <1>7, <1>10 DEF CanShow
<1>13. y.overrides = Nothing => x.overrides = Nothing /\ ~c.discard
  <2>1. c.discard => y.overrides # Nothing
    BY <1>9, KeptIs, SMTT(60)
  <2>2. ~c.discard => y.overrides = x.overrides
    BY <1>9, KeptIs
  <2> QED
    BY <2>1, <2>2
<1>14. KeptOverrides(def, i, y.overrides) = x.overrides
  <2>1. CASE x.overrides # Nothing
    BY <1>4, <2>1, KeptIs
  <2>2. CASE x.overrides = Nothing
    <3>1. ~c.discard
      BY <2>2
    <3>2. y.overrides = x.overrides
      BY <1>9, <3>1, KeptIs
    <3>3. i.restore = Nothing /\ ~i.discard
      BY <1>4, <2>2
    <3>4. KeptOverrides(def, i, y.overrides) = y.overrides
      BY <3>3, KeptIs
    <3> QED
      BY <3>2, <3>4
  <2> QED
    BY <2>1, <2>2
<1>15. KeptOverrides(def, c1, x.overrides) = y.overrides
  <2>1. CASE y.overrides # Nothing
    BY <1>10, <2>1, KeptIs
  <2>2. CASE y.overrides = Nothing
    <3>1. c1.restore = Nothing /\ ~c1.discard
      BY <1>10, <2>2
    <3>2. KeptOverrides(def, c1, x.overrides) = x.overrides
      BY <3>1, KeptIs
    <3> QED
      BY <1>13, <2>2, <3>2
  <2> QED
    BY <2>1, <2>2
<1>16. /\ x = [source |-> x.source, overrides |-> x.overrides, selection |-> x.selection]
       /\ y = [source |-> y.source, overrides |-> y.overrides, selection |-> y.selection]
  BY <1>2, <1>3, <1>9 DEF Placement
<1>17. {s \in {i.selection} : DOMAIN s # {}} = x.selection
  BY <1>2, <1>4, StoredSelection DEF Placement
<1>18. {s \in {c1.selection} : DOMAIN s # {}} = y.selection
  <2>1. \A s, t \in y.selection : s = t /\ DOMAIN s # {}
    BY <1>9
  <2> QED
    BY <1>10, <2>1, StoredSelection
<1>19. Shown(e, i, y) = x
  <2>1. Shown(e, i, y) = [source |-> y.source, overrides |-> KeptOverrides(Def[e.registry[y.source].body], i, y.overrides),
                          selection |-> {s \in {i.selection} : DOMAIN s # {}}]
    BY DEF Shown
  <2>2. Def[e.registry[y.source].body] = def
    BY <1>8, <1>9
  <2>3. Shown(e, i, y) = [source |-> x.source, overrides |-> x.overrides, selection |-> x.selection]
    BY <1>9, <1>14, <1>17, <2>1, <2>2
  <2> QED
    BY <1>16, <2>3
<1>20. Shown(d, c1, x) = y
  <2>1. Shown(d, c1, x) = [source |-> x.source, overrides |-> KeptOverrides(def, c1, x.overrides),
                           selection |-> {s \in {c1.selection} : DOMAIN s # {}}]
    BY DEF Shown
  <2>2. Shown(d, c1, x) = [source |-> y.source, overrides |-> y.overrides, selection |-> y.selection]
    BY <1>9, <1>15, <1>18, <2>1
  <2> QED
    BY <1>16, <2>2
<1>21. VariantShown(e, i) = d
  <2>1. VariantShown(e, i) = Doc(Over(Entry(n, x), e.instances), d.registry, d.locals)
    BY <1>4, <1>8, <1>19 DEF VariantShown
  <2>2. Over(Entry(n, x), e.instances) = d.instances
    <3>1. IsMap(d.instances)
      BY <1>1 DEF Placements
    <3>2. /\ DOMAIN e.instances = {n} \cup DOMAIN d.instances
          /\ \A k \in DOMAIN d.instances \ {n} : e.instances[k] = d.instances[k]
      BY <1>8 DEF Over, Entry
    <3>3. {n} \cup DOMAIN e.instances = DOMAIN d.instances
      BY <1>2, <3>2
    <3>4. Over(Entry(n, x), e.instances) = [k \in DOMAIN d.instances |-> IF k = n THEN x ELSE e.instances[k]]
      BY <3>3 DEF Over, Entry
    <3>5. Over(Entry(n, x), e.instances) = [k \in DOMAIN d.instances |-> d.instances[k]]
      BY <3>2, <3>4
    <3> QED
      BY <3>1, <3>5 DEF IsMap
  <2> QED
    BY <1>1, <2>1, <2>2
<1>22. VariantShown(d, c1) = e
  BY <1>5, <1>10, <1>20 DEF VariantShown
<1>23. Apply(den, e, i) = {<<d, c1>>}
  <2>1. Apply(den, e, i) = {<<VariantShown(e, i), VariantInverse(i, e.instances[i.instance])>>}
    BY <1>4, <1>6, <1>11, SetVariantIs
  <2> QED
    BY <1>4, <1>8, <1>21, <2>1 DEF c1
<1>24. VariantInverse(c1, x) = i
  BY <1>10 DEF VariantInverse
<1>25. Apply(den, d, c1) = {<<e, i>>}
  <2>1. Apply(den, d, c1) = {<<VariantShown(d, c1), VariantInverse(c1, d.instances[c1.instance])>>}
    BY <1>10, <1>12, SetVariantIs
  <2> QED
    BY <1>10, <1>22, <1>24, <2>1
<1>26. Toggles(den, d, e, i, c1) /\ e.instances[c.instance] = y
  BY <1>8, <1>23, <1>25 DEF Toggles
<1> QED
  BY <1>26 DEF e, c1

(* What the hosts are to avoid: collections and changes of variant whose    *)
(* undo or redo is not exact.                                               *)
Attentive == "retaining" \notin Careless /\ "discarding nothing" \notin Careless

LEMMA SubmitToggles ==
  ASSUME Stocked, Attentive, NEW t \in plan.offers, NEW c \in Offers(t, doc), Careful(doc, c),
         NEW r \in Apply(plan.denied, doc, c)
  PROVE  \E c1 : Toggles(plan.denied, doc, r[1], r[2], c1)
<1>1. IsDocument(doc) /\ DOMAIN doc.instances \subseteq minted
  BY DEF Stocked
<1>2. c.type \in {"insert", "update", "swap", "set-variant", "collect", "recover"}
  BY Offered
<1>3. CASE c.type = "insert"
  <2>1. c.instance \notin DOMAIN doc.instances /\ \A s \in Pending(c) : Published(s)
    BY <1>1, <1>3, Offered
  <2>2. Inserts(plan.denied, doc, c) /\ r = <<Inserted(doc, c), InsertInverse(doc, c)>>
    BY <1>1, <1>3, InsertIs
  <2>3. Toggles(plan.denied, doc, Inserted(doc, c), InsertInverse(doc, c), c)
    BY <1>1, <1>3, <2>1, <2>2, InsertToggles
  <2> QED
    BY <2>2, <2>3
<1>4. CASE c.type \in {"update", "swap"}
  <2>1. \A s \in Pending(c) : Published(s)
    BY <1>4, Offered
  <2>2. Changes(plan.denied, doc, c) /\ r = <<Changed(doc, c), ChangeInverse(doc, c)>>
    BY <1>1, <1>4, ChangeIs
  <2>3. Toggles(plan.denied, doc, Changed(doc, c), ChangeInverse(doc, c), c)
    BY <1>1, <1>4, <2>1, <2>2, ChangeToggles
  <2> QED
    BY <2>2, <2>3
<1>5. CASE c.type = "recover"
  <2>1. \A s \in Pending(c) : Published(s)
    BY <1>5, Offered
  <2>2. Recovers(doc, c) /\ r = <<Recovered(doc, c), RecoverInverse(doc, c)>>
    BY <1>1, <1>5, RecoverIs
  <2>3. Toggles(plan.denied, doc, Recovered(doc, c), RecoverInverse(doc, c), c)
    BY <1>1, <1>5, <2>1, <2>2, RecoverToggles
  <2> QED
    BY <2>2, <2>3
<1>6. CASE c.type = "collect"
  <2>1. previewCollectUnused(doc, c.retained) = previewCollectUnused(doc, {})
    BY <1>6 DEF Careful, Attentive
  <2> QED
    BY <1>1, <1>6, <2>1, CollectToggles
<1>7. CASE c.type = "set-variant"
  <2> DEFINE e == VariantShown(doc, c)
             i == VariantInverse(c, doc.instances[c.instance])
             c1 == VariantInverse(i, e.instances[c.instance])
  <2>1. c.restore = Nothing
    BY <1>7, Offered
  <2>2. c.discard => doc.instances[c.instance].overrides # Nothing
    BY <1>7 DEF Careful, Attentive
  <2>3. CanShow(doc, c) /\ r = <<e, i>>
    BY <1>1, <1>7, SetVariantIs
  <2>4. Toggles(plan.denied, doc, e, i, c1)
    BY <1>1, <1>7, <2>1, <2>2, <2>3, VariantToggles
  <2> QED
    BY <2>3, <2>4
<1> QED
  BY <1>2, <1>3, <1>4, <1>5, <1>6, <1>7

-----------------------------------------------------------------------------
(* The walk over a closure.                                                 *)

LEMMA SameSnapshot ==
  ASSUME NEW s, NEW t, Published(s), Published(t), s.ref = t.ref
  PROVE  s = t
<1>1. ASSUME NEW u, Published(u)
      PROVE  u = [ref |-> u.ref, body |-> u.body] /\ u.ref.integrity = <<u.ref.component, u.ref.version, u.body>>
  <2> DEFINE ref == Ref(u.ref.component, u.ref.version, u.body)
  <2>1. u = [ref |-> ref, body |-> u.body]
    BY <1>1 DEF Published, Snapshot
  <2>2. ref.integrity = <<u.ref.component, u.ref.version, u.body>>
    BY DEF Ref, Subject
  <2> HIDE DEF ref
  <2>3. u.ref = ref
    BY <2>1
  <2> QED
    BY <2>1, <2>2, <2>3
<1>2. s = [ref |-> s.ref, body |-> s.body] /\ s.ref.integrity = <<s.ref.component, s.ref.version, s.body>>
  BY <1>1
<1>3. t = [ref |-> t.ref, body |-> t.body] /\ t.ref.integrity = <<t.ref.component, t.ref.version, t.body>>
  BY <1>1
<1>4. s.body = t.body
  BY <1>2, <1>3
<1> QED
  BY <1>2, <1>3, <1>4

Refs(c) == {s.ref : s \in Known(c)}

(* What may be walked: published snapshots, looked up by their references,  *)
(* all of which must be present.                                            *)
Walkable(c) ==
    /\ \A s \in Known(c) : Published(s)
    /\ \A r \in DOMAIN c.found : c.found[r].ref = r
    /\ c.present = TRUE

(* What a snapshot keeps alive.                                             *)
Lives(s) == Declared(s) \cup Def[s.body].nested

(* From w a walk came soundly to u: what it met is there with all that it   *)
(* keeps alive.                                                             *)
Extends(c, w, u) ==
    u.sound => /\ w.sound /\ w.seen \subseteq u.seen
               /\ \A s \in Known(c) : s.ref \in u.seen /\ s.ref \notin w.seen => Lives(s) \subseteq u.seen

LEMMA ExtendsFurther ==
  ASSUME NEW c, NEW w, NEW u, NEW x, Extends(c, w, u), Extends(c, u, x)
  PROVE  Extends(c, w, x)
BY DEF Extends

(* What a visit gives.                                                      *)
Answers(c, v, u) == u \in Walked(Refs(c)) /\ Extends(c, v.sofar, u) /\ (u.sound => v.at.ref \in u.seen)

Answering(c, deeper) == \A v \in Visits(c) : Answers(c, v, deeper[v])

(* How a visit goes on with one dependency.                                 *)
Into(c, deeper, v, w, r) ==
    IF w.sound /\ r \in DOMAIN c.found
    THEN deeper[[at |-> c.found[r], path |-> v.path \cup {v.at.ref}, sofar |-> w]]
    ELSE [w EXCEPT !.sound = @ /\ ~c.present]

Met(v) == [v.sofar EXCEPT !.seen = @ \cup {v.at.ref}, !.nodes = @ + Def[v.at.body].nodes]

Descent(c, deeper, v) ==
    FoldLeft(LAMBDA w, r : Into(c, deeper, v, w, r), Met(v), Def[v.at.body].dependencies)

LEMMA VisitIs ==
  ASSUME NEW c, NEW deeper, NEW v
  PROVE  Visit(c, deeper, v)
           = IF ~Keyable(v.at.ref) \/ v.at.ref \in v.path THEN Problem(v.sofar)
             ELSE IF v.at.ref \in v.sofar.seen THEN v.sofar
             ELSE IF ~SoundManifest(v.at) \/ Met(v).nodes > MaxNodes THEN Problem(Met(v))
             ELSE Descent(c, deeper, v)
BY Zenon DEF Visit, Descent, Into, Met

(* acc[k]: how far the walk has come after k dependencies.                  *)
Descends(c, deeper, v, acc) ==
    LET deps == Def[v.at.body].dependencies
    IN  /\ acc[0] = Met(v)
        /\ \A k \in 1 .. Len(deps) : acc[k] = Into(c, deeper, v, acc[k - 1], deps[k])
        /\ Descent(c, deeper, v) = acc[Len(deps)]

LEMMA LastOf ==
  ASSUME NEW k \in Nat, NEW s \in SUBSET (1 .. k), k \in s
  PROVE  Max(s) = k
<1>1. \A y \in s : y \in Nat /\ y <= k
  OBVIOUS
<1>2. \A x \in s : (\A y \in s : x >= y) => x = k
  BY <1>1
<1>3. \A y \in s : k >= y
  BY <1>1
<1> DEFINE P(x) == x \in s /\ \A y \in s : x >= y
<1>4. P(k) /\ \A x : P(x) => x = k
  BY <1>2, <1>3
<1>5. Max(s) = CHOOSE x : P(x)
  BY DEF Max
<1> HIDE DEF P
<1>6. P(CHOOSE x : P(x))
  BY <1>4
<1> QED
  BY <1>4, <1>5, <1>6

LEMMA DescentUnfolds ==
  ASSUME NEW c, NEW deeper, NEW v, Def[v.at.body].dependencies \in Seq(Range(Def[v.at.body].dependencies))
  PROVE  \E acc : Descends(c, deeper, v, acc)
<1> DEFINE deps == Def[v.at.body].dependencies
           N == Len(deps)
           start == Met(v)
           Last1(s) == Max(s)
           Step(s, x) == Into(c, deeper, v, x, deps[Last1(s)])
           Run(f, n) == f = [s \in SUBSET (1 .. n) |-> IF s = {} THEN start
                                                       ELSE Step(s, f[s \ {Last1(s)}])]
           S == {n \in 0 .. N : \E f : Run(f, n)}
           iter == CHOOSE f : Run(f, N)
           acc == [k \in 0 .. N |-> iter[1 .. k]]
<1>1. N \in Nat /\ DOMAIN deps = 1 .. N
  <2> DEFINE R == Range(deps)
  <2>1. deps \in Seq(R)
    OBVIOUS
  <2> HIDE DEF R, deps
  <2> QED
    BY <2>1
<1>2. Descent(c, deeper, v) = iter[1 .. N]
  BY <1>1 DEF Descent, FoldLeft, MapThenFoldSet
<1>3. ASSUME NEW k \in Nat, NEW s \in SUBSET (1 .. k), k \in s
      PROVE  Last1(s) = k
  BY <1>3, LastOf
<1> HIDE DEF start, Step, Last1, deps
<1>4. 0 \in S
  <2> DEFINE g == [s \in SUBSET (1 .. 0) |-> start]
  <2>1. Run(g, 0)
    BY \A s \in SUBSET (1 .. 0) : s = {}
  <2> HIDE DEF Run, g
  <2> QED
    BY <1>1, <2>1
<1>5. ASSUME NEW k \in 1 .. N, k - 1 \in S
      PROVE  k \in S
  <2>1. PICK f : Run(f, k - 1)
    BY <1>5
  <2> DEFINE g == [s \in SUBSET (1 .. k) |-> IF k \in s THEN Step(s, f[s \ {k}]) ELSE f[s]]
  <2>2. \A s \in SUBSET (1 .. k) : g[s] = IF s = {} THEN start ELSE Step(s, g[s \ {Last1(s)}])
    <3> TAKE s \in SUBSET (1 .. k)
    <3>1. CASE k \in s
      <4>1. Last1(s) = k
        BY <1>3, <3>1
      <4>2. s \ {k} \in SUBSET (1 .. k) /\ k \notin s \ {k} /\ s # {}
        BY <3>1
      <4>3. g[s \ {k}] = f[s \ {k}]
        BY <4>2
      <4> QED
        BY <3>1, <4>1, <4>2, <4>3
    <3>2. CASE k \notin s
      <4>1. s \in SUBSET (1 .. k - 1) /\ s \ {Last1(s)} \in SUBSET (1 .. k - 1)
        <5>1. \A x \in s : x \in 1 .. k - 1
          BY <1>1, <3>2
        <5> QED
          BY <5>1
      <4>2. f[s] = IF s = {} THEN start ELSE Step(s, f[s \ {Last1(s)}])
        BY <2>1, <4>1
      <4>3. g[s] = f[s] /\ g[s \ {Last1(s)}] = f[s \ {Last1(s)}]
        BY <3>2, <4>1
      <4> QED
        BY <4>2, <4>3
    <3> QED
      BY <3>1, <3>2
  <2>3. Run(g, k)
    BY <2>2
  <2> HIDE DEF Run, g
  <2> QED
    BY <1>1, <2>3
<1>6. N \in S
  <2> HIDE DEF S
  <2>1. 0 .. N \subseteq S
    BY <1>1, <1>4, <1>5, Induction, Zenon
  <2> QED
    BY <1>1, <2>1
<1> HIDE DEF Run
<1>7. Run(iter, N)
  BY <1>6
<1> HIDE DEF iter
<1>8. iter[{}] = start
  BY <1>7 DEF Run
<1>9. \A k \in 1 .. N : iter[1 .. k] = Step(1 .. k, iter[1 .. k - 1]) /\ Last1(1 .. k) = k
  <2> TAKE k \in 1 .. N
  <2>1. Last1(1 .. k) = k
    BY <1>1, <1>3
  <2>2. (1 .. k) \ {k} = 1 .. k - 1
    <3>1. \A x : x \in (1 .. k) \ {k} <=> x \in 1 .. k - 1
      BY <1>1
    <3> QED
      BY <3>1
  <2>3. 1 .. k \in SUBSET (1 .. N) /\ k \in 1 .. k
    BY <1>1
  <2> QED
    BY <1>7, <2>1, <2>2, <2>3 DEF Run
<1>10. acc[0] = start
  BY <1>1, <1>8, 1 .. 0 = {}
<1>11. \A k \in 1 .. N : acc[k] = Into(c, deeper, v, acc[k - 1], deps[k])
  BY <1>1, <1>9 DEF Step
<1>12. Descent(c, deeper, v) = acc[N]
  BY <1>1, <1>2
<1> HIDE DEF acc
<1>13. Descends(c, deeper, v, acc)
  BY <1>10, <1>11, <1>12 DEF start, deps, Descends
<1> QED
  BY <1>13

LEMMA MetIs ==
  ASSUME NEW c, Walkable(c), NEW v \in Visits(c)
  PROVE  /\ Met(v) \in Walked(Refs(c)) /\ Met(v).sound = v.sofar.sound
         /\ Met(v).seen = v.sofar.seen \cup {v.at.ref}
         /\ Problem(v.sofar) \in Walked(Refs(c)) /\ ~Problem(v.sofar).sound
         /\ Problem(Met(v)) \in Walked(Refs(c)) /\ ~Problem(Met(v)).sound
<1>1. v.at \in Known(c) /\ v.sofar \in Walked(Refs(c))
  BY DEF Visits, Refs
<1>2. v.at.ref \in Refs(c)
  BY <1>1 DEF Refs
<1>3. Def[v.at.body].nodes \in Nat
  BY <1>1, LibraryAssumption DEF Walkable, Published
<1> DEFINE n == Def[v.at.body].nodes
           R == Refs(c)
           r == v.at.ref
           w == v.sofar
           m == [w EXCEPT !.seen = @ \cup {r}, !.nodes = @ + n]
<1>4. Met(v) = m
  BY DEF Met
<1> HIDE DEF n, R, r, w
<1>5. w \in [seen : SUBSET R, nodes : Nat, sound : BOOLEAN] /\ r \in R /\ n \in Nat
  BY <1>1, <1>2, <1>3 DEF n, R, r, w, Walked
<1>6. m \in [seen : SUBSET R, nodes : Nat, sound : BOOLEAN] /\ m.sound = w.sound /\ m.seen = w.seen \cup {r}
  <2>1. m = [k \in DOMAIN w |-> IF k = "seen" THEN w.seen \cup {r} ELSE IF k = "nodes" THEN w.nodes + n ELSE w[k]]
    BY <1>5
  <2> HIDE DEF m
  <2>2. m = [seen |-> w.seen \cup {r}, nodes |-> w.nodes + n, sound |-> w.sound]
    BY <1>5, <2>1
  <2> QED
    BY <1>5, <2>2
<1>7. ASSUME NEW x \in [seen : SUBSET R, nodes : Nat, sound : BOOLEAN]
      PROVE  Problem(x) \in [seen : SUBSET R, nodes : Nat, sound : BOOLEAN] /\ ~Problem(x).sound
  BY DEF Problem
<1> HIDE DEF m
<1>8. /\ m \in Walked(R) /\ m.sound = w.sound /\ m.seen = w.seen \cup {r}
      /\ Problem(w) \in Walked(R) /\ ~Problem(w).sound /\ Problem(m) \in Walked(R) /\ ~Problem(m).sound
  BY <1>5, <1>6, <1>7 DEF Walked
<1> QED
  BY <1>4, <1>8 DEF R, r, w

LEMMA IntoAnswers ==
  ASSUME NEW c, Walkable(c), NEW deeper, Answering(c, deeper), NEW v \in Visits(c),
         NEW w \in Walked(Refs(c)), NEW r
  PROVE  LET u == Into(c, deeper, v, w, r)
         IN  u \in Walked(Refs(c)) /\ Extends(c, w, u) /\ (u.sound => r \in u.seen)
<1> DEFINE u == Into(c, deeper, v, w, r)
<1>1. CASE w.sound /\ r \in DOMAIN c.found
  <2> DEFINE next == [at |-> c.found[r], path |-> v.path \cup {v.at.ref}, sofar |-> w]
  <2>1. u = deeper[next]
    BY <1>1 DEF Into
  <2>2. c.found[r] \in Known(c) /\ c.found[r].ref = r
    BY <1>1 DEF Known, Range, Walkable
  <2>3. v.path \cup {v.at.ref} \subseteq Refs(c)
    BY DEF Visits, Refs
  <2>4. next \in Visits(c)
    BY <2>2, <2>3 DEF Visits, Refs
  <2>5. next.sofar = w /\ next.at.ref = r
    BY <2>2
  <2> HIDE DEF next
  <2>6. Answers(c, next, u)
    BY <2>1, <2>4 DEF Answering
  <2> HIDE DEF u
  <2>7. u \in Walked(Refs(c)) /\ Extends(c, w, u) /\ (u.sound => r \in u.seen)
    BY <2>5, <2>6 DEF Answers
  <2> QED
    BY <2>7 DEF u
<1>2. CASE ~(w.sound /\ r \in DOMAIN c.found)
  <2> DEFINE R == Refs(c)
  <2>1. u = [w EXCEPT !.sound = @ /\ ~c.present]
    BY <1>2 DEF Into
  <2>2. c.present = TRUE
    BY DEF Walkable
  <2>3. w \in [seen : SUBSET R, nodes : Nat, sound : BOOLEAN]
    BY DEF Walked
  <2> HIDE DEF R
  <2>4. u \in [seen : SUBSET R, nodes : Nat, sound : BOOLEAN] /\ u.sound = FALSE
    <3>1. u = [k \in DOMAIN w |-> IF k = "sound" THEN FALSE ELSE w[k]]
      BY <2>1, <2>2, <2>3
    <3> HIDE DEF u
    <3> QED
      BY <2>3, <3>1
  <2> HIDE DEF u
  <2>5. u \in Walked(Refs(c)) /\ Extends(c, w, u) /\ ~u.sound
    BY <2>4 DEF Walked, Extends, R
  <2> QED
    BY <2>5 DEF u
<1> QED
  BY <1>1, <1>2

LEMMA DescentAnswers ==
  ASSUME NEW c, Walkable(c), NEW deeper, Answering(c, deeper), NEW v \in Visits(c)
  PROVE  LET u == Descent(c, deeper, v)
         IN  u \in Walked(Refs(c)) /\ Extends(c, Met(v), u) /\ (u.sound => Declared(v.at) \subseteq u.seen)
<1> DEFINE deps == Def[v.at.body].dependencies
           N == Len(deps)
           R == Refs(c)
           m == Met(v)
           D(k) == {deps[j] : j \in 1 .. k}
<1>1. deps \in Seq(Range(deps))
  BY LibraryAssumption DEF Visits, Walkable, Published
<1>2. PICK acc : Descends(c, deeper, v, acc)
  BY <1>1, DescentUnfolds
<1>3. N \in Nat /\ Declared(v.at) \subseteq D(N)
  <2>1. deps = [j \in 1 .. N |-> deps[j]] /\ N \in Nat
    <3> DEFINE T == Range(deps)
    <3>1. deps \in Seq(T)
      BY <1>1
    <3> HIDE DEF T, deps
    <3> QED
      BY <3>1
  <2>2. Declared(v.at) = Range(deps)
    BY DEF Declared
  <2> HIDE DEF deps
  <2> QED
    BY <2>1, <2>2 DEF Range
<1>4. m \in Walked(R)
  BY MetIs
<1>5. /\ acc[0] = m
      /\ \A k \in 1 .. N : acc[k] = Into(c, deeper, v, acc[k - 1], deps[k])
      /\ Descent(c, deeper, v) = acc[N]
  BY <1>2 DEF Descends
<1> HIDE DEF deps, N, R, m
<1> DEFINE Fine(k, u) == u \in Walked(R) /\ Extends(c, m, u) /\ (u.sound => D(k) \subseteq u.seen)
           S == {k \in 0 .. N : Fine(k, acc[k])}
<1>6. 0 \in S
  <2>1. D(0) = {}
    OBVIOUS
  <2>2. Extends(c, m, m)
    BY DEF Extends
  <2> QED
    BY <1>3, <1>4, <1>5, <2>1, <2>2
<1>7. ASSUME NEW k \in 1 .. N, k - 1 \in S
      PROVE  k \in S
  <2> DEFINE w == acc[k - 1]
             u == acc[k]
  <2>1. Fine(k - 1, w)
    BY <1>7
  <2>2. u = Into(c, deeper, v, w, deps[k])
    BY <1>5
  <2> HIDE DEF w, u
  <2>3. u \in Walked(R) /\ Extends(c, w, u) /\ (u.sound => deps[k] \in u.seen)
    BY <2>1, <2>2, IntoAnswers DEF R
  <2>4. Extends(c, m, u)
    BY <2>1, <2>3, ExtendsFurther
  <2>5. D(k) \subseteq D(k - 1) \cup {deps[k]}
    <3>1. \A j \in 1 .. k : j = k \/ j \in 1 .. k - 1
      BY <1>3
    <3> QED
      BY <3>1
  <2>6. u.sound => D(k) \subseteq u.seen
    BY <2>1, <2>3, <2>5 DEF Extends
  <2>7. Fine(k, u)
    BY <2>3, <2>4, <2>6
  <2> QED
    BY <1>3, <2>7 DEF u
<1>8. 0 .. N \subseteq S
  <2> HIDE DEF S
  <2> QED
    BY <1>3, <1>6, <1>7, Induction, Zenon
<1>9. Fine(N, acc[N])
  BY <1>3, <1>8
<1> DEFINE last == acc[N]
<1>10. last \in Walked(R) /\ Extends(c, m, last) /\ (last.sound => Declared(v.at) \subseteq last.seen)
  <2>1. Fine(N, last)
    BY <1>9
  <2> HIDE DEF last
  <2> QED
    BY <1>3, <2>1
<1> QED
  BY <1>5, <1>10 DEF R, m

LEMMA VisitAnswers ==
  ASSUME NEW c, Walkable(c), NEW deeper, Answering(c, deeper), NEW v \in Visits(c)
  PROVE  Answers(c, v, Visit(c, deeper, v))
<1> DEFINE u == Visit(c, deeper, v)
           s == v.at
           e == Descent(c, deeper, v)
<1>1. s \in Known(c) /\ v.sofar \in Walked(Refs(c))
  BY DEF Visits, Refs
<1>2. /\ Met(v) \in Walked(Refs(c)) /\ Met(v).sound = v.sofar.sound
      /\ Met(v).seen = v.sofar.seen \cup {s.ref}
      /\ Problem(v.sofar) \in Walked(Refs(c)) /\ ~Problem(v.sofar).sound
      /\ Problem(Met(v)) \in Walked(Refs(c)) /\ ~Problem(Met(v)).sound
  BY MetIs
<1>3. e \in Walked(Refs(c)) /\ Extends(c, Met(v), e) /\ (e.sound => Declared(s) \subseteq e.seen)
  BY DescentAnswers
<1>4. \/ u = Problem(v.sofar) \/ u = Problem(Met(v))
      \/ u = v.sofar /\ s.ref \in v.sofar.seen
      \/ u = e /\ SoundManifest(s)
  BY VisitIs
<1> HIDE DEF u, e
<1>5. ASSUME u = Problem(v.sofar) \/ u = Problem(Met(v))
      PROVE  Answers(c, v, u)
  <2>1. u \in Walked(Refs(c)) /\ ~u.sound
    BY <1>2, <1>5
  <2>2. Extends(c, v.sofar, u)
    BY <2>1 DEF Extends
  <2> QED
    BY <2>1, <2>2 DEF Answers
<1>6. ASSUME u = v.sofar /\ s.ref \in v.sofar.seen
      PROVE  Answers(c, v, u)
  <2>1. Extends(c, u, u)
    BY DEF Extends
  <2>2. Extends(c, v.sofar, u)
    BY <1>6, <2>1
  <2> QED
    BY <1>1, <1>6, <2>2 DEF Answers
<1>7. ASSUME u = e /\ SoundManifest(s)
      PROVE  Answers(c, v, u)
  <2>1. Lives(s) \subseteq Declared(s)
    BY <1>7 DEF Lives, SoundManifest
  <2>2. \A t \in Known(c) : t.ref = s.ref => t = s
    BY <1>1, SameSnapshot DEF Walkable
  <2>3. Extends(c, v.sofar, e)
    <3> SUFFICES ASSUME e.sound
                 PROVE  /\ v.sofar.sound /\ v.sofar.seen \subseteq e.seen
                        /\ \A t \in Known(c) : t.ref \in e.seen /\ t.ref \notin v.sofar.seen => Lives(t) \subseteq e.seen
      BY DEF Extends
    <3>1. Met(v).sound /\ Met(v).seen \subseteq e.seen
      BY <1>3 DEF Extends
    <3>2. ASSUME NEW t \in Known(c), t.ref \in e.seen, t.ref \notin v.sofar.seen
          PROVE  Lives(t) \subseteq e.seen
      <4>1. CASE t.ref = s.ref
        BY <1>3, <2>1, <2>2, <4>1
      <4>2. CASE t.ref # s.ref
        <5>1. t.ref \notin Met(v).seen
          BY <1>2, <3>2, <4>2
        <5> QED
          BY <1>3, <3>2, <5>1 DEF Extends
      <4> QED
        BY <4>1, <4>2
    <3> QED
      BY <1>2, <3>1, <3>2
  <2>4. e.sound => s.ref \in e.seen
    BY <1>2, <1>3 DEF Extends
  <2>5. Answers(c, v, e)
    BY <1>3, <2>3, <2>4 DEF Answers
  <2> QED
    BY <1>7, <2>5
<1>8. Answers(c, v, u)
  BY <1>4, <1>5, <1>6, <1>7
<1> QED
  BY <1>8 DEF u

(* A sound walk has seen its root, and with a snapshot all it keeps alive.  *)
LEMMA WalkAnswers ==
  ASSUME NEW c, Walkable(c), Walk(c).sound
  PROVE  /\ Walk(c).seen \subseteq Refs(c)
         /\ c.root.ref \in Walk(c).seen
         /\ \A s \in Known(c) : s.ref \in Walk(c).seen => Lives(s) \subseteq Walk(c).seen
<1> DEFINE N == MaxClosureDepth
           V == Visits(c)
           Turn(x, n) == [v \in V |-> IF n = 0 THEN Problem(v.sofar) ELSE Visit(c, x, v)]
           Run(f, n) == f = [k \in 0 .. n |-> Turn(f[k - 1], k)]
           S == {n \in 0 .. N : \E f : Run(f, n)}
           walk == CHOOSE f : Run(f, N)
           first == [at |-> c.root, path |-> {}, sofar |-> [seen |-> {}, nodes |-> 0, sound |-> TRUE]]
<1>1. N \in Nat
  BY LibraryAssumption
<1>2. Walk(c) = walk[N][first]
  BY DEF Walk
<1> HIDE DEF V
<1>3. \A x : Turn(x, 0) = [v \in V |-> Problem(v.sofar)]
  OBVIOUS
<1>4. 0 \in S
  <2> DEFINE g == [k \in 0 .. 0 |-> [v \in V |-> Problem(v.sofar)]]
  <2>1. g[0] = [v \in V |-> Problem(v.sofar)] /\ \A k \in 0 .. 0 : k = 0
    OBVIOUS
  <2>2. \A k \in 0 .. 0 : g[k] = Turn(g[k - 1], k)
    BY <1>3, <2>1, Zenon
  <2>3. g = [k \in 0 .. 0 |-> g[k]]
    OBVIOUS
  <2> HIDE DEF g, Turn
  <2>4. Run(g, 0)
    BY <2>2, <2>3
  <2> HIDE DEF Run
  <2> QED
    BY <1>1, <2>4
<1>5. ASSUME NEW k \in 1 .. N, k - 1 \in S
      PROVE  k \in S
  <2>1. PICK f : Run(f, k - 1)
    BY <1>5
  <2> DEFINE g == [j \in 0 .. k |-> IF j < k THEN f[j] ELSE Turn(f[k - 1], k)]
  <2>2. \A j \in 0 .. k : g[j] = Turn(g[j - 1], j)
    <3> TAKE j \in 0 .. k
    <3>1. CASE j = k
      <4>1. j - 1 \in 0 .. k /\ j - 1 < k
        BY <1>1, <3>1
      <4> HIDE DEF Turn
      <4> QED
        BY <1>1, <3>1, <4>1
    <3>2. CASE j # k /\ j # 0
      <4>1. j - 1 \in 0 .. k /\ j - 1 < k /\ j < k /\ j \in 0 .. k - 1
        BY <1>1, <3>2
      <4> HIDE DEF Turn
      <4> QED
        BY <2>1, <4>1
    <3>3. CASE j # k /\ j = 0
      <4>1. 0 \in 0 .. k - 1 /\ 0 < k
        BY <1>1
      <4>2. g[0] = f[0]
        BY <3>3, <4>1
      <4>3. f[0] = Turn(f[0 - 1], 0)
        <5> HIDE DEF Turn
        <5> QED
          BY <2>1, <4>1
      <4> HIDE DEF g
      <4>4. g[0] = [v \in V |-> Problem(v.sofar)]
        BY <1>3, <4>2, <4>3, Zenon
      <4>5. g[j] = g[0] /\ Turn(g[j - 1], j) = Turn(g[0 - 1], 0)
        BY <3>3
      <4> QED
        BY <1>3, <4>4, <4>5, Zenon
    <3> QED
      BY <3>1, <3>2, <3>3
  <2>3. g = [j \in 0 .. k |-> g[j]]
    OBVIOUS
  <2> HIDE DEF g, Turn
  <2>4. Run(g, k)
    BY <2>2, <2>3
  <2> HIDE DEF Run
  <2> QED
    BY <1>1, <2>4
<1> HIDE DEF Run
<1>6. N \in S
  <2> HIDE DEF S
  <2>1. 0 .. N \subseteq S
    BY <1>1, <1>4, <1>5, Induction, Zenon
  <2> QED
    BY <1>1, <2>1
<1>7. Run(walk, N)
  BY <1>6
<1> HIDE DEF walk
<1>8. \A k \in 0 .. N : walk[k] = Turn(walk[k - 1], k)
  <2> HIDE DEF Turn
  <2> QED
    BY <1>7 DEF Run
<1> DEFINE A == {k \in 0 .. N : Answering(c, walk[k])}
<1>9. 0 \in A
  <2>1. walk[0] = [v \in V |-> Problem(v.sofar)]
    <3>1. walk[0] = Turn(walk[0 - 1], 0)
      <4> HIDE DEF Turn
      <4> QED
        BY <1>1, <1>8
    <3> QED
      BY <1>3, <3>1, Zenon
  <2>2. ASSUME NEW v \in Visits(c)
        PROVE  Answers(c, v, walk[0][v])
    <3>1. walk[0][v] = Problem(v.sofar)
      BY <2>1 DEF V
    <3>2. Problem(v.sofar) \in Walked(Refs(c)) /\ ~Problem(v.sofar).sound
      BY MetIs
    <3> QED
      BY <3>1, <3>2 DEF Answers, Extends
  <2> QED
    BY <1>1, <2>2 DEF Answering
<1>10. ASSUME NEW k \in 1 .. N, k - 1 \in A
       PROVE  k \in A
  <2>1. k \in 0 .. N /\ k # 0 /\ Answering(c, walk[k - 1])
    BY <1>1, <1>10
  <2>2. walk[k] = [v \in V |-> Visit(c, walk[k - 1], v)]
    BY <1>8, <2>1
  <2>3. ASSUME NEW v \in Visits(c)
        PROVE  Answers(c, v, walk[k][v])
    <3>1. walk[k][v] = Visit(c, walk[k - 1], v)
      BY <2>2 DEF V
    <3> QED
      BY <2>1, <3>1, VisitAnswers
  <2> QED
    BY <2>1, <2>3 DEF Answering
<1>11. Answering(c, walk[N])
  <2> HIDE DEF A
  <2>1. 0 .. N \subseteq A
    BY <1>1, <1>9, <1>10, Induction, Zenon
  <2>2. N \in A
    BY <1>1, <2>1
  <2> QED
    BY <2>2 DEF A
<1>12. first \in Visits(c)
  BY DEF Visits, Known, Walked
<1>13. first.sofar.seen = {} /\ first.at = c.root
  OBVIOUS
<1> HIDE DEF first
<1>14. Answers(c, first, Walk(c))
  BY <1>2, <1>11, <1>12 DEF Answering
<1> QED
  BY <1>13, <1>14 DEF Answers, Extends, Walked

-----------------------------------------------------------------------------
(* What a document refers to, and the holes in it.                          *)

Direct(d) == {r \in {d.instances[i].source : i \in DOMAIN d.instances} \cup d.locals : Keyable(r)}

Reached(d) == collectReferencedSnapshotKeys(d)

ClosedUnder(registry, K) == \A q \in K : Needs(registry, q) \subseteq K

LEMMA ReachIs ==
  ASSUME NEW d
  PROVE  /\ Direct(d) \subseteq Reached(d)
         /\ ClosedUnder(d.registry, Reached(d))
         /\ \A K : Direct(d) \subseteq K /\ ClosedUnder(d.registry, K) => Reached(d) \subseteq K
<1> DEFINE refs == Direct(d) \cup UNION {Needs(d.registry, r) : r \in DOMAIN d.registry}
           Closed(K) == Direct(d) \subseteq K /\ \A q \in K : Needs(d.registry, q) \subseteq K
           C == {r \in refs : \A K \in SUBSET refs : Closed(K) => r \in K}
<1>1. Reached(d) = C
  BY DEF Reached, collectReferencedSnapshotKeys, Direct
<1>2. \A q : Needs(d.registry, q) \subseteq refs
  <2> TAKE q
  <2>1. q \notin DOMAIN d.registry => Needs(d.registry, q) = {}
    BY DEF Needs
  <2> QED
    BY <2>1
<1>3. Direct(d) \subseteq C
  OBVIOUS
<1>4. ClosedUnder(d.registry, C)
  <2> SUFFICES ASSUME NEW q \in C, NEW r \in Needs(d.registry, q)
               PROVE  r \in C
    BY DEF ClosedUnder
  <2> QED
    BY <1>2
<1>5. ASSUME NEW K, Direct(d) \subseteq K, ClosedUnder(d.registry, K)
      PROVE  C \subseteq K
  <2>1. K \cap refs \in SUBSET refs
    OBVIOUS
  <2>2. Closed(K \cap refs)
    BY <1>2, <1>5 DEF ClosedUnder
  <2> QED
    BY <2>1, <2>2
<1> HIDE DEF C
<1> QED
  BY <1>1, <1>3, <1>4, <1>5

LEMMA HolesAre ==
  ASSUME NEW d
  PROVE  Holes(d) = Reached(d) \ DOMAIN d.registry
BY DEF Holes, Reached

(* The same references, and a registry without what none of them reaches.   *)
LEMMA CollectingHoles ==
  ASSUME NEW d, NEW e, Direct(e) = Direct(d), NEW gone, gone \cap Reached(d) = {},
         e.registry = Without(d.registry, gone)
  PROVE  Holes(e) \subseteq Holes(d)
<1>1. /\ DOMAIN e.registry = DOMAIN d.registry \ gone
      /\ \A r \in DOMAIN d.registry \ gone : e.registry[r] = d.registry[r]
  BY DEF Without
<1>2. \A q : Needs(e.registry, q) \subseteq Needs(d.registry, q)
  BY <1>1 DEF Needs
<1>3. Direct(d) \subseteq Reached(d) /\ ClosedUnder(d.registry, Reached(d))
  BY ReachIs
<1>4. ClosedUnder(e.registry, Reached(d))
  BY <1>2, <1>3 DEF ClosedUnder
<1>5. Reached(e) \subseteq Reached(d)
  BY <1>3, <1>4, ReachIs
<1> QED
  BY <1>1, <1>5, HolesAre

LEMMA SameHoles ==
  ASSUME NEW d, NEW e, Direct(e) = Direct(d), e.registry = d.registry
  PROVE  Holes(e) = Holes(d)
<1>1. Reached(e) \subseteq Reached(d)
  BY ReachIs
<1>2. Reached(d) \subseteq Reached(e)
  BY ReachIs
<1> QED
  BY <1>1, <1>2, HolesAre

(* The snapshots of a candidate's closure are looked up where they will be  *)
(* stored.                                                                  *)
Lookup(d, s, P) == [root |-> s, found |-> Over(ByRef(P), Given({d.registry}, EmptyMap)),
                    present |-> {d.registry} # Nothing \/ P # {}]

LEMMA LookupIs ==
  ASSUME NEW d, Snapshots(d.registry), NEW P, \A x \in P : Published(x), NEW s \in P
  PROVE  LET c == Lookup(d, s, P)
         IN  /\ Walkable(c) /\ c.root = s
             /\ Refs(c) = DOMAIN Merged(d.registry, P)
             /\ \A r \in DOMAIN Merged(d.registry, P) : Merged(d.registry, P)[r] \in Known(c)
             /\ Closure(s, {d.registry}, P) = Walk(c)
<1> DEFINE c == Lookup(d, s, P)
           M == Merged(d.registry, P)
           found == Over(ByRef(P), d.registry)
<1>1. Given({d.registry}, EmptyMap) = d.registry
  BY DEF Given
<1>2. Closure(s, {d.registry}, P) = Walk(c)
  BY Zenon DEF Closure, Lookup
<1>3. c.root = s /\ c.found = found /\ c.present = TRUE
  BY <1>1 DEF Lookup, Nothing
<1>4. \A r \in {x.ref : x \in P} : ByRef(P)[r] \in P /\ ByRef(P)[r].ref = r
  BY DEF ByRef
<1>5. /\ DOMAIN found = {x.ref : x \in P} \cup DOMAIN d.registry
      /\ \A r \in {x.ref : x \in P} : found[r] = ByRef(P)[r]
      /\ \A r \in DOMAIN d.registry : r \notin {x.ref : x \in P} => found[r] = d.registry[r]
  BY DEF Over, ByRef
<1>6. \A r \in DOMAIN d.registry : Published(d.registry[r]) /\ d.registry[r].ref = r
  BY DEF Snapshots
<1> HIDE DEF found, c
<1>7. \A r \in DOMAIN found : Published(found[r]) /\ found[r].ref = r
  BY <1>4, <1>5, <1>6
<1>8. Known(c) = {s} \cup {found[r] : r \in DOMAIN found}
  BY <1>3 DEF Known, Range
<1>9. Walkable(c)
  BY <1>3, <1>7, <1>8 DEF Walkable
<1>10. Snapshots(M) /\ DOMAIN M = DOMAIN d.registry \cup {x.ref : x \in P}
  BY MergedIs, Zenon
<1>11. Refs(c) = DOMAIN M
  <2>1. Refs(c) = {s.ref} \cup DOMAIN found
    BY <1>7, <1>8 DEF Refs
  <2> QED
    BY <1>5, <1>10, <2>1
<1>12. \A r \in DOMAIN M : M[r] \in Known(c)
  <2> TAKE r \in DOMAIN M
  <2>1. r \in DOMAIN found /\ Published(found[r]) /\ found[r].ref = r
    BY <1>5, <1>7, <1>10
  <2>2. Published(M[r]) /\ M[r].ref = r
    BY <1>10 DEF Snapshots
  <2>3. M[r] = found[r]
    BY <2>1, <2>2, SameSnapshot
  <2> QED
    BY <1>8, <2>1, <2>3
<1> QED
  BY <1>2, <1>3, <1>9, <1>11, <1>12 DEF c

(* A closure is stored with its root: what refers to it finds all of it.    *)
LEMMA StoringHoles ==
  ASSUME NEW d, Snapshots(d.registry), NEW P, \A x \in P : Published(x), NEW s \in P,
         Closure(s, {d.registry}, P).sound,
         \A x \in P : x.ref \notin Holes(d) \ Closure(s, {d.registry}, P).seen,
         NEW e, e.registry = Merged(d.registry, P),
         Direct(e) \subseteq Direct(d) \cup {s.ref}
  PROVE  Holes(e) \subseteq Holes(d)
<1> DEFINE c == Lookup(d, s, P)
           T == Closure(s, {d.registry}, P).seen
           M == Merged(d.registry, P)
           K == Reached(d) \cup T
<1>1. /\ Walkable(c) /\ c.root = s /\ Refs(c) = DOMAIN M
      /\ \A r \in DOMAIN M : M[r] \in Known(c)
      /\ Closure(s, {d.registry}, P) = Walk(c)
  BY LookupIs
<1>2. Snapshots(M) /\ DOMAIN M = DOMAIN d.registry \cup {x.ref : x \in P}
      /\ \A r \in DOMAIN d.registry : M[r] = d.registry[r]
  BY MergedIs, Zenon
<1>3. T \subseteq DOMAIN M /\ s.ref \in T /\ \A x \in Known(c) : x.ref \in T => Lives(x) \subseteq T
  <2> HIDE DEF c
  <2> QED
    BY <1>1, WalkAnswers
<1>4. \A x \in P : x.ref \notin Holes(d) \ T
  OBVIOUS
<1> HIDE DEF c, T, M
<1>5. \A q \in T : Needs(M, q) \subseteq T
  <2> TAKE q \in T
  <2>1. q \in DOMAIN M /\ M[q] \in Known(c) /\ M[q].ref = q
    BY <1>1, <1>2, <1>3 DEF Snapshots
  <2>2. Lives(M[q]) \subseteq T
    BY <1>3, <2>1
  <2> QED
    BY <2>2 DEF Needs, Lives
<1>6. \A q \in Reached(d) : Needs(M, q) \subseteq K
  <2> TAKE q \in Reached(d)
  <2>1. CASE q \in DOMAIN d.registry
    <3>1. Needs(M, q) = Needs(d.registry, q)
      BY <1>2, <2>1 DEF Needs
    <3> QED
      BY <3>1, ReachIs DEF ClosedUnder
  <2>2. CASE q \notin DOMAIN d.registry /\ q \in DOMAIN M
    <3>1. q \in Holes(d) /\ \E x \in P : x.ref = q
      BY <1>2, <2>2, HolesAre
    <3>2. q \in T
      BY <1>4, <3>1
    <3> QED
      BY <1>5, <3>2
  <2>3. CASE q \notin DOMAIN M
    BY <2>3 DEF Needs
  <2> QED
    BY <2>1, <2>2, <2>3
<1>7. ClosedUnder(e.registry, K)
  BY <1>5, <1>6 DEF ClosedUnder, M
<1>8. Direct(e) \subseteq K
  BY <1>3, ReachIs
<1> HIDE DEF K
<1>9. Reached(e) \subseteq K
  BY <1>7, <1>8, ReachIs
<1>10. DOMAIN e.registry = DOMAIN M
  BY DEF M
<1> QED
  BY <1>2, <1>3, <1>9, <1>10, HolesAre DEF K

(* The hosts store no snapshot beside a candidate's closure that the        *)
(* document refers to without having it.                                    *)
Watchful == "beside" \notin Careless

(* No submitted command opens a hole.                                       *)
LEMMA SubmittedHoles ==
  ASSUME Stocked, Watchful, NEW t \in plan.offers, NEW c \in Offers(t, doc), Careful(doc, c),
         NEW r \in Apply(plan.denied, doc, c)
  PROVE  Holes(r[1]) \subseteq Holes(doc)
<1> DEFINE P == Pending(c)
           e == r[1]
<1>1. /\ IsDocument(doc) /\ Snapshots(doc.registry) /\ Placements(doc.instances)
      /\ c.type \in {"insert", "update", "swap", "set-variant", "collect", "recover"}
  BY Offered, DocumentIs DEF Stocked
<1>2. ASSUME c.type \in {"insert", "update", "swap", "recover"},
             validateExternalClosure(c.candidate, {doc.registry}, P),
             e.registry = Merged(doc.registry, P), Direct(e) \subseteq Direct(doc) \cup {c.candidate.ref}
      PROVE  Holes(e) \subseteq Holes(doc)
  <2>1. "dependencies" \in DOMAIN c /\ \A s \in P : Published(s)
    BY <1>2, Offered
  <2>2. c.candidate \in P
    BY DEF Pending
  <2>3. Closure(c.candidate, {doc.registry}, P).sound
    BY <1>2 DEF validateExternalClosure
  <2> DEFINE T == Closure(c.candidate, {doc.registry}, P).seen
  <2>4. \A s \in c.dependencies : s.ref \notin Holes(doc) \ T
    BY <2>1 DEF Careful, Watchful, Pending
  <2>5. c.candidate.ref \in T
    <3> HIDE DEF P
    <3> DEFINE s == c.candidate
               l == Lookup(doc, s, P)
    <3> HIDE DEF s
    <3>1. Snapshots(doc.registry) /\ s \in P /\ \A x \in P : Published(x)
      BY <1>1, <2>1, <2>2 DEF s
    <3>2. Walkable(l) /\ l.root = s /\ Closure(s, {doc.registry}, P) = Walk(l)
      BY <3>1, LookupIs
    <3> HIDE DEF l
    <3> QED
      BY <2>3, <3>2, WalkAnswers DEF s
  <2>6. \A s \in P : s.ref \notin Holes(doc) \ T
    BY <2>4, <2>5 DEF Pending
  <2> HIDE DEF P, e
  <2> QED
    BY <1>1, <1>2, <2>1, <2>2, <2>3, <2>6, StoringHoles
<1>3. CASE c.type = "insert"
  <2> DEFINE x == [source |-> c.source, overrides |-> c.overrides, selection |-> Nothing]
  <2>1. Inserts(plan.denied, doc, c) /\ e = Inserted(doc, c)
    BY <1>1, <1>3, InsertIs
  <2>2. /\ e.instances = Over(Entry(c.instance, x), doc.instances)
        /\ e.registry = Merged(doc.registry, P) /\ e.locals = doc.locals
    BY <2>1, PartsOf DEF Inserted
  <2>3. x.source = c.candidate.ref
    BY <2>1 DEF Inserts
  <2> HIDE DEF x, e
  <2>4. \A i \in DOMAIN e.instances : \/ e.instances[i].source = c.candidate.ref
                                      \/ i \in DOMAIN doc.instances /\ e.instances[i] = doc.instances[i]
    BY <2>2, <2>3 DEF Over, Entry
  <2>5. Direct(e) \subseteq Direct(doc) \cup {c.candidate.ref}
    BY <2>2, <2>4 DEF Direct
  <2> QED
    BY <1>2, <1>3, <2>1, <2>2, <2>5 DEF Inserts, e
<1>4. CASE c.type \in {"update", "swap"}
  <2>1. Changes(plan.denied, doc, c) /\ e = Changed(doc, c)
    BY <1>1, <1>4, ChangeIs
  <2>2. /\ e.instances = RetargetedAll(doc, c)
        /\ e.registry = Merged(doc.registry, P) /\ e.locals = doc.locals
    BY <2>1, PartsOf DEF Changed
  <2>3. \A i \in DOMAIN doc.instances : Retargeted(doc, c, doc.instances[i]).source = c.candidate.ref
    <3> TAKE i \in DOMAIN doc.instances
    <3>1. Retargeted(doc, c, doc.instances[i]) = Updated(doc, c, doc.instances[i])
      BY <1>1, RetargetedIs DEF Placements
    <3> QED
      BY <3>1 DEF Updated
  <2> HIDE DEF e
  <2>4. \A i \in DOMAIN e.instances : \/ e.instances[i].source = c.candidate.ref
                                      \/ i \in DOMAIN doc.instances /\ e.instances[i] = doc.instances[i]
    BY <2>2, <2>3 DEF RetargetedAll
  <2>5. Direct(e) \subseteq Direct(doc) \cup {c.candidate.ref}
    BY <2>2, <2>4 DEF Direct
  <2> QED
    BY <1>2, <1>4, <2>1, <2>2, <2>5 DEF Changes, e
<1>5. CASE c.type = "recover"
  <2>1. Recovers(doc, c) /\ e = Recovered(doc, c)
    BY <1>1, <1>5, RecoverIs
  <2>2. e.instances = doc.instances /\ e.registry = Merged(doc.registry, P) /\ e.locals = doc.locals
    BY <2>1, PartsOf DEF Recovered
  <2>3. Direct(e) \subseteq Direct(doc)
    BY <2>2 DEF Direct
  <2> QED
    BY <1>2, <1>5, <2>1, <2>2, <2>3 DEF Recovers
<1>6. CASE c.type = "collect"
  <2> DEFINE gone == previewCollectUnused(doc, c.retained)
  <2>1. e = Doc(doc.instances, Without(doc.registry, gone), doc.locals)
    BY <1>1, <1>6, CollectIs
  <2>2. gone \cap Reached(doc) = {}
    BY DEF previewCollectUnused, Reached
  <2> HIDE DEF gone
  <2>3. e.instances = doc.instances /\ e.registry = Without(doc.registry, gone) /\ e.locals = doc.locals
    BY <2>1, PartsOf
  <2> HIDE DEF e
  <2>4. Direct(e) = Direct(doc)
    BY <2>3 DEF Direct
  <2> QED
    BY <2>2, <2>3, <2>4, CollectingHoles DEF e
<1>7. CASE c.type = "set-variant"
  <2> DEFINE y == Shown(doc, c, doc.instances[c.instance])
  <2>1. CanShow(doc, c) /\ e = VariantShown(doc, c)
    BY <1>1, <1>7, SetVariantIs
  <2>2. /\ e.instances = Over(Entry(c.instance, y), doc.instances)
        /\ e.registry = doc.registry /\ e.locals = doc.locals
    BY <2>1, PartsOf DEF VariantShown
  <2>3. y.source = doc.instances[c.instance].source /\ c.instance \in DOMAIN doc.instances
    BY <2>1 DEF Shown, CanShow
  <2> HIDE DEF e, y
  <2>4. /\ DOMAIN e.instances = DOMAIN doc.instances
        /\ \A i \in DOMAIN doc.instances : e.instances[i].source = doc.instances[i].source
    BY <2>2, <2>3 DEF Over, Entry
  <2>5. Direct(e) = Direct(doc)
    BY <2>2, <2>4 DEF Direct
  <2> QED
    BY <2>2, <2>5, SameHoles DEF e
<1> QED
  BY <1>1, <1>3, <1>4, <1>5, <1>6, <1>7

-----------------------------------------------------------------------------
(* One host: its stacks are the line of the versions before and after.      *)

Linked(den, d, e, i, c) ==
    Toggles(den, d, e, i, c) /\ (Watchful => Holes(e) \subseteq Holes(d))

(* On the side of undo a version lies before the one it is next to, on the  *)
(* side of redo after it; x is the entry that leads to it.                  *)
Tied(den, side, near, far, x) ==
    IF side = "undo" THEN \E c : Linked(den, far, near, x, c)
    ELSE \E i : Linked(den, near, far, i, x)

At(d, versions, k) == IF k = 0 THEN d ELSE versions[k]

Chain(den, side, d, versions, entries) ==
    /\ IsSeq(versions) /\ IsSeq(entries) /\ Len(versions) = Len(entries)
    /\ \A k \in 1 .. Len(versions) : Tied(den, side, At(d, versions, k - 1), versions[k], entries[k])

LEMMA ChainGrows ==
  ASSUME NEW den, NEW side, NEW d, NEW V, NEW E, Chain(den, side, d, V, E), NEW e, NEW x, Tied(den, side, e, d, x)
  PROVE  Chain(den, side, e, <<d>> \o V, <<x>> \o E)
<1> DEFINE W == <<d>> \o V
           F == <<x>> \o E
           n == Len(V)
<1>1. IsSeq(V) /\ IsSeq(E) /\ n = Len(E)
      /\ \A k \in 1 .. n : Tied(den, side, At(d, V, k - 1), V[k], E[k])
  BY DEF Chain
<1>2. /\ n \in Nat /\ IsSeq(W) /\ Len(W) = n + 1 /\ W[1] = d
      /\ \A k \in 2 .. n + 1 : W[k] = V[k - 1]
  BY <1>1, Pushed, ZenonT(60)
<1>3. /\ IsSeq(F) /\ Len(F) = n + 1 /\ F[1] = x
      /\ \A k \in 2 .. n + 1 : F[k] = E[k - 1]
  <2>1. /\ IsSeq(F) /\ Len(F) = Len(E) + 1 /\ F[1] = x
        /\ \A k \in 2 .. Len(E) + 1 : F[k] = E[k - 1]
    BY <1>1, Pushed, SMTT(60)
  <2> HIDE DEF F, n
  <2> QED
    BY <1>1, <2>1
<1> HIDE DEF W, F, n
<1>4. \A k \in 1 .. Len(W) : Tied(den, side, At(e, W, k - 1), W[k], F[k])
  <2> TAKE k \in 1 .. Len(W)
  <2>1. CASE k = 1
    BY <1>2, <1>3, <2>1 DEF At
  <2>2. CASE k # 1
    <3>1. k \in 2 .. n + 1 /\ k - 1 \in 1 .. n /\ k - 1 # 0
      BY <1>2, <2>2
    <3>2. W[k] = V[k - 1] /\ F[k] = E[k - 1]
      BY <1>2, <1>3, <3>1
    <3>3. At(e, W, k - 1) = W[k - 1]
      BY <3>1 DEF At
    <3>4. W[k - 1] = At(d, V, (k - 1) - 1)
      <4>1. CASE k = 2
        BY <1>2, <4>1 DEF At
      <4>2. CASE k # 2
        <5>1. k - 1 \in 2 .. n + 1 /\ (k - 1) - 1 # 0
          BY <1>2, <3>1, <4>2
        <5> QED
          BY <1>2, <5>1 DEF At
      <4> QED
        BY <4>1, <4>2
    <3> QED
      BY <1>1, <3>1, <3>2, <3>3, <3>4
  <2> QED
    BY <2>1, <2>2
<1>5. Chain(den, side, e, W, F)
  BY <1>2, <1>3, <1>4 DEF Chain
<1> QED
  BY <1>5 DEF W, F

LEMMA ChainShrinks ==
  ASSUME NEW den, NEW side, NEW d, NEW V, NEW E, Chain(den, side, d, V, E), E # <<>> \/ V # <<>>
  PROVE  /\ V # <<>> /\ E # <<>> /\ Tied(den, side, d, Head(V), Head(E))
         /\ Chain(den, side, Head(V), Tail(V), Tail(E))
<1> DEFINE n == Len(V)
<1>1. IsSeq(V) /\ IsSeq(E) /\ n = Len(E)
      /\ \A k \in 1 .. n : Tied(den, side, At(d, V, k - 1), V[k], E[k])
  BY DEF Chain
<1>2. V # <<>> /\ E # <<>>
  <2>1. V = <<>> => n = 0
    BY NoEntry
  <2>2. E = <<>> => n = 0
    BY <1>1, NoEntry
  <2>3. V # <<>> => n # 0
    BY <1>1, Popped
  <2>4. E # <<>> => n # 0
    BY <1>1, Popped
  <2> QED
    BY <2>1, <2>2, <2>3, <2>4
<1>3. /\ IsSeq(Tail(V)) /\ n \in Nat \ {0} /\ Len(Tail(V)) = n - 1 /\ Head(V) = V[1]
      /\ \A k \in 1 .. n - 1 : Tail(V)[k] = V[k + 1]
  BY <1>1, <1>2, Popped, Zenon
<1>4. /\ IsSeq(Tail(E)) /\ Len(Tail(E)) = n - 1 /\ Head(E) = E[1]
      /\ \A k \in 1 .. n - 1 : Tail(E)[k] = E[k + 1]
  <2>1. /\ IsSeq(Tail(E)) /\ Len(Tail(E)) = Len(E) - 1 /\ Head(E) = E[1]
        /\ \A k \in 1 .. Len(E) - 1 : Tail(E)[k] = E[k + 1]
    BY <1>1, <1>2, Popped, Zenon
  <2> HIDE DEF n
  <2> QED
    BY <1>1, <2>1
<1> DEFINE W == Tail(V)
           F == Tail(E)
<1> HIDE DEF n, W, F
<1>5. Tied(den, side, d, Head(V), Head(E))
  <2>1. 1 \in 1 .. n /\ At(d, V, 1 - 1) = d
    BY <1>3 DEF At
  <2> QED
    BY <1>1, <1>3, <1>4, <2>1
<1>6. \A k \in 1 .. n - 1 : Tied(den, side, At(Head(V), W, k - 1), W[k], F[k])
  <2> TAKE k \in 1 .. n - 1
  <2>1. k + 1 \in 1 .. n /\ (k + 1) - 1 = k /\ k # 0
    BY <1>3
  <2>2. W[k] = V[k + 1] /\ F[k] = E[k + 1]
    BY <1>3, <1>4 DEF W, F
  <2>3. At(d, V, k) = V[k]
    BY <2>1 DEF At
  <2>4. At(Head(V), W, k - 1) = V[k]
    <3>1. CASE k = 1
      BY <1>3, <3>1 DEF At
    <3>2. CASE k # 1
      <4>1. k - 1 \in 1 .. n - 1 /\ (k - 1) + 1 = k /\ k - 1 # 0
        BY <1>3, <3>2
      <4> QED
        BY <1>3, <4>1 DEF At, W
    <3> QED
      BY <3>1, <3>2
  <2>5. Tied(den, side, At(d, V, (k + 1) - 1), V[k + 1], E[k + 1])
    BY <1>1, <2>1
  <2> QED
    BY <2>1, <2>2, <2>3, <2>4, <2>5
<1>7. Chain(den, side, Head(V), W, F)
  BY <1>3, <1>4, <1>6 DEF Chain, W, F
<1> QED
  BY <1>2, <1>5, <1>7 DEF W, F

LEMMA NoChain == ASSUME NEW den, NEW side, NEW d PROVE Chain(den, side, d, <<>>, <<>>)
BY NoEntry DEF Chain

(* The inductive invariant for one host h: each stack leads, entry by       *)
(* entry, along the versions that lie before or after the document.         *)
Lined(h) ==
    /\ Chain(plan.denied, "undo", doc, past, undo[h])
    /\ Chain(plan.denied, "redo", doc, future, redo[h])

LEMMA SubmitLines ==
  ASSUME Stocked, Attentive, NEW h, Host = {h}, Lined(h), Submit(h)
  PROVE  Lined(h)' /\ (Watchful => Holes(doc') \subseteq Holes(doc))
<1>1. PICK t \in plan.offers : \E c \in Offers(t, doc) :
         Careful(doc, c) /\ \E r \in Apply(plan.denied, doc, c) : doc' = r[1] /\ undo' = [undo EXCEPT ![h] = <<r[2]>> \o @]
  BY DEF Submit
<1>2. PICK c \in Offers(t, doc) :
         Careful(doc, c) /\ \E r \in Apply(plan.denied, doc, c) : doc' = r[1] /\ undo' = [undo EXCEPT ![h] = <<r[2]>> \o @]
  BY <1>1
<1>3. PICK r \in Apply(plan.denied, doc, c) : doc' = r[1] /\ undo' = [undo EXCEPT ![h] = <<r[2]>> \o @]
  BY <1>2
<1>4. redo' = [redo EXCEPT ![h] = <<>>] /\ past' = <<doc>> \o past /\ future' = <<>> /\ plan' = plan
  BY DEF Submit
<1>5. undo'[h] = <<r[2]>> \o undo[h] /\ redo'[h] = <<>>
  <2>1. undo = [x \in Host |-> undo[x]] /\ redo = [x \in Host |-> redo[x]] /\ h \in Host
    BY DEF Stocked, Stacks
  <2> QED
    BY <1>3, <1>4, <2>1
<1>6. PICK c1 : Toggles(plan.denied, doc, r[1], r[2], c1)
  BY <1>2, SubmitToggles
<1>7. Watchful => Holes(r[1]) \subseteq Holes(doc)
  BY <1>2, SubmittedHoles
<1>8. Tied(plan.denied, "undo", r[1], doc, r[2])
  BY <1>6, <1>7 DEF Tied, Linked
<1>9. Chain(plan.denied, "undo", r[1], <<doc>> \o past, <<r[2]>> \o undo[h])
  BY <1>8, ChainGrows DEF Lined
<1>10. Chain(plan.denied, "redo", r[1], <<>>, <<>>)
  BY NoChain
<1>11. Lined(h)'
  BY <1>3, <1>4, <1>5, <1>9, <1>10 DEF Lined
<1> QED
  BY <1>3, <1>7, <1>11

LEMMA UndoLines ==
  ASSUME Stocked, NEW h, Host = {h}, Lined(h), Undo(h)
  PROVE  /\ Lined(h)' /\ past # <<>> /\ doc' = Head(past) /\ Len(undo'[h]) = Len(undo[h]) - 1
         /\ Len(undo[h]) \in Nat
<1>1. PICK r \in Apply(plan.denied, doc, Head(undo[h])) : doc' = r[1] /\ redo' = [redo EXCEPT ![h] = <<r[2]>> \o @]
  BY DEF Undo
<1>2. /\ undo[h] # <<>> /\ undo' = [undo EXCEPT ![h] = Tail(@)] /\ past' = Tail(past) /\ future' = <<doc>> \o future
      /\ plan' = plan
  BY DEF Undo
<1>3. undo'[h] = Tail(undo[h]) /\ redo'[h] = <<r[2]>> \o redo[h]
  <2>1. undo = [x \in Host |-> undo[x]] /\ redo = [x \in Host |-> redo[x]] /\ h \in Host
    BY DEF Stocked, Stacks
  <2> QED
    BY <1>1, <1>2, <2>1
<1>4. /\ past # <<>> /\ Tied(plan.denied, "undo", doc, Head(past), Head(undo[h]))
      /\ Chain(plan.denied, "undo", Head(past), Tail(past), Tail(undo[h]))
  BY <1>2, ChainShrinks DEF Lined
<1>5. PICK c : Linked(plan.denied, Head(past), doc, Head(undo[h]), c)
  BY <1>4 DEF Tied
<1>6. r[1] = Head(past) /\ r[2] = c
  <2>1. r \in {<<Head(past), c>>}
    BY <1>5 DEF Linked, Toggles
  <2> QED
    BY <2>1
<1>7. Tied(plan.denied, "redo", Head(past), doc, c)
  BY <1>5 DEF Tied
<1>8. Chain(plan.denied, "redo", Head(past), <<doc>> \o future, <<c>> \o redo[h])
  BY <1>7, ChainGrows DEF Lined
<1>9. Lined(h)'
  BY <1>1, <1>2, <1>3, <1>4, <1>6, <1>8 DEF Lined
<1>10. Len(Tail(undo[h])) = Len(undo[h]) - 1 /\ Len(undo[h]) \in Nat
  BY <1>2, Popped DEF Lined, Chain
<1> QED
  BY <1>1, <1>3, <1>4, <1>6, <1>9, <1>10

LEMMA RedoLines ==
  ASSUME Stocked, NEW h, Host = {h}, Lined(h), Redo(h)
  PROVE  /\ Lined(h)' /\ future # <<>> /\ doc' = Head(future) /\ future' = Tail(future)
         /\ (Watchful => Holes(doc') \subseteq Holes(doc))
<1>1. PICK r \in Apply(plan.denied, doc, Head(redo[h])) : doc' = r[1] /\ undo' = [undo EXCEPT ![h] = <<r[2]>> \o @]
  BY DEF Redo
<1>2. /\ redo[h] # <<>> /\ redo' = [redo EXCEPT ![h] = Tail(@)] /\ past' = <<doc>> \o past
      /\ future' = (IF future = <<>> THEN <<>> ELSE Tail(future)) /\ plan' = plan
  BY DEF Redo
<1>3. redo'[h] = Tail(redo[h]) /\ undo'[h] = <<r[2]>> \o undo[h]
  <2>1. undo = [x \in Host |-> undo[x]] /\ redo = [x \in Host |-> redo[x]] /\ h \in Host
    BY DEF Stocked, Stacks
  <2> QED
    BY <1>1, <1>2, <2>1
<1>4. /\ future # <<>> /\ Tied(plan.denied, "redo", doc, Head(future), Head(redo[h]))
      /\ Chain(plan.denied, "redo", Head(future), Tail(future), Tail(redo[h]))
  BY <1>2, ChainShrinks DEF Lined
<1>5. PICK i : Linked(plan.denied, doc, Head(future), i, Head(redo[h]))
  BY <1>4 DEF Tied
<1>6. r[1] = Head(future) /\ r[2] = i
  <2>1. r \in {<<Head(future), i>>}
    BY <1>5 DEF Linked, Toggles
  <2> QED
    BY <2>1
<1>7. Tied(plan.denied, "undo", Head(future), doc, i)
  BY <1>5 DEF Tied
<1>8. Chain(plan.denied, "undo", Head(future), <<doc>> \o past, <<i>> \o undo[h])
  BY <1>7, ChainGrows DEF Lined
<1>9. Lined(h)'
  BY <1>1, <1>2, <1>3, <1>4, <1>6, <1>8 DEF Lined
<1>10. Watchful => Holes(Head(future)) \subseteq Holes(doc)
  BY <1>5 DEF Linked
<1> QED
  BY <1>1, <1>2, <1>4, <1>6, <1>9, <1>10

LEMMA AdmissionLines ==
  ASSUME NEW h, Lined(h), NEW e, Admit(e) \/ Settle(e) \/ Resume(e) \/ Report(e)
  PROVE  Lined(h)' /\ UNCHANGED <<doc, past, future, undo, redo>>
<1>1. /\ doc' = doc /\ undo' = undo /\ redo' = redo /\ plan' = plan /\ past' = past /\ future' = future
  BY DEF Admit, Settle, Resume, Report, editVars
<1> QED
  BY <1>1 DEF Lined

LEMMA InitLines ==
  ASSUME NEW h, Host = {h}
  PROVE  Init => Lined(h)
<1> SUFFICES ASSUME Init
             PROVE  Lined(h)
  OBVIOUS
<1>1. undo[h] = <<>> /\ redo[h] = <<>> /\ past = <<>> /\ future = <<>>
  BY DEF Init
<1> QED
  BY <1>1, NoChain DEF Lined

(* One step: the line goes on, along LinearHistory, and no hole is opened   *)
(* by what a host submits or redoes.                                        *)
LEMMA NextLines ==
  ASSUME Attentive, NEW h, Host = {h}, Stocked, Lined(h), [Next]_vars
  PROVE  /\ Lined(h)' /\ [Line!Next]_(Line!line)
         /\ Watchful /\ redo'[h] = <<>> /\ Len(undo'[h]) > Len(undo[h]) => Holes(doc') \subseteq Holes(doc)
<1>1. CASE UNCHANGED vars
  <2>1. UNCHANGED <<plan, doc, past, future, undo, redo>>
    BY <1>1 DEF vars
  <2> QED
    BY <2>1 DEF Lined, Line!line
<1>2. CASE \E e \in DOMAIN admission : Admit(e) \/ Settle(e) \/ Resume(e) \/ Report(e)
  <2>1. Lined(h)' /\ UNCHANGED <<doc, past, future, undo, redo>>
    BY <1>2, AdmissionLines
  <2> QED
    BY <2>1 DEF Line!line
<1>3. CASE Submit(h)
  <2>1. Lined(h)' /\ (Watchful => Holes(doc') \subseteq Holes(doc))
    BY <1>3, SubmitLines
  <2>2. past' = <<doc>> \o past /\ future' = <<>>
    BY <1>3 DEF Submit
  <2> QED
    BY <2>1, <2>2 DEF Line!Next, Line!Change
<1>4. CASE Undo(h)
  <2>1. /\ Lined(h)' /\ past # <<>> /\ doc' = Head(past) /\ Len(undo'[h]) = Len(undo[h]) - 1
        /\ Len(undo[h]) \in Nat
    BY <1>4, UndoLines
  <2>2. past' = Tail(past) /\ future' = <<doc>> \o future
    BY <1>4 DEF Undo
  <2> QED
    BY <2>1, <2>2 DEF Line!Next, Line!Undo
<1>5. CASE Redo(h)
  <2>1. /\ Lined(h)' /\ future # <<>> /\ doc' = Head(future) /\ future' = Tail(future)
        /\ (Watchful => Holes(doc') \subseteq Holes(doc))
    BY <1>5, RedoLines
  <2>2. past' = <<doc>> \o past
    BY <1>5 DEF Redo
  <2> QED
    BY <2>1, <2>2 DEF Line!Next, Line!Redo
<1> QED
  BY <1>1, <1>2, <1>3, <1>4, <1>5 DEF Next

LEMMA HeadsApply ==
  ASSUME NEW h, Host = {h}, Lined(h)
  PROVE  UndoApplies
<1>1. ASSUME undo[h] # <<>>
      PROVE  Apply(plan.denied, doc, Head(undo[h])) # Refused
  <2>1. Tied(plan.denied, "undo", doc, Head(past), Head(undo[h]))
    BY <1>1, ChainShrinks DEF Lined
  <2> QED
    BY <2>1 DEF Tied, Linked, Toggles, Refused
<1>2. ASSUME redo[h] # <<>>
      PROVE  Apply(plan.denied, doc, Head(redo[h])) # Refused
  <2>1. Tied(plan.denied, "redo", doc, Head(future), Head(redo[h]))
    BY <1>2, ChainShrinks DEF Lined
  <2> QED
    BY <2>1 DEF Tied, Linked, Toggles, Refused
<1> QED
  BY <1>1, <1>2 DEF UndoApplies

-----------------------------------------------------------------------------

(* For a host that edits alone and sends no collection or change of variant *)
(* that is not exact: whatever it admits, inserts, updates, swaps, recovers *)
(* and collects, the newest entry of each of its stacks is accepted.        *)
THEOREM EntriesApply ==
  ASSUME NEW h, Host = {h}, Attentive
  PROVE  Spec => []UndoApplies
<1>1. Init => Stocked /\ Lined(h)
  BY InitStocks, InitLines
<1>2. Stocked /\ Lined(h) /\ [Next]_vars => Stocked' /\ Lined(h)'
  BY NextStocks, NextLines
<1>3. Lined(h) => UndoApplies
  BY HeadsApply
<1> QED
  BY <1>1, <1>2, <1>3, PTL DEF Spec

(* Its document and versions are a line along which undo and redo step back *)
(* and forth: an undone insert takes away the snapshots it added and none   *)
(* that it reused, an undone source change gives back the overrides, and a  *)
(* redone collection takes what it took before.                             *)
THEOREM HistoryIsALine ==
  ASSUME NEW h, Host = {h}, Attentive
  PROVE  Spec => ExactHistory
<1>1. Init => Stocked /\ Lined(h) /\ Line!Init
  <2>1. Init => Line!Init
    BY DEF Init, Line!Init
  <2> QED
    BY <2>1, InitStocks, InitLines
<1>2. Stocked /\ Lined(h) /\ [Next]_vars => Stocked' /\ Lined(h)' /\ [Line!Next]_(Line!line)
  BY NextStocks, NextLines
<1> QED
  BY <1>1, <1>2, PTL DEF Spec, ExactHistory, Line!Spec

(* NoNewHole of one step. *)
Filling ==
    (\E h \in Host : redo'[h] = <<>> /\ Len(undo'[h]) > Len(undo[h])) => Holes(doc') \subseteq Holes(doc)

(* And when it stores no snapshot beside a validated closure that fills a   *)
(* hole, no command it submits or redoes leaves a reference without its     *)
(* snapshot that had one before: what validateExternalClosure accepted is   *)
(* all that the candidate keeps alive, through any depth of dependencies    *)
(* and over snapshots stored before, and collect-unused takes none of it.   *)
THEOREM NoHoleOpens ==
  ASSUME NEW host, Host = {host}, Attentive, Watchful
  PROVE  Spec => NoNewHole
<1>1. Init => Stocked /\ Lined(host)
  BY InitStocks, InitLines
<1>2. Stocked /\ Lined(host) /\ [Next]_vars => Stocked' /\ Lined(host)'
  BY NextStocks, NextLines
<1>3. Stocked /\ Lined(host) /\ [Next]_vars => [Filling]_vars
  BY NextLines DEF Filling
<1>4. [][Filling]_vars => NoNewHole
  BY PTL DEF Filling, NoNewHole
<1> QED
  BY <1>1, <1>2, <1>3, <1>4, PTL DEF Spec

=============================================================================
