----------------------- MODULE ComponentReferences_proofs -----------------------
(***************************************************************************)
(* Proof about ComponentHistory, for one host: no instance is ever left     *)
(* without its definition.  A deletion is refused while anything refers to *)
(* the definition, but an undo that brings instances back is not checked:  *)
(* that their definition is there follows from the order of the stacks.    *)
(***************************************************************************)
EXTENDS ComponentHistory_proofs

-----------------------------------------------------------------------------
(* Every place refers to the definitions of D only.                          *)
At(D) == Place \X D

(* What refers to a definition finds it.                                     *)
Sound(d) == Within(At(Defined(d)), d)

(* The definitions that the instances a command brings refer to.             *)
Mentions(c) ==
    CASE c.type = "node.create" -> {n.of : n \in c.nodes} \ {Plain}
      [] c.type = "component.create" -> {n.of : n \in c.definition.tree} \ {Plain}
      [] OTHER -> {}

(* The definitions there are after a command of an inverse, D before it.     *)
Becomes(c, D) ==
    CASE c.type = "component.create" -> D \cup {c.component}
      [] c.type = "component.delete" -> D \ {c.component}
      [] OTHER -> D

(* W[k]: the definitions after k commands, which mention no other one.       *)
Course(cmds, W) ==
    \A k \in 1 .. Len(cmds) : W[k] = Becomes(cmds[k], W[k - 1]) /\ Mentions(cmds[k]) \subseteq W[k]

(* From the definitions D the commands lead to the definitions E.            *)
Carries(cmds, D, E) == \E W : W[0] = D /\ W[Len(cmds)] = E /\ Course(cmds, W)

(* A registry entry that is there is not the absence of one.                 *)
NoneIsNoSource == ~SourceForm(NoDefinition)

-----------------------------------------------------------------------------
(* Courses of commands.                                                      *)

LEMMA LenIs == \A s : IsSeq(s) => Len(s) \in Nat
BY DEF IsSeq

LEMMA CarriesOne ==
  ASSUME NEW c, NEW D, NEW E, E = Becomes(c, D), Mentions(c) \subseteq E
  PROVE  Carries(<<c>>, D, E)
<1> DEFINE W == [k \in 0 .. 1 |-> IF k = 0 THEN D ELSE E]
           s == <<c>>
<1>1. W[0] = D /\ W[1] = E
  OBVIOUS
<1>2. Len(s) = 1 /\ s[1] = c
  OBVIOUS
<1> HIDE DEF W, s
<1>3. Course(s, W)
  BY <1>1, <1>2 DEF Course
<1>4. Carries(s, D, E)
  BY <1>1, <1>2, <1>3 DEF Carries
<1> QED
  BY <1>4 DEF s

LEMMA CarriesNone ==
  ASSUME NEW D
  PROVE  Carries(<<>>, D, D)
<1> DEFINE W == [k \in {0} |-> D]
           s == <<>>
<1>1. W[0] = D /\ Len(s) = 0
  OBVIOUS
<1> HIDE DEF W, s
<1>2. Course(s, W)
  BY <1>1 DEF Course
<1>3. Carries(s, D, D)
  BY <1>1, <1>2 DEF Carries
<1> QED
  BY <1>3 DEF s

LEMMA CarriesJoin ==
  ASSUME NEW s, IsSeq(s), NEW t, IsSeq(t), NEW D, NEW E, NEW F,
         Carries(s, D, E), Carries(t, E, F)
  PROVE  Carries(s \o t, D, F)
<1> DEFINE m == Len(s)
           n == Len(t)
           u == s \o t
<1>1. PICK V : V[0] = D /\ V[m] = E /\ Course(s, V)
  BY DEF Carries
<1>2. PICK W : W[0] = E /\ W[n] = F /\ Course(t, W)
  BY DEF Carries
<1>3. m \in Nat /\ n \in Nat
  BY LenIs
<1>4. /\ Len(u) = m + n
      /\ \A k \in 1 .. m + n : u[k] = IF k <= m THEN s[k] ELSE t[k - m]
  BY DEF IsSeq
<1> DEFINE U == [k \in 0 .. m + n |-> IF k <= m THEN V[k] ELSE W[k - m]]
<1> HIDE DEF m, n, u
<1>5. U[0] = D /\ \A k \in 0 .. m : U[k] = V[k]
  BY <1>1, <1>3
<1>6. \A k \in 0 .. n : U[m + k] = W[k]
  <2> TAKE k \in 0 .. n
  <2>1. CASE k = 0
    BY <1>1, <1>2, <1>3, <2>1
  <2>2. CASE k # 0
    <3>1. m + k \in 0 .. m + n /\ ~(m + k <= m) /\ (m + k) - m = k
      BY <1>3, <2>2
    <3> QED
      BY <3>1
  <2> QED
    BY <2>1, <2>2
<1> HIDE DEF U
<1>7. Course(u, U)
  <2> SUFFICES ASSUME NEW k \in 1 .. m + n
               PROVE  U[k] = Becomes(u[k], U[k - 1]) /\ Mentions(u[k]) \subseteq U[k]
    BY <1>4 DEF Course
  <2>1. CASE k <= m
    <3>1. k \in 1 .. m /\ k \in 0 .. m /\ k - 1 \in 0 .. m
      BY <1>3, <2>1
    <3>2. V[k] = Becomes(s[k], V[k - 1]) /\ Mentions(s[k]) \subseteq V[k]
      BY <1>1, <3>1 DEF Course, m
    <3> QED
      BY <1>4, <1>5, <2>1, <3>1, <3>2
  <2>2. CASE ~(k <= m)
    <3> DEFINE j == k - m
    <3>1. j \in 1 .. n /\ j \in 0 .. n /\ j - 1 \in 0 .. n /\ m + j = k /\ m + (j - 1) = k - 1
      BY <1>3, <2>2
    <3>2. W[j] = Becomes(t[j], W[j - 1]) /\ Mentions(t[j]) \subseteq W[j]
      BY <1>2, <3>1 DEF Course, n
    <3>3. u[k] = t[j]
      BY <1>4, <2>2
    <3> HIDE DEF j
    <3>4. U[k] = W[j] /\ U[k - 1] = W[j - 1]
      BY <1>6, <3>1
    <3> QED
      BY <3>2, <3>3, <3>4
  <2> QED
    BY <2>1, <2>2
<1>8. U[m + n] = F
  BY <1>2, <1>3, <1>6
<1>9. Carries(u, D, F)
  BY <1>4, <1>5, <1>7, <1>8 DEF Carries
<1> QED
  BY <1>9 DEF u

(* Commands that add and delete no definition.                               *)
LEMMA CarriesSteady ==
  ASSUME NEW s, IsSeq(s), NEW D,
         \A c \in Range(s) : /\ c.type \notin {"component.create", "component.delete"}
                             /\ Mentions(c) \subseteq D
  PROVE  Carries(s, D, D)
<1> DEFINE n == Len(s)
           W == [k \in 0 .. n |-> D]
<1>1. n \in Nat /\ \A k \in 1 .. n : s[k] \in Range(s)
  BY DEF IsSeq, Range
<1>2. \A k \in 1 .. n : W[k] = D /\ W[k - 1] = D
  BY <1>1
<1>3. W[0] = D /\ W[n] = D
  BY <1>1
<1> HIDE DEF W
<1>4. Course(s, W)
  BY <1>1, <1>2 DEF Course, Becomes
<1> QED
  BY <1>3, <1>4 DEF Carries

-----------------------------------------------------------------------------
(* The definitions a document has after each command.                        *)

LEMMA PlantDefined ==
  ASSUME NoneIsNoSource, NEW d, DocForm(d), NEW p \in Places(d), NEW tree, TreeForm(tree)
  PROVE  Defined(Plant(d, p, tree)) = Defined(d)
<1> DEFINE e == Plant(d, p, tree)
<1>1. CASE p \in Page
  <2>1. e.defs = d.defs
    BY <1>1 DEF Plant, DocForm
  <2> QED
    BY <2>1 DEF Defined
<1>2. CASE p \notin Page
  <2> DEFINE def == [d.defs[p] EXCEPT !.tree = tree]
  <2>1. p \in Component /\ p \in Defined(d) /\ SourceForm(d.defs[p])
    BY <1>2 DEF Places, Defined, DocForm
  <2>2. def = [name |-> d.defs[p].name, rev |-> d.defs[p].rev, root |-> d.defs[p].root,
               tree |-> tree, props |-> d.defs[p].props]
    BY <2>1 DEF SourceForm
  <2>3. SourceForm(def)
    BY <2>1, <2>2 DEF SourceForm
  <2>4. e.defs = [x \in Component |-> IF x = p THEN def ELSE d.defs[x]]
    BY <1>2, <2>1 DEF Plant, DocForm
  <2> HIDE DEF e, def
  <2>5. def # NoDefinition
    BY <2>3 DEF NoneIsNoSource
  <2>6. \A x \in Component : e.defs[x] = IF x = p THEN def ELSE d.defs[x]
    BY <2>4
  <2>7. Defined(e) = Defined(d)
    BY <2>1, <2>5, <2>6 DEF Defined
  <2> QED
    BY <2>7 DEF e
<1> QED
  BY <1>1, <1>2

LEMMA DefineDefined ==
  ASSUME NoneIsNoSource, NEW d, DocForm(d), NEW x \in Component, NEW def, SourceForm(def)
  PROVE  Defined([d EXCEPT !.defs[x] = def]) = Defined(d) \cup {x}
<1> DEFINE e == [d EXCEPT !.defs[x] = def]
<1>1. e.defs = [y \in Component |-> IF y = x THEN def ELSE d.defs[y]]
  BY DEF DocForm
<1> HIDE DEF e
<1>2. def # NoDefinition
  BY DEF NoneIsNoSource
<1>3. Defined(e) = Defined(d) \cup {x}
  BY <1>1, <1>2 DEF Defined
<1> QED
  BY <1>3 DEF e

(* The commands that edit a tree.                                            *)
TreeTypes ==
    {"node.create", "node.delete", "node.update", "component-instance.insert",
     "component-instance.set-override", "component-instance.reset-override",
     "component-instance.reset-all-overrides", "component-instance.detach"}

(* The commands that edit a definition that is there.                        *)
EditingTypes ==
    {"component.rename", "component.add-property", "component.update-property",
     "component.remove-property"}

LEMMA TypesAre ==
  ASSUME NEW c, CommandForm(c)
  PROVE  c.type \in TreeTypes \cup EditingTypes \cup Births \cup {"component.delete"}
BY DEF CommandForm, KeptForm, FirstForm, TreeTypes, EditingTypes, Births

LEMMA RewriteDefined ==
  ASSUME NoneIsNoSource, NEW d, DocForm(d), NEW p, NEW id, Holds(d, p, id), NEW n, NodeForm(n)
  PROVE  Defined(Rewrite(d, p, id, n)) = Defined(d)
<1> DEFINE m == The(d, p, id)
           tree == (Tree(d, p) \ {m}) \cup {n}
<1>0. p \in Places(d)
  BY DEF Holds, IdsOf, Tree, Places
<1>1. m \in Tree(d, p) /\ TreeForm(Tree(d, p))
  BY TheIn, TreesForm
<1>2. IsFiniteSet(tree)
  BY <1>1, FS_RemoveElement, FS_AddElement DEF TreeForm
<1>3. TreeForm(tree)
  BY <1>1, <1>2 DEF TreeForm
<1> HIDE DEF tree
<1>4. Rewrite(d, p, id, n) = Plant(d, p, tree)
  BY DEF Rewrite, tree
<1> QED
  BY <1>0, <1>3, <1>4, PlantDefined

LEMMA OverridesDefined ==
  ASSUME NoneIsNoSource, NEW d, DocForm(d), NEW c, Holds(d, c.place, c.id),
         NEW over, over = [q \in Property |-> over[q]]
  PROVE  Defined(WithOverrides(d, c, over)) = Defined(d)
<1> DEFINE n == The(d, c.place, c.id)
           m == [n EXCEPT !.over = over]
<1>1. NodeForm(n)
  BY TheIn, TreesForm DEF TreeForm
<1> HIDE DEF n
<1>2. NodeForm(m)
  BY <1>1, OverForm
<1>3. WithOverrides(d, c, over) = Rewrite(d, c.place, c.id, m)
  BY DEF WithOverrides, n
<1> HIDE DEF m
<1> QED
  BY <1>2, <1>3, RewriteDefined

LEMMA TreeDefined ==
  ASSUME NoneIsNoSource, NEW d, DocForm(d), NEW c, CommandForm(c), c.type \in TreeTypes, Accepts(d, c)
  PROVE  Defined(After(d, c)) = Defined(d)
<1>1. CASE c.type = "node.create"
  <2>1. TreeForm(c.nodes)
    BY <1>1 DEF CommandForm, KeptForm, FirstForm
  <2>2. c.place \in Places(d) /\ After(d, c) = Plant(d, c.place, Tree(d, c.place) \cup c.nodes)
    BY <1>1 DEF Accepts, CreateAccepts, After, Created
  <2>3. TreeForm(Tree(d, c.place) \cup c.nodes)
    BY <2>1, TreesForm, FS_Union DEF TreeForm
  <2> QED
    BY <2>2, <2>3, PlantDefined
<1>2. CASE c.type = "node.delete"
  <2> DEFINE tree == Tree(d, c.place) \ Below(Tree(d, c.place), c.id)
  <2>1. c.place \in Places(d)
    BY <1>2 DEF Accepts, DeleteAccepts, Holds, IdsOf, Tree, Places
  <2>2. After(d, c) = Plant(d, c.place, tree)
    BY <1>2 DEF After, Deleted
  <2>3. TreeForm(tree)
    BY TreesForm, FS_Subset DEF TreeForm
  <2> HIDE DEF tree
  <2> QED
    BY <2>1, <2>2, <2>3, PlantDefined
<1>3. CASE c.type = "node.update"
  <2> DEFINE n == The(d, c.place, c.id)
             m == IF c.key = "locked" THEN [n EXCEPT !.locked = c.to] ELSE [n EXCEPT !.over = c.to]
  <2>1. c.key # "locked" => c.to = [q \in Property |-> c.to[q]]
    BY <1>3 DEF CommandForm, KeptForm, FirstForm
  <2>2. Holds(d, c.place, c.id)
    BY <1>3 DEF Accepts, UpdateAccepts
  <2>3. NodeForm(n)
    BY <2>2, TheIn, TreesForm DEF TreeForm
  <2>4. After(d, c) = Rewrite(d, c.place, c.id, m)
    BY <1>3 DEF After, Updated
  <2> HIDE DEF n
  <2>5. NodeForm(m)
    BY <2>1, <2>3, OverForm, LockForm
  <2> HIDE DEF m
  <2> QED
    BY <2>2, <2>4, <2>5, RewriteDefined
<1>4. CASE c.type = "component-instance.insert"
  <2> DEFINE p == c.place
             n == InstanceNode(c, Top(d, p))
             tree == Tree(d, p) \cup {n}
  <2>1. c.component \in Component /\ p \in Places(d)
    BY <1>4, PlacesAre DEF Accepts, InsertAccepts
  <2>2. NodeForm(n)
    BY <2>1, InstanceForm
  <2>3. After(d, c) = Plant(d, p, tree)
    BY <1>4 DEF After, Inserted
  <2> HIDE DEF n
  <2>4. TreeForm(tree)
    BY <2>2, TreesForm, FS_AddElement DEF TreeForm
  <2> HIDE DEF tree
  <2> QED
    BY <2>1, <2>3, <2>4, PlantDefined
<1>5. CASE c.type = "component-instance.detach"
  <2> DEFINE p == c.place
             n == The(d, p, c.id)
             new == Materialized(d, c)
             tree == (Tree(d, p) \ {n}) \cup new
  <2>1. Holds(d, p, c.id) /\ n.of # Plain
    BY <1>5 DEF Accepts, DetachAccepts, IsInstance
  <2>2. p \in Places(d)
    BY <2>1 DEF Holds, IdsOf, Tree, Places
  <2>3. NodeForm(n) /\ n.of \in Component
    BY <2>1, TheIn, TreesForm DEF TreeForm, NodeForm
  <2>4. After(d, c) = Plant(d, p, tree)
    BY <1>5 DEF After, Detached
  <2>5. TreeForm(new)
    BY <2>3, MaterializedForm
  <2> HIDE DEF new, n
  <2>6. TreeForm(tree)
    <3>1. IsFiniteSet(Tree(d, p) \ {n}) /\ TreeForm(Tree(d, p))
      BY TreesForm, FS_Subset DEF TreeForm
    <3>2. IsFiniteSet(tree)
      BY <2>5, <3>1, FS_Union DEF TreeForm
    <3> QED
      BY <2>5, <3>1, <3>2 DEF TreeForm
  <2> HIDE DEF tree
  <2> QED
    BY <2>2, <2>4, <2>6, PlantDefined
<1>6. CASE c.type \in {"component-instance.set-override", "component-instance.reset-override",
                       "component-instance.reset-all-overrides"}
  <2> DEFINE n == The(d, c.place, c.id)
  <2>1. Holds(d, c.place, c.id)
    BY <1>6 DEF Accepts, SetOverrideAccepts, ResetOverrideAccepts, ResetAllAccepts, MayOverride, IsInstance
  <2>2. n.over = [q \in Property |-> n.over[q]]
    BY <2>1, TheIn, TreesForm DEF TreeForm, NodeForm
  <2>3. \E over : over = [q \in Property |-> over[q]] /\ After(d, c) = WithOverrides(d, c, over)
    <3>1. CASE c.type = "component-instance.set-override"
      <4> DEFINE over == [n.over EXCEPT ![c.property] = c.value]
      <4>1. over = [q \in Property |-> over[q]]
        BY <2>2
      <4>2. After(d, c) = WithOverrides(d, c, over)
        BY <3>1 DEF After, OverrideSet
      <4> HIDE DEF over
      <4> QED
        BY <4>1, <4>2
    <3>2. CASE c.type = "component-instance.reset-override"
      <4> DEFINE over == [n.over EXCEPT ![c.property] = NoValue]
      <4>1. over = [q \in Property |-> over[q]]
        BY <2>2
      <4>2. After(d, c) = WithOverrides(d, c, over)
        BY <3>2 DEF After, OverrideReset
      <4> HIDE DEF over
      <4> QED
        BY <4>1, <4>2
    <3>3. CASE c.type = "component-instance.reset-all-overrides"
      <4>1. NoOverrides = [q \in Property |-> NoOverrides[q]]
        BY DEF NoOverrides
      <4>2. After(d, c) = WithOverrides(d, c, NoOverrides)
        BY <3>3 DEF After, AllReset
      <4> QED
        BY <4>1, <4>2
    <3> QED
      BY <1>6, <3>1, <3>2, <3>3
  <2> QED
    BY <2>1, <2>3, OverridesDefined
<1> QED
  BY <1>1, <1>2, <1>3, <1>4, <1>5, <1>6 DEF TreeTypes

LEMMA EditingDefined ==
  ASSUME NoneIsNoSource, NEW d, DocForm(d), NEW c, CommandForm(c), c.type \in EditingTypes, Accepts(d, c)
  PROVE  Defined(After(d, c)) = Defined(d)
<1> DEFINE x == c.component
           v == Versioned(d.defs[x], c)
           added == InsertAt(v.props, c.at, c.binding)
           updated == [v.props EXCEPT ![IndexOfProperty(v, c.binding.id)] = c.binding]
           removed == SelectSeq(v.props, LAMBDA b : b.id # c.property)
<1>1. x \in Defined(d) /\ x \in Component /\ SourceForm(d.defs[x])
  BY DEF Accepts, RenameAccepts, AddPropertyAccepts, UpdatePropertyAccepts, RemovePropertyAccepts,
         DocForm, EditingTypes, Defined
<1>2. c.rev \in Nat
  BY DEF CommandForm, KeptForm, FirstForm, EditingTypes
<1>3. CASE c.type = "component.rename"
  <2>1. After(d, c) = [d EXCEPT !.defs[x] = Retitled(d.defs[x], c, c.to)]
    BY <1>3 DEF After, Renamed, Retitled
  <2>2. SourceForm(Retitled(d.defs[x], c, c.to))
    BY <1>1, <1>2, EditedForm
  <2> HIDE DEF x
  <2>3. Defined(After(d, c)) = Defined(d) \cup {x}
    BY <1>1, <2>1, <2>2, DefineDefined
  <2> QED
    BY <1>1, <2>3
<1>4. CASE c.type # "component.rename"
  <2>1. \E props : After(d, c) = [d EXCEPT !.defs[x] = Rebound(d.defs[x], c, props)]
    <3>1. CASE c.type = "component.add-property"
      <4>1. After(d, c) = PropertyAdded(d, c)
        BY <3>1 DEF After
      <4>2. PropertyAdded(d, c) = [d EXCEPT !.defs[x] = Rebound(d.defs[x], c, added)]
        BY DEF PropertyAdded, Rebound
      <4> HIDE DEF added, x
      <4> QED
        BY <4>1, <4>2
    <3>2. CASE c.type = "component.update-property"
      <4>1. After(d, c) = PropertyUpdated(d, c)
        BY <3>2 DEF After
      <4>2. PropertyUpdated(d, c) = [d EXCEPT !.defs[x] = Rebound(d.defs[x], c, updated)]
        BY DEF PropertyUpdated, Rebound
      <4> HIDE DEF updated, x
      <4> QED
        BY <4>1, <4>2
    <3>3. CASE c.type = "component.remove-property"
      <4>1. After(d, c) = PropertyRemoved(d, c)
        BY <3>3 DEF After
      <4>2. PropertyRemoved(d, c) = [d EXCEPT !.defs[x] = Rebound(d.defs[x], c, removed)]
        BY DEF PropertyRemoved, Rebound
      <4> HIDE DEF removed, x
      <4> QED
        BY <4>1, <4>2
    <3> QED
      BY <1>4, <3>1, <3>2, <3>3 DEF EditingTypes
  <2>2. PICK props : After(d, c) = [d EXCEPT !.defs[x] = Rebound(d.defs[x], c, props)]
    BY <2>1
  <2>3. SourceForm(Rebound(d.defs[x], c, props))
    BY <1>1, <1>2, EditedForm
  <2> HIDE DEF x
  <2>4. Defined(After(d, c)) = Defined(d) \cup {x}
    BY <1>1, <2>2, <2>3, DefineDefined
  <2> QED
    BY <1>1, <2>4
<1> QED
  BY <1>3, <1>4

(* A command that adds a definition adds one that was not there.             *)
LEMMA BirthDefined ==
  ASSUME NoneIsNoSource, NEW d, DocForm(d), NEW c, CommandForm(c), c.type \in Births, Accepts(d, c)
  PROVE  \E x \in Component : /\ Born(c) = {x} /\ x \notin Defined(d)
                              /\ Defined(After(d, c)) = Defined(d) \cup {x}
<1>1. CASE c.type = "component.create"
  <2> DEFINE x == c.component
  <2>1. x \in Component /\ SourceForm(c.definition)
    BY <1>1 DEF CommandForm, KeptForm, FirstForm
  <2>2. x \notin Defined(d) /\ Born(c) = {x}
    BY <1>1 DEF Accepts, RestoreAccepts, Addable, Born
  <2>3. After(d, c) = [d EXCEPT !.defs[x] = c.definition]
    BY <1>1 DEF After, Restored
  <2> HIDE DEF x
  <2>4. Defined(After(d, c)) = Defined(d) \cup {x}
    BY <2>1, <2>3, DefineDefined
  <2> QED
    BY <2>1, <2>2, <2>4
<1>2. CASE c.type = "component.duplicate"
  <2> DEFINE x == c.copy
             def == Duplicate(d, c)
  <2>1. x \in Component
    BY <1>2 DEF CommandForm, KeptForm, FirstForm
  <2>2. /\ c.component \in Defined(d) /\ SourceForm(d.defs[c.component])
        /\ x \notin Defined(d) /\ Born(c) = {x}
    BY <1>2 DEF Accepts, DuplicateAccepts, Addable, DocForm, Born
  <2>3. TreeForm(Remapped(d.defs[c.component].tree, c.fresh))
    BY <2>2, RemappedForm DEF SourceForm
  <2>4. SourceForm(def)
    BY <2>3 DEF SourceForm, Duplicate
  <2>5. After(d, c) = [d EXCEPT !.defs[x] = def]
    BY <1>2 DEF After, Duplicated
  <2> HIDE DEF x, def
  <2>6. Defined(After(d, c)) = Defined(d) \cup {x}
    BY <2>1, <2>4, <2>5, DefineDefined
  <2> QED
    BY <2>1, <2>2, <2>6
<1>3. CASE c.type = "component.extract"
  <2> DEFINE p == c.place
             x == c.component
             def == SourceOf(d, c)
             k == InstanceNode(c, The(d, p, CHOOSE id \in c.ids : TRUE).under)
             tree == (Tree(d, p) \ Selected(d, c)) \cup {k}
             b == Placed(d, c)
  <2>1. x \in Component
    BY <1>3 DEF CommandForm, KeptForm, FirstForm
  <2>2. /\ p \in Places(d)
        /\ \A id \in c.ids : Holds(d, p, id)
        /\ x \notin Defined(b)
    <3>1. ExtractAccepts(EnforceLocked, d, c)
      BY <1>3 DEF Accepts
    <3> QED
      BY <3>1 DEF ExtractAccepts, Addable
  <2>3. NodeForm(k)
    BY <2>1, InstanceForm
  <2>4. b = Plant(d, p, tree)
    BY DEF Placed
  <2> HIDE DEF k, b
  <2>5. TreeForm(tree)
    <3>1. TreeForm(Tree(d, p)) /\ IsFiniteSet(Tree(d, p) \ Selected(d, c))
      BY TreesForm, FS_Subset DEF TreeForm
    <3>2. IsFiniteSet(tree)
      BY <3>1, FS_AddElement
    <3> QED
      BY <2>3, <3>1, <3>2 DEF TreeForm
  <2> HIDE DEF tree
  <2>6. DocForm(b) /\ Defined(b) = Defined(d)
    BY <2>2, <2>4, <2>5, PlantKeeps, PlantDefined
  <2>7. SourceForm(def)
    BY <2>2, ExtractedForm
  <2>8. After(d, c) = [b EXCEPT !.defs[x] = def]
    BY <1>3 DEF After, Extracted, b
  <2>9. Born(c) = {x}
    BY <1>3 DEF Born
  <2> HIDE DEF x, def
  <2>10. Defined(After(d, c)) = Defined(b) \cup {x}
    BY <2>1, <2>6, <2>7, <2>8, DefineDefined
  <2> QED
    BY <2>1, <2>2, <2>6, <2>9, <2>10
<1> QED
  BY <1>1, <1>2, <1>3 DEF Births

-----------------------------------------------------------------------------
(* One command: what refers to a definition finds it afterwards too, and the *)
(* inverse leads back to the definitions there were.                         *)

LEMMA SoundTree ==
  ASSUME NEW d, Sound(d), NEW p \in Place, NEW n \in Tree(d, p), n.of # Plain
  PROVE  n.of \in Defined(d)
<1>1. n.of \in Uses(d, p)
  BY DEF Uses
<1> QED
  BY <1>1 DEF Sound, Within, At

LEMMA BacksMention ==
  ASSUME NoneIsNoSource, NEW d, Sound(d), NEW c, NEW i, Backs(At(Defined(d)), d, c, i)
  PROVE  Mentions(i) \subseteq Defined(d)
<1> DEFINE T == At(Defined(d))
<1>1. KeptForm(i) /\ Allowed(T, i)
  BY DEF Sound, Backs
<1>2. \A p, x : <<p, x>> \in T => x \in Defined(d)
  BY DEF At
<1> HIDE DEF T
<1>3. CASE i.type = "node.create"
  BY <1>1, <1>2, <1>3 DEF Allowed, Mentions
<1>4. CASE i.type = "component.create"
  <2>1. SourceForm(i.definition)
    BY <1>1, <1>4 DEF KeptForm
  <2>2. i.definition # NoDefinition
    BY <2>1 DEF NoneIsNoSource
  <2> QED
    BY <1>1, <1>2, <1>4, <2>2 DEF Allowed, Mentions
<1>5. CASE i.type \notin {"node.create", "component.create"}
  BY <1>5 DEF Mentions
<1> QED
  BY <1>3, <1>4, <1>5

(* What a command leads to and how its inverse leads back.                   *)
Returns(d, c) ==
    /\ Sound(After(d, c))
    /\ KeptForm(c) => Defined(After(d, c)) = Becomes(c, Defined(d))
    /\ Carries(InverseOf(d, c), Defined(After(d, c)), Defined(d))

LEMMA SteadyReturns ==
  ASSUME NoneIsNoSource, NEW d, DocForm(d), Sound(d), NEW c, CommandForm(c), Accepts(d, c),
         c.type \in TreeTypes \cup EditingTypes, Mentions(c) \subseteq Defined(d)
  PROVE  Returns(d, c)
<1> DEFINE D == Defined(d)
           T == At(D)
           inv == InverseOf(d, c)
           e == After(d, c)
<1>1. Defined(e) = D
  BY TreeDefined, EditingDefined
<1>2. Leads(T, d, c, e) /\ BacksAll(T, d, c, inv)
  BY CommandSteps
<1>3. Allowed(T, c)
  <2>1. c.type = "node.create" => \A n \in c.nodes : n.of # Plain => <<c.place, n.of>> \in T
    <3> SUFFICES ASSUME c.type = "node.create", NEW n \in c.nodes, n.of # Plain
                 PROVE  <<c.place, n.of>> \in T
      OBVIOUS
    <3>1. n.of \in D
      BY DEF Mentions
    <3>2. c.place \in Place
      BY PlacesAre DEF Accepts, CreateAccepts
    <3> QED
      BY <3>1, <3>2 DEF At
  <2>2. c.type = "component-instance.insert" => <<c.place, c.component>> \in T
    <3> SUFFICES ASSUME c.type = "component-instance.insert"
                 PROVE  <<c.place, c.component>> \in T
      OBVIOUS
    <3>1. c.component \in D /\ c.place \in Place
      BY PlacesAre DEF Accepts, InsertAccepts
    <3> QED
      BY <3>1 DEF At
  <2>3. c.type \notin Births
    BY DEF TreeTypes, EditingTypes, Births
  <2> QED
    BY <2>1, <2>2, <2>3 DEF Allowed, Births
<1> HIDE DEF e, inv
<1>4. Sound(e)
  BY <1>1, <1>2, <1>3 DEF Sound, Leads
<1>5. c.type \notin Births \cup {"component.delete"}
  BY DEF TreeTypes, EditingTypes, Births
<1>6. KeptForm(c) => D = Becomes(c, D)
  BY <1>5 DEF Becomes, Births
<1>7. IsSeq(inv) /\ \A i \in Range(inv) : /\ i.type \notin {"component.create", "component.delete"}
                                          /\ Mentions(i) \subseteq D
  BY <1>2, <1>5, BacksMention DEF BacksAll, Backs, Births
<1>8. Carries(inv, D, D)
  BY <1>7, CarriesSteady
<1> QED
  BY <1>1, <1>4, <1>6, <1>8 DEF Returns, e, inv

LEMMA RemovalCarries ==
  ASSUME NEW x, NEW D, x \notin D
  PROVE  Carries(<<[type |-> "component.delete", component |-> x]>>, D \cup {x}, D)
<1> DEFINE c == [type |-> "component.delete", component |-> x]
<1>1. c.type = "component.delete" /\ c.component = x
  OBVIOUS
<1> HIDE DEF c
<1>2. D = Becomes(c, D \cup {x}) /\ Mentions(c) \subseteq D
  BY <1>1 DEF Becomes, Mentions
<1>3. Carries(<<c>>, D \cup {x}, D)
  BY <1>2, CarriesOne
<1> QED
  BY <1>3 DEF c

LEMMA ExtractCarries ==
  ASSUME NEW d, DocForm(d), Sound(d), NEW c, CommandForm(c), c.type = "component.extract", Accepts(d, c),
         c.component \notin Defined(d)
  PROVE  Carries(InverseOf(d, c), Defined(d) \cup {c.component}, Defined(d))
<1> DEFINE p == c.place
           D == Defined(d)
           x == c.component
           E == D \cup {x}
           S == {Recreate(d, p, id) : id \in c.ids}
           i == [type |-> "node.delete", place |-> p, id |-> c.instance]
           j == [type |-> "component.delete", component |-> x]
           s == SetToSeq(S)
           front == <<i>> \o s
<1>1. p \in Place /\ c.ids \subseteq IdsOf(Tree(d, p))
  <2>1. ExtractAccepts(EnforceLocked, d, c)
    BY DEF Accepts
  <2> QED
    BY <2>1, PlacesAre DEF ExtractAccepts, Holds
<1>2. IsFiniteSet(c.ids)
  <2> DEFINE tree == Tree(d, p)
  <2>1. IsFiniteSet(tree)
    BY TreesForm DEF TreeForm
  <2> HIDE DEF tree
  <2>2. [n \in tree |-> n.id] \in Surjection(tree, IdsOf(tree))
    BY DEF Surjection, IdsOf
  <2> QED
    BY <1>1, <2>1, <2>2, FS_Surjection, FS_Subset DEF tree
<1>3. IsFiniteSet(S)
  <2> DEFINE ids == c.ids
  <2>1. [id \in ids |-> Recreate(d, p, id)] \in Surjection(ids, {Recreate(d, p, id) : id \in ids})
    BY DEF Surjection
  <2> QED
    BY <1>2, <2>1, FS_Surjection
<1>4. \A k \in S : k.type \notin {"component.create", "component.delete"} /\ Mentions(k) \subseteq E
  <2> TAKE k \in S
  <2>1. PICK id : k = Recreate(d, p, id)
    OBVIOUS
  <2>2. k.type = "node.create" /\ k.nodes \subseteq Tree(d, p)
    BY <2>1, BelowIn DEF Recreate
  <2>3. \A n \in Tree(d, p) : n.of # Plain => n.of \in D
    BY <1>1, SoundTree
  <2> QED
    BY <2>2, <2>3 DEF Mentions
<1>5. i.type = "node.delete" /\ Mentions(i) \subseteq E
  BY DEF Mentions
<1> HIDE DEF S, i
<1>6. IsSeq(s) /\ Range(s) \subseteq S
  BY <1>3, ListForm, SeqIs
<1>7. IsSeq(<<i>>) /\ Range(<<i>>) = {i}
  BY Single
<1>8. IsSeq(front) /\ Range(front) = {i} \cup Range(s)
  BY <1>6, <1>7, SeqJoin
<1>9. InverseOf(d, c) = front \o <<j>>
  BY DEF InverseOf, ExtractInverse, S, i
<1> HIDE DEF s, front
<1>10. Carries(front, E, E)
  BY <1>4, <1>5, <1>6, <1>8, CarriesSteady
<1>11. Carries(<<j>>, E, D)
  BY RemovalCarries
<1>12. IsSeq(<<j>>)
  BY Single
<1> HIDE DEF j, E
<1>13. Carries(front \o <<j>>, E, D)
  BY <1>8, <1>10, <1>11, <1>12, CarriesJoin
<1> QED
  BY <1>9, <1>13 DEF E

LEMMA BirthReturns ==
  ASSUME NoneIsNoSource, NEW d, DocForm(d), Sound(d), NEW c, CommandForm(c), Accepts(d, c),
         c.type \in Births, Mentions(c) \subseteq Defined(d) \cup Born(c)
  PROVE  Returns(d, c)
<1> DEFINE D == Defined(d)
           inv == InverseOf(d, c)
           e == After(d, c)
<1>1. PICK x \in Component : Born(c) = {x} /\ x \notin D /\ Defined(e) = D \cup {x}
  BY BirthDefined
<1> DEFINE E == D \cup {x}
           T == At(E)
<1>2. Leads(T, d, c, e)
  BY CommandSteps
<1>3. \A p, y : <<p, y>> \in T <=> p \in Place /\ y \in E
  BY DEF At
<1>4. Within(T, d)
  <2>1. At(D) \subseteq T
    BY DEF At
  <2> QED
    BY <2>1, LargerOrder DEF Sound
<1> HIDE DEF T
<1>5. Allowed(T, c)
  <2>1. CASE c.type = "component.create"
    <3>1. x = c.component /\ x \in Place
      BY <1>1, <2>1 DEF Born, Place
    <3>2. \A n \in c.definition.tree : n.of # Plain => n.of \in E
      BY <1>1, <2>1 DEF Mentions
    <3> QED
      BY <1>3, <2>1, <3>1, <3>2 DEF Allowed
  <2>2. CASE c.type = "component.extract"
    <3>1. c.component = x /\ x \in Place
      BY <1>1, <2>2 DEF Born, Place
    <3>2. c.place \in Place
      <4>1. ExtractAccepts(EnforceLocked, d, c)
        BY <2>2 DEF Accepts
      <4> QED
        BY <4>1, PlacesAre DEF ExtractAccepts
    <3> QED
      BY <1>3, <2>2, <3>1, <3>2 DEF Allowed
  <2>3. CASE c.type = "component.duplicate"
    <3>1. c.copy = x /\ x \in Place
      BY <1>1, <2>3 DEF Born, Place
    <3> QED
      BY <1>3, <2>3, <3>1 DEF Allowed
  <2> QED
    BY <2>1, <2>2, <2>3 DEF Births
<1>6. Sound(e)
  BY <1>1, <1>2, <1>4, <1>5 DEF Sound, Leads, T
<1>7. KeptForm(c) => E = Becomes(c, D)
  <2> SUFFICES ASSUME KeptForm(c)
               PROVE  E = Becomes(c, D)
    OBVIOUS
  <2>1. c.type = "component.create"
    BY DEF KeptForm, Births
  <2> QED
    BY <1>1, <2>1 DEF Becomes, Born
<1>8. Carries(inv, E, D)
  <2>1. CASE c.type = "component.create"
    <3>1. inv = <<[type |-> "component.delete", component |-> x]>>
      BY <1>1, <2>1 DEF InverseOf, RestoreInverse, Born
    <3> QED
      BY <1>1, <3>1, RemovalCarries
  <2>2. CASE c.type = "component.duplicate"
    <3>1. inv = <<[type |-> "component.delete", component |-> x]>>
      BY <1>1, <2>2 DEF InverseOf, DuplicateInverse, Born
    <3> QED
      BY <1>1, <3>1, RemovalCarries
  <2>3. CASE c.type = "component.extract"
    BY <1>1, <2>3, ExtractCarries DEF Born
  <2> QED
    BY <2>1, <2>2, <2>3 DEF Births
<1> HIDE DEF e, inv
<1> QED
  BY <1>1, <1>6, <1>7, <1>8 DEF Returns, e, inv

LEMMA DeleteReturns ==
  ASSUME NoneIsNoSource, NEW d, DocForm(d), Sound(d), NEW c, CommandForm(c), Accepts(d, c),
         c.type = "component.delete"
  PROVE  Returns(d, c)
<1> DEFINE D == Defined(d)
           x == c.component
           def == d.defs[x]
           i == [type |-> "component.create", component |-> x, definition |-> def]
           inv == InverseOf(d, c)
           e == After(d, c)
<1>1. x \in D /\ x \in Component /\ References(d, x) = {}
  BY DEF Accepts, RemoveAccepts, Defined
<1>2. e = [d EXCEPT !.defs[x] = NoDefinition] /\ inv = <<i>>
  BY DEF After, Removed, InverseOf, RemoveInverse
<1>3. e.page = d.page /\ \A y \in Component : e.defs[y] = IF y = x THEN NoDefinition ELSE d.defs[y]
  BY <1>2 DEF DocForm
<1> HIDE DEF e, inv
<1>4. Defined(e) = D \ {x}
  BY <1>1, <1>3 DEF Defined
<1>5. \A p \in Place : Tree(e, p) \subseteq Tree(d, p)
  BY <1>3, <1>4 DEF Tree, Defined
<1>6. \A p \in Place : \A n \in Tree(d, p) : n.of # x
  <2> SUFFICES ASSUME NEW p \in Place, NEW n \in Tree(d, p), n.of = x
               PROVE  FALSE
    OBVIOUS
  <2>1. p \in Places(d)
    BY DEF Tree, Places
  <2>2. <<p, n>> \in References(d, x)
    BY <2>1 DEF References
  <2> QED
    BY <1>1, <2>2
<1>7. Sound(e)
  <2> SUFFICES ASSUME NEW p \in Place, NEW y \in Uses(e, p)
               PROVE  y \in D \ {x}
    BY <1>4 DEF Sound, Within, At
  <2>1. PICK n \in Tree(e, p) : n.of = y /\ y # Plain
    BY DEF Uses
  <2>2. n \in Tree(d, p)
    BY <1>5
  <2>3. y \in D
    BY <2>1, <2>2, SoundTree
  <2> QED
    BY <1>6, <2>1, <2>2, <2>3
<1>8. KeptForm(c) => D \ {x} = Becomes(c, D)
  BY DEF Becomes
<1>9. Mentions(i) \subseteq D
  <2>1. Mentions(i) = {n.of : n \in def.tree} \ {Plain}
    BY DEF Mentions
  <2>2. x \in Place /\ Tree(d, x) = def.tree
    BY <1>1, ComponentAssumption DEF Place, Tree
  <2>3. \A n \in Tree(d, x) : n.of # Plain => n.of \in D
    BY <2>2, SoundTree
  <2> HIDE DEF i
  <2> QED
    BY <2>1, <2>2, <2>3
<1>10. D = Becomes(i, D \ {x})
  BY <1>1 DEF Becomes
<1> HIDE DEF i, D
<1>11. Carries(<<i>>, D \ {x}, D)
  BY <1>9, <1>10, CarriesOne
<1> QED
  BY <1>2, <1>4, <1>7, <1>8, <1>11 DEF Returns, e, inv, D

LEMMA CommandReturns ==
  ASSUME NoneIsNoSource, NEW d, DocForm(d), Sound(d), NEW c, CommandForm(c), Accepts(d, c),
         Mentions(c) \subseteq Defined(d) \cup Born(c)
  PROVE  Returns(d, c)
<1>1. CASE c.type \in TreeTypes \cup EditingTypes
  <2>1. Born(c) = {}
    BY <1>1 DEF Born, TreeTypes, EditingTypes
  <2> QED
    BY <1>1, <2>1, SteadyReturns
<1>2. CASE c.type \in Births
  BY <1>2, BirthReturns
<1>3. CASE c.type = "component.delete"
  BY <1>3, DeleteReturns
<1> QED
  BY <1>1, <1>2, <1>3, TypesAre

-----------------------------------------------------------------------------
(* A batch: commands that bring no instance of a Source, or whose definitions *)
(* are on a course from the ones the batch finds.                             *)

FollowsFrom(cmds, W, D) == AllKept(cmds) /\ W[0] = D /\ Course(cmds, W)

Blank(cmds) == \A c \in Range(cmds) : Mentions(c) = {}

(* What the first k commands have led to.                                    *)
Along(d, cmds, W, k, a) ==
    /\ Sound(a.doc)
    /\ Carries(a.inverse, Defined(a.doc), Defined(d))
    /\ FollowsFrom(cmds, W, Defined(d)) => Defined(a.doc) = W[k]

LEMMA FoldIs ==
  ASSUME NEW a, RunForm(a), NEW c, Fold(a, c).ok
  PROVE  /\ a.ok /\ Accepts(a.doc, c)
         /\ Fold(a, c).doc = After(a.doc, c)
         /\ Fold(a, c).inverse = InverseOf(a.doc, c) \o a.inverse
<1>1. ~[a EXCEPT !.ok = FALSE].ok
  BY DEF RunForm
<1>2. a.ok /\ Accepts(a.doc, c)
  BY <1>1 DEF Fold
<1> DEFINE e == After(a.doc, c)
           inv == InverseOf(a.doc, c) \o a.inverse
           touched == a.touched \cup Touches(a.doc, c)
<1>3. Fold(a, c) = [ok |-> TRUE, doc |-> e, inverse |-> inv, touched |-> touched]
  BY <1>2 DEF Fold
<1> HIDE DEF e, inv, touched
<1>4. Fold(a, c).doc = e /\ Fold(a, c).inverse = inv
  BY <1>3
<1> QED
  BY <1>2, <1>4 DEF e, inv

LEMMA FoldAlong ==
  ASSUME NoneIsNoSource, NEW d, NEW cmds, IsSeq(cmds), \A c \in Range(cmds) : CommandForm(c), NEW W,
         Blank(cmds) \/ FollowsFrom(cmds, W, Defined(d)),
         NEW k \in 1 .. Len(cmds), NEW a, RunForm(a), Fold(a, cmds[k]).ok,
         Reached({}, d, cmds, a), Along(d, cmds, W, k - 1, a)
  PROVE  Along(d, cmds, W, k, Fold(a, cmds[k]))
<1> DEFINE c == cmds[k]
           b == Fold(a, c)
           e == After(a.doc, c)
           inv == InverseOf(a.doc, c)
<1>1. c \in Range(cmds) /\ CommandForm(c)
  BY DEF IsSeq, Range
<1>2. /\ Accepts(a.doc, c)
      /\ b.doc = e
      /\ b.inverse = inv \o a.inverse
  BY FoldIs
<1>3. DocForm(a.doc) /\ Sound(a.doc) /\ IsSeq(a.inverse)
  BY DEF Reached, Along
<1>4. FollowsFrom(cmds, W, Defined(d)) =>
        /\ KeptForm(c)
        /\ W[k] = Becomes(c, Defined(a.doc)) /\ Mentions(c) \subseteq W[k]
  BY <1>1 DEF FollowsFrom, Course, Along, AllKept
<1>5. Mentions(c) \subseteq Defined(a.doc) \cup Born(c)
  <2>1. CASE Blank(cmds)
    BY <1>1, <2>1 DEF Blank
  <2>2. CASE FollowsFrom(cmds, W, Defined(d))
    <3>1. Becomes(c, Defined(a.doc)) \subseteq Defined(a.doc) \cup Born(c)
      BY DEF Becomes, Born
    <3> QED
      BY <1>4, <2>2, <3>1
  <2> QED
    BY <2>1, <2>2
<1> HIDE DEF c
<1>6. Returns(a.doc, c)
  BY <1>1, <1>2, <1>3, <1>5, CommandReturns
<1>7. Sound(e) /\ Carries(inv, Defined(e), Defined(a.doc))
  BY <1>6 DEF Returns
<1>8. IsSeq(inv)
  BY <1>1, <1>2, <1>3, CommandSteps DEF BacksAll
<1>9. Carries(a.inverse, Defined(a.doc), Defined(d))
  BY DEF Along
<1> HIDE DEF e, inv, b
<1>10. Carries(inv \o a.inverse, Defined(e), Defined(d))
  BY <1>3, <1>7, <1>8, <1>9, CarriesJoin
<1>11. FollowsFrom(cmds, W, Defined(d)) => Defined(e) = W[k]
  BY <1>4, <1>6 DEF Returns, e
<1>12. Along(d, cmds, W, k, b)
  BY <1>2, <1>7, <1>10, <1>11 DEF Along
<1> QED
  BY <1>12 DEF b, c

LEMMA BatchAlong ==
  ASSUME NoneIsNoSource, NEW d, DocForm(d), Sound(d), NEW cmds, IsSeq(cmds),
         \A c \in Range(cmds) : CommandForm(c), NEW W,
         Blank(cmds) \/ FollowsFrom(cmds, W, Defined(d)), Folded(d, cmds).ok
  PROVE  Along(d, cmds, W, Len(cmds), Folded(d, cmds))
<1> DEFINE N == Len(cmds)
           Holding(k, a) == RunForm(a) /\ (a.ok => Reached({}, d, cmds, a) /\ Along(d, cmds, W, k, a))
<1>1. PICK acc : Batches(d, cmds, acc)
  <2>1. cmds \in Seq(Range(cmds))
    BY DEF IsSeq
  <2> QED
    BY <2>1, FoldedUnfolds
<1> DEFINE S == {k \in 0 .. N : Holding(k, acc[k])}
<1>2. N \in Nat /\ \A k \in 1 .. N : cmds[k] \in Range(cmds)
  BY DEF IsSeq, Range
<1>3. 0 \in S
  <2> DEFINE start == [ok |-> TRUE, doc |-> d, inverse |-> <<>>, touched |-> {}]
  <2>1. acc[0] = start
    BY <1>1 DEF Batches
  <2>2. RunForm(start)
    BY DEF RunForm
  <2>3. IsSeq(<<>>) /\ Range(<<>>) = {}
    BY DEF IsSeq, Range
  <2>4. start.doc = d /\ start.inverse = <<>> /\ start.touched = {}
    OBVIOUS
  <2> HIDE DEF start
  <2>5. Reached({}, d, cmds, start)
    BY <2>3, <2>4 DEF Reached, AllKept, AllAllowed, Borns, NoBirths, NoDeletes
  <2>6. Along(d, cmds, W, 0, start)
    BY <2>4, CarriesNone DEF Along, FollowsFrom
  <2> QED
    BY <1>2, <2>1, <2>2, <2>5, <2>6
<1>4. \A k \in 1 .. N : k - 1 \in S => k \in S
  <2> TAKE k \in 1 .. N
  <2> HAVE k - 1 \in S
  <2>1. acc[k] = Fold(acc[k - 1], cmds[k])
    BY <1>1 DEF Batches
  <2>2. Holding(k - 1, acc[k - 1])
    OBVIOUS
  <2>3. RunForm(acc[k]) /\ (acc[k].ok => Reached({}, d, cmds, acc[k]))
    BY <1>2, <2>1, <2>2, FoldSteps
  <2>4. acc[k].ok => Along(d, cmds, W, k, acc[k])
    <3> SUFFICES ASSUME acc[k].ok
                 PROVE  Along(d, cmds, W, k, acc[k])
      OBVIOUS
    <3> DEFINE a == acc[k - 1]
    <3>1. a.ok
      <4>1. RunForm(a) /\ Fold(a, cmds[k]).ok
        BY <2>1, <2>2
      <4> HIDE DEF a
      <4> QED
        BY <4>1, FoldIs
    <3>2. RunForm(acc[k - 1]) /\ Reached({}, d, cmds, acc[k - 1]) /\ Along(d, cmds, W, k - 1, acc[k - 1])
      BY <2>2, <3>1
    <3> QED
      BY <2>1, <3>2, FoldAlong
  <2> QED
    BY <1>2, <2>3, <2>4
<1>5. N \in S
  <2> HIDE DEF S
  <2>1. 0 .. N \subseteq S
    BY <1>2, <1>3, <1>4, Induction, Zenon
  <2> QED
    BY <1>2, <2>1
<1> QED
  BY <1>1, <1>5 DEF Batches

LEMMA SettledDefined ==
  ASSUME NoneIsNoSource, NEW d, DocForm(d), NEW e, DocForm(e), NEW touched
  PROVE  Defined(Settled(d, e, touched)) = Defined(e)
<1> DEFINE s == Settled(d, e, touched)
           moves == Moves(d, e, touched)
<1>0. LET T == {}
      IN  /\ Defined(s) \subseteq Defined(e)
          /\ Within(T, e) => Within(T, s)
          /\ \A x \in Component : s.defs[x] = IF x \in moves THEN Moved(e, x) ELSE e.defs[x]
  BY SettledForm
<1>1. /\ Defined(s) \subseteq Defined(e)
      /\ \A x \in Component : s.defs[x] = IF x \in moves THEN Moved(e, x) ELSE e.defs[x]
  BY <1>0
<1> HIDE DEF s, moves
<1>2. ASSUME NEW x \in Defined(e)
      PROVE  x \in Defined(s)
  <2>1. Moved(e, x) # NoDefinition /\ e.defs[x] # NoDefinition /\ x \in Component
    BY MovedForm DEF NoneIsNoSource, Defined
  <2> QED
    BY <1>1, <2>1 DEF Defined
<1> QED
  BY <1>1, <1>2 DEF s

(* What applying the batch leads to.                                         *)
LEMMA AppliedAlong ==
  ASSUME NoneIsNoSource, NEW d, DocForm(d), Sound(d), NEW cmds, IsSeq(cmds),
         \A c \in Range(cmds) : CommandForm(c), NEW W,
         Blank(cmds) \/ FollowsFrom(cmds, W, Defined(d)), Applied(d, cmds).ok
  PROVE  Along(d, cmds, W, Len(cmds), Applied(d, cmds))
<1> DEFINE a == Folded(d, cmds)
           e == a.doc
           s == Settled(d, e, a.touched)
           r == [ok |-> a.ok, doc |-> IF a.ok THEN s ELSE d, inverse |-> a.inverse]
<1>1. Applied(d, cmds) = r
  BY DEF Applied, Outcome
<1>2. a.ok
  BY <1>1
<1>3. DocForm(e)
  BY <1>2, BatchSteps DEF Reached
<1>4. Along(d, cmds, W, Len(cmds), a)
  BY <1>2, BatchAlong
<1> HIDE DEF a
<1>5. Defined(s) = Defined(e) /\ (Within(At(Defined(e)), e) => Within(At(Defined(e)), s))
  <2>1. Defined(s) = Defined(e)
    BY <1>3, SettledDefined
  <2> DEFINE T == At(Defined(e))
  <2>2. Within(T, e) => Within(T, s)
    BY <1>3, SettledForm
  <2> QED
    BY <2>1, <2>2
<1> HIDE DEF s
<1>6. Sound(s)
  BY <1>4, <1>5 DEF Along, Sound
<1>7. r.doc = s /\ r.inverse = a.inverse
  BY <1>2
<1> HIDE DEF r
<1>8. Along(d, cmds, W, Len(cmds), r)
  BY <1>4, <1>5, <1>6, <1>7 DEF Along
<1> QED
  BY <1>1, <1>8

LEMMA AppliedReturns ==
  ASSUME NoneIsNoSource, NEW d, DocForm(d), Sound(d), NEW cmds, IsSeq(cmds),
         \A c \in Range(cmds) : CommandForm(c),
         Blank(cmds) \/ (AllKept(cmds) /\ \E E : Carries(cmds, Defined(d), E)),
         NEW r, r = Applied(d, cmds), r.ok
  PROVE  /\ Sound(r.doc)
         /\ Carries(r.inverse, Defined(r.doc), Defined(d))
         /\ AllKept(cmds) => \A E : Carries(cmds, Defined(d), E) => Defined(r.doc) = E
<1>1. ASSUME NEW E, AllKept(cmds), Carries(cmds, Defined(d), E)
      PROVE  Sound(r.doc) /\ Carries(r.inverse, Defined(r.doc), Defined(d)) /\ Defined(r.doc) = E
  <2>1. PICK W : W[0] = Defined(d) /\ W[Len(cmds)] = E /\ Course(cmds, W)
    BY <1>1 DEF Carries
  <2>2. FollowsFrom(cmds, W, Defined(d))
    BY <1>1, <2>1 DEF FollowsFrom
  <2>3. Along(d, cmds, W, Len(cmds), r)
    BY <2>2, AppliedAlong
  <2> QED
    BY <2>1, <2>2, <2>3 DEF Along
<1>2. ASSUME Blank(cmds)
      PROVE  Sound(r.doc) /\ Carries(r.inverse, Defined(r.doc), Defined(d))
  <2> DEFINE W == <<>>
  <2>1. Along(d, cmds, W, Len(cmds), r)
    BY <1>2, AppliedAlong
  <2> QED
    BY <2>1 DEF Along
<1> QED
  BY <1>1, <1>2

-----------------------------------------------------------------------------
(* The invariant: what refers to a definition finds it, and the entries of a *)
(* stack, taken in its order, lead on from the definitions there are.        *)

Chain(s, D) == \E V : V[0] = D /\ \A i \in 1 .. Len(s) : Carries(s[i], V[i - 1], V[i])

ReferenceInv ==
    /\ Sound(doc)
    /\ \A h \in Host : Chain(undo[h], Defined(doc)) /\ Chain(redo[h], Defined(doc))

(* One host edits the document.                                              *)
OneHost == \A g, h \in Host : g = h

LEMMA ChainEmpty == \A D : Chain(<<>>, D)
<1> TAKE D
<1> DEFINE V == [k \in {0} |-> D]
           s == <<>>
<1>1. V[0] = D /\ Len(s) = 0
  OBVIOUS
<1> HIDE DEF V, s
<1>2. Chain(s, D)
  BY <1>1 DEF Chain
<1> QED
  BY <1>2 DEF s

LEMMA ChainPush ==
  ASSUME NEW s, IsSeq(s), NEW D, Chain(s, D), NEW e, NEW E, Carries(e, E, D)
  PROVE  Chain(<<e>> \o s, E)
<1> DEFINE n == Len(s)
           t == <<e>> \o s
           W(V) == [k \in 0 .. n + 1 |-> IF k = 0 THEN E ELSE V[k - 1]]
<1>1. PICK V : V[0] = D /\ \A i \in 1 .. n : Carries(s[i], V[i - 1], V[i])
  BY DEF Chain
<1>2. n \in Nat
  BY LenIs
<1>3. Len(t) = n + 1 /\ \A i \in 1 .. n + 1 : t[i] = IF i = 1 THEN e ELSE s[i - 1]
  BY DEF IsSeq
<1> HIDE DEF n, t
<1>4. W(V)[0] = E /\ \A i \in 1 .. n + 1 : W(V)[i] = V[i - 1]
  BY <1>2
<1> HIDE DEF W
<1>5. \A i \in 1 .. n + 1 : Carries(t[i], W(V)[i - 1], W(V)[i])
  <2> TAKE i \in 1 .. n + 1
  <2>1. CASE i = 1
    <3>1. W(V)[i - 1] = E /\ W(V)[i] = D /\ t[i] = e
      BY <1>1, <1>2, <1>3, <1>4, <2>1
    <3> QED
      BY <3>1
  <2>2. CASE i # 1
    <3>1. i - 1 \in 1 .. n /\ i - 1 \in 1 .. n + 1
      BY <1>2, <2>2
    <3>2. W(V)[i - 1] = V[(i - 1) - 1] /\ W(V)[i] = V[i - 1] /\ t[i] = s[i - 1]
      BY <1>3, <1>4, <2>2, <3>1
    <3>3. Carries(s[i - 1], V[(i - 1) - 1], V[i - 1])
      BY <1>1, <3>1
    <3> QED
      BY <3>2, <3>3
  <2> QED
    BY <2>1, <2>2
<1>6. Chain(t, E)
  BY <1>3, <1>4, <1>5 DEF Chain
<1> QED
  BY <1>6 DEF t

LEMMA ChainPop ==
  ASSUME NEW s, IsSeq(s), s # <<>>, NEW D, Chain(s, D)
  PROVE  \E E : Carries(Head(s), D, E) /\ Chain(Tail(s), E)
<1> DEFINE n == Len(s)
           t == Tail(s)
           W(V) == [k \in 0 .. n - 1 |-> V[k + 1]]
<1>1. PICK V : V[0] = D /\ \A i \in 1 .. n : Carries(s[i], V[i - 1], V[i])
  BY DEF Chain
<1>2. n \in Nat /\ n >= 1 /\ Head(s) = s[1]
  BY DEF IsSeq
<1>3. Len(t) = n - 1 /\ \A i \in 1 .. n - 1 : t[i] = s[i + 1]
  BY <1>2 DEF IsSeq
<1> HIDE DEF n, t
<1>4. Carries(Head(s), D, V[1])
  <2>1. 1 \in 1 .. n /\ 1 - 1 = 0
    BY <1>2
  <2> QED
    BY <1>1, <1>2, <2>1
<1>5. \A k \in 0 .. n - 1 : W(V)[k] = V[k + 1]
  OBVIOUS
<1> HIDE DEF W
<1>6. W(V)[0] = V[1]
  BY <1>2, <1>5
<1>7. \A i \in 1 .. n - 1 : Carries(t[i], W(V)[i - 1], W(V)[i])
  <2> TAKE i \in 1 .. n - 1
  <2>1. i + 1 \in 1 .. n /\ (i + 1) - 1 = i /\ i - 1 \in 0 .. n - 1 /\ i \in 0 .. n - 1 /\ (i - 1) + 1 = i
    BY <1>2
  <2>2. Carries(s[i + 1], V[i], V[i + 1])
    BY <1>1, <2>1
  <2>3. W(V)[i - 1] = V[i] /\ W(V)[i] = V[i + 1]
    BY <1>5, <2>1
  <2> QED
    BY <1>3, <2>2, <2>3
<1>8. Chain(t, V[1])
  BY <1>3, <1>6, <1>7 DEF Chain
<1> QED
  BY <1>4, <1>8 DEF t

(* A host that submits commands.                                             *)
LEMMA RecordReturns ==
  ASSUME NoneIsNoSource, OneHost, FormInv, ReferenceInv, NEW h \in Host, NEW cmds, IsSeq(cmds),
         \A c \in Range(cmds) : CommandForm(c),
         Blank(cmds) \/ (AllKept(cmds) /\ \E E : Carries(cmds, Defined(doc), E)),
         Record(h, Applied(doc, cmds))
  PROVE  ReferenceInv'
<1> DEFINE r == Applied(doc, cmds)
<1>1. /\ r.ok /\ doc' = r.doc
      /\ undo' = [undo EXCEPT ![h] = <<r.inverse>> \o undo[h]] /\ redo' = [redo EXCEPT ![h] = <<>>]
  BY DEF Record, Commits
<1>2. DocForm(doc) /\ Sound(doc) /\ Chain(undo[h], Defined(doc))
  BY DEF FormInv, ReferenceInv
<1>3. /\ undo = [g \in Host |-> undo[g]] /\ redo = [g \in Host |-> redo[g]] /\ IsSeq(undo[h])
  BY DEF FormInv, StackForm
<1>4. Sound(r.doc) /\ Carries(r.inverse, Defined(r.doc), Defined(doc))
  BY <1>1, <1>2, AppliedReturns
<1> HIDE DEF r
<1>5. undo'[h] = <<r.inverse>> \o undo[h] /\ redo'[h] = <<>>
  BY <1>1, <1>3
<1>6. Chain(undo'[h], Defined(doc'))
  BY <1>1, <1>2, <1>3, <1>4, <1>5, ChainPush
<1>7. Chain(redo'[h], Defined(doc'))
  BY <1>5, ChainEmpty
<1>8. \A g \in Host : g = h
  BY DEF OneHost
<1> QED
  BY <1>1, <1>4, <1>6, <1>7, <1>8 DEF ReferenceInv

(* A host that undoes or redoes.                                             *)
LEMMA MoveReturns ==
  ASSUME NoneIsNoSource, FormInv, Sound(doc), NEW s, IsSeq(s), s # <<>>, Chain(s, Defined(doc)),
         Entry(Head(s), named), NEW t, IsSeq(t), Chain(t, Defined(doc)),
         NEW r, r = Applied(doc, Head(s)), Commits(r)
  PROVE  /\ Sound(doc')
         /\ Chain(Tail(s), Defined(doc'))
         /\ Chain(<<r.inverse>> \o t, Defined(doc'))
<1> DEFINE cmds == Head(s)
<1>1. r.ok /\ doc' = r.doc /\ DocForm(doc)
  BY DEF Commits, FormInv
<1>2. PICK E : Carries(cmds, Defined(doc), E) /\ Chain(Tail(s), E)
  BY ChainPop
<1>3. IsSeq(cmds) /\ AllKept(cmds) /\ \A c \in Range(cmds) : CommandForm(c)
  BY DEF Entry, AllKept, CommandForm
<1> HIDE DEF cmds
<1>4. /\ Sound(r.doc)
      /\ Carries(r.inverse, Defined(r.doc), Defined(doc))
      /\ Defined(r.doc) = E
  BY <1>1, <1>2, <1>3, AppliedReturns DEF cmds
<1> QED
  BY <1>1, <1>2, <1>4, ChainPush

LEMMA UndoReturns ==
  ASSUME NoneIsNoSource, OneHost, FormInv, ReferenceInv, NEW h \in Host, Undo(h)
  PROVE  ReferenceInv'
<1> DEFINE s == undo[h]
           t == redo[h]
           r == Applied(doc, Head(s))
<1>1. /\ s # <<>> /\ Commits(r)
      /\ undo' = [undo EXCEPT ![h] = Tail(s)] /\ redo' = [redo EXCEPT ![h] = <<r.inverse>> \o t]
  BY DEF Undo, MoveBack
<1>2. /\ undo = [g \in Host |-> undo[g]] /\ redo = [g \in Host |-> redo[g]] /\ IsSeq(s) /\ IsSeq(t)
      /\ \A cmds \in Range(s) : Entry(cmds, named)
  BY DEF FormInv, StackForm
<1>3. Sound(doc) /\ Chain(s, Defined(doc)) /\ Chain(t, Defined(doc))
  BY DEF ReferenceInv
<1>4. undo'[h] = Tail(s) /\ redo'[h] = <<r.inverse>> \o t
  BY <1>1, <1>2
<1> HIDE DEF s, t
<1>5. Entry(Head(s), named)
  BY <1>1, <1>2, Popped
<1> HIDE DEF r
<1>6. /\ Sound(doc')
      /\ Chain(Tail(s), Defined(doc'))
      /\ Chain(<<r.inverse>> \o t, Defined(doc'))
  BY <1>1, <1>2, <1>3, <1>5, MoveReturns DEF r
<1>7. \A g \in Host : g = h
  BY DEF OneHost
<1> QED
  BY <1>4, <1>6, <1>7 DEF ReferenceInv

LEMMA RedoReturns ==
  ASSUME NoneIsNoSource, OneHost, FormInv, ReferenceInv, NEW h \in Host, Redo(h)
  PROVE  ReferenceInv'
<1> DEFINE s == redo[h]
           t == undo[h]
           r == Applied(doc, Head(s))
<1>1. /\ s # <<>> /\ Commits(r)
      /\ redo' = [redo EXCEPT ![h] = Tail(s)] /\ undo' = [undo EXCEPT ![h] = <<r.inverse>> \o t]
  BY DEF Redo, MoveForth
<1>2. /\ undo = [g \in Host |-> undo[g]] /\ redo = [g \in Host |-> redo[g]] /\ IsSeq(s) /\ IsSeq(t)
      /\ \A cmds \in Range(s) : Entry(cmds, named)
  BY DEF FormInv, StackForm
<1>3. Sound(doc) /\ Chain(s, Defined(doc)) /\ Chain(t, Defined(doc))
  BY DEF ReferenceInv
<1>4. redo'[h] = Tail(s) /\ undo'[h] = <<r.inverse>> \o t
  BY <1>1, <1>2
<1> HIDE DEF s, t
<1>5. Entry(Head(s), named)
  BY <1>1, <1>2, Popped
<1> HIDE DEF r
<1>6. /\ Sound(doc')
      /\ Chain(Tail(s), Defined(doc'))
      /\ Chain(<<r.inverse>> \o t, Defined(doc'))
  BY <1>1, <1>2, <1>3, <1>5, MoveReturns DEF r
<1>7. \A g \in Host : g = h
  BY DEF OneHost
<1> QED
  BY <1>4, <1>6, <1>7 DEF ReferenceInv

-----------------------------------------------------------------------------
(* What the hosts submit.                                                    *)

LEMMA BlankReturns ==
  ASSUME NoneIsNoSource, OneHost, FormInv, ReferenceInv, NEW h \in Host, NEW c, CommandForm(c),
         Mentions(c) = {}, Record(h, Applied(doc, <<c>>))
  PROVE  ReferenceInv'
<1> DEFINE cmds == <<c>>
<1>1. IsSeq(cmds) /\ Range(cmds) = {c}
  BY Single
<1>2. Record(h, Applied(doc, cmds))
  OBVIOUS
<1> HIDE DEF cmds
<1>3. Blank(cmds) /\ \A e \in Range(cmds) : CommandForm(e)
  BY <1>1 DEF Blank
<1> QED
  BY <1>1, <1>2, <1>3, RecordReturns

(* What a host submits without bringing an instance.                         *)
LEMMA HarmlessMention == \A c : Harmless(c) => CommandForm(c) /\ Mentions(c) = {}
BY DEF Harmless, Mentions, Births

LEMMA HarmlessReturns ==
  ASSUME NoneIsNoSource, OneHost, FormInv, ReferenceInv, NEW h \in Host, NEW c, Harmless(c),
         Record(h, Applied(doc, <<c>>))
  PROVE  ReferenceInv'
BY HarmlessMention, BlankReturns

LEMMA NodeCreateReturns ==
  ASSUME NoneIsNoSource, OneHost, FormInv, ReferenceInv, NEW h \in Host, NodeCreate(h)
  PROVE  ReferenceInv'
<1>1. PICK p \in Places(doc) :
        Submit(h, <<[type |-> "node.create", place |-> p, id |-> Fresh(1), under |-> Top(doc, p),
                     nodes |-> {PlainNode(Fresh(1), Top(doc, p), "absent")}]>>)
  BY DEF NodeCreate
<1> DEFINE n == PlainNode(Fresh(1), Top(doc, p), "absent")
           c == [type |-> "node.create", place |-> p, id |-> Fresh(1), under |-> Top(doc, p),
                 nodes |-> {n}]
<1>2. TreeForm({n}) /\ n.of = Plain
  BY PlainForm, FS_Singleton DEF TreeForm
<1> HIDE DEF n
<1>3. Harmless(c)
  <2>1. KeptForm(c)
    BY <1>2 DEF KeptForm
  <2> QED
    BY <1>2, <2>1 DEF Harmless, CommandForm, Births
<1>4. Record(h, Applied(doc, <<c>>))
  BY <1>1 DEF Submit, n
<1> QED
  BY <1>3, <1>4, HarmlessReturns

LEMMA NodeDeleteReturns ==
  ASSUME NoneIsNoSource, OneHost, FormInv, ReferenceInv, NEW h \in Host, NodeDelete(h)
  PROVE  ReferenceInv'
<1>1. PICK p, id :
        Submit(h, <<[type |-> "node.delete", place |-> p, id |-> id]>>)
  BY DEF NodeDelete
<1> DEFINE c == [type |-> "node.delete", place |-> p, id |-> id]
<1>2. Harmless(c)
  BY DEF Harmless, CommandForm, KeptForm, Births
<1>3. Record(h, Applied(doc, <<c>>))
  BY <1>1 DEF Submit
<1> QED
  BY <1>2, <1>3, HarmlessReturns

LEMMA NodeLockReturns ==
  ASSUME NoneIsNoSource, OneHost, FormInv, ReferenceInv, NEW h \in Host, NodeLock(h)
  PROVE  ReferenceInv'
<1>1. PICK p, id, lock :
        Submit(h, <<[type |-> "node.update", place |-> p, id |-> id, key |-> "locked", to |-> lock]>>)
  BY DEF NodeLock
<1> DEFINE c == [type |-> "node.update", place |-> p, id |-> id, key |-> "locked", to |-> lock]
<1>2. Harmless(c)
  BY DEF Harmless, CommandForm, KeptForm, Births
<1>3. Record(h, Applied(doc, <<c>>))
  BY <1>1 DEF Submit
<1> QED
  BY <1>2, <1>3, HarmlessReturns

LEMMA ComponentDeleteReturns ==
  ASSUME NoneIsNoSource, OneHost, FormInv, ReferenceInv, NEW h \in Host, ComponentDelete(h)
  PROVE  ReferenceInv'
<1>1. PICK x :
        Submit(h, <<[type |-> "component.delete", component |-> x]>>)
  BY DEF ComponentDelete
<1> DEFINE c == [type |-> "component.delete", component |-> x]
<1>2. Harmless(c)
  BY DEF Harmless, CommandForm, KeptForm, Births
<1>3. Record(h, Applied(doc, <<c>>))
  BY <1>1 DEF Submit
<1> QED
  BY <1>2, <1>3, HarmlessReturns

LEMMA UpdatePropertyReturns ==
  ASSUME NoneIsNoSource, OneHost, FormInv, ReferenceInv, NEW h \in Host, UpdateProperty(h)
  PROVE  ReferenceInv'
<1>1. PICK x, b :
        Submit(h, <<[type |-> "component.update-property", component |-> x, binding |-> b, rev |-> 0]>>)
  BY DEF UpdateProperty
<1> DEFINE c == [type |-> "component.update-property", component |-> x, binding |-> b, rev |-> 0]
<1>2. Harmless(c)
  BY DEF Harmless, CommandForm, KeptForm, Births
<1>3. Record(h, Applied(doc, <<c>>))
  BY <1>1 DEF Submit
<1> QED
  BY <1>2, <1>3, HarmlessReturns

LEMMA RemovePropertyReturns ==
  ASSUME NoneIsNoSource, OneHost, FormInv, ReferenceInv, NEW h \in Host, RemoveProperty(h)
  PROVE  ReferenceInv'
<1>1. PICK x, p :
        Submit(h, <<[type |-> "component.remove-property", component |-> x, property |-> p, rev |-> 0]>>)
  BY DEF RemoveProperty
<1> DEFINE c == [type |-> "component.remove-property", component |-> x, property |-> p, rev |-> 0]
<1>2. Harmless(c)
  BY DEF Harmless, CommandForm, KeptForm, Births
<1>3. Record(h, Applied(doc, <<c>>))
  BY <1>1 DEF Submit
<1> QED
  BY <1>2, <1>3, HarmlessReturns

LEMMA SetOverrideReturns ==
  ASSUME NoneIsNoSource, OneHost, FormInv, ReferenceInv, NEW h \in Host, SetOverride(h)
  PROVE  ReferenceInv'
<1>1. PICK p, id, q, v :
        Submit(h, <<[type |-> "component-instance.set-override", place |-> p, id |-> id,
                      property |-> q, value |-> v]>>)
  BY DEF SetOverride
<1> DEFINE c == [type |-> "component-instance.set-override", place |-> p, id |-> id,
                  property |-> q, value |-> v]
<1>2. Harmless(c)
  BY DEF Harmless, CommandForm, KeptForm, Births
<1>3. Record(h, Applied(doc, <<c>>))
  BY <1>1 DEF Submit
<1> QED
  BY <1>2, <1>3, HarmlessReturns

LEMMA ResetOverrideReturns ==
  ASSUME NoneIsNoSource, OneHost, FormInv, ReferenceInv, NEW h \in Host, ResetOverride(h)
  PROVE  ReferenceInv'
<1>1. PICK p, id, q :
        Submit(h, <<[type |-> "component-instance.reset-override", place |-> p, id |-> id, property |-> q]>>)
  BY DEF ResetOverride
<1> DEFINE c == [type |-> "component-instance.reset-override", place |-> p, id |-> id, property |-> q]
<1>2. Harmless(c)
  BY DEF Harmless, CommandForm, KeptForm, Births
<1>3. Record(h, Applied(doc, <<c>>))
  BY <1>1 DEF Submit
<1> QED
  BY <1>2, <1>3, HarmlessReturns

LEMMA ResetAllOverridesReturns ==
  ASSUME NoneIsNoSource, OneHost, FormInv, ReferenceInv, NEW h \in Host, ResetAllOverrides(h)
  PROVE  ReferenceInv'
<1>1. PICK p, id :
        Submit(h, <<[type |-> "component-instance.reset-all-overrides", place |-> p, id |-> id]>>)
  BY DEF ResetAllOverrides
<1> DEFINE c == [type |-> "component-instance.reset-all-overrides", place |-> p, id |-> id]
<1>2. Harmless(c)
  BY DEF Harmless, CommandForm, KeptForm, Births
<1>3. Record(h, Applied(doc, <<c>>))
  BY <1>1 DEF Submit
<1> QED
  BY <1>2, <1>3, HarmlessReturns

LEMMA ComponentRenameReturns ==
  ASSUME NoneIsNoSource, OneHost, FormInv, ReferenceInv, NEW h \in Host, ComponentRename(h)
  PROVE  ReferenceInv'
<1>1. PICK x, name : Submit(h, <<Renaming(x, name)>>)
  BY DEF ComponentRename
<1>2. Record(h, Applied(doc, <<Renaming(x, name)>>))
  BY <1>1 DEF Submit
<1> QED
  BY <1>2, RenamingForm, HarmlessReturns

LEMMA AddPropertyReturns ==
  ASSUME NoneIsNoSource, OneHost, FormInv, ReferenceInv, NEW h \in Host, AddProperty(h)
  PROVE  ReferenceInv'
<1>1. PICK x, b, at : Submit(h, <<Exposing(x, b, at)>>)
  BY DEF AddProperty
<1>2. Record(h, Applied(doc, <<Exposing(x, b, at)>>))
  BY <1>1 DEF Submit
<1> QED
  BY <1>2, ExposingForm, HarmlessReturns

LEMMA InstanceDetachReturns ==
  ASSUME NoneIsNoSource, OneHost, FormInv, ReferenceInv, NEW h \in Host, InstanceDetach(h)
  PROVE  ReferenceInv'
<1>1. PICK p, id : Submit(h, <<Detaching(p, id, 0)>>)
  BY DEF InstanceDetach
<1>2. Record(h, Applied(doc, <<Detaching(p, id, 0)>>))
  BY <1>1 DEF Submit
<1> QED
  BY <1>2, DetachingForm, HarmlessReturns

LEMMA InstanceInsertReturns ==
  ASSUME NoneIsNoSource, OneHost, FormInv, ReferenceInv, NEW h \in Host, InstanceInsert(h)
  PROVE  ReferenceInv'
<1>1. PICK pair \in Nestings :
        Submit(h, <<[type |-> "component-instance.insert", component |-> pair[1], place |-> pair[2],
                     instance |-> Fresh(1)]>>)
  BY DEF InstanceInsert
<1> DEFINE c == [type |-> "component-instance.insert", component |-> pair[1], place |-> pair[2],
                 instance |-> Fresh(1)]
<1>2. CommandForm(c) /\ Mentions(c) = {}
  BY DEF CommandForm, FirstForm, Mentions
<1>3. Record(h, Applied(doc, <<c>>))
  BY <1>1 DEF Submit
<1> HIDE DEF c
<1> QED
  BY <1>2, <1>3, BlankReturns

LEMMA ComponentDuplicateReturns ==
  ASSUME NoneIsNoSource, OneHost, FormInv, ReferenceInv, NEW h \in Host, ComponentDuplicate(h)
  PROVE  ReferenceInv'
<1>1. PICK x, copy, fresh :
        /\ copy \in Component
        /\ Submit(h, <<[type |-> "component.duplicate", component |-> x, copy |-> copy, fresh |-> fresh]>>)
  BY DEF ComponentDuplicate
<1> DEFINE c == [type |-> "component.duplicate", component |-> x, copy |-> copy, fresh |-> fresh]
<1>2. CommandForm(c) /\ Mentions(c) = {}
  BY <1>1 DEF CommandForm, FirstForm, Mentions
<1>3. Record(h, Applied(doc, <<c>>))
  BY <1>1 DEF Submit
<1> HIDE DEF c
<1> QED
  BY <1>2, <1>3, BlankReturns

LEMMA ComponentExtractReturns ==
  ASSUME NoneIsNoSource, OneHost, FormInv, ReferenceInv, NEW h \in Host, ComponentExtract(h)
  PROVE  ReferenceInv'
<1>1. PICK x, p, ids, fresh, reuse :
        /\ x \in Component
        /\ Submit(h, <<[type |-> "component.extract", place |-> p, ids |-> ids, component |-> x,
                       root |-> Fresh(1), instance |-> Fresh(2), fresh |-> fresh,
                       reuse |-> reuse]>>)
  BY DEF ComponentExtract
<1> DEFINE c == [type |-> "component.extract", place |-> p, ids |-> ids, component |-> x,
                 root |-> Fresh(1), instance |-> Fresh(2), fresh |-> fresh, reuse |-> reuse]
<1>2. CommandForm(c) /\ Mentions(c) = {}
  BY <1>1 DEF CommandForm, FirstForm, Mentions
<1>3. Record(h, Applied(doc, <<c>>))
  BY <1>1 DEF Submit
<1> HIDE DEF c
<1> QED
  BY <1>2, <1>3, BlankReturns

(* A host that brings a definition: what it holds instances of is there, or  *)
(* is the definition itself.                                                 *)

LEMMA ComponentCreateReturns ==
  ASSUME NoneIsNoSource, OneHost, FormInv, ReferenceInv, NEW h \in Host, ComponentCreate(h)
  PROVE  ReferenceInv'
<1>1. PICK x \in Component \ named :
        \E def \in {NewDefinition(used) : used \in Defined(doc) \cup {x, Plain}}
                   \cup {doc.defs[y] : y \in Defined(doc)} :
            Submit(h, <<[type |-> "component.create", component |-> x, definition |-> def]>>)
  BY DEF ComponentCreate
<1>2. PICK def \in {NewDefinition(used) : used \in Defined(doc) \cup {x, Plain}}
                   \cup {doc.defs[y] : y \in Defined(doc)} :
            Submit(h, <<[type |-> "component.create", component |-> x, definition |-> def]>>)
  BY <1>1
<1> DEFINE c == [type |-> "component.create", component |-> x, definition |-> def]
           D == Defined(doc)
<1>3. Record(h, Applied(doc, <<c>>))
  BY <1>2 DEF Submit
<1>4. D \subseteq Component /\ DocForm(doc) /\ Sound(doc)
  BY PlacesAre DEF FormInv, ReferenceInv
<1>5. SourceForm(def) /\ \A n \in def.tree : n.of # Plain => n.of \in D \cup {x}
  <2>1. ASSUME NEW used \in D \cup {x, Plain}, def = NewDefinition(used)
        PROVE  SourceForm(def) /\ \A n \in def.tree : n.of # Plain => n.of \in D \cup {x}
    <3>1. used \in Component \cup {Plain}
      BY <1>4
    <3> QED
      BY <2>1, <3>1, NewForm
  <2>2. ASSUME NEW y \in D, def = doc.defs[y]
        PROVE  SourceForm(def) /\ \A n \in def.tree : n.of # Plain => n.of \in D \cup {x}
    <3>1. SourceForm(def) /\ y \in Place /\ Tree(doc, y) = def.tree
      BY <1>4, <2>2, ComponentAssumption DEF DocForm, Place, Tree
    <3>2. \A n \in Tree(doc, y) : n.of # Plain => n.of \in D
      BY <1>4, <3>1, SoundTree
    <3> HIDE DEF D
    <3> QED
      BY <3>1, <3>2
  <2> QED
    BY <2>1, <2>2
<1>6. KeptForm(c) /\ c.type = "component.create" /\ c.component = x /\ c.definition = def
  BY <1>5 DEF KeptForm
<1> HIDE DEF c, D
<1>7. Mentions(c) \subseteq D \cup {x} /\ D \cup {x} = Becomes(c, D)
  BY <1>5, <1>6 DEF Mentions, Becomes
<1> DEFINE cmds == <<c>>
<1>8. Carries(cmds, D, D \cup {x})
  BY <1>7, CarriesOne
<1>9. IsSeq(cmds) /\ Range(cmds) = {c}
  BY Single
<1> HIDE DEF cmds
<1>10. AllKept(cmds) /\ \A e \in Range(cmds) : CommandForm(e)
  BY <1>6, <1>9 DEF AllKept, CommandForm
<1>11. Record(h, Applied(doc, cmds))
  BY <1>3 DEF cmds
<1> QED
  BY <1>8, <1>9, <1>10, <1>11, RecordReturns DEF D

LEMMA RenameAndExposeReturns ==
  ASSUME NoneIsNoSource, OneHost, FormInv, ReferenceInv, NEW h \in Host, RenameAndExpose(h)
  PROVE  ReferenceInv'
<1>1. PICK x, b : Submit(h, <<Renaming(x, "Card"), Exposing(x, b, 1)>>)
  BY DEF RenameAndExpose
<1> DEFINE c == Renaming(x, "Card")
           e == Exposing(x, b, 1)
           cmds == <<c, e>>
<1>2. Record(h, Applied(doc, cmds))
  BY <1>1 DEF Submit
<1>3. Harmless(c) /\ Harmless(e)
  BY RenamingForm, ExposingForm
<1> HIDE DEF c, e
<1>4. IsSeq(cmds) /\ Range(cmds) = {c, e}
  <2>1. cmds \in Seq({c, e}) /\ Range(cmds) = {c, e}
    BY DEF Range
  <2> QED
    BY <2>1 DEF IsSeq
<1> HIDE DEF cmds
<1>5. Blank(cmds) /\ \A k \in Range(cmds) : CommandForm(k)
  BY <1>3, <1>4, HarmlessMention DEF Blank
<1> QED
  BY <1>2, <1>4, <1>5, RecordReturns

LEMMA DetachAllAndDeleteReturns ==
  ASSUME NoneIsNoSource, OneHost, FormInv, ReferenceInv, NEW h \in Host, DetachAllAndDelete(h)
  PROVE  ReferenceInv'
<1>1. PICK x \in Defined(doc) :
        LET inSources == SetToSeq({r \in References(doc, x) : r[1] \in Component})
            onPages == SetToSeq({r \in References(doc, x) : r[1] \in Page})
            refs == inSources \o onPages
            each == Cardinality(Inside(doc, x))
        IN  Submit(h, [i \in DOMAIN refs |-> Detaching(refs[i][1], refs[i][2].id, each * (i - 1))]
                      \o <<[type |-> "component.delete", component |-> x]>>)
  BY DEF DetachAllAndDelete
<1> DEFINE A == {r \in References(doc, x) : r[1] \in Component}
           B == {r \in References(doc, x) : r[1] \in Page}
           refs == SetToSeq(A) \o SetToSeq(B)
           each == Cardinality(Inside(doc, x))
           s == [i \in DOMAIN refs |-> Detaching(refs[i][1], refs[i][2].id, each * (i - 1))]
           c == [type |-> "component.delete", component |-> x]
           cmds == s \o <<c>>
<1>2. Record(h, Applied(doc, cmds))
  BY <1>1 DEF Submit
<1>3. IsSeq(refs)
  <2>1. IsFiniteSet(A) /\ IsFiniteSet(B)
    <3>1. IsFiniteSet(References(doc, x))
      BY ReferencesFinite DEF FormInv
    <3>2. A \subseteq References(doc, x) /\ B \subseteq References(doc, x)
      OBVIOUS
    <3> QED
      BY <3>1, <3>2, FS_Subset
  <2> HIDE DEF A, B
  <2>2. IsSeq(SetToSeq(A)) /\ IsSeq(SetToSeq(B))
    BY <2>1, ListForm, SeqIs
  <2> QED
    BY <2>2, SeqJoin
<1>4. \A i \in DOMAIN refs : Harmless(s[i])
  BY DetachingForm
<1>5. IsSeq(s) /\ \A e \in Range(s) : Harmless(e)
  <2>1. Len(refs) \in Nat /\ DOMAIN refs = 1 .. Len(refs)
    BY <1>3 DEF IsSeq
  <2> HIDE DEF refs
  <2>2. DOMAIN s = 1 .. Len(refs)
    BY <2>1
  <2>3. \A i \in 1 .. Len(refs) : s[i] \in Range(s)
    BY <2>2 DEF Range
  <2>4. s = [i \in 1 .. Len(refs) |-> s[i]]
    BY <2>1
  <2>5. \A e \in Range(s) : Harmless(e)
    BY <1>4, <2>1, <2>2 DEF Range
  <2> HIDE DEF s
  <2>6. s \in [1 .. Len(refs) -> Range(s)]
    BY <2>3, <2>4
  <2> QED
    BY <2>1, <2>5, <2>6 DEF IsSeq
<1>6. Harmless(c)
  BY DEF Harmless, CommandForm, KeptForm, Births
<1> HIDE DEF s, c
<1>7. IsSeq(cmds) /\ \A e \in Range(cmds) : Harmless(e)
  BY <1>5, <1>6, Single, SeqJoin
<1> HIDE DEF cmds
<1>8. Blank(cmds) /\ \A e \in Range(cmds) : CommandForm(e)
  BY <1>7, HarmlessMention DEF Blank
<1> QED
  BY <1>2, <1>7, <1>8, RecordReturns

-----------------------------------------------------------------------------
LEMMA InitReturns == Init => ReferenceInv
<1> SUFFICES ASSUME Init
             PROVE  ReferenceInv
  OBVIOUS
<1>1. \A p \in Place : \A n \in Tree(doc, p) : n.of # Plain => n.of \in Defined(doc)
  BY DocumentAssumption DEF Init
<1>2. Sound(doc)
  BY <1>1 DEF Sound, Within, At, Uses
<1>3. \A h \in Host : undo[h] = <<>> /\ redo[h] = <<>>
  BY DEF Init
<1> QED
  BY <1>2, <1>3, ChainEmpty DEF ReferenceInv

LEMMA NextReturns == NoneIsNoSource /\ OneHost /\ FormInv /\ ReferenceInv /\ [Next]_vars => ReferenceInv'
<1> SUFFICES ASSUME NoneIsNoSource, OneHost, FormInv, ReferenceInv, [Next]_vars
             PROVE  ReferenceInv'
  OBVIOUS
<1>1. CASE UNCHANGED vars
  BY <1>1 DEF vars, ReferenceInv
<1>2. CASE Next
  <2>1. PICK h \in Host :
          \/ NodeCreate(h) \/ NodeDelete(h) \/ NodeLock(h)
          \/ ComponentCreate(h) \/ ComponentExtract(h) \/ ComponentDuplicate(h) \/ ComponentDelete(h)
          \/ ComponentRename(h) \/ AddProperty(h) \/ UpdateProperty(h) \/ RemoveProperty(h)
          \/ InstanceInsert(h) \/ SetOverride(h) \/ ResetOverride(h) \/ ResetAllOverrides(h)
          \/ InstanceDetach(h) \/ DetachAllAndDelete(h) \/ RenameAndExpose(h)
          \/ Undo(h) \/ Redo(h)
    BY <1>2 DEF Next
  <2> QED
    BY <2>1, NodeCreateReturns, NodeDeleteReturns, NodeLockReturns, ComponentCreateReturns,
       ComponentExtractReturns, ComponentDuplicateReturns, ComponentDeleteReturns,
       ComponentRenameReturns, AddPropertyReturns, UpdatePropertyReturns, RemovePropertyReturns,
       InstanceInsertReturns, SetOverrideReturns, ResetOverrideReturns, ResetAllOverridesReturns,
       InstanceDetachReturns, DetachAllAndDeleteReturns, RenameAndExposeReturns, UndoReturns,
       RedoReturns
<1> QED
  BY <1>1, <1>2

(* NoDangling, for one host that edits, undoes and redoes as long as it      *)
(* likes: no instance on a page or in a Source is ever without its           *)
(* definition.  A deletion checks that; an undo that brings an instance back *)
(* does not, and finds the definition because the undo of its deletion, if   *)
(* there was one, came before.  With two hosts it may not (LC-DELETE).       *)
THEOREM NothingDangles == OneHost /\ NoneIsNoSource => (Spec => []NoDangling)
<1> SUFFICES ASSUME OneHost, NoneIsNoSource
             PROVE  Spec => []NoDangling
  OBVIOUS
<1>1. Init => FormInv /\ ReferenceInv
  BY InitKeeps, InitReturns
<1>2. FormInv /\ ReferenceInv /\ [Next]_vars => (FormInv /\ ReferenceInv)'
  BY NextKeeps, NextReturns DEF Kept
<1>3. FormInv /\ ReferenceInv => NoDangling
  BY PlacesAre, SoundTree DEF ReferenceInv, NoDangling
<1> QED
  BY <1>1, <1>2, <1>3, PTL DEF Spec
=============================================================================
