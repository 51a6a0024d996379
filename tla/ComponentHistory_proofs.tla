------------------------- MODULE ComponentHistory_proofs -------------------------
(***************************************************************************)
(* Proofs about ComponentHistory, for any number of hosts that edit, undo  *)
(* and redo on one document: no definition comes to embed itself, and a    *)
(* definition that changes has another revision.                           *)
(***************************************************************************)
EXTENDS ComponentHistory, IntervalInduction, FiniteSetTheorems, SequenceTheorems, TLAPS

-----------------------------------------------------------------------------
(* The form of nodes, Sources, documents and commands: what the records are  *)
(* made of, whatever ids they name.                                          *)

NodeForm(n) ==
    /\ n = [id |-> n.id, under |-> n.under, of |-> n.of, over |-> n.over, locked |-> n.locked]
    /\ n.of \in Component \cup {Plain}
    /\ n.over = [q \in Property |-> n.over[q]]

TreeForm(nodes) == IsFiniteSet(nodes) /\ \A n \in nodes : NodeForm(n)

SourceForm(def) ==
    /\ def = [name |-> def.name, rev |-> def.rev, root |-> def.root, tree |-> def.tree,
              props |-> def.props]
    /\ def.rev \in Nat
    /\ TreeForm(def.tree)

DocForm(d) ==
    /\ d = [page |-> d.page, defs |-> d.defs]
    /\ d.page = [p \in Page |-> d.page[p]]
    /\ d.defs = [c \in Component |-> d.defs[c]]
    /\ \A p \in Page : TreeForm(d.page[p])
    /\ \A c \in Defined(d) : SourceForm(d.defs[c])
    /\ IsFiniteSet(Defined(d))

Births == {"component.create", "component.extract", "component.duplicate"}

(* A command of a kind that inverses consist of.                             *)
KeptForm(c) ==
    \/ /\ c = [type |-> "node.create", place |-> c.place, id |-> c.id, under |-> c.under,
               nodes |-> c.nodes]
       /\ TreeForm(c.nodes)
    \/ c = [type |-> "node.delete", place |-> c.place, id |-> c.id]
    \/ /\ c = [type |-> "node.update", place |-> c.place, id |-> c.id, key |-> c.key, to |-> c.to]
       /\ c.key # "locked" => c.to = [q \in Property |-> c.to[q]]
    \/ /\ c = [type |-> "component.create", component |-> c.component, definition |-> c.definition]
       /\ c.component \in Component
       /\ SourceForm(c.definition)
    \/ c = [type |-> "component.delete", component |-> c.component]
    \/ /\ c = [type |-> "component.rename", component |-> c.component, to |-> c.to, rev |-> c.rev]
       /\ c.rev \in Nat
    \/ /\ c = [type |-> "component.add-property", component |-> c.component, binding |-> c.binding,
               at |-> c.at, rev |-> c.rev]
       /\ c.rev \in Nat
    \/ /\ c = [type |-> "component.update-property", component |-> c.component,
               binding |-> c.binding, rev |-> c.rev]
       /\ c.rev \in Nat
    \/ /\ c = [type |-> "component.remove-property", component |-> c.component,
               property |-> c.property, rev |-> c.rev]
       /\ c.rev \in Nat
    \/ c = [type |-> "component-instance.set-override", place |-> c.place, id |-> c.id,
            property |-> c.property, value |-> c.value]
    \/ c = [type |-> "component-instance.reset-override", place |-> c.place, id |-> c.id,
            property |-> c.property]
    \/ c = [type |-> "component-instance.reset-all-overrides", place |-> c.place, id |-> c.id]

(* A command that is only ever submitted.                                    *)
FirstForm(c) ==
    \/ /\ c = [type |-> "component.extract", place |-> c.place, ids |-> c.ids,
               component |-> c.component, root |-> c.root, instance |-> c.instance,
               fresh |-> c.fresh, reuse |-> c.reuse]
       /\ c.component \in Component
    \/ /\ c = [type |-> "component.duplicate", component |-> c.component, copy |-> c.copy,
               fresh |-> c.fresh]
       /\ c.copy \in Component
    \/ c = [type |-> "component-instance.insert", component |-> c.component, place |-> c.place,
            instance |-> c.instance]
    \/ c = [type |-> "component-instance.detach", place |-> c.place, id |-> c.id, fresh |-> c.fresh]

CommandForm(c) == KeptForm(c) \/ FirstForm(c)

-----------------------------------------------------------------------------
(* T holds every pair of a place and a Source it uses.                       *)
Within(T, d) == \A p \in Place : \A x \in Uses(d, p) : <<p, x>> \in T

(* What T has to hold for a command to keep a document within it.  Nothing   *)
(* is left of a definition that is none.                                     *)
Allowed(T, c) ==
    /\ c.type = "node.create" =>
          \A n \in c.nodes : n.of # Plain => <<c.place, n.of>> \in T
    /\ c.type = "component.create" /\ c.definition # NoDefinition =>
          \A n \in c.definition.tree : n.of # Plain => <<c.component, n.of>> \in T
    /\ c.type = "component.extract" =>
          /\ <<c.place, c.component>> \in T
          /\ \A x \in Component \ {c.component} : <<c.place, x>> \in T => <<c.component, x>> \in T
    /\ c.type = "component.duplicate" =>
          \A x \in Component : <<c.component, x>> \in T => <<c.copy, x>> \in T
    /\ c.type = "component-instance.insert" => <<c.place, c.component>> \in T

(* The definition a command adds to the registry.                            *)
Born(c) ==
    CASE c.type \in {"component.create", "component.extract"} -> {c.component}
      [] c.type = "component.duplicate" -> {c.copy}
      [] OTHER -> {}

(* What a command does to a document d that it leads to e.                   *)
Leads(T, d, c, e) ==
    /\ DocForm(e)
    /\ Within(T, d) /\ Allowed(T, c) => Within(T, e)
    /\ Defined(e) \subseteq Defined(d) \cup Born(c)
    /\ \A x \in Defined(d) \ Touches(d, c) :
          \/ e.defs[x] = d.defs[x]
          \/ c.type = "component.delete" /\ x \notin Defined(e)

(* What a command of the inverse of c is like, when c was applied to d.      *)
Backs(T, d, c, i) ==
    /\ KeptForm(i)
    /\ Within(T, d) => Allowed(T, i)
    /\ c.type \notin Births => i.type # "component.delete"
    /\ c.type # "component.delete" => i.type \notin Births
    /\ Born(i) \subseteq Defined(d)

IsSeq(s) == s \in Seq(Range(s))

BacksAll(T, d, c, cmds) == IsSeq(cmds) /\ \A i \in Range(cmds) : Backs(T, d, c, i)

(* acc[k]: what applyBatch has done after the first k commands.              *)
Batches(d, cmds, acc) ==
    /\ acc[0] = [ok |-> TRUE, doc |-> d, inverse |-> <<>>, touched |-> {}]
    /\ \A k \in 1 .. Len(cmds) : acc[k] = Fold(acc[k - 1], cmds[k])
    /\ Folded(d, cmds) = acc[Len(cmds)]

LEMMA FoldedUnfolds ==
  ASSUME NEW d, NEW T, NEW cmds \in Seq(T)
  PROVE  \E acc : Batches(d, cmds, acc)
<1> DEFINE N == Len(cmds)
           start == [ok |-> TRUE, doc |-> d, inverse |-> <<>>, touched |-> {}]
           Last1(s) == Max(s)
           Step(s, x) == Fold(x, cmds[Last1(s)])
           Run(f, n) == f = [s \in SUBSET (1 .. n) |-> IF s = {} THEN start
                                                       ELSE Step(s, f[s \ {Last1(s)}])]
           S == {n \in 0 .. N : \E f : Run(f, n)}
           iter == CHOOSE f : Run(f, N)
           acc == [k \in 0 .. N |-> iter[1 .. k]]
<1>1. N \in Nat /\ DOMAIN cmds = 1 .. N
  OBVIOUS
<1>2. Folded(d, cmds) = iter[1 .. N]
  BY <1>1 DEF Folded, FoldLeft, MapThenFoldSet
<1>3. ASSUME NEW k \in Nat, NEW s \in SUBSET (1 .. k), k \in s
      PROVE  Last1(s) = k
  <2>1. \A y \in s : y \in Nat /\ y <= k
    OBVIOUS
  <2>2. \A x \in s : (\A y \in s : x >= y) => x = k
    BY <1>3, <2>1
  <2>3. \A y \in s : k >= y
    BY <2>1
  <2> DEFINE P(x) == x \in s /\ \A y \in s : x >= y
  <2>4. P(k) /\ \A x : P(x) => x = k
    BY <1>3, <2>2, <2>3
  <2>5. Last1(s) = CHOOSE x : P(x)
    BY DEF Max
  <2> HIDE DEF P, Last1
  <2>6. P(CHOOSE x : P(x))
    BY <2>4
  <2> QED
    BY <2>4, <2>5, <2>6
<1> HIDE DEF start, Step, Last1
<1>4. 0 \in S
  <2> DEFINE g == [s \in SUBSET (1 .. 0) |-> start]
  <2>1. Run(g, 0)
    BY \A s \in SUBSET (1 .. 0) : s = {}
  <2> HIDE DEF Run, g
  <2> QED
    BY <1>1, <2>1
<1>5. ASSUME NEW k \in 1 .. N, k - 1 \in S
      PROVE  k \in S
  <2>1. PICK f : Run(f, k - 1)
    BY <1>5
  <2> DEFINE g == [s \in SUBSET (1 .. k) |-> IF k \in s THEN Step(s, f[s \ {k}]) ELSE f[s]]
  <2>2. \A s \in SUBSET (1 .. k) : g[s] = IF s = {} THEN start ELSE Step(s, g[s \ {Last1(s)}])
    <3> TAKE s \in SUBSET (1 .. k)
    <3>1. CASE k \in s
      <4>1. Last1(s) = k
        BY <1>3, <3>1
      <4>2. s \ {k} \in SUBSET (1 .. k) /\ k \notin s \ {k} /\ s # {}
        BY <3>1
      <4>3. g[s \ {k}] = f[s \ {k}]
        BY <4>2
      <4> QED
        BY <3>1, <4>1, <4>2, <4>3
    <3>2. CASE k \notin s
      <4>1. s \in SUBSET (1 .. k - 1) /\ s \ {Last1(s)} \in SUBSET (1 .. k - 1)
        <5>1. \A x \in s : x \in 1 .. k - 1
          BY <1>1, <3>2
        <5> QED
          BY <5>1
      <4>2. f[s] = IF s = {} THEN start ELSE Step(s, f[s \ {Last1(s)}])
        BY <2>1, <4>1
      <4>3. g[s] = f[s] /\ g[s \ {Last1(s)}] = f[s \ {Last1(s)}]
        BY <3>2, <4>1
      <4> QED
        BY <4>2, <4>3
    <3> QED
      BY <3>1, <3>2
  <2>3. Run(g, k)
    BY <2>2
  <2> HIDE DEF Run, g
  <2> QED
    BY <1>1, <2>3
<1>6. N \in S
  <2> HIDE DEF S
  <2>1. 0 .. N \subseteq S
    BY <1>1, <1>4, <1>5, Induction, Zenon
  <2> QED
    BY <1>1, <2>1
<1> HIDE DEF Run
<1>7. Run(iter, N)
  BY <1>6
<1> HIDE DEF iter
<1>8. iter[{}] = start
  BY <1>7 DEF Run
<1>9. \A k \in 1 .. N : iter[1 .. k] = Step(1 .. k, iter[1 .. k - 1]) /\ Last1(1 .. k) = k
  <2> TAKE k \in 1 .. N
  <2>1. Last1(1 .. k) = k
    BY <1>1, <1>3
  <2>2. (1 .. k) \ {k} = 1 .. k - 1
    <3>1. \A x : x \in (1 .. k) \ {k} <=> x \in 1 .. k - 1
      BY <1>1
    <3> QED
      BY <3>1
  <2>3. 1 .. k \in SUBSET (1 .. N) /\ k \in 1 .. k
    BY <1>1
  <2> QED
    BY <1>7, <2>1, <2>2, <2>3 DEF Run
<1>10. acc[0] = start
  BY <1>1, <1>8, 1 .. 0 = {}
<1>11. \A k \in 1 .. N : acc[k] = Fold(acc[k - 1], cmds[k])
  BY <1>1, <1>9 DEF Step
<1>12. Folded(d, cmds) = acc[N]
  BY <1>1, <1>2
<1> QED
  BY <1>10, <1>11, <1>12 DEF start, Batches
-----------------------------------------------------------------------------
(* Sequences of anything.                                                    *)

LEMMA SeqIs ==
  ASSUME NEW S, NEW s \in Seq(S)
  PROVE  IsSeq(s) /\ Range(s) \subseteq S
BY SeqOfRange, RangeOfSeq DEF IsSeq

LEMMA SeqJoin ==
  ASSUME NEW s, NEW t, IsSeq(s), IsSeq(t)
  PROVE  IsSeq(s \o t) /\ Range(s \o t) = Range(s) \cup Range(t)
<1> DEFINE U == Range(s) \cup Range(t)
<1>1. s \in Seq(U) /\ t \in Seq(U)
  <2>1. s \in Seq(Range(s)) /\ t \in Seq(Range(t))
    BY DEF IsSeq
  <2> HIDE DEF U
  <2>2. Range(s) \subseteq U /\ Range(t) \subseteq U
    BY DEF U
  <2> QED
    BY <2>1, <2>2, SeqMonotonic
<1> HIDE DEF U
<1>2. IsSeq(s \o t)
  <2>1. s \o t \in Seq(U)
    BY <1>1
  <2> QED
    BY <2>1, SeqIs
<1>3. Range(s \o t) = Range(s) \cup Range(t)
  BY <1>1, RangeConcatenation
<1> QED
  BY <1>2, <1>3

-----------------------------------------------------------------------------
(* Trees and what is planted.                                                *)

LEMMA TreesForm ==
  ASSUME NEW d, DocForm(d), NEW p
  PROVE  TreeForm(Tree(d, p))
<1>1. IsFiniteSet({})
  BY FS_EmptySet
<1> QED
  BY <1>1 DEF DocForm, Tree, TreeForm, SourceForm

LEMMA TreeWithin ==
  ASSUME NEW T, NEW d, DocForm(d), Within(T, d), NEW p \in Place, NEW n \in Tree(d, p), n.of # Plain
  PROVE  <<p, n.of>> \in T
BY DEF Within, Uses

LEMMA TheIn ==
  ASSUME NEW d, NEW p, NEW id, Holds(d, p, id)
  PROVE  The(d, p, id) \in Tree(d, p) /\ The(d, p, id).id = id
BY DEF Holds, IdsOf, The

LEMMA PlacesAre == \A d : Places(d) \subseteq Place /\ Defined(d) \subseteq Component
BY DEF Places, Place, Defined

(* A tree exchanged for another.                                             *)
LEMMA PlantKeeps ==
  ASSUME NEW T, NEW d, DocForm(d), NEW p \in Places(d), NEW tree, TreeForm(tree)
  PROVE  /\ DocForm(Plant(d, p, tree))
         /\ Defined(Plant(d, p, tree)) \subseteq Defined(d)
         /\ \A x \in Component : x # p => Plant(d, p, tree).defs[x] = d.defs[x]
         /\ Within(T, d) /\ (\A n \in tree : n.of # Plain => <<p, n.of>> \in T)
               => Within(T, Plant(d, p, tree))
<1> DEFINE e == Plant(d, p, tree)
<1>1. CASE p \in Page
  <2>1. e = [page |-> [q \in Page |-> IF q = p THEN tree ELSE d.page[q]], defs |-> d.defs]
    BY <1>1 DEF Plant, DocForm
  <2> HIDE DEF e
  <2>2. Defined(e) = Defined(d)
    BY <2>1 DEF Defined
  <2>3. DocForm(e)
    BY <2>1, <2>2 DEF DocForm
  <2>4. \A q \in Place : Tree(e, q) = IF q = p THEN tree ELSE Tree(d, q)
    BY <1>1, <2>1, <2>2 DEF Tree
  <2>5. ASSUME Within(T, d), \A n \in tree : n.of # Plain => <<p, n.of>> \in T
        PROVE  Within(T, e)
    BY <2>4, <2>5 DEF Within, Uses
  <2>6. \A x \in Component : e.defs[x] = d.defs[x]
    BY <2>1
  <2> QED
    BY <2>2, <2>3, <2>5, <2>6 DEF e
<1>2. CASE p \notin Page
  <2> DEFINE def == [d.defs[p] EXCEPT !.tree = tree]
  <2>1. p \in Component /\ p \in Defined(d) /\ SourceForm(d.defs[p])
    BY <1>2 DEF Places, Defined, DocForm
  <2>2. def = [name |-> d.defs[p].name, rev |-> d.defs[p].rev, root |-> d.defs[p].root,
               tree |-> tree, props |-> d.defs[p].props]
    BY <2>1 DEF SourceForm
  <2>3. SourceForm(def)
    BY <2>1, <2>2 DEF SourceForm
  <2>4. e = [page |-> d.page, defs |-> [x \in Component |-> IF x = p THEN def ELSE d.defs[x]]]
    BY <1>2, <2>1 DEF Plant, DocForm
  <2>5. def.tree = tree
    BY <2>2
  <2> HIDE DEF e, def
  <2>6. Defined(e) \subseteq Defined(d)
    BY <2>1, <2>4 DEF Defined
  <2>7. IsFiniteSet(Defined(e))
    BY <2>6, FS_Subset DEF DocForm
  <2>8. DocForm(e)
    <3>1. \A x \in Defined(e) : SourceForm(e.defs[x])
      BY <2>3, <2>4, <2>6 DEF DocForm, Defined
    <3> QED
      BY <2>4, <2>7, <3>1 DEF DocForm
  <2>9. \A q \in Place : Tree(e, q) \subseteq IF q = p THEN tree ELSE Tree(d, q)
    BY <1>2, <2>4, <2>5, <2>6 DEF Tree, Defined
  <2>10. ASSUME Within(T, d), \A n \in tree : n.of # Plain => <<p, n.of>> \in T
         PROVE  Within(T, e)
    <3>1. ASSUME NEW q \in Place, NEW x \in Uses(e, q)
          PROVE  <<q, x>> \in T
      <4>1. PICK n \in Tree(e, q) : n.of = x /\ x # Plain
        BY <3>1 DEF Uses
      <4>2. CASE q = p
        BY <2>9, <2>10, <4>1, <4>2
      <4>3. CASE q # p
        <5>1. n \in Tree(d, q)
          BY <2>9, <4>1, <4>3
        <5> QED
          BY <2>10, <4>1, <5>1, TreeWithin
      <4> QED
        BY <4>2, <4>3
    <3> QED
      BY <3>1 DEF Within
  <2>11. \A x \in Component : x # p => e.defs[x] = d.defs[x]
    BY <2>4
  <2> QED
    BY <2>6, <2>8, <2>10, <2>11 DEF e
<1> QED
  BY <1>1, <1>2

(* A command that edits a tree.                                              *)
LEMMA PlantLeads ==
  ASSUME NEW T, NEW d, DocForm(d), NEW c, NEW p \in Places(d), NEW tree, TreeForm(tree),
         Touches(d, c) = {p} \cap Component,
         Within(T, d) /\ Allowed(T, c) => \A n \in tree : n.of # Plain => <<p, n.of>> \in T
  PROVE  Leads(T, d, c, Plant(d, p, tree))
<1> DEFINE e == Plant(d, p, tree)
<1>1. /\ DocForm(e)
      /\ Defined(e) \subseteq Defined(d)
      /\ \A x \in Component : x # p => e.defs[x] = d.defs[x]
      /\ Within(T, d) /\ Allowed(T, c) => Within(T, e)
  BY PlantKeeps
<1> HIDE DEF e
<1>2. \A x \in Defined(d) \ Touches(d, c) : e.defs[x] = d.defs[x]
  BY <1>1 DEF Defined
<1>3. Leads(T, d, c, e)
  BY <1>1, <1>2 DEF Leads
<1> QED
  BY <1>3 DEF e

(* A node exchanged for another that is an instance of the same Source.      *)
LEMMA RewriteKeeps ==
  ASSUME NEW T, NEW d, DocForm(d), NEW p \in Places(d), NEW id, Holds(d, p, id),
         NEW n, NodeForm(n), n.of = The(d, p, id).of
  PROVE  /\ DocForm(Rewrite(d, p, id, n))
         /\ Defined(Rewrite(d, p, id, n)) \subseteq Defined(d)
         /\ \A x \in Component : x # p => Rewrite(d, p, id, n).defs[x] = d.defs[x]
         /\ Within(T, d) => Within(T, Rewrite(d, p, id, n))
<1> DEFINE m == The(d, p, id)
           tree == (Tree(d, p) \ {m}) \cup {n}
<1>1. m \in Tree(d, p) /\ TreeForm(Tree(d, p)) /\ p \in Place
  BY TheIn, TreesForm, PlacesAre
<1>2. IsFiniteSet(tree)
  BY <1>1, FS_RemoveElement, FS_AddElement DEF TreeForm
<1>3. TreeForm(tree)
  BY <1>1, <1>2 DEF TreeForm
<1>4. Within(T, d) => \A k \in tree : k.of # Plain => <<p, k.of>> \in T
  BY <1>1, TreeWithin
<1> HIDE DEF tree
<1>5. Rewrite(d, p, id, n) = Plant(d, p, tree)
  BY DEF Rewrite, tree
<1> QED
  BY <1>3, <1>4, <1>5, PlantKeeps

(* A definition exchanged for another.                                       *)
LEMMA DefineKeeps ==
  ASSUME NEW T, NEW d, DocForm(d), NEW c \in Component, NEW def, SourceForm(def)
  PROVE  LET e == [d EXCEPT !.defs[c] = def]
         IN  /\ DocForm(e)
             /\ Defined(e) \subseteq Defined(d) \cup {c}
             /\ \A x \in Component : x # c => e.defs[x] = d.defs[x]
             /\ Within(T, d) /\ (def # NoDefinition => \A n \in def.tree : n.of # Plain => <<c, n.of>> \in T)
                   => Within(T, e)
<1> DEFINE e == [d EXCEPT !.defs[c] = def]
<1>1. e = [page |-> d.page, defs |-> [x \in Component |-> IF x = c THEN def ELSE d.defs[x]]]
  BY DEF DocForm
<1> HIDE DEF e
<1>2. Defined(e) \subseteq Defined(d) \cup {c}
  BY <1>1 DEF Defined
<1>3. IsFiniteSet(Defined(e))
  <2>1. IsFiniteSet(Defined(d) \cup {c})
    BY FS_AddElement DEF DocForm
  <2> QED
    BY <1>2, <2>1, FS_Subset
<1>4. DocForm(e)
  <2>1. \A x \in Defined(e) : SourceForm(e.defs[x])
    BY <1>1, <1>2 DEF DocForm, Defined
  <2> QED
    BY <1>1, <1>3, <2>1 DEF DocForm
<1>5. \A q \in Place : q # c => Tree(e, q) = Tree(d, q)
  BY <1>1 DEF Tree, Defined
<1>6. Tree(e, c) = IF def = NoDefinition THEN {} ELSE def.tree
  BY <1>1, ComponentAssumption DEF Tree, Defined
<1>7. ASSUME Within(T, d), def # NoDefinition => \A n \in def.tree : n.of # Plain => <<c, n.of>> \in T
      PROVE  Within(T, e)
  BY <1>5, <1>6, <1>7 DEF Within, Uses
<1>8. \A x \in Component : x # c => e.defs[x] = d.defs[x]
  BY <1>1
<1> QED
  BY <1>2, <1>4, <1>7, <1>8 DEF e

-----------------------------------------------------------------------------
(* Each command leads to a document of the form, and so does its inverse.    *)

(* An inverse of one command.                                                *)
LEMMA BacksOne ==
  ASSUME NEW T, NEW d, NEW c, NEW i, Backs(T, d, c, i)
  PROVE  BacksAll(T, d, c, <<i>>)
<1>1. Range(<<i>>) = {i}
  BY DEF Range
<1>2. <<i>> \in Seq({i})
  OBVIOUS
<1> QED
  BY <1>1, <1>2 DEF BacksAll, IsSeq

LEMMA BacksBoth ==
  ASSUME NEW T, NEW d, NEW c, NEW s, NEW t, BacksAll(T, d, c, s), BacksAll(T, d, c, t)
  PROVE  BacksAll(T, d, c, s \o t)
BY SeqJoin DEF BacksAll

LEMMA BelowIn == \A tree, id : Below(tree, id) \subseteq tree
BY DEF Below

(* The command that brings a subtree back.                                   *)
LEMMA RecreateBacks ==
  ASSUME NEW T, NEW d, DocForm(d), NEW c, c.type # "component.create",
         NEW p \in Place, NEW id
  PROVE  Backs(T, d, c, Recreate(d, p, id))
<1> DEFINE i == Recreate(d, p, id)
<1>1. i = [type |-> "node.create", place |-> p, id |-> id, under |-> The(d, p, id).under,
           nodes |-> Below(Tree(d, p), id)]
  BY DEF Recreate
<1>2. TreeForm(Below(Tree(d, p), id))
  BY BelowIn, TreesForm, FS_Subset DEF TreeForm
<1>3. Within(T, d) => \A n \in Below(Tree(d, p), id) : n.of # Plain => <<p, n.of>> \in T
  BY BelowIn, TreeWithin
<1> HIDE DEF i
<1>4. KeptForm(i)
  BY <1>1, <1>2 DEF KeptForm
<1>5. Within(T, d) => Allowed(T, i)
  BY <1>1, <1>3 DEF Allowed
<1>6. i.type = "node.create" /\ Born(i) = {}
  BY <1>1 DEF Born
<1> QED
  BY <1>4, <1>5, <1>6 DEF Backs, Births, i

LEMMA DeletionBacks ==
  ASSUME NEW T, NEW d, NEW c, NEW p, NEW id
  PROVE  Backs(T, d, c, [type |-> "node.delete", place |-> p, id |-> id])
<1> DEFINE i == [type |-> "node.delete", place |-> p, id |-> id]
<1>1. KeptForm(i)
  BY DEF KeptForm
<1>2. Allowed(T, i)
  BY DEF Allowed
<1>3. i.type = "node.delete" /\ Born(i) = {}
  BY DEF Born
<1> QED
  BY <1>1, <1>2, <1>3 DEF Backs, Births

LEMMA CreateSteps ==
  ASSUME NEW T, NEW d, DocForm(d), NEW c, CommandForm(c), c.type = "node.create", Accepts(d, c)
  PROVE  Leads(T, d, c, After(d, c)) /\ BacksAll(T, d, c, InverseOf(d, c))
<1>1. TreeForm(c.nodes)
  BY DEF CommandForm, KeptForm, FirstForm
<1>2. c.place \in Places(d) /\ After(d, c) = Plant(d, c.place, Tree(d, c.place) \cup c.nodes)
  BY DEF Accepts, CreateAccepts, After, Created
<1>3. TreeForm(Tree(d, c.place) \cup c.nodes)
  <2>1. TreeForm(Tree(d, c.place))
    BY TreesForm
  <2> QED
    BY <1>1, <2>1, FS_Union DEF TreeForm
<1>4. Within(T, d) /\ Allowed(T, c) =>
        \A n \in Tree(d, c.place) \cup c.nodes : n.of # Plain => <<c.place, n.of>> \in T
  BY <1>2, PlacesAre, TreeWithin DEF Allowed
<1>5. ~ResetsNothing(d, c)
  BY DEF ResetsNothing
<1>6. "place" \in DOMAIN c
  BY DEF CommandForm, KeptForm, FirstForm
<1>7. Touches(d, c) = {c.place} \cap Component
  BY <1>5, <1>6 DEF Touches, ManagesRevision
<1>8. Leads(T, d, c, After(d, c))
  BY <1>2, <1>3, <1>4, <1>7, PlantLeads
<1>9. InverseOf(d, c) = <<[type |-> "node.delete", place |-> c.place, id |-> c.id]>>
  BY DEF InverseOf, CreateInverse
<1> QED
  BY <1>8, <1>9, DeletionBacks, BacksOne

LEMMA TreeTouches ==
  ASSUME NEW d, NEW c, CommandForm(c), "place" \in DOMAIN c, ~ResetsNothing(d, c)
  PROVE  Touches(d, c) = {c.place} \cap Component
<1>1. c.type \notin {"component.create", "component.duplicate", "component.delete"}
  BY DEF CommandForm, KeptForm, FirstForm
<1> QED
  BY <1>1 DEF Touches, ManagesRevision

LEMMA DefinitionTouches ==
  ASSUME NEW d, NEW c, CommandForm(c), "place" \notin DOMAIN c,
         c.type \notin {"component.create", "component.duplicate", "component.delete"}
  PROVE  Touches(d, c) = {c.component}
BY DEF Touches, ManagesRevision

LEMMA DeleteSteps ==
  ASSUME NEW T, NEW d, DocForm(d), NEW c, CommandForm(c), c.type = "node.delete", Accepts(d, c)
  PROVE  Leads(T, d, c, After(d, c)) /\ BacksAll(T, d, c, InverseOf(d, c))
<1> DEFINE tree == Tree(d, c.place) \ Below(Tree(d, c.place), c.id)
<1>1. c.place \in Places(d) /\ c.place \in Place
  BY PlacesAre DEF Accepts, DeleteAccepts, Holds, IdsOf, Tree, Places, Place
<1>2. After(d, c) = Plant(d, c.place, tree)
  BY DEF After, Deleted
<1>3. TreeForm(tree)
  BY TreesForm, FS_Subset DEF TreeForm
<1>4. Within(T, d) => \A n \in tree : n.of # Plain => <<c.place, n.of>> \in T
  BY <1>1, TreeWithin
<1>5. Touches(d, c) = {c.place} \cap Component
  <2>1. "place" \in DOMAIN c
    BY DEF CommandForm, KeptForm, FirstForm
  <2> QED
    BY <2>1, TreeTouches DEF ResetsNothing
<1> HIDE DEF tree
<1>6. Leads(T, d, c, After(d, c))
  BY <1>1, <1>2, <1>3, <1>4, <1>5, PlantLeads
<1>7. InverseOf(d, c) = <<Recreate(d, c.place, c.id)>>
  BY DEF InverseOf, DeleteInverse
<1>8. Backs(T, d, c, Recreate(d, c.place, c.id))
  BY <1>1, RecreateBacks
<1> QED
  BY <1>6, <1>7, <1>8, BacksOne

(* A command that rewrites one node of a tree.                               *)
LEMMA RewriteLeads ==
  ASSUME NEW T, NEW d, DocForm(d), NEW c, NEW p, NEW id, Holds(d, p, id),
         NEW n, NodeForm(n), n.of = The(d, p, id).of, Touches(d, c) = {p} \cap Component
  PROVE  Leads(T, d, c, Rewrite(d, p, id, n))
<1> DEFINE e == Rewrite(d, p, id, n)
<1>0. p \in Places(d)
  BY DEF Holds, IdsOf, Tree, Places
<1>1. /\ DocForm(e)
      /\ Defined(e) \subseteq Defined(d)
      /\ \A x \in Component : x # p => e.defs[x] = d.defs[x]
      /\ Within(T, d) => Within(T, e)
  BY <1>0, RewriteKeeps
<1> HIDE DEF e
<1>2. \A x \in Defined(d) \ Touches(d, c) : e.defs[x] = d.defs[x]
  BY <1>1 DEF Defined
<1>3. Leads(T, d, c, e)
  BY <1>1, <1>2 DEF Leads
<1> QED
  BY <1>3 DEF e

(* A node with other overrides, and the node with those it had.              *)
LEMMA OverForm ==
  ASSUME NEW n, NodeForm(n), NEW over, over = [q \in Property |-> over[q]]
  PROVE  /\ NodeForm([n EXCEPT !.over = over])
         /\ [n EXCEPT !.over = over].of = n.of
         /\ over = n.over => [n EXCEPT !.over = over] = n
<1>1. [n EXCEPT !.over = over]
        = [id |-> n.id, under |-> n.under, of |-> n.of, over |-> over, locked |-> n.locked]
  BY DEF NodeForm
<1> QED
  BY <1>1 DEF NodeForm

LEMMA LockForm ==
  ASSUME NEW n, NodeForm(n), NEW lock
  PROVE  NodeForm([n EXCEPT !.locked = lock]) /\ [n EXCEPT !.locked = lock].of = n.of
<1>1. [n EXCEPT !.locked = lock]
        = [id |-> n.id, under |-> n.under, of |-> n.of, over |-> n.over, locked |-> lock]
  BY DEF NodeForm
<1> QED
  BY <1>1 DEF NodeForm

LEMMA UpdateSteps ==
  ASSUME NEW T, NEW d, DocForm(d), NEW c, CommandForm(c), c.type = "node.update", Accepts(d, c)
  PROVE  Leads(T, d, c, After(d, c)) /\ BacksAll(T, d, c, InverseOf(d, c))
<1> DEFINE n == The(d, c.place, c.id)
           m == IF c.key = "locked" THEN [n EXCEPT !.locked = c.to] ELSE [n EXCEPT !.over = c.to]
           was == IF c.key = "locked" THEN n.locked ELSE n.over
           i == [type |-> "node.update", place |-> c.place, id |-> c.id, key |-> c.key, to |-> was]
<1>1. /\ c = [type |-> "node.update", place |-> c.place, id |-> c.id, key |-> c.key, to |-> c.to]
      /\ c.key # "locked" => c.to = [q \in Property |-> c.to[q]]
  BY DEF CommandForm, KeptForm, FirstForm
<1>2. Holds(d, c.place, c.id)
  BY DEF Accepts, UpdateAccepts
<1>3. NodeForm(n)
  BY <1>2, TheIn, TreesForm DEF TreeForm
<1> HIDE DEF n
<1>4. NodeForm(m) /\ m.of = n.of
  BY <1>1, <1>3, OverForm, LockForm
<1>5. After(d, c) = Rewrite(d, c.place, c.id, m)
  BY DEF After, Updated, n
<1>6. Touches(d, c) = {c.place} \cap Component
  <2>1. "place" \in DOMAIN c
    BY <1>1
  <2> QED
    BY <2>1, TreeTouches DEF ResetsNothing
<1> HIDE DEF m
<1>7. Leads(T, d, c, After(d, c))
  BY <1>2, <1>4, <1>5, <1>6, RewriteLeads DEF n
<1>8. InverseOf(d, c) = <<i>>
  <2>1. [c EXCEPT !.to = was] = i
    BY <1>1
  <2> QED
    BY <2>1 DEF InverseOf, UpdateInverse, n
<1>9. KeptForm(i)
  <2>1. c.key # "locked" => was = [q \in Property |-> was[q]]
    BY <1>3 DEF NodeForm
  <2> HIDE DEF was
  <2> QED
    BY <2>1 DEF KeptForm
<1>10. Backs(T, d, c, i)
  <2>1. i.type = "node.update"
    OBVIOUS
  <2> HIDE DEF i
  <2> QED
    BY <1>9, <2>1 DEF Backs, Allowed, Born, Births
<1> QED
  BY <1>7, <1>8, <1>10, BacksOne

(* An inverse that only edits.                                               *)
LEMMA EditBacks ==
  ASSUME NEW T, NEW d, NEW c, NEW i, KeptForm(i),
         i.type \notin {"node.create", "component.create", "component.delete"}
  PROVE  Backs(T, d, c, i)
<1>1. i.type \notin {"component.extract", "component.duplicate", "component-instance.insert"}
  BY DEF KeptForm
<1> QED
  BY <1>1 DEF Backs, Allowed, Born, Births

-----------------------------------------------------------------------------
(* The commands on definitions.                                              *)

(* A command that replaces or adds a definition.                             *)
LEMMA DefineLeads ==
  ASSUME NEW T, NEW d, DocForm(d), NEW c, NEW x \in Component, NEW def, SourceForm(def),
         x \in Touches(d, c) \/ x \notin Defined(d),
         x \in Defined(d) \cup Born(c),
         Within(T, d) /\ Allowed(T, c) /\ def # NoDefinition
            => \A n \in def.tree : n.of # Plain => <<x, n.of>> \in T
  PROVE  Leads(T, d, c, [d EXCEPT !.defs[x] = def])
<1> DEFINE e == [d EXCEPT !.defs[x] = def]
<1>1. /\ DocForm(e)
      /\ Defined(e) \subseteq Defined(d) \cup {x}
      /\ \A y \in Component : y # x => e.defs[y] = d.defs[y]
      /\ Within(T, d) /\ (def # NoDefinition => \A n \in def.tree : n.of # Plain => <<x, n.of>> \in T)
            => Within(T, e)
  BY DefineKeeps
<1> HIDE DEF e
<1>2. \A y \in Defined(d) \ Touches(d, c) : e.defs[y] = d.defs[y]
  BY <1>1 DEF Defined
<1>3. Leads(T, d, c, e)
  BY <1>1, <1>2 DEF Leads
<1> QED
  BY <1>3 DEF e

LEMMA RemovalBacks ==
  ASSUME NEW T, NEW d, NEW c, c.type \in Births, NEW x
  PROVE  Backs(T, d, c, [type |-> "component.delete", component |-> x])
<1> DEFINE i == [type |-> "component.delete", component |-> x]
<1>1. KeptForm(i)
  BY DEF KeptForm
<1>2. i.type = "component.delete"
  OBVIOUS
<1> HIDE DEF i
<1>3. Backs(T, d, c, i)
  BY <1>1, <1>2 DEF Backs, Allowed, Born, Births
<1> QED
  BY <1>3 DEF i

LEMMA RestoreSteps ==
  ASSUME NEW T, NEW d, DocForm(d), NEW c, CommandForm(c), c.type = "component.create", Accepts(d, c)
  PROVE  Leads(T, d, c, After(d, c)) /\ BacksAll(T, d, c, InverseOf(d, c))
<1>1. c.component \in Component /\ SourceForm(c.definition)
  BY DEF CommandForm, KeptForm, FirstForm
<1>2. c.component \notin Defined(d)
  BY DEF Accepts, RestoreAccepts, Addable
<1>3. After(d, c) = [d EXCEPT !.defs[c.component] = c.definition]
  BY DEF After, Restored
<1>4. Born(c) = {c.component}
  BY DEF Born
<1>5. Allowed(T, c) /\ c.definition # NoDefinition =>
        \A n \in c.definition.tree : n.of # Plain => <<c.component, n.of>> \in T
  BY DEF Allowed
<1>6. Leads(T, d, c, After(d, c))
  <2> DEFINE x == c.component
             def == c.definition
  <2>1. /\ x \in Component /\ SourceForm(def) /\ x \notin Defined(d) /\ x \in Defined(d) \cup Born(c)
        /\ Within(T, d) /\ Allowed(T, c) /\ def # NoDefinition
              => \A n \in def.tree : n.of # Plain => <<x, n.of>> \in T
    BY <1>1, <1>2, <1>4, <1>5
  <2> HIDE DEF x, def
  <2>2. Leads(T, d, c, [d EXCEPT !.defs[x] = def])
    BY <2>1, DefineLeads
  <2> QED
    BY <1>3, <2>2 DEF x, def
<1>7. InverseOf(d, c) = <<[type |-> "component.delete", component |-> c.component]>>
  BY DEF InverseOf, RestoreInverse
<1>8. c.type \in Births
  BY DEF Births
<1> QED
  BY <1>6, <1>7, <1>8, RemovalBacks, BacksOne

LEMMA RemoveSteps ==
  ASSUME NEW T, NEW d, DocForm(d), NEW c, CommandForm(c), c.type = "component.delete", Accepts(d, c)
  PROVE  Leads(T, d, c, After(d, c)) /\ BacksAll(T, d, c, InverseOf(d, c))
<1> DEFINE x == c.component
           e == [d EXCEPT !.defs[x] = NoDefinition]
           i == [type |-> "component.create", component |-> x, definition |-> d.defs[x]]
<1>1. x \in Defined(d) /\ x \in Component /\ SourceForm(d.defs[x])
  BY DEF Accepts, RemoveAccepts, DocForm, Defined
<1>2. e = [page |-> d.page, defs |-> [y \in Component |-> IF y = x THEN NoDefinition ELSE d.defs[y]]]
  BY <1>1 DEF DocForm
<1>3. After(d, c) = e
  BY DEF After, Removed
<1> HIDE DEF e
<1>4. Defined(e) = Defined(d) \ {x}
  BY <1>1, <1>2 DEF Defined
<1>5. DocForm(e)
  <2>1. IsFiniteSet(Defined(e))
    BY <1>4, FS_Subset DEF DocForm
  <2> QED
    BY <1>2, <1>4, <2>1 DEF DocForm, Defined
<1>6. Within(T, d) => Within(T, e)
  <2>1. \A q \in Place : Tree(e, q) \subseteq Tree(d, q)
    BY <1>2, <1>4 DEF Tree, Defined
  <2> QED
    BY <2>1 DEF Within, Uses
<1>7. \A y \in Defined(d) : e.defs[y] = d.defs[y] \/ y \notin Defined(e)
  BY <1>2, <1>4 DEF Defined
<1>8. Leads(T, d, c, After(d, c))
  BY <1>3, <1>4, <1>5, <1>6, <1>7 DEF Leads
<1>9. InverseOf(d, c) = <<i>>
  BY DEF InverseOf, RemoveInverse
<1>10. Backs(T, d, c, i)
  <2>1. KeptForm(i)
    BY <1>1 DEF KeptForm
  <2>2. Within(T, d) => \A n \in d.defs[x].tree : n.of # Plain => <<x, n.of>> \in T
    <3>1. x \in Place /\ Tree(d, x) = d.defs[x].tree
      BY <1>1, ComponentAssumption DEF Tree, Place
    <3> QED
      BY <3>1, TreeWithin
  <2>3. i.type = "component.create" /\ i.component = x /\ i.definition = d.defs[x]
    OBVIOUS
  <2> HIDE DEF i
  <2>4. Within(T, d) => Allowed(T, i)
    BY <2>2, <2>3 DEF Allowed
  <2>5. Born(i) \subseteq Defined(d)
    BY <1>1, <2>3 DEF Born
  <2> QED
    BY <2>1, <2>3, <2>4, <2>5 DEF Backs, Births
<1> QED
  BY <1>8, <1>9, <1>10, BacksOne

(* The nodes under new ids are instances of the Sources they were.           *)
LEMMA RemappedForm ==
  ASSUME NEW nodes, TreeForm(nodes), NEW fresh
  PROVE  /\ TreeForm(Remapped(nodes, fresh))
         /\ \A m \in Remapped(nodes, fresh) : \E n \in nodes : m.of = n.of
<1> DEFINE New(n) == [n EXCEPT !.id = fresh[n.id],
                               !.under = IF @ \in IdsOf(nodes) THEN fresh[@] ELSE @]
           f == [n \in nodes |-> New(n)]
<1>1. Remapped(nodes, fresh) = {New(n) : n \in nodes}
  BY DEF Remapped
<1>2. ASSUME NEW n \in nodes
      PROVE  NodeForm(New(n)) /\ New(n).of = n.of
  <2>1. n = [id |-> n.id, under |-> n.under, of |-> n.of, over |-> n.over, locked |-> n.locked]
    BY DEF TreeForm, NodeForm
  <2> DEFINE a == fresh[n.id]
             b == IF n.under \in IdsOf(nodes) THEN fresh[n.under] ELSE n.under
  <2>2. New(n) = [n EXCEPT !.id = a, !.under = b]
    OBVIOUS
  <2> HIDE DEF a, b
  <2> DEFINE m == [n EXCEPT !.id = a]
  <2>3. [n EXCEPT !.id = a, !.under = b]
          = [id |-> a, under |-> b, of |-> n.of, over |-> n.over, locked |-> n.locked]
    <3>1. m = [id |-> a, under |-> n.under, of |-> n.of, over |-> n.over, locked |-> n.locked]
      BY <2>1
    <3>2. [n EXCEPT !.id = a, !.under = b] = [m EXCEPT !.under = b]
      OBVIOUS
    <3> HIDE DEF m
    <3>3. [m EXCEPT !.under = b]
            = [id |-> a, under |-> b, of |-> n.of, over |-> n.over, locked |-> n.locked]
      BY <3>1
    <3> QED
      BY <3>2, <3>3
  <2> HIDE DEF New
  <2> QED
    BY <2>2, <2>3 DEF NodeForm, TreeForm
<1>3. IsFiniteSet({New(n) : n \in nodes})
  <2> HIDE DEF New
  <2>1. f \in Surjection(nodes, {New(n) : n \in nodes})
    BY DEF Surjection
  <2> QED
    BY <2>1, FS_Surjection DEF TreeForm
<1> QED
  BY <1>1, <1>2, <1>3 DEF TreeForm

LEMMA DuplicateSteps ==
  ASSUME NEW T, NEW d, DocForm(d), NEW c, CommandForm(c), c.type = "component.duplicate", Accepts(d, c)
  PROVE  Leads(T, d, c, After(d, c)) /\ BacksAll(T, d, c, InverseOf(d, c))
<1> DEFINE x == c.component
           y == c.copy
           def == Duplicate(d, c)
<1>1. y \in Component
  BY DEF CommandForm, KeptForm, FirstForm
<1>2. x \in Defined(d) /\ y \notin Defined(d) /\ x \in Component /\ SourceForm(d.defs[x])
  BY DEF Accepts, DuplicateAccepts, Addable, DocForm, Defined
<1>3. After(d, c) = [d EXCEPT !.defs[y] = def]
  BY DEF After, Duplicated
<1>4. TreeForm(Remapped(d.defs[x].tree, c.fresh))
  BY <1>2, RemappedForm DEF SourceForm
<1>5. SourceForm(def) /\ def.tree = Remapped(d.defs[x].tree, c.fresh)
  BY <1>4 DEF SourceForm, Duplicate
<1>6. Born(c) = {y}
  BY DEF Born
<1>7. ASSUME Within(T, d), Allowed(T, c), NEW n \in def.tree, n.of # Plain
      PROVE  <<y, n.of>> \in T
  <2>1. PICK m \in d.defs[x].tree : n.of = m.of
    BY <1>2, <1>5, RemappedForm DEF SourceForm
  <2>2. x \in Place /\ m \in Tree(d, x)
    BY <1>2, <2>1, ComponentAssumption DEF Tree, Place
  <2>3. <<x, n.of>> \in T
    BY <1>7, <2>1, <2>2, TreeWithin
  <2>4. n.of \in Component
    BY <1>2, <1>7, <2>1 DEF SourceForm, TreeForm, NodeForm
  <2> QED
    BY <1>7, <2>3, <2>4 DEF Allowed
<1> HIDE DEF def
<1>8. Leads(T, d, c, After(d, c))
  <2> HIDE DEF y
  <2>1. Leads(T, d, c, [d EXCEPT !.defs[y] = def])
    BY <1>1, <1>2, <1>5, <1>6, <1>7, DefineLeads
  <2> QED
    BY <1>3, <2>1
<1>9. InverseOf(d, c) = <<[type |-> "component.delete", component |-> y]>>
  BY DEF InverseOf, DuplicateInverse
<1>10. c.type \in Births
  BY DEF Births
<1> QED
  BY <1>8, <1>9, <1>10, RemovalBacks, BacksOne

(* A definition edited by a command that manages its revision.               *)
Retitled(def, c, name) == [Versioned(def, c) EXCEPT !.name = name]
Rebound(def, c, props) == [Versioned(def, c) EXCEPT !.props = props]

LEMMA EditedForm ==
  ASSUME NEW def, SourceForm(def), NEW c, c.rev \in Nat, NEW v
  PROVE  /\ SourceForm(Retitled(def, c, v)) /\ Retitled(def, c, v).tree = def.tree
         /\ SourceForm(Rebound(def, c, v)) /\ Rebound(def, c, v).tree = def.tree
<1> DEFINE w == Versioned(def, c)
           rev == IF c.rev = 0 THEN def.rev + 1 ELSE c.rev
<1>1. def = [name |-> def.name, rev |-> def.rev, root |-> def.root, tree |-> def.tree,
             props |-> def.props]
  BY DEF SourceForm
<1>2. rev \in Nat
  BY DEF SourceForm
<1>3. w = [def EXCEPT !.rev = rev]
  BY DEF Versioned
<1> HIDE DEF w, rev
<1>4. w = [name |-> def.name, rev |-> rev, root |-> def.root, tree |-> def.tree,
           props |-> def.props]
  BY <1>1, <1>3
<1>5. /\ [w EXCEPT !.name = v]
           = [name |-> v, rev |-> rev, root |-> def.root, tree |-> def.tree, props |-> def.props]
      /\ [w EXCEPT !.props = v]
           = [name |-> def.name, rev |-> rev, root |-> def.root, tree |-> def.tree, props |-> v]
  BY <1>4
<1>6. /\ SourceForm([w EXCEPT !.name = v]) /\ [w EXCEPT !.name = v].tree = def.tree
      /\ SourceForm([w EXCEPT !.props = v]) /\ [w EXCEPT !.props = v].tree = def.tree
  BY <1>2, <1>5 DEF SourceForm
<1> QED
  BY <1>6 DEF w, Retitled, Rebound

LEMMA EditLeads ==
  ASSUME NEW T, NEW d, DocForm(d), NEW c, NEW x \in Defined(d), Touches(d, c) = {x},
         NEW def, SourceForm(def), def.tree = d.defs[x].tree
  PROVE  Leads(T, d, c, [d EXCEPT !.defs[x] = def])
<1>1. x \in Component /\ x \in Place /\ Tree(d, x) = def.tree
  BY ComponentAssumption DEF Defined, Tree, Place
<1>2. Within(T, d) => \A n \in def.tree : n.of # Plain => <<x, n.of>> \in T
  BY <1>1, TreeWithin
<1> QED
  BY <1>1, <1>2, DefineLeads

LEMMA RenameSteps ==
  ASSUME NEW T, NEW d, DocForm(d), NEW c, CommandForm(c), c.type = "component.rename", Accepts(d, c)
  PROVE  Leads(T, d, c, After(d, c)) /\ BacksAll(T, d, c, InverseOf(d, c))
<1> DEFINE x == c.component
           i == [type |-> "component.rename", component |-> x, to |-> d.defs[x].name,
                 rev |-> d.defs[x].rev]
           def == Retitled(d.defs[x], c, c.to)
<1>1. /\ c = [type |-> "component.rename", component |-> c.component, to |-> c.to, rev |-> c.rev]
      /\ c.rev \in Nat
  BY DEF CommandForm, KeptForm, FirstForm
<1>2. x \in Defined(d) /\ SourceForm(d.defs[x])
  BY DEF Accepts, RenameAccepts, DocForm
<1>3. Touches(d, c) = {x}
  <2>1. "place" \notin DOMAIN c
    BY <1>1
  <2> QED
    BY <2>1, DefinitionTouches
<1>4. SourceForm(def) /\ def.tree = d.defs[x].tree
  BY <1>1, <1>2, EditedForm
<1>5. After(d, c) = [d EXCEPT !.defs[x] = def]
  BY DEF After, Renamed, Retitled
<1>6. Leads(T, d, c, After(d, c))
  <2> HIDE DEF x, def
  <2> QED
    BY <1>2, <1>3, <1>4, <1>5, EditLeads
<1>7. InverseOf(d, c) = <<i>>
  <2> DEFINE a == d.defs[x].name
             b == d.defs[x].rev
             k == [c EXCEPT !.to = a]
  <2>1. [c EXCEPT !.to = a, !.rev = b] = [k EXCEPT !.rev = b]
    OBVIOUS
  <2>2. k = [type |-> "component.rename", component |-> x, to |-> a, rev |-> c.rev]
    BY <1>1
  <2>3. InverseOf(d, c) = <<[c EXCEPT !.to = a, !.rev = b]>>
    BY DEF InverseOf, RenameInverse
  <2> HIDE DEF a, b, k
  <2>4. [k EXCEPT !.rev = b] = [type |-> "component.rename", component |-> x, to |-> a, rev |-> b]
    BY <2>2, SMTT(30)
  <2> QED
    BY <2>1, <2>3, <2>4 DEF a, b
<1>8. KeptForm(i)
  BY <1>2 DEF KeptForm, SourceForm
<1>9. i.type = "component.rename"
  OBVIOUS
<1> HIDE DEF i
<1> QED
  BY <1>6, <1>7, <1>8, <1>9, EditBacks, BacksOne

LEMMA AddPropertySteps ==
  ASSUME NEW T, NEW d, DocForm(d), NEW c, CommandForm(c), c.type = "component.add-property", Accepts(d, c)
  PROVE  Leads(T, d, c, After(d, c)) /\ BacksAll(T, d, c, InverseOf(d, c))
<1> DEFINE x == c.component
           i == [type |-> "component.remove-property", component |-> x, property |-> c.binding.id,
                 rev |-> d.defs[x].rev]
           w == Versioned(d.defs[x], c)
           props == InsertAt(w.props, c.at, c.binding)
           def == Rebound(d.defs[x], c, props)
<1>1. c.rev \in Nat /\ "place" \notin DOMAIN c
  BY DEF CommandForm, KeptForm, FirstForm
<1>2. x \in Defined(d) /\ SourceForm(d.defs[x])
  BY DEF Accepts, AddPropertyAccepts, DocForm
<1>3. Touches(d, c) = {x}
  BY <1>1, DefinitionTouches
<1>4. After(d, c) = [d EXCEPT !.defs[x] = def]
  <2>1. After(d, c) = PropertyAdded(d, c)
    BY DEF After
  <2>2. PropertyAdded(d, c) = [d EXCEPT !.defs[x] = def]
    BY DEF PropertyAdded, Rebound
  <2> QED
    BY <2>1, <2>2
<1> HIDE DEF props
<1>5. SourceForm(def) /\ def.tree = d.defs[x].tree
  BY <1>1, <1>2, EditedForm
<1>6. Leads(T, d, c, After(d, c))
  <2> HIDE DEF x, def
  <2> QED
    BY <1>2, <1>3, <1>4, <1>5, EditLeads
<1>7. InverseOf(d, c) = <<i>>
  BY SMTT(30) DEF InverseOf, AddPropertyInverse
<1>8. KeptForm(i)
  BY <1>2 DEF KeptForm, SourceForm
<1>9. i.type = "component.remove-property"
  OBVIOUS
<1> HIDE DEF i
<1> QED
  BY <1>6, <1>7, <1>8, <1>9, EditBacks, BacksOne

LEMMA UpdatePropertySteps ==
  ASSUME NEW T, NEW d, DocForm(d), NEW c, CommandForm(c), c.type = "component.update-property",
         Accepts(d, c)
  PROVE  Leads(T, d, c, After(d, c)) /\ BacksAll(T, d, c, InverseOf(d, c))
<1> DEFINE x == c.component
           w == Versioned(d.defs[x], c)
           props == [w.props EXCEPT ![IndexOfProperty(w, c.binding.id)] = c.binding]
           def == Rebound(d.defs[x], c, props)
           a == d.defs[x].props[IndexOfProperty(d.defs[x], c.binding.id)]
           b == d.defs[x].rev
           i == [type |-> "component.update-property", component |-> x, binding |-> a, rev |-> b]
<1>1. /\ c = [type |-> "component.update-property", component |-> c.component,
              binding |-> c.binding, rev |-> c.rev]
      /\ c.rev \in Nat /\ "place" \notin DOMAIN c
  BY DEF CommandForm, KeptForm, FirstForm
<1>2. x \in Defined(d) /\ SourceForm(d.defs[x])
  BY DEF Accepts, UpdatePropertyAccepts, DocForm
<1>3. Touches(d, c) = {x}
  BY <1>1, DefinitionTouches
<1>4. After(d, c) = [d EXCEPT !.defs[x] = def]
  <2>1. After(d, c) = PropertyUpdated(d, c)
    BY DEF After
  <2>2. PropertyUpdated(d, c) = [d EXCEPT !.defs[x] = def]
    BY DEF PropertyUpdated, Rebound
  <2> QED
    BY <2>1, <2>2
<1> HIDE DEF props
<1>5. SourceForm(def) /\ def.tree = d.defs[x].tree
  BY <1>1, <1>2, EditedForm
<1>6. Leads(T, d, c, After(d, c))
  <2> HIDE DEF x, def
  <2> QED
    BY <1>2, <1>3, <1>4, <1>5, EditLeads
<1>7. InverseOf(d, c) = <<i>>
  <2> DEFINE k == [c EXCEPT !.binding = a]
  <2>1. [c EXCEPT !.binding = a, !.rev = b] = [k EXCEPT !.rev = b]
    OBVIOUS
  <2>2. k = [type |-> "component.update-property", component |-> x, binding |-> a, rev |-> c.rev]
    BY <1>1
  <2>3. InverseOf(d, c) = <<[c EXCEPT !.binding = a, !.rev = b]>>
    <3>1. InverseOf(d, c) = UpdatePropertyInverse(d, c)
      BY DEF InverseOf
    <3> QED
      BY <3>1 DEF UpdatePropertyInverse
  <2> HIDE DEF a, b, k
  <2>4. [k EXCEPT !.rev = b] = [type |-> "component.update-property", component |-> x,
                                binding |-> a, rev |-> b]
    BY <2>2, SMTT(30)
  <2> QED
    BY <2>1, <2>3, <2>4
<1>8. KeptForm(i)
  BY <1>2 DEF KeptForm, SourceForm
<1>9. i.type = "component.update-property"
  OBVIOUS
<1> HIDE DEF i
<1> QED
  BY <1>6, <1>7, <1>8, <1>9, EditBacks, BacksOne

LEMMA RemovePropertySteps ==
  ASSUME NEW T, NEW d, DocForm(d), NEW c, CommandForm(c), c.type = "component.remove-property",
         Accepts(d, c)
  PROVE  Leads(T, d, c, After(d, c)) /\ BacksAll(T, d, c, InverseOf(d, c))
<1> DEFINE x == c.component
           w == Versioned(d.defs[x], c)
           props == SelectSeq(w.props, LAMBDA b : b.id # c.property)
           def == Rebound(d.defs[x], c, props)
           at == IndexOfProperty(d.defs[x], c.property)
           i == [type |-> "component.add-property", component |-> x,
                 binding |-> d.defs[x].props[at], at |-> at, rev |-> d.defs[x].rev]
<1>1. c.rev \in Nat /\ "place" \notin DOMAIN c
  BY DEF CommandForm, KeptForm, FirstForm
<1>2. x \in Defined(d) /\ SourceForm(d.defs[x])
  BY DEF Accepts, RemovePropertyAccepts, DocForm
<1>3. Touches(d, c) = {x}
  BY <1>1, DefinitionTouches
<1>4. After(d, c) = [d EXCEPT !.defs[x] = def]
  <2>1. After(d, c) = PropertyRemoved(d, c)
    BY DEF After
  <2>2. PropertyRemoved(d, c) = [d EXCEPT !.defs[x] = def]
    BY DEF PropertyRemoved, Rebound
  <2> QED
    BY <2>1, <2>2
<1> HIDE DEF props
<1>5. SourceForm(def) /\ def.tree = d.defs[x].tree
  BY <1>1, <1>2, EditedForm
<1>6. Leads(T, d, c, After(d, c))
  <2> HIDE DEF x, def
  <2> QED
    BY <1>2, <1>3, <1>4, <1>5, EditLeads
<1>7. InverseOf(d, c) = <<i>>
  BY SMTT(30) DEF InverseOf, RemovePropertyInverse
<1> HIDE DEF at
<1>8. KeptForm(i)
  BY <1>2 DEF KeptForm, SourceForm
<1>9. i.type = "component.add-property"
  OBVIOUS
<1> HIDE DEF i
<1> QED
  BY <1>6, <1>7, <1>8, <1>9, EditBacks, BacksOne

-----------------------------------------------------------------------------
(* The commands on instances.                                                *)

(* A node exchanged for itself.                                              *)
LEMMA RewriteSame ==
  ASSUME NEW d, DocForm(d), NEW p, NEW id, Holds(d, p, id)
  PROVE  Rewrite(d, p, id, The(d, p, id)) = d
<1>1. (Tree(d, p) \ {The(d, p, id)}) \cup {The(d, p, id)} = Tree(d, p)
  BY TheIn
<1>2. Plant(d, p, Tree(d, p)) = d
  <2>1. CASE p \in Page
    BY <2>1 DEF Plant, Tree, DocForm
  <2>2. CASE p \notin Page
    <3>1. p \in Defined(d) /\ p \in Component /\ SourceForm(d.defs[p])
      BY <2>2 DEF Holds, IdsOf, Tree, DocForm, Defined
    <3>2. [d.defs[p] EXCEPT !.tree = d.defs[p].tree] = d.defs[p]
      BY <3>1 DEF SourceForm
    <3>3. Tree(d, p) = d.defs[p].tree
      BY <2>2, <3>1 DEF Tree
    <3>4. Plant(d, p, Tree(d, p)) = [d EXCEPT !.defs[p] = [d.defs[p] EXCEPT !.tree = d.defs[p].tree]]
      BY <2>2, <3>3 DEF Plant
    <3>5. [d EXCEPT !.defs[p] = d.defs[p]] = d
      BY <3>1 DEF DocForm
    <3> QED
      BY <3>2, <3>4, <3>5
  <2> QED
    BY <2>1, <2>2
<1> QED
  BY <1>1, <1>2 DEF Rewrite

(* An instance with other overrides.                                         *)
LEMMA OverridesLead ==
  ASSUME NEW T, NEW d, DocForm(d), NEW c, CommandForm(c), "place" \in DOMAIN c,
         c.type \notin Births, Holds(d, c.place, c.id),
         NEW over, over = [q \in Property |-> over[q]],
         ResetsNothing(d, c) => over = The(d, c.place, c.id).over
  PROVE  Leads(T, d, c, WithOverrides(d, c, over))
<1> DEFINE n == The(d, c.place, c.id)
           m == [n EXCEPT !.over = over]
<1>1. NodeForm(n)
  BY TheIn, TreesForm DEF TreeForm
<1> HIDE DEF n
<1>2. NodeForm(m) /\ m.of = n.of /\ (over = n.over => m = n)
  BY <1>1, OverForm
<1>3. WithOverrides(d, c, over) = Rewrite(d, c.place, c.id, m)
  BY DEF WithOverrides, n
<1> HIDE DEF m
<1>4. CASE ResetsNothing(d, c)
  <2>1. WithOverrides(d, c, over) = d
    BY <1>2, <1>3, <1>4, RewriteSame DEF n
  <2>2. Leads(T, d, c, d)
    BY DEF Leads
  <2> QED
    BY <2>1, <2>2
<1>5. CASE ~ResetsNothing(d, c)
  <2>1. Touches(d, c) = {c.place} \cap Component
    BY <1>5, TreeTouches
  <2> QED
    BY <1>2, <1>3, <2>1, RewriteLeads DEF n
<1> QED
  BY <1>4, <1>5

LEMMA PriorBacks ==
  ASSUME NEW T, NEW d, NEW c
  PROVE  BacksAll(T, d, c, PriorOverride(d, c))
<1> DEFINE prior == The(d, c.place, c.id).over[c.property]
           i == [type |-> "component-instance.reset-override", place |-> c.place, id |-> c.id,
                 property |-> c.property]
           j == [type |-> "component-instance.set-override", place |-> c.place, id |-> c.id,
                 property |-> c.property, value |-> prior]
<1>1. PriorOverride(d, c) = <<i>> \/ PriorOverride(d, c) = <<j>>
  BY DEF PriorOverride
<1> HIDE DEF prior
<1>2. KeptForm(i) /\ KeptForm(j)
  BY DEF KeptForm
<1>3. /\ i.type = "component-instance.reset-override"
      /\ j.type = "component-instance.set-override"
  OBVIOUS
<1> HIDE DEF i, j
<1>4. Backs(T, d, c, i) /\ Backs(T, d, c, j)
  BY <1>2, <1>3, EditBacks
<1> QED
  BY <1>1, <1>4, BacksOne

LEMMA SetOverrideSteps ==
  ASSUME NEW T, NEW d, DocForm(d), NEW c, CommandForm(c),
         c.type = "component-instance.set-override", Accepts(d, c)
  PROVE  Leads(T, d, c, After(d, c)) /\ BacksAll(T, d, c, InverseOf(d, c))
<1> DEFINE n == The(d, c.place, c.id)
           over == [n.over EXCEPT ![c.property] = c.value]
<1>1. "place" \in DOMAIN c
  BY DEF CommandForm, KeptForm, FirstForm
<1>2. Holds(d, c.place, c.id)
  BY DEF Accepts, SetOverrideAccepts, MayOverride, IsInstance
<1>3. NodeForm(n)
  BY <1>2, TheIn, TreesForm DEF TreeForm
<1>4. over = [q \in Property |-> over[q]]
  BY <1>3 DEF NodeForm
<1>5. After(d, c) = WithOverrides(d, c, over)
  BY DEF After, OverrideSet
<1>6. ~ResetsNothing(d, c) /\ c.type \notin Births
  BY DEF ResetsNothing, Births
<1> HIDE DEF over
<1>7. Leads(T, d, c, After(d, c))
  BY <1>1, <1>2, <1>4, <1>5, <1>6, OverridesLead
<1>8. InverseOf(d, c) = PriorOverride(d, c)
  BY DEF InverseOf
<1> QED
  BY <1>7, <1>8, PriorBacks

LEMMA ResetOverrideSteps ==
  ASSUME NEW T, NEW d, DocForm(d), NEW c, CommandForm(c),
         c.type = "component-instance.reset-override", Accepts(d, c)
  PROVE  Leads(T, d, c, After(d, c)) /\ BacksAll(T, d, c, InverseOf(d, c))
<1> DEFINE n == The(d, c.place, c.id)
           over == [n.over EXCEPT ![c.property] = NoValue]
<1>1. "place" \in DOMAIN c
  BY DEF CommandForm, KeptForm, FirstForm
<1>2. Holds(d, c.place, c.id)
  BY DEF Accepts, ResetOverrideAccepts, MayOverride, IsInstance
<1>3. NodeForm(n)
  BY <1>2, TheIn, TreesForm DEF TreeForm
<1>4. over = [q \in Property |-> over[q]]
  BY <1>3 DEF NodeForm
<1>5. After(d, c) = WithOverrides(d, c, over)
  BY DEF After, OverrideReset
<1>6. c.type \notin Births
  BY DEF Births
<1>7. ResetsNothing(d, c) => over = n.over
  BY <1>3 DEF ResetsNothing, NodeForm
<1> HIDE DEF over
<1>8. Leads(T, d, c, After(d, c))
  BY <1>1, <1>2, <1>4, <1>5, <1>6, <1>7, OverridesLead
<1>9. InverseOf(d, c) = PriorOverride(d, c)
  BY DEF InverseOf
<1> QED
  BY <1>8, <1>9, PriorBacks

LEMMA ResetAllSteps ==
  ASSUME NEW T, NEW d, DocForm(d), NEW c, CommandForm(c),
         c.type = "component-instance.reset-all-overrides", Accepts(d, c)
  PROVE  Leads(T, d, c, After(d, c)) /\ BacksAll(T, d, c, InverseOf(d, c))
<1> DEFINE n == The(d, c.place, c.id)
           i == [type |-> "node.update", place |-> c.place, id |-> c.id,
                 key |-> "overrides", to |-> n.over]
<1>1. "place" \in DOMAIN c /\ KeptForm(c)
  BY DEF CommandForm, KeptForm, FirstForm
<1>2. Holds(d, c.place, c.id)
  BY DEF Accepts, ResetAllAccepts, IsInstance
<1>3. NodeForm(n)
  BY <1>2, TheIn, TreesForm DEF TreeForm
<1>4. NoOverrides = [q \in Property |-> NoOverrides[q]]
  BY DEF NoOverrides
<1>5. After(d, c) = WithOverrides(d, c, NoOverrides)
  BY DEF After, AllReset
<1>6. c.type \notin Births
  BY DEF Births
<1>7. ResetsNothing(d, c) => NoOverrides = n.over
  BY DEF ResetsNothing
<1>8. Leads(T, d, c, After(d, c))
  BY <1>1, <1>2, <1>4, <1>5, <1>6, <1>7, OverridesLead
<1>9. InverseOf(d, c) = <<c>> \/ InverseOf(d, c) = <<i>>
  <2>1. InverseOf(d, c) = ResetAllInverse(d, c)
    BY DEF InverseOf
  <2> QED
    BY <2>1 DEF ResetAllInverse
<1>10. KeptForm(i)
  BY <1>3 DEF KeptForm, NodeForm
<1>11. i.type = "node.update"
  OBVIOUS
<1> HIDE DEF i
<1>12. Backs(T, d, c, i) /\ Backs(T, d, c, c)
  BY <1>1, <1>10, <1>11, EditBacks
<1> QED
  BY <1>8, <1>9, <1>12, BacksOne

(* A node that is made.                                                      *)
LEMMA PlainForm ==
  ASSUME NEW id, NEW under, NEW lock
  PROVE  NodeForm(PlainNode(id, under, lock)) /\ PlainNode(id, under, lock).of = Plain
BY DEF PlainNode, NodeForm, NoOverrides

LEMMA InstanceForm ==
  ASSUME NEW c, c.component \in Component, NEW under
  PROVE  NodeForm(InstanceNode(c, under)) /\ InstanceNode(c, under).of = c.component
BY DEF InstanceNode, NodeForm, NoOverrides

LEMMA InsertSteps ==
  ASSUME NEW T, NEW d, DocForm(d), NEW c, CommandForm(c),
         c.type = "component-instance.insert", Accepts(d, c)
  PROVE  Leads(T, d, c, After(d, c)) /\ BacksAll(T, d, c, InverseOf(d, c))
<1> DEFINE p == c.place
           n == InstanceNode(c, Top(d, p))
           tree == Tree(d, p) \cup {n}
<1>1. "place" \in DOMAIN c
  BY DEF CommandForm, KeptForm, FirstForm
<1>2. c.component \in Component /\ p \in Places(d) /\ p \in Place
  BY PlacesAre DEF Accepts, InsertAccepts
<1>3. NodeForm(n) /\ n.of = c.component
  BY <1>2, InstanceForm
<1>4. After(d, c) = Plant(d, p, tree)
  BY DEF After, Inserted
<1> HIDE DEF n
<1>5. TreeForm(tree)
  BY <1>3, TreesForm, FS_AddElement DEF TreeForm
<1>6. Within(T, d) /\ Allowed(T, c) => \A k \in tree : k.of # Plain => <<p, k.of>> \in T
  BY <1>2, <1>3, TreeWithin DEF Allowed
<1>7. Touches(d, c) = {p} \cap Component
  BY <1>1, TreeTouches DEF ResetsNothing
<1> HIDE DEF tree
<1>8. Leads(T, d, c, After(d, c))
  BY <1>2, <1>4, <1>5, <1>6, <1>7, PlantLeads
<1>9. InverseOf(d, c) = <<[type |-> "node.delete", place |-> p, id |-> c.instance]>>
  BY DEF InverseOf, InsertInverse
<1> QED
  BY <1>8, <1>9, DeletionBacks, BacksOne

(* An expansion is finite: level by level, as deep as nesting may go.        *)
(* One level more of the paths below an instance of x.                       *)
Nest(d, prev, x) ==
    {<<n>> : n \in Inner(d, x)}
    \cup UNION {{<<n>> \o path : path \in prev[n.of]} : n \in {m \in Inner(d, x) : m.of # Plain}}

Expansion(d, u) ==
    /\ \A x \in Component : u[0][x] = {}
    /\ \A k \in 1 .. MaxNesting : \A x \in Component : u[k][x] = Nest(d, u[k - 1], x)
    /\ \A x \in Component : Inside(d, x) = u[MaxNesting][x]

(* The recursive function that Inside is taken from exists.                  *)
LEMMA Expands == ASSUME NEW d PROVE \E u : Expansion(d, u)
<1> DEFINE Body(prev, x) ==
             {<<n>> : n \in Inner(d, x)}
             \cup UNION {{<<n>> \o path : path \in prev[n.of]} :
                           n \in {m \in Inner(d, x) : m.of # Plain}}
           Run(f, n) == f = [k \in 0 .. n |-> [x \in Component |->
                               IF k = 0 THEN {} ELSE Body(f[k - 1], x)]]
           S == {n \in 0 .. MaxNesting : \E f : Run(f, n)}
           upTo == CHOOSE f : Run(f, MaxNesting)
<1>1. MaxNesting \in Nat
  BY ComponentAssumption
<1>2. \A c : Inside(d, c) = upTo[MaxNesting][c]
  BY DEF Inside
<1>3. \A prev, x : Body(prev, x) = Nest(d, prev, x)
  BY DEF Nest
<1> HIDE DEF Body
<1>4. 0 \in S
  <2> DEFINE g == [k \in 0 .. 0 |-> [x \in Component |-> {}]]
  <2>1. Run(g, 0)
    OBVIOUS
  <2> HIDE DEF Run, g
  <2> QED
    BY <1>1, <2>1
<1>5. ASSUME NEW n \in 1 .. MaxNesting, n - 1 \in S
      PROVE  n \in S
  <2>1. PICK f : Run(f, n - 1)
    BY <1>5
  <2> DEFINE g == [k \in 0 .. n |-> IF k = n THEN [x \in Component |-> Body(f[n - 1], x)] ELSE f[k]]
  <2>2. \A k \in 0 .. n : g[k] = [x \in Component |-> IF k = 0 THEN {} ELSE Body(g[k - 1], x)]
    <3> TAKE k \in 0 .. n
    <3>1. CASE k = n
      BY <1>1, <3>1
    <3>2. CASE k # n
      <4>1. k \in 0 .. n - 1 /\ (k # 0 => k - 1 \in 0 .. n /\ k - 1 # n)
        BY <1>1, <3>2
      <4>2. f[k] = [x \in Component |-> IF k = 0 THEN {} ELSE Body(f[k - 1], x)]
        BY <2>1, <4>1
      <4>3. g[k] = f[k] /\ (k # 0 => g[k - 1] = f[k - 1])
        BY <3>2, <4>1
      <4> QED
        BY <4>2, <4>3
    <3> QED
      BY <3>1, <3>2
  <2>3. Run(g, n)
    BY <2>2
  <2> HIDE DEF Run, g
  <2> QED
    BY <1>1, <2>3
<1>6. MaxNesting \in S
  <2> HIDE DEF S
  <2>1. 0 .. MaxNesting \subseteq S
    BY <1>1, <1>4, <1>5, Induction, Zenon
  <2> QED
    BY <1>1, <2>1
<1> HIDE DEF Run
<1>7. Run(upTo, MaxNesting)
  BY <1>6
<1> HIDE DEF upTo
<1>8. /\ \A x \in Component : upTo[0][x] = {}
      /\ \A k \in 1 .. MaxNesting : \A x \in Component : upTo[k][x] = Body(upTo[k - 1], x)
  <2> DEFINE F == [k \in 0 .. MaxNesting |-> [x \in Component |->
                     IF k = 0 THEN {} ELSE Body(upTo[k - 1], x)]]
  <2>1. upTo = F
    BY <1>7 DEF Run
  <2>2. F[0] = [x \in Component |-> {}]
    BY <1>1
  <2>3. \A k \in 1 .. MaxNesting : F[k] = [x \in Component |-> Body(upTo[k - 1], x)]
    BY <1>1
  <2> HIDE DEF F
  <2>4. \A k \in 1 .. MaxNesting : upTo[k] = [x \in Component |-> Body(upTo[k - 1], x)]
    BY <2>1, <2>3, Zenon
  <2> QED
    BY <2>1, <2>2, <2>4, ZenonT(40)
<1> QED
  BY <1>2, <1>3, <1>8 DEF Expansion

LEMMA InsideFinite ==
  ASSUME NEW d, DocForm(d), NEW c \in Component
  PROVE  IsFiniteSet(Inside(d, c))
<1> DEFINE Body(prev, x) == Nest(d, prev, x)
<1>1. MaxNesting \in Nat
  BY ComponentAssumption
<1>2. PICK upTo : Expansion(d, upTo)
  BY Expands
<1> DEFINE Good == {k \in 0 .. MaxNesting : \A x \in Component : IsFiniteSet(upTo[k][x])}
<1>3. ASSUME NEW prev, \A x \in Component : IsFiniteSet(prev[x]), NEW x \in Component
      PROVE  IsFiniteSet(Body(prev, x))
  <2> DEFINE in == Inner(d, x)
             nested == {m \in in : m.of # Plain}
             Paths(n) == {<<n>> \o path : path \in prev[n.of]}
             One == {<<n>> : n \in in}
             Many == {Paths(n) : n \in nested}
  <2>1. IsFiniteSet(in) /\ (\A n \in nested : n.of \in Component) /\ nested \subseteq in
    <3>1. TreeForm(Tree(d, x)) /\ in \subseteq Tree(d, x)
      BY TreesForm DEF Inner
    <3> QED
      BY <3>1, FS_Subset DEF TreeForm, NodeForm
  <2> HIDE DEF in
  <2>2. IsFiniteSet(One)
    <3>1. [n \in in |-> <<n>>] \in Surjection(in, One)
      BY DEF Surjection
    <3> QED
      BY <2>1, <3>1, FS_Surjection
  <2>3. ASSUME NEW n \in nested
        PROVE  IsFiniteSet(Paths(n))
    <3>1. IsFiniteSet(prev[n.of])
      BY <1>3, <2>1, <2>3
    <3> DEFINE P == prev[n.of]
               f == [path \in P |-> <<n>> \o path]
    <3> HIDE DEF P
    <3>2. f \in Surjection(P, {<<n>> \o path : path \in P})
      BY DEF Surjection
    <3> QED
      BY <3>1, <3>2, FS_Surjection DEF P
  <2> HIDE DEF nested, Paths
  <2>4. IsFiniteSet(nested)
    BY <2>1, FS_Subset
  <2>5. IsFiniteSet(Many)
    <3>1. [n \in nested |-> Paths(n)] \in Surjection(nested, Many)
      BY DEF Surjection
    <3> QED
      BY <2>4, <3>1, FS_Surjection
  <2>6. IsFiniteSet(UNION Many)
    <3>1. \A t \in Many : IsFiniteSet(t)
      BY <2>3
    <3> HIDE DEF Many
    <3> QED
      BY <2>5, <3>1, FS_UNION
  <2>7. Body(prev, x) = One \cup UNION Many
    BY DEF in, nested, Paths, One, Many, Nest
  <2> HIDE DEF One, Many, Body
  <2> QED
    BY <2>2, <2>6, <2>7, FS_Union
<1> HIDE DEF Body
<1>4. /\ \A x \in Component : upTo[0][x] = {}
      /\ \A k \in 1 .. MaxNesting : \A x \in Component : upTo[k][x] = Body(upTo[k - 1], x)
  BY <1>2 DEF Expansion, Body
<1>5. Inside(d, c) = upTo[MaxNesting][c]
  BY <1>2 DEF Expansion
<1>6. 0 \in Good
  BY <1>1, <1>4, FS_EmptySet
<1>7. \A k \in 1 .. MaxNesting : k - 1 \in Good => k \in Good
  BY <1>1, <1>3, <1>4
<1>8. MaxNesting \in Good
  <2> HIDE DEF Good
  <2>1. 0 .. MaxNesting \subseteq Good
    BY <1>1, <1>6, <1>7, Induction, Zenon
  <2> QED
    BY <1>1, <2>1
<1> QED
  BY <1>5, <1>8

(* A finite set listed.                                                      *)
LEMMA ListForm ==
  ASSUME NEW S, IsFiniteSet(S)
  PROVE  SetToSeq(S) \in Seq(S) /\ Range(SetToSeq(S)) \subseteq S /\ IsFiniteSet(Range(SetToSeq(S)))
<1>1. PICK g \in [1 .. Cardinality(S) -> S] : IsInjective(g)
  <2>1. PICK f \in Bijection(1 .. Cardinality(S), S) : TRUE
    BY FS_CardinalityType DEF ExistsBijection
  <2> QED
    BY <2>1 DEF Bijection, Injection
<1>2. SetToSeq(S) \in [1 .. Cardinality(S) -> S]
  BY <1>1 DEF SetToSeq
<1>3. Cardinality(S) \in Nat
  BY FS_CardinalityType
<1>4. SetToSeq(S) \in Seq(S)
  BY <1>2, <1>3
<1>5. Range(SetToSeq(S)) \subseteq S
  BY <1>4, RangeOfSeq
<1> QED
  BY <1>4, <1>5, FS_Subset

(* What an instance is detached into.                                        *)
LEMMA MaterializedForm ==
  ASSUME NEW d, DocForm(d), NEW c, The(d, c.place, c.id).of \in Component
  PROVE  TreeForm(Materialized(d, c)) /\ \A m \in Materialized(d, c) : m.of = Plain
<1> DEFINE n == The(d, c.place, c.id)
           new == Materialized(d, c)
<1> DEFINE paths == SetToSeq(Inside(d, n.of))
           R == Range(paths)
           idOf(path) == IF path = <<>> THEN c.id
                         ELSE c.fresh[SelectInSeq(paths, LAMBDA q : q = path)]
           Made(path) == PlainNode(idOf(path), idOf(ParentPath(d, n.of, path)),
                                   ComposedLock(d, Last(path)))
           root == PlainNode(c.id, n.under, ComposedLock(d, n))
           all == {Made(path) : path \in R}
<1>1. new = {root} \cup all
  BY DEF Materialized
<1>2. IsFiniteSet(R)
  BY InsideFinite, ListForm
<1>3. \A path : NodeForm(Made(path)) /\ Made(path).of = Plain
  BY PlainForm
<1>4. NodeForm(root) /\ root.of = Plain
  BY PlainForm
<1> HIDE DEF Made, R, new, root
<1>5. IsFiniteSet(all)
  <2>1. [path \in R |-> Made(path)] \in Surjection(R, all)
    BY DEF Surjection
  <2> QED
    BY <1>2, <2>1, FS_Surjection
<1>6. IsFiniteSet(new)
  <2>1. new = all \cup {root}
    BY <1>1
  <2> HIDE DEF all
  <2> QED
    BY <1>5, <2>1, FS_AddElement
<1> QED
  BY <1>1, <1>3, <1>4, <1>6 DEF TreeForm, new

LEMMA DetachSteps ==
  ASSUME NEW T, NEW d, DocForm(d), NEW c, CommandForm(c),
         c.type = "component-instance.detach", Accepts(d, c)
  PROVE  Leads(T, d, c, After(d, c)) /\ BacksAll(T, d, c, InverseOf(d, c))
<1> DEFINE p == c.place
           n == The(d, p, c.id)
           new == Materialized(d, c)
           tree == (Tree(d, p) \ {n}) \cup new
<1>1. "place" \in DOMAIN c
  BY DEF CommandForm, KeptForm, FirstForm
<1>2. Holds(d, p, c.id) /\ n.of # Plain
  BY DEF Accepts, DetachAccepts, IsInstance
<1>3. p \in Places(d) /\ p \in Place
  BY <1>2, PlacesAre DEF Holds, IdsOf, Tree, Places
<1>4. NodeForm(n) /\ n \in Tree(d, p) /\ n.of \in Component
  BY <1>2, TheIn, TreesForm DEF TreeForm, NodeForm
<1>5. After(d, c) = Plant(d, p, tree)
  BY DEF After, Detached
<1>6. TreeForm(new) /\ \A m \in new : m.of = Plain
  BY <1>4, MaterializedForm
<1> HIDE DEF new, n
<1>7. TreeForm(tree)
  <2>1. IsFiniteSet(Tree(d, p) \ {n}) /\ TreeForm(Tree(d, p))
    BY TreesForm, FS_Subset DEF TreeForm
  <2>2. IsFiniteSet(tree)
    BY <1>6, <2>1, FS_Union DEF TreeForm
  <2> QED
    BY <1>6, <2>1, <2>2 DEF TreeForm
<1>8. Within(T, d) => \A k \in tree : k.of # Plain => <<p, k.of>> \in T
  BY <1>3, <1>6, TreeWithin
<1>9. Touches(d, c) = {p} \cap Component
  BY <1>1, TreeTouches DEF ResetsNothing
<1> HIDE DEF tree
<1>10. Leads(T, d, c, After(d, c))
  BY <1>3, <1>5, <1>7, <1>8, <1>9, PlantLeads
<1> DEFINE i == [type |-> "node.delete", place |-> p, id |-> c.id]
           j == Recreate(d, p, c.id)
<1>11. InverseOf(d, c) = <<i, j>>
  BY DEF InverseOf, DetachInverse
<1>12. Backs(T, d, c, i) /\ Backs(T, d, c, j)
  BY <1>3, DeletionBacks, RecreateBacks
<1> HIDE DEF i, j
<1>13. <<i, j>> \in Seq({i, j}) /\ Range(<<i, j>>) = {i, j}
  BY DEF Range
<1>14. BacksAll(T, d, c, <<i, j>>)
  BY <1>12, <1>13 DEF BacksAll, IsSeq
<1> QED
  BY <1>10, <1>11, <1>14

(* A node under another parent.                                              *)
LEMMA UnderForm ==
  ASSUME NEW n, NodeForm(n), NEW under
  PROVE  NodeForm([n EXCEPT !.under = under]) /\ [n EXCEPT !.under = under].of = n.of
<1>1. [n EXCEPT !.under = under]
        = [id |-> n.id, under |-> under, of |-> n.of, over |-> n.over, locked |-> n.locked]
  BY DEF NodeForm
<1> QED
  BY <1>1 DEF NodeForm

(* The Source that a selection becomes.                                      *)
LEMMA ExtractedForm ==
  ASSUME NEW d, DocForm(d), NEW c, c.place \in Places(d),
         \A id \in c.ids : Holds(d, c.place, id)
  PROVE  /\ SourceForm(SourceOf(d, c)) /\ SourceOf(d, c).tree = SourceTree(d, c)
         /\ \A m \in SourceTree(d, c) : m.of # Plain => \E n \in Tree(d, c.place) : m.of = n.of
<1> DEFINE sel == Selected(d, c)
           new == SourceTree(d, c)
           f == [i \in Id |-> IF i \in c.ids THEN c.root ELSE c.fresh[i]]
           A == Remapped(sel, f)
           B == Remapped(sel, c.fresh)
           Up(n) == [n EXCEPT !.under = IF n.id = c.root THEN 0 ELSE @]
           In(n) == [n EXCEPT !.under = IF @ \in {c.fresh[m.id] : m \in sel} THEN @ ELSE c.root]
           UpA == {Up(n) : n \in A}
           InB == {In(n) : n \in B}
           root == PlainNode(c.root, 0, "absent")
<1>1. TreeForm(Tree(d, c.place)) /\ sel \subseteq Tree(d, c.place)
  BY TreesForm, BelowIn DEF Selected
<1> HIDE DEF sel, f
<1>2. TreeForm(sel)
  BY <1>1, FS_Subset DEF TreeForm
<1>3. /\ TreeForm(A) /\ \A m \in A : \E n \in sel : m.of = n.of
      /\ TreeForm(B) /\ \A m \in B : \E n \in sel : m.of = n.of
  BY <1>2, RemappedForm
<1>4. new = IF c.reuse THEN UpA ELSE InB \cup {root}
  BY DEF SourceTree, sel, f
<1> HIDE DEF A, B, new
<1>5. \A n \in A : NodeForm(Up(n)) /\ Up(n).of = n.of
  <2> TAKE n \in A
  <2> DEFINE v == IF n.id = c.root THEN 0 ELSE n.under
  <2>1. NodeForm(n)
    BY <1>3 DEF TreeForm
  <2>2. Up(n) = [n EXCEPT !.under = v]
    OBVIOUS
  <2> HIDE DEF v, Up
  <2> QED
    BY <2>1, <2>2, UnderForm, SMTT(30)
<1>6. \A n \in B : NodeForm(In(n)) /\ In(n).of = n.of
  <2> TAKE n \in B
  <2> DEFINE v == IF n.under \in {c.fresh[m.id] : m \in sel} THEN n.under ELSE c.root
  <2>1. NodeForm(n)
    BY <1>3 DEF TreeForm
  <2>2. In(n) = [n EXCEPT !.under = v]
    OBVIOUS
  <2> HIDE DEF v, In
  <2> QED
    BY <2>1, <2>2, UnderForm
<1> HIDE DEF Up, In
<1>7. IsFiniteSet(UpA) /\ IsFiniteSet(InB)
  <2>1. /\ [n \in A |-> Up(n)] \in Surjection(A, UpA)
        /\ [n \in B |-> In(n)] \in Surjection(B, InB)
    BY DEF Surjection
  <2> QED
    BY <1>3, <2>1, FS_Surjection DEF TreeForm
<1>8. NodeForm(root) /\ root.of = Plain
  BY PlainForm
<1> HIDE DEF root
<1>9. TreeForm(UpA) /\ TreeForm(InB)
  BY <1>5, <1>6, <1>7 DEF TreeForm
<1>10. \A m \in UpA \cup InB : \E n \in Tree(d, c.place) : m.of = n.of
  <2>1. \A n \in A \cup B : \E k \in Tree(d, c.place) : n.of = k.of
    BY <1>1, <1>3
  <2> QED
    BY <1>5, <1>6, <2>1
<1> HIDE DEF UpA, InB
<1>11. TreeForm(new)
  <2>1. IsFiniteSet(InB \cup {root})
    BY <1>9, FS_AddElement DEF TreeForm
  <2> QED
    BY <1>4, <1>8, <1>9, <2>1 DEF TreeForm
<1>12. \A m \in new : m.of # Plain => \E n \in Tree(d, c.place) : m.of = n.of
  BY <1>4, <1>8, <1>10
<1>13. SourceOf(d, c) = [name |-> "Component", rev |-> 1, root |-> c.root, tree |-> new, props |-> <<>>]
  BY DEF SourceOf, new
<1> QED
  BY <1>11, <1>12, <1>13 DEF SourceForm, new

(* A Source that holds an instance of itself is in a cycle.                  *)
LEMMA EmbedsItself ==
  ASSUME NEW d, NEW x \in Defined(d), NEW n \in Tree(d, x), n.of = x, x # Plain
  PROVE  Cyclic(d)
<1>1. x \in Uses(d, x) /\ x \in Component
  BY DEF Uses, Defined
<1> QED
  BY <1>1 DEF Cyclic, Cone

LEMMA ExtractLeads ==
  ASSUME NEW T, NEW d, DocForm(d), NEW c, CommandForm(c), c.type = "component.extract", Accepts(d, c)
  PROVE  Leads(T, d, c, After(d, c))
<1> DEFINE p == c.place
           x == c.component
           def == SourceOf(d, c)
           k == InstanceNode(c, The(d, p, CHOOSE id \in c.ids : TRUE).under)
           tree == (Tree(d, p) \ Selected(d, c)) \cup {k}
           b == Placed(d, c)
           e == [b EXCEPT !.defs[x] = def]
<1>1. x \in Component /\ "place" \in DOMAIN c
  BY DEF CommandForm, KeptForm, FirstForm
<1>2. /\ p \in Places(d) /\ p \in Place
      /\ \A id \in c.ids : Holds(d, p, id)
      /\ x \notin Defined(b)
  <2>1. ExtractAccepts(EnforceLocked, d, c)
    BY DEF Accepts
  <2> QED
    BY <2>1, PlacesAre DEF ExtractAccepts, Addable
<1>3. NodeForm(k) /\ k.of = x
  BY <1>1, InstanceForm
<1>4. b = Plant(d, p, tree)
  BY DEF Placed
<1> HIDE DEF k, b
<1>5. TreeForm(tree)
  <2>1. TreeForm(Tree(d, p)) /\ IsFiniteSet(Tree(d, p) \ Selected(d, c))
    BY TreesForm, FS_Subset DEF TreeForm
  <2>2. IsFiniteSet(tree)
    BY <2>1, FS_AddElement
  <2> QED
    BY <1>3, <2>1, <2>2 DEF TreeForm
<1>6. Within(T, d) /\ Allowed(T, c) => \A n \in tree : n.of # Plain => <<p, n.of>> \in T
  BY <1>2, <1>3, TreeWithin DEF Allowed
<1> HIDE DEF tree
<1>7. /\ DocForm(b)
      /\ Defined(b) \subseteq Defined(d)
      /\ \A y \in Component : y # p => b.defs[y] = d.defs[y]
      /\ Within(T, d) /\ Allowed(T, c) => Within(T, b)
  BY <1>2, <1>4, <1>5, <1>6, PlantKeeps
<1>8. SourceForm(def) /\ def.tree = SourceTree(d, c)
  BY <1>2, ExtractedForm
<1>9. ASSUME Within(T, d), Allowed(T, c), def # NoDefinition, NEW m \in def.tree, m.of # Plain
      PROVE  <<x, m.of>> \in T
  <2>1. PICK n \in Tree(d, p) : m.of = n.of
    BY <1>2, <1>8, <1>9, ExtractedForm
  <2>2. <<p, m.of>> \in T
    BY <1>2, <1>9, <2>1, TreeWithin
  <2>3. m.of \in Component
    BY <1>8, <1>9 DEF SourceForm, TreeForm, NodeForm
  <2>4. m.of # x
    <3>1. x \in Defined(e) /\ m \in Tree(e, x)
      <4> DEFINE y == x
      <4>1. y \in Component
        BY <1>1
      <4> HIDE DEF y, def
      <4>2. [b EXCEPT !.defs[y] = def].defs[y] = def
        BY <1>7, <4>1 DEF DocForm
      <4> QED
        BY <1>9, <4>1, <4>2, ComponentAssumption DEF Defined, Tree, y
    <3>2. ~Cyclic(e)
      <4>1. Addable(b, x, def)
        BY DEF Accepts, ExtractAccepts, b
      <4> QED
        BY <4>1 DEF Addable
    <3> HIDE DEF e, x, def
    <3> QED
      BY <1>9, <3>1, <3>2, EmbedsItself
  <2> QED
    BY <1>9, <2>2, <2>3, <2>4 DEF Allowed
<1> HIDE DEF def, x
<1>10. /\ DocForm(e)
       /\ Defined(e) \subseteq Defined(b) \cup {x}
       /\ \A y \in Component : y # x => e.defs[y] = b.defs[y]
       /\ Within(T, b) /\ (def # NoDefinition => \A n \in def.tree : n.of # Plain => <<x, n.of>> \in T)
             => Within(T, e)
  BY <1>1, <1>7, <1>8, DefineKeeps
<1>11. After(d, c) = e
  BY DEF After, Extracted, b, def, x
<1> HIDE DEF e
<1>12. Touches(d, c) = {p} \cap Component
  BY <1>1, TreeTouches DEF ResetsNothing
<1>13. Born(c) = {x}
  BY DEF Born, x
<1>14. \A y \in Defined(d) \ Touches(d, c) : e.defs[y] = d.defs[y]
  <2> TAKE y \in Defined(d) \ Touches(d, c)
  <2>1. y \in Component /\ y # p
    BY <1>12 DEF Defined
  <2>2. b.defs[y] = d.defs[y]
    BY <1>7, <2>1
  <2>3. y # x
    BY <1>2, <2>1, <2>2 DEF Defined, x
  <2> QED
    BY <1>10, <2>1, <2>2, <2>3
<1> QED
  BY <1>7, <1>9, <1>10, <1>11, <1>13, <1>14 DEF Leads

LEMMA ExtractSteps ==
  ASSUME NEW T, NEW d, DocForm(d), NEW c, CommandForm(c), c.type = "component.extract", Accepts(d, c)
  PROVE  Leads(T, d, c, After(d, c)) /\ BacksAll(T, d, c, InverseOf(d, c))
<1> DEFINE p == c.place
           S == {Recreate(d, p, id) : id \in c.ids}
           i == [type |-> "node.delete", place |-> p, id |-> c.instance]
           j == [type |-> "component.delete", component |-> c.component]
           s == SetToSeq(S)
<1>1. p \in Place /\ c.ids \subseteq IdsOf(Tree(d, p))
  <2>1. ExtractAccepts(EnforceLocked, d, c)
    BY DEF Accepts
  <2> QED
    BY <2>1, PlacesAre DEF ExtractAccepts, Holds
<1>2. IsFiniteSet(c.ids)
  <2> DEFINE tree == Tree(d, p)
  <2>1. IsFiniteSet(tree)
    BY TreesForm DEF TreeForm
  <2> HIDE DEF tree
  <2>2. [n \in tree |-> n.id] \in Surjection(tree, IdsOf(tree))
    BY DEF Surjection, IdsOf
  <2> QED
    BY <1>1, <2>1, <2>2, FS_Surjection, FS_Subset DEF tree
<1>3. IsFiniteSet(S)
  <2> DEFINE ids == c.ids
  <2>1. [id \in ids |-> Recreate(d, p, id)] \in Surjection(ids, {Recreate(d, p, id) : id \in ids})
    BY DEF Surjection
  <2> QED
    BY <1>2, <2>1, FS_Surjection
<1>4. \A k \in S : Backs(T, d, c, k)
  BY <1>1, RecreateBacks
<1> HIDE DEF S
<1>5. BacksAll(T, d, c, s)
  BY <1>3, <1>4, ListForm, SeqIs DEF BacksAll
<1>6. BacksAll(T, d, c, <<i>>)
  BY DeletionBacks, BacksOne
<1>7. BacksAll(T, d, c, <<j>>)
  BY RemovalBacks, BacksOne DEF Births
<1>8. InverseOf(d, c) = <<i>> \o s \o <<j>>
  BY DEF InverseOf, ExtractInverse, S
<1> HIDE DEF s, i, j
<1>9. BacksAll(T, d, c, <<i>> \o s \o <<j>>)
  BY <1>5, <1>6, <1>7, BacksBoth
<1> QED
  BY <1>8, <1>9, ExtractLeads

-----------------------------------------------------------------------------
(* A command that is accepted leads to a document of the form, within T when *)
(* it is allowed, and so does each command of its inverse.                   *)
LEMMA CommandSteps ==
  ASSUME NEW T, NEW d, DocForm(d), NEW c, CommandForm(c), Accepts(d, c)
  PROVE  Leads(T, d, c, After(d, c)) /\ BacksAll(T, d, c, InverseOf(d, c))
<1>1. \/ c.type = "node.create" \/ c.type = "node.delete" \/ c.type = "node.update"
      \/ c.type = "component.create" \/ c.type = "component.extract"
      \/ c.type = "component.duplicate" \/ c.type = "component.delete"
      \/ c.type = "component.rename" \/ c.type = "component.add-property"
      \/ c.type = "component.update-property" \/ c.type = "component.remove-property"
      \/ c.type = "component-instance.insert" \/ c.type = "component-instance.set-override"
      \/ c.type = "component-instance.reset-override"
      \/ c.type = "component-instance.reset-all-overrides"
      \/ c.type = "component-instance.detach"
  BY DEF CommandForm, KeptForm, FirstForm
<1> QED
  BY <1>1, CreateSteps, DeleteSteps, UpdateSteps, RestoreSteps, ExtractSteps, DuplicateSteps,
     RemoveSteps, RenameSteps, AddPropertySteps, UpdatePropertySteps, RemovePropertySteps,
     InsertSteps, SetOverrideSteps, ResetOverrideSteps, ResetAllSteps, DetachSteps

-----------------------------------------------------------------------------
(* A batch of commands.                                                      *)

NoBirths(cmds) == \A c \in Range(cmds) : c.type \notin Births
NoDeletes(cmds) == \A c \in Range(cmds) : c.type # "component.delete"

(* No batch of the hosts brings a definition and deletes one.                *)
Pure(cmds) == NoBirths(cmds) \/ NoDeletes(cmds)

Borns(cmds) == UNION {Born(c) : c \in Range(cmds)}

AllAllowed(T, cmds) == \A c \in Range(cmds) : Allowed(T, c)

AllKept(cmds) == \A c \in Range(cmds) : KeptForm(c)

(* What the commands done so far, of cmds, have led to from d.               *)
Reached(T, d, cmds, a) ==
    /\ DocForm(a.doc)
    /\ IsSeq(a.inverse) /\ AllKept(a.inverse)
    /\ Within(T, d) /\ AllAllowed(T, cmds) => Within(T, a.doc) /\ AllAllowed(T, a.inverse)
    /\ Defined(a.doc) \subseteq Defined(d) \cup Borns(cmds)
    /\ Borns(a.inverse) \subseteq Defined(d) \cup Borns(cmds)
    /\ NoBirths(cmds) => NoDeletes(a.inverse)
    /\ NoDeletes(cmds) => NoBirths(a.inverse)
    /\ Pure(cmds) => \A x \in Defined(d) \ a.touched :
                        \/ a.doc.defs[x] = d.defs[x]
                        \/ NoBirths(cmds) /\ x \notin Defined(a.doc)

RunForm(a) ==
    a = [ok |-> a.ok, doc |-> a.doc, inverse |-> a.inverse, touched |-> a.touched]

LEMMA FoldSteps ==
  ASSUME NEW T, NEW d, NEW cmds, NEW a, RunForm(a), NEW c \in Range(cmds), CommandForm(c),
         a.ok => Reached(T, d, cmds, a)
  PROVE  RunForm(Fold(a, c)) /\ (Fold(a, c).ok => Reached(T, d, cmds, Fold(a, c)))
<1>1. CASE ~a.ok \/ ~Accepts(a.doc, c)
  <2>1. Fold(a, c) = [a EXCEPT !.ok = FALSE]
    BY <1>1 DEF Fold
  <2>2. [a EXCEPT !.ok = FALSE]
          = [ok |-> FALSE, doc |-> a.doc, inverse |-> a.inverse, touched |-> a.touched]
    <3>1. \A v : [a EXCEPT !.ok = v]
                   = [ok |-> v, doc |-> a.doc, inverse |-> a.inverse, touched |-> a.touched]
      BY DEF RunForm
    <3> QED
      BY <3>1, Zenon
  <2> QED
    BY <2>1, <2>2 DEF RunForm
<1>2. CASE a.ok /\ Accepts(a.doc, c)
  <2> DEFINE e == After(a.doc, c)
             inv == InverseOf(a.doc, c)
             touches == Touches(a.doc, c)
             both == inv \o a.inverse
             b == [ok |-> TRUE, doc |-> e, inverse |-> both, touched |-> a.touched \cup touches]
  <2>1. Fold(a, c) = b
    BY <1>2 DEF Fold
  <2>2. Reached(T, d, cmds, a) /\ DocForm(a.doc)
    BY <1>2 DEF Reached
  <2>3. Leads(T, a.doc, c, e) /\ BacksAll(T, a.doc, c, inv)
    BY <1>2, <2>2, CommandSteps
  <2> HIDE DEF e, inv
  <2>4. IsSeq(both) /\ Range(both) = Range(inv) \cup Range(a.inverse)
    BY <2>2, <2>3, SeqJoin DEF Reached, BacksAll
  <2> HIDE DEF both
  <2>5. Born(c) \subseteq Borns(cmds)
    BY DEF Borns
  <2>6. DocForm(e) /\ Defined(e) \subseteq Defined(d) \cup Borns(cmds)
    BY <2>2, <2>3, <2>5 DEF Leads, Reached
  <2>7. AllKept(both)
    BY <2>2, <2>3, <2>4 DEF AllKept, BacksAll, Backs, Reached
  <2>8. Within(T, d) /\ AllAllowed(T, cmds) => Within(T, e) /\ AllAllowed(T, both)
    BY <2>2, <2>3, <2>4 DEF AllAllowed, BacksAll, Backs, Reached, Leads
  <2>9. Borns(both) \subseteq Defined(d) \cup Borns(cmds)
    <3>1. \A i \in Range(inv) : Born(i) \subseteq Defined(d) \cup Borns(cmds)
      BY <2>2, <2>3 DEF BacksAll, Backs, Reached
    <3>2. \A i \in Range(a.inverse) : Born(i) \subseteq Defined(d) \cup Borns(cmds)
      <4>1. Borns(a.inverse) \subseteq Defined(d) \cup Borns(cmds)
        BY <2>2 DEF Reached
      <4> QED
        BY <4>1 DEF Borns
    <3>3. \A i \in Range(both) : Born(i) \subseteq Defined(d) \cup Borns(cmds)
      BY <2>4, <3>1, <3>2
    <3> DEFINE U == Defined(d) \cup Borns(cmds)
    <3> HIDE DEF U
    <3>4. \A i \in Range(both) : Born(i) \subseteq U
      BY <3>3 DEF U
    <3>5. UNION {Born(i) : i \in Range(both)} \subseteq U
      BY <3>4
    <3> QED
      BY <3>5 DEF U, Borns
  <2>10. NoBirths(cmds) => NoDeletes(both)
    BY <2>2, <2>3, <2>4 DEF NoBirths, NoDeletes, BacksAll, Backs, Reached
  <2>11. NoDeletes(cmds) => NoBirths(both)
    BY <2>2, <2>3, <2>4 DEF NoBirths, NoDeletes, BacksAll, Backs, Reached
  <2>12. ASSUME Pure(cmds), NEW x \in Defined(d) \ (a.touched \cup touches)
         PROVE  e.defs[x] = d.defs[x] \/ (NoBirths(cmds) /\ x \notin Defined(e))
    <3>1. \/ a.doc.defs[x] = d.defs[x]
          \/ NoBirths(cmds) /\ x \notin Defined(a.doc)
      BY <2>2, <2>12 DEF Reached
    <3>2. CASE a.doc.defs[x] = d.defs[x]
      <4>1. x \in Defined(a.doc) \ touches
        BY <2>12, <3>2 DEF Defined
      <4>2. e.defs[x] = a.doc.defs[x] \/ (c.type = "component.delete" /\ x \notin Defined(e))
        BY <2>3, <4>1 DEF Leads
      <4>3. c.type = "component.delete" => NoBirths(cmds)
        BY <2>12 DEF Pure, NoDeletes
      <4> QED
        BY <3>2, <4>2, <4>3
    <3>3. CASE NoBirths(cmds) /\ x \notin Defined(a.doc)
      <4>1. Born(c) = {}
        BY <3>3 DEF NoBirths, Born, Births
      <4>2. x \notin Defined(e)
        BY <2>3, <3>3, <4>1 DEF Leads
      <4> QED
        BY <3>3, <4>2
    <3> QED
      BY <3>1, <3>2, <3>3
  <2>13. RunForm(b)
    BY DEF RunForm
  <2>14. b.doc = e /\ b.inverse = both /\ b.touched = a.touched \cup touches
    OBVIOUS
  <2> HIDE DEF b
  <2>15. Reached(T, d, cmds, b)
    BY <2>4, <2>6, <2>7, <2>8, <2>9, <2>10, <2>11, <2>12, <2>14 DEF Reached
  <2> QED
    BY <2>1, <2>13, <2>15
<1> QED
  BY <1>1, <1>2

(* A whole batch.                                                            *)
LEMMA BatchSteps ==
  ASSUME NEW T, NEW d, DocForm(d), NEW cmds, IsSeq(cmds), \A c \in Range(cmds) : CommandForm(c)
  PROVE  Folded(d, cmds).ok => Reached(T, d, cmds, Folded(d, cmds))
<1> DEFINE N == Len(cmds)
<1>1. PICK acc : Batches(d, cmds, acc)
  <2>1. cmds \in Seq(Range(cmds))
    BY DEF IsSeq
  <2> QED
    BY <2>1, FoldedUnfolds
<1> DEFINE S == {k \in 0 .. N : RunForm(acc[k]) /\ (acc[k].ok => Reached(T, d, cmds, acc[k]))}
<1>2. N \in Nat /\ \A k \in 1 .. N : cmds[k] \in Range(cmds)
  BY DEF IsSeq, Range
<1>3. 0 \in S
  <2> DEFINE start == [ok |-> TRUE, doc |-> d, inverse |-> <<>>, touched |-> {}]
  <2>1. acc[0] = start
    BY <1>1 DEF Batches
  <2>2. RunForm(start)
    BY DEF RunForm
  <2>3. IsSeq(<<>>) /\ Range(<<>>) = {}
    BY DEF IsSeq, Range
  <2>4. start.doc = d /\ start.inverse = <<>> /\ start.touched = {}
    OBVIOUS
  <2> HIDE DEF start
  <2>5. Reached(T, d, cmds, start)
    BY <2>3, <2>4 DEF Reached, AllKept, AllAllowed, Borns, NoBirths, NoDeletes
  <2> QED
    BY <1>2, <2>1, <2>2, <2>5
<1>4. \A k \in 1 .. N : k - 1 \in S => k \in S
  <2> TAKE k \in 1 .. N
  <2> HAVE k - 1 \in S
  <2>1. acc[k] = Fold(acc[k - 1], cmds[k])
    BY <1>1 DEF Batches
  <2>2. RunForm(acc[k - 1]) /\ (acc[k - 1].ok => Reached(T, d, cmds, acc[k - 1]))
    OBVIOUS
  <2>3. RunForm(acc[k]) /\ (acc[k].ok => Reached(T, d, cmds, acc[k]))
    BY <1>2, <2>1, <2>2, FoldSteps
  <2> QED
    BY <1>2, <2>3
<1>5. N \in S
  <2> HIDE DEF S
  <2>1. 0 .. N \subseteq S
    BY <1>2, <1>3, <1>4, Induction, Zenon
  <2> QED
    BY <1>2, <2>1
<1> QED
  BY <1>1, <1>5 DEF Batches

-----------------------------------------------------------------------------
(* The settling of revisions.                                                *)

(* A definition that is not the one it was has another revision.             *)
RevisionsMove(d, e) ==
    \A x \in Defined(d) \cap Defined(e) :
        e.defs[x] # d.defs[x] => e.defs[x].rev # d.defs[x].rev

(* The definition of x with its revision moved by one.                       *)
Moved(d, x) == [d.defs[x] EXCEPT !.rev = @ + 1]

(* The definitions to settle.                                                *)
Moves(d, e, touched) ==
    {x \in touched \cap Defined(d) \cap Defined(e) : d.defs[x].rev = e.defs[x].rev}

LEMMA MovedForm ==
  ASSUME NEW d, DocForm(d), NEW x \in Defined(d)
  PROVE  /\ SourceForm(Moved(d, x)) /\ Moved(d, x).tree = d.defs[x].tree
         /\ Moved(d, x).rev = d.defs[x].rev + 1 /\ d.defs[x].rev \in Nat
<1> DEFINE def == d.defs[x]
           rev == def.rev + 1
<1>1. SourceForm(def)
  BY DEF DocForm
<1>2. rev \in Nat /\ def.rev \in Nat
  BY <1>1 DEF SourceForm
<1>3. Moved(d, x) = [def EXCEPT !.rev = rev]
  BY DEF Moved
<1> HIDE DEF rev
<1>4. [def EXCEPT !.rev = rev] = [name |-> def.name, rev |-> rev, root |-> def.root,
                                  tree |-> def.tree, props |-> def.props]
  BY <1>1 DEF SourceForm
<1> QED
  BY <1>1, <1>2, <1>3, <1>4 DEF SourceForm, rev

LEMMA SettledForm ==
  ASSUME NEW T, NEW d, DocForm(d), NEW e, DocForm(e), NEW touched
  PROVE  LET s == Settled(d, e, touched)
         IN  /\ DocForm(s)
             /\ Defined(s) \subseteq Defined(e)
             /\ Within(T, e) => Within(T, s)
             /\ \A x \in Component :
                   s.defs[x] = IF x \in Moves(d, e, touched) THEN Moved(e, x) ELSE e.defs[x]
<1> DEFINE s == Settled(d, e, touched)
           moves == Moves(d, e, touched)
           defs == [x \in Component |-> IF x \in moves THEN Moved(e, x) ELSE e.defs[x]]
<1>1. s = [page |-> e.page, defs |-> defs]
  <2>1. s = [e EXCEPT !.defs = defs]
    BY DEF Settled, Moved, Moves
  <2> HIDE DEF s, defs
  <2>2. [e EXCEPT !.defs = defs] = [page |-> e.page, defs |-> defs]
    BY DEF DocForm
  <2> QED
    BY <2>1, <2>2
<1>2. moves \subseteq Defined(e)
  BY DEF Moves
<1> HIDE DEF s, moves
<1>3. \A x \in Component : s.defs[x] = IF x \in moves THEN Moved(e, x) ELSE e.defs[x]
  BY <1>1
<1>4. Defined(s) \subseteq Defined(e)
  BY <1>2, <1>3 DEF Defined
<1>5. DocForm(s)
  <2>1. IsFiniteSet(Defined(s))
    BY <1>4, FS_Subset DEF DocForm
  <2>2. \A x \in Defined(s) : SourceForm(s.defs[x])
    BY <1>2, <1>3, <1>4, MovedForm DEF DocForm, Defined
  <2> QED
    BY <1>1, <2>1, <2>2 DEF DocForm
<1>6. Within(T, e) => Within(T, s)
  <2>1. \A q \in Place : Tree(s, q) \subseteq Tree(e, q)
    <3> TAKE q \in Place
    <3>1. CASE q \in Page
      BY <1>1, <3>1 DEF Tree
    <3>2. CASE q \notin Page /\ q \in Defined(s)
      <4>1. q \in Defined(e) /\ q \in Component
        BY <1>4, <3>2 DEF Defined
      <4>2. s.defs[q].tree = e.defs[q].tree
        BY <1>2, <1>3, <4>1, MovedForm
      <4> QED
        BY <3>2, <4>1, <4>2 DEF Tree
    <3>3. CASE q \notin Page /\ q \notin Defined(s)
      BY <3>3 DEF Tree
    <3> QED
      BY <3>1, <3>2, <3>3
  <2> QED
    BY <2>1 DEF Within, Uses
<1> QED
  BY <1>3, <1>4, <1>5, <1>6 DEF s, moves

(* What a batch leads to from d.                                             *)
Leaves(T, d, cmds, r) ==
    /\ DocForm(r.doc)
    /\ IsSeq(r.inverse) /\ AllKept(r.inverse)
    /\ Within(T, d) /\ AllAllowed(T, cmds) => Within(T, r.doc) /\ AllAllowed(T, r.inverse)
    /\ Defined(r.doc) \subseteq Defined(d) \cup Borns(cmds)
    /\ Borns(r.inverse) \subseteq Defined(d) \cup Borns(cmds)
    /\ Pure(cmds) => Pure(r.inverse) /\ RevisionsMove(d, r.doc)

LEMMA AppliedSteps ==
  ASSUME NEW T, NEW d, DocForm(d), NEW cmds, IsSeq(cmds), \A c \in Range(cmds) : CommandForm(c),
         Applied(d, cmds).ok
  PROVE  Leaves(T, d, cmds, Applied(d, cmds))
<1> DEFINE a == Folded(d, cmds)
           e == a.doc
           s == Settled(d, e, a.touched)
           r == [ok |-> a.ok, doc |-> IF a.ok THEN s ELSE d, inverse |-> a.inverse]
           moves == Moves(d, e, a.touched)
<1>1. Applied(d, cmds) = r
  BY DEF Applied, Outcome
<1>2. a.ok
  BY <1>1
<1>3. Reached(T, d, cmds, a)
  BY <1>2, BatchSteps
<1> HIDE DEF a
<1>4. DocForm(e)
  BY <1>3 DEF Reached
<1>5. /\ DocForm(s)
      /\ Defined(s) \subseteq Defined(e)
      /\ Within(T, e) => Within(T, s)
      /\ \A x \in Component : s.defs[x] = IF x \in moves THEN Moved(e, x) ELSE e.defs[x]
  BY <1>4, SettledForm
<1> HIDE DEF s
<1>6. r.doc = s /\ r.inverse = a.inverse
  BY <1>2
<1> HIDE DEF r
<1>7. ASSUME Pure(cmds)
      PROVE  RevisionsMove(d, s)
  <2> SUFFICES ASSUME NEW x \in Defined(d) \cap Defined(s), s.defs[x] # d.defs[x]
               PROVE  s.defs[x].rev # d.defs[x].rev
    BY DEF RevisionsMove
  <2>1. x \in Component /\ x \in Defined(e)
    BY <1>5 DEF Defined
  <2>2. CASE x \in moves
    <3>1. s.defs[x].rev = e.defs[x].rev + 1 /\ e.defs[x].rev \in Nat
      BY <1>4, <1>5, <2>1, <2>2, MovedForm
    <3> QED
      BY <2>2, <3>1 DEF Moves
  <2>3. CASE x \notin moves
    <3>1. s.defs[x] = e.defs[x]
      BY <1>5, <2>1, <2>3
    <3>2. x \in a.touched
      BY <1>3, <1>7, <2>1, <3>1 DEF Reached
    <3> QED
      BY <2>1, <2>3, <3>1, <3>2 DEF Moves
  <2> QED
    BY <2>2, <2>3
<1>8. Pure(cmds) => Pure(a.inverse)
  BY <1>3 DEF Reached, Pure
<1> HIDE DEF moves
<1>9. Leaves(T, d, cmds, r)
  BY <1>3, <1>5, <1>6, <1>7, <1>8 DEF Leaves, Reached
<1> QED
  BY <1>1, <1>9

-----------------------------------------------------------------------------
(* A strict order that every use of a Source follows keeps the graph of      *)
(* Sources free of cycles.                                                   *)

(* T orders the pages and the Sources of N, a page below no Source.          *)
Orders(T, N) ==
    /\ T \subseteq (Page \cup N) \X N
    /\ \A a, b, c : <<a, b>> \in T /\ <<b, c>> \in T => <<a, c>> \in T
    /\ \A a : <<a, a>> \notin T

LEMMA OrderedIsAcyclic ==
  ASSUME NEW d, DocForm(d), NEW T, NEW N, Orders(T, N), Within(T, d)
  PROVE  ~Cyclic(d)
<1> SUFFICES ASSUME NEW c \in Defined(d), c \in Cone(d, c)
             PROVE  FALSE
  BY DEF Cyclic
<1> DEFINE S == {x \in Component : <<c, x>> \in T}
<1>1. \A x \in Component : Uses(d, x) \subseteq Component /\ \A y \in Uses(d, x) : <<x, y>> \in T
  BY TreesForm DEF Within, Uses, TreeForm, NodeForm, Place
<1>2. c \in Component
  BY DEF Defined
<1>3. S \in SUBSET Component /\ Uses(d, c) \subseteq S
  BY <1>1, <1>2
<1>4. \A x \in S : Uses(d, x) \subseteq S
  BY <1>1 DEF Orders
<1>5. c \in S
  <2> HIDE DEF S
  <2> QED
    BY <1>3, <1>4 DEF Cone
<1> QED
  BY <1>5 DEF Orders

(* What an expansion of a place embeds, as an order.                         *)
Embeds(d) == {pair \in Place \X Component : pair[2] \in Cone(d, pair[1])}

LEMMA AcyclicIsOrdered ==
  ASSUME NEW d, DocForm(d), ~Cyclic(d),
         \A p \in Place : \A n \in Tree(d, p) : n.of # Plain => n.of \in Defined(d)
  PROVE  Orders(Embeds(d), Defined(d)) /\ Within(Embeds(d), d)
<1> DEFINE T == Embeds(d)
           Closed(a, S) == Uses(d, a) \subseteq S /\ \A x \in S : Uses(d, x) \subseteq S
<1>1. \A a, x : <<a, x>> \in T <=>
        /\ a \in Place /\ x \in Component
        /\ \A S \in SUBSET Component : Closed(a, S) => x \in S
  BY DEF Embeds, Cone
<1> HIDE DEF T
<1>2. Component \subseteq Place /\ Defined(d) \subseteq Component
  BY DEF Place, Defined
<1>3. \A p \in Place : Uses(d, p) \subseteq Defined(d)
  BY DEF Uses
<1>4. \A p : p \notin Page \cup Defined(d) => Uses(d, p) = {}
  BY DEF Uses, Tree
<1>5. Within(T, d)
  BY <1>1, <1>2, <1>3 DEF Within
<1>6. T \subseteq (Page \cup Defined(d)) \X Defined(d)
  <2>1. T \subseteq Place \X Component
    BY DEF T, Embeds
  <2>2. ASSUME NEW a, NEW x, <<a, x>> \in T
        PROVE  a \in Page \cup Defined(d) /\ x \in Defined(d)
    <3>1. Closed(a, Defined(d))
      BY <1>1, <1>2, <1>3, <2>2
    <3>2. x \in Defined(d)
      BY <1>1, <1>2, <2>2, <3>1
    <3>3. a \notin Page \cup Defined(d) => Closed(a, {})
      BY <1>4
    <3>4. a \in Page \cup Defined(d)
      BY <1>1, <2>2, <3>3
    <3> QED
      BY <3>2, <3>4
  <2> QED
    BY <2>1, <2>2
<1>7. ASSUME NEW a, NEW b, NEW c, <<a, b>> \in T, <<b, c>> \in T
      PROVE  <<a, c>> \in T
  <2>1. \A S \in SUBSET Component : Closed(a, S) => Closed(b, S)
    BY <1>1, <1>7
  <2> HIDE DEF Closed
  <2> QED
    BY <1>1, <1>7, <2>1
<1>8. ASSUME NEW a, <<a, a>> \in T
      PROVE  FALSE
  <2>1. a \in Defined(d)
    BY <1>6, <1>8
  <2>2. a \in Cone(d, a)
    BY <1>8 DEF T, Embeds
  <2> QED
    BY <2>1, <2>2 DEF Cyclic
<1> QED
  BY <1>5, <1>6, <1>7, <1>8 DEF Orders, T

(* The order with a place a that is below nothing put below the sources R.   *)
Under(T, a, R) == T \cup ({a} \X R)

(* What is above x, and x itself.                                            *)
Above(T, x) == {y \in Component : <<x, y>> \in T}

LEMMA UnderOrders ==
  ASSUME NEW T, NEW N, Orders(T, N), NEW a \in Place, a \notin N,
         NEW R \in SUBSET N, \A x \in R : \A y : <<x, y>> \in T => y \in R,
         NEW M, N \subseteq M, M \subseteq Component, a \in Component => a \in M
  PROVE  Orders(Under(T, a, R), M) /\ T \subseteq Under(T, a, R)
<1> DEFINE U == Under(T, a, R)
<1>1. \A x, y : <<x, y>> \in U <=> <<x, y>> \in T \/ (x = a /\ y \in R)
  BY DEF Under
<1>2. \A x, y : <<x, y>> \in T => x \in Page \cup N /\ y \in N
  BY DEF Orders
<1>3. U \subseteq (Page \cup M) \X M
  BY DEF Under, Orders, Place
<1>4. T \subseteq U
  BY DEF Under
<1> HIDE DEF U
<1>5. \A x, y, z : <<x, y>> \in U /\ <<y, z>> \in U => <<x, z>> \in U
  BY <1>1, <1>2 DEF Orders
<1>6. \A x : <<x, x>> \notin U
  BY <1>1 DEF Orders
<1> QED
  BY <1>3, <1>4, <1>5, <1>6 DEF Orders, U

(* The order with a new Source c put between a place p and what p embeds.    *)
Between(T, p, c) ==
    LET U == Under(T, c, Above(T, p))
    IN  U \cup {pair \in Place \X {c} : pair[1] = p \/ <<pair[1], p>> \in U}

LEMMA BetweenOrders ==
  ASSUME NEW T, NEW N, N \subseteq Component, Orders(T, N), NEW p \in Page \cup N,
         NEW c \in Component, c \notin N, NEW M, M = N \cup {c}
  PROVE  /\ Orders(Between(T, p, c), M) /\ T \subseteq Between(T, p, c)
         /\ <<p, c>> \in Between(T, p, c)
         /\ \A x \in Component \ {c} : <<p, x>> \in Between(T, p, c) => <<c, x>> \in Between(T, p, c)
<1> DEFINE R == Above(T, p)
           U == Under(T, c, R)
           V == Between(T, p, c)
<1>1. /\ c \in Place /\ p \in Place /\ c # p /\ M \subseteq Component
      /\ \A y : <<c, y>> \notin T
  BY ComponentAssumption DEF Place, Orders
<1>2. R \in SUBSET N /\ \A x \in R : \A y : <<x, y>> \in T => y \in R
  BY DEF Above, Orders
<1>3. \A x : x \in R <=> <<p, x>> \in T
  BY DEF Above, Orders
<1> HIDE DEF R
<1>4. Orders(U, M) /\ T \subseteq U
  BY <1>1, <1>2, UnderOrders
<1>5. \A x, y : <<x, y>> \in U <=> <<x, y>> \in T \/ (x = c /\ y \in R)
  BY DEF Under
<1>6. V = U \cup {pair \in Place \X {c} : pair[1] = p \/ <<pair[1], p>> \in U}
  BY DEF Between, R
<1> HIDE DEF U, V
<1>7. \A x, y : <<x, y>> \in U => x \in Page \cup M /\ x \in Place /\ y \in M
  BY <1>1, <1>4 DEF Orders, Place
<1>8. /\ \A x, y : <<x, y>> \in V /\ y # c => <<x, y>> \in U
      /\ \A x : <<x, c>> \in V => <<x, c>> \in U \/ x = p \/ <<x, p>> \in U
      /\ \A x, y : <<x, y>> \in U => <<x, y>> \in V
      /\ \A x : x = p \/ <<x, p>> \in U => <<x, c>> \in V
  BY <1>1, <1>6, <1>7
<1>9. \A x : <<x, c>> \notin U
  BY <1>2, <1>5 DEF Orders
<1>10. <<c, p>> \notin U
  BY <1>1, <1>3, <1>5 DEF Orders
<1>11. ASSUME NEW x, NEW y, NEW z, <<x, y>> \in V, <<y, z>> \in V
       PROVE  <<x, z>> \in V
  <2>1. CASE z = c
    <3>1. y = p \/ <<y, p>> \in U
      BY <1>8, <1>9, <1>11, <2>1
    <3>2. <<x, y>> \in U
      BY <1>1, <1>8, <1>10, <1>11, <3>1
    <3>3. <<x, p>> \in U
      BY <1>4, <3>1, <3>2 DEF Orders
    <3> QED
      BY <1>8, <2>1, <3>3
  <2>2. CASE z # c
    <3>1. <<y, z>> \in U
      BY <1>8, <1>11, <2>2
    <3>2. CASE <<x, y>> \in U
      BY <1>4, <1>8, <3>1, <3>2 DEF Orders
    <3>3. CASE y = c /\ (x = p \/ <<x, p>> \in U)
      <4>1. <<p, z>> \in U
        BY <1>1, <1>3, <1>5, <3>1, <3>3
      <4> QED
        BY <1>4, <1>8, <3>3, <4>1 DEF Orders
    <3> QED
      BY <1>8, <1>11, <3>2, <3>3
  <2> QED
    BY <2>1, <2>2
<1>12. \A x : <<x, x>> \notin V
  BY <1>1, <1>4, <1>8, <1>10 DEF Orders
<1>13. V \subseteq (Page \cup M) \X M
  <2>1. p \in Page \cup M /\ c \in M
    OBVIOUS
  <2>2. \A pair \in {q \in Place \X {c} : q[1] = p \/ <<q[1], p>> \in U} :
            pair \in (Page \cup M) \X M
    <3> TAKE pair \in {q \in Place \X {c} : q[1] = p \/ <<q[1], p>> \in U}
    <3>1. pair = <<pair[1], c>> /\ (pair[1] = p \/ <<pair[1], p>> \in U)
      OBVIOUS
    <3>2. pair[1] \in Page \cup M
      BY <1>7, <2>1, <3>1
    <3> QED
      BY <2>1, <3>1, <3>2
  <2>3. U \subseteq (Page \cup M) \X M
    BY <1>4 DEF Orders
  <2> QED
    BY <1>6, <2>2, <2>3
<1>14. Orders(V, M)
  BY <1>11, <1>12, <1>13 DEF Orders
<1>15. T \subseteq V
  BY <1>4, <1>6
<1>16. <<p, c>> \in V
  BY <1>8
<1>17. \A x \in Component \ {c} : <<p, x>> \in V => <<c, x>> \in V
  <2> TAKE x \in Component \ {c}
  <2> HAVE <<p, x>> \in V
  <2>1. <<p, x>> \in U
    BY <1>8
  <2>2. <<c, x>> \in U
    BY <1>1, <1>3, <1>5, <2>1
  <2> QED
    BY <1>8, <2>2
<1> QED
  BY <1>14, <1>15, <1>16, <1>17 DEF V

-----------------------------------------------------------------------------
(* The invariant: what documents and stacks are made of, and an order that   *)
(* the document follows and that every command on a stack is allowed by.     *)

Entry(cmds, N) == IsSeq(cmds) /\ AllKept(cmds) /\ Pure(cmds) /\ Borns(cmds) \subseteq N

StackForm(u, N) ==
    /\ u = [h \in Host |-> u[h]]
    /\ \A h \in Host : IsSeq(u[h]) /\ \A cmds \in Range(u[h]) : Entry(cmds, N)

StackAllowed(T, u) == \A h \in Host : \A cmds \in Range(u[h]) : AllAllowed(T, cmds)

FormInv ==
    /\ DocForm(doc)
    /\ Defined(doc) \subseteq named /\ named \subseteq Component
    /\ StackForm(undo, named) /\ StackForm(redo, named)

Guards(T) ==
    /\ Orders(T, named) /\ Within(T, doc)
    /\ StackAllowed(T, undo) /\ StackAllowed(T, redo)

GraphInv == \E T : Guards(T)

(* Hosts insert instances on pages only.                                     *)
InsertOnPages == Nestings \subseteq Component \X Page

(* What every step keeps and does.                                           *)
Kept ==
    /\ FormInv'
    /\ RevisionsMove(doc, doc')
    /\ InsertOnPages /\ GraphInv => GraphInv'

(* A list on a stack, and the stack that replaces another.                   *)
LEMMA Pushed1 ==
  ASSUME NEW s, IsSeq(s), NEW e
  PROVE  IsSeq(<<e>> \o s) /\ Range(<<e>> \o s) = {e} \cup Range(s)
<1>1. <<e>> \in Seq({e}) /\ Range(<<e>>) = {e}
  BY DEF Range
<1>2. IsSeq(<<e>>)
  BY <1>1 DEF IsSeq
<1> QED
  BY <1>1, <1>2, SeqJoin

LEMMA Popped ==
  ASSUME NEW s, IsSeq(s), s # <<>>
  PROVE  IsSeq(Tail(s)) /\ Range(Tail(s)) \subseteq Range(s) /\ Head(s) \in Range(s)
<1>1. s \in Seq(Range(s))
  BY DEF IsSeq
<1>2. Tail(s) \in Seq(Range(s)) /\ Head(s) \in Range(s)
  BY <1>1, HeadTailProperties
<1> QED
  BY <1>2, SeqIs

LEMMA StackSet ==
  ASSUME NEW u, NEW N, NEW M, StackForm(u, N), N \subseteq M, NEW h \in Host,
         NEW s, IsSeq(s), \A cmds \in Range(s) : Entry(cmds, M)
  PROVE  /\ StackForm([u EXCEPT ![h] = s], M)
         /\ \A T : StackAllowed(T, u) /\ (\A cmds \in Range(s) : AllAllowed(T, cmds))
                     => StackAllowed(T, [u EXCEPT ![h] = s])
<1> DEFINE v == [u EXCEPT ![h] = s]
<1>1. v = [g \in Host |-> IF g = h THEN s ELSE u[g]]
  BY DEF StackForm
<1> HIDE DEF v
<1>2. \A g \in Host : v[g] = IF g = h THEN s ELSE u[g]
  BY <1>1
<1>3. v = [g \in Host |-> v[g]]
  BY <1>1
<1>4. \A g \in Host : \A cmds \in Range(u[g]) : Entry(cmds, M)
  BY DEF StackForm, Entry
<1>5. StackForm(v, M)
  BY <1>2, <1>3, <1>4 DEF StackForm
<1>6. \A T : StackAllowed(T, u) /\ (\A cmds \in Range(s) : AllAllowed(T, cmds)) => StackAllowed(T, v)
  BY <1>2 DEF StackAllowed
<1> QED
  BY <1>5, <1>6 DEF v

(* A larger order allows what a smaller one does.                            *)
LEMMA LargerOrder ==
  ASSUME NEW T, NEW U, T \subseteq U
  PROVE  /\ \A d : Within(T, d) => Within(U, d)
         /\ \A u, N : StackForm(u, N) /\ StackAllowed(T, u) => StackAllowed(U, u)
<1>1. \A c : KeptForm(c) /\ Allowed(T, c) => Allowed(U, c)
  <2> TAKE c
  <2> HAVE KeptForm(c) /\ Allowed(T, c)
  <2>1. c.type \notin {"component.extract", "component.duplicate", "component-instance.insert"}
    BY DEF KeptForm
  <2> QED
    BY <2>1 DEF Allowed
<1>2. \A cmds : AllKept(cmds) /\ AllAllowed(T, cmds) => AllAllowed(U, cmds)
  BY <1>1 DEF AllKept, AllAllowed
<1>3. \A u, N : StackForm(u, N) /\ StackAllowed(T, u) => StackAllowed(U, u)
  BY <1>2 DEF StackForm, StackAllowed, Entry
<1> QED
  BY <1>3 DEF Within

(* What the commands of a step lead to.                                      *)
LEMMA CommitSteps ==
  ASSUME FormInv, NEW cmds, IsSeq(cmds), \A c \in Range(cmds) : CommandForm(c), Pure(cmds),
         named \subseteq named', named' \subseteq Component, Borns(cmds) \subseteq named',
         NEW r, r = Applied(doc, cmds), Commits(r)
  PROVE  /\ DocForm(doc') /\ Defined(doc') \subseteq named'
         /\ RevisionsMove(doc, doc')
         /\ Entry(r.inverse, named')
         /\ \A T : Within(T, doc) /\ AllAllowed(T, cmds) => Within(T, doc') /\ AllAllowed(T, r.inverse)
<1>1. r.ok /\ doc' = r.doc /\ DocForm(doc)
  BY DEF Commits, FormInv
<1>2. \A T : Leaves(T, doc, cmds, r)
  BY <1>1, AppliedSteps
<1>3. Leaves({}, doc, cmds, r)
  BY <1>2
<1>4. DocForm(doc') /\ Defined(doc') \subseteq named' /\ RevisionsMove(doc, doc')
  BY <1>1, <1>3 DEF Leaves, FormInv
<1>5. Entry(r.inverse, named')
  BY <1>3 DEF Leaves, Entry, FormInv
<1>6. \A T : Within(T, doc) /\ AllAllowed(T, cmds) => Within(T, doc') /\ AllAllowed(T, r.inverse)
  BY <1>1, <1>2 DEF Leaves
<1> QED
  BY <1>4, <1>5, <1>6

(* A host that submits commands: an order that allows them is needed.        *)
LEMMA RecordSteps ==
  ASSUME FormInv, NEW h \in Host, NEW cmds, IsSeq(cmds), \A c \in Range(cmds) : CommandForm(c),
         Pure(cmds), named \subseteq named', named' \subseteq Component, Borns(cmds) \subseteq named',
         Record(h, Applied(doc, cmds)),
         InsertOnPages => \A T : Orders(T, named) /\ Within(T, doc)
                             => \E U : T \subseteq U /\ Orders(U, named') /\ AllAllowed(U, cmds)
  PROVE  Kept
<1> DEFINE r == Applied(doc, cmds)
           s == <<r.inverse>> \o undo[h]
<1>1. Commits(r) /\ undo' = [undo EXCEPT ![h] = s] /\ redo' = [redo EXCEPT ![h] = <<>>]
  BY DEF Record
<1> HIDE DEF r
<1>2. /\ DocForm(doc') /\ Defined(doc') \subseteq named'
      /\ RevisionsMove(doc, doc')
      /\ Entry(r.inverse, named')
      /\ \A T : Within(T, doc) /\ AllAllowed(T, cmds) => Within(T, doc') /\ AllAllowed(T, r.inverse)
  BY <1>1, CommitSteps DEF r
<1>3. IsSeq(s) /\ Range(s) = {r.inverse} \cup Range(undo[h])
  BY Pushed1 DEF FormInv, StackForm
<1>4. \A e \in Range(s) : Entry(e, named')
  BY <1>2, <1>3 DEF FormInv, StackForm, Entry
<1>5. IsSeq(<<>>) /\ Range(<<>>) = {}
  BY DEF IsSeq, Range
<1> HIDE DEF s
<1>6. /\ StackForm(undo', named')
      /\ \A T : StackAllowed(T, undo) /\ (\A e \in Range(s) : AllAllowed(T, e)) => StackAllowed(T, undo')
  BY <1>1, <1>3, <1>4, StackSet DEF FormInv
<1>7. /\ StackForm(redo', named')
      /\ \A T : StackAllowed(T, redo) => StackAllowed(T, redo')
  BY <1>1, <1>5, StackSet DEF FormInv
<1>8. FormInv'
  BY <1>2, <1>6, <1>7 DEF FormInv
<1>9. ASSUME InsertOnPages, GraphInv
      PROVE  GraphInv'
  <2>1. PICK T : Guards(T)
    BY <1>9 DEF GraphInv
  <2>2. PICK U : T \subseteq U /\ Orders(U, named') /\ AllAllowed(U, cmds)
    BY <1>9, <2>1 DEF Guards
  <2>3. Within(U, doc) /\ StackAllowed(U, undo) /\ StackAllowed(U, redo)
    BY <2>1, <2>2, LargerOrder DEF Guards, FormInv
  <2>4. Within(U, doc') /\ AllAllowed(U, r.inverse)
    BY <1>2, <2>2, <2>3
  <2>5. StackAllowed(U, undo')
    <3>1. \A e \in Range(s) : AllAllowed(U, e)
      BY <1>3, <2>3, <2>4 DEF StackAllowed
    <3> QED
      BY <1>6, <2>3, <3>1
  <2>6. StackAllowed(U, redo')
    BY <1>7, <2>3
  <2>7. Guards(U)'
    BY <2>2, <2>4, <2>5, <2>6 DEF Guards
  <2> QED
    BY <2>7 DEF GraphInv
<1> QED
  BY <1>2, <1>8, <1>9 DEF Kept

(* A host that moves from one stack to the other.                            *)
LEMMA MoveSteps ==
  ASSUME FormInv, NEW h \in Host, NEW from, NEW to, NEW cmds,
         {from, to} = {undo, redo}, from[h] # <<>>, cmds = Head(from[h]),
         Commits(Applied(doc, cmds)), UNCHANGED named,
         NEW from2, from2 = [from EXCEPT ![h] = Tail(from[h])],
         NEW to2, to2 = [to EXCEPT ![h] = <<Applied(doc, cmds).inverse>> \o to[h]],
         \/ from = undo /\ to = redo /\ undo' = from2 /\ redo' = to2
         \/ from = redo /\ to = undo /\ redo' = from2 /\ undo' = to2
  PROVE  Kept
<1> DEFINE r == Applied(doc, cmds)
           s == <<r.inverse>> \o to[h]
           t == Tail(from[h])
<1>1. StackForm(from, named) /\ StackForm(to, named)
  BY DEF FormInv
<1>2. IsSeq(t) /\ Range(t) \subseteq Range(from[h]) /\ cmds \in Range(from[h])
  BY <1>1, Popped DEF StackForm
<1>3. Entry(cmds, named) /\ \A e \in Range(t) : Entry(e, named)
  BY <1>1, <1>2 DEF StackForm
<1>4. \A c \in Range(cmds) : CommandForm(c)
  BY <1>3 DEF Entry, AllKept, CommandForm
<1> HIDE DEF r
<1>5. /\ DocForm(doc') /\ Defined(doc') \subseteq named'
      /\ RevisionsMove(doc, doc')
      /\ Entry(r.inverse, named')
      /\ \A T : Within(T, doc) /\ AllAllowed(T, cmds) => Within(T, doc') /\ AllAllowed(T, r.inverse)
  <2>1. named \subseteq named' /\ named' \subseteq Component /\ Borns(cmds) \subseteq named'
    BY <1>3 DEF Entry, FormInv
  <2>2. IsSeq(cmds) /\ Pure(cmds) /\ Commits(r) /\ r = Applied(doc, cmds)
    BY <1>3 DEF Entry, r
  <2> QED
    BY <1>4, <2>1, <2>2, CommitSteps
<1>6. IsSeq(s) /\ Range(s) = {r.inverse} \cup Range(to[h])
  BY <1>1, Pushed1 DEF StackForm
<1>7. \A e \in Range(s) : Entry(e, named)
  BY <1>1, <1>5, <1>6 DEF StackForm
<1>8. from2 = [from EXCEPT ![h] = t] /\ to2 = [to EXCEPT ![h] = s]
  BY DEF r
<1> HIDE DEF s, t
<1>9. /\ StackForm(from2, named)
      /\ \A T : StackAllowed(T, from) /\ (\A e \in Range(t) : AllAllowed(T, e)) => StackAllowed(T, from2)
  <2> DEFINE v == [from EXCEPT ![h] = t]
  <2>1. named \subseteq named
    OBVIOUS
  <2>2. /\ StackForm(v, named)
        /\ \A T : StackAllowed(T, from) /\ (\A e \in Range(t) : AllAllowed(T, e)) => StackAllowed(T, v)
    BY <1>1, <1>2, <1>3, <2>1, StackSet
  <2> HIDE DEF v
  <2> QED
    BY <1>8, <2>2 DEF v
<1>10. /\ StackForm(to2, named)
       /\ \A T : StackAllowed(T, to) /\ (\A e \in Range(s) : AllAllowed(T, e)) => StackAllowed(T, to2)
  <2> DEFINE v == [to EXCEPT ![h] = s]
  <2>1. named \subseteq named
    OBVIOUS
  <2>2. /\ StackForm(v, named)
        /\ \A T : StackAllowed(T, to) /\ (\A e \in Range(s) : AllAllowed(T, e)) => StackAllowed(T, v)
    BY <1>1, <1>6, <1>7, <2>1, StackSet
  <2> HIDE DEF v
  <2> QED
    BY <1>8, <2>2 DEF v
<1>11. FormInv'
  BY <1>5, <1>9, <1>10 DEF FormInv
<1>12. ASSUME GraphInv
       PROVE  GraphInv'
  <2>1. PICK T : Guards(T)
    BY <1>12 DEF GraphInv
  <2>2. StackAllowed(T, from) /\ StackAllowed(T, to)
    BY <2>1 DEF Guards
  <2>3. AllAllowed(T, cmds) /\ \A e \in Range(t) : AllAllowed(T, e)
    BY <1>2, <2>2 DEF StackAllowed
  <2>4. Within(T, doc') /\ AllAllowed(T, r.inverse)
    BY <1>5, <2>1, <2>3 DEF Guards
  <2>5. \A e \in Range(s) : AllAllowed(T, e)
    BY <1>6, <2>2, <2>4 DEF StackAllowed
  <2>6. StackAllowed(T, from2) /\ StackAllowed(T, to2)
    BY <1>9, <1>10, <2>2, <2>3, <2>5
  <2>7. Guards(T)'
    BY <2>1, <2>4, <2>6 DEF Guards
  <2> QED
    BY <2>7 DEF GraphInv
<1> QED
  BY <1>5, <1>11, <1>12 DEF Kept

-----------------------------------------------------------------------------
(* What the hosts submit.                                                    *)

LEMMA Single ==
  ASSUME NEW c
  PROVE  IsSeq(<<c>>) /\ Range(<<c>>) = {c} /\ Borns(<<c>>) = Born(c)
<1>1. <<c>> \in Seq({c}) /\ Range(<<c>>) = {c}
  BY DEF Range
<1> QED
  BY <1>1 DEF IsSeq, Borns

LEMMA OneAccepted ==
  ASSUME NEW d, NEW c, Applied(d, <<c>>).ok
  PROVE  Accepts(d, c)
<1>1. <<c>> \in Seq({c}) /\ Len(<<c>>) = 1
  OBVIOUS
<1>2. PICK acc : Batches(d, <<c>>, acc)
  BY <1>1, FoldedUnfolds
<1>3. acc[0].ok /\ acc[0].doc = d
  BY <1>2 DEF Batches
<1>4. Folded(d, <<c>>) = Fold(acc[0], c)
  BY <1>1, <1>2 DEF Batches
<1>5. Folded(d, <<c>>).ok
  BY DEF Applied, Outcome
<1>6. DOMAIN acc[0] = {"ok", "doc", "inverse", "touched"}
  BY <1>2 DEF Batches
<1>7. ~[acc[0] EXCEPT !.ok = FALSE].ok
  BY <1>6
<1> QED
  BY <1>3, <1>4, <1>5, <1>7 DEF Fold

(* Commands that need nothing of an order.                                   *)
Harmless(c) ==
    /\ CommandForm(c)
    /\ c.type \notin Births \cup {"component-instance.insert"}
    /\ c.type = "node.create" => \A n \in c.nodes : n.of = Plain

LEMMA HarmlessSteps ==
  ASSUME FormInv, NEW h \in Host, NEW cmds, IsSeq(cmds), \A c \in Range(cmds) : Harmless(c),
         named' = named, Record(h, Applied(doc, cmds))
  PROVE  Kept
<1>1. \A c \in Range(cmds) : CommandForm(c)
  BY DEF Harmless
<1>2. NoBirths(cmds)
  BY DEF Harmless, NoBirths
<1>3. Borns(cmds) = {}
  BY <1>2 DEF NoBirths, Borns, Born, Births
<1>4. \A T : AllAllowed(T, cmds)
  <2> TAKE T
  <2>1. \A c : Harmless(c) => Allowed(T, c)
    BY DEF Harmless, Allowed, Births
  <2> QED
    BY <2>1 DEF AllAllowed
<1>5. Pure(cmds)
  BY <1>2 DEF Pure
<1>6. named \subseteq named' /\ named' \subseteq Component /\ Borns(cmds) \subseteq named'
  BY <1>3 DEF FormInv
<1>7. \A T : Orders(T, named) => Orders(T, named')
  OBVIOUS
<1>8. \A T : Orders(T, named) /\ Within(T, doc)
                => \E U : T \subseteq U /\ Orders(U, named') /\ AllAllowed(U, cmds)
  BY <1>4, <1>7
<1> QED
  BY <1>1, <1>5, <1>6, <1>8, RecordSteps

LEMMA OneHarmless ==
  ASSUME FormInv, NEW h \in Host, NEW c, Harmless(c), named' = named,
         Record(h, Applied(doc, <<c>>))
  PROVE  Kept
BY Single, HarmlessSteps

LEMMA OneSteps ==
  ASSUME FormInv, NEW h \in Host, NEW c, CommandForm(c),
         named \subseteq named', named' \subseteq Component, Born(c) \subseteq named',
         Record(h, Applied(doc, <<c>>)),
         InsertOnPages => \A T : Orders(T, named) /\ Within(T, doc)
                             => \E U : T \subseteq U /\ Orders(U, named') /\ Allowed(U, c)
  PROVE  Kept
<1> DEFINE cmds == <<c>>
<1>1. IsSeq(cmds) /\ Range(cmds) = {c} /\ Borns(cmds) = Born(c)
  BY Single
<1> HIDE DEF cmds
<1>2. Pure(cmds)
  BY <1>1 DEF Pure, NoBirths, NoDeletes, Births
<1>3. InsertOnPages => \A T : Orders(T, named) /\ Within(T, doc)
                          => \E U : T \subseteq U /\ Orders(U, named') /\ AllAllowed(U, cmds)
  BY <1>1 DEF AllAllowed
<1>4. Record(h, Applied(doc, cmds))
  BY DEF cmds
<1> QED
  BY <1>1, <1>2, <1>3, <1>4, RecordSteps

(* An order that is not asked for more.                                      *)
LEMMA SameOrder ==
  ASSUME NEW T, NEW N, Orders(T, N), NEW M, N \subseteq M
  PROVE  Orders(T, M)
<1>1. (Page \cup N) \X N \subseteq (Page \cup M) \X M
  OBVIOUS
<1> QED
  BY <1>1 DEF Orders

LEMMA NodeCreateKeeps == ASSUME FormInv, NEW h \in Host, NodeCreate(h) PROVE Kept
<1>1. PICK p \in Places(doc) :
        /\ Submit(h, <<[type |-> "node.create", place |-> p, id |-> Fresh(1), under |-> Top(doc, p),
                       nodes |-> {PlainNode(Fresh(1), Top(doc, p), "absent")}]>>)
        /\ UNCHANGED named
  BY DEF NodeCreate
<1> DEFINE n == PlainNode(Fresh(1), Top(doc, p), "absent")
           c == [type |-> "node.create", place |-> p, id |-> Fresh(1), under |-> Top(doc, p),
                 nodes |-> {n}]
<1>2. TreeForm({n}) /\ n.of = Plain
  BY PlainForm, FS_Singleton DEF TreeForm
<1> HIDE DEF n
<1>3. Harmless(c)
  <2>1. KeptForm(c)
    BY <1>2 DEF KeptForm
  <2> QED
    BY <1>2, <2>1 DEF Harmless, CommandForm, Births
<1>4. Record(h, Applied(doc, <<c>>))
  BY <1>1 DEF Submit, n
<1> QED
  BY <1>1, <1>3, <1>4, OneHarmless

LEMMA NodeDeleteKeeps == ASSUME FormInv, NEW h \in Host, NodeDelete(h) PROVE Kept
<1>1. PICK p, id :
        /\ Submit(h, <<[type |-> "node.delete", place |-> p, id |-> id]>>)
        /\ UNCHANGED named
  BY DEF NodeDelete
<1> DEFINE c == [type |-> "node.delete", place |-> p, id |-> id]
<1>2. Harmless(c)
  BY DEF Harmless, CommandForm, KeptForm, Births
<1>3. Record(h, Applied(doc, <<c>>))
  BY <1>1 DEF Submit
<1> QED
  BY <1>1, <1>2, <1>3, OneHarmless

LEMMA NodeLockKeeps == ASSUME FormInv, NEW h \in Host, NodeLock(h) PROVE Kept
<1>1. PICK p, id, lock :
        /\ Submit(h, <<[type |-> "node.update", place |-> p, id |-> id, key |-> "locked", to |-> lock]>>)
        /\ UNCHANGED named
  BY DEF NodeLock
<1> DEFINE c == [type |-> "node.update", place |-> p, id |-> id, key |-> "locked", to |-> lock]
<1>2. Harmless(c)
  BY DEF Harmless, CommandForm, KeptForm, Births
<1>3. Record(h, Applied(doc, <<c>>))
  BY <1>1 DEF Submit
<1> QED
  BY <1>1, <1>2, <1>3, OneHarmless

LEMMA ComponentDeleteKeeps == ASSUME FormInv, NEW h \in Host, ComponentDelete(h) PROVE Kept
<1>1. PICK x \in Defined(doc) :
        /\ Submit(h, <<[type |-> "component.delete", component |-> x]>>)
        /\ UNCHANGED named
  BY DEF ComponentDelete
<1> DEFINE c == [type |-> "component.delete", component |-> x]
<1>2. Harmless(c)
  BY DEF Harmless, CommandForm, KeptForm, Births
<1>3. Record(h, Applied(doc, <<c>>))
  BY <1>1 DEF Submit
<1> QED
  BY <1>1, <1>2, <1>3, OneHarmless

LEMMA RenamingForm ==
  \A x, name : Harmless(Renaming(x, name))
BY DEF Renaming, Harmless, CommandForm, KeptForm, Births

LEMMA ExposingForm ==
  \A x, b, at : Harmless(Exposing(x, b, at))
BY DEF Exposing, Harmless, CommandForm, KeptForm, Births

LEMMA ComponentRenameKeeps == ASSUME FormInv, NEW h \in Host, ComponentRename(h) PROVE Kept
<1>1. PICK x \in Defined(doc), name \in {"Card", "Hero"} :
        Submit(h, <<Renaming(x, name)>>) /\ UNCHANGED named
  BY DEF ComponentRename
<1>2. Record(h, Applied(doc, <<Renaming(x, name)>>))
  BY <1>1 DEF Submit
<1> QED
  BY <1>1, <1>2, RenamingForm, OneHarmless

LEMMA AddPropertyKeeps == ASSUME FormInv, NEW h \in Host, AddProperty(h) PROVE Kept
<1>1. PICK x, b, at :
        Submit(h, <<Exposing(x, b, at)>>) /\ UNCHANGED named
  BY DEF AddProperty
<1>2. Record(h, Applied(doc, <<Exposing(x, b, at)>>))
  BY <1>1 DEF Submit
<1> QED
  BY <1>1, <1>2, ExposingForm, OneHarmless

LEMMA UpdatePropertyKeeps == ASSUME FormInv, NEW h \in Host, UpdateProperty(h) PROVE Kept
<1>1. PICK x, b :
        /\ Submit(h, <<[type |-> "component.update-property", component |-> x, binding |-> b, rev |-> 0]>>)
        /\ UNCHANGED named
  BY DEF UpdateProperty
<1> DEFINE c == [type |-> "component.update-property", component |-> x, binding |-> b, rev |-> 0]
<1>2. Harmless(c)
  BY DEF Harmless, CommandForm, KeptForm, Births
<1>3. Record(h, Applied(doc, <<c>>))
  BY <1>1 DEF Submit
<1> QED
  BY <1>1, <1>2, <1>3, OneHarmless

LEMMA RemovePropertyKeeps == ASSUME FormInv, NEW h \in Host, RemoveProperty(h) PROVE Kept
<1>1. PICK x \in Defined(doc), p \in Property :
        /\ Submit(h, <<[type |-> "component.remove-property", component |-> x, property |-> p, rev |-> 0]>>)
        /\ UNCHANGED named
  BY DEF RemoveProperty
<1> DEFINE c == [type |-> "component.remove-property", component |-> x, property |-> p, rev |-> 0]
<1>2. Harmless(c)
  BY DEF Harmless, CommandForm, KeptForm, Births
<1>3. Record(h, Applied(doc, <<c>>))
  BY <1>1 DEF Submit
<1> QED
  BY <1>1, <1>2, <1>3, OneHarmless

LEMMA SetOverrideKeeps == ASSUME FormInv, NEW h \in Host, SetOverride(h) PROVE Kept
<1>1. PICK p, id, q, v :
        /\ Submit(h, <<[type |-> "component-instance.set-override", place |-> p, id |-> id,
                       property |-> q, value |-> v]>>)
        /\ UNCHANGED named
  BY DEF SetOverride
<1> DEFINE c == [type |-> "component-instance.set-override", place |-> p, id |-> id,
                 property |-> q, value |-> v]
<1>2. Harmless(c)
  BY DEF Harmless, CommandForm, KeptForm, Births
<1>3. Record(h, Applied(doc, <<c>>))
  BY <1>1 DEF Submit
<1> QED
  BY <1>1, <1>2, <1>3, OneHarmless

LEMMA ResetOverrideKeeps == ASSUME FormInv, NEW h \in Host, ResetOverride(h) PROVE Kept
<1>1. PICK p, id, q :
        /\ Submit(h, <<[type |-> "component-instance.reset-override", place |-> p, id |-> id,
                       property |-> q]>>)
        /\ UNCHANGED named
  BY DEF ResetOverride
<1> DEFINE c == [type |-> "component-instance.reset-override", place |-> p, id |-> id, property |-> q]
<1>2. Harmless(c)
  BY DEF Harmless, CommandForm, KeptForm, Births
<1>3. Record(h, Applied(doc, <<c>>))
  BY <1>1 DEF Submit
<1> QED
  BY <1>1, <1>2, <1>3, OneHarmless

LEMMA ResetAllOverridesKeeps == ASSUME FormInv, NEW h \in Host, ResetAllOverrides(h) PROVE Kept
<1>1. PICK p, id :
        /\ Submit(h, <<[type |-> "component-instance.reset-all-overrides", place |-> p, id |-> id]>>)
        /\ UNCHANGED named
  BY DEF ResetAllOverrides
<1> DEFINE c == [type |-> "component-instance.reset-all-overrides", place |-> p, id |-> id]
<1>2. Harmless(c)
  BY DEF Harmless, CommandForm, KeptForm, Births
<1>3. Record(h, Applied(doc, <<c>>))
  BY <1>1 DEF Submit
<1> QED
  BY <1>1, <1>2, <1>3, OneHarmless

LEMMA DetachingForm ==
  \A p, id, skip : Harmless(Detaching(p, id, skip))
<1> TAKE p, id, skip
<1> DEFINE fresh == [i \in 1 .. Cardinality(Inside(doc, The(doc, p, id).of)) |-> Fresh(skip + i)]
           c == [type |-> "component-instance.detach", place |-> p, id |-> id, fresh |-> fresh]
<1>1. Detaching(p, id, skip) = c
  BY DEF Detaching
<1> HIDE DEF fresh
<1>2. Harmless(c)
  BY DEF Harmless, CommandForm, FirstForm, Births
<1> QED
  BY <1>1, <1>2

LEMMA InstanceDetachKeeps == ASSUME FormInv, NEW h \in Host, InstanceDetach(h) PROVE Kept
<1>1. PICK p, id :
        Submit(h, <<Detaching(p, id, 0)>>) /\ UNCHANGED named
  BY DEF InstanceDetach
<1>2. Record(h, Applied(doc, <<Detaching(p, id, 0)>>))
  BY <1>1 DEF Submit
<1> QED
  BY <1>1, <1>2, DetachingForm, OneHarmless

LEMMA UndoKeeps == ASSUME FormInv, NEW h \in Host, Undo(h) PROVE Kept
<1> DEFINE cmds == Head(undo[h])
           r == Applied(doc, cmds)
           from2 == [undo EXCEPT ![h] = Tail(undo[h])]
           to2 == [redo EXCEPT ![h] = <<r.inverse>> \o redo[h]]
<1>1. undo[h] # <<>> /\ Commits(r) /\ undo' = from2 /\ redo' = to2 /\ UNCHANGED named
  BY DEF Undo, MoveBack
<1> HIDE DEF cmds, from2, to2
<1>2. cmds = Head(undo[h]) /\ from2 = [undo EXCEPT ![h] = Tail(undo[h])]
      /\ to2 = [redo EXCEPT ![h] = <<Applied(doc, cmds).inverse>> \o redo[h]]
  BY DEF cmds, from2, to2
<1>3. {undo, redo} = {undo, redo} /\ undo = undo /\ redo = redo
  OBVIOUS
<1> QED
  BY <1>1, <1>2, <1>3, MoveSteps

LEMMA RedoKeeps == ASSUME FormInv, NEW h \in Host, Redo(h) PROVE Kept
<1> DEFINE cmds == Head(redo[h])
           r == Applied(doc, cmds)
           from2 == [redo EXCEPT ![h] = Tail(redo[h])]
           to2 == [undo EXCEPT ![h] = <<r.inverse>> \o undo[h]]
<1>1. redo[h] # <<>> /\ Commits(r) /\ redo' = from2 /\ undo' = to2 /\ UNCHANGED named
  BY DEF Redo, MoveForth
<1> HIDE DEF cmds, from2, to2
<1>2. cmds = Head(redo[h]) /\ from2 = [redo EXCEPT ![h] = Tail(redo[h])]
      /\ to2 = [undo EXCEPT ![h] = <<Applied(doc, cmds).inverse>> \o undo[h]]
  BY DEF cmds, from2, to2
<1>3. {redo, undo} = {undo, redo} /\ undo = undo /\ redo = redo
  OBVIOUS
<1> QED
  BY <1>1, <1>2, <1>3, MoveSteps

(* A definition that a host brings.                                          *)
LEMMA NewForm ==
  ASSUME NEW used \in Component \cup {Plain}
  PROVE  /\ SourceForm(NewDefinition(used))
         /\ \E n \in NewDefinition(used).tree : n.of = used
         /\ \A n \in NewDefinition(used).tree : n.of # Plain => n.of = used
<1> DEFINE root == PlainNode(Fresh(1), 0, "absent")
           leaf == PlainNode(Fresh(2), Fresh(1), "absent")
           child == [leaf EXCEPT !.of = used]
           tree == {root, child}
           def == [name |-> "Component", rev |-> 1, root |-> root.id, tree |-> tree, props |-> <<>>]
<1>1. NewDefinition(used) = def
  BY DEF NewDefinition
<1>2. NodeForm(root) /\ root.of = Plain /\ NodeForm(leaf)
  BY PlainForm
<1> HIDE DEF root, leaf
<1>3. child = [id |-> leaf.id, under |-> leaf.under, of |-> used, over |-> leaf.over, locked |-> leaf.locked]
  BY <1>2 DEF NodeForm
<1> HIDE DEF child
<1>4. NodeForm(child) /\ child.of = used
  BY <1>2, <1>3 DEF NodeForm
<1>5. IsFiniteSet(tree)
  <2>1. IsFiniteSet({root}) /\ {root} \cup {child} = tree
    BY FS_Singleton
  <2> QED
    BY <2>1, FS_AddElement
<1>6. TreeForm(tree)
  BY <1>2, <1>4, <1>5 DEF TreeForm
<1>7. /\ \E n \in tree : n.of = used
      /\ \A n \in tree : n.of # Plain => n.of = used
  BY <1>2, <1>4
<1> HIDE DEF tree
<1>8. SourceForm(def) /\ def.tree = tree
  BY <1>6 DEF SourceForm
<1> QED
  BY <1>1, <1>7, <1>8

(* Sources that hold x, or what x embeds, and the order T that allows it.    *)
LEMMA AboveClosed ==
  ASSUME NEW T, NEW N, Orders(T, N), N \subseteq Component, NEW x
  PROVE  /\ Above(T, x) \in SUBSET N
         /\ \A y \in Above(T, x) : \A z : <<y, z>> \in T => z \in Above(T, x)
         /\ x \in N => /\ {x} \cup Above(T, x) \in SUBSET N
                       /\ \A y \in {x} \cup Above(T, x) : \A z : <<y, z>> \in T => z \in {x} \cup Above(T, x)
         /\ \A y : <<x, y>> \in T <=> y \in Above(T, x)
<1>1. \A y : <<x, y>> \in T => y \in N /\ y \in Component
  BY DEF Orders
<1>2. \A y : y \in Above(T, x) <=> <<x, y>> \in T
  BY <1>1 DEF Above
<1>3. \A y, z : <<x, y>> \in T /\ <<y, z>> \in T => <<x, z>> \in T
  BY DEF Orders
<1> QED
  BY <1>1, <1>2, <1>3

LEMMA ComponentCreateKeeps == ASSUME FormInv, NEW h \in Host, ComponentCreate(h) PROVE Kept
<1>1. PICK x \in Component \ named :
        \E def \in {NewDefinition(used) : used \in Defined(doc) \cup {x, Plain}}
                   \cup {doc.defs[y] : y \in Defined(doc)} :
            /\ Submit(h, <<[type |-> "component.create", component |-> x, definition |-> def]>>)
            /\ Naming(x)
  BY DEF ComponentCreate
<1>2. PICK def \in {NewDefinition(used) : used \in Defined(doc) \cup {x, Plain}}
                   \cup {doc.defs[y] : y \in Defined(doc)} :
            /\ Submit(h, <<[type |-> "component.create", component |-> x, definition |-> def]>>)
            /\ Naming(x)
  BY <1>1
<1> DEFINE c == [type |-> "component.create", component |-> x, definition |-> def]
<1>3. Record(h, Applied(doc, <<c>>)) /\ named' = named \cup {x}
  BY <1>2 DEF Submit, Naming
<1>4. Addable(doc, x, def)
  <2>1. Accepts(doc, c)
    BY <1>3, OneAccepted DEF Record, Commits
  <2> QED
    BY <2>1 DEF Accepts, RestoreAccepts
<1>5. Defined(doc) \subseteq named /\ named \subseteq Component /\ DocForm(doc)
  BY DEF FormInv
<1> DEFINE Room ==
             \A T : Orders(T, named) /\ Within(T, doc) => \E R :
                /\ R \in SUBSET named /\ \A y \in R : \A z : <<y, z>> \in T => z \in R
                /\ def # NoDefinition => \A n \in def.tree : n.of # Plain => n.of \in R
<1>6. SourceForm(def) /\ Room
  <2>1. ASSUME NEW used \in Defined(doc) \cup {x, Plain}, def = NewDefinition(used)
        PROVE  SourceForm(def) /\ Room
    <3>1. used \in Component \cup {Plain}
      BY <1>5
    <3>2. /\ SourceForm(def)
          /\ \E n \in def.tree : n.of = used
          /\ \A n \in def.tree : n.of # Plain => n.of = used
      BY <2>1, <3>1, NewForm
    <3>3. ASSUME NEW T, Orders(T, named), used \in Defined(doc)
          PROVE  \E R : /\ R \in SUBSET named /\ \A y \in R : \A z : <<y, z>> \in T => z \in R
                        /\ \A n \in def.tree : n.of # Plain => n.of \in R
      <4> DEFINE R == {used} \cup Above(T, used)
      <4>1. R \in SUBSET named /\ (\A y \in R : \A z : <<y, z>> \in T => z \in R) /\ used \in R
        BY <1>5, <3>3, AboveClosed
      <4> HIDE DEF R
      <4> QED
        BY <3>2, <4>1
    <3>4. used = x => def = NoDefinition
      <4> SUFFICES ASSUME used = x, def # NoDefinition
                   PROVE  FALSE
        OBVIOUS
      <4> DEFINE with == [doc EXCEPT !.defs[x] = def]
      <4>1. ~Cyclic(with)
        BY <1>4 DEF Addable
      <4>2. with.defs[x] = def
        BY <1>5 DEF DocForm
      <4> HIDE DEF with
      <4>3. x \in Defined(with) /\ Tree(with, x) = def.tree /\ x # Plain
        BY <4>2, ComponentAssumption DEF Defined, Tree
      <4> QED
        BY <3>2, <4>1, <4>3, EmbedsItself
    <3>5. CASE used \in Defined(doc)
      BY <3>2, <3>3, <3>5
    <3>6. CASE used \in {x, Plain}
      <4>1. def # NoDefinition => \A n \in def.tree : n.of = Plain
        BY <3>2, <3>4, <3>6
      <4> DEFINE R == {}
      <4>2. \A T : /\ R \in SUBSET named /\ \A y \in R : \A z : <<y, z>> \in T => z \in R
                   /\ def # NoDefinition => \A n \in def.tree : n.of # Plain => n.of \in R
        BY <4>1
      <4> HIDE DEF R
      <4> QED
        BY <3>2, <4>2
    <3> QED
      BY <2>1, <3>5, <3>6
  <2>2. ASSUME NEW y \in Defined(doc), def = doc.defs[y]
        PROVE  SourceForm(def) /\ Room
    <3>1. SourceForm(def) /\ y \in Component /\ y \in Place /\ Tree(doc, y) = def.tree
      BY <1>5, <2>2, ComponentAssumption DEF DocForm, Defined, Place, Tree
    <3>2. ASSUME NEW T, Orders(T, named), Within(T, doc)
          PROVE  \E R : /\ R \in SUBSET named /\ \A u \in R : \A z : <<u, z>> \in T => z \in R
                        /\ \A n \in def.tree : n.of # Plain => n.of \in R
      <4> DEFINE R == Above(T, y)
      <4>1. /\ R \in SUBSET named /\ \A u \in R : \A z : <<u, z>> \in T => z \in R
            /\ \A z : <<y, z>> \in T => z \in R
        BY <1>5, <3>2, AboveClosed
      <4>2. \A n \in def.tree : n.of # Plain => <<y, n.of>> \in T
        BY <1>5, <3>1, <3>2, TreeWithin
      <4> HIDE DEF R
      <4> QED
        BY <4>1, <4>2
    <3> QED
      BY <3>1, <3>2
  <2> QED
    BY <2>1, <2>2
<1>7. CommandForm(c) /\ Born(c) = {x}
  BY <1>6 DEF CommandForm, KeptForm, Born
<1>8. ASSUME NEW T, Orders(T, named), Within(T, doc)
      PROVE  \E U : T \subseteq U /\ Orders(U, named') /\ Allowed(U, c)
  <2>1. PICK R : /\ R \in SUBSET named /\ \A y \in R : \A z : <<y, z>> \in T => z \in R
                 /\ def # NoDefinition => \A n \in def.tree : n.of # Plain => n.of \in R
    BY <1>6, <1>8
  <2> DEFINE U == Under(T, x, R)
  <2>2. Orders(U, named') /\ T \subseteq U
    <3>1. x \in Place /\ x \notin named /\ named \subseteq named' /\ named' \subseteq Component /\ x \in named'
      BY <1>3, <1>5 DEF Place
    <3> QED
      BY <1>8, <2>1, <3>1, UnderOrders
  <2>3. \A y \in R : <<x, y>> \in U
    BY DEF Under
  <2> HIDE DEF U
  <2>4. Allowed(U, c)
    BY <2>1, <2>3 DEF Allowed
  <2> QED
    BY <2>2, <2>4
<1>9. named \subseteq named' /\ named' \subseteq Component /\ Born(c) \subseteq named'
  BY <1>3, <1>5, <1>7
<1> HIDE DEF c
<1> QED
  BY <1>3, <1>7, <1>8, <1>9, OneSteps

LEMMA ComponentDuplicateKeeps == ASSUME FormInv, NEW h \in Host, ComponentDuplicate(h) PROVE Kept
<1>1. PICK x, copy :
        /\ x \in Defined(doc) /\ copy \in Component \ named
        /\ Submit(h, <<[type |-> "component.duplicate", component |-> x, copy |-> copy,
                       fresh |-> FreshFor(IdsOf(Tree(doc, x)), 0)]>>)
        /\ Naming(copy)
  BY DEF ComponentDuplicate
<1> DEFINE fresh == FreshFor(IdsOf(Tree(doc, x)), 0)
           c == [type |-> "component.duplicate", component |-> x, copy |-> copy, fresh |-> fresh]
<1>2. Record(h, Applied(doc, <<c>>)) /\ named' = named \cup {copy}
  BY <1>1 DEF Submit, Naming
<1> HIDE DEF fresh
<1>3. Defined(doc) \subseteq named /\ named \subseteq Component
  BY DEF FormInv
<1>4. CommandForm(c) /\ Born(c) = {copy}
  BY <1>1 DEF CommandForm, FirstForm, Born
<1>5. ASSUME NEW T, Orders(T, named)
      PROVE  \E U : T \subseteq U /\ Orders(U, named') /\ Allowed(U, c)
  <2> DEFINE R == Above(T, x)
             U == Under(T, copy, R)
  <2>1. /\ R \in SUBSET named /\ \A y \in R : \A z : <<y, z>> \in T => z \in R
        /\ \A z : <<x, z>> \in T => z \in R
    BY <1>3, <1>5, AboveClosed
  <2> HIDE DEF R
  <2>2. Orders(U, named') /\ T \subseteq U
    <3>1. /\ copy \in Place /\ copy \notin named /\ named \subseteq named'
          /\ named' \subseteq Component /\ copy \in named'
      BY <1>1, <1>2, <1>3 DEF Place
    <3> QED
      BY <1>5, <2>1, <3>1, UnderOrders
  <2>3. \A z : <<x, z>> \in U => <<copy, z>> \in U
    BY <1>1, <1>3, <2>1 DEF Under
  <2> HIDE DEF U
  <2>4. Allowed(U, c)
    BY <2>3 DEF Allowed
  <2> QED
    BY <2>2, <2>4
<1>6. named \subseteq named' /\ named' \subseteq Component /\ Born(c) \subseteq named'
  BY <1>1, <1>2, <1>3, <1>4
<1> HIDE DEF c
<1> QED
  BY <1>2, <1>4, <1>5, <1>6, OneSteps

LEMMA ComponentExtractKeeps == ASSUME FormInv, NEW h \in Host, ComponentExtract(h) PROVE Kept
<1>1. PICK x, p, ids, fresh, reuse :
        /\ x \in Component \ named /\ p \in Places(doc)
        /\ Submit(h, <<[type |-> "component.extract", place |-> p, ids |-> ids, component |-> x,
                       root |-> Fresh(1), instance |-> Fresh(2), fresh |-> fresh,
                       reuse |-> reuse]>>)
        /\ Naming(x)
  BY DEF ComponentExtract
<1> DEFINE c == [type |-> "component.extract", place |-> p, ids |-> ids, component |-> x,
                 root |-> Fresh(1), instance |-> Fresh(2), fresh |-> fresh, reuse |-> reuse]
<1>2. Record(h, Applied(doc, <<c>>)) /\ named' = named \cup {x}
  BY <1>1 DEF Submit, Naming
<1>3. Defined(doc) \subseteq named /\ named \subseteq Component
  BY DEF FormInv
<1>4. CommandForm(c) /\ Born(c) = {x}
  BY <1>1 DEF CommandForm, FirstForm, Born
<1>5. ASSUME NEW T, Orders(T, named)
      PROVE  \E U : T \subseteq U /\ Orders(U, named') /\ Allowed(U, c)
  <2> DEFINE U == Between(T, p, x)
  <2>1. p \in Page \cup named /\ x \in Component /\ x \notin named
    BY <1>1, <1>3 DEF Places
  <2>2. /\ Orders(U, named') /\ T \subseteq U
        /\ <<p, x>> \in U
        /\ \A z \in Component \ {x} : <<p, z>> \in U => <<x, z>> \in U
    BY <1>2, <1>3, <1>5, <2>1, BetweenOrders
  <2> HIDE DEF U
  <2>3. Allowed(U, c)
    BY <2>2 DEF Allowed
  <2> QED
    BY <2>2, <2>3
<1>6. named \subseteq named' /\ named' \subseteq Component /\ Born(c) \subseteq named'
  BY <1>1, <1>2, <1>3, <1>4
<1> HIDE DEF c
<1> QED
  BY <1>2, <1>4, <1>5, <1>6, OneSteps

LEMMA InstanceInsertKeeps == ASSUME FormInv, NEW h \in Host, InstanceInsert(h) PROVE Kept
<1>1. PICK pair \in Nestings :
        /\ Submit(h, <<[type |-> "component-instance.insert", component |-> pair[1], place |-> pair[2],
                       instance |-> Fresh(1)]>>)
        /\ UNCHANGED named
  BY DEF InstanceInsert
<1> DEFINE x == pair[1]
           p == pair[2]
           c == [type |-> "component-instance.insert", component |-> x, place |-> p,
                 instance |-> Fresh(1)]
<1>2. Record(h, Applied(doc, <<c>>)) /\ named' = named
  BY <1>1 DEF Submit
<1>3. x \in Defined(doc)
  <2>1. Accepts(doc, c)
    BY <1>2, OneAccepted DEF Record, Commits
  <2> QED
    BY <2>1 DEF Accepts, InsertAccepts
<1>4. Defined(doc) \subseteq named /\ named \subseteq Component
  BY DEF FormInv
<1>5. CommandForm(c) /\ Born(c) = {}
  BY DEF CommandForm, FirstForm, Born
<1>6. ASSUME InsertOnPages, NEW T, Orders(T, named)
      PROVE  \E U : T \subseteq U /\ Orders(U, named') /\ Allowed(U, c)
  <2> DEFINE R == {x} \cup Above(T, x)
             U == Under(T, p, R)
  <2>1. R \in SUBSET named /\ (\A y \in R : \A z : <<y, z>> \in T => z \in R) /\ x \in R
    BY <1>3, <1>4, <1>6, AboveClosed
  <2> HIDE DEF R
  <2>2. p \in Page
    BY <1>1, <1>6 DEF InsertOnPages
  <2>3. Orders(U, named') /\ T \subseteq U
    <3>1. /\ p \in Place /\ p \notin named /\ p \notin Component /\ named \subseteq named'
          /\ named' \subseteq Component
      BY <1>2, <1>4, <2>2, ComponentAssumption DEF Place
    <3> HIDE DEF p
    <3> QED
      BY <1>6, <2>1, <3>1, UnderOrders
  <2>4. <<p, x>> \in U
    BY <2>1 DEF Under
  <2> HIDE DEF U
  <2>5. Allowed(U, c)
    BY <2>4 DEF Allowed
  <2> QED
    BY <2>3, <2>5
<1>7. named \subseteq named' /\ named' \subseteq Component /\ Born(c) \subseteq named'
  BY <1>2, <1>4, <1>5
<1> HIDE DEF c
<1> QED
  BY <1>2, <1>5, <1>6, <1>7, OneSteps

LEMMA RenameAndExposeKeeps == ASSUME FormInv, NEW h \in Host, RenameAndExpose(h) PROVE Kept
<1>1. PICK x, b :
        Submit(h, <<Renaming(x, "Card"), Exposing(x, b, 1)>>) /\ UNCHANGED named
  BY DEF RenameAndExpose
<1> DEFINE c == Renaming(x, "Card")
           e == Exposing(x, b, 1)
<1>2. Record(h, Applied(doc, <<c, e>>))
  BY <1>1 DEF Submit
<1>3. Harmless(c) /\ Harmless(e)
  BY RenamingForm, ExposingForm
<1> HIDE DEF c, e
<1>4. <<c, e>> \in Seq({c, e}) /\ Range(<<c, e>>) = {c, e}
  BY DEF Range
<1> QED
  BY <1>1, <1>2, <1>3, <1>4, HarmlessSteps DEF IsSeq

(* The instances of a Source are finitely many.                              *)
LEMMA ReferencesFinite ==
  ASSUME NEW d, DocForm(d), NEW c
  PROVE  IsFiniteSet(References(d, c))
<1> DEFINE P == Places(d)
           Trees == {Tree(d, q) : q \in P}
           All == UNION Trees
<1>1. IsFiniteSet(P)
  BY FS_Union, ComponentAssumption DEF Places, DocForm
<1> HIDE DEF P
<1>2. IsFiniteSet(Trees)
  <2>1. [q \in P |-> Tree(d, q)] \in Surjection(P, Trees)
    BY DEF Surjection
  <2> QED
    BY <1>1, <2>1, FS_Surjection
<1>3. \A t \in Trees : IsFiniteSet(t)
  BY TreesForm DEF TreeForm
<1> HIDE DEF Trees
<1>4. IsFiniteSet(All)
  BY <1>2, <1>3, FS_UNION
<1>5. References(d, c) \subseteq P \X All
  BY DEF References, P, Trees
<1> HIDE DEF All
<1>6. IsFiniteSet(P \X All)
  BY <1>1, <1>4, FS_Product
<1> QED
  BY <1>5, <1>6, FS_Subset

LEMMA DetachAllAndDeleteKeeps == ASSUME FormInv, NEW h \in Host, DetachAllAndDelete(h) PROVE Kept
<1>1. PICK x \in Defined(doc) :
        LET inSources == SetToSeq({r \in References(doc, x) : r[1] \in Component})
            onPages == SetToSeq({r \in References(doc, x) : r[1] \in Page})
            refs == inSources \o onPages
            each == Cardinality(Inside(doc, x))
        IN  /\ Submit(h, [i \in DOMAIN refs |-> Detaching(refs[i][1], refs[i][2].id, each * (i - 1))]
                         \o <<[type |-> "component.delete", component |-> x]>>)
            /\ UNCHANGED named
  BY DEF DetachAllAndDelete
<1> DEFINE A == {r \in References(doc, x) : r[1] \in Component}
           B == {r \in References(doc, x) : r[1] \in Page}
           refs == SetToSeq(A) \o SetToSeq(B)
           each == Cardinality(Inside(doc, x))
           s == [i \in DOMAIN refs |-> Detaching(refs[i][1], refs[i][2].id, each * (i - 1))]
           c == [type |-> "component.delete", component |-> x]
           cmds == s \o <<c>>
<1>2. Record(h, Applied(doc, cmds)) /\ named' = named
  BY <1>1 DEF Submit
<1>3. IsSeq(refs)
  <2>1. IsFiniteSet(A) /\ IsFiniteSet(B)
    <3>1. IsFiniteSet(References(doc, x))
      BY ReferencesFinite DEF FormInv
    <3>2. A \subseteq References(doc, x) /\ B \subseteq References(doc, x)
      OBVIOUS
    <3> QED
      BY <3>1, <3>2, FS_Subset
  <2> HIDE DEF A, B
  <2>2. IsSeq(SetToSeq(A)) /\ IsSeq(SetToSeq(B))
    BY <2>1, ListForm, SeqIs
  <2> QED
    BY <2>2, SeqJoin
<1>4. \A i \in DOMAIN refs : Harmless(s[i])
  BY DetachingForm
<1>5. IsSeq(s) /\ \A e \in Range(s) : Harmless(e)
  <2>1. Len(refs) \in Nat /\ DOMAIN refs = 1 .. Len(refs)
    BY <1>3 DEF IsSeq
  <2> HIDE DEF refs
  <2>2. DOMAIN s = 1 .. Len(refs)
    BY <2>1
  <2>3. \A i \in 1 .. Len(refs) : s[i] \in Range(s)
    BY <2>2 DEF Range
  <2>4. s = [i \in 1 .. Len(refs) |-> s[i]]
    BY <2>1
  <2>5. \A e \in Range(s) : Harmless(e)
    BY <1>4, <2>1, <2>2 DEF Range
  <2> HIDE DEF s
  <2>6. s \in [1 .. Len(refs) -> Range(s)]
    BY <2>3, <2>4
  <2> QED
    BY <2>1, <2>5, <2>6 DEF IsSeq
<1>6. Harmless(c)
  BY DEF Harmless, CommandForm, KeptForm, Births
<1> HIDE DEF s, c
<1>7. IsSeq(cmds) /\ \A e \in Range(cmds) : Harmless(e)
  BY <1>5, <1>6, Single, SeqJoin
<1> HIDE DEF cmds
<1> QED
  BY <1>2, <1>7, HarmlessSteps

-----------------------------------------------------------------------------
(* The theorems.                                                             *)

(* A document of the module is one of the form.                              *)
LEMMA DocumentForm ==
  ASSUME NEW d \in Document, IsFiniteSet(Defined(d)), \A p \in Place : IsFiniteSet(Tree(d, p))
  PROVE  DocForm(d)
<1>1. \A n \in Node : NodeForm(n)
  <2> TAKE n \in Node
  <2>1. n = [id |-> n.id, under |-> n.under, of |-> n.of, over |-> n.over, locked |-> n.locked]
    BY DEF Node
  <2>2. n.of \in Component \cup {Plain}
    BY DEF Node
  <2>3. n.over \in [Property -> Value \cup {NoValue}]
    BY DEF Node, Overrides
  <2> QED
    BY <2>1, <2>2, <2>3 DEF NodeForm
<1>2. d = [page |-> d.page, defs |-> d.defs] /\ d.page \in [Page -> SUBSET Node]
      /\ d.defs \in [Component -> Definition \cup {NoDefinition}]
  BY DEF Document
<1>3. d.page = [p \in Page |-> d.page[p]] /\ d.defs = [c \in Component |-> d.defs[c]]
  BY <1>2
<1>4. \A p \in Page : TreeForm(d.page[p])
  <2> TAKE p \in Page
  <2>1. IsFiniteSet(d.page[p])
    BY DEF Place, Tree
  <2>2. d.page[p] \subseteq Node
    BY <1>2
  <2> QED
    BY <1>1, <2>1, <2>2 DEF TreeForm
<1>5. \A c \in Defined(d) : SourceForm(d.defs[c])
  <2> TAKE c \in Defined(d)
  <2> DEFINE def == d.defs[c]
  <2>1. c \in Component /\ def # NoDefinition /\ def \in Definition
    BY <1>2 DEF Defined
  <2>2. IsFiniteSet(def.tree)
    BY <2>1, ComponentAssumption DEF Place, Tree
  <2> HIDE DEF def
  <2>3. /\ def = [name |-> def.name, rev |-> def.rev, root |-> def.root, tree |-> def.tree,
                  props |-> def.props]
        /\ def.rev \in Nat /\ def.tree \subseteq Node
    BY <2>1 DEF Definition
  <2>4. TreeForm(def.tree)
    BY <1>1, <2>2, <2>3 DEF TreeForm
  <2>5. SourceForm(def)
    BY <2>3, <2>4 DEF SourceForm
  <2> QED
    BY <2>5 DEF def
<1> QED
  BY <1>2, <1>3, <1>4, <1>5 DEF DocForm

LEMMA InitKeeps == Init => FormInv /\ GraphInv
<1> SUFFICES ASSUME Init
             PROVE  FormInv /\ GraphInv
  OBVIOUS
<1>1. /\ doc \in Document
      /\ IsFiniteSet(Defined(doc)) /\ \A p \in Place : IsFiniteSet(Tree(doc, p))
      /\ \A p \in Place : \A n \in Tree(doc, p) : n.of # Plain => n.of \in Defined(doc)
      /\ ~Cyclic(doc)
  BY DocumentAssumption DEF Init
<1>2. DocForm(doc)
  BY <1>1, DocumentForm
<1>3. Orders(Embeds(doc), named) /\ Within(Embeds(doc), doc)
  BY <1>1, <1>2, AcyclicIsOrdered DEF Init
<1>4. IsSeq(<<>>) /\ Range(<<>>) = {}
  BY DEF IsSeq, Range
<1>5. /\ undo = [h \in Host |-> <<>>] /\ redo = [h \in Host |-> <<>>]
      /\ named = Defined(doc)
  BY DEF Init
<1>6. StackForm(undo, named) /\ StackForm(redo, named)
  BY <1>4, <1>5 DEF StackForm
<1>7. \A T : StackAllowed(T, undo) /\ StackAllowed(T, redo)
  BY <1>4, <1>5 DEF StackAllowed
<1>8. FormInv
  BY <1>2, <1>5, <1>6 DEF FormInv, Defined
<1>9. Guards(Embeds(doc))
  BY <1>3, <1>7 DEF Guards
<1> QED
  BY <1>8, <1>9 DEF GraphInv

LEMMA NextKeeps == FormInv /\ [Next]_vars => Kept
<1> SUFFICES ASSUME FormInv, [Next]_vars
             PROVE  Kept
  OBVIOUS
<1>1. CASE UNCHANGED vars
  <2>1. doc' = doc /\ undo' = undo /\ redo' = redo /\ named' = named
    BY <1>1 DEF vars
  <2>2. FormInv'
    BY <2>1 DEF FormInv
  <2>3. GraphInv => GraphInv'
    BY <2>1 DEF GraphInv, Guards
  <2>4. RevisionsMove(doc, doc')
    BY <2>1 DEF RevisionsMove
  <2> QED
    BY <2>2, <2>3, <2>4 DEF Kept
<1>2. CASE Next
  <2>1. PICK h \in Host :
          \/ NodeCreate(h) \/ NodeDelete(h) \/ NodeLock(h)
          \/ ComponentCreate(h) \/ ComponentExtract(h) \/ ComponentDuplicate(h) \/ ComponentDelete(h)
          \/ ComponentRename(h) \/ AddProperty(h) \/ UpdateProperty(h) \/ RemoveProperty(h)
          \/ InstanceInsert(h) \/ SetOverride(h) \/ ResetOverride(h) \/ ResetAllOverrides(h)
          \/ InstanceDetach(h) \/ DetachAllAndDelete(h) \/ RenameAndExpose(h)
          \/ Undo(h) \/ Redo(h)
    BY <1>2 DEF Next
  <2> QED
    BY <2>1, NodeCreateKeeps, NodeDeleteKeeps, NodeLockKeeps, ComponentCreateKeeps,
       ComponentExtractKeeps, ComponentDuplicateKeeps, ComponentDeleteKeeps, ComponentRenameKeeps,
       AddPropertyKeeps, UpdatePropertyKeeps, RemovePropertyKeeps, InstanceInsertKeeps,
       SetOverrideKeeps, ResetOverrideKeeps, ResetAllOverridesKeeps, InstanceDetachKeeps,
       DetachAllAndDeleteKeeps, RenameAndExposeKeeps, UndoKeeps, RedoKeeps
<1> QED
  BY <1>1, <1>2

(* GraphAcyclic, for any number of hosts, pages, Sources and steps: as long  *)
(* as instances are inserted on pages only, no definition ever embeds        *)
(* itself, whatever is extracted, duplicated, detached, deleted and brought  *)
(* back by an undo of any host.                                              *)
THEOREM GraphStaysAcyclic == InsertOnPages => (Spec => []GraphAcyclic)
<1> SUFFICES ASSUME InsertOnPages
             PROVE  Spec => []GraphAcyclic
  OBVIOUS
<1>1. Init => FormInv /\ GraphInv
  BY InitKeeps
<1>2. FormInv /\ GraphInv /\ [Next]_vars => (FormInv /\ GraphInv)'
  BY NextKeeps DEF Kept
<1>3. FormInv /\ GraphInv => GraphAcyclic
  <2> SUFFICES ASSUME FormInv, GraphInv
               PROVE  GraphAcyclic
    OBVIOUS
  <2>1. PICK T : Guards(T)
    BY DEF GraphInv
  <2>2. Orders(T, named) /\ Within(T, doc) /\ DocForm(doc)
    BY <2>1 DEF Guards, FormInv
  <2> QED
    BY <2>2, OrderedIsAcyclic DEF GraphAcyclic
<1> QED
  BY <1>1, <1>2, <1>3, PTL DEF Spec

(* RevisionMoves, for any number of hosts: a definition that a step changes, *)
(* a command, a batch, an undo or a redo of any of them, has another         *)
(* revision than it had, so that what was cached of it is not taken for it.  *)
THEOREM RevisionsAlwaysMove == Spec => RevisionMoves
<1>1. Init => FormInv
  BY InitKeeps
<1>2. FormInv /\ [Next]_vars => FormInv'
  BY NextKeeps DEF Kept
<1>3. FormInv /\ [Next]_vars =>
        [\A c \in Defined(doc) \cap Defined(doc)' :
           doc'.defs[c] # doc.defs[c] => doc'.defs[c].rev # doc.defs[c].rev]_vars
  BY NextKeeps DEF Kept, RevisionsMove
<1> QED
  BY <1>1, <1>2, <1>3, PTL DEF Spec, RevisionMoves
=============================================================================
