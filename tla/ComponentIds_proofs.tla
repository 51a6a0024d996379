-------------------------- MODULE ComponentIds_proofs --------------------------
(***************************************************************************)
(* Proofs about ComponentHistory, for any number of hosts that edit, undo  *)
(* and redo on one document: a node id never occurs twice, on pages and in *)
(* Sources.                                                                *)
(***************************************************************************)
EXTENDS ComponentHistory_proofs

-----------------------------------------------------------------------------
(* Trees.                                                                    *)

(* With a node, everything that hangs from it.                               *)
Whole(S, tree) == S \subseteq tree /\ \A n \in tree : n.under \in IdsOf(S) => n \in S

LEMMA BelowWhole ==
  ASSUME NEW tree, NEW n \in tree
  PROVE  Whole(Below(tree, n.id), tree) /\ n \in Below(tree, n.id)
<1> DEFINE B == Below(tree, n.id)
           Closed == {S \in SUBSET IdsOf(tree) :
                        n.id \in S /\ \A k \in tree : k.under \in S => k.id \in S}
<1>1. \A k : k \in B <=> k \in tree /\ \A S \in Closed : k.id \in S
  BY DEF Below
<1>2. n \in B
  BY <1>1
<1>3. ASSUME NEW k \in tree, k.under \in IdsOf(B)
      PROVE  k \in B
  <2>1. PICK m \in B : m.id = k.under
    BY <1>3 DEF IdsOf
  <2>2. \A S \in Closed : k.id \in S
    BY <1>1, <2>1
  <2> QED
    BY <1>1, <2>2
<1>4. B \subseteq tree
  BY <1>1
<1> HIDE DEF B
<1> QED
  BY <1>2, <1>3, <1>4 DEF Whole, B

(* A closed set of ids that has n's holds all that is below n.               *)
LEMMA BelowLeast ==
  ASSUME NEW tree, NEW id, NEW S \in SUBSET IdsOf(tree), id \in S,
         \A k \in tree : k.under \in S => k.id \in S
  PROVE  IdsOf(Below(tree, id)) \subseteq S
BY DEF Below, IdsOf

(* Part of a tree, with all that hangs from it.                              *)
LEMMA BelowSubtree ==
  ASSUME NEW tree, NEW v, Grown(tree, v), NEW n \in tree
  PROVE  /\ Subtree(Below(tree, n.id), n.id, n.under)
         /\ n.under \notin IdsOf(Below(tree, n.id))
<1> DEFINE B == Below(tree, n.id)
<1>1. Whole(B, tree) /\ n \in B /\ B \subseteq tree
  BY BelowWhole DEF Whole
<1>2. ASSUME NEW k \in B, k.id # n.id, k.under \notin IdsOf(B)
      PROVE  FALSE
  <2> DEFINE S == IdsOf(B) \ {k.id}
  <2>1. S \in SUBSET IdsOf(tree) /\ n.id \in S
    BY <1>1, <1>2 DEF IdsOf
  <2>2. ASSUME NEW m \in tree, m.under \in S
        PROVE  m.id \in S
    <3>1. m \in B
      BY <1>1, <2>2 DEF Whole
    <3>2. m.id # k.id
      BY <1>1, <1>2, <2>2, <3>1 DEF Grown
    <3> QED
      BY <3>1, <3>2 DEF IdsOf
  <2>3. k.id \in IdsOf(B)
    BY DEF IdsOf
  <2> HIDE DEF S
  <2>4. IdsOf(B) \subseteq S
    BY <2>1, <2>2, BelowLeast
  <2> QED
    BY <2>3, <2>4 DEF S
<1> HIDE DEF B
<1>3. n.under \notin IdsOf(B)
  <2> SUFFICES ASSUME n.under \in IdsOf(B)
               PROVE  FALSE
    OBVIOUS
  <2>1. \A k \in B : k.under \in IdsOf(B)
    <3> TAKE k \in B
    <3>1. k.id = n.id => k = n
      BY <1>1 DEF Grown
    <3> QED
      BY <1>2, <3>1
  <2>2. B \in SUBSET tree /\ B # {}
    BY <1>1
  <2> QED
    BY <2>1, <2>2 DEF Grown
<1>4. \A k \in B : IF k.id = n.id THEN k.under = n.under ELSE k.under \in IdsOf(B)
  BY <1>1, <1>2 DEF Grown
<1>5. Grown(B, n.under)
  BY <1>1, <1>4 DEF Grown
<1>6. n.id \in IdsOf(B)
  BY <1>1 DEF IdsOf
<1> QED
  BY <1>3, <1>4, <1>5, <1>6 DEF Subtree, B

(* What is below one sibling is not below another.                           *)
LEMMA SiblingsApart ==
  ASSUME NEW tree, NEW v, Grown(tree, v), NEW m \in tree, NEW n \in tree,
         m.under = n.under, m.id # n.id
  PROVE  IdsOf(Below(tree, m.id)) \cap IdsOf(Below(tree, n.id)) = {}
<1> DEFINE A == Below(tree, m.id)
           B == Below(tree, n.id)
           S == IdsOf(A) \ IdsOf(B)
<1>1. Whole(A, tree) /\ m \in A /\ Whole(B, tree) /\ n \in B /\ A \subseteq tree /\ B \subseteq tree
  BY BelowWhole DEF Whole
<1>2. Subtree(A, m.id, m.under) /\ m.under \notin IdsOf(A)
      /\ Subtree(B, n.id, n.under) /\ n.under \notin IdsOf(B)
  BY BelowSubtree
<1> HIDE DEF A, B
<1>3. n \notin A /\ m \notin B
  BY <1>2 DEF Subtree
<1>4. m.id \in S
  <2>1. m.id \in IdsOf(A)
    BY <1>1 DEF IdsOf
  <2>2. \A k \in B : k.id = m.id => k = m
    BY <1>1 DEF Grown
  <2> QED
    BY <1>3, <2>1, <2>2 DEF IdsOf
<1>5. ASSUME NEW k \in tree, k.under \in S
      PROVE  k.id \in S
  <2>1. k \in A
    BY <1>1, <1>5 DEF Whole
  <2>2. ASSUME k.id \in IdsOf(B)
        PROVE  FALSE
    <3>1. k \in B
      BY <1>1, <2>2 DEF IdsOf, Grown
    <3>2. k.id # n.id
      BY <1>1, <1>3, <2>1 DEF Grown
    <3> QED
      BY <1>2, <1>5, <3>1, <3>2 DEF Subtree
  <2> QED
    BY <2>1, <2>2 DEF IdsOf
<1>6. S \in SUBSET IdsOf(tree)
  BY <1>1 DEF IdsOf
<1> HIDE DEF S
<1>7. IdsOf(A) \subseteq S
  BY <1>4, <1>5, <1>6, BelowLeast DEF A
<1> QED
  BY <1>7 DEF S, A, B

(* A tree without a part.                                                    *)
LEMMA PruneGrown ==
  ASSUME NEW tree, NEW v, Grown(tree, v), NEW S, Whole(S, tree)
  PROVE  Grown(tree \ S, v) /\ IdsOf(tree \ S) \cap IdsOf(S) = {}
<1> DEFINE R == tree \ S
<1>1. ASSUME NEW n \in R
      PROVE  n.under = v \/ n.under \in IdsOf(R)
  <2>1. n \in tree /\ n \notin S
    OBVIOUS
  <2>2. CASE n.under \in IdsOf(tree)
    <3>1. PICK m \in tree : m.id = n.under
      BY <2>2 DEF IdsOf
    <3>2. m \notin S
      BY <2>1, <3>1 DEF Whole, IdsOf
    <3> QED
      BY <3>1, <3>2 DEF IdsOf
  <2> QED
    BY <2>1, <2>2 DEF Grown
<1>2. Grown(R, v)
  <2> HIDE DEF R
  <2>1. R \subseteq tree
    BY DEF R
  <2>2. \A T \in SUBSET R : T \in SUBSET tree
    BY <2>1
  <2> QED
    BY <1>1, <2>1, <2>2 DEF Grown
<1>3. IdsOf(R) \cap IdsOf(S) = {}
  BY DEF IdsOf, Grown, Whole
<1> QED
  BY <1>2, <1>3

LEMMA BelowAllWhole ==
  ASSUME NEW tree, NEW nodes \in SUBSET tree
  PROVE  Whole(UNION {Below(tree, n.id) : n \in nodes}, tree)
<1> DEFINE U == UNION {Below(tree, n.id) : n \in nodes}
<1>1. U \subseteq tree
  BY BelowIn
<1>2. ASSUME NEW k \in tree, k.under \in IdsOf(U)
      PROVE  k \in U
  <2>1. PICK m \in U : m.id = k.under
    BY <1>2 DEF IdsOf
  <2>2. PICK n \in nodes : m \in Below(tree, n.id)
    OBVIOUS
  <2>3. k.under \in IdsOf(Below(tree, n.id))
    BY <2>1, <2>2 DEF IdsOf
  <2>4. k \in Below(tree, n.id)
    BY <2>3, BelowWhole DEF Whole
  <2> QED
    BY <2>4
<1> QED
  BY <1>1, <1>2 DEF Whole

(* New nodes put under a node of a tree that is no instance.                 *)
LEMMA GraftGrown ==
  ASSUME NEW tree, NEW v, Grown(tree, v), NEW nodes, NEW u, Grown(nodes, u),
         IdsOf(tree) \cap IdsOf(nodes) = {}, v \notin Id,
         u = v \/ \E m \in tree : m.id = u /\ m.of = Plain
  PROVE  Grown(tree \cup nodes, v)
<1> DEFINE R == tree \cup nodes
<1>0. IdsOf(R) = IdsOf(tree) \cup IdsOf(nodes)
  BY DEF IdsOf
<1>1. v \notin IdsOf(nodes) /\ v \notin IdsOf(tree)
  BY DEF Grown, IdsOf
<1>2. (\A n \in tree : n.id \in IdsOf(tree)) /\ (\A n \in nodes : n.id \in IdsOf(nodes))
  BY DEF IdsOf
<1>3. u = v \/ u \in IdsOf(tree)
  BY <1>2
<1>4. \A n \in R : n.id \in Id /\ (n.under = v \/ n.under \in IdsOf(R))
  BY <1>0, <1>3 DEF Grown
<1>5. \A m, n \in R : m.id = n.id => m = n
  BY <1>2 DEF Grown
<1>6. \A m, n \in R : n.under = m.id => m.of = Plain
  <2> SUFFICES ASSUME NEW m \in R, NEW n \in R, n.under = m.id
               PROVE  m.of = Plain
    OBVIOUS
  <2>1. CASE m \in tree /\ n \in tree
    BY <2>1 DEF Grown
  <2>2. CASE m \in nodes /\ n \in nodes
    BY <2>2 DEF Grown
  <2>3. CASE m \in tree /\ n \in nodes
    <3>1. n.under \in IdsOf(tree)
      BY <1>2, <2>3
    <3>2. n.under = u /\ u # v
      BY <1>1, <2>3, <3>1 DEF Grown
    <3>3. PICK k \in tree : k.id = u /\ k.of = Plain
      BY <3>2
    <3> QED
      BY <2>3, <3>2, <3>3 DEF Grown
  <2>4. CASE m \in nodes /\ n \in tree
    BY <1>1, <1>2, <2>4 DEF Grown
  <2> QED
    BY <2>1, <2>2, <2>3, <2>4
<1>7. ASSUME NEW S \in SUBSET R, S # {}
      PROVE  \E n \in S : n.under \notin IdsOf(S)
  <2> DEFINE A == S \cap tree
             B == S \cap nodes
  <2>1. IdsOf(S) \subseteq IdsOf(A) \cup IdsOf(nodes)
    BY DEF IdsOf
  <2>2. CASE A # {}
    <3>1. PICK n \in A : n.under \notin IdsOf(A)
      BY <2>2 DEF Grown
    <3>2. n.under \notin IdsOf(nodes)
      BY <1>1 DEF Grown
    <3> QED
      BY <2>1, <3>1, <3>2
  <2>3. CASE A = {}
    <3>1. S \in SUBSET nodes
      BY <2>3
    <3> QED
      BY <1>7, <3>1 DEF Grown
  <2> QED
    BY <2>2, <2>3
<1> HIDE DEF R
<1>8. Grown(R, v)
  BY <1>4, <1>5, <1>6, <1>7 DEF Grown
<1> QED
  BY <1>8 DEF R

(* A node exchanged for one with its id, its parent and its Source.          *)
LEMMA SwapGrown ==
  ASSUME NEW tree, NEW v, Grown(tree, v), NEW m \in tree, NEW n,
         n.id = m.id, n.under = m.under, n.of = m.of
  PROVE  /\ Grown((tree \ {m}) \cup {n}, v)
         /\ IdsOf((tree \ {m}) \cup {n}) = IdsOf(tree)
         /\ \A top, u : Subtree(tree, top, u) => Subtree((tree \ {m}) \cup {n}, top, u)
<1> DEFINE R == (tree \ {m}) \cup {n}
<1>1. IdsOf(R) = IdsOf(tree)
  BY DEF IdsOf
<1>2. \A k \in R : \E o \in tree : k.id = o.id /\ k.under = o.under /\ k.of = o.of
                                   /\ (IF k = n THEN o = m ELSE o = k)
  OBVIOUS
<1>3. \A k \in R : k.id \in Id /\ (k.under = v \/ k.under \in IdsOf(R))
  <2> TAKE k \in R
  <2>1. PICK o \in tree : k.id = o.id /\ k.under = o.under
    BY <1>2
  <2> QED
    BY <1>1, <2>1 DEF Grown
<1>4. \A k, l \in R : k.id = l.id => k = l
  <2> SUFFICES ASSUME NEW k \in R, NEW l \in R, k.id = l.id
               PROVE  k = l
    OBVIOUS
  <2>1. \A j \in R : j # n => j \in tree /\ j # m /\ j.id # m.id
    BY DEF Grown
  <2> QED
    BY <2>1 DEF Grown
<1>5. \A k, l \in R : l.under = k.id => k.of = Plain
  <2> SUFFICES ASSUME NEW k \in R, NEW l \in R, l.under = k.id
               PROVE  k.of = Plain
    OBVIOUS
  <2>1. PICK o \in tree : k.id = o.id /\ k.of = o.of
    BY <1>2
  <2>2. PICK q \in tree : l.under = q.under
    BY <1>2
  <2> QED
    BY <2>1, <2>2 DEF Grown
<1>6. ASSUME NEW S \in SUBSET R, S # {}
      PROVE  \E k \in S : k.under \notin IdsOf(S)
  <2> DEFINE Q == {o \in tree : \E k \in S : k.id = o.id /\ k.under = o.under}
  <2>1. Q # {}
    BY <1>2, <1>6
  <2>2. PICK o \in Q : o.under \notin IdsOf(Q)
    <3>1. Q \in SUBSET tree
      OBVIOUS
    <3> HIDE DEF Q
    <3> QED
      BY <2>1, <3>1 DEF Grown
  <2>3. PICK k \in S : k.id = o.id /\ k.under = o.under
    OBVIOUS
  <2>4. IdsOf(S) \subseteq IdsOf(Q)
    <3> SUFFICES ASSUME NEW l \in S
                 PROVE  l.id \in IdsOf(Q)
      BY DEF IdsOf
    <3>1. PICK q \in tree : l.id = q.id /\ l.under = q.under
      BY <1>2
    <3>2. q \in Q
      BY <3>1
    <3> HIDE DEF Q
    <3> QED
      BY <3>1, <3>2 DEF IdsOf
  <2> QED
    BY <2>2, <2>3, <2>4
<1>7. ASSUME NEW top, NEW u, Subtree(tree, top, u), Grown(R, u)
      PROVE  Subtree(R, top, u)
  <2>1. \A k \in R : IF k.id = top THEN k.under = u ELSE k.under \in IdsOf(R)
    <3> TAKE k \in R
    <3>1. PICK o \in tree : k.id = o.id /\ k.under = o.under
      BY <1>2
    <3> QED
      BY <1>1, <1>7, <3>1 DEF Subtree
  <2> HIDE DEF R
  <2> QED
    BY <1>1, <1>7, <2>1 DEF Subtree
<1>8. \A top, u : Subtree(tree, top, u) => \A k \in R : k.under = u \/ k.under \in IdsOf(R)
  <2> TAKE top, u
  <2> HAVE Subtree(tree, top, u)
  <2> TAKE k \in R
  <2>1. PICK o \in tree : k.id = o.id /\ k.under = o.under
    BY <1>2
  <2> QED
    BY <1>1, <2>1 DEF Subtree, Grown
<1> HIDE DEF R
<1>9. Grown(R, v)
  BY <1>3, <1>4, <1>5, <1>6 DEF Grown
<1>10. \A top, u : Subtree(tree, top, u) => Subtree(R, top, u)
  BY <1>3, <1>4, <1>5, <1>6, <1>7, <1>8 DEF Grown
<1> QED
  BY <1>1, <1>9, <1>10 DEF R

(* Nodes under other ids, their parents with them, hung from v.              *)
Copied(new, nodes, f, v) ==
    \E g : /\ new = {g[n] : n \in nodes}
           /\ \A n \in nodes : /\ g[n].id = f[n.id] /\ g[n].of = n.of
                               /\ g[n].under = IF n.under \in IdsOf(nodes) THEN f[n.under] ELSE v

LEMMA RemapGrown ==
  ASSUME NEW nodes, NEW u, Grown(nodes, u), NEW f, NEW v, NEW new, Copied(new, nodes, f, v),
         \A n \in nodes : f[n.id] \in Id /\ f[n.id] # v,
         \A m, n \in nodes : f[m.id] = f[n.id] => m.id = n.id
  PROVE  /\ Grown(new, v)
         /\ IdsOf(new) = {f[n.id] : n \in nodes}
         /\ \A top : Subtree(nodes, top, u) /\ u \notin IdsOf(nodes) => Subtree(new, f[top], v)
<1>0. PICK g :
        /\ new = {g[n] : n \in nodes}
        /\ \A n \in nodes : /\ g[n].id = f[n.id] /\ g[n].of = n.of
                            /\ g[n].under = IF n.under \in IdsOf(nodes) THEN f[n.under] ELSE v
  BY DEF Copied
<1>1. \A k \in new : \E n \in nodes : k = g[n] /\ k.id = f[n.id] /\ k.of = n.of
                                      /\ k.under = IF n.under \in IdsOf(nodes) THEN f[n.under] ELSE v
  BY <1>0
<1>2. \A n \in nodes : g[n] \in new /\ g[n].id = f[n.id]
  BY <1>0
<1>3. IdsOf(new) = {f[n.id] : n \in nodes}
  <2>1. IdsOf(new) \subseteq {f[n.id] : n \in nodes}
    BY <1>1 DEF IdsOf
  <2>2. ASSUME NEW n \in nodes
        PROVE  f[n.id] \in IdsOf(new)
    BY <1>2 DEF IdsOf
  <2> QED
    BY <2>1, <2>2
<1>4. \A x \in IdsOf(nodes) : \E n \in nodes : n.id = x
  BY DEF IdsOf
<1>5. \A k \in new : k.id \in Id /\ (k.under = v \/ k.under \in IdsOf(new))
  <2> TAKE k \in new
  <2>1. PICK n \in nodes : k.id = f[n.id]
                           /\ k.under = IF n.under \in IdsOf(nodes) THEN f[n.under] ELSE v
    BY <1>1
  <2> QED
    BY <1>3, <1>4, <2>1
<1>6. \A k, l \in new : k.id = l.id => k = l
  <2> SUFFICES ASSUME NEW k \in new, NEW l \in new, k.id = l.id
               PROVE  k = l
    OBVIOUS
  <2>1. PICK m \in nodes : k = g[m] /\ k.id = f[m.id]
    BY <1>1
  <2>2. PICK n \in nodes : l = g[n] /\ l.id = f[n.id]
    BY <1>1
  <2>3. m = n
    BY <2>1, <2>2 DEF Grown
  <2> QED
    BY <2>1, <2>2, <2>3
<1>7. \A k, l \in new : l.under = k.id => k.of = Plain
  <2> SUFFICES ASSUME NEW k \in new, NEW l \in new, l.under = k.id
               PROVE  k.of = Plain
    OBVIOUS
  <2>1. PICK m \in nodes : k.id = f[m.id] /\ k.of = m.of
    BY <1>1
  <2>2. PICK n \in nodes : l.under = IF n.under \in IdsOf(nodes) THEN f[n.under] ELSE v
    BY <1>1
  <2>3. n.under \in IdsOf(nodes) /\ f[n.under] = f[m.id]
    BY <2>1, <2>2
  <2>4. n.under = m.id
    BY <1>4, <2>3
  <2> QED
    BY <2>1, <2>4 DEF Grown
<1>8. ASSUME NEW S \in SUBSET new, S # {}
      PROVE  \E k \in S : k.under \notin IdsOf(S)
  <2> DEFINE Q == {n \in nodes : g[n] \in S}
  <2>1. Q # {} /\ Q \in SUBSET nodes
    BY <1>1, <1>8
  <2>2. \A n \in Q : n \in nodes /\ g[n] \in S
    OBVIOUS
  <2>3. \A k \in S : \E n \in Q : k.id = f[n.id]
    BY <1>1
  <2> HIDE DEF Q
  <2>4. PICK n \in Q : n.under \notin IdsOf(Q)
    BY <2>1 DEF Grown
  <2>5. n \in nodes /\ g[n] \in S
    BY <2>2
  <2>6. ASSUME g[n].under \in IdsOf(S)
        PROVE  FALSE
    <3>1. PICK k \in S : k.id = g[n].under
      BY <2>6 DEF IdsOf
    <3>2. PICK m \in Q : k.id = f[m.id]
      BY <2>3
    <3>3. m \in nodes
      BY <2>2
    <3>4. n.under \in IdsOf(nodes) /\ f[n.under] = f[m.id]
      BY <1>0, <2>5, <3>1, <3>2, <3>3
    <3>5. n.under = m.id
      BY <1>4, <3>3, <3>4
    <3> QED
      BY <2>4, <3>5 DEF IdsOf
  <2> QED
    BY <2>5, <2>6
<1>9. Grown(new, v)
  BY <1>5, <1>6, <1>7, <1>8 DEF Grown
<1>10. ASSUME NEW top, Subtree(nodes, top, u), u \notin IdsOf(nodes)
       PROVE  Subtree(new, f[top], v)
  <2>1. f[top] \in IdsOf(new)
    BY <1>3, <1>4, <1>10 DEF Subtree
  <2>2. \A k \in new : IF k.id = f[top] THEN k.under = v ELSE k.under \in IdsOf(new)
    <3> TAKE k \in new
    <3>1. PICK n \in nodes : k.id = f[n.id]
                             /\ k.under = IF n.under \in IdsOf(nodes) THEN f[n.under] ELSE v
      BY <1>1
    <3>2. f[n.id] = f[top] <=> n.id = top
      BY <1>4, <1>10 DEF Subtree
    <3>3. IF n.id = top THEN n.under = u ELSE n.under \in IdsOf(nodes)
      BY <1>10 DEF Subtree
    <3> QED
      BY <1>3, <1>4, <1>10, <3>1, <3>2, <3>3
  <2> QED
    BY <1>9, <2>1, <2>2 DEF Subtree
<1> QED
  BY <1>3, <1>9, <1>10

-----------------------------------------------------------------------------
(* Documents.                                                                *)

LEMMA RootedGrown == \A d, p, tree : Rooted(d, p, tree) => Grown(tree, 0)
BY DEF Rooted, Subtree

LEMMA PlantedUnique ==
  ASSUME NEW d, Planted(d), NEW p \in Places(d), NEW q \in Places(d),
         NEW m \in Tree(d, p), NEW n \in Tree(d, q), m.id = n.id
  PROVE  p = q /\ m = n
<1>1. m.id \in IdsOf(Tree(d, p)) /\ n.id \in IdsOf(Tree(d, q))
  BY DEF IdsOf
<1>2. p = q
  BY <1>1 DEF Planted
<1>3. Grown(Tree(d, p), 0)
  BY RootedGrown DEF Planted
<1> QED
  BY <1>2, <1>3 DEF Grown

LEMMA IdsAre ==
  ASSUME NEW d
  PROVE  /\ \A x \in DocumentIds(d) : \E p \in Places(d) : x \in IdsOf(Tree(d, p))
         /\ \A p \in Places(d) : IdsOf(Tree(d, p)) \subseteq DocumentIds(d)
         /\ \A p : \A n \in Tree(d, p) : p \in Places(d) /\ n.id \in DocumentIds(d)
<1>1. Places(d) \subseteq Place
  BY PlacesAre
<1>2. \A p : p \notin Places(d) => Tree(d, p) = {}
  BY DEF Places, Tree
<1>3. \A p : \A n \in Tree(d, p) : p \in Places(d) /\ n.id \in DocumentIds(d)
  BY <1>1, <1>2 DEF DocumentIds, IdsOf
<1>4. \A x \in DocumentIds(d) : \E p \in Places(d) : x \in IdsOf(Tree(d, p))
  BY <1>2 DEF DocumentIds, IdsOf
<1> QED
  BY <1>1, <1>3, <1>4 DEF DocumentIds

LEMMA PlantedIds ==
  ASSUME NEW d, Planted(d)
  PROVE  DocumentIds(d) \subseteq Id /\ 0 \notin DocumentIds(d) /\ 0 \notin Id
<1>1. 0 \notin Id
  BY DEF Id
<1>2. \A p \in Places(d) : IdsOf(Tree(d, p)) \subseteq Id
  BY RootedGrown DEF Planted, Grown, IdsOf
<1> QED
  BY <1>1, <1>2, IdsAre

(* e has the places of d, but for p, and the same trees there.               *)
Apart(d, e, p) ==
    \A q \in Places(e) \ {p} :
        /\ q \in Places(d)
        /\ Tree(e, q) = Tree(d, q)
        /\ q \notin Page => e.defs[q].root = d.defs[q].root

(* The ids of a document outside of one place.                               *)
IdsBut(d, p) == UNION {IdsOf(Tree(d, q)) : q \in Places(d) \ {p}}

LEMMA PlaceChanged ==
  ASSUME NEW d, Planted(d), NEW e, NEW p, Apart(d, e, p),
         p \in Places(e) => /\ Rooted(e, p, Tree(e, p))
                            /\ IdsOf(Tree(e, p)) \cap IdsBut(d, p) = {}
  PROVE  /\ Planted(e)
         /\ DocumentIds(e) \subseteq IdsBut(d, p) \cup IdsOf(Tree(e, p))
<1>1. \A q \in Places(e) \ {p} :
        /\ q \in Places(d) /\ Rooted(e, q, Tree(e, q))
        /\ Tree(e, q) = Tree(d, q)
        /\ IdsOf(Tree(e, q)) \subseteq IdsBut(d, p)
  BY DEF Apart, Planted, Rooted, IdsBut
<1>2. \A q, r \in Places(e) : q # r => IdsOf(Tree(e, q)) \cap IdsOf(Tree(e, r)) = {}
  <2> SUFFICES ASSUME NEW q \in Places(e), NEW r \in Places(e), q # r
               PROVE  IdsOf(Tree(e, q)) \cap IdsOf(Tree(e, r)) = {}
    OBVIOUS
  <2>1. CASE q # p /\ r # p
    BY <1>1, <2>1 DEF Planted
  <2>2. CASE q = p \/ r = p
    BY <1>1, <2>2
  <2> QED
    BY <2>1, <2>2
<1>3. Planted(e)
  BY <1>1, <1>2 DEF Planted
<1>4. \A q \in Places(e) : IdsOf(Tree(e, q)) \subseteq IdsBut(d, p) \cup IdsOf(Tree(e, p))
  BY <1>1
<1> QED
  BY <1>3, <1>4, IdsAre

LEMMA IdsApart ==
  ASSUME NEW d, Planted(d), NEW p \in Places(d)
  PROVE  /\ DocumentIds(d) = IdsBut(d, p) \cup IdsOf(Tree(d, p))
         /\ IdsBut(d, p) \cap IdsOf(Tree(d, p)) = {}
<1>1. DocumentIds(d) \subseteq IdsBut(d, p) \cup IdsOf(Tree(d, p))
  BY IdsAre DEF IdsBut
<1>2. IdsBut(d, p) \subseteq DocumentIds(d) /\ IdsOf(Tree(d, p)) \subseteq DocumentIds(d)
  BY IdsAre DEF IdsBut
<1>3. IdsBut(d, p) \cap IdsOf(Tree(d, p)) = {}
  BY DEF IdsBut, Planted
<1> QED
  BY <1>1, <1>2, <1>3

(* Nothing changed but what is no tree and no root.                          *)
Alike(d, e) ==
    \A q \in Places(e) :
        /\ q \in Places(d)
        /\ Tree(e, q) = Tree(d, q)
        /\ q \notin Page => e.defs[q].root = d.defs[q].root

LEMMA SameTrees ==
  ASSUME NEW d, Planted(d), NEW e, Alike(d, e)
  PROVE  Planted(e) /\ DocumentIds(e) \subseteq DocumentIds(d)
<1>1. \A q \in Places(e) : Rooted(e, q, Tree(e, q))
  BY DEF Alike, Planted, Rooted
<1>2. \A q, r \in Places(e) : q # r => IdsOf(Tree(e, q)) \cap IdsOf(Tree(e, r)) = {}
  BY DEF Alike, Planted
<1>3. \A q \in Places(e) : IdsOf(Tree(e, q)) \subseteq DocumentIds(d)
  BY IdsAre DEF Alike
<1>4. DocumentIds(e) \subseteq DocumentIds(d)
  BY <1>3, IdsAre
<1> QED
  BY <1>1, <1>2, <1>4 DEF Planted

(* A tree exchanged for another.                                             *)
LEMMA PlantApart ==
  ASSUME NEW d, DocForm(d), NEW p \in Places(d), NEW tree, TreeForm(tree)
  PROVE  LET e == Plant(d, p, tree)
         IN  /\ Apart(d, e, p)
             /\ p \in Places(e) => Tree(e, p) = tree /\ (p \notin Page => e.defs[p].root = d.defs[p].root)
             /\ p \in Page => p \in Places(e)
             /\ Tree(e, p) \subseteq tree
<1> DEFINE e == Plant(d, p, tree)
<1>1. /\ DocForm(e) /\ Defined(e) \subseteq Defined(d)
      /\ \A x \in Component : x # p => e.defs[x] = d.defs[x]
  BY PlantKeeps
<1>2. p \in Place /\ Page \cap Component = {}
  BY PlacesAre, ComponentAssumption
<1>3. CASE p \in Page
  <2>1. e.page = [d.page EXCEPT ![p] = tree]
    BY <1>3 DEF Plant, DocForm
  <2>2. e.page[p] = tree /\ \A q \in Page \ {p} : e.page[q] = d.page[q]
    BY <1>3, <2>1 DEF DocForm
  <2> HIDE DEF e
  <2>3. \A q \in Defined(e) : q \in Component /\ q \in Defined(d) /\ e.defs[q] = d.defs[q]
    BY <1>1, <1>2, <1>3 DEF Defined
  <2>4. \A q \in Places(e) \ {p} : /\ q \in Places(d) /\ Tree(e, q) = Tree(d, q)
                                   /\ q \notin Page => e.defs[q].root = d.defs[q].root
    BY <2>2, <2>3 DEF Places, Tree
  <2>5. p \in Places(e) /\ Tree(e, p) = tree
    BY <1>3, <2>2 DEF Places, Tree
  <2> QED
    BY <1>3, <2>4, <2>5 DEF Apart, e
<1>4. CASE p \notin Page
  <2>1. p \in Defined(d) /\ p \in Component
    BY <1>4 DEF Places, Defined
  <2>2. e.page = d.page /\ e.defs[p] = [d.defs[p] EXCEPT !.tree = tree]
    BY <1>4, <2>1 DEF Plant, DocForm
  <2>3. e.defs[p].tree = tree /\ e.defs[p].root = d.defs[p].root
    BY <2>1, <2>2 DEF DocForm, SourceForm
  <2> HIDE DEF e
  <2>4. \A q \in Defined(e) \ {p} : q \in Component /\ q \in Defined(d) /\ e.defs[q] = d.defs[q]
    BY <1>1 DEF Defined
  <2>5. \A q \in Places(e) \ {p} : /\ q \in Places(d) /\ Tree(e, q) = Tree(d, q)
                                   /\ q \notin Page => e.defs[q].root = d.defs[q].root
    BY <1>4, <2>2, <2>4 DEF Places, Tree
  <2>6. Tree(e, p) = IF p \in Defined(e) THEN tree ELSE {}
    BY <1>4, <2>3 DEF Tree
  <2>7. p \in Places(e) <=> p \in Defined(e)
    BY <1>4 DEF Places
  <2> QED
    BY <1>4, <2>3, <2>5, <2>6, <2>7 DEF Apart, e
<1> QED
  BY <1>3, <1>4

LEMMA PlantPlants ==
  ASSUME NEW d, DocForm(d), Planted(d), NEW p \in Places(d), NEW tree, TreeForm(tree),
         Rooted(d, p, tree), IdsOf(tree) \cap IdsBut(d, p) = {}
  PROVE  /\ Planted(Plant(d, p, tree))
         /\ DocumentIds(Plant(d, p, tree)) \subseteq IdsBut(d, p) \cup IdsOf(tree)
<1> DEFINE e == Plant(d, p, tree)
<1>1. /\ Apart(d, e, p)
      /\ p \in Places(e) => Tree(e, p) = tree /\ (p \notin Page => e.defs[p].root = d.defs[p].root)
      /\ Tree(e, p) \subseteq tree
  BY PlantApart
<1> HIDE DEF e
<1>2. p \in Places(e) => Rooted(e, p, Tree(e, p)) /\ IdsOf(Tree(e, p)) \cap IdsBut(d, p) = {}
  BY <1>1 DEF Rooted
<1>3. Planted(e) /\ DocumentIds(e) \subseteq IdsBut(d, p) \cup IdsOf(Tree(e, p))
  BY <1>1, <1>2, PlaceChanged
<1>4. IdsOf(Tree(e, p)) \subseteq IdsOf(tree)
  BY <1>1 DEF IdsOf
<1> QED
  BY <1>3, <1>4 DEF e

(* A definition exchanged for another, or added.                             *)
LEMMA DefineApart ==
  ASSUME NEW d, DocForm(d), NEW c \in Component, NEW def
  PROVE  LET e == [d EXCEPT !.defs[c] = def]
         IN  /\ Apart(d, e, c)
             /\ c \in Places(e) <=> def # NoDefinition
             /\ def # NoDefinition => Tree(e, c) = def.tree /\ e.defs[c] = def
             /\ def = NoDefinition => Tree(e, c) = {}
<1> DEFINE e == [d EXCEPT !.defs[c] = def]
<1>1. e.page = d.page /\ e.defs = [d.defs EXCEPT ![c] = def]
  BY DEF DocForm
<1>2. e.defs[c] = def /\ \A q \in Component \ {c} : e.defs[q] = d.defs[q]
  BY <1>1 DEF DocForm
<1>3. c \notin Page
  BY ComponentAssumption
<1> HIDE DEF e
<1>4. \A q \in Defined(e) \ {c} : q \in Component /\ q \in Defined(d) /\ e.defs[q] = d.defs[q]
  BY <1>2 DEF Defined
<1>5. \A q \in Places(e) \ {c} : /\ q \in Places(d) /\ Tree(e, q) = Tree(d, q)
                                 /\ q \notin Page => e.defs[q].root = d.defs[q].root
  BY <1>1, <1>4 DEF Places, Tree
<1>6. c \in Defined(e) <=> def # NoDefinition
  BY <1>2 DEF Defined
<1>7. Tree(e, c) = IF c \in Defined(e) THEN def.tree ELSE {}
  BY <1>2, <1>3 DEF Tree
<1>8. c \in Places(e) <=> c \in Defined(e)
  BY <1>3 DEF Places
<1> QED
  BY <1>2, <1>5, <1>6, <1>7, <1>8 DEF Apart, e

LEMMA DefinePlants ==
  ASSUME NEW d, DocForm(d), Planted(d), NEW c \in Component, NEW def,
         def # NoDefinition => Subtree(def.tree, def.root, 0) /\ IdsOf(def.tree) \cap IdsBut(d, c) = {}
  PROVE  LET e == [d EXCEPT !.defs[c] = def]
         IN  /\ Planted(e)
             /\ DocumentIds(e) \subseteq IdsBut(d, c) \cup (IF def = NoDefinition THEN {} ELSE IdsOf(def.tree))
<1> DEFINE e == [d EXCEPT !.defs[c] = def]
<1>1. /\ Apart(d, e, c)
      /\ c \in Places(e) <=> def # NoDefinition
      /\ def # NoDefinition => Tree(e, c) = def.tree /\ e.defs[c] = def
      /\ def = NoDefinition => Tree(e, c) = {}
  BY DefineApart
<1> HIDE DEF e
<1>2. c \notin Page
  BY ComponentAssumption
<1>3. c \in Places(e) => Rooted(e, c, Tree(e, c)) /\ IdsOf(Tree(e, c)) \cap IdsBut(d, c) = {}
  BY <1>1, <1>2 DEF Rooted
<1>4. Planted(e) /\ DocumentIds(e) \subseteq IdsBut(d, c) \cup IdsOf(Tree(e, c))
  BY <1>1, <1>3, PlaceChanged
<1>5. IdsOf({}) = {}
  BY DEF IdsOf
<1> QED
  BY <1>1, <1>4, <1>5 DEF e

-----------------------------------------------------------------------------
(* The ids that commands bring into a document and free in it.               *)

(* The new ids a map of old to new ones gives.                               *)
Renewed(fresh) == {fresh[x] : x \in {y \in Id : fresh[y] # y}}

Brings(c) ==
    CASE c.type = "node.create" -> IdsOf(c.nodes)
      [] c.type = "component.create" -> IdsOf(c.definition.tree)
      [] c.type = "component.extract" -> {c.root, c.instance} \cup Renewed(c.fresh)
      [] c.type = "component.duplicate" -> Renewed(c.fresh)
      [] c.type = "component-instance.insert" -> {c.instance}
      [] c.type = "component-instance.detach" -> {c.fresh[i] : i \in DOMAIN c.fresh}
      [] OTHER -> {}

(* A deletion frees what is below the node too, but that depends on the      *)
(* document it finds.                                                        *)
Frees(c) == IF c.type = "node.delete" THEN {c.id} ELSE {}

(* What a command brings is a tree.                                          *)
Payload(c) ==
    /\ c.type = "node.create" => Subtree(c.nodes, c.id, c.under)
    /\ c.type = "component.create" => Subtree(c.definition.tree, c.definition.root, 0)

(* The command that brings x back after it was freed by its own id.          *)
Recreates(c, x) == c.type = "node.create" /\ c.id = x

(* From the k-th command on x is brought before it is freed: it must not be  *)
(* in the document then.                                                     *)
Needs(cmds, k, x) ==
    \E m \in k .. Len(cmds) : x \in Brings(cmds[m]) /\ \A j \in k .. m - 1 : x \notin Frees(cmds[j])

Freed(cmds, x) == \E j \in 1 .. Len(cmds) : x \in Frees(cmds[j])

Own(cmds, k, x) == \A m \in k .. Len(cmds) : x \in Brings(cmds[m]) => Recreates(cmds[m], x)

(* No id is brought twice without being freed in between, and one that was   *)
(* freed comes back by its own command.                                      *)
Tidy(cmds) ==
    \A m \in 1 .. Len(cmds) : \A k \in 1 .. m - 1 :
        /\ \A x \in Brings(cmds[k]) \cap Brings(cmds[m]) : \E j \in k + 1 .. m - 1 : x \in Frees(cmds[j])
        /\ \A x \in Frees(cmds[k]) \cap Brings(cmds[m]) : Recreates(cmds[m], x)

Loaded(cmds) == IsSeq(cmds) /\ (\A k \in 1 .. Len(cmds) : Payload(cmds[k])) /\ Tidy(cmds)

LEMMA LenNat == \A s : IsSeq(s) => Len(s) \in Nat
BY DEF IsSeq

LEMMA JoinAt ==
  ASSUME NEW s, NEW t, IsSeq(s), IsSeq(t)
  PROVE  /\ Len(s \o t) = Len(s) + Len(t) /\ Len(s) \in Nat /\ Len(t) \in Nat
         /\ \A i \in 1 .. Len(s) : (s \o t)[i] = s[i]
         /\ \A i \in 1 .. Len(t) : (s \o t)[Len(s) + i] = t[i]
<1> DEFINE U == Range(s) \cup Range(t)
<1>1. s \in Seq(U) /\ t \in Seq(U)
  <2>1. s \in Seq(Range(s)) /\ t \in Seq(Range(t))
    BY DEF IsSeq
  <2> HIDE DEF U
  <2>2. Range(s) \subseteq U /\ Range(t) \subseteq U
    BY DEF U
  <2> QED
    BY <2>1, <2>2, SeqMonotonic
<1> HIDE DEF U
<1> QED
  BY <1>1

LEMMA JoinNeeds ==
  ASSUME NEW s, NEW t, IsSeq(s), IsSeq(t), NEW x, Needs(s \o t, 1, x)
  PROVE  Needs(s, 1, x) \/ (Needs(t, 1, x) /\ ~Freed(s, x))
<1> DEFINE st == s \o t
           a == Len(s)
<1>0. /\ Len(st) = a + Len(t) /\ a \in Nat /\ Len(t) \in Nat
      /\ \A i \in 1 .. a : st[i] = s[i]
      /\ \A i \in 1 .. Len(t) : st[a + i] = t[i]
  BY JoinAt
<1>1. PICK m \in 1 .. Len(st) : x \in Brings(st[m]) /\ \A j \in 1 .. m - 1 : x \notin Frees(st[j])
  BY DEF Needs
<1> HIDE DEF st, a
<1>2. CASE m \in 1 .. a
  <2>1. \A j \in 1 .. m - 1 : j \in 1 .. a
    BY <1>0, <1>2
  <2>2. x \in Brings(s[m]) /\ \A j \in 1 .. m - 1 : x \notin Frees(s[j])
    BY <1>0, <1>1, <1>2, <2>1
  <2> QED
    BY <1>2, <2>2 DEF Needs, a
<1>3. CASE m \notin 1 .. a
  <2>1. PICK i \in 1 .. Len(t) : m = a + i
    <3>1. m - a \in 1 .. Len(t) /\ m = a + (m - a)
      BY <1>0, <1>3
    <3> QED
      BY <3>1
  <2>2. x \in Brings(t[i])
    BY <1>0, <1>1, <2>1
  <2>3. \A j \in 1 .. i - 1 : x \notin Frees(t[j])
    <3> TAKE j \in 1 .. i - 1
    <3>1. a + j \in 1 .. m - 1 /\ j \in 1 .. Len(t)
      BY <1>0, <2>1
    <3> QED
      BY <1>0, <1>1, <3>1
  <2>4. \A j \in 1 .. a : x \notin Frees(s[j])
    <3> TAKE j \in 1 .. a
    <3>1. j \in 1 .. m - 1
      BY <1>0, <2>1
    <3> QED
      BY <1>0, <1>1, <3>1
  <2> QED
    BY <2>2, <2>3, <2>4 DEF Needs, Freed, a
<1> QED
  BY <1>2, <1>3

LEMMA JoinOwn ==
  ASSUME NEW s, NEW t, IsSeq(s), IsSeq(t), NEW x, Own(s, 1, x), Own(t, 1, x)
  PROVE  Own(s \o t, 1, x)
<1> DEFINE st == s \o t
           a == Len(s)
<1>0. /\ Len(st) = a + Len(t) /\ a \in Nat /\ Len(t) \in Nat
      /\ \A i \in 1 .. a : st[i] = s[i]
      /\ \A i \in 1 .. Len(t) : st[a + i] = t[i]
  BY JoinAt
<1> HIDE DEF st
<1>1. ASSUME NEW m \in 1 .. Len(st), x \in Brings(st[m])
      PROVE  Recreates(st[m], x)
  <2>1. CASE m \in 1 .. a
    BY <1>0, <1>1, <2>1 DEF Own
  <2>2. CASE m \notin 1 .. a
    <3>1. m - a \in 1 .. Len(t) /\ m = a + (m - a)
      BY <1>0, <2>2
    <3>2. st[m] = t[m - a]
      BY <1>0, <3>1
    <3> QED
      BY <1>1, <3>1, <3>2 DEF Own
  <2> QED
    BY <2>1, <2>2
<1> QED
  BY <1>1 DEF Own, st

LEMMA JoinTidy ==
  ASSUME NEW s, NEW t, IsSeq(s), IsSeq(t), Tidy(s), Tidy(t),
         \A k \in 1 .. Len(s) : \A m \in 1 .. Len(t) :
             /\ \A x \in Brings(s[k]) \cap Brings(t[m]) : \E j \in 1 .. m - 1 : x \in Frees(t[j])
             /\ \A x \in Frees(s[k]) \cap Brings(t[m]) : Recreates(t[m], x)
  PROVE  Tidy(s \o t)
<1> DEFINE st == s \o t
           a == Len(s)
           b == Len(t)
           Fine(k, m) ==
             /\ \A x \in Brings(st[k]) \cap Brings(st[m]) : \E j \in k + 1 .. m - 1 : x \in Frees(st[j])
             /\ \A x \in Frees(st[k]) \cap Brings(st[m]) : Recreates(st[m], x)
<1>0. /\ Len(st) = a + b /\ a \in Nat /\ b \in Nat
      /\ \A i \in 1 .. a : st[i] = s[i]
      /\ \A i \in 1 .. b : st[a + i] = t[i]
  BY JoinAt
<1> HIDE DEF st, a, b
<1>1. ASSUME NEW m \in 1 .. a, NEW k \in 1 .. m - 1
      PROVE  Fine(k, m)
  <2>1. k \in 1 .. a /\ \A j \in k + 1 .. m - 1 : j \in 1 .. a
    BY <1>0, <1>1
  <2>2. /\ \A x \in Brings(s[k]) \cap Brings(s[m]) : \E j \in k + 1 .. m - 1 : x \in Frees(s[j])
        /\ \A x \in Frees(s[k]) \cap Brings(s[m]) : Recreates(s[m], x)
    BY <1>1 DEF Tidy, a
  <2>3. st[k] = s[k] /\ st[m] = s[m] /\ \A j \in k + 1 .. m - 1 : st[j] = s[j]
    BY <1>0, <2>1
  <2> QED
    BY <2>2, <2>3
<1>2. ASSUME NEW m \in 1 .. b, NEW k \in 1 .. a
      PROVE  Fine(k, a + m)
  <2>1. st[k] = s[k] /\ st[a + m] = t[m]
    BY <1>0
  <2>2. /\ \A x \in Brings(s[k]) \cap Brings(t[m]) : \E j \in 1 .. m - 1 : x \in Frees(t[j])
        /\ \A x \in Frees(s[k]) \cap Brings(t[m]) : Recreates(t[m], x)
    BY DEF a, b
  <2>3. \A j \in 1 .. m - 1 : a + j \in k + 1 .. (a + m) - 1 /\ st[a + j] = t[j]
    BY <1>0
  <2> QED
    BY <2>1, <2>2, <2>3
<1>3. ASSUME NEW m \in 1 .. b, NEW k \in 1 .. m - 1
      PROVE  Fine(a + k, a + m)
  <2>1. st[a + k] = t[k] /\ st[a + m] = t[m]
    BY <1>0
  <2>2. /\ \A x \in Brings(t[k]) \cap Brings(t[m]) : \E j \in k + 1 .. m - 1 : x \in Frees(t[j])
        /\ \A x \in Frees(t[k]) \cap Brings(t[m]) : Recreates(t[m], x)
    BY DEF Tidy, b
  <2>3. \A j \in k + 1 .. m - 1 : a + j \in (a + k) + 1 .. (a + m) - 1 /\ st[a + j] = t[j]
    <3> TAKE j \in k + 1 .. m - 1
    <3>1. j \in 1 .. b /\ a + j \in (a + k) + 1 .. (a + m) - 1
      BY <1>0
    <3> QED
      BY <1>0, <3>1
  <2>4. ASSUME NEW x, x \in Brings(t[k]) \cap Brings(t[m])
        PROVE  \E j \in (a + k) + 1 .. (a + m) - 1 : x \in Frees(st[j])
    <3>1. PICK j \in k + 1 .. m - 1 : x \in Frees(t[j])
      BY <2>2, <2>4
    <3>2. a + j \in (a + k) + 1 .. (a + m) - 1 /\ st[a + j] = t[j]
      BY <2>3
    <3> QED
      BY <3>1, <3>2
  <2> QED
    BY <2>1, <2>2, <2>4
<1> HIDE DEF Fine
<1>4. ASSUME NEW m \in 1 .. Len(st), NEW k \in 1 .. m - 1
      PROVE  Fine(k, m)
  <2>1. CASE m \in 1 .. a
    BY <1>1, <2>1
  <2>2. CASE m \notin 1 .. a /\ k \in 1 .. a
    <3>1. m - a \in 1 .. b /\ a + (m - a) = m
      BY <1>0, <2>2
    <3>2. Fine(k, a + (m - a))
      BY <1>2, <2>2, <3>1
    <3> QED
      BY <3>1, <3>2
  <2>3. CASE m \notin 1 .. a /\ k \notin 1 .. a
    <3>1. m - a \in 1 .. b /\ a + (m - a) = m /\ k - a \in 1 .. (m - a) - 1 /\ a + (k - a) = k
      BY <1>0, <2>3
    <3>2. Fine(a + (k - a), a + (m - a))
      BY <1>3, <3>1
    <3> QED
      BY <3>1, <3>2
  <2> QED
    BY <2>1, <2>2, <2>3
<1> QED
  BY <1>4 DEF Tidy, Fine, st

(* What is brought but not needed was freed before, so its own command       *)
(* brings it.                                                                *)
LEMMA NotNeeded ==
  ASSUME NEW t, IsSeq(t), Tidy(t), NEW x, ~Needs(t, 1, x), NEW m \in 1 .. Len(t), x \in Brings(t[m])
  PROVE  Recreates(t[m], x) /\ \E j \in 1 .. m - 1 : x \in Frees(t[j])
<1>1. PICK j \in 1 .. m - 1 : x \in Frees(t[j])
  BY DEF Needs
<1> QED
  BY <1>1 DEF Tidy

(* One command further.                                                      *)
LEMMA NeedsNext ==
  ASSUME NEW cmds, IsSeq(cmds), NEW k \in 1 .. Len(cmds), NEW x
  PROVE  /\ x \in Brings(cmds[k]) => Needs(cmds, k, x)
         /\ Needs(cmds, k + 1, x) /\ x \notin Frees(cmds[k]) => Needs(cmds, k, x)
         /\ Own(cmds, k, x) => Own(cmds, k + 1, x) /\ (x \in Brings(cmds[k]) => Recreates(cmds[k], x))
         /\ Needs(cmds, k + 1, x) /\ Tidy(cmds) => x \notin Brings(cmds[k])
         /\ x \in Frees(cmds[k]) /\ Tidy(cmds) => Own(cmds, k + 1, x)
<1>0. Len(cmds) \in Nat
  BY LenNat
<1>1. x \in Brings(cmds[k]) => Needs(cmds, k, x)
  <2>1. k \in k .. Len(cmds) /\ \A j \in k .. k - 1 : FALSE
    BY <1>0
  <2> QED
    BY <2>1 DEF Needs
<1>2. ASSUME Needs(cmds, k + 1, x), x \notin Frees(cmds[k])
      PROVE  Needs(cmds, k, x)
  <2>1. PICK m \in k + 1 .. Len(cmds) :
          x \in Brings(cmds[m]) /\ \A j \in k + 1 .. m - 1 : x \notin Frees(cmds[j])
    BY <1>2 DEF Needs
  <2>2. m \in k .. Len(cmds) /\ \A j \in k .. m - 1 : j = k \/ j \in k + 1 .. m - 1
    BY <1>0
  <2> QED
    BY <1>2, <2>1, <2>2 DEF Needs
<1>3. ASSUME Own(cmds, k, x)
      PROVE  Own(cmds, k + 1, x) /\ (x \in Brings(cmds[k]) => Recreates(cmds[k], x))
  <2>1. k \in k .. Len(cmds) /\ \A m \in k + 1 .. Len(cmds) : m \in k .. Len(cmds)
    BY <1>0
  <2> QED
    BY <1>3, <2>1 DEF Own
<1>4. ASSUME Needs(cmds, k + 1, x), Tidy(cmds), x \in Brings(cmds[k])
      PROVE  FALSE
  <2>1. PICK m \in k + 1 .. Len(cmds) :
          x \in Brings(cmds[m]) /\ \A j \in k + 1 .. m - 1 : x \notin Frees(cmds[j])
    BY <1>4 DEF Needs
  <2>2. m \in 1 .. Len(cmds) /\ k \in 1 .. m - 1
    BY <1>0
  <2> QED
    BY <1>4, <2>1, <2>2 DEF Tidy
<1>5. ASSUME x \in Frees(cmds[k]), Tidy(cmds)
      PROVE  Own(cmds, k + 1, x)
  <2>1. \A m \in k + 1 .. Len(cmds) : m \in 1 .. Len(cmds) /\ k \in 1 .. m - 1
    BY <1>0
  <2> QED
    BY <1>5, <2>1 DEF Own, Tidy
<1> QED
  BY <1>1, <1>2, <1>3, <1>4, <1>5

-----------------------------------------------------------------------------
(* A batch.                                                                  *)

(* What a command does that leads from d to e and is undone by i.            *)
Answers(d, c, e, i) ==
    /\ Planted(e)
    /\ DocumentIds(e) \subseteq DocumentIds(d) \cup Brings(c)
    /\ Frees(c) \subseteq DocumentIds(d) \ DocumentIds(e)
    /\ Loaded(i)
    /\ \A k \in 1 .. Len(i) : Brings(i[k]) \subseteq DocumentIds(d)
    /\ \A x : Needs(i, 1, x) => x \notin DocumentIds(e)
    /\ \A x : Freed(i, x) => x \in Brings(c) \cup DocumentIds(d)
    /\ c.type = "node.create" => Freed(i, c.id)
    /\ \A x \in Frees(c) : Own(i, 1, x)

(* An inverse of one command.                                                *)
LEMMA AnswersOne ==
  ASSUME NEW d, NEW c, NEW e, NEW b,
         Planted(e), DocumentIds(e) \subseteq DocumentIds(d) \cup Brings(c),
         Frees(c) \subseteq DocumentIds(d) \ DocumentIds(e),
         Payload(b), Brings(b) \subseteq DocumentIds(d) \ DocumentIds(e),
         Frees(b) \subseteq Brings(c) \cup DocumentIds(d),
         c.type = "node.create" => c.id \in Frees(b),
         \A x \in Frees(c) \cap Brings(b) : Recreates(b, x)
  PROVE  Answers(d, c, e, <<b>>)
<1> DEFINE i == <<b>>
<1>1. IsSeq(i) /\ Len(i) = 1 /\ i[1] = b
  BY Single
<1> HIDE DEF i
<1>2. Tidy(i)
  <2>1. \A m \in 1 .. Len(i) : \A k \in 1 .. m - 1 : FALSE
    BY <1>1
  <2> QED
    BY <2>1 DEF Tidy
<1>3. \A k \in 1 .. Len(i) : i[k] = b
  BY <1>1
<1>4. Loaded(i)
  BY <1>1, <1>2, <1>3 DEF Loaded
<1>5. \A x : Needs(i, 1, x) => x \in Brings(b)
  BY <1>3 DEF Needs
<1>6. \A x : Freed(i, x) <=> x \in Frees(b)
  BY <1>1, <1>3 DEF Freed
<1>7. \A x \in Frees(c) : Own(i, 1, x)
  BY <1>3 DEF Own
<1>8. Answers(d, c, e, i)
  BY <1>3, <1>4, <1>5, <1>6, <1>7 DEF Answers
<1> QED
  BY <1>8 DEF i

(* After the first k commands, in a document a batch of them has led to with *)
(* the inverse I: what is still needed, by the commands left and by the      *)
(* inverse, is not in the document, and what both need comes back by its own *)
(* command.  All of it is of W.                                              *)
Midway(D, I, cmds, k, W) ==
    /\ Planted(D) /\ Loaded(I)
    /\ \A x : Needs(I, 1, x) => x \notin DocumentIds(D) /\ x \in W
    /\ \A x : Needs(cmds, k + 1, x) => x \notin DocumentIds(D) /\ x \in W
    /\ \A x : Needs(I, 1, x) /\ Needs(cmds, k + 1, x) => Own(I, 1, x) /\ Own(cmds, k + 1, x)
    /\ DocumentIds(D) \subseteq W

LEMMA MidwaySteps ==
  ASSUME NEW D, NEW I, NEW cmds, Loaded(cmds), NEW W, NEW k \in 1 .. Len(cmds),
         Midway(D, I, cmds, k - 1, W), NEW e, NEW i, Answers(D, cmds[k], e, i)
  PROVE  Midway(e, i \o I, cmds, k, W)
<1> DEFINE c == cmds[k]
           J == i \o I
<1>0. (k - 1) + 1 = k /\ IsSeq(cmds) /\ Tidy(cmds)
  BY DEF Loaded
<1>1. /\ Planted(D) /\ Loaded(I)
      /\ \A x : Needs(I, 1, x) => x \notin DocumentIds(D) /\ x \in W
      /\ \A x : Needs(cmds, k, x) => x \notin DocumentIds(D) /\ x \in W
      /\ \A x : Needs(I, 1, x) /\ Needs(cmds, k, x) => Own(I, 1, x) /\ Own(cmds, k, x)
      /\ DocumentIds(D) \subseteq W
  <2>1. Midway(D, I, cmds, k - 1, W)
    OBVIOUS
  <2> QED
    BY <1>0, <2>1 DEF Midway
<1>2. /\ Planted(e)
      /\ DocumentIds(e) \subseteq DocumentIds(D) \cup Brings(c)
      /\ Frees(c) \subseteq DocumentIds(D) \ DocumentIds(e)
      /\ Loaded(i)
      /\ \A m \in 1 .. Len(i) : Brings(i[m]) \subseteq DocumentIds(D)
      /\ \A x : Needs(i, 1, x) => x \notin DocumentIds(e)
      /\ \A x : Freed(i, x) => x \in Brings(c) \cup DocumentIds(D)
      /\ c.type = "node.create" => Freed(i, c.id)
      /\ \A x \in Frees(c) : Own(i, 1, x)
  BY DEF Answers
<1>3. \A x :
        /\ x \in Brings(c) => Needs(cmds, k, x)
        /\ Needs(cmds, k + 1, x) /\ x \notin Frees(c) => Needs(cmds, k, x)
        /\ Own(cmds, k, x) => Own(cmds, k + 1, x) /\ (x \in Brings(c) => Recreates(c, x))
        /\ Needs(cmds, k + 1, x) => x \notin Brings(c)
        /\ x \in Frees(c) => Own(cmds, k + 1, x)
  BY <1>0, NeedsNext
<1>4. IsSeq(i) /\ IsSeq(I) /\ Tidy(i) /\ Tidy(I)
  BY <1>1, <1>2 DEF Loaded
<1>5. \A x : Needs(J, 1, x) => Needs(i, 1, x) \/ (Needs(I, 1, x) /\ ~Freed(i, x))
  BY <1>4, JoinNeeds
<1>6. \A x : Needs(i, 1, x) => x \in DocumentIds(D)
  BY <1>2 DEF Needs
<1> HIDE DEF c, J
<1>7. \A x : Needs(J, 1, x) => x \notin DocumentIds(e) /\ x \in W
  <2> SUFFICES ASSUME NEW x, Needs(J, 1, x)
               PROVE  x \notin DocumentIds(e) /\ x \in W
    OBVIOUS
  <2>1. CASE Needs(i, 1, x)
    BY <1>1, <1>2, <1>6, <2>1
  <2>2. CASE Needs(I, 1, x) /\ ~Freed(i, x)
    <3>1. x \notin DocumentIds(D) /\ x \in W
      BY <1>1, <2>2
    <3>2. ASSUME x \in Brings(c)
          PROVE  FALSE
      <4>1. Recreates(c, x)
        BY <1>1, <1>3, <2>2, <3>2
      <4> QED
        BY <1>2, <2>2, <4>1 DEF Recreates
    <3> QED
      BY <1>2, <3>1, <3>2
  <2> QED
    BY <1>5, <2>1, <2>2
<1>8. \A x : Needs(cmds, k + 1, x) => x \notin DocumentIds(e) /\ x \in W
  <2> SUFFICES ASSUME NEW x, Needs(cmds, k + 1, x)
               PROVE  x \notin DocumentIds(e) /\ x \in W
    OBVIOUS
  <2>1. CASE x \in Frees(c)
    BY <1>1, <1>2, <2>1
  <2>2. CASE x \notin Frees(c)
    BY <1>1, <1>2, <1>3, <2>2
  <2> QED
    BY <2>1, <2>2
<1>9. \A x : ~Needs(I, 1, x) => Own(I, 1, x)
  BY <1>4, NotNeeded DEF Own
<1>10. ASSUME NEW x, Needs(J, 1, x), Needs(cmds, k + 1, x)
       PROVE  Own(J, 1, x) /\ Own(cmds, k + 1, x)
  <2>1. Own(i, 1, x) /\ Own(I, 1, x) /\ Own(cmds, k + 1, x)
    <3>1. CASE x \in Frees(c)
      <4>1. ~Needs(I, 1, x)
        BY <1>1, <1>2, <3>1
      <4> QED
        BY <1>2, <1>3, <1>9, <3>1, <4>1
    <3>2. CASE x \notin Frees(c)
      <4>1. Needs(cmds, k, x) /\ x \notin DocumentIds(D)
        BY <1>1, <1>3, <1>10, <3>2
      <4>2. Needs(I, 1, x)
        BY <1>5, <1>6, <1>10, <4>1
      <4>3. Own(i, 1, x)
        BY <1>2, <4>1 DEF Own
      <4> QED
        BY <1>1, <1>3, <4>1, <4>2, <4>3
    <3> QED
      BY <3>1, <3>2
  <2>2. Own(J, 1, x)
    BY <1>4, <2>1, JoinOwn DEF J
  <2> QED
    BY <2>1, <2>2
<1>11. Tidy(J)
  <2>1. ASSUME NEW a \in 1 .. Len(i), NEW m \in 1 .. Len(I), NEW x \in Brings(i[a]) \cap Brings(I[m])
        PROVE  \E j \in 1 .. m - 1 : x \in Frees(I[j])
    <3>1. x \in DocumentIds(D)
      BY <1>2
    <3>2. ~Needs(I, 1, x)
      BY <1>1, <3>1
    <3> QED
      BY <1>4, <3>2, NotNeeded
  <2>2. ASSUME NEW a \in 1 .. Len(i), NEW m \in 1 .. Len(I), NEW x \in Frees(i[a]) \cap Brings(I[m])
        PROVE  Recreates(I[m], x)
    <3>1. CASE ~Needs(I, 1, x)
      BY <1>4, <3>1, NotNeeded
    <3>2. CASE Needs(I, 1, x)
      <4>1. Freed(i, x)
        BY DEF Freed
      <4>2. x \in Brings(c)
        BY <1>1, <1>2, <3>2, <4>1
      <4>3. Own(I, 1, x)
        BY <1>1, <1>3, <3>2, <4>2
      <4> QED
        BY <4>3 DEF Own
    <3> QED
      BY <3>1, <3>2
  <2> QED
    BY <1>4, <2>1, <2>2, JoinTidy DEF J
<1>12. Loaded(J)
  <2>1. IsSeq(J)
    BY <1>4, SeqJoin DEF J
  <2>2. ASSUME NEW m \in 1 .. Len(J)
        PROVE  Payload(J[m])
    <3>1. /\ Len(J) = Len(i) + Len(I) /\ Len(i) \in Nat /\ Len(I) \in Nat
          /\ \A a \in 1 .. Len(i) : J[a] = i[a]
          /\ \A a \in 1 .. Len(I) : J[Len(i) + a] = I[a]
      BY <1>4, JoinAt DEF J
    <3>2. CASE m \in 1 .. Len(i)
      BY <1>2, <3>1, <3>2 DEF Loaded
    <3>3. CASE m \notin 1 .. Len(i)
      <4>1. m - Len(i) \in 1 .. Len(I) /\ m = Len(i) + (m - Len(i))
        BY <3>1, <3>3
      <4>2. J[m] = I[m - Len(i)]
        BY <3>1, <4>1
      <4> QED
        BY <1>1, <4>1, <4>2 DEF Loaded
    <3> QED
      BY <3>2, <3>3
  <2> QED
    BY <1>11, <2>1, <2>2 DEF Loaded
<1>13. DocumentIds(e) \subseteq W
  BY <1>1, <1>2, <1>3
<1> QED
  BY <1>2, <1>7, <1>8, <1>10, <1>12, <1>13 DEF Midway, J

(* A batch from d to e, undone by I: whatever it needed and d held, it now   *)
(* holds or its inverse needs.                                               *)
Carries(d, cmds, e, I) ==
    /\ Planted(e) /\ Loaded(I)
    /\ \A x : Needs(I, 1, x) => x \notin DocumentIds(e)
    /\ \A x : x \in DocumentIds(e) \/ Needs(I, 1, x) => x \in DocumentIds(d) \/ Needs(cmds, 1, x)

(* G: the steps before which what the commands do is known.                  *)
LEMMA BatchIds ==
  ASSUME NEW d, DocForm(d), Planted(d), NEW cmds, Loaded(cmds),
         \A c \in Range(cmds) : CommandForm(c),
         \A x : Needs(cmds, 1, x) => x \notin DocumentIds(d),
         NEW acc, Batches(d, cmds, acc), NEW G, 0 \in G,
         \A k \in 1 .. Len(cmds) :
            /\ k - 1 \in G /\ acc[k - 1].ok /\ DocForm(acc[k - 1].doc) /\ Planted(acc[k - 1].doc)
            /\ Accepts(acc[k - 1].doc, cmds[k]) /\ Payload(cmds[k])
            /\ Brings(cmds[k]) \cap DocumentIds(acc[k - 1].doc) = {}
            => /\ k \in G
               /\ Answers(acc[k - 1].doc, cmds[k], After(acc[k - 1].doc, cmds[k]),
                          InverseOf(acc[k - 1].doc, cmds[k])),
         Folded(d, cmds).ok
  PROVE  Carries(d, cmds, Folded(d, cmds).doc, Folded(d, cmds).inverse)
<1> DEFINE N == Len(cmds)
           W == DocumentIds(d) \cup {x \in UNION {Brings(c) : c \in Range(cmds)} : Needs(cmds, 1, x)}
           S == {k \in 0 .. N :
                   /\ RunForm(acc[k])
                   /\ acc[k].ok => /\ k \in G /\ Reached({}, d, cmds, acc[k])
                                   /\ Midway(acc[k].doc, acc[k].inverse, cmds, k, W)}
<1>1. IsSeq(cmds) /\ Tidy(cmds) /\ N \in Nat /\ \A k \in 1 .. N : cmds[k] \in Range(cmds)
  BY DEF Loaded, IsSeq, Range
<1>2. \A x : Needs(cmds, 1, x) => x \in W
  <2>1. \A x : Needs(cmds, 1, x) => x \in UNION {Brings(c) : c \in Range(cmds)}
    BY <1>1 DEF Needs
  <2> QED
    BY <2>1
<1>3. \A x \in W : x \in DocumentIds(d) \/ Needs(cmds, 1, x)
  OBVIOUS
<1>4. DocumentIds(d) \subseteq W
  OBVIOUS
<1> HIDE DEF W
<1>5. 0 \in S
  <2> DEFINE start == [ok |-> TRUE, doc |-> d, inverse |-> <<>>, touched |-> {}]
  <2>1. acc[0] = start
    BY DEF Batches
  <2>2. RunForm(start)
    BY DEF RunForm
  <2>3. IsSeq(<<>>) /\ Range(<<>>) = {} /\ Len(<<>>) = 0
    BY DEF IsSeq, Range
  <2>4. start.doc = d /\ start.inverse = <<>> /\ start.touched = {}
    OBVIOUS
  <2> HIDE DEF start
  <2>5. Reached({}, d, cmds, start)
    BY <2>3, <2>4 DEF Reached, AllKept, AllAllowed, Borns, NoBirths, NoDeletes
  <2>6. Loaded(<<>>) /\ \A x : ~Needs(<<>>, 1, x)
    BY <2>3 DEF Loaded, Tidy, Needs
  <2>7. Midway(d, <<>>, cmds, 0, W)
    <3>1. 0 + 1 = 1
      OBVIOUS
    <3> QED
      BY <1>2, <1>4, <2>6, <3>1 DEF Midway
  <2> QED
    BY <1>1, <2>1, <2>2, <2>4, <2>5, <2>7
<1>6. \A k \in 1 .. N : k - 1 \in S => k \in S
  <2> TAKE k \in 1 .. N
  <2> HAVE k - 1 \in S
  <2> DEFINE a == acc[k - 1]
             c == cmds[k]
  <2>1. acc[k] = Fold(a, c)
    BY DEF Batches
  <2>2. RunForm(a) /\ (a.ok => /\ k - 1 \in G /\ Reached({}, d, cmds, a)
                               /\ Midway(a.doc, a.inverse, cmds, k - 1, W))
    OBVIOUS
  <2>3. RunForm(acc[k]) /\ (acc[k].ok => Reached({}, d, cmds, acc[k]))
    BY <1>1, <2>1, <2>2, FoldSteps
  <2>4. ASSUME acc[k].ok
        PROVE  k \in G /\ Midway(acc[k].doc, acc[k].inverse, cmds, k, W)
    <3> DEFINE e == After(a.doc, c)
               i == InverseOf(a.doc, c)
    <3>1. a.ok /\ Accepts(a.doc, c)
      <4>1. ~[a EXCEPT !.ok = FALSE].ok
        <5>1. \A v : [a EXCEPT !.ok = v]
                       = [ok |-> v, doc |-> a.doc, inverse |-> a.inverse, touched |-> a.touched]
          BY <2>2 DEF RunForm
        <5>2. [a EXCEPT !.ok = FALSE]
                = [ok |-> FALSE, doc |-> a.doc, inverse |-> a.inverse, touched |-> a.touched]
          BY <5>1, Zenon
        <5> QED
          BY <5>2
      <4> QED
        BY <2>1, <2>4, <4>1 DEF Fold
    <3>2. acc[k].doc = e /\ acc[k].inverse = i \o a.inverse
      <4> DEFINE b == [ok |-> TRUE, doc |-> e, inverse |-> i \o a.inverse,
                       touched |-> a.touched \cup Touches(a.doc, c)]
      <4>1. acc[k] = b
        BY <2>1, <3>1 DEF Fold
      <4>2. b.doc = e /\ b.inverse = i \o a.inverse
        <5> HIDE DEF e, i
        <5> QED
          OBVIOUS
      <4> QED
        BY <4>1, <4>2
    <3> HIDE DEF e, i
    <3>3. DocForm(a.doc) /\ Planted(a.doc) /\ Payload(c)
      BY <2>2, <3>1 DEF Reached, Midway, Loaded
    <3>4. Brings(c) \cap DocumentIds(a.doc) = {}
      <4>1. (k - 1) + 1 = k
        OBVIOUS
      <4>2. \A x : Needs(cmds, k, x) => x \notin DocumentIds(a.doc)
        <5>1. Midway(a.doc, a.inverse, cmds, k - 1, W)
          BY <2>2, <3>1
        <5> QED
          BY <4>1, <5>1 DEF Midway
      <4>3. \A x : x \in Brings(c) => Needs(cmds, k, x)
        BY <1>1, NeedsNext
      <4> QED
        BY <4>2, <4>3
    <3>5. k \in G /\ Answers(a.doc, c, e, i)
      BY <2>2, <3>1, <3>3, <3>4 DEF e, i
    <3>6. Midway(e, i \o a.inverse, cmds, k, W)
      BY <2>2, <3>1, <3>5, MidwaySteps
    <3> QED
      BY <3>2, <3>5, <3>6
  <2> QED
    BY <1>1, <2>3, <2>4
<1>7. N \in S
  <2> HIDE DEF S
  <2>1. 0 .. N \subseteq S
    BY <1>1, <1>5, <1>6, Induction, Zenon
  <2> QED
    BY <1>1, <2>1
<1>8. Folded(d, cmds) = acc[N]
  BY DEF Batches
<1>9. Midway(acc[N].doc, acc[N].inverse, cmds, N, W)
  BY <1>7, <1>8
<1> QED
  BY <1>3, <1>8, <1>9 DEF Midway, Carries

-----------------------------------------------------------------------------
(* The commands that bring and free no node.                                 *)

EditTypes ==
    {"node.update", "component.rename", "component.add-property", "component.update-property",
     "component.remove-property", "component-instance.set-override",
     "component-instance.reset-override", "component-instance.reset-all-overrides"}

LEMMA EditAnswers ==
  ASSUME NEW d, NEW c, c.type \in EditTypes, NEW e, Planted(e), DocumentIds(e) \subseteq DocumentIds(d),
         NEW b, b.type \in EditTypes
  PROVE  Answers(d, c, e, <<b>>)
<1>1. Brings(c) = {} /\ Frees(c) = {} /\ c.type # "node.create"
  BY DEF EditTypes, Brings, Frees
<1>2. Brings(b) = {} /\ Frees(b) = {} /\ Payload(b)
  BY DEF EditTypes, Brings, Frees, Payload
<1> QED
  BY <1>1, <1>2, AnswersOne

(* A node that is rewritten.                                                 *)
LEMMA RewritePlants ==
  ASSUME NEW d, DocForm(d), Planted(d), NEW p, NEW id, Holds(d, p, id),
         NEW n, NodeForm(n), n.id = id, n.under = The(d, p, id).under, n.of = The(d, p, id).of
  PROVE  Planted(Rewrite(d, p, id, n)) /\ DocumentIds(Rewrite(d, p, id, n)) \subseteq DocumentIds(d)
<1> DEFINE m == The(d, p, id)
           tree == (Tree(d, p) \ {m}) \cup {n}
<1>1. m \in Tree(d, p) /\ m.id = id /\ TreeForm(Tree(d, p)) /\ p \in Places(d)
  BY TheIn, TreesForm, IdsAre
<1>2. Rooted(d, p, Tree(d, p)) /\ Grown(Tree(d, p), 0)
  BY <1>1, RootedGrown DEF Planted
<1>3. IsFiniteSet(tree)
  BY <1>1, FS_RemoveElement, FS_AddElement DEF TreeForm
<1>4. TreeForm(tree)
  BY <1>1, <1>3 DEF TreeForm
<1>5. /\ Grown(tree, 0) /\ IdsOf(tree) = IdsOf(Tree(d, p))
      /\ \A top, u : Subtree(Tree(d, p), top, u) => Subtree(tree, top, u)
  BY <1>1, <1>2, SwapGrown
<1> HIDE DEF tree
<1>6. Rooted(d, p, tree)
  BY <1>2, <1>5 DEF Rooted
<1>7. DocumentIds(d) = IdsBut(d, p) \cup IdsOf(tree) /\ IdsOf(tree) \cap IdsBut(d, p) = {}
  BY <1>1, <1>5, IdsApart
<1>8. Rewrite(d, p, id, n) = Plant(d, p, tree)
  BY DEF Rewrite, tree
<1> QED
  BY <1>1, <1>4, <1>6, <1>7, <1>8, PlantPlants

LEMMA PatchSame ==
  ASSUME NEW n, NodeForm(n), NEW v
  PROVE  /\ [n EXCEPT !.over = v].id = n.id /\ [n EXCEPT !.over = v].under = n.under
         /\ [n EXCEPT !.locked = v].id = n.id /\ [n EXCEPT !.locked = v].under = n.under
BY DEF NodeForm

LEMMA UpdateAnswers ==
  ASSUME NEW d, DocForm(d), Planted(d), NEW c, CommandForm(c), c.type = "node.update", Accepts(d, c)
  PROVE  Answers(d, c, After(d, c), InverseOf(d, c))
<1> DEFINE n == The(d, c.place, c.id)
           m == IF c.key = "locked" THEN [n EXCEPT !.locked = c.to] ELSE [n EXCEPT !.over = c.to]
           b == [c EXCEPT !.to = IF c.key = "locked" THEN n.locked ELSE n.over]
<1>1. /\ c = [type |-> "node.update", place |-> c.place, id |-> c.id, key |-> c.key, to |-> c.to]
      /\ c.key # "locked" => c.to = [q \in Property |-> c.to[q]]
  BY DEF CommandForm, KeptForm, FirstForm
<1>2. Holds(d, c.place, c.id)
  BY DEF Accepts, UpdateAccepts
<1>3. NodeForm(n) /\ n.id = c.id
  BY <1>2, TheIn, TreesForm DEF TreeForm
<1>4. After(d, c) = Rewrite(d, c.place, c.id, m) /\ InverseOf(d, c) = <<b>>
  BY DEF After, Updated, InverseOf, UpdateInverse
<1> HIDE DEF n
<1>5. NodeForm(m) /\ m.of = n.of /\ m.id = n.id /\ m.under = n.under
  BY <1>1, <1>3, OverForm, LockForm, PatchSame
<1>6. b.type = c.type
  BY <1>1
<1> HIDE DEF m, b
<1>7. Planted(After(d, c)) /\ DocumentIds(After(d, c)) \subseteq DocumentIds(d)
  BY <1>2, <1>3, <1>4, <1>5, RewritePlants DEF n
<1>8. c.type \in EditTypes
  BY DEF EditTypes
<1> QED
  BY <1>4, <1>6, <1>7, <1>8, EditAnswers

LEMMA OverridesPlant ==
  ASSUME NEW d, DocForm(d), Planted(d), NEW c, Holds(d, c.place, c.id),
         NEW over, over = [q \in Property |-> over[q]]
  PROVE  /\ Planted(WithOverrides(d, c, over))
         /\ DocumentIds(WithOverrides(d, c, over)) \subseteq DocumentIds(d)
<1> DEFINE n == The(d, c.place, c.id)
           m == [n EXCEPT !.over = over]
<1>1. NodeForm(n) /\ n.id = c.id
  BY TheIn, TreesForm DEF TreeForm
<1>2. WithOverrides(d, c, over) = Rewrite(d, c.place, c.id, m)
  BY DEF WithOverrides
<1> HIDE DEF n
<1>3. NodeForm(m) /\ m.of = n.of /\ m.id = n.id /\ m.under = n.under
  BY <1>1, OverForm, PatchSame
<1> HIDE DEF m
<1> QED
  BY <1>1, <1>2, <1>3, RewritePlants DEF n

LEMMA OverrideAnswers ==
  ASSUME NEW d, DocForm(d), Planted(d), NEW c, CommandForm(c),
         c.type \in {"component-instance.set-override", "component-instance.reset-override"},
         Accepts(d, c)
  PROVE  Answers(d, c, After(d, c), InverseOf(d, c))
<1> DEFINE n == The(d, c.place, c.id)
           set == [n.over EXCEPT ![c.property] = c.value]
           reset == [n.over EXCEPT ![c.property] = NoValue]
           i == [type |-> "component-instance.reset-override", place |-> c.place, id |-> c.id,
                 property |-> c.property]
           j == [type |-> "component-instance.set-override", place |-> c.place, id |-> c.id,
                 property |-> c.property, value |-> n.over[c.property]]
<1>1. Holds(d, c.place, c.id)
  BY DEF Accepts, SetOverrideAccepts, ResetOverrideAccepts, MayOverride, IsInstance
<1>2. NodeForm(n)
  BY <1>1, TheIn, TreesForm DEF TreeForm
<1>3. set = [q \in Property |-> set[q]] /\ reset = [q \in Property |-> reset[q]]
  BY <1>2 DEF NodeForm
<1>4. \/ After(d, c) = WithOverrides(d, c, set)
      \/ After(d, c) = WithOverrides(d, c, reset)
  BY DEF After, OverrideSet, OverrideReset
<1> HIDE DEF set, reset
<1>5. Planted(After(d, c)) /\ DocumentIds(After(d, c)) \subseteq DocumentIds(d)
  BY <1>1, <1>3, <1>4, OverridesPlant
<1>6. InverseOf(d, c) = PriorOverride(d, c)
  BY DEF InverseOf
<1>7. PriorOverride(d, c) = <<i>> \/ PriorOverride(d, c) = <<j>>
  BY DEF PriorOverride
<1>8. c.type \in EditTypes /\ i.type \in EditTypes /\ j.type \in EditTypes
  BY DEF EditTypes
<1> HIDE DEF i, j
<1> QED
  BY <1>5, <1>6, <1>7, <1>8, EditAnswers

LEMMA ResetAllAnswers ==
  ASSUME NEW d, DocForm(d), Planted(d), NEW c, CommandForm(c),
         c.type = "component-instance.reset-all-overrides", Accepts(d, c)
  PROVE  Answers(d, c, After(d, c), InverseOf(d, c))
<1> DEFINE i == [type |-> "node.update", place |-> c.place, id |-> c.id,
                 key |-> "overrides", to |-> The(d, c.place, c.id).over]
<1>1. Holds(d, c.place, c.id)
  BY DEF Accepts, ResetAllAccepts, IsInstance
<1>2. After(d, c) = WithOverrides(d, c, NoOverrides)
  BY DEF After, AllReset
<1>3. NoOverrides = [q \in Property |-> NoOverrides[q]]
  BY DEF NoOverrides
<1>4. Planted(After(d, c)) /\ DocumentIds(After(d, c)) \subseteq DocumentIds(d)
  BY <1>1, <1>2, <1>3, OverridesPlant
<1>5. InverseOf(d, c) = <<c>> \/ InverseOf(d, c) = <<i>>
  <2>1. InverseOf(d, c) = ResetAllInverse(d, c)
    BY DEF InverseOf
  <2> QED
    BY <2>1 DEF ResetAllInverse
<1>6. c.type \in EditTypes /\ i.type \in EditTypes
  BY DEF EditTypes
<1> HIDE DEF i
<1> QED
  BY <1>4, <1>5, <1>6, EditAnswers

(* A definition that is edited: its tree and its root stay.                  *)
LEMMA EditedRoot ==
  ASSUME NEW def, SourceForm(def), NEW c, NEW v
  PROVE  Retitled(def, c, v).root = def.root /\ Rebound(def, c, v).root = def.root
<1> DEFINE rev == IF c.rev = 0 THEN def.rev + 1 ELSE c.rev
           w == [def EXCEPT !.rev = rev]
<1>1. Versioned(def, c) = w
  BY DEF Versioned
<1> HIDE DEF rev
<1>2. w = [name |-> def.name, rev |-> rev, root |-> def.root, tree |-> def.tree, props |-> def.props]
  BY DEF SourceForm
<1> HIDE DEF w
<1>3. [w EXCEPT !.name = v].root = def.root /\ [w EXCEPT !.props = v].root = def.root
  BY <1>2
<1> QED
  BY <1>1, <1>3 DEF Retitled, Rebound

LEMMA EditPlants ==
  ASSUME NEW d, DocForm(d), Planted(d), NEW x \in Defined(d), NEW def,
         def.tree = d.defs[x].tree, def.root = d.defs[x].root
  PROVE  /\ Planted([d EXCEPT !.defs[x] = def])
         /\ DocumentIds([d EXCEPT !.defs[x] = def]) \subseteq DocumentIds(d)
<1>1. x \in Component /\ x \notin Page /\ x \in Places(d) /\ Tree(d, x) = def.tree
  BY ComponentAssumption DEF Defined, Tree, Places
<1>2. Subtree(def.tree, def.root, 0)
  BY <1>1 DEF Planted, Rooted
<1>3. DocumentIds(d) = IdsBut(d, x) \cup IdsOf(def.tree) /\ IdsBut(d, x) \cap IdsOf(def.tree) = {}
  BY <1>1, IdsApart
<1>4. /\ Planted([d EXCEPT !.defs[x] = def])
      /\ DocumentIds([d EXCEPT !.defs[x] = def])
           \subseteq IdsBut(d, x) \cup (IF def = NoDefinition THEN {} ELSE IdsOf(def.tree))
  BY <1>1, <1>2, <1>3, DefinePlants
<1> QED
  BY <1>3, <1>4

LEMMA RenameAnswers ==
  ASSUME NEW d, DocForm(d), Planted(d), NEW c, CommandForm(c), c.type = "component.rename", Accepts(d, c)
  PROVE  Answers(d, c, After(d, c), InverseOf(d, c))
<1> DEFINE x == c.component
           def == Retitled(d.defs[x], c, c.to)
           k == [c EXCEPT !.to = d.defs[x].name]
           rev == d.defs[x].rev
<1>1. /\ c = [type |-> "component.rename", component |-> c.component, to |-> c.to, rev |-> c.rev]
      /\ c.rev \in Nat
  BY DEF CommandForm, KeptForm, FirstForm
<1>2. x \in Defined(d) /\ SourceForm(d.defs[x])
  BY DEF Accepts, RenameAccepts, DocForm
<1>3. def.tree = d.defs[x].tree /\ def.root = d.defs[x].root
  BY <1>1, <1>2, EditedForm, EditedRoot
<1>4. After(d, c) = [d EXCEPT !.defs[x] = def]
  BY DEF After, Renamed, Retitled
<1>5. InverseOf(d, c) = <<[c EXCEPT !.to = d.defs[x].name, !.rev = rev]>>
  BY DEF InverseOf, RenameInverse
<1>6. [c EXCEPT !.to = d.defs[x].name, !.rev = rev] = [k EXCEPT !.rev = rev]
  OBVIOUS
<1>7. k.type = c.type /\ "type" \in DOMAIN k
  BY <1>1
<1> HIDE DEF k, def, x
<1>8. [k EXCEPT !.rev = rev].type = c.type
  BY <1>7
<1>9. Planted(After(d, c)) /\ DocumentIds(After(d, c)) \subseteq DocumentIds(d)
  BY <1>2, <1>3, <1>4, EditPlants
<1>10. c.type \in EditTypes
  BY DEF EditTypes
<1> DEFINE b == [k EXCEPT !.rev = rev]
<1>11. InverseOf(d, c) = <<b>> /\ b.type \in EditTypes
  BY <1>5, <1>6, <1>8, <1>10
<1> HIDE DEF b
<1> QED
  BY <1>9, <1>10, <1>11, EditAnswers

LEMMA AddPropertyAnswers ==
  ASSUME NEW d, DocForm(d), Planted(d), NEW c, CommandForm(c), c.type = "component.add-property",
         Accepts(d, c)
  PROVE  Answers(d, c, After(d, c), InverseOf(d, c))
<1> DEFINE x == c.component
           i == [type |-> "component.remove-property", component |-> x, property |-> c.binding.id,
                 rev |-> d.defs[x].rev]
           props == InsertAt(Versioned(d.defs[x], c).props, c.at, c.binding)
           def == Rebound(d.defs[x], c, props)
<1>1. c.rev \in Nat
  BY DEF CommandForm, KeptForm, FirstForm
<1>2. x \in Defined(d) /\ SourceForm(d.defs[x])
  BY DEF Accepts, AddPropertyAccepts, DocForm
<1>3. After(d, c) = [d EXCEPT !.defs[x] = def]
  <2>1. After(d, c) = PropertyAdded(d, c)
    BY DEF After
  <2>2. PropertyAdded(d, c) = [d EXCEPT !.defs[x] = def]
    BY DEF PropertyAdded, Rebound
  <2> QED
    BY <2>1, <2>2
<1> HIDE DEF props
<1>4. def.tree = d.defs[x].tree /\ def.root = d.defs[x].root
  BY <1>1, <1>2, EditedForm, EditedRoot
<1>5. InverseOf(d, c) = <<i>>
  BY SMTT(30) DEF InverseOf, AddPropertyInverse
<1>6. c.type \in EditTypes /\ i.type \in EditTypes
  BY DEF EditTypes
<1> HIDE DEF i, def, x
<1>7. Planted(After(d, c)) /\ DocumentIds(After(d, c)) \subseteq DocumentIds(d)
  BY <1>2, <1>3, <1>4, EditPlants
<1> QED
  BY <1>5, <1>6, <1>7, EditAnswers

LEMMA UpdatePropertyAnswers ==
  ASSUME NEW d, DocForm(d), Planted(d), NEW c, CommandForm(c), c.type = "component.update-property",
         Accepts(d, c)
  PROVE  Answers(d, c, After(d, c), InverseOf(d, c))
<1> DEFINE x == c.component
           w == Versioned(d.defs[x], c)
           props == [w.props EXCEPT ![IndexOfProperty(w, c.binding.id)] = c.binding]
           def == Rebound(d.defs[x], c, props)
           a == d.defs[x].props[IndexOfProperty(d.defs[x], c.binding.id)]
           rev == d.defs[x].rev
           k == [c EXCEPT !.binding = a]
<1>1. /\ c = [type |-> "component.update-property", component |-> c.component,
              binding |-> c.binding, rev |-> c.rev]
      /\ c.rev \in Nat
  BY DEF CommandForm, KeptForm, FirstForm
<1>2. x \in Defined(d) /\ SourceForm(d.defs[x])
  BY DEF Accepts, UpdatePropertyAccepts, DocForm
<1>3. After(d, c) = [d EXCEPT !.defs[x] = def]
  <2>1. After(d, c) = PropertyUpdated(d, c)
    BY DEF After
  <2>2. PropertyUpdated(d, c) = [d EXCEPT !.defs[x] = def]
    BY DEF PropertyUpdated, Rebound
  <2> QED
    BY <2>1, <2>2
<1> HIDE DEF props
<1>4. def.tree = d.defs[x].tree /\ def.root = d.defs[x].root
  BY <1>1, <1>2, EditedForm, EditedRoot
<1>5. InverseOf(d, c) = <<[c EXCEPT !.binding = a, !.rev = rev]>>
  <2>1. InverseOf(d, c) = UpdatePropertyInverse(d, c)
    BY DEF InverseOf
  <2> QED
    BY <2>1 DEF UpdatePropertyInverse
<1>6. [c EXCEPT !.binding = a, !.rev = rev] = [k EXCEPT !.rev = rev]
  OBVIOUS
<1> HIDE DEF a
<1>7. k.type = c.type /\ "type" \in DOMAIN k
  BY <1>1
<1> HIDE DEF k, def, x
<1>8. [k EXCEPT !.rev = rev].type = c.type
  BY <1>7
<1>9. Planted(After(d, c)) /\ DocumentIds(After(d, c)) \subseteq DocumentIds(d)
  BY <1>2, <1>3, <1>4, EditPlants
<1>10. c.type \in EditTypes
  BY DEF EditTypes
<1> DEFINE b == [k EXCEPT !.rev = rev]
<1>11. InverseOf(d, c) = <<b>> /\ b.type \in EditTypes
  BY <1>5, <1>6, <1>8, <1>10
<1> HIDE DEF b
<1> QED
  BY <1>9, <1>10, <1>11, EditAnswers

LEMMA RemovePropertyAnswers ==
  ASSUME NEW d, DocForm(d), Planted(d), NEW c, CommandForm(c), c.type = "component.remove-property",
         Accepts(d, c)
  PROVE  Answers(d, c, After(d, c), InverseOf(d, c))
<1> DEFINE x == c.component
           at == IndexOfProperty(d.defs[x], c.property)
           i == [type |-> "component.add-property", component |-> x,
                 binding |-> d.defs[x].props[at], at |-> at, rev |-> d.defs[x].rev]
           props == SelectSeq(Versioned(d.defs[x], c).props, LAMBDA b : b.id # c.property)
           def == Rebound(d.defs[x], c, props)
<1>1. c.rev \in Nat
  BY DEF CommandForm, KeptForm, FirstForm
<1>2. x \in Defined(d) /\ SourceForm(d.defs[x])
  BY DEF Accepts, RemovePropertyAccepts, DocForm
<1>3. After(d, c) = [d EXCEPT !.defs[x] = def]
  <2>1. After(d, c) = PropertyRemoved(d, c)
    BY DEF After
  <2>2. PropertyRemoved(d, c) = [d EXCEPT !.defs[x] = def]
    BY DEF PropertyRemoved, Rebound
  <2> QED
    BY <2>1, <2>2
<1> HIDE DEF props
<1>4. def.tree = d.defs[x].tree /\ def.root = d.defs[x].root
  BY <1>1, <1>2, EditedForm, EditedRoot
<1>5. InverseOf(d, c) = <<i>>
  BY SMTT(30) DEF InverseOf, RemovePropertyInverse
<1> HIDE DEF at
<1>6. c.type \in EditTypes /\ i.type \in EditTypes
  BY DEF EditTypes
<1> HIDE DEF i, def, x
<1>7. Planted(After(d, c)) /\ DocumentIds(After(d, c)) \subseteq DocumentIds(d)
  BY <1>2, <1>3, <1>4, EditPlants
<1> QED
  BY <1>5, <1>6, <1>7, EditAnswers

-----------------------------------------------------------------------------
(* The commands that bring nodes or take them.                               *)

(* New nodes in the tree of a place.                                         *)
LEMMA GraftRooted ==
  ASSUME NEW d, NEW p, NEW tree, Rooted(d, p, tree), NEW nodes, NEW u, Grown(nodes, u),
         IdsOf(tree) \cap IdsOf(nodes) = {},
         (p \in Page /\ u = 0) \/ \E m \in tree : m.id = u /\ m.of = Plain
  PROVE  Rooted(d, p, tree \cup nodes)
<1> DEFINE new == tree \cup nodes
<1>1. Grown(tree, 0) /\ 0 \notin Id
  BY RootedGrown DEF Id
<1>2. Grown(new, 0)
  BY <1>1, GraftGrown
<1>3. CASE p \in Page
  BY <1>2, <1>3 DEF Rooted
<1>4. CASE p \notin Page
  <2> DEFINE top == d.defs[p].root
  <2>1. Subtree(tree, top, 0)
    BY <1>4 DEF Rooted
  <2>2. IdsOf(new) = IdsOf(tree) \cup IdsOf(nodes) /\ (\A n \in nodes : n.id \in IdsOf(nodes))
    BY DEF IdsOf
  <2>3. u \in IdsOf(tree)
    BY <1>4 DEF IdsOf
  <2>4. \A n \in new : IF n.id = top THEN n.under = 0 ELSE n.under \in IdsOf(new)
    <3> TAKE n \in new
    <3>1. CASE n \in tree
      BY <2>1, <2>2, <3>1 DEF Subtree
    <3>2. CASE n \in nodes
      <4>1. n.id # top
        BY <2>1, <2>2, <3>2 DEF Subtree
      <4>2. n.under = u \/ n.under \in IdsOf(nodes)
        BY <3>2 DEF Grown
      <4> QED
        BY <2>2, <2>3, <4>1, <4>2
    <3> QED
      BY <3>1, <3>2
  <2>5. top \in IdsOf(new)
    BY <2>1, <2>2 DEF Subtree
  <2>6. Subtree(new, top, 0)
    BY <1>2, <2>4, <2>5 DEF Subtree
  <2> QED
    BY <1>4, <2>6 DEF Rooted
<1> QED
  BY <1>3, <1>4

(* Nodes that are taken out, but not the root.                               *)
LEMMA PruneRooted ==
  ASSUME NEW d, NEW p, NEW tree, Rooted(d, p, tree), NEW S, Whole(S, tree),
         p \notin Page => d.defs[p].root \notin IdsOf(S)
  PROVE  Rooted(d, p, tree \ S) /\ IdsOf(tree \ S) \cap IdsOf(S) = {}
<1> DEFINE new == tree \ S
<1>1. Grown(tree, 0) /\ 0 \notin Id
  BY RootedGrown DEF Id
<1>2. Grown(new, 0) /\ IdsOf(new) \cap IdsOf(S) = {}
  BY <1>1, PruneGrown
<1>3. CASE p \in Page
  BY <1>2, <1>3 DEF Rooted
<1>4. CASE p \notin Page
  <2> DEFINE top == d.defs[p].root
  <2>1. Subtree(tree, top, 0) /\ top \notin IdsOf(S)
    BY <1>4 DEF Rooted
  <2>2. top \in IdsOf(new)
    BY <2>1 DEF Subtree, IdsOf
  <2>3. \A n \in new : IF n.id = top THEN n.under = 0 ELSE n.under \in IdsOf(new)
    <3> TAKE n \in new
    <3>1. n.id # top => n.under \in IdsOf(tree)
      BY <2>1 DEF Subtree
    <3>2. 0 \notin IdsOf(tree)
      BY <1>1 DEF Grown, IdsOf
    <3>3. n.under = 0 \/ n.under \in IdsOf(new)
      BY <1>2 DEF Grown
    <3>4. n.id = top => n.under = 0
      BY <2>1 DEF Subtree
    <3> QED
      BY <3>1, <3>2, <3>3, <3>4
  <2>4. Subtree(new, top, 0)
    BY <1>2, <2>2, <2>3 DEF Subtree
  <2> QED
    BY <1>2, <1>4, <2>4 DEF Rooted
<1> QED
  BY <1>2, <1>3, <1>4

(* The root is not below another node.                                       *)
LEMMA RootNotBelow ==
  ASSUME NEW tree, NEW top, Subtree(tree, top, 0), NEW n \in tree, n.id # top
  PROVE  top \notin IdsOf(Below(tree, n.id))
<1> DEFINE B == Below(tree, n.id)
<1>1. Subtree(B, n.id, n.under) /\ B \subseteq tree
  BY BelowSubtree, BelowIn DEF Subtree
<1> HIDE DEF B
<1>2. ASSUME NEW r \in B, r.id = top
      PROVE  FALSE
  <2>1. r.under = 0 /\ r.under \in IdsOf(B)
    BY <1>1, <1>2 DEF Subtree
  <2>2. 0 \notin IdsOf(B)
    BY <1>1 DEF Subtree, Grown, IdsOf, Id
  <2> QED
    BY <2>1, <2>2
<1> QED
  BY <1>2 DEF IdsOf, B

LEMMA OneGrown ==
  ASSUME NEW n, n.id \in Id, n.under # n.id
  PROVE  Subtree({n}, n.id, n.under) /\ IdsOf({n}) = {n.id}
<1>1. IdsOf({n}) = {n.id}
  BY DEF IdsOf
<1>2. ASSUME NEW S \in SUBSET {n}, S # {}
      PROVE  \E k \in S : k.under \notin IdsOf(S)
  <2>1. S = {n}
    BY <1>2
  <2> QED
    BY <1>1, <2>1
<1> QED
  BY <1>1, <1>2 DEF Subtree, Grown

LEMMA CreateAnswers ==
  ASSUME NEW d, DocForm(d), Planted(d), NEW c, CommandForm(c), c.type = "node.create", Accepts(d, c),
         Payload(c), Brings(c) \cap DocumentIds(d) = {}
  PROVE  Answers(d, c, After(d, c), InverseOf(d, c))
<1> DEFINE p == c.place
           tree == Tree(d, p) \cup c.nodes
           b == [type |-> "node.delete", place |-> p, id |-> c.id]
<1>1. p \in Places(d) /\ MayHold(d, p, c.under) /\ After(d, c) = Plant(d, p, tree)
  BY DEF Accepts, CreateAccepts, After, Created
<1>2. InverseOf(d, c) = <<b>>
  BY DEF InverseOf, CreateInverse
<1>3. Subtree(c.nodes, c.id, c.under) /\ Brings(c) = IdsOf(c.nodes) /\ Frees(c) = {}
  BY DEF Payload, Brings, Frees
<1>4. TreeForm(c.nodes) /\ TreeForm(Tree(d, p))
  BY TreesForm DEF CommandForm, KeptForm, FirstForm
<1>5. TreeForm(tree)
  BY <1>4, FS_Union DEF TreeForm
<1>6. DocumentIds(d) = IdsBut(d, p) \cup IdsOf(Tree(d, p)) /\ IdsBut(d, p) \cap IdsOf(Tree(d, p)) = {}
  BY <1>1, IdsApart
<1>7. (p \in Page /\ c.under = 0) \/ \E m \in Tree(d, p) : m.id = c.under /\ m.of = Plain
  BY <1>1, TheIn DEF MayHold, IsInstance
<1>8. IdsOf(tree) = IdsOf(Tree(d, p)) \cup IdsOf(c.nodes)
  BY DEF IdsOf
<1>9. Rooted(d, p, Tree(d, p)) /\ Grown(c.nodes, c.under)
  BY <1>1, <1>3 DEF Planted, Subtree
<1>10. Rooted(d, p, tree)
  BY <1>3, <1>6, <1>7, <1>9, GraftRooted
<1>11. IdsOf(tree) \cap IdsBut(d, p) = {}
  BY <1>3, <1>6, <1>8
<1> HIDE DEF tree
<1>12. Planted(After(d, c)) /\ DocumentIds(After(d, c)) \subseteq IdsBut(d, p) \cup IdsOf(tree)
  BY <1>1, <1>5, <1>10, <1>11, PlantPlants
<1>13. Brings(b) = {} /\ Frees(b) = {c.id} /\ Payload(b)
  BY DEF Brings, Frees, Payload
<1>14. c.id \in Brings(c)
  BY <1>3 DEF Subtree
<1> HIDE DEF b
<1> QED
  BY <1>2, <1>3, <1>6, <1>8, <1>12, <1>13, <1>14, AnswersOne

(* A node with all below it, taken out.                                      *)
LEMMA TakenOut ==
  ASSUME NEW d, Planted(d), NEW p, NEW id, Holds(d, p, id), ~IsRoot(d, p, id)
  PROVE  LET n == The(d, p, id)
             S == Below(Tree(d, p), id)
         IN  /\ n \in Tree(d, p) /\ n.id = id /\ p \in Places(d)
             /\ Subtree(S, id, n.under) /\ n.under \notin IdsOf(S) /\ Whole(S, Tree(d, p))
             /\ p \notin Page => d.defs[p].root \notin IdsOf(S)
             /\ Rooted(d, p, Tree(d, p) \ S) /\ IdsOf(Tree(d, p) \ S) \cap IdsOf(S) = {}
<1> DEFINE n == The(d, p, id)
           T == Tree(d, p)
           S == Below(T, id)
<1>1. n \in T /\ n.id = id /\ p \in Places(d)
  BY TheIn, IdsAre
<1>2. Rooted(d, p, T) /\ Grown(T, 0)
  BY <1>1, RootedGrown DEF Planted
<1> HIDE DEF n, T
<1>3. Subtree(S, id, n.under) /\ n.under \notin IdsOf(S)
  BY <1>1, <1>2, BelowSubtree
<1>4. Whole(S, T)
  BY <1>1, BelowWhole
<1>5. ASSUME p \notin Page
      PROVE  d.defs[p].root \notin IdsOf(S)
  <2>1. p \in Defined(d)
    BY <1>1, <1>5 DEF Places
  <2>2. d.defs[p].root # id
    BY <2>1 DEF IsRoot
  <2>3. Subtree(T, d.defs[p].root, 0)
    BY <1>2, <1>5 DEF Rooted
  <2> QED
    BY <1>1, <2>2, <2>3, RootNotBelow
<1> HIDE DEF S
<1>6. Rooted(d, p, T \ S) /\ IdsOf(T \ S) \cap IdsOf(S) = {}
  BY <1>2, <1>4, <1>5, PruneRooted
<1> QED
  BY <1>1, <1>3, <1>4, <1>5, <1>6 DEF n, T, S

LEMMA RecreatesBelow ==
  ASSUME NEW d, Planted(d), NEW p, NEW id, Holds(d, p, id), ~IsRoot(d, p, id)
  PROVE  LET b == Recreate(d, p, id)
         IN  /\ Payload(b) /\ Brings(b) = IdsOf(Below(Tree(d, p), id)) /\ Frees(b) = {}
             /\ Recreates(b, id)
<1> DEFINE n == The(d, p, id)
           S == Below(Tree(d, p), id)
           b == [type |-> "node.create", place |-> p, id |-> id, under |-> n.under, nodes |-> S]
<1>1. Recreate(d, p, id) = b
  BY DEF Recreate
<1>2. Subtree(S, id, n.under)
  BY TakenOut
<1> HIDE DEF S, n
<1>3. b.type = "node.create" /\ b.id = id /\ b.under = n.under /\ b.nodes = S
  OBVIOUS
<1> HIDE DEF b
<1>4. Payload(b) /\ Brings(b) = IdsOf(S) /\ Frees(b) = {} /\ Recreates(b, id)
  BY <1>2, <1>3 DEF Payload, Brings, Frees, Recreates
<1> QED
  BY <1>1, <1>4 DEF S

LEMMA DeleteAnswers ==
  ASSUME NEW d, DocForm(d), Planted(d), NEW c, CommandForm(c), c.type = "node.delete", Accepts(d, c)
  PROVE  Answers(d, c, After(d, c), InverseOf(d, c))
<1> DEFINE p == c.place
           S == Below(Tree(d, p), c.id)
           tree == Tree(d, p) \ S
           b == Recreate(d, p, c.id)
<1>1. Holds(d, p, c.id) /\ ~IsRoot(d, p, c.id)
  BY DEF Accepts, DeleteAccepts
<1>2. After(d, c) = Plant(d, p, tree)
  BY DEF After, Deleted
<1>3. InverseOf(d, c) = <<b>>
  BY DEF InverseOf, DeleteInverse
<1>4. Brings(c) = {} /\ Frees(c) = {c.id}
  BY DEF Brings, Frees
<1>5. /\ p \in Places(d) /\ Rooted(d, p, tree) /\ IdsOf(tree) \cap IdsOf(S) = {}
      /\ c.id \in IdsOf(S)
  BY <1>1, TakenOut DEF Subtree
<1>6. Payload(b) /\ Brings(b) = IdsOf(S) /\ Frees(b) = {} /\ Recreates(b, c.id)
  BY <1>1, RecreatesBelow
<1>7. TreeForm(tree)
  BY TreesForm, FS_Subset DEF TreeForm
<1>8. DocumentIds(d) = IdsBut(d, p) \cup IdsOf(Tree(d, p)) /\ IdsBut(d, p) \cap IdsOf(Tree(d, p)) = {}
  BY <1>5, IdsApart
<1>9. IdsOf(tree) \subseteq IdsOf(Tree(d, p)) /\ IdsOf(S) \subseteq IdsOf(Tree(d, p))
  BY BelowIn DEF IdsOf
<1> HIDE DEF tree, S, b
<1>10. Planted(After(d, c)) /\ DocumentIds(After(d, c)) \subseteq IdsBut(d, p) \cup IdsOf(tree)
  BY <1>2, <1>5, <1>7, <1>8, <1>9, PlantPlants
<1>11. c.type # "node.create"
  OBVIOUS
<1>12. IdsOf(S) \subseteq DocumentIds(d) \ DocumentIds(After(d, c))
  BY <1>5, <1>8, <1>9, <1>10
<1> QED
  BY <1>3, <1>4, <1>5, <1>6, <1>8, <1>9, <1>10, <1>11, <1>12, AnswersOne

LEMMA RestoreAnswers ==
  ASSUME NEW d, DocForm(d), Planted(d), NEW c, CommandForm(c), c.type = "component.create",
         Accepts(d, c), Payload(c)
  PROVE  Answers(d, c, After(d, c), InverseOf(d, c))
<1> DEFINE x == c.component
           def == c.definition
           b == [type |-> "component.delete", component |-> x]
<1>1. x \in Component
  BY DEF CommandForm, KeptForm, FirstForm
<1>2. IdsOf(def.tree) \cap DocumentIds(d) = {}
  BY DEF Accepts, RestoreAccepts, Addable
<1>3. After(d, c) = [d EXCEPT !.defs[x] = def] /\ InverseOf(d, c) = <<b>>
  BY DEF After, Restored, InverseOf, RestoreInverse
<1>4. Subtree(def.tree, def.root, 0) /\ Brings(c) = IdsOf(def.tree) /\ Frees(c) = {}
  BY DEF Payload, Brings, Frees
<1>5. IdsBut(d, x) \subseteq DocumentIds(d)
  BY IdsAre DEF IdsBut
<1> HIDE DEF def, x
<1>6. /\ Planted(After(d, c))
      /\ DocumentIds(After(d, c)) \subseteq IdsBut(d, x) \cup (IF def = NoDefinition THEN {} ELSE IdsOf(def.tree))
  BY <1>1, <1>2, <1>3, <1>4, <1>5, DefinePlants
<1>7. Brings(b) = {} /\ Frees(b) = {} /\ Payload(b)
  BY DEF Brings, Frees, Payload
<1>8. c.type # "node.create"
  OBVIOUS
<1> HIDE DEF b
<1>9. DocumentIds(After(d, c)) \subseteq DocumentIds(d) \cup Brings(c)
  BY <1>4, <1>5, <1>6
<1> QED
  BY <1>3, <1>4, <1>6, <1>7, <1>8, <1>9, AnswersOne

LEMMA RemoveAnswers ==
  ASSUME NEW d, DocForm(d), Planted(d), NEW c, CommandForm(c), c.type = "component.delete", Accepts(d, c)
  PROVE  Answers(d, c, After(d, c), InverseOf(d, c))
<1> DEFINE x == c.component
           def == d.defs[x]
           b == [type |-> "component.create", component |-> x, definition |-> def]
<1>1. x \in Component /\ x \in Defined(d)
  BY DEF Accepts, RemoveAccepts, Defined
<1>2. x \notin Page /\ x \in Places(d) /\ Tree(d, x) = def.tree
  BY <1>1, ComponentAssumption DEF Tree, Places
<1>3. Subtree(def.tree, def.root, 0)
  BY <1>2 DEF Planted, Rooted
<1>4. DocumentIds(d) = IdsBut(d, x) \cup IdsOf(def.tree) /\ IdsBut(d, x) \cap IdsOf(def.tree) = {}
  BY <1>2, IdsApart
<1>5. After(d, c) = [d EXCEPT !.defs[x] = NoDefinition] /\ InverseOf(d, c) = <<b>>
  BY DEF After, Removed, InverseOf, RemoveInverse
<1>6. Brings(c) = {} /\ Frees(c) = {} /\ c.type # "node.create"
  BY DEF Brings, Frees
<1> HIDE DEF x, def
<1>7. Planted(After(d, c)) /\ DocumentIds(After(d, c)) \subseteq IdsBut(d, x)
  <2>1. /\ Planted([d EXCEPT !.defs[x] = NoDefinition])
        /\ DocumentIds([d EXCEPT !.defs[x] = NoDefinition])
              \subseteq IdsBut(d, x) \cup (IF NoDefinition = NoDefinition THEN {} ELSE IdsOf(NoDefinition.tree))
    BY <1>1, DefinePlants
  <2> QED
    BY <1>5, <2>1
<1>8. Brings(b) = IdsOf(def.tree) /\ Frees(b) = {} /\ Payload(b)
  BY <1>3 DEF Brings, Frees, Payload
<1> HIDE DEF b
<1> QED
  BY <1>4, <1>5, <1>6, <1>7, <1>8, AnswersOne

LEMMA InsertAnswers ==
  ASSUME NEW d, DocForm(d), Planted(d), NEW c, CommandForm(c), c.type = "component-instance.insert",
         Accepts(d, c), Brings(c) \cap DocumentIds(d) = {}, c.instance \in Id
  PROVE  Answers(d, c, After(d, c), InverseOf(d, c))
<1> DEFINE p == c.place
           u == Top(d, p)
           n == InstanceNode(c, u)
           tree == Tree(d, p) \cup {n}
           b == [type |-> "node.delete", place |-> p, id |-> c.instance]
<1>1. /\ p \in Places(d) /\ MayHold(d, p, u) /\ After(d, c) = Plant(d, p, tree)
      /\ c.component \in Defined(d) /\ c.component \in Component
  BY DEF Accepts, InsertAccepts, After, Inserted, Defined
<1>2. InverseOf(d, c) = <<b>>
  BY DEF InverseOf, InsertInverse
<1>3. Brings(c) = {c.instance} /\ Frees(c) = {} /\ c.type # "node.create"
  BY DEF Brings, Frees
<1>4. n.id = c.instance /\ n.under = u /\ NodeForm(n)
  BY <1>1, InstanceForm DEF InstanceNode
<1>5. (p \in Page /\ u = 0) \/ \E m \in Tree(d, p) : m.id = u /\ m.of = Plain
  BY <1>1, TheIn DEF MayHold, IsInstance
<1>6. DocumentIds(d) = IdsBut(d, p) \cup IdsOf(Tree(d, p)) /\ IdsBut(d, p) \cap IdsOf(Tree(d, p)) = {}
  BY <1>1, IdsApart
<1>7. u # c.instance
  BY <1>3, <1>5, <1>6 DEF IdsOf, Id
<1> HIDE DEF n, u
<1>8. Grown({n}, u) /\ IdsOf({n}) = {c.instance}
  BY <1>4, <1>7, OneGrown DEF Subtree
<1>9. IdsOf(tree) = IdsOf(Tree(d, p)) \cup {c.instance}
  BY <1>4 DEF IdsOf
<1>10. Rooted(d, p, Tree(d, p))
  BY <1>1 DEF Planted
<1>11. Rooted(d, p, tree)
  BY <1>3, <1>5, <1>6, <1>8, <1>10, GraftRooted
<1>12. TreeForm(tree)
  <2>1. TreeForm(Tree(d, p))
    BY TreesForm
  <2> QED
    BY <1>4, <2>1, FS_AddElement DEF TreeForm
<1>13. IdsOf(tree) \cap IdsBut(d, p) = {}
  BY <1>3, <1>6, <1>9
<1> HIDE DEF tree
<1>14. Planted(After(d, c)) /\ DocumentIds(After(d, c)) \subseteq IdsBut(d, p) \cup IdsOf(tree)
  BY <1>1, <1>11, <1>12, <1>13, PlantPlants
<1>15. Brings(b) = {} /\ Frees(b) = {c.instance} /\ Payload(b)
  BY DEF Brings, Frees, Payload
<1> HIDE DEF b
<1> QED
  BY <1>2, <1>3, <1>6, <1>9, <1>14, <1>15, AnswersOne

(* The nodes under new ids, each from one of the nodes.                      *)
RemapsBy(g, nodes, fresh) ==
    /\ Remapped(nodes, fresh) = {g[n] : n \in nodes}
    /\ \A n \in nodes : /\ NodeForm(g[n]) /\ g[n].id = fresh[n.id] /\ g[n].of = n.of
                        /\ g[n].under = IF n.under \in IdsOf(nodes) THEN fresh[n.under] ELSE n.under

LEMMA RemappedNodes == ASSUME NEW nodes, TreeForm(nodes), NEW fresh PROVE \E g : RemapsBy(g, nodes, fresh)
<1> DEFINE New(n) == [n EXCEPT !.id = fresh[n.id],
                               !.under = IF @ \in IdsOf(nodes) THEN fresh[@] ELSE @]
           g == [n \in nodes |-> New(n)]
<1>1. Remapped(nodes, fresh) = {New(n) : n \in nodes}
  BY DEF Remapped
<1>2. ASSUME NEW n \in nodes
      PROVE  /\ NodeForm(New(n)) /\ New(n).id = fresh[n.id] /\ New(n).of = n.of
             /\ New(n).under = IF n.under \in IdsOf(nodes) THEN fresh[n.under] ELSE n.under
  <2>1. n = [id |-> n.id, under |-> n.under, of |-> n.of, over |-> n.over, locked |-> n.locked]
    BY DEF TreeForm, NodeForm
  <2> DEFINE a == fresh[n.id]
             b == IF n.under \in IdsOf(nodes) THEN fresh[n.under] ELSE n.under
  <2>2. New(n) = [n EXCEPT !.id = a, !.under = b]
    OBVIOUS
  <2> HIDE DEF a, b
  <2> DEFINE m == [n EXCEPT !.id = a]
  <2>3. [n EXCEPT !.id = a, !.under = b]
          = [id |-> a, under |-> b, of |-> n.of, over |-> n.over, locked |-> n.locked]
    <3>1. m = [id |-> a, under |-> n.under, of |-> n.of, over |-> n.over, locked |-> n.locked]
      BY <2>1
    <3>2. [n EXCEPT !.id = a, !.under = b] = [m EXCEPT !.under = b]
      OBVIOUS
    <3> HIDE DEF m
    <3>3. [m EXCEPT !.under = b]
            = [id |-> a, under |-> b, of |-> n.of, over |-> n.over, locked |-> n.locked]
      BY <3>1
    <3> QED
      BY <3>2, <3>3
  <2> HIDE DEF New
  <2>4. NodeForm(New(n)) /\ New(n).id = a /\ New(n).of = n.of /\ New(n).under = b
    BY <2>2, <2>3 DEF NodeForm, TreeForm
  <2> QED
    BY <2>4 DEF a, b
<1> HIDE DEF New
<1>3. \A n \in nodes : g[n] = New(n)
  OBVIOUS
<1>4. {New(n) : n \in nodes} = {g[n] : n \in nodes}
  BY <1>3
<1> HIDE DEF g
<1>5. RemapsBy(g, nodes, fresh)
  BY <1>1, <1>2, <1>3, <1>4 DEF RemapsBy
<1> QED
  BY <1>5

(* New ids for old ones: in Id, and two for two.                             *)
Renews(fresh, ids) ==
    /\ \A x \in ids : fresh[x] \in Id
    /\ \A x, y \in ids : fresh[x] = fresh[y] => x = y

LEMMA RemapCopies ==
  ASSUME NEW nodes, TreeForm(nodes), NEW u, Grown(nodes, u), u \notin IdsOf(nodes), NEW fresh
  PROVE  Copied(Remapped(nodes, fresh), nodes, fresh, u)
<1> DEFINE new == Remapped(nodes, fresh)
<1>0. PICK g : RemapsBy(g, nodes, fresh)
  BY RemappedNodes
<1>1. /\ new = {g[n] : n \in nodes}
      /\ \A n \in nodes : /\ g[n].id = fresh[n.id] /\ g[n].of = n.of
                          /\ g[n].under = IF n.under \in IdsOf(nodes) THEN fresh[n.under] ELSE n.under
  BY <1>0 DEF RemapsBy
<1>2. \A n \in nodes : n.under \notin IdsOf(nodes) => n.under = u
  BY DEF Grown
<1> HIDE DEF new
<1>3. Copied(new, nodes, fresh, u)
  BY <1>1, <1>2 DEF Copied
<1> QED
  BY <1>3 DEF new

LEMMA DuplicateAnswers ==
  ASSUME NEW d, DocForm(d), Planted(d), NEW c, CommandForm(c), c.type = "component.duplicate",
         Accepts(d, c), Renews(c.fresh, IdsOf(Tree(d, c.component)))
  PROVE  Answers(d, c, After(d, c), InverseOf(d, c))
<1> DEFINE x == c.component
           nodes == d.defs[x].tree
           def == Duplicate(d, c)
           new == Remapped(nodes, c.fresh)
           b == [type |-> "component.delete", component |-> c.copy]
<1>1. c.copy \in Component /\ x \in Defined(d) /\ x \in Component
  BY DEF CommandForm, KeptForm, FirstForm, Accepts, DuplicateAccepts, Defined
<1>2. x \notin Page /\ x \in Places(d) /\ Tree(d, x) = nodes
  BY <1>1, ComponentAssumption DEF Tree, Places
<1>3. Subtree(nodes, d.defs[x].root, 0) /\ TreeForm(nodes)
  BY <1>2, TreesForm DEF Planted, Rooted
<1>4. def.tree = new /\ def.root = c.fresh[d.defs[x].root]
  BY DEF Duplicate
<1>5. IdsOf(def.tree) \cap DocumentIds(d) = {}
  BY DEF Accepts, DuplicateAccepts, Addable
<1>6. After(d, c) = [d EXCEPT !.defs[c.copy] = def] /\ InverseOf(d, c) = <<b>>
  BY DEF After, Duplicated, InverseOf, DuplicateInverse
<1>7. Brings(c) = Renewed(c.fresh) /\ Frees(c) = {} /\ c.type # "node.create"
  BY DEF Brings, Frees
<1>8. Brings(b) = {} /\ Frees(b) = {} /\ Payload(b)
  BY DEF Brings, Frees, Payload
<1> HIDE DEF def, nodes, new, b
<1>9. Subtree(new, c.fresh[d.defs[x].root], 0) /\ IdsOf(new) = {c.fresh[n.id] : n \in nodes}
  <2>1. Grown(nodes, 0)
    BY <1>3 DEF Subtree
  <2>2. 0 \notin Id /\ 0 \notin IdsOf(nodes)
    <3>1. 0 \notin Id
      BY DEF Id
    <3>2. \A n \in nodes : n.id \in Id
      BY <2>1 DEF Grown
    <3> QED
      BY <3>1, <3>2 DEF IdsOf
  <2>3. Copied(new, nodes, c.fresh, 0)
    BY <1>3, <2>1, <2>2, RemapCopies DEF new
  <2>4. \A n \in nodes : n.id \in IdsOf(nodes)
    BY DEF IdsOf
  <2>5. \A n \in nodes : c.fresh[n.id] \in Id /\ c.fresh[n.id] # 0
    BY <1>2, <2>2, <2>4 DEF Renews
  <2>6. \A m, n \in nodes : c.fresh[m.id] = c.fresh[n.id] => m.id = n.id
    BY <1>2, <2>4 DEF Renews
  <2>7. /\ IdsOf(new) = {c.fresh[n.id] : n \in nodes}
        /\ \A top : Subtree(nodes, top, 0) /\ 0 \notin IdsOf(nodes) => Subtree(new, c.fresh[top], 0)
    BY <2>1, <2>3, <2>5, <2>6, RemapGrown
  <2> QED
    BY <1>3, <2>2, <2>7
<1>10. IdsBut(d, c.copy) \subseteq DocumentIds(d)
  BY IdsAre DEF IdsBut
<1>11. /\ Planted(After(d, c))
       /\ DocumentIds(After(d, c))
             \subseteq IdsBut(d, c.copy) \cup (IF def = NoDefinition THEN {} ELSE IdsOf(def.tree))
  <2>1. c.copy \in Component
    BY <1>1
  <2>2. Subtree(def.tree, def.root, 0)
    BY <1>3, <1>4, <1>9
  <2>3. IdsOf(def.tree) \cap IdsBut(d, c.copy) = {}
    BY <1>5, <1>10
  <2> QED
    BY <1>6, <2>1, <2>2, <2>3, DefinePlants
<1>12. IdsOf(new) \subseteq Renewed(c.fresh)
  <2>1. \A n \in nodes : n.id \in Id /\ n.id \in DocumentIds(d)
    <3>1. \A n \in Tree(d, x) : n.id \in DocumentIds(d)
      BY IdsAre
    <3> QED
      BY <1>2, <3>1, PlantedIds
  <2>2. \A n \in nodes : c.fresh[n.id] # n.id
    BY <1>4, <1>5, <1>9, <2>1
  <2> QED
    BY <1>9, <2>1, <2>2 DEF Renewed
<1>13. DocumentIds(After(d, c)) \subseteq DocumentIds(d) \cup Brings(c)
  BY <1>4, <1>7, <1>10, <1>11, <1>12
<1> QED
  BY <1>6, <1>7, <1>8, <1>11, <1>13, AnswersOne

-----------------------------------------------------------------------------
(* Extracting: siblings and what is below them become a Source.              *)

LEMMA ListOnce ==
  ASSUME NEW S, IsFiniteSet(S)
  PROVE  /\ IsSeq(SetToSeq(S)) /\ Len(SetToSeq(S)) = Cardinality(S) /\ Cardinality(S) \in Nat
         /\ \A i \in 1 .. Len(SetToSeq(S)) : SetToSeq(S)[i] \in S
         /\ \A i, j \in 1 .. Len(SetToSeq(S)) : SetToSeq(S)[i] = SetToSeq(S)[j] => i = j
         /\ \A x \in S : \E i \in 1 .. Len(SetToSeq(S)) : SetToSeq(S)[i] = x
<1> DEFINE s == SetToSeq(S)
<1>1. Cardinality(S) \in Nat
  BY FS_CardinalityType
<1>2. PICK g \in [1 .. Cardinality(S) -> S] : IsInjective(g)
  <2>1. PICK f \in Bijection(1 .. Cardinality(S), S) : TRUE
    BY FS_CardinalityType DEF ExistsBijection
  <2> QED
    BY <2>1 DEF Bijection, Injection
<1>3. s \in [1 .. Cardinality(S) -> S] /\ IsInjective(s)
  BY <1>2 DEF SetToSeq
<1> HIDE DEF s
<1>4. s \in Seq(S) /\ Len(s) = Cardinality(S)
  BY <1>1, <1>3
<1>5. IsSeq(s)
  BY <1>4, SeqIs
<1>6. \A i \in 1 .. Len(s) : s[i] \in S
  BY <1>3, <1>4
<1>7. \A i, j \in 1 .. Len(s) : s[i] = s[j] => i = j
  BY <1>3, <1>4 DEF IsInjective
<1>8. \A x \in S : \E i \in 1 .. Len(s) : s[i] = x
  <2> DEFINE D == 1 .. Cardinality(S)
  <2>1. s \in Injection(D, S)
    BY <1>3 DEF Injection, IsInjective
  <2>2. Cardinality(D) = Cardinality(S)
    BY <1>1, FS_Interval
  <2> HIDE DEF D
  <2>3. s \in Surjection(D, S)
    BY <2>1, <2>2, FS_Injection
  <2> QED
    BY <1>4, <2>3 DEF D, Surjection
<1> QED
  BY <1>1, <1>4, <1>5, <1>6, <1>7, <1>8 DEF s

LEMMA UnderIs ==
  ASSUME NEW n, NodeForm(n), NEW v
  PROVE  /\ [n EXCEPT !.under = v].id = n.id /\ [n EXCEPT !.under = v].under = v
         /\ [n EXCEPT !.under = v].of = n.of
<1>1. [n EXCEPT !.under = v]
        = [id |-> n.id, under |-> v, of |-> n.of, over |-> n.over, locked |-> n.locked]
  BY DEF NodeForm
<1> QED
  BY <1>1

(* Siblings, none of them a root, with all that is below them.               *)
Siblings(d, p, ids, u, S) ==
    /\ p \in Places(d) /\ Whole(S, Tree(d, p)) /\ Grown(S, u) /\ u \notin IdsOf(S)
    /\ Rooted(d, p, Tree(d, p) \ S) /\ IdsOf(Tree(d, p) \ S) \cap IdsOf(S) = {}
    /\ (p \in Page /\ u = 0) \/ \E m \in Tree(d, p) \ S : m.id = u /\ m.of = Plain
    /\ ids \subseteq IdsOf(S)
    /\ \A i, j \in ids : i # j => IdsOf(Below(Tree(d, p), i)) \cap IdsOf(Below(Tree(d, p), j)) = {}

LEMMA SelectedOut ==
  ASSUME NEW d, Planted(d), NEW p, NEW ids, ids # {}, NEW u,
         \A id \in ids : Holds(d, p, id) /\ ~IsRoot(d, p, id) /\ The(d, p, id).under = u,
         NEW S, S = UNION {Below(Tree(d, p), id) : id \in ids}
  PROVE  Siblings(d, p, ids, u, S)
<1> DEFINE T == Tree(d, p)
           nodes == {The(d, p, id) : id \in ids}
<1>1. PICK one \in ids : TRUE
  OBVIOUS
<1>2. \A id \in ids : The(d, p, id) \in T /\ The(d, p, id).id = id
  BY TheIn
<1>3. p \in Places(d) /\ Rooted(d, p, T) /\ Grown(T, 0)
  BY <1>1, TakenOut, RootedGrown DEF Planted
<1>4. \A id \in ids : /\ Subtree(Below(T, id), id, u) /\ u \notin IdsOf(Below(T, id))
                      /\ p \notin Page => d.defs[p].root \notin IdsOf(Below(T, id))
  <2> TAKE id \in ids
  <2>1. Holds(d, p, id) /\ ~IsRoot(d, p, id) /\ The(d, p, id).under = u
    OBVIOUS
  <2> QED
    BY <2>1, TakenOut
<1>5. Whole(S, T)
  <2>1. S = UNION {Below(T, n.id) : n \in nodes}
    BY <1>2
  <2>2. nodes \in SUBSET T
    BY <1>2
  <2> HIDE DEF T, nodes
  <2> QED
    BY <2>1, <2>2, BelowAllWhole
<1>6. \A x \in IdsOf(S) : \E id \in ids : x \in IdsOf(Below(T, id))
  BY DEF IdsOf
<1>7. u \notin IdsOf(S)
  BY <1>4, <1>6
<1>8. ids \subseteq IdsOf(S)
  BY <1>4 DEF Subtree, IdsOf
<1>9. \A n \in S : n.under = u \/ n.under \in IdsOf(S)
  <2> TAKE n \in S
  <2>1. PICK id \in ids : n \in Below(T, id)
    OBVIOUS
  <2>2. n.under = u \/ n.under \in IdsOf(Below(T, id))
    BY <1>4, <2>1 DEF Subtree, Grown
  <2> QED
    BY <2>1, <2>2 DEF IdsOf
<1>10. \A i, j \in ids : i # j => IdsOf(Below(T, i)) \cap IdsOf(Below(T, j)) = {}
  <2> TAKE i, j \in ids
  <2> DEFINE m == The(d, p, i)
             n == The(d, p, j)
  <2>1. m \in T /\ n \in T /\ m.id = i /\ n.id = j /\ m.under = n.under
    BY <1>2
  <2> HIDE DEF m, n, T
  <2> QED
    BY <1>3, <2>1, SiblingsApart
<1> DEFINE rest == T \ S
<1>11. Grown(S, u)
  <2>1. S \subseteq T
    BY <1>5 DEF Whole
  <2> QED
    BY <1>3, <1>9, <2>1 DEF Grown
<1>12. p \notin Page => d.defs[p].root \notin IdsOf(S)
  BY <1>4, <1>6
<1>13. Rooted(d, p, rest) /\ IdsOf(rest) \cap IdsOf(S) = {}
  BY <1>3, <1>5, <1>12, PruneRooted
<1>14. (p \in Page /\ u = 0) \/ \E m \in rest : m.id = u /\ m.of = Plain
  <2> DEFINE n == The(d, p, one)
  <2>1. n \in T /\ n.id = one /\ n.under = u /\ ~IsRoot(d, p, one)
    BY <1>2
  <2> HIDE DEF n
  <2>2. (p \in Page /\ u = 0) \/ u \in IdsOf(T)
    <3>1. p \in Page => u = 0 \/ u \in IdsOf(T)
      BY <1>3, <2>1 DEF Grown
    <3>2. ASSUME p \notin Page
          PROVE  u \in IdsOf(T)
      <4>1. Subtree(T, d.defs[p].root, 0)
        BY <1>3, <3>2 DEF Rooted
      <4>2. n.id # d.defs[p].root
        BY <1>3, <2>1, <3>2 DEF IsRoot, Places
      <4> QED
        BY <2>1, <4>1, <4>2 DEF Subtree
    <3> QED
      BY <3>1, <3>2
  <2>3. ASSUME u \in IdsOf(T)
        PROVE  \E m \in rest : m.id = u /\ m.of = Plain
    <3>1. PICK m \in T : m.id = u
      BY <2>3 DEF IdsOf
    <3>2. m.of = Plain
      BY <1>3, <2>1, <3>1 DEF Grown
    <3>3. m \notin S
      BY <1>7, <3>1 DEF IdsOf
    <3> QED
      BY <3>1, <3>2, <3>3
  <2> QED
    BY <2>2, <2>3
<1>15. /\ p \in Places(d) /\ Whole(S, T) /\ Grown(S, u) /\ u \notin IdsOf(S)
       /\ Rooted(d, p, T \ S) /\ IdsOf(T \ S) \cap IdsOf(S) = {}
       /\ (p \in Page /\ u = 0) \/ \E m \in T \ S : m.id = u /\ m.of = Plain
       /\ ids \subseteq IdsOf(S)
  BY <1>3, <1>5, <1>7, <1>8, <1>11, <1>13, <1>14
<1> QED
  BY <1>10, <1>15 DEF Siblings

(* The Source that a selection becomes is a tree of its own, of new ids.     *)
LEMMA ExtractedTree ==
  ASSUME NEW d, NEW c, NEW sel, sel = Selected(d, c), TreeForm(sel), NEW u,
         Grown(sel, u), u \notin IdsOf(sel), u \notin Renewed(c.fresh),
         Renews(c.fresh, IdsOf(sel)), Renewed(c.fresh) \cap IdsOf(sel) = {},
         \A x \in IdsOf(sel) : c.fresh[x] # x,
         c.root \in Id, c.root \notin Renewed(c.fresh),
         c.reuse => \E id \in IdsOf(sel) : c.ids = {id} /\ Subtree(sel, id, u)
  PROVE  /\ Subtree(SourceTree(d, c), c.root, 0)
         /\ IdsOf(SourceTree(d, c)) \subseteq {c.root} \cup Renewed(c.fresh)
<1> DEFINE new == SourceTree(d, c)
           news == {c.fresh[m.id] : m \in sel}
<1>1. /\ \A n \in sel : n.id \in IdsOf(sel) /\ n.id \in Id
      /\ \A x \in IdsOf(sel) : x \in Id /\ c.fresh[x] \in Renewed(c.fresh) /\ c.fresh[x] \in Id
      /\ \A x, y \in IdsOf(sel) : c.fresh[x] = c.fresh[y] => x = y
  <2>1. \A n \in sel : n.id \in IdsOf(sel) /\ n.id \in Id
    BY DEF IdsOf, Grown
  <2>2. \A x \in IdsOf(sel) : x \in Id
    BY DEF IdsOf, Grown
  <2> QED
    BY <2>1, <2>2 DEF Renewed, Renews
<1>2. 0 \notin Id /\ news \subseteq Renewed(c.fresh)
  BY <1>1 DEF Id
<1>3. \A x \in IdsOf(sel) : c.fresh[x] \in news
  BY DEF IdsOf
<1>4. ASSUME ~c.reuse
      PROVE  Subtree(new, c.root, 0) /\ IdsOf(new) \subseteq {c.root} \cup Renewed(c.fresh)
  <2> DEFINE In(n) == [n EXCEPT !.under = IF @ \in news THEN @ ELSE c.root]
             B == {In(n) : n \in Remapped(sel, c.fresh)}
             root == PlainNode(c.root, 0, "absent")
  <2>1. new = B \cup {root}
    BY <1>4 DEF SourceTree
  <2>0. PICK g : RemapsBy(g, sel, c.fresh)
    BY RemappedNodes
  <2>2. /\ Remapped(sel, c.fresh) = {g[n] : n \in sel}
       /\ \A n \in sel : /\ NodeForm(g[n]) /\ g[n].id = c.fresh[n.id] /\ g[n].of = n.of
                         /\ g[n].under = IF n.under \in IdsOf(sel) THEN c.fresh[n.under] ELSE n.under
    BY <2>0 DEF RemapsBy
  <2>3. \A n \in sel : n.under \notin IdsOf(sel) => n.under = u
    BY DEF Grown
  <2>4. ASSUME NEW n \in sel
        PROVE  /\ In(g[n]).id = c.fresh[n.id] /\ In(g[n]).of = n.of
               /\ In(g[n]).under = IF n.under \in IdsOf(sel) THEN c.fresh[n.under] ELSE c.root
    <3> DEFINE m == g[n]
               v == IF m.under \in news THEN m.under ELSE c.root
    <3>1. In(m) = [m EXCEPT !.under = v]
      OBVIOUS
    <3>2. NodeForm(m) /\ m.id = c.fresh[n.id] /\ m.of = n.of
          /\ m.under = IF n.under \in IdsOf(sel) THEN c.fresh[n.under] ELSE n.under
      BY <2>2
    <3> HIDE DEF m
    <3>3. v = IF n.under \in IdsOf(sel) THEN c.fresh[n.under] ELSE c.root
      <4> HIDE DEF news
      <4> QED
        BY <1>2, <1>3, <2>3, <3>2
    <3> HIDE DEF v, In
    <3>4. In(m).id = m.id /\ In(m).under = v /\ In(m).of = m.of
      BY <3>1, <3>2, UnderIs
    <3> QED
      BY <3>2, <3>3, <3>4 DEF m
  <2> HIDE DEF In
  <2> DEFINE h == [n \in sel |-> In(g[n])]
  <2>5. B = {h[n] : n \in sel}
    BY <2>2
  <2>6. \A n \in sel : /\ h[n].id = c.fresh[n.id] /\ h[n].of = n.of
                       /\ h[n].under = IF n.under \in IdsOf(sel) THEN c.fresh[n.under] ELSE c.root
    BY <2>4
  <2> HIDE DEF h, B, root
  <2>7. Copied(B, sel, c.fresh, c.root)
    BY <2>5, <2>6 DEF Copied
  <2>8. Grown(B, c.root) /\ IdsOf(B) = {c.fresh[n.id] : n \in sel}
    <3>1. \A n \in sel : c.fresh[n.id] \in Id /\ c.fresh[n.id] # c.root
      BY <1>1
    <3>2. \A m, n \in sel : c.fresh[m.id] = c.fresh[n.id] => m.id = n.id
      BY <1>1
    <3> QED
      BY <2>7, <3>1, <3>2, RemapGrown
  <2>9. root.id = c.root /\ root.under = 0 /\ root.of = Plain /\ c.root # 0
    BY <1>2 DEF root, PlainNode
  <2>10. Grown({root}, 0) /\ IdsOf({root}) = {c.root}
    BY <2>9, OneGrown DEF Subtree
  <2>11. c.root \notin IdsOf(B)
    BY <1>2, <2>8
  <2>12. Grown({root} \cup B, 0)
    <3>1. \E m \in {root} : m.id = c.root /\ m.of = Plain
      BY <2>9
    <3>2. IdsOf({root}) \cap IdsOf(B) = {}
      BY <2>10, <2>11
    <3> QED
      BY <1>2, <2>8, <2>10, <3>1, <3>2, GraftGrown
  <2>13. {root} \cup B = new /\ IdsOf(new) = {c.root} \cup IdsOf(B)
    BY <2>1, <2>9 DEF IdsOf
  <2> HIDE DEF new
  <2>14. \A n \in new : IF n.id = c.root THEN n.under = 0 ELSE n.under \in IdsOf(new)
    <3> TAKE n \in new
    <3>1. CASE n = root
      BY <2>9, <3>1
    <3>2. CASE n \in B
      <4>1. n.id \in IdsOf(B) /\ (n.under = c.root \/ n.under \in IdsOf(B))
        BY <2>8, <3>2 DEF Grown, IdsOf
      <4> QED
        BY <2>11, <2>13, <4>1
    <3> QED
      BY <2>13, <3>1, <3>2
  <2> QED
    BY <1>2, <2>8, <2>12, <2>13, <2>14 DEF Subtree
<1>5. ASSUME c.reuse
      PROVE  Subtree(new, c.root, 0) /\ IdsOf(new) \subseteq {c.root} \cup Renewed(c.fresh)
  <2>1. PICK top \in IdsOf(sel) : c.ids = {top} /\ Subtree(sel, top, u)
    BY <1>5
  <2> DEFINE f == [i \in Id |-> IF i \in c.ids THEN c.root ELSE c.fresh[i]]
             Up(n) == [n EXCEPT !.under = IF n.id = c.root THEN 0 ELSE @]
             A == {Up(n) : n \in Remapped(sel, f)}
  <2>2. new = A
    BY <1>5 DEF SourceTree
  <2>3. \A x \in IdsOf(sel) : f[x] = IF x = top THEN c.root ELSE c.fresh[x]
    BY <1>1, <2>1
  <2> HIDE DEF f
  <2>0. PICK g : RemapsBy(g, sel, f)
    BY RemappedNodes
  <2>4. /\ Remapped(sel, f) = {g[n] : n \in sel}
       /\ \A n \in sel : /\ NodeForm(g[n]) /\ g[n].id = f[n.id] /\ g[n].of = n.of
                         /\ g[n].under = IF n.under \in IdsOf(sel) THEN f[n.under] ELSE n.under
    BY <2>0 DEF RemapsBy
  <2>5. \A x, y \in IdsOf(sel) : f[x] = f[y] => x = y
    BY <1>1, <2>3
  <2>6. \A x \in IdsOf(sel) : f[x] \in Id /\ f[x] # 0 /\ f[x] \in {c.root} \cup Renewed(c.fresh)
    BY <1>1, <1>2, <2>3
  <2>7. f[top] = c.root
    BY <2>3
  <2>8. \A n \in sel : IF n.id = top THEN n.under \notin IdsOf(sel) ELSE n.under \in IdsOf(sel)
    BY <2>1 DEF Subtree
  <2>9. ASSUME NEW n \in sel
        PROVE  /\ Up(g[n]).id = f[n.id] /\ Up(g[n]).of = n.of
               /\ Up(g[n]).under = IF n.under \in IdsOf(sel) THEN f[n.under] ELSE 0
    <3> DEFINE m == g[n]
               v == IF m.id = c.root THEN 0 ELSE m.under
    <3>1. Up(m) = [m EXCEPT !.under = v]
      OBVIOUS
    <3>2. NodeForm(m) /\ m.id = f[n.id] /\ m.of = n.of
          /\ m.under = IF n.under \in IdsOf(sel) THEN f[n.under] ELSE n.under
      BY <2>4
    <3> HIDE DEF m
    <3>3. v = IF n.under \in IdsOf(sel) THEN f[n.under] ELSE 0
      <4>1. m.id = c.root <=> n.id = top
        BY <1>1, <2>5, <2>7, <3>2
      <4> QED
        BY <2>8, <3>2, <4>1
    <3> HIDE DEF v, Up
    <3>4. Up(m).id = m.id /\ Up(m).under = v /\ Up(m).of = m.of
      BY <3>1, <3>2, UnderIs
    <3> QED
      BY <3>2, <3>3, <3>4 DEF m
  <2> HIDE DEF Up
  <2> DEFINE h == [n \in sel |-> Up(g[n])]
  <2>10. A = {h[n] : n \in sel}
    BY <2>4
  <2>11. \A n \in sel : /\ h[n].id = f[n.id] /\ h[n].of = n.of
                        /\ h[n].under = IF n.under \in IdsOf(sel) THEN f[n.under] ELSE 0
    BY <2>9
  <2> HIDE DEF h, A
  <2>12. Copied(A, sel, f, 0)
    BY <2>10, <2>11 DEF Copied
  <2>13. Subtree(A, f[top], 0) /\ IdsOf(A) = {f[n.id] : n \in sel}
    <3>1. \A n \in sel : f[n.id] \in Id /\ f[n.id] # 0
      BY <1>1, <2>6
    <3>2. \A m, n \in sel : f[m.id] = f[n.id] => m.id = n.id
      BY <1>1, <2>5
    <3> QED
      BY <2>1, <2>12, <3>1, <3>2, RemapGrown
  <2> QED
    BY <1>1, <2>2, <2>6, <2>7, <2>13
<1> QED
  BY <1>4, <1>5

LEMMA ExtractAnswers ==
  ASSUME NEW d, DocForm(d), Planted(d), NEW c, CommandForm(c), c.type = "component.extract",
         Accepts(d, c), Renews(c.fresh, IdsOf(Selected(d, c))),
         Brings(c) \subseteq Id, Brings(c) \cap DocumentIds(d) = {},
         \A x \in IdsOf(Selected(d, c)) : c.fresh[x] # x,
         c.root # c.instance, {c.root, c.instance} \cap Renewed(c.fresh) = {}
  PROVE  Answers(d, c, After(d, c), InverseOf(d, c))
<1> DEFINE p == c.place
           x == c.component
           T == Tree(d, p)
           sel == Selected(d, c)
           def == SourceOf(d, c)
           u == The(d, p, CHOOSE id \in c.ids : TRUE).under
           k == InstanceNode(c, u)
           tree == (T \ sel) \cup {k}
           b == Placed(d, c)
           e == After(d, c)
           S == {Recreate(d, p, id) : id \in c.ids}
           i == [type |-> "node.delete", place |-> p, id |-> c.instance]
           j == [type |-> "component.delete", component |-> x]
           s == SetToSeq(S)
           I == InverseOf(d, c)
<1>1. /\ x \in Component /\ c.ids # {} /\ p \in Places(d)
      /\ \A id \in c.ids : Holds(d, p, id) /\ ~IsRoot(d, p, id)
      /\ \A a, z \in c.ids : The(d, p, a).under = The(d, p, z).under
      /\ c.reuse => \E id \in c.ids : c.ids = {id}
      /\ x \notin Defined(b)
  <2>1. ExtractAccepts(EnforceLocked, d, c)
    BY DEF Accepts
  <2>2. x \in Component
    BY DEF CommandForm, KeptForm, FirstForm
  <2> QED
    BY <2>1, <2>2 DEF ExtractAccepts, Addable
<1>2. Brings(c) = {c.root, c.instance} \cup Renewed(c.fresh) /\ Frees(c) = {}
  BY DEF Brings, Frees
<1>3. b = Plant(d, p, tree) /\ e = [b EXCEPT !.defs[x] = def]
  BY DEF Placed, After, Extracted
<1>4. I = <<i>> \o s \o <<j>>
  BY DEF InverseOf, ExtractInverse
<1>5. \A id \in c.ids : The(d, p, id).under = u
  <2>1. (CHOOSE id \in c.ids : TRUE) \in c.ids
    BY <1>1
  <2> QED
    BY <1>1, <2>1
<1>6. k.id = c.instance /\ k.under = u /\ NodeForm(k)
  BY <1>1, InstanceForm DEF InstanceNode
<1>7. /\ Brings(i) = {} /\ Frees(i) = {c.instance} /\ Payload(i)
      /\ Brings(j) = {} /\ Frees(j) = {} /\ Payload(j)
  BY DEF Brings, Frees, Payload
<1> HIDE DEF u, k, b, e, i, j, I, def
<1>8. /\ Whole(sel, T) /\ Grown(sel, u) /\ u \notin IdsOf(sel)
      /\ Rooted(d, p, T \ sel) /\ IdsOf(T \ sel) \cap IdsOf(sel) = {}
      /\ (p \in Page /\ u = 0) \/ \E m \in T \ sel : m.id = u /\ m.of = Plain
      /\ c.ids \subseteq IdsOf(sel)
      /\ \A a, z \in c.ids : a # z => IdsOf(Below(T, a)) \cap IdsOf(Below(T, z)) = {}
  <2>1. \A id \in c.ids : Holds(d, p, id) /\ ~IsRoot(d, p, id) /\ The(d, p, id).under = u
    BY <1>1, <1>5
  <2>2. sel = UNION {Below(T, id) : id \in c.ids}
    BY DEF Selected
  <2> HIDE DEF sel
  <2>3. c.ids # {}
    BY <1>1
  <2>4. Siblings(d, p, c.ids, u, sel)
    BY <2>1, <2>2, <2>3, SelectedOut
  <2> QED
    BY <2>4 DEF Siblings
<1>9. TreeForm(T) /\ TreeForm(sel) /\ sel \subseteq T
  <2>1. TreeForm(T) /\ sel \subseteq T
    BY <1>8, TreesForm DEF Whole
  <2> HIDE DEF sel, T
  <2> QED
    BY <2>1, FS_Subset DEF TreeForm
<1>10. /\ DocumentIds(d) = IdsBut(d, p) \cup IdsOf(T) /\ IdsBut(d, p) \cap IdsOf(T) = {}
       /\ DocumentIds(d) \subseteq Id /\ 0 \notin Id
  BY <1>1, IdsApart, PlantedIds
<1>11. IdsOf(sel) \subseteq IdsOf(T) /\ IdsOf(T \ sel) \subseteq IdsOf(T)
  BY <1>9 DEF IdsOf
<1>12. u \in DocumentIds(d) \cup {0}
  <2>1. (\E m \in T \ sel : m.id = u) => u \in IdsOf(T)
    BY DEF IdsOf
  <2> QED
    BY <1>8, <1>10, <2>1
<1> HIDE DEF sel
<1>13. Subtree(def.tree, def.root, 0) /\ IdsOf(def.tree) \subseteq {c.root} \cup Renewed(c.fresh)
  <2>1. def.tree = SourceTree(d, c) /\ def.root = c.root
    BY DEF def, SourceOf
  <2>2. c.reuse => \E id \in IdsOf(sel) : c.ids = {id} /\ Subtree(sel, id, u)
    <3> SUFFICES ASSUME c.reuse
                 PROVE  \E id \in IdsOf(sel) : c.ids = {id} /\ Subtree(sel, id, u)
      OBVIOUS
    <3>1. PICK id \in c.ids : c.ids = {id}
      BY <1>1
    <3>2. sel = Below(T, id)
      BY <3>1 DEF sel, Selected
    <3>3. Subtree(Below(T, id), id, The(d, p, id).under)
      BY <1>1, TakenOut
    <3> QED
      BY <1>5, <1>8, <3>1, <3>2, <3>3
  <2>3. u \notin Renewed(c.fresh) /\ Renewed(c.fresh) \cap IdsOf(sel) = {}
    BY <1>2, <1>10, <1>11, <1>12
  <2>4. c.root \in Id /\ c.root \notin Renewed(c.fresh)
    BY <1>2
  <2>5. sel = Selected(d, c)
    BY DEF sel
  <2> QED
    BY <1>8, <1>9, <2>1, <2>2, <2>3, <2>4, <2>5, ExtractedTree
<1>14. IdsOf(tree) = IdsOf(T \ sel) \cup {c.instance}
  BY <1>6 DEF IdsOf
<1>15. TreeForm(tree) /\ Rooted(d, p, tree)
  <2>1. TreeForm(T \ sel)
    BY <1>9, FS_Subset DEF TreeForm
  <2>2. IsFiniteSet(tree)
    BY <2>1, FS_AddElement DEF TreeForm
  <2>3. k.id \in Id /\ k.under # k.id
    BY <1>2, <1>6, <1>10, <1>12
  <2>4. Grown({k}, u) /\ IdsOf({k}) = {c.instance}
    BY <1>6, <2>3, OneGrown DEF Subtree
  <2>5. IdsOf(T \ sel) \cap IdsOf({k}) = {}
    BY <1>2, <1>10, <1>11, <2>4
  <2>6. Rooted(d, p, (T \ sel) \cup {k})
    BY <1>8, <2>4, <2>5, GraftRooted
  <2> QED
    BY <1>6, <2>1, <2>2, <2>6 DEF TreeForm
<1> HIDE DEF tree
<1>16. Planted(b) /\ DocumentIds(b) \subseteq IdsBut(d, p) \cup IdsOf(tree) /\ DocForm(b)
  <2>1. IdsOf(tree) \cap IdsBut(d, p) = {}
    BY <1>2, <1>10, <1>11, <1>14
  <2>2. p \in Places(d) /\ p \in Place
    BY <1>1, PlacesAre
  <2>3. Planted(b) /\ DocumentIds(b) \subseteq IdsBut(d, p) \cup IdsOf(tree)
    BY <1>3, <1>15, <2>1, <2>2, PlantPlants
  <2>4. DocForm(Plant(d, p, tree))
    BY <1>15, <2>2, PlantKeeps
  <2> QED
    BY <1>3, <2>3, <2>4
<1>17. IdsOf(def.tree) \cap IdsBut(b, x) = {}
  <2>1. IdsBut(b, x) \subseteq DocumentIds(b)
    BY IdsAre DEF IdsBut
  <2> QED
    BY <1>2, <1>10, <1>11, <1>13, <1>14, <1>16, <2>1
<1>18. /\ Planted(e)
       /\ DocumentIds(e) \subseteq IdsBut(b, x) \cup (IF def = NoDefinition THEN {} ELSE IdsOf(def.tree))
  BY <1>1, <1>3, <1>13, <1>16, <1>17, DefinePlants
<1>19. DocumentIds(e) \subseteq IdsBut(d, p) \cup IdsOf(T \ sel) \cup Brings(c)
  <2>1. IdsBut(b, x) \subseteq DocumentIds(b)
    BY IdsAre DEF IdsBut
  <2> QED
    BY <1>2, <1>13, <1>14, <1>16, <1>18, <2>1
<1>20. IdsOf(sel) \subseteq DocumentIds(d) \ DocumentIds(e)
  BY <1>8, <1>10, <1>11, <1>19
<1>21. /\ IsSeq(s)
       /\ \A m \in 1 .. Len(s) : s[m] \in S
       /\ \A m, n \in 1 .. Len(s) : s[m] = s[n] => m = n
  <2>1. IsFiniteSet(c.ids)
    <3>1. [n \in T |-> n.id] \in Surjection(T, IdsOf(T))
      BY DEF Surjection, IdsOf
    <3> HIDE DEF T
    <3>2. IsFiniteSet(IdsOf(T)) /\ c.ids \subseteq IdsOf(T)
      BY <1>8, <1>9, <1>11, <3>1, FS_Surjection DEF TreeForm
    <3> QED
      BY <3>2, FS_Subset
  <2> DEFINE ids == c.ids
  <2>2. [id \in ids |-> Recreate(d, p, id)] \in Surjection(ids, {Recreate(d, p, id) : id \in ids})
    BY DEF Surjection
  <2>3. IsFiniteSet(S)
    BY <2>1, <2>2, FS_Surjection
  <2> HIDE DEF S, ids
  <2> QED
    BY <2>3, ListOnce
<1>22. \A r \in S : \E id \in c.ids : /\ r = Recreate(d, p, id) /\ Payload(r) /\ Frees(r) = {}
                                      /\ Brings(r) = IdsOf(Below(T, id)) /\ Brings(r) \subseteq IdsOf(sel)
  <2> TAKE r \in S
  <2>1. PICK id \in c.ids : r = Recreate(d, p, id)
    OBVIOUS
  <2>2. Payload(r) /\ Brings(r) = IdsOf(Below(T, id)) /\ Frees(r) = {}
    BY <1>1, <2>1, RecreatesBelow
  <2>3. IdsOf(Below(T, id)) \subseteq IdsOf(sel)
    BY DEF sel, Selected, IdsOf
  <2> QED
    BY <2>1, <2>2, <2>3
<1> HIDE DEF S, s
<1>23. Loaded(s) /\ \A m \in 1 .. Len(s) : Frees(s[m]) = {} /\ Brings(s[m]) \subseteq IdsOf(sel)
  <2>1. \A m \in 1 .. Len(s) : Payload(s[m]) /\ Frees(s[m]) = {} /\ Brings(s[m]) \subseteq IdsOf(sel)
    BY <1>21, <1>22
  <2>2. ASSUME NEW m \in 1 .. Len(s), NEW n \in 1 .. m - 1
        PROVE  Brings(s[n]) \cap Brings(s[m]) = {}
    <3>1. n \in 1 .. Len(s) /\ n # m
      BY <1>21, LenNat
    <3>2. s[m] \in S /\ s[n] \in S /\ s[m] # s[n]
      BY <1>21, <3>1
    <3>3. PICK y \in c.ids : s[m] = Recreate(d, p, y) /\ Brings(s[m]) = IdsOf(Below(Tree(d, p), y))
      BY <1>22, <3>2
    <3>4. PICK z \in c.ids : s[n] = Recreate(d, p, z) /\ Brings(s[n]) = IdsOf(Below(Tree(d, p), z))
      BY <1>22, <3>2
    <3>5. IdsOf(Below(Tree(d, p), y)) \cap IdsOf(Below(Tree(d, p), z)) = {}
      BY <1>8, <3>2, <3>3, <3>4
    <3> QED
      BY <3>3, <3>4, <3>5
  <2>3. Tidy(s)
    <3>1. ASSUME NEW m \in 1 .. Len(s), NEW n \in 1 .. m - 1
          PROVE  Frees(s[n]) = {}
      <4>1. n \in 1 .. Len(s)
        BY <1>21, LenNat
      <4> QED
        BY <2>1, <4>1
    <3> QED
      BY <2>2, <3>1 DEF Tidy
  <2> QED
    BY <1>21, <2>1, <2>3 DEF Loaded
<1> HIDE DEF p, T
<1>24. \A r : IsSeq(<<r>>) /\ Len(<<r>>) = 1 /\ <<r>>[1] = r
  BY Single
<1>25. \A r : Tidy(<<r>>)
  BY <1>24 DEF Tidy
<1> DEFINE q == <<i>> \o s
<1>26. /\ IsSeq(q) /\ Len(q) = 1 + Len(s) /\ Len(s) \in Nat
       /\ q[1] = i /\ \A m \in 1 .. Len(s) : q[1 + m] = s[m]
  <2> DEFINE t == <<i>>
  <2>1. IsSeq(t) /\ Len(t) = 1 /\ t[1] = i
    BY <1>24
  <2>0. IsSeq(s) /\ IsSeq(t)
    BY <1>21, <2>1
  <2> HIDE DEF t
  <2>2. /\ Len(t \o s) = Len(t) + Len(s) /\ Len(s) \in Nat
        /\ \A m \in 1 .. Len(t) : (t \o s)[m] = t[m]
        /\ \A m \in 1 .. Len(s) : (t \o s)[Len(t) + m] = s[m]
    BY <2>0, JoinAt
  <2>3. IsSeq(t \o s)
    BY <1>21, <2>1, SeqJoin
  <2>4. (t \o s)[1] = t[1]
    BY <2>1, <2>2
  <2> QED
    BY <2>1, <2>2, <2>3, <2>4 DEF t
<1>27. Tidy(q)
  <2> DEFINE t == <<i>>
  <2>1. IsSeq(t) /\ Len(t) = 1 /\ t[1] = i /\ Tidy(t)
    BY <1>24, <1>25
  <2> HIDE DEF t
  <2>2. ASSUME NEW a \in 1 .. Len(t), NEW m \in 1 .. Len(s)
        PROVE  Brings(t[a]) = {} /\ Frees(t[a]) \cap Brings(s[m]) = {}
    <3>1. t[a] = i
      BY <2>1
    <3> QED
      BY <1>2, <1>7, <1>10, <1>11, <1>23, <3>1
  <2>3. Tidy(t \o s)
    <3>1. \A a \in 1 .. Len(t) : \A m \in 1 .. Len(s) :
             /\ \A y \in Brings(t[a]) \cap Brings(s[m]) : \E n \in 1 .. m - 1 : y \in Frees(s[n])
             /\ \A y \in Frees(t[a]) \cap Brings(s[m]) : Recreates(s[m], y)
      BY <2>2
    <3> QED
      BY <1>23, <2>1, <3>1, JoinTidy DEF Loaded
  <2> QED
    BY <2>3 DEF t
<1> HIDE DEF q
<1>28. \A m \in 1 .. Len(q) : /\ Payload(q[m]) /\ Frees(q[m]) \subseteq {c.instance}
                              /\ Brings(q[m]) \subseteq IdsOf(sel)
  <2> TAKE m \in 1 .. Len(q)
  <2>1. CASE m = 1
    BY <1>7, <1>26, <2>1
  <2>2. CASE m # 1
    <3>1. m - 1 \in 1 .. Len(s) /\ m = 1 + (m - 1)
      BY <1>26, <2>2
    <3>2. q[m] = s[m - 1]
      BY <1>26, <3>1
    <3> QED
      BY <1>23, <3>1, <3>2 DEF Loaded
  <2> QED
    BY <2>1, <2>2
<1>29. I = q \o <<j>>
  BY <1>4 DEF q
<1>30. /\ IsSeq(I) /\ Tidy(I)
       /\ \A m \in 1 .. Len(I) : /\ Payload(I[m]) /\ Frees(I[m]) \subseteq {c.instance}
                                 /\ Brings(I[m]) \subseteq IdsOf(sel)
  <2> DEFINE t == <<j>>
  <2>1. IsSeq(t) /\ Len(t) = 1 /\ t[1] = j /\ Tidy(t)
    BY <1>24, <1>25
  <2> HIDE DEF t
  <2>2. \A m \in 1 .. Len(t) : t[m] = j
    BY <2>1
  <2>3. /\ Len(q \o t) = Len(q) + Len(t) /\ Len(q) \in Nat
        /\ \A m \in 1 .. Len(q) : (q \o t)[m] = q[m]
        /\ \A m \in 1 .. Len(t) : (q \o t)[Len(q) + m] = t[m]
    BY <1>26, <2>1, JoinAt
  <2>4. IsSeq(q \o t)
    BY <1>26, <2>1, SeqJoin
  <2>5. Tidy(q \o t)
    <3>1. \A a \in 1 .. Len(q) : \A m \in 1 .. Len(t) :
             /\ \A y \in Brings(q[a]) \cap Brings(t[m]) : \E n \in 1 .. m - 1 : y \in Frees(t[n])
             /\ \A y \in Frees(q[a]) \cap Brings(t[m]) : Recreates(t[m], y)
      BY <1>7, <2>2
    <3> QED
      BY <1>26, <1>27, <2>1, <3>1, JoinTidy
  <2> DEFINE w == q \o t
  <2>6. \A m \in 1 .. Len(w) : (w[m] = q[m] /\ m \in 1 .. Len(q)) \/ w[m] = j
    BY <2>1, <2>3
  <2>7. I = w
    BY <1>29 DEF t
  <2> HIDE DEF w
  <2>8. \A m \in 1 .. Len(w) : /\ Payload(w[m]) /\ Frees(w[m]) \subseteq {c.instance}
                               /\ Brings(w[m]) \subseteq IdsOf(sel)
    BY <1>7, <1>28, <2>6
  <2> QED
    BY <2>4, <2>5, <2>7, <2>8 DEF w
<1>31. \A y : Needs(I, 1, y) => y \in IdsOf(sel)
  BY <1>30 DEF Needs
<1>32. \A y : Freed(I, y) => y \in Brings(c)
  BY <1>2, <1>30 DEF Freed
<1>33. Loaded(I)
  BY <1>30 DEF Loaded
<1>34. DocumentIds(e) \subseteq DocumentIds(d) \cup Brings(c)
  BY <1>10, <1>11, <1>19
<1>35. Answers(d, c, e, I)
  BY <1>2, <1>18, <1>20, <1>30, <1>31, <1>32, <1>33, <1>34 DEF Answers
<1> QED
  BY <1>35 DEF e, I

-----------------------------------------------------------------------------
(* Expansions: the paths of nested instances below an instance.              *)

LEMMA PathParts ==
  ASSUME NEW N, NEW s \in Seq(N), s # <<>>
  PROVE  /\ Len(s) \in Nat /\ Len(s) > 0
         /\ Front(s) \in Seq(N) /\ Len(Front(s)) = Len(s) - 1
         /\ \A i \in 1 .. Len(s) - 1 : Front(s)[i] = s[i]
         /\ Last(s) = s[Len(s)] /\ Last(s) \in N
         /\ Front(s) = <<>> <=> Len(s) = 1
<1>1. Len(s) \in Nat /\ Len(s) > 0 /\ \A i \in 1 .. Len(s) : s[i] \in N
  BY EmptySeq, ElementOfSeq
<1>2. /\ SubSeq(s, 1, Len(s) - 1) \in Seq(N)
      /\ Len(SubSeq(s, 1, Len(s) - 1)) = IF 1 <= Len(s) - 1 THEN Len(s) - 1 - 1 + 1 ELSE 0
      /\ \A i \in 1 .. Len(s) - 1 - 1 + 1 : SubSeq(s, 1, Len(s) - 1)[i] = s[1 + i - 1]
  <2>1. \A i \in 1 .. Len(s) - 1 : s[i] \in N
    BY <1>1
  <2>2. 1 \in Int /\ Len(s) - 1 \in Int
    BY <1>1
  <2> QED
    BY <2>1, <2>2, SubSeqProperties
<1>3. /\ Front(s) \in Seq(N) /\ Len(Front(s)) = Len(s) - 1
      /\ \A i \in 1 .. Len(s) - 1 : Front(s)[i] = s[i]
  <2> DEFINE f == SubSeq(s, 1, Len(s) - 1)
             k == Len(s) - 1
  <2>1. k \in Nat /\ k - 1 + 1 = k /\ \A i \in 1 .. k : 1 + i - 1 = i
    BY <1>1
  <2>2. /\ f \in Seq(N) /\ Len(f) = IF 1 <= k THEN k - 1 + 1 ELSE 0
        /\ \A i \in 1 .. k - 1 + 1 : f[i] = s[1 + i - 1]
    BY <1>2
  <2>3. Front(s) = f
    BY DEF Front
  <2> HIDE DEF f, k
  <2>4. Len(f) = k
    BY <2>1, <2>2
  <2>5. \A i \in 1 .. k : f[i] = s[i]
    BY <2>1, <2>2
  <2> QED
    BY <2>2, <2>3, <2>4, <2>5 DEF k
<1>4. Last(s) = s[Len(s)] /\ Last(s) \in N
  BY <1>1 DEF Last
<1>5. Front(s) = <<>> <=> Len(s) = 1
  <2> DEFINE f == Front(s)
  <2>1. f \in Seq(N) /\ Len(f) = Len(s) - 1
    BY <1>3
  <2> HIDE DEF f
  <2>2. f # <<>> => Len(f) \in Nat \ {0}
    BY <2>1, EmptySeq
  <2>3. f = <<>> => Len(f) = 0
    BY EmptySeq
  <2> QED
    BY <1>1, <2>1, <2>2, <2>3 DEF f
<1> QED
  BY <1>1, <1>3, <1>4, <1>5

(* Two sequences with the same last element and the same before it.          *)
LEMMA SamePath ==
  ASSUME NEW N, NEW s \in Seq(N), NEW t \in Seq(N), s # <<>>, t # <<>>,
         Front(s) = Front(t), Last(s) = Last(t)
  PROVE  s = t
<1>1. /\ Len(s) \in Nat /\ Len(s) > 0 /\ Len(Front(s)) = Len(s) - 1
      /\ \A i \in 1 .. Len(s) - 1 : Front(s)[i] = s[i]
      /\ Last(s) = s[Len(s)]
  BY PathParts
<1>2. /\ Len(t) \in Nat /\ Len(t) > 0 /\ Len(Front(t)) = Len(t) - 1
      /\ \A i \in 1 .. Len(t) - 1 : Front(t)[i] = t[i]
      /\ Last(t) = t[Len(t)]
  BY PathParts
<1>3. Len(s) = Len(t)
  BY <1>1, <1>2
<1>4. \A i \in 1 .. Len(s) : s[i] = t[i]
  <2> TAKE i \in 1 .. Len(s)
  <2>1. CASE i = Len(s)
    BY <1>1, <1>2, <1>3, <2>1
  <2>2. CASE i # Len(s)
    <3>1. i \in 1 .. Len(s) - 1
      BY <1>1, <2>2
    <3> QED
      BY <1>1, <1>2, <1>3, <3>1
  <2> QED
    BY <2>1, <2>2
<1> QED
  BY <1>3, <1>4, SeqEqual

LEMMA AppendParts ==
  ASSUME NEW N, NEW s \in Seq(N), NEW m \in N
  PROVE  /\ Append(s, m) \in Seq(N) /\ Append(s, m) # <<>>
         /\ Front(Append(s, m)) = s /\ Last(Append(s, m)) = m
<1> DEFINE q == Append(s, m)
<1>1. Len(s) \in Nat
  OBVIOUS
<1>2. q \in Seq(N) /\ Len(q) = Len(s) + 1 /\ q[Len(s) + 1] = m /\ \A i \in 1 .. Len(s) : q[i] = s[i]
  OBVIOUS
<1> HIDE DEF q
<1>3. q # <<>>
  BY <1>1, <1>2, EmptySeq
<1>4. /\ Front(q) \in Seq(N) /\ Len(Front(q)) = Len(q) - 1
      /\ \A i \in 1 .. Len(q) - 1 : Front(q)[i] = q[i]
      /\ Last(q) = q[Len(q)]
  BY <1>2, <1>3, PathParts
<1>5. Len(Front(q)) = Len(s) /\ \A i \in 1 .. Len(Front(q)) : Front(q)[i] = s[i]
  BY <1>1, <1>2, <1>4
<1>6. Front(q) = s
  BY <1>4, <1>5, SeqEqual
<1> QED
  BY <1>2, <1>3, <1>4, <1>6 DEF q

(* A path prolonged at its head: q is s with n before it.                    *)
Prolonged(N, n, one, s, q) ==
    /\ q \in Seq(N) /\ q # <<>> /\ Len(q) = Len(s) + 1
    /\ Last(q) = Last(s) /\ Front(q) = one \o Front(s)
    /\ \A m \in N : Append(Front(q), m) = one \o Append(Front(s), m)
    /\ Len(s) = 1 => Front(q) = one /\ q[Len(q) - 1] = n
    /\ Len(s) # 1 => q[Len(q) - 1] = s[Len(s) - 1]

LEMMA JoinedParts ==
  ASSUME NEW N, NEW n \in N, NEW s \in Seq(N), s # <<>>,
         NEW one \in Seq(N), Len(one) = 1, one[1] = n, NEW q, q = one \o s
  PROVE  Prolonged(N, n, one, s, q)
<1>1. one \in Seq(N) /\ Len(one) = 1 /\ one[1] = n
  OBVIOUS
<1>2. \A t \in Seq(N) : /\ one \o t \in Seq(N) /\ Len(t) \in Nat /\ Len(one \o t) = Len(t) + 1
                        /\ (one \o t)[1] = n
                        /\ \A i \in 2 .. Len(t) + 1 : (one \o t)[i] = t[i - 1]
  <2> TAKE t \in Seq(N)
  <2>1. /\ one \o t \in Seq(N)
        /\ Len(one \o t) = Len(one) + Len(t)
        /\ \A i \in 1 .. Len(one) + Len(t) : (one \o t)[i] = IF i <= Len(one) THEN one[i] ELSE t[i - Len(one)]
    BY <1>1, ConcatProperties
  <2>2. Len(t) \in Nat
    OBVIOUS
  <2> QED
    BY <1>1, <2>1, <2>2
<1>3. /\ Len(s) \in Nat /\ Len(s) > 0 /\ Front(s) \in Seq(N) /\ Len(Front(s)) = Len(s) - 1
      /\ \A i \in 1 .. Len(s) - 1 : Front(s)[i] = s[i]
      /\ Last(s) = s[Len(s)] /\ Last(s) \in N
      /\ Front(s) = <<>> <=> Len(s) = 1
  BY PathParts
<1>4. /\ q \in Seq(N) /\ Len(q) = Len(s) + 1 /\ q[1] = n
      /\ \A i \in 2 .. Len(s) + 1 : q[i] = s[i - 1]
  BY <1>2
<1>5. q # <<>>
  BY <1>3, <1>4, EmptySeq
<1>6. /\ Front(q) \in Seq(N) /\ Len(Front(q)) = Len(q) - 1
      /\ \A i \in 1 .. Len(q) - 1 : Front(q)[i] = q[i]
      /\ Last(q) = q[Len(q)]
  BY <1>4, <1>5, PathParts
<1>7. Last(q) = Last(s)
  <2>1. Len(q) \in 2 .. Len(s) + 1 /\ Len(q) - 1 = Len(s)
    BY <1>3, <1>4
  <2>2. q[Len(q)] = s[Len(q) - 1]
    BY <1>4, <2>1
  <2> QED
    BY <1>3, <1>6, <2>1, <2>2, Zenon
<1>8. Front(q) = one \o Front(s)
  <2> DEFINE r == one \o Front(s)
  <2>1. /\ r \in Seq(N) /\ Len(r) = Len(Front(s)) + 1 /\ r[1] = n
        /\ \A i \in 2 .. Len(Front(s)) + 1 : r[i] = Front(s)[i - 1]
    BY <1>2, <1>3
  <2> HIDE DEF r
  <2>2. Len(r) = Len(Front(q))
    BY <1>3, <1>4, <1>6, <2>1
  <2>3. \A i \in 1 .. Len(r) : r[i] = Front(q)[i]
    <3> TAKE i \in 1 .. Len(r)
    <3>1. CASE i = 1
      BY <1>3, <1>4, <1>6, <2>1, <3>1
    <3>2. CASE i # 1
      <4>1. i \in 2 .. Len(Front(s)) + 1 /\ i - 1 \in 1 .. Len(s) - 1 /\ i \in 2 .. Len(s) + 1
            /\ i \in 1 .. Len(q) - 1
        BY <1>3, <1>4, <2>1, <3>2
      <4> QED
        BY <1>3, <1>4, <1>6, <2>1, <4>1
    <3> QED
      BY <3>1, <3>2
  <2>4. r = Front(q)
    BY <1>6, <2>1, <2>2, <2>3, SeqEqual
  <2> QED
    BY <2>4 DEF r
<1>9. ASSUME NEW m \in N
      PROVE  Append(Front(q), m) = one \o Append(Front(s), m)
  <2> DEFINE f == Front(s)
  <2>1. f \in Seq(N) /\ Append(f, m) \in Seq(N) /\ one \o f \in Seq(N)
    BY <1>2, <1>3
  <2> HIDE DEF f
  <2>2. Append(f, m) = f \o <<m>> /\ Append(one \o f, m) = (one \o f) \o <<m>> /\ <<m>> \in Seq(N)
    BY <2>1, AppendIsConcat
  <2>3. (one \o f) \o <<m>> = one \o (f \o <<m>>)
    BY <1>1, <2>1, <2>2, ConcatAssociative
  <2> QED
    BY <1>8, <2>2, <2>3 DEF f
<1>10. Len(s) = 1 => Front(q) = one /\ q[Len(q) - 1] = n
  <2> SUFFICES ASSUME Len(s) = 1
               PROVE  Front(q) = one /\ q[Len(q) - 1] = n
    OBVIOUS
  <2>0. Front(s) = <<>> /\ Len(q) - 1 = 1
    BY <1>3, <1>4
  <2>1. Front(q) = one \o <<>> /\ Len(q) - 1 = 1
    BY <1>8, <2>0, Zenon
  <2>2. one \o <<>> = one
    BY <1>1, ConcatEmptySeq
  <2> QED
    BY <1>4, <2>1, <2>2
<1>11. Len(s) # 1 => q[Len(q) - 1] = s[Len(s) - 1]
  <2> SUFFICES ASSUME Len(s) # 1
               PROVE  q[Len(q) - 1] = s[Len(s) - 1]
    OBVIOUS
  <2>1. Len(q) - 1 \in 2 .. Len(s) + 1 /\ Len(q) - 1 - 1 = Len(s) - 1
    BY <1>3, <1>4
  <2> QED
    BY <1>4, <2>1
<1> QED
  BY <1>4, <1>5, <1>7, <1>8, <1>9, <1>10, <1>11 DEF Prolonged

(* The Source that the last node of a path is of.                            *)
HostOf(c, path) == IF Len(path) = 1 THEN c ELSE path[Len(path) - 1].of

SourceNodes(d) == UNION {Tree(d, x) : x \in Component}

(* With a path its beginnings, and its siblings.                             *)
Paths(d, c, P) ==
    \A path \in P :
        /\ path \in Seq(SourceNodes(d)) /\ path # <<>>
        /\ HostOf(c, path) \in Component /\ Last(path) \in Inner(d, HostOf(c, path))
        /\ \A m \in Inner(d, HostOf(c, path)) : Append(Front(path), m) \in P
        /\ Len(path) # 1 => Front(path) \in P

LEMMA NestPaths ==
  ASSUME NEW d, DocForm(d), NEW prev, \A x \in Component : Paths(d, x, prev[x]), NEW x \in Component
  PROVE  Paths(d, x, Nest(d, prev, x))
<1> DEFINE N == SourceNodes(d)
           P == Nest(d, prev, x)
<1>1. \A y \in Component : Inner(d, y) \subseteq N
  BY DEF Inner, SourceNodes
<1>2. \A path \in P : \/ \E n \in Inner(d, x) : path = <<n>>
                      \/ \E n \in Inner(d, x) : n.of # Plain /\ \E s \in prev[n.of] : path = <<n>> \o s
  BY DEF Nest
<1>3. \A n \in Inner(d, x) : <<n>> \in P
  BY DEF Nest
<1>4. \A n \in Inner(d, x) : n.of # Plain => \A s \in prev[n.of] : <<n>> \o s \in P
  <2> DEFINE in == {m \in Inner(d, x) : m.of # Plain}
             Behind(n) == {<<n>> \o path : path \in prev[n.of]}
  <2>1. \A n \in in : \A s \in prev[n.of] : <<n>> \o s \in Behind(n)
    OBVIOUS
  <2>2. UNION {Behind(n) : n \in in} \subseteq P
    BY DEF Nest
  <2>3. \A n \in Inner(d, x) : n.of # Plain => n \in in
    OBVIOUS
  <2> HIDE DEF in, Behind, P
  <2> QED
    BY <2>1, <2>2, <2>3
<1> HIDE DEF P, N
<1>5. ASSUME NEW path \in P, NEW n \in Inner(d, x), path = <<n>>
      PROVE  /\ path \in Seq(N) /\ path # <<>>
             /\ HostOf(x, path) \in Component /\ Last(path) \in Inner(d, HostOf(x, path))
             /\ \A m \in Inner(d, HostOf(x, path)) : Append(Front(path), m) \in P
             /\ Len(path) # 1 => Front(path) \in P
  <2>1. n \in N /\ <<n>> \in Seq(N) /\ Len(<<n>>) = 1 /\ <<n>> # <<>> /\ <<n>>[1] = n
    BY <1>1
  <2>2. Front(path) = <<>> /\ Last(path) = n
    BY <1>5, <2>1, PathParts
  <2>3. HostOf(x, path) = x
    BY <1>5, <2>1 DEF HostOf
  <2>4. \A m \in N : Append(<<>>, m) = <<m>>
    OBVIOUS
  <2>5. \A m \in Inner(d, x) : Append(Front(path), m) \in P
    BY <1>1, <1>3, <2>2, <2>4
  <2> QED
    BY <1>5, <2>1, <2>2, <2>3, <2>5
<1>6. ASSUME NEW path \in P, NEW n \in Inner(d, x), n.of # Plain, NEW s \in prev[n.of], path = <<n>> \o s
      PROVE  /\ path \in Seq(N) /\ path # <<>>
             /\ HostOf(x, path) \in Component /\ Last(path) \in Inner(d, HostOf(x, path))
             /\ \A m \in Inner(d, HostOf(x, path)) : Append(Front(path), m) \in P
             /\ Len(path) # 1 => Front(path) \in P
  <2>1. n \in N /\ n.of \in Component
    <3>1. n \in Tree(d, x) /\ TreeForm(Tree(d, x))
      BY TreesForm DEF Inner
    <3> QED
      BY <1>1, <1>6, <3>1 DEF TreeForm, NodeForm
  <2> DEFINE y == n.of
             h == HostOf(y, s)
  <2>2. /\ s \in Seq(N) /\ s # <<>>
        /\ h \in Component /\ Last(s) \in Inner(d, h)
        /\ \A m \in Inner(d, h) : Append(Front(s), m) \in prev[y]
        /\ Len(s) # 1 => Front(s) \in prev[y]
    BY <2>1 DEF Paths, N
  <2>3. Len(s) \in Nat /\ Len(s) > 0
    BY <2>2, PathParts
  <2> DEFINE q == path
  <2>4. /\ q \in Seq(N) /\ q # <<>> /\ Len(q) = Len(s) + 1
        /\ Last(q) = Last(s) /\ Front(q) = <<n>> \o Front(s)
        /\ \A m \in N : Append(Front(q), m) = <<n>> \o Append(Front(s), m)
        /\ Len(s) = 1 => Front(q) = <<n>> /\ q[Len(q) - 1] = n
        /\ Len(s) # 1 => q[Len(q) - 1] = s[Len(s) - 1]
    <3> DEFINE one == <<n>>
    <3>1. n \in N /\ s \in Seq(N) /\ s # <<>>
      BY <2>1, <2>2
    <3>2. q = one \o s
      BY <1>6 DEF q
    <3>3. one \in Seq(N) /\ Len(one) = 1 /\ one[1] = n
      BY <3>1
    <3> HIDE DEF q, one
    <3>4. Prolonged(N, n, one, s, q)
      BY <3>1, <3>2, <3>3, JoinedParts, Zenon
    <3>5. one = <<n>>
      BY DEF one
    <3> QED
      BY <3>4, <3>5, Zenon DEF Prolonged
  <2>8. path = q
    BY DEF q
  <2> HIDE DEF q
  <2>5. HostOf(x, q) = h
    BY <2>3, <2>4 DEF HostOf
  <2> HIDE DEF h
  <2>6. \A m \in Inner(d, h) : Append(Front(q), m) \in P
    BY <1>1, <1>4, <1>6, <2>2, <2>4
  <2>7. Front(q) \in P
    BY <1>3, <1>4, <1>6, <2>2, <2>4, <2>8
  <2> QED
    BY <2>2, <2>4, <2>5, <2>6, <2>7, <2>8
<1>7. Paths(d, x, P)
  BY <1>2, <1>5, <1>6 DEF Paths, N
<1> QED
  BY <1>7 DEF P

LEMMA InsidePaths ==
  ASSUME NEW d, DocForm(d)
  PROVE  \A c \in Component : Paths(d, c, Inside(d, c))
<1>1. MaxNesting \in Nat
  BY ComponentAssumption
<1>2. PICK u : Expansion(d, u)
  BY Expands
<1> DEFINE Good == {k \in 0 .. MaxNesting : \A x \in Component : Paths(d, x, u[k][x])}
<1>3. 0 \in Good
  <2>1. \A x \in Component : u[0][x] = {}
    BY <1>2 DEF Expansion
  <2> QED
    BY <1>1, <2>1 DEF Paths
<1>4. ASSUME NEW k \in 1 .. MaxNesting, k - 1 \in Good
      PROVE  k \in Good
  <2> DEFINE prev == u[k - 1]
  <2>1. \A x \in Component : Paths(d, x, prev[x])
    BY <1>4
  <2> HIDE DEF prev
  <2>2. \A x \in Component : Paths(d, x, Nest(d, prev, x))
    BY <2>1, NestPaths
  <2>3. \A x \in Component : u[k][x] = Nest(d, prev, x)
    BY <1>2 DEF Expansion, prev
  <2> QED
    BY <1>1, <2>2, <2>3
<1>5. MaxNesting \in Good
  <2> HIDE DEF Good
  <2>1. 0 .. MaxNesting \subseteq Good
    BY <1>1, <1>3, <1>4, Induction, Zenon
  <2> QED
    BY <1>1, <2>1
<1> QED
  BY <1>2, <1>5 DEF Expansion

(* Two documents with the same nodes in what an instance of c expands.       *)
LEMMA SameInside ==
  ASSUME NEW d, DocForm(d), NEW e, NEW R \in SUBSET Component,
         \A x \in R : Inner(d, x) = Inner(e, x) /\ Uses(d, x) \subseteq R
  PROVE  \A c \in R : Inside(d, c) = Inside(e, c)
<1>1. MaxNesting \in Nat
  BY ComponentAssumption
<1>2. PICK u : Expansion(d, u)
  BY Expands
<1>3. PICK v : Expansion(e, v)
  BY Expands
<1> DEFINE Good == {k \in 0 .. MaxNesting : \A x \in R : u[k][x] = v[k][x]}
<1>4. 0 \in Good
  <2>1. \A x \in Component : u[0][x] = {} /\ v[0][x] = {}
    BY <1>2, <1>3 DEF Expansion
  <2>2. \A x \in R : u[0][x] = v[0][x]
    BY <2>1
  <2> QED
    BY <1>1, <2>2
<1>5. ASSUME NEW k \in 1 .. MaxNesting, k - 1 \in Good
      PROVE  k \in Good
  <2> DEFINE a == u[k - 1]
             b == v[k - 1]
  <2>1. \A x \in R : a[x] = b[x]
    BY <1>5
  <2>2. \A x \in R : u[k][x] = Nest(d, a, x) /\ v[k][x] = Nest(e, b, x)
    BY <1>2, <1>3 DEF Expansion
  <2> HIDE DEF a, b
  <2>3. ASSUME NEW x \in R
        PROVE  Nest(d, a, x) = Nest(e, b, x)
    <3> DEFINE in == Inner(d, x)
    <3>1. Inner(e, x) = in
      OBVIOUS
    <3>2. \A n \in in : n.of # Plain => n.of \in R
      BY DEF Inner, Uses
    <3> HIDE DEF in
    <3>3. \A n \in in : n.of # Plain => a[n.of] = b[n.of]
      BY <2>1, <3>2
    <3> DEFINE nested == {m \in in : m.of # Plain}
               Behind(n, S) == {<<n>> \o path : path \in S}
               A == UNION {Behind(n, a[n.of]) : n \in nested}
               B == UNION {Behind(n, b[n.of]) : n \in nested}
    <3>4. A = B
      <4>1. \A n \in nested : a[n.of] = b[n.of]
        BY <3>3
      <4> HIDE DEF nested, Behind
      <4>2. \A n \in nested : Behind(n, a[n.of]) = Behind(n, b[n.of])
        BY <4>1
      <4> QED
        BY <4>2
    <3>5. Nest(d, a, x) = {<<n>> : n \in in} \cup A
      BY DEF Nest, in
    <3>6. Nest(e, b, x) = {<<n>> : n \in in} \cup B
      BY <3>1 DEF Nest
    <3> HIDE DEF A, B
    <3> QED
      BY <3>4, <3>5, <3>6
  <2> QED
    BY <1>1, <2>2, <2>3
<1>6. MaxNesting \in Good
  <2> HIDE DEF Good
  <2>1. 0 .. MaxNesting \subseteq Good
    BY <1>1, <1>4, <1>5, Induction, Zenon
  <2> QED
    BY <1>1, <2>1
<1> QED
  BY <1>2, <1>3, <1>6 DEF Expansion

-----------------------------------------------------------------------------
(* Detaching: the expansion of an instance becomes a tree of its own.        *)

LEMMA HostIs ==
  ASSUME NEW N, NEW path \in Seq(N), path # <<>>, NEW c
  PROVE  HostOf(c, path) = IF Front(path) = <<>> THEN c ELSE Last(Front(path)).of
<1>1. /\ Len(path) \in Nat /\ Len(path) > 0
      /\ Front(path) \in Seq(N) /\ Len(Front(path)) = Len(path) - 1
      /\ \A i \in 1 .. Len(path) - 1 : Front(path)[i] = path[i]
      /\ Front(path) = <<>> <=> Len(path) = 1
  BY PathParts
<1>2. CASE Len(path) = 1
  BY <1>1, <1>2 DEF HostOf
<1>3. CASE Len(path) # 1
  <2> DEFINE f == Front(path)
  <2>1. f # <<>> /\ f \in Seq(N)
    BY <1>1, <1>3
  <2>2. Last(f) = f[Len(f)]
    BY <2>1, PathParts
  <2>3. Len(path) - 1 \in 1 .. Len(path) - 1
    BY <1>1, <1>3
  <2>4. f[Len(f)] = path[Len(path) - 1]
    BY <1>1, <2>3
  <2> QED
    BY <1>3, <2>1, <2>2, <2>4 DEF HostOf
<1> QED
  BY <1>2, <1>3

(* The parents of the nodes of an expansion are in it, or are its root.      *)
LEMMA ParentIn ==
  ASSUME NEW d, DocForm(d), Planted(d), NEW c \in Component, NEW path \in Inside(d, c)
  PROVE  LET host == HostOf(c, path)
             n == Last(path)
         IN  /\ path \in Seq(SourceNodes(d)) /\ path # <<>>
             /\ host \in Defined(d) /\ n \in Tree(d, host) /\ Subtree(Tree(d, host), d.defs[host].root, 0)
             /\ ParentPath(d, c, path) = IF n.under = d.defs[host].root THEN Front(path)
                                         ELSE Append(Front(path), The(d, host, n.under))
             /\ n.under # d.defs[host].root => /\ The(d, host, n.under) \in Inner(d, host)
                                               /\ The(d, host, n.under).id = n.under
             /\ ParentPath(d, c, path) = <<>> \/ ParentPath(d, c, path) \in Inside(d, c)
<1> DEFINE P == Inside(d, c)
           host == HostOf(c, path)
           n == Last(path)
           N == SourceNodes(d)
           root == d.defs[host].root
           parent == The(d, host, n.under)
<1>1. Paths(d, c, P)
  BY InsidePaths
<1> HIDE DEF P, N
<1>2. /\ path \in Seq(N) /\ path # <<>>
      /\ host \in Component /\ n \in Inner(d, host)
      /\ \A m \in Inner(d, host) : Append(Front(path), m) \in P
      /\ Len(path) # 1 => Front(path) \in P
  BY <1>1 DEF Paths, P, N
<1>3. ParentPath(d, c, path) = IF n.under = root THEN Front(path) ELSE Append(Front(path), parent)
  BY DEF ParentPath, HostOf
<1> HIDE DEF host, n
<1>4. n \in Tree(d, host) /\ ~IsRoot(d, host, n.id)
  BY <1>2 DEF Inner
<1>5. host \in Defined(d) /\ host \in Places(d) /\ host \notin Page
  BY <1>2, <1>4, ComponentAssumption DEF Tree, Places
<1>6. Subtree(Tree(d, host), root, 0)
  BY <1>5 DEF Planted, Rooted
<1>7. n.id # root
  BY <1>4, <1>5 DEF IsRoot
<1>8. n.under \in IdsOf(Tree(d, host))
  BY <1>4, <1>6, <1>7 DEF Subtree
<1>9. n.under # root => parent \in Inner(d, host) /\ parent.id = n.under
  <2>1. parent \in Tree(d, host) /\ parent.id = n.under
    BY <1>8, TheIn DEF Holds
  <2> QED
    BY <2>1 DEF Inner, IsRoot
<1>10. Front(path) = <<>> \/ Front(path) \in P
  BY <1>2, PathParts
<1>11. ParentPath(d, c, path) = <<>> \/ ParentPath(d, c, path) \in P
  BY <1>2, <1>3, <1>9, <1>10
<1> QED
  BY <1>2, <1>3, <1>4, <1>5, <1>6, <1>9, <1>11 DEF P, N, host, n

(* The expansion of an instance of c under the ids g, its root under top.    *)
IdIn(g, top, path) == IF path = <<>> THEN top ELSE g[path]

Laid(d, c, g, top, u, new) ==
    \E r, k : /\ new = {r} \cup {k[path] : path \in Inside(d, c)}
              /\ r.id = top /\ r.under = u /\ r.of = Plain
              /\ \A path \in Inside(d, c) : /\ k[path].id = g[path] /\ k[path].of = Plain
                                            /\ k[path].under = IdIn(g, top, ParentPath(d, c, path))

LEMMA LaidGrown ==
  ASSUME NEW d, DocForm(d), Planted(d), NEW c \in Component, NEW g, NEW top \in Id, NEW u, u # top,
         \A path \in Inside(d, c) : g[path] \in Id \ {top} /\ g[path] # u,
         \A a, b \in Inside(d, c) : g[a] = g[b] => a = b,
         NEW new, Laid(d, c, g, top, u, new)
  PROVE  Subtree(new, top, u) /\ IdsOf(new) = {top} \cup {g[path] : path \in Inside(d, c)}
<1> DEFINE P == Inside(d, c)
           Up(path) == ParentPath(d, c, path)
           N == SourceNodes(d)
<1>1. PICK r, k : /\ new = {r} \cup {k[path] : path \in P}
                  /\ r.id = top /\ r.under = u /\ r.of = Plain
                  /\ \A path \in P : /\ k[path].id = g[path] /\ k[path].of = Plain
                                     /\ k[path].under = IdIn(g, top, Up(path))
  BY DEF Laid
<1>2. \A path \in P : Up(path) = <<>> \/ Up(path) \in P
  BY ParentIn
<1>3. \A path \in P : path \in Seq(N) /\ path # <<>>
  BY ParentIn
<1> HIDE DEF P, Up, N
<1>4. IdsOf(new) = {top} \cup {g[path] : path \in P}
  <2>1. \A y \in IdsOf(new) : y \in {top} \cup {g[path] : path \in P}
    BY <1>1 DEF IdsOf
  <2>2. top \in IdsOf(new)
    BY <1>1 DEF IdsOf
  <2>3. \A path \in P : g[path] \in IdsOf(new)
    BY <1>1 DEF IdsOf
  <2> QED
    BY <2>1, <2>2, <2>3
<1>5. \A path \in P : k[path].under \in IdsOf(new)
  BY <1>1, <1>2, <1>4 DEF IdIn
<1>6. \A m \in new : m.id \in Id
  BY <1>1 DEF P
<1>7. \A m, n \in new : m.id = n.id => m = n
  BY <1>1 DEF P
<1>8. \A S \in SUBSET new : S # {} => \E m \in S : m.under \notin IdsOf(S)
  <2> SUFFICES ASSUME NEW S \in SUBSET new, S # {}, \A m \in S : m.under \in IdsOf(S)
               PROVE  FALSE
    OBVIOUS
  <2>1. u \notin IdsOf(new)
    BY <1>4 DEF P
  <2>2. r \notin S
    BY <1>1, <2>1 DEF IdsOf
  <2>3. top \notin IdsOf(S)
    BY <1>1, <1>7, <2>2 DEF IdsOf
  <2> DEFINE Q == {path \in P : k[path] \in S}
             L == {Len(path) : path \in Q}
  <2>4. Q # {}
    BY <1>1, <2>2
  <2>5. \A path \in P : g[path] \in IdsOf(S) => path \in Q
    BY <1>1, <2>2, <2>3 DEF IdsOf, P
  <2>6. \A path \in Q : path \in P /\ Up(path) \in Q
    <3> SUFFICES ASSUME NEW path \in Q
                 PROVE  Up(path) \in Q
      OBVIOUS
    <3>1. IdIn(g, top, Up(path)) \in IdsOf(S)
      BY <1>1
    <3> QED
      BY <1>2, <2>3, <2>5, <3>1 DEF IdIn
  <2>7. L # {} /\ L \in SUBSET Nat
    BY <1>3, <2>4
  <2>8. PICK least \in L : \A y \in L : least <= y
    BY <2>7, LeastNat
  <2>9. PICK a \in Q : Len(a) = least
    BY <2>8
  <2>10. a \in P
    OBVIOUS
  <2>11. \A path \in Q : Len(a) <= Len(path)
    BY <2>8, <2>9
  <2> HIDE DEF Q, L
  <2> DEFINE f == Front(a)
             host == HostOf(c, a)
             B == {m \in Tree(d, host) : Append(f, m) \in Q}
             root == d.defs[host].root
  <2>12. a \in Seq(N) /\ a # <<>>
    BY <1>3, <2>10
  <2>13. /\ Len(a) \in Nat /\ Len(a) > 0 /\ f \in Seq(N) /\ Len(f) = Len(a) - 1 /\ Last(a) \in N
    BY <2>12, PathParts
  <2>14. f \notin Q
    BY <2>11, <2>13
  <2>15. Last(a) \in Tree(d, host) /\ Subtree(Tree(d, host), root, 0)
    BY <2>10, ParentIn DEF P
  <2>16. a = Append(f, Last(a))
    <3>1. /\ Append(f, Last(a)) \in Seq(N) /\ Append(f, Last(a)) # <<>>
          /\ Front(Append(f, Last(a))) = f /\ Last(Append(f, Last(a))) = Last(a)
      BY <2>13, AppendParts
    <3> QED
      BY <2>12, <3>1, SamePath
  <2>17. Last(a) \in B
    BY <2>9, <2>15, <2>16
  <2>18. B \in SUBSET Tree(d, host) /\ B # {}
    BY <2>17
  <2> HIDE DEF B
  <2>19. PICK m \in B : m.under \notin IdsOf(B)
    BY <2>15, <2>18 DEF Subtree, Grown
  <2> DEFINE b == Append(f, m)
  <2>20. b \in Q /\ m \in Tree(d, host)
    BY DEF B
  <2>21. b \in P /\ b \in Seq(N) /\ b # <<>>
    BY <1>3, <2>20, <2>6
  <2>22. m \in N
    BY <2>15, <2>20, PlacesAre, ParentIn, <2>10 DEF SourceNodes, N, P
  <2>23. Front(b) = f /\ Last(b) = m
    BY <2>13, <2>22, AppendParts
  <2> HIDE DEF b
  <2>24. HostOf(c, b) = host
    <3>1. HostOf(c, b) = IF Front(b) = <<>> THEN c ELSE Last(Front(b)).of
      BY <2>21, HostIs
    <3>2. HostOf(c, a) = IF Front(a) = <<>> THEN c ELSE Last(Front(a)).of
      BY <2>12, HostIs
    <3> QED
      BY <2>23, <3>1, <3>2
  <2> HIDE DEF host
  <2>25. /\ Up(b) = IF m.under = root THEN f ELSE Append(f, The(d, host, m.under))
         /\ m.under # root => /\ The(d, host, m.under) \in Inner(d, host)
                              /\ The(d, host, m.under).id = m.under
    BY <2>21, <2>23, <2>24, ParentIn DEF P, Up
  <2>26. Up(b) \in Q
    BY <2>6, <2>20
  <2>27. m.under # root /\ Append(f, The(d, host, m.under)) \in Q
    BY <2>14, <2>25, <2>26
  <2>28. The(d, host, m.under) \in B
    BY <2>25, <2>27 DEF B, Inner
  <2> QED
    BY <2>19, <2>25, <2>27, <2>28 DEF IdsOf
<1>9. Grown(new, u)
  <2>1. \A m \in new : m.under = u \/ m.under \in IdsOf(new)
    BY <1>1, <1>5
  <2>2. \A m \in new : m.of = Plain
    BY <1>1
  <2> QED
    BY <1>6, <1>7, <1>8, <2>1, <2>2 DEF Grown
<1>10. \A m \in new : IF m.id = top THEN m.under = u ELSE m.under \in IdsOf(new)
  BY <1>1, <1>5 DEF P
<1> QED
  BY <1>4, <1>9, <1>10 DEF Subtree, P

LEMMA ListIndex ==
  ASSUME NEW S, IsFiniteSet(S), NEW x \in S, NEW i, i = SelectInSeq(SetToSeq(S), LAMBDA q : q = x)
  PROVE  i \in 1 .. Cardinality(S) /\ SetToSeq(S)[i] = x
<1> DEFINE s == SetToSeq(S)
           I == {j \in 1 .. Len(s) : s[j] = x}
<1>1. /\ Len(s) = Cardinality(S) /\ Cardinality(S) \in Nat
      /\ \A a, b \in 1 .. Len(s) : s[a] = s[b] => a = b
      /\ \E j \in 1 .. Len(s) : s[j] = x
  BY ListOnce
<1> HIDE DEF s
<1>2. PICK j \in 1 .. Len(s) : s[j] = x
  BY <1>1
<1>3. I = {j}
  BY <1>1, <1>2
<1>4. i = IF I # {} THEN Min(I) ELSE 0
  BY DEF SelectInSeq, s
<1> HIDE DEF I
<1>5. Min(I) = j
  <2>1. j \in Nat
    BY <1>1, <1>2
  <2> QED
    BY <1>3, <2>1 DEF Min
<1> QED
  BY <1>1, <1>2, <1>3, <1>4, <1>5 DEF s

(* An id for each of the paths P, no id twice.                               *)
FreshIds(P, fresh) ==
    /\ DOMAIN fresh = 1 .. Cardinality(P)
    /\ \A i \in DOMAIN fresh : fresh[i] \in Id
    /\ \A i, j \in DOMAIN fresh : fresh[i] = fresh[j] => i = j

(* g: the ids that a detached expansion gets, new ones and no id twice.      *)
Spread(d, c, n, g) ==
    /\ Laid(d, n.of, g, c.id, n.under, Materialized(d, c))
    /\ \A path \in Inside(d, n.of) : g[path] \in Id /\ \E i \in DOMAIN c.fresh : g[path] = c.fresh[i]
    /\ \A a, b \in Inside(d, n.of) : g[a] = g[b] => a = b

LEMMA MaterializedLaid ==
  ASSUME NEW d, DocForm(d), Planted(d), NEW c, NEW n, n = The(d, c.place, c.id), n.of \in Component,
         FreshIds(Inside(d, n.of), c.fresh)
  PROVE  \E g : Spread(d, c, n, g)
<1> DEFINE P == Inside(d, n.of)
           paths == SetToSeq(P)
           Up(path) == ParentPath(d, n.of, path)
           At(path) == SelectInSeq(paths, LAMBDA q : q = path)
           idOf(path) == IF path = <<>> THEN c.id ELSE c.fresh[At(path)]
           r == PlainNode(c.id, n.under, ComposedLock(d, n))
           Made(path) == PlainNode(idOf(path), idOf(Up(path)), ComposedLock(d, Last(path)))
           M == Materialized(d, c)
<1>1. M = {r} \cup {Made(path) : path \in Range(paths)}
  BY DEF Materialized
<1>2. IsFiniteSet(P)
  BY InsideFinite
<1>3. Range(paths) = P
  <2> DEFINE N == 1 .. Len(paths)
  <2>1. /\ \A i \in N : paths[i] \in P
        /\ \A x \in P : \E i \in N : paths[i] = x
        /\ IsSeq(paths)
    BY <1>2, ListOnce
  <2> HIDE DEF paths, P
  <2>2. DOMAIN paths = N
    BY <2>1 DEF IsSeq
  <2> HIDE DEF N
  <2> QED
    BY <2>1, <2>2 DEF Range
<1>4. \A path \in P : path # <<>>
  BY InsidePaths DEF Paths
<1>5. \A path \in P : At(path) \in 1 .. Cardinality(P) /\ paths[At(path)] = path
  <2> TAKE path \in P
  <2> DEFINE i == At(path)
  <2>1. i = SelectInSeq(SetToSeq(P), LAMBDA q : q = path)
    OBVIOUS
  <2> HIDE DEF i, P
  <2>2. i \in 1 .. Cardinality(P) /\ SetToSeq(P)[i] = path
    BY <1>2, <2>1, ListIndex
  <2> QED
    BY <2>2 DEF i
<1> DEFINE g == [path \in P |-> c.fresh[At(path)]]
           k == [path \in P |-> Made(path)]
<1>6. \A path \in P : g[path] = c.fresh[At(path)] /\ k[path] = Made(path)
  OBVIOUS
<1>7. \A path : IdIn(g, c.id, path) = IF path = <<>> THEN c.id ELSE g[path]
  BY DEF IdIn
<1> HIDE DEF At, P, paths, M, g, k
<1>8. \A path \in P : g[path] \in Id /\ \E i \in DOMAIN c.fresh : g[path] = c.fresh[i]
  BY <1>5, <1>6 DEF FreshIds, P
<1>9. \A a, b \in P : g[a] = g[b] => a = b
  <2> TAKE a, b \in P
  <2>1. At(a) \in DOMAIN c.fresh /\ At(b) \in DOMAIN c.fresh
    BY <1>5 DEF FreshIds, P
  <2>2. g[a] = g[b] => At(a) = At(b)
    BY <1>6, <2>1 DEF FreshIds
  <2> QED
    BY <1>5, <2>2
<1>10. \A path \in P : Up(path) = <<>> \/ Up(path) \in P
  BY ParentIn DEF P
<1>11. Laid(d, n.of, g, c.id, n.under, M)
  <2>1. M = {r} \cup {k[path] : path \in P}
    BY <1>1, <1>3, <1>6
  <2>2. r.id = c.id /\ r.under = n.under /\ r.of = Plain
    BY DEF PlainNode
  <2>3. \A path \in P : /\ k[path].id = g[path] /\ k[path].of = Plain
                        /\ k[path].under = IdIn(g, c.id, Up(path))
    <3> TAKE path \in P
    <3> DEFINE up == Up(path)
    <3>0. k[path] = Made(path)
      BY <1>6
    <3> HIDE DEF idOf
    <3>1. k[path].id = idOf(path) /\ k[path].of = Plain /\ k[path].under = idOf(up)
      BY <3>0 DEF PlainNode
    <3> USE DEF idOf
    <3>2. idOf(path) = g[path]
      BY <1>4, <1>6
    <3>3. up = <<>> \/ up \in P
      BY <1>10
    <3> HIDE DEF up
    <3>4. idOf(up) = IdIn(g, c.id, up)
      BY <1>6, <1>7, <3>3
    <3> QED
      BY <3>1, <3>2, <3>4 DEF up
  <2> HIDE DEF r, Up
  <2>4. \E r2, k2 : /\ M = {r2} \cup {k2[path] : path \in P}
                    /\ r2.id = c.id /\ r2.under = n.under /\ r2.of = Plain
                    /\ \A path \in P : /\ k2[path].id = g[path] /\ k2[path].of = Plain
                                       /\ k2[path].under = IdIn(g, c.id, Up(path))
    BY <2>1, <2>2, <2>3, Zenon
  <2> QED
    BY <2>4, Zenon DEF Laid, P, Up
<1>12. Spread(d, c, n, g)
  BY <1>8, <1>9, <1>11 DEF Spread, P, M
<1> QED
  BY <1>12

LEMMA DetachAnswers ==
  ASSUME NEW d, DocForm(d), Planted(d), NEW c, CommandForm(c), c.type = "component-instance.detach",
         Accepts(d, c), FreshIds(Inside(d, The(d, c.place, c.id).of), c.fresh),
         Brings(c) \cap DocumentIds(d) = {}
  PROVE  Answers(d, c, After(d, c), InverseOf(d, c))
<1> DEFINE p == c.place
           n == The(d, p, c.id)
           T == Tree(d, p)
           S == Below(T, c.id)
           new == Materialized(d, c)
           tree == (T \ {n}) \cup new
           P == Inside(d, n.of)
           u == n.under
           e == After(d, c)
<1>1. Holds(d, p, c.id) /\ ~IsRoot(d, p, c.id) /\ n.of # Plain
  BY DEF Accepts, DetachAccepts, IsInstance
<1>2. e = Plant(d, p, tree)
  BY DEF After, Detached
<1>3. Brings(c) = {c.fresh[i] : i \in DOMAIN c.fresh} /\ Frees(c) = {} /\ c.type # "node.create"
  BY DEF Brings, Frees
<1>4. n \in T /\ n.id = c.id /\ n.of \in Component
  <2>1. n \in T /\ n.id = c.id
    BY <1>1, TheIn
  <2>2. TreeForm(T)
    BY TreesForm
  <2> HIDE DEF n, T
  <2> QED
    BY <1>1, <2>1, <2>2 DEF TreeForm, NodeForm
<1>5. Siblings(d, p, {c.id}, u, S)
  <2> DEFINE ids == {c.id}
  <2>1. ids # {} /\ \A id \in ids : Holds(d, p, id) /\ ~IsRoot(d, p, id) /\ The(d, p, id).under = u
    BY <1>1
  <2>2. S = UNION {Below(T, id) : id \in ids}
    OBVIOUS
  <2> HIDE DEF ids, S, u
  <2>3. Siblings(d, p, ids, u, S)
    BY <2>1, <2>2, SelectedOut
  <2> QED
    BY <2>3 DEF ids
<1>6. p \in Places(d) /\ Grown(T, 0)
  BY <1>5, RootedGrown DEF Siblings, Planted
<1>7. S = {n}
  <2>1. Whole(S, T) /\ n \in S
    BY <1>4, BelowWhole
  <2>2. \A k \in T : k.under # c.id
    BY <1>1, <1>4, <1>6 DEF Grown
  <2>3. IdsOf(S) \subseteq {c.id}
    <3> DEFINE one == {c.id}
    <3>1. one \in SUBSET IdsOf(T) /\ c.id \in one
      BY <1>4 DEF IdsOf
    <3>2. \A k \in T : k.under \in one => k.id \in one
      BY <2>2
    <3> HIDE DEF one, T
    <3>3. IdsOf(Below(T, c.id)) \subseteq one
      BY <3>1, <3>2, BelowLeast
    <3> QED
      BY <3>3 DEF one
  <2> HIDE DEF S, n, T
  <2>4. \A k \in S : k = n
    <3> TAKE k \in S
    <3>1. k.id = c.id /\ k \in T
      BY <2>1, <2>3 DEF Whole, IdsOf
    <3> QED
      BY <1>4, <1>6, <3>1 DEF Grown
  <2> QED
    BY <2>1, <2>4
<1> HIDE DEF S
<1>8. /\ u \notin IdsOf({n}) /\ Rooted(d, p, T \ {n}) /\ IdsOf(T \ {n}) \cap IdsOf({n}) = {}
      /\ (p \in Page /\ u = 0) \/ \E m \in T \ {n} : m.id = u /\ m.of = Plain
  BY <1>5, <1>7 DEF Siblings
<1>9. IdsOf({n}) = {c.id}
  BY <1>4 DEF IdsOf
<1>10. DocumentIds(d) = IdsBut(d, p) \cup IdsOf(T) /\ IdsBut(d, p) \cap IdsOf(T) = {}
  BY <1>6, IdsApart
<1>11. c.id \in IdsOf(T) /\ c.id \in Id /\ u \in DocumentIds(d) \cup {0} /\ 0 \notin Id
  BY <1>4, <1>6, <1>8, <1>10 DEF IdsOf, Grown, Id
<1>12. PICK g : /\ Laid(d, n.of, g, c.id, u, new)
                /\ \A path \in P : g[path] \in Id /\ \E i \in DOMAIN c.fresh : g[path] = c.fresh[i]
                /\ \A a, b \in P : g[a] = g[b] => a = b
  <2>1. n = The(d, c.place, c.id) /\ n.of \in Component /\ FreshIds(Inside(d, n.of), c.fresh)
    BY <1>4
  <2> HIDE DEF n
  <2>2. \E g : Spread(d, c, n, g)
    BY <2>1, MaterializedLaid
  <2> QED
    BY <2>2 DEF Spread
<1>13. \A path \in P : g[path] \in Brings(c)
  BY <1>3, <1>12
<1>14. Subtree(new, c.id, u) /\ IdsOf(new) = {c.id} \cup {g[path] : path \in P}
  <2>1. u # c.id
    BY <1>8, <1>9
  <2>2. \A path \in P : g[path] \in Id \ {c.id} /\ g[path] # u
    BY <1>10, <1>11, <1>12, <1>13
  <2> HIDE DEF u, new
  <2> QED
    BY <1>4, <1>11, <1>12, <2>1, <2>2, LaidGrown
<1>15. TreeForm(tree)
  <2>1. TreeForm(new)
    BY <1>4, MaterializedForm
  <2>2. TreeForm(T)
    BY TreesForm
  <2> HIDE DEF new, n, T
  <2> QED
    BY <2>1, <2>2, FS_Subset, FS_Union DEF TreeForm
<1> HIDE DEF new, T, P, n, u
<1>16. IdsOf(new) \subseteq {c.id} \cup Brings(c)
  BY <1>13, <1>14
<1>17. IdsOf(T \ {n}) \subseteq IdsOf(T) /\ IdsOf(tree) \subseteq IdsOf(T \ {n}) \cup IdsOf(new)
  BY DEF IdsOf
<1>18. IdsOf(T \ {n}) \cap IdsOf(new) = {}
  BY <1>8, <1>9, <1>10, <1>16, <1>17
<1>19. Rooted(d, p, tree)
  <2> DEFINE rest == T \ {n}
  <2>1. Rooted(d, p, rest) /\ Grown(new, u) /\ IdsOf(rest) \cap IdsOf(new) = {}
    BY <1>8, <1>14, <1>18 DEF Subtree
  <2>2. (p \in Page /\ u = 0) \/ \E m \in rest : m.id = u /\ m.of = Plain
    BY <1>8
  <2> HIDE DEF rest
  <2>3. Rooted(d, p, rest \cup new)
    BY <2>1, <2>2, GraftRooted
  <2> QED
    BY <2>3 DEF rest
<1>20. IdsOf(tree) \cap IdsBut(d, p) = {}
  BY <1>10, <1>11, <1>16, <1>17
<1> HIDE DEF tree, e
<1>21. Planted(e) /\ DocumentIds(e) \subseteq IdsBut(d, p) \cup IdsOf(tree)
  BY <1>2, <1>6, <1>15, <1>19, <1>20, PlantPlants
<1>22. DocumentIds(e) \subseteq DocumentIds(d) \cup Brings(c)
  BY <1>10, <1>11, <1>16, <1>17, <1>21
<1> DEFINE i == [type |-> "node.delete", place |-> p, id |-> c.id]
           j == Recreate(d, p, c.id)
           I == <<i, j>>
<1>23. InverseOf(d, c) = I
  BY DEF InverseOf, DetachInverse
<1>24. Payload(i) /\ Brings(i) = {} /\ Frees(i) = {c.id}
  BY DEF Payload, Brings, Frees
<1>25. Payload(j) /\ Brings(j) = {c.id} /\ Frees(j) = {} /\ Recreates(j, c.id)
  BY <1>1, <1>7, <1>9, RecreatesBelow DEF S, T
<1> HIDE DEF i, j
<1>26. IsSeq(I) /\ Len(I) = 2 /\ I[1] = i /\ I[2] = j
  <2>1. I \in Seq({i, j})
    OBVIOUS
  <2> QED
    BY <2>1, SeqIs
<1> HIDE DEF I
<1>27. \A k \in 1 .. Len(I) : k = 1 \/ k = 2
  BY <1>26
<1>28. Loaded(I)
  <2>1. \A k \in 1 .. Len(I) : Payload(I[k])
    BY <1>24, <1>25, <1>26, <1>27
  <2>2. \A m \in 1 .. Len(I) : \A k \in 1 .. m - 1 : m = 2 /\ k = 1
    BY <1>26
  <2>3. Tidy(I)
    BY <1>24, <1>25, <1>26, <2>2 DEF Tidy
  <2> QED
    BY <1>26, <2>1, <2>3 DEF Loaded
<1>29. \A k \in 1 .. Len(I) : Brings(I[k]) \subseteq DocumentIds(d)
  BY <1>10, <1>11, <1>24, <1>25, <1>26, <1>27
<1>30. \A x : ~Needs(I, 1, x)
  <2> SUFFICES ASSUME NEW x, Needs(I, 1, x)
               PROVE  FALSE
    OBVIOUS
  <2>1. PICK m \in 1 .. Len(I) : x \in Brings(I[m]) /\ \A k \in 1 .. m - 1 : x \notin Frees(I[k])
    BY DEF Needs
  <2>2. m = 2 /\ x = c.id
    BY <1>24, <1>25, <1>26, <1>27, <2>1
  <2>3. 1 \in 1 .. m - 1
    BY <2>2
  <2> QED
    BY <1>24, <1>26, <2>1, <2>2, <2>3
<1>31. \A x : Freed(I, x) => x \in DocumentIds(d)
  BY <1>10, <1>11, <1>24, <1>25, <1>26, <1>27 DEF Freed
<1>32. Answers(d, c, e, I)
  BY <1>3, <1>21, <1>22, <1>28, <1>29, <1>30, <1>31 DEF Answers
<1> QED
  BY <1>23, <1>32 DEF e

-----------------------------------------------------------------------------
(* New ids.                                                                  *)

LEMMA FreshIs ==
  ASSUME NEW i \in 1 .. Cardinality(Id \ minted)
  PROVE  Fresh(i) \in Id \ minted /\ Cardinality({m \in Id \ minted : m < Fresh(i)}) = i - 1
<1> DEFINE F == Id \ minted
           Below1(k) == {m \in F : m < k}
           T == {k \in 1 .. MaxId + 1 : Cardinality(Below1(k)) >= i}
<1>1. MaxId \in Nat
  BY ComponentAssumption
<1>2. F \subseteq 1 .. MaxId /\ IsFiniteSet(F)
  <2>1. IsFiniteSet(1 .. MaxId)
    BY <1>1, FS_Interval
  <2> QED
    BY <2>1, FS_Subset DEF Id
<1>3. \A k : IsFiniteSet(Below1(k)) /\ Cardinality(Below1(k)) \in Nat
  <2> TAKE k
  <2> DEFINE B == Below1(k)
  <2>1. B \subseteq F
    OBVIOUS
  <2> HIDE DEF B, F
  <2>2. IsFiniteSet(B)
    BY <1>2, <2>1, FS_Subset
  <2> QED
    BY <2>2, FS_CardinalityType DEF B
<1>4. Fresh(i) = CHOOSE n \in F : Cardinality(Below1(n)) = i - 1
  BY DEF Fresh
<1>0. i \in Int /\ \A m \in F : m \in Int /\ m >= 1 /\ m <= MaxId
  <2>1. Cardinality(F) \in Nat
    BY <1>2, FS_CardinalityType
  <2> QED
    BY <1>1, <1>2, <2>1
<1> HIDE DEF F
<1>5. MaxId + 1 \in T
  <2>1. Below1(MaxId + 1) = F
    <3>1. \A m \in F : m < MaxId + 1
      BY <1>1, <1>0
    <3> QED
      BY <3>1
  <2> QED
    BY <1>1, <1>3, <2>1 DEF F
<1>6. Below1(1) = {}
  <2>1. \A m \in F : ~(m < 1)
    BY <1>0
  <2> QED
    BY <2>1
<1>7. PICK k \in T : \A j \in T : k <= j
  <2>1. T \in SUBSET Nat /\ T # {}
    BY <1>5
  <2> HIDE DEF T
  <2> QED
    BY <2>1, LeastNat
<1>8. k \in 1 .. MaxId + 1 /\ k # 1 /\ Cardinality(Below1(k)) >= i
  <2>1. Cardinality({}) = 0
    BY FS_EmptySet
  <2> QED
    BY <1>6, <2>1
<1> DEFINE n == k - 1
<1>9. n \in 1 .. MaxId + 1 /\ k = n + 1
  BY <1>1, <1>8
<1>10. ~(Cardinality(Below1(n)) >= i)
  BY <1>7, <1>9
<1> HIDE DEF n
<1>11. Below1(k) = IF n \in F THEN Below1(n) \cup {n} ELSE Below1(n)
  <2>1. \A m \in F : m < k <=> m < n \/ m = n
    BY <1>0, <1>1, <1>9
  <2>2. \A m \in Below1(k) : m \in F /\ (m \in Below1(n) \/ m = n)
    BY <2>1
  <2>3. \A m \in Below1(n) : m \in Below1(k)
    BY <2>1
  <2>4. n \in F => n \in Below1(k)
    BY <2>1
  <2> HIDE DEF Below1
  <2> QED
    BY <2>2, <2>3, <2>4
<1>12. n \in F
  BY <1>8, <1>10, <1>11
<1>13. Cardinality(Below1(k)) = Cardinality(Below1(n)) + 1
  <2> DEFINE B == Below1(n)
  <2>1. n \notin B /\ IsFiniteSet(B) /\ Below1(k) = B \cup {n}
    BY <1>3, <1>9, <1>11, <1>12
  <2> HIDE DEF B
  <2>2. Cardinality(B \cup {n}) = Cardinality(B) + 1
    BY <2>1, FS_AddElement
  <2> QED
    BY <2>1, <2>2 DEF B
<1>14. Cardinality(Below1(n)) = i - 1
  <2>1. Cardinality(Below1(k)) \in Nat /\ Cardinality(Below1(n)) \in Nat
    BY <1>3
  <2> HIDE DEF Below1
  <2> QED
    BY <1>0, <1>8, <1>10, <1>13, <2>1
<1> HIDE DEF Below1
<1> QED
  BY <1>4, <1>12, <1>14 DEF F, Below1

LEMMA FreshApart ==
  \A i, j \in 1 .. Cardinality(Id \ minted) : Fresh(i) = Fresh(j) => i = j
<1> TAKE i, j \in 1 .. Cardinality(Id \ minted)
<1> DEFINE a == Fresh(i)
           b == Fresh(j)
<1>1. /\ Cardinality({m \in Id \ minted : m < a}) = i - 1
      /\ Cardinality({m \in Id \ minted : m < b}) = j - 1
  BY FreshIs
<1> HIDE DEF a, b
<1>2. a = b => i - 1 = j - 1
  BY <1>1
<1> QED
  BY <1>2 DEF a, b

(* The next k ids.                                                           *)
News(k) == {Fresh(i) : i \in 1 .. k}

LEMMA EnoughNews ==
  ASSUME NEW k \in Nat, Enough(k)
  PROVE  /\ \A i \in 1 .. k : i \in 1 .. Cardinality(Id \ minted)
         /\ News(k) \subseteq Id \ minted
<1>1. \A i \in 1 .. k : i \in 1 .. Cardinality(Id \ minted)
  <2>1. IsFiniteSet(1 .. MaxId)
    BY ComponentAssumption, FS_Interval
  <2>2. Cardinality(Id \ minted) \in Nat
    BY <2>1, FS_Subset, FS_CardinalityType DEF Id
  <2> QED
    BY <2>2 DEF Enough
<1> QED
  BY <1>1, FreshIs DEF News

(* New ids for old ones that are in use.                                     *)
LEMMA FreshForNews ==
  ASSUME NEW ids \in SUBSET (Id \cap minted), NEW skip \in Nat, Enough(skip + Cardinality(ids)),
         NEW fresh, fresh = FreshFor(ids, skip)
  PROVE  /\ Renews(fresh, ids)
         /\ \A x \in ids : fresh[x] # x
         /\ \A y \in Renewed(fresh) : \E i \in skip + 1 .. skip + Cardinality(ids) : y = Fresh(i)
         /\ Cardinality(ids) \in Nat
<1> DEFINE k == Cardinality(ids)
           To(x) == {m \in ids : m <= x}
           At(x) == Cardinality(To(x))
<1>1. IsFiniteSet(ids) /\ k \in Nat /\ ids \subseteq Int
  <2>1. IsFiniteSet(1 .. MaxId)
    BY ComponentAssumption, FS_Interval
  <2>2. IsFiniteSet(ids)
    BY <2>1, FS_Subset DEF Id
  <2> QED
    BY <2>2, FS_CardinalityType DEF Id
<1>2. \A x \in Id : fresh[x] = IF x \in ids THEN Fresh(skip + At(x)) ELSE x
  BY DEF FreshFor
<1> HIDE DEF k, To
<1>3. \A x \in ids : IsFiniteSet(To(x)) /\ At(x) \in 1 .. k
  <2> TAKE x \in ids
  <2>1. To(x) \subseteq ids /\ x \in To(x)
    BY <1>1 DEF To
  <2>2. IsFiniteSet(To(x)) /\ At(x) \in Nat /\ At(x) <= k
    BY <1>1, <2>1, FS_Subset, FS_CardinalityType DEF k
  <2>3. At(x) # 0
    BY <2>1, <2>2, FS_EmptySet
  <2> QED
    BY <1>1, <2>2, <2>3
<1>4. ASSUME NEW x \in ids, NEW y \in ids, x < y
      PROVE  At(x) < At(y)
  <2>1. To(x) \subseteq To(y) /\ y \in To(y) /\ y \notin To(x)
    <3>1. x \in Int /\ y \in Int /\ \A m \in ids : m \in Int
      BY <1>1
    <3>2. \A m \in ids : m <= x => m <= y
      BY <1>4, <3>1
    <3>3. y <= y /\ ~(y <= x)
      BY <1>4, <3>1
    <3> QED
      BY <3>2, <3>3 DEF To
  <2>2. To(x) # To(y) /\ IsFiniteSet(To(y))
    BY <1>3, <2>1
  <2>3. At(x) <= At(y) /\ (At(x) = At(y) => To(x) = To(y))
    BY <2>1, <2>2, FS_Subset
  <2> QED
    BY <1>1, <1>3, <2>2, <2>3
<1> HIDE DEF At
<1>5. \A x, y \in ids : At(x) = At(y) => x = y
  <2> SUFFICES ASSUME NEW x \in ids, NEW y \in ids, At(x) = At(y), x # y
               PROVE  FALSE
    OBVIOUS
  <2>1. x \in Int /\ y \in Int /\ At(x) \in Int /\ At(y) \in Int
    BY <1>1, <1>3
  <2>2. x < y \/ y < x
    BY <2>1
  <2>3. x < y => At(x) < At(y)
    BY <1>4
  <2>4. y < x => At(y) < At(x)
    BY <1>4
  <2> QED
    BY <2>1, <2>2, <2>3, <2>4
<1>6. \A x \in ids : skip + At(x) \in 1 .. skip + k /\ skip + At(x) \in skip + 1 .. skip + k
  BY <1>1, <1>3
<1>7. /\ \A i \in 1 .. skip + k : i \in 1 .. Cardinality(Id \ minted)
      /\ \A i \in 1 .. skip + k : Fresh(i) \in Id \ minted
  <2>1. skip + k \in Nat /\ Enough(skip + k)
    BY <1>1 DEF k
  <2> QED
    BY <2>1, EnoughNews DEF News
<1>8. \A x \in ids : fresh[x] = Fresh(skip + At(x)) /\ x \in Id /\ x \in minted
  BY <1>2
<1>9. Renews(fresh, ids)
  <2>1. \A x \in ids : fresh[x] \in Id
    BY <1>6, <1>7, <1>8
  <2>2. ASSUME NEW x \in ids, NEW y \in ids, fresh[x] = fresh[y]
        PROVE  x = y
    <3> DEFINE a == skip + At(x)
               b == skip + At(y)
    <3>1. a \in 1 .. Cardinality(Id \ minted) /\ b \in 1 .. Cardinality(Id \ minted)
      BY <1>6, <1>7
    <3>2. Fresh(a) = Fresh(b)
      BY <1>8, <2>2
    <3> HIDE DEF a, b
    <3>3. a = b
      BY <3>1, <3>2, FreshApart
    <3>4. At(x) = At(y)
      BY <1>1, <1>3, <3>3 DEF a, b
    <3> QED
      BY <1>5, <3>4
  <2> QED
    BY <2>1, <2>2 DEF Renews
<1>10. \A x \in ids : fresh[x] # x
  BY <1>6, <1>7, <1>8
<1>11. \A y \in Renewed(fresh) : \E i \in skip + 1 .. skip + k : y = Fresh(i)
  <2> TAKE y \in Renewed(fresh)
  <2>1. PICK x \in Id : fresh[x] # x /\ y = fresh[x]
    BY DEF Renewed
  <2>2. x \in ids
    BY <1>2, <2>1
  <2> QED
    BY <1>6, <1>8, <2>1, <2>2
<1> QED
  BY <1>1, <1>9, <1>10, <1>11 DEF k

-----------------------------------------------------------------------------
(* What the hosts apply.                                                     *)

LEMMA KeptAnswers ==
  ASSUME NEW d, DocForm(d), Planted(d), NEW c, KeptForm(c), Accepts(d, c), Payload(c),
         Brings(c) \cap DocumentIds(d) = {}
  PROVE  Answers(d, c, After(d, c), InverseOf(d, c))
<1>1. CommandForm(c)
  BY DEF CommandForm
<1>2. c.type \in {"node.create", "node.delete", "node.update", "component.create", "component.delete",
                  "component.rename", "component.add-property", "component.update-property",
                  "component.remove-property", "component-instance.set-override",
                  "component-instance.reset-override", "component-instance.reset-all-overrides"}
  BY DEF KeptForm
<1>3. CASE c.type = "node.create"
  BY <1>1, <1>3, CreateAnswers
<1>4. CASE c.type = "node.delete"
  BY <1>1, <1>4, DeleteAnswers
<1>5. CASE c.type = "node.update"
  BY <1>1, <1>5, UpdateAnswers
<1>6. CASE c.type = "component.create"
  BY <1>1, <1>6, RestoreAnswers
<1>7. CASE c.type = "component.delete"
  BY <1>1, <1>7, RemoveAnswers
<1>8. CASE c.type = "component.rename"
  BY <1>1, <1>8, RenameAnswers
<1>9. CASE c.type = "component.add-property"
  BY <1>1, <1>9, AddPropertyAnswers
<1>10. CASE c.type = "component.update-property"
  BY <1>1, <1>10, UpdatePropertyAnswers
<1>11. CASE c.type = "component.remove-property"
  BY <1>1, <1>11, RemovePropertyAnswers
<1>12. CASE c.type \in {"component-instance.set-override", "component-instance.reset-override"}
  BY <1>1, <1>12, OverrideAnswers
<1>13. CASE c.type = "component-instance.reset-all-overrides"
  BY <1>1, <1>13, ResetAllAnswers
<1> QED
  BY <1>2, <1>3, <1>4, <1>5, <1>6, <1>7, <1>8, <1>9, <1>10, <1>11, <1>12, <1>13

(* A batch that could be on a stack.                                         *)
LEMMA KeptIds ==
  ASSUME NEW d, DocForm(d), Planted(d), NEW cmds, Loaded(cmds), AllKept(cmds),
         \A x : Needs(cmds, 1, x) => x \notin DocumentIds(d), Folded(d, cmds).ok
  PROVE  Carries(d, cmds, Folded(d, cmds).doc, Folded(d, cmds).inverse)
<1>1. IsSeq(cmds)
  BY DEF Loaded
<1>2. PICK acc : Batches(d, cmds, acc)
  BY <1>1, FoldedUnfolds DEF IsSeq
<1>3. \A c \in Range(cmds) : CommandForm(c)
  BY DEF AllKept, CommandForm
<1>4. \A k \in 1 .. Len(cmds) : KeptForm(cmds[k])
  <2>1. \A k \in 1 .. Len(cmds) : cmds[k] \in Range(cmds)
    BY <1>1 DEF IsSeq, Range
  <2> QED
    BY <2>1 DEF AllKept
<1> DEFINE G == Nat
<1>5. ASSUME NEW k \in 1 .. Len(cmds),
             k - 1 \in G /\ acc[k - 1].ok /\ DocForm(acc[k - 1].doc) /\ Planted(acc[k - 1].doc)
             /\ Accepts(acc[k - 1].doc, cmds[k]) /\ Payload(cmds[k])
             /\ Brings(cmds[k]) \cap DocumentIds(acc[k - 1].doc) = {}
      PROVE  /\ k \in G
             /\ Answers(acc[k - 1].doc, cmds[k], After(acc[k - 1].doc, cmds[k]),
                        InverseOf(acc[k - 1].doc, cmds[k]))
  <2> DEFINE D == acc[k - 1].doc
             c == cmds[k]
  <2>1. /\ DocForm(D) /\ Planted(D) /\ Accepts(D, c) /\ Payload(c) /\ Brings(c) \cap DocumentIds(D) = {}
        /\ KeptForm(c)
    BY <1>4, <1>5
  <2> HIDE DEF D, c
  <2>2. Answers(D, c, After(D, c), InverseOf(D, c))
    BY <2>1, KeptAnswers
  <2>3. k \in G
    BY <1>1, LenNat
  <2> QED
    BY <2>2, <2>3 DEF D, c
<1>6. 0 \in G
  OBVIOUS
<1> HIDE DEF G
<1> QED
  BY <1>2, <1>3, <1>5, <1>6, BatchIds

(* One command.                                                              *)
LEMMA OneLoaded ==
  ASSUME NEW c, Payload(c)
  PROVE  /\ Loaded(<<c>>) /\ Len(<<c>>) = 1 /\ <<c>>[1] = c
         /\ \A x : Needs(<<c>>, 1, x) => x \in Brings(c)
<1> DEFINE s == <<c>>
<1>1. IsSeq(s) /\ Len(s) = 1 /\ s[1] = c
  BY Single
<1> HIDE DEF s
<1>2. Loaded(s)
  BY <1>1 DEF Loaded, Tidy
<1>3. \A x : Needs(s, 1, x) => x \in Brings(c)
  BY <1>1 DEF Needs
<1> QED
  BY <1>1, <1>2, <1>3 DEF s

LEMMA OneIds ==
  ASSUME NEW d, DocForm(d), Planted(d), NEW c, CommandForm(c), Payload(c),
         Brings(c) \cap DocumentIds(d) = {}, Folded(d, <<c>>).ok,
         Accepts(d, c) => Answers(d, c, After(d, c), InverseOf(d, c))
  PROVE  Carries(d, <<c>>, Folded(d, <<c>>).doc, Folded(d, <<c>>).inverse)
<1> DEFINE s == <<c>>
<1>1. /\ Loaded(s) /\ Len(s) = 1 /\ s[1] = c
      /\ \A x : Needs(s, 1, x) => x \in Brings(c)
  BY OneLoaded
<1>2. IsSeq(s) /\ Range(s) = {c}
  BY Single
<1>3. Folded(d, s).ok
  OBVIOUS
<1> HIDE DEF s
<1>4. PICK acc : Batches(d, s, acc)
  BY <1>2, FoldedUnfolds DEF IsSeq
<1>5. acc[0].doc = d
  BY <1>4 DEF Batches
<1> DEFINE G == {0, 1}
<1>6. ASSUME NEW k \in 1 .. Len(s),
             k - 1 \in G /\ acc[k - 1].ok /\ DocForm(acc[k - 1].doc) /\ Planted(acc[k - 1].doc)
             /\ Accepts(acc[k - 1].doc, s[k]) /\ Payload(s[k])
             /\ Brings(s[k]) \cap DocumentIds(acc[k - 1].doc) = {}
      PROVE  /\ k \in G
             /\ Answers(acc[k - 1].doc, s[k], After(acc[k - 1].doc, s[k]),
                        InverseOf(acc[k - 1].doc, s[k]))
  <2>1. k = 1 /\ k - 1 = 0
    BY <1>1
  <2>2. acc[k - 1].doc = d /\ s[k] = c
    BY <1>1, <1>5, <2>1
  <2>3. Accepts(d, c)
    BY <1>6, <2>2
  <2> QED
    BY <2>1, <2>2, <2>3
<1>7. 0 \in G
  OBVIOUS
<1>8. \A x : Needs(s, 1, x) => x \notin DocumentIds(d)
  BY <1>1
<1>9. \A b \in Range(s) : CommandForm(b)
  BY <1>2
<1> HIDE DEF G
<1>10. Carries(d, s, Folded(d, s).doc, Folded(d, s).inverse)
  BY <1>1, <1>3, <1>4, <1>6, <1>7, <1>8, <1>9, BatchIds
<1> QED
  BY <1>10 DEF s

(* Settling a revision leaves the trees.                                     *)
LEMMA SettledAlike ==
  ASSUME NEW d, DocForm(d), NEW e, DocForm(e), NEW touched
  PROVE  Alike(e, Settled(d, e, touched))
<1> DEFINE s == Settled(d, e, touched)
           M == Moves(d, e, touched)
           T == {}
<1> HIDE DEF T
<1>1. /\ DocForm(s)
      /\ Defined(s) \subseteq Defined(e)
      /\ \A x \in Component : s.defs[x] = IF x \in M THEN Moved(e, x) ELSE e.defs[x]
  <2>1. DocForm(s)
    BY SettledForm
  <2>2. Defined(s) \subseteq Defined(e)
    BY SettledForm
  <2>3. \A x \in Component : s.defs[x] = IF x \in M THEN Moved(e, x) ELSE e.defs[x]
    <3> DEFINE S(y) == IF y \in M THEN [e.defs[y] EXCEPT !.rev = @ + 1] ELSE e.defs[y]
    <3>1. s = [e EXCEPT !.defs = [y \in Component |-> S(y)]]
      BY DEF Settled, Moves
    <3> HIDE DEF M, S
    <3>2. s.defs = [y \in Component |-> S(y)]
      BY <3>1 DEF DocForm
    <3> QED
      BY <3>2 DEF S, Moved
  <2> HIDE DEF s, M
  <2> QED
    BY <2>1, <2>2, <2>3
<1>2. s.page = e.page
  BY DEF Settled, DocForm
<1>3. ASSUME NEW x \in Defined(s)
      PROVE  /\ x \in Defined(e) /\ x \in Component
             /\ s.defs[x].tree = e.defs[x].tree /\ s.defs[x].root = e.defs[x].root
  <2>1. x \in Defined(e) /\ x \in Component
    BY <1>1 DEF Defined
  <2>2. Moved(e, x).tree = e.defs[x].tree
    BY <2>1, MovedForm
  <2>3. Moved(e, x).root = e.defs[x].root
    <3>1. SourceForm(e.defs[x])
      BY <2>1 DEF DocForm
    <3> QED
      BY <3>1 DEF SourceForm, Moved
  <2> HIDE DEF s, M
  <2> QED
    BY <1>1, <2>1, <2>2, <2>3
<1> HIDE DEF s
<1>4. ASSUME NEW q \in Places(s)
      PROVE  /\ q \in Places(e) /\ Tree(s, q) = Tree(e, q)
             /\ q \notin Page => s.defs[q].root = e.defs[q].root
  BY <1>2, <1>3 DEF Places, Tree
<1> QED
  BY <1>4 DEF Alike, s

(* The whole of what a host applies.                                         *)
LEMMA AppliedIds ==
  ASSUME NEW d, DocForm(d), NEW cmds, IsSeq(cmds), \A c \in Range(cmds) : CommandForm(c),
         Folded(d, cmds).ok, Carries(d, cmds, Folded(d, cmds).doc, Folded(d, cmds).inverse)
  PROVE  Carries(d, cmds, Applied(d, cmds).doc, Applied(d, cmds).inverse)
<1> DEFINE r == Folded(d, cmds)
           s == Settled(d, r.doc, r.touched)
<1>1. DocForm(r.doc)
  BY BatchSteps DEF Reached
<1>2. Applied(d, cmds).doc = s /\ Applied(d, cmds).inverse = r.inverse
  BY DEF Applied, Outcome
<1> HIDE DEF r
<1>3. Alike(r.doc, s)
  BY <1>1, SettledAlike
<1>4. Carries(d, cmds, r.doc, r.inverse)
  BY DEF r
<1> HIDE DEF s
<1>5. Planted(s) /\ DocumentIds(s) \subseteq DocumentIds(r.doc)
  BY <1>3, <1>4, SameTrees DEF Carries
<1>6. Carries(d, cmds, s, r.inverse)
  BY <1>4, <1>5 DEF Carries
<1> QED
  BY <1>2, <1>6

-----------------------------------------------------------------------------
(* The stacks.                                                               *)

(* What a batch needs.                                                       *)
NeededBy(cmds) ==
    {x \in UNION {Brings(cmds[k]) : k \in 1 .. Len(cmds)} : Needs(cmds, 1, x)}

LEMMA NeededIs == \A cmds, x : x \in NeededBy(cmds) <=> Needs(cmds, 1, x)
BY DEF NeededBy, Needs

(* The places of the stacks, 1 the newest, and what the entry there needs.   *)
Slots == Host \X {"undo", "redo"} \X (Nat \ {0})

Side(u, r, t) == IF t = "undo" THEN u ELSE r

Held(u, r, e) ==
    LET s == Side(u, r, e[2])[e[1]]
    IN  IF e[3] <= Len(s) THEN NeededBy(s[e[3]]) ELSE {}

(* The invariant: the document is made of trees, the entries are loaded, and *)
(* what one of them needs is in use nowhere: not in the document, and by no  *)
(* other entry of any host.                                                  *)
IdsFor(d, u, r, M) ==
    /\ Planted(d) /\ DocumentIds(d) \subseteq M /\ M \subseteq Id
    /\ \A h \in Host : \A cmds \in Range(u[h]) \cup Range(r[h]) : Loaded(cmds)
    /\ \A e \in Slots : Held(u, r, e) \subseteq M \ DocumentIds(d)
    /\ \A e, f \in Slots : e # f => Held(u, r, e) \cap Held(u, r, f) = {}

IdsInv == IdsFor(doc, undo, redo, minted)

LEMMA SlotParts ==
  ASSUME NEW e \in Slots
  PROVE  e = <<e[1], e[2], e[3]>> /\ e[1] \in Host /\ e[2] \in {"undo", "redo"} /\ e[3] \in Nat \ {0}
BY DEF Slots

(* Where the entry at e was before h pushed one on its side t and lost the   *)
(* newest of the other, or all of them.                                      *)
Origin(h, t, e) ==
    IF e[1] # h THEN e
    ELSE IF e[2] = t THEN <<h, t, e[3] - 1>> ELSE <<h, e[2], e[3] + 1>>

LEMMA Origins ==
  ASSUME NEW h \in Host, NEW t \in {"undo", "redo"}, NEW o \in {"undo", "redo"} \ {t},
         NEW q, q = <<h, t, 1>>
  PROVE  /\ q \in Slots
         /\ \A e \in Slots \ {q} : Origin(h, t, e) \in Slots /\ Origin(h, t, e) # <<h, o, 1>>
         /\ \A e, f \in Slots \ {q} : e # f => Origin(h, t, e) # Origin(h, t, f)
<1>1. q \in Slots
  BY DEF Slots
<1>2. ASSUME NEW e \in Slots \ {q}
      PROVE  Origin(h, t, e) \in Slots /\ Origin(h, t, e) # <<h, o, 1>>
  <2>1. e = <<e[1], e[2], e[3]>> /\ e[1] \in Host /\ e[2] \in {"undo", "redo"} /\ e[3] \in Nat \ {0}
    BY SlotParts
  <2>2. CASE e[1] # h
    BY <2>2 DEF Origin
  <2>3. CASE e[1] = h /\ e[2] = t
    <3>1. e[3] # 1
      BY <2>1, <2>3
    <3>2. e[3] - 1 \in Nat \ {0}
      BY <2>1, <3>1
    <3> QED
      BY <2>3, <3>2 DEF Origin, Slots
  <2>4. CASE e[1] = h /\ e[2] # t
    <3>1. e[3] + 1 \in Nat \ {0} /\ e[3] + 1 # 1
      BY <2>1
    <3>2. Origin(h, t, e) = <<h, e[2], e[3] + 1>>
      BY <2>4 DEF Origin
    <3> QED
      BY <2>1, <3>1, <3>2 DEF Slots
  <2> QED
    BY <2>2, <2>3, <2>4
<1>3. ASSUME NEW e \in Slots \ {q}, NEW f \in Slots \ {q}, Origin(h, t, e) = Origin(h, t, f)
      PROVE  e = f
  <2>1. /\ e = <<e[1], e[2], e[3]>> /\ f = <<f[1], f[2], f[3]>>
        /\ e[3] \in Nat \ {0} /\ f[3] \in Nat \ {0}
    BY SlotParts
  <2>2. e[1] = f[1] /\ e[2] = f[2] /\ e[3] = f[3]
    BY <1>3, <2>1 DEF Origin
  <2> QED
    BY <2>1, <2>2
<1> QED
  BY <1>1, <1>2, <1>3

(* Holdings A of places become holdings B: each place but q is handed that   *)
(* of a place of its own, and q and the document share what the document     *)
(* and the applied batch had.                                                *)
LEMMA HoldingsApart ==
  ASSUME NEW A, NEW B, NEW L, NEW L2, NEW M, NEW M2, NEW X, NEW q \in Slots, NEW from,
         L \subseteq M, M \subseteq M2, X \subseteq M2,
         \A e \in Slots : A[e] \subseteq M \ L,
         \A e, f \in Slots : e # f => A[e] \cap A[f] = {},
         \A e \in Slots \ {q} : from[e] \in Slots,
         \A e, f \in Slots \ {q} : e # f => from[e] # from[f],
         \A e \in Slots \ {q} : B[e] \subseteq A[from[e]] \ X,
         L2 \cup B[q] \subseteq L \cup X, L2 \cap B[q] = {}
  PROVE  /\ L2 \subseteq M2
         /\ \A e \in Slots : B[e] \subseteq M2 \ L2
         /\ \A e, f \in Slots : e # f => B[e] \cap B[f] = {}
<1>1. \A e \in Slots \ {q} : B[e] \cap (L \cup X) = {} /\ B[e] \subseteq M2
  OBVIOUS
<1>2. \A e \in Slots \ {q} : B[e] \cap L2 = {} /\ B[e] \cap B[q] = {}
  BY <1>1
<1>3. \A e, f \in Slots \ {q} : e # f => B[e] \cap B[f] = {}
  OBVIOUS
<1> QED
  BY <1>1, <1>2, <1>3

(* A batch that leads from d to d2: its inverse I is pushed on side t of h,  *)
(* and of side o is left what was below the newest entry, or nothing.        *)
Exchanged(h, t, o, u, r, I, u2, r2) ==
    LET s == Side(u, r, t)[h]
        z == Side(u, r, o)[h]
        z2 == Side(u2, r2, o)[h]
    IN  /\ h \in Host /\ t \in {"undo", "redo"} /\ o \in {"undo", "redo"} \ {t}
        /\ \A g \in Host : IsSeq(u[g]) /\ IsSeq(r[g])
        /\ \A g \in Host \ {h} : u2[g] = u[g] /\ r2[g] = r[g]
        /\ Side(u2, r2, t)[h] = <<I>> \o s
        /\ IsSeq(z2) /\ \A k \in 1 .. Len(z2) : k + 1 <= Len(z) /\ z2[k] = z[k + 1]

(* The batch needs what no other entry does.                                 *)
Unshared(h, o, u, r, cmds) ==
    \A e \in Slots \ {<<h, o, 1>>} : Held(u, r, e) \cap NeededBy(cmds) = {}

LEMMA StackIds ==
  ASSUME NEW d, NEW u, NEW r, NEW M, IdsFor(d, u, r, M),
         NEW h, NEW t, NEW o, NEW I, NEW u2, NEW r2, Exchanged(h, t, o, u, r, I, u2, r2),
         NEW cmds, Unshared(h, o, u, r, cmds), NEW d2, Carries(d, cmds, d2, I),
         NEW M2, M \subseteq M2, M2 \subseteq Id, NeededBy(cmds) \subseteq M2
  PROVE  IdsFor(d2, u2, r2, M2)
<1> DEFINE q == <<h, t, 1>>
           s == Side(u, r, t)[h]
           z == Side(u, r, o)[h]
           z2 == Side(u2, r2, o)[h]
           A == [e \in Slots |-> Held(u, r, e)]
           B == [e \in Slots |-> Held(u2, r2, e)]
           from == [e \in Slots |-> Origin(h, t, e)]
           w == <<I>> \o s
<1>0. /\ h \in Host /\ t \in {"undo", "redo"} /\ o \in {"undo", "redo"} \ {t}
      /\ \A g \in Host : IsSeq(u[g]) /\ IsSeq(r[g])
      /\ \A g \in Host \ {h} : u2[g] = u[g] /\ r2[g] = r[g]
      /\ Side(u2, r2, t)[h] = <<I>> \o s
      /\ IsSeq(z2) /\ \A k \in 1 .. Len(z2) : k + 1 <= Len(z) /\ z2[k] = z[k + 1]
      /\ s = Side(u, r, t)[h] /\ z = Side(u, r, o)[h] /\ z2 = Side(u2, r2, o)[h]
      /\ \A e \in Slots \ {<<h, o, 1>>} : Held(u, r, e) \cap NeededBy(cmds) = {}
  BY DEF Exchanged, Unshared
<1> HIDE DEF s, z, z2
<1>1. /\ \A g \in Host : \A x \in Range(u[g]) \cup Range(r[g]) : Loaded(x)
      /\ \A e \in Slots : A[e] \subseteq M \ DocumentIds(d)
      /\ \A e, f \in Slots : e # f => A[e] \cap A[f] = {}
      /\ DocumentIds(d) \subseteq M
  BY DEF IdsFor
<1>2. IsSeq(s) /\ IsSeq(z) /\ Len(s) \in Nat /\ Len(z) \in Nat /\ Len(z2) \in Nat
  BY <1>0, LenNat DEF Side
<1>3. /\ IsSeq(w) /\ Range(w) = {I} \cup Range(s)
      /\ Len(w) = Len(s) + 1 /\ w[1] = I /\ \A k \in 1 .. Len(s) : w[k + 1] = s[k]
  <2>1. <<I>> \in Seq({I}) /\ Len(<<I>>) = 1 /\ <<I>>[1] = I
    OBVIOUS
  <2>2. IsSeq(<<I>>)
    BY <2>1, SeqIs
  <2>3. IsSeq(w) /\ Range(w) = {I} \cup Range(s)
    BY <1>2, Pushed1
  <2>4. /\ Len(w) = Len(<<I>>) + Len(s)
        /\ \A k \in 1 .. Len(<<I>>) : w[k] = <<I>>[k]
        /\ \A k \in 1 .. Len(s) : w[Len(<<I>>) + k] = s[k]
    BY <1>2, <2>2, JoinAt
  <2>5. \A k \in 1 .. Len(s) : 1 + k = k + 1
    BY <1>2
  <2> HIDE DEF w
  <2>6. Len(w) = Len(s) + 1 /\ w[1] = I
    BY <1>2, <2>1, <2>4
  <2> QED
    BY <2>1, <2>3, <2>4, <2>5, <2>6
<1>4. Side(u2, r2, t)[h] = w /\ Side(u2, r2, o)[h] = z2
  BY <1>0
<1> HIDE DEF w
<1>5. \A g \in Host : \A x \in Range(u2[g]) \cup Range(r2[g]) : Loaded(x)
  <2>1. Range(u2[h]) \cup Range(r2[h]) = Range(w) \cup Range(z2)
    BY <1>0, <1>4 DEF Side
  <2>2. Range(u[h]) \cup Range(r[h]) = Range(s) \cup Range(z)
    BY <1>0 DEF Side
  <2>3. \A x \in Range(z2) : x \in Range(z)
    <3>1. \A k \in 1 .. Len(z2) : k + 1 \in 1 .. Len(z) /\ z2[k] = z[k + 1]
      BY <1>0, <1>2
    <3>2. DOMAIN z2 = 1 .. Len(z2) /\ DOMAIN z = 1 .. Len(z)
      BY <1>0, <1>2 DEF IsSeq
    <3> QED
      BY <3>1, <3>2 DEF Range
  <2>4. \A x \in Range(u2[h]) \cup Range(r2[h]) : Loaded(x)
    <3>1. Loaded(I)
      BY DEF Carries
    <3> QED
      BY <1>0, <1>1, <1>3, <2>1, <2>2, <2>3, <3>1
  <2> QED
    BY <1>0, <1>1, <2>4
<1>6. /\ q \in Slots
      /\ \A e \in Slots \ {q} : from[e] \in Slots /\ from[e] # <<h, o, 1>>
      /\ \A e, f \in Slots \ {q} : e # f => from[e] # from[f]
  BY <1>0, Origins
<1>7. B[q] = NeededBy(I)
  <2>1. q[1] = h /\ q[2] = t /\ q[3] = 1
    OBVIOUS
  <2>2. 1 <= Len(w)
    BY <1>2, <1>3
  <2>3. Held(u2, r2, q) = NeededBy(w[1])
    BY <1>4, <2>1, <2>2 DEF Held
  <2> QED
    BY <1>3, <1>6, <2>3
<1>8. ASSUME NEW e \in Slots \ {q}
      PROVE  B[e] \subseteq A[from[e]]
  <2>1. e = <<e[1], e[2], e[3]>> /\ e[1] \in Host /\ e[2] \in {"undo", "redo"} /\ e[3] \in Nat \ {0}
    BY SlotParts
  <2>2. from[e] \in Slots /\ from[e] = Origin(h, t, e)
    BY <1>6
  <2>3. CASE e[1] # h
    <3>1. Origin(h, t, e) = e
      BY <2>3 DEF Origin
    <3>2. Held(u2, r2, e) = Held(u, r, e)
      BY <1>0, <2>1, <2>3 DEF Held, Side
    <3> QED
      BY <2>2, <3>1, <3>2
  <2>4. CASE e[1] = h /\ e[2] = t
    <3> DEFINE k == e[3] - 1
               f == <<h, t, k>>
    <3>1. e[3] # 1
      BY <2>1, <2>4
    <3>2. k \in Nat \ {0} /\ e[3] = k + 1
      BY <2>1, <3>1
    <3>3. Origin(h, t, e) = f /\ f[1] = h /\ f[2] = t /\ f[3] = k
      BY <2>4 DEF Origin
    <3> HIDE DEF k, f
    <3>4. Held(u2, r2, e) = IF k + 1 <= Len(w) THEN NeededBy(w[k + 1]) ELSE {}
      BY <1>4, <2>4, <3>2 DEF Held
    <3>5. Held(u, r, f) = IF k <= Len(s) THEN NeededBy(s[k]) ELSE {}
      BY <1>0, <3>3 DEF Held
    <3>6. k + 1 <= Len(w) => k <= Len(s) /\ w[k + 1] = s[k]
      BY <1>2, <1>3, <3>2
    <3>7. Held(u2, r2, e) \subseteq Held(u, r, f)
      BY <3>4, <3>5, <3>6
    <3> QED
      BY <2>2, <3>3, <3>7
  <2>5. CASE e[1] = h /\ e[2] # t
    <3> DEFINE k == e[3]
               f == <<h, o, k + 1>>
    <3>1. e[2] = o
      BY <1>0, <2>1, <2>5
    <3>2. k \in Nat \ {0}
      BY <2>1
    <3>3. Origin(h, t, e) = f /\ f[1] = h /\ f[2] = o /\ f[3] = k + 1
      BY <2>5, <3>1 DEF Origin
    <3>4. Held(u2, r2, e) = IF k <= Len(z2) THEN NeededBy(z2[k]) ELSE {}
      BY <1>4, <2>5, <3>1 DEF Held
    <3> HIDE DEF k, f
    <3>5. Held(u, r, f) = IF k + 1 <= Len(z) THEN NeededBy(z[k + 1]) ELSE {}
      BY <1>0, <3>3 DEF Held
    <3>6. k <= Len(z2) => k + 1 <= Len(z) /\ z2[k] = z[k + 1]
      BY <1>0, <1>2, <3>2
    <3>7. Held(u2, r2, e) \subseteq Held(u, r, f)
      BY <3>4, <3>5, <3>6
    <3> QED
      BY <2>2, <3>3, <3>7
  <2> QED
    BY <2>3, <2>4, <2>5
<1> DEFINE X == NeededBy(cmds)
           L == DocumentIds(d)
           L2 == DocumentIds(d2)
<1>9. \A e \in Slots \ {q} : B[e] \subseteq A[from[e]] \ X
  <2>1. \A e \in Slots \ {<<h, o, 1>>} : A[e] \cap X = {}
    BY <1>0
  <2> HIDE DEF A, B, from, X, q
  <2> QED
    BY <1>6, <1>8, <2>1
<1>10. L2 \cup B[q] \subseteq L \cup X /\ L2 \cap B[q] = {} /\ Planted(d2)
  BY <1>7, NeededIs DEF Carries
<1>11. \A e \in Slots : B[e] = Held(u2, r2, e)
  OBVIOUS
<1>12. X \subseteq M2
  OBVIOUS
<1> HIDE DEF A, B, from, X, q, L, L2
<1>13. /\ L2 \subseteq M2
       /\ \A e \in Slots : B[e] \subseteq M2 \ L2
       /\ \A e, f \in Slots : e # f => B[e] \cap B[f] = {}
  <2>1. /\ \A e \in Slots : A[e] \subseteq M \ L
        /\ \A e, f \in Slots : e # f => A[e] \cap A[f] = {}
        /\ L \subseteq M
    BY <1>1 DEF L
  <2> QED
    BY <1>6, <1>9, <1>10, <1>12, <2>1, HoldingsApart
<1> QED
  BY <1>5, <1>10, <1>11, <1>13 DEF IdsFor, L2

(* A host that submits commands that need new ids only.                      *)
LEMMA RecordIds ==
  ASSUME FormInv, IdsInv, NEW h \in Host, NEW cmds, IsSeq(cmds),
         \A c \in Range(cmds) : CommandForm(c), Record(h, Applied(doc, cmds)),
         minted \subseteq minted', minted' \subseteq Id, NeededBy(cmds) \cap minted = {},
         NeededBy(cmds) \subseteq minted',
         Folded(doc, cmds).ok => Carries(doc, cmds, Folded(doc, cmds).doc, Folded(doc, cmds).inverse)
  PROVE  IdsInv'
<1> DEFINE r == Applied(doc, cmds)
           I == r.inverse
           s == undo[h]
           z == redo[h]
           t == "undo"
           o == "redo"
           none == <<>>
<1>1. /\ r.ok /\ doc' = r.doc
      /\ undo' = [undo EXCEPT ![h] = <<I>> \o undo[h]] /\ redo' = [redo EXCEPT ![h] = none]
  BY DEF Record, Commits
<1>2. DocForm(doc) /\ StackForm(undo, named) /\ StackForm(redo, named)
  BY DEF FormInv
<1>3. \A g \in Host : IsSeq(undo[g]) /\ IsSeq(redo[g])
  BY <1>2 DEF StackForm
<1>4. Carries(doc, cmds, doc', I)
  <2>1. r.ok = Folded(doc, cmds).ok
    BY DEF Applied, Outcome
  <2> QED
    BY <1>1, <1>2, <2>1, AppliedIds
<1>5. IdsFor(doc, undo, redo, minted)
  BY DEF IdsInv
<1> HIDE DEF r, I
<1>6. undo'[h] = <<I>> \o s /\ redo'[h] = none /\ \A g \in Host \ {h} : undo'[g] = undo[g] /\ redo'[g] = redo[g]
  BY <1>1, <1>2 DEF StackForm
<1>7. IsSeq(none) /\ Len(none) = 0
  BY DEF IsSeq
<1>8. \A k \in 1 .. Len(none) : k + 1 <= Len(z) /\ none[k] = z[k + 1]
  BY <1>7
<1>9. \A e \in Slots : Held(undo, redo, e) \cap NeededBy(cmds) = {}
  BY <1>5 DEF IdsFor
<1>10. /\ t \in {"undo", "redo"} /\ o \in {"undo", "redo"} \ {t}
       /\ s = Side(undo, redo, t)[h] /\ z = Side(undo, redo, o)[h]
       /\ Side(undo', redo', t)[h] = <<I>> \o s /\ Side(undo', redo', o)[h] = none
  BY <1>6 DEF Side
<1> HIDE DEF s, z, t, o, none
<1>11. Exchanged(h, t, o, undo, redo, I, undo', redo')
  BY <1>3, <1>6, <1>7, <1>8, <1>10 DEF Exchanged
<1>12. Unshared(h, o, undo, redo, cmds)
  BY <1>9 DEF Unshared
<1>13. IdsFor(doc', undo', redo', minted')
  BY <1>4, <1>5, <1>11, <1>12, StackIds
<1> QED
  BY <1>13 DEF IdsInv

(* A host that moves from side o to side t.                                  *)
Moving(h, t, o) ==
    LET z == Side(undo, redo, o)[h]
        r == Applied(doc, Head(z))
    IN  /\ t \in {"undo", "redo"} /\ o \in {"undo", "redo"} \ {t}
        /\ z # <<>> /\ Commits(r)
        /\ Side(undo', redo', t)[h] = <<r.inverse>> \o Side(undo, redo, t)[h]
        /\ Side(undo', redo', o)[h] = Tail(z)
        /\ \A g \in Host \ {h} : undo'[g] = undo[g] /\ redo'[g] = redo[g]
        /\ minted' = minted

LEMMA MoveIds ==
  ASSUME FormInv, IdsInv, NEW h \in Host, NEW t, NEW o, Moving(h, t, o)
  PROVE  IdsInv'
<1> DEFINE z == Side(undo, redo, o)[h]
           cmds == Head(z)
           r == Applied(doc, cmds)
           I == r.inverse
           s == Side(undo, redo, t)[h]
           z2 == Tail(z)
           top == <<h, o, 1>>
<1>0. /\ t \in {"undo", "redo"} /\ o \in {"undo", "redo"} \ {t}
      /\ z # <<>> /\ Commits(r)
      /\ Side(undo', redo', t)[h] = <<I>> \o s
      /\ Side(undo', redo', o)[h] = z2
      /\ \A g \in Host \ {h} : undo'[g] = undo[g] /\ redo'[g] = redo[g]
      /\ minted' = minted /\ z = Side(undo, redo, o)[h] /\ s = Side(undo, redo, t)[h]
      /\ cmds = Head(z) /\ r = Applied(doc, cmds) /\ I = r.inverse /\ z2 = Tail(z)
  BY DEF Moving
<1> HIDE DEF z, cmds, r, I, s, z2
<1>1. DocForm(doc) /\ StackForm(undo, named) /\ StackForm(redo, named)
  BY DEF FormInv
<1>2. /\ \A g \in Host : IsSeq(undo[g]) /\ IsSeq(redo[g])
      /\ \A x \in Range(undo[h]) \cup Range(redo[h]) : AllKept(x)
  BY <1>1 DEF StackForm, Entry
<1>3. IdsFor(doc, undo, redo, minted)
  BY DEF IdsInv
<1>4. IsSeq(z) /\ Range(z) \subseteq Range(undo[h]) \cup Range(redo[h])
  BY <1>0, <1>2 DEF Side
<1>5. IsSeq(z2) /\ cmds \in Range(z)
  BY <1>0, <1>4, Popped
<1>6. /\ Len(z) \in Nat /\ Len(z) >= 1 /\ Len(z2) = Len(z) - 1 /\ cmds = z[1]
      /\ \A k \in 1 .. Len(z) - 1 : z2[k] = z[k + 1]
  <2>1. z \in Seq(Range(z)) /\ z # <<>>
    BY <1>0, <1>4 DEF IsSeq
  <2>2. cmds = Head(z) /\ z2 = Tail(z)
    BY <1>0
  <2> QED
    BY <2>1, <2>2, HeadTailProperties, EmptySeq, LenProperties
<1>7. Loaded(cmds) /\ AllKept(cmds) /\ IsSeq(cmds)
  BY <1>2, <1>3, <1>4, <1>5 DEF IdsFor, Loaded
<1>8. top \in Slots /\ Held(undo, redo, top) = NeededBy(cmds)
  <2>1. top \in Slots /\ top[1] = h /\ top[2] = o /\ top[3] = 1
    BY <1>0 DEF Slots
  <2> HIDE DEF top
  <2>2. Side(undo, redo, top[2])[top[1]] = z /\ top[3] <= Len(z) /\ z[top[3]] = cmds
    BY <1>0, <1>6, <2>1
  <2> QED
    BY <2>1, <2>2 DEF Held
<1>9. /\ NeededBy(cmds) \subseteq minted \ DocumentIds(doc) /\ minted \subseteq Id
      /\ \A e \in Slots \ {top} : Held(undo, redo, e) \cap NeededBy(cmds) = {}
  BY <1>3, <1>8 DEF IdsFor
<1>10. \A c \in Range(cmds) : CommandForm(c)
  BY <1>7 DEF AllKept, CommandForm
<1>11. Carries(doc, cmds, doc', I)
  <2>1. r.ok /\ doc' = r.doc
    BY <1>0 DEF Commits
  <2>2. Folded(doc, cmds).ok
    BY <1>0, <2>1 DEF Applied, Outcome
  <2>3. Planted(doc)
    BY <1>3 DEF IdsFor
  <2>4. \A x : Needs(cmds, 1, x) => x \notin DocumentIds(doc)
    BY <1>9, NeededIs
  <2>5. Carries(doc, cmds, Folded(doc, cmds).doc, Folded(doc, cmds).inverse)
    BY <1>1, <1>7, <2>2, <2>3, <2>4, KeptIds
  <2>6. Carries(doc, cmds, Applied(doc, cmds).doc, Applied(doc, cmds).inverse)
    BY <1>1, <1>7, <1>10, <2>2, <2>5, AppliedIds
  <2> QED
    BY <1>0, <2>1, <2>6
<1>12. \A k \in 1 .. Len(z2) : k + 1 <= Len(z) /\ z2[k] = z[k + 1]
  BY <1>6
<1>13. Exchanged(h, t, o, undo, redo, I, undo', redo')
  BY <1>0, <1>2, <1>5, <1>12 DEF Exchanged
<1>14. Unshared(h, o, undo, redo, cmds)
  BY <1>9 DEF Unshared
<1>15. NeededBy(cmds) \subseteq minted' /\ minted \subseteq minted' /\ minted' \subseteq Id
  BY <1>0, <1>9
<1> HIDE DEF top
<1>16. IdsFor(doc', undo', redo', minted')
  BY <1>3, <1>11, <1>13, <1>14, <1>15, StackIds
<1> QED
  BY <1>16 DEF IdsInv

LEMMA UndoIds == ASSUME FormInv, IdsInv, NEW h \in Host, Undo(h) PROVE IdsInv'
<1> DEFINE z == undo[h]
           r == Applied(doc, Head(z))
<1>1. /\ z # <<>> /\ Commits(r) /\ minted' = minted
      /\ undo' = [undo EXCEPT ![h] = Tail(undo[h])]
      /\ redo' = [redo EXCEPT ![h] = <<r.inverse>> \o redo[h]]
  BY DEF Undo, MoveBack
<1>2. StackForm(undo, named) /\ StackForm(redo, named)
  BY DEF FormInv
<1> HIDE DEF r
<1>3. /\ undo'[h] = Tail(z) /\ redo'[h] = <<r.inverse>> \o redo[h]
      /\ \A g \in Host \ {h} : undo'[g] = undo[g] /\ redo'[g] = redo[g]
  BY <1>1, <1>2 DEF StackForm
<1>4. Moving(h, "redo", "undo")
  BY <1>1, <1>3 DEF Moving, Side, r
<1> QED
  BY <1>4, MoveIds

LEMMA RedoIds == ASSUME FormInv, IdsInv, NEW h \in Host, Redo(h) PROVE IdsInv'
<1> DEFINE z == redo[h]
           r == Applied(doc, Head(z))
<1>1. /\ z # <<>> /\ Commits(r) /\ minted' = minted
      /\ redo' = [redo EXCEPT ![h] = Tail(redo[h])]
      /\ undo' = [undo EXCEPT ![h] = <<r.inverse>> \o undo[h]]
  BY DEF Redo, MoveForth
<1>2. StackForm(undo, named) /\ StackForm(redo, named)
  BY DEF FormInv
<1> HIDE DEF r
<1>3. /\ redo'[h] = Tail(z) /\ undo'[h] = <<r.inverse>> \o undo[h]
      /\ \A g \in Host \ {h} : undo'[g] = undo[g] /\ redo'[g] = redo[g]
  BY <1>1, <1>2 DEF StackForm
<1>4. Moving(h, "undo", "redo")
  BY <1>1, <1>3 DEF Moving, Side, r
<1> QED
  BY <1>4, MoveIds

-----------------------------------------------------------------------------
(* What the hosts submit.                                                    *)

(* Commands that bring nothing.                                              *)
Edits(c) == KeptForm(c) /\ c.type \notin {"node.create", "component.create"}

LEMMA EditsBring ==
  ASSUME NEW c, Edits(c)
  PROVE  Brings(c) = {} /\ Payload(c) /\ CommandForm(c)
BY DEF Edits, Brings, Payload, CommandForm, KeptForm

LEMMA EditsIds ==
  ASSUME FormInv, IdsInv, NEW h \in Host, NEW cmds, IsSeq(cmds), \A c \in Range(cmds) : Edits(c),
         minted' = minted, Record(h, Applied(doc, cmds))
  PROVE  IdsInv'
<1>1. \A k \in 1 .. Len(cmds) : Edits(cmds[k])
  BY DEF IsSeq, Range
<1>2. \A k \in 1 .. Len(cmds) : Brings(cmds[k]) = {} /\ Payload(cmds[k])
  BY <1>1, EditsBring
<1>3. Loaded(cmds)
  <2>1. Tidy(cmds)
    <3>1. \A m \in 1 .. Len(cmds) : \A k \in 1 .. m - 1 : Brings(cmds[m]) = {}
      BY <1>2
    <3> QED
      BY <3>1 DEF Tidy
  <2> QED
    BY <1>2, <2>1 DEF Loaded
<1>4. \A x : ~Needs(cmds, 1, x)
  <2>1. Len(cmds) \in Nat
    BY LenNat
  <2> QED
    BY <1>2, <2>1 DEF Needs
<1>5. NeededBy(cmds) = {}
  BY <1>4 DEF NeededBy
<1>6. AllKept(cmds) /\ \A c \in Range(cmds) : CommandForm(c)
  BY EditsBring DEF AllKept, Edits
<1>7. DocForm(doc) /\ Planted(doc) /\ minted \subseteq Id
  BY DEF FormInv, IdsInv, IdsFor
<1>8. Folded(doc, cmds).ok => Carries(doc, cmds, Folded(doc, cmds).doc, Folded(doc, cmds).inverse)
  BY <1>3, <1>4, <1>6, <1>7, KeptIds
<1> QED
  BY <1>5, <1>6, <1>7, <1>8, RecordIds

LEMMA OneEditIds ==
  ASSUME FormInv, IdsInv, NEW h \in Host, NEW c, Edits(c), minted' = minted,
         Record(h, Applied(doc, <<c>>))
  PROVE  IdsInv'
<1>1. IsSeq(<<c>>) /\ Range(<<c>>) = {c}
  BY Single
<1> QED
  BY <1>1, EditsIds

LEMMA NodeDeleteIds == ASSUME FormInv, IdsInv, NEW h \in Host, NodeDelete(h) PROVE IdsInv'
<1>1. PICK p, id : Record(h, Applied(doc, <<[type |-> "node.delete", place |-> p, id |-> id]>>))
                   /\ minted' = minted
  BY DEF NodeDelete, Submit
<1>2. Edits([type |-> "node.delete", place |-> p, id |-> id])
  BY DEF Edits, KeptForm
<1> QED
  BY <1>1, <1>2, OneEditIds

LEMMA NodeLockIds == ASSUME FormInv, IdsInv, NEW h \in Host, NodeLock(h) PROVE IdsInv'
<1>1. PICK p, id, lock :
        Record(h, Applied(doc, <<[type |-> "node.update", place |-> p, id |-> id, key |-> "locked",
                                  to |-> lock]>>))
        /\ minted' = minted
  BY DEF NodeLock, Submit
<1>2. Edits([type |-> "node.update", place |-> p, id |-> id, key |-> "locked", to |-> lock])
  BY DEF Edits, KeptForm
<1> QED
  BY <1>1, <1>2, OneEditIds

LEMMA ComponentDeleteIds == ASSUME FormInv, IdsInv, NEW h \in Host, ComponentDelete(h) PROVE IdsInv'
<1>1. PICK x : Record(h, Applied(doc, <<[type |-> "component.delete", component |-> x]>>))
               /\ minted' = minted
  BY DEF ComponentDelete, Submit
<1>2. Edits([type |-> "component.delete", component |-> x])
  BY DEF Edits, KeptForm
<1> QED
  BY <1>1, <1>2, OneEditIds

LEMMA RenamingEdits == \A x, name : Edits(Renaming(x, name))
BY DEF Renaming, Edits, KeptForm

LEMMA ExposingEdits == \A x, b, at : Edits(Exposing(x, b, at))
BY DEF Exposing, Edits, KeptForm

LEMMA ComponentRenameIds == ASSUME FormInv, IdsInv, NEW h \in Host, ComponentRename(h) PROVE IdsInv'
<1>1. PICK x, name : Record(h, Applied(doc, <<Renaming(x, name)>>)) /\ minted' = minted
  BY DEF ComponentRename, Submit
<1> QED
  BY <1>1, RenamingEdits, OneEditIds

LEMMA AddPropertyIds == ASSUME FormInv, IdsInv, NEW h \in Host, AddProperty(h) PROVE IdsInv'
<1>1. PICK x, b, at : Record(h, Applied(doc, <<Exposing(x, b, at)>>)) /\ minted' = minted
  BY DEF AddProperty, Submit
<1> QED
  BY <1>1, ExposingEdits, OneEditIds

LEMMA UpdatePropertyIds == ASSUME FormInv, IdsInv, NEW h \in Host, UpdateProperty(h) PROVE IdsInv'
<1>1. PICK x, b :
        Record(h, Applied(doc, <<[type |-> "component.update-property", component |-> x,
                                  binding |-> b, rev |-> 0]>>))
        /\ minted' = minted
  BY DEF UpdateProperty, Submit
<1>2. Edits([type |-> "component.update-property", component |-> x, binding |-> b, rev |-> 0])
  BY DEF Edits, KeptForm
<1> QED
  BY <1>1, <1>2, OneEditIds

LEMMA RemovePropertyIds == ASSUME FormInv, IdsInv, NEW h \in Host, RemoveProperty(h) PROVE IdsInv'
<1>1. PICK x, p :
        Record(h, Applied(doc, <<[type |-> "component.remove-property", component |-> x,
                                  property |-> p, rev |-> 0]>>))
        /\ minted' = minted
  BY DEF RemoveProperty, Submit
<1>2. Edits([type |-> "component.remove-property", component |-> x, property |-> p, rev |-> 0])
  BY DEF Edits, KeptForm
<1> QED
  BY <1>1, <1>2, OneEditIds

LEMMA SetOverrideIds == ASSUME FormInv, IdsInv, NEW h \in Host, SetOverride(h) PROVE IdsInv'
<1>1. PICK p, id, q, v :
        Record(h, Applied(doc, <<[type |-> "component-instance.set-override", place |-> p, id |-> id,
                                  property |-> q, value |-> v]>>))
        /\ minted' = minted
  BY DEF SetOverride, Submit
<1>2. Edits([type |-> "component-instance.set-override", place |-> p, id |-> id, property |-> q,
             value |-> v])
  BY DEF Edits, KeptForm
<1> QED
  BY <1>1, <1>2, OneEditIds

LEMMA ResetOverrideIds == ASSUME FormInv, IdsInv, NEW h \in Host, ResetOverride(h) PROVE IdsInv'
<1>1. PICK p, id, q :
        Record(h, Applied(doc, <<[type |-> "component-instance.reset-override", place |-> p,
                                  id |-> id, property |-> q]>>))
        /\ minted' = minted
  BY DEF ResetOverride, Submit
<1>2. Edits([type |-> "component-instance.reset-override", place |-> p, id |-> id, property |-> q])
  BY DEF Edits, KeptForm
<1> QED
  BY <1>1, <1>2, OneEditIds

LEMMA ResetAllOverridesIds ==
  ASSUME FormInv, IdsInv, NEW h \in Host, ResetAllOverrides(h) PROVE IdsInv'
<1>1. PICK p, id :
        Record(h, Applied(doc, <<[type |-> "component-instance.reset-all-overrides", place |-> p,
                                  id |-> id]>>))
        /\ minted' = minted
  BY DEF ResetAllOverrides, Submit
<1>2. Edits([type |-> "component-instance.reset-all-overrides", place |-> p, id |-> id])
  BY DEF Edits, KeptForm
<1> QED
  BY <1>1, <1>2, OneEditIds

LEMMA RenameAndExposeIds == ASSUME FormInv, IdsInv, NEW h \in Host, RenameAndExpose(h) PROVE IdsInv'
<1>1. PICK x, b : Record(h, Applied(doc, <<Renaming(x, "Card"), Exposing(x, b, 1)>>))
                  /\ minted' = minted
  BY DEF RenameAndExpose, Submit
<1> DEFINE r == Renaming(x, "Card")
           e == Exposing(x, b, 1)
           cmds == <<r, e>>
<1>2. Edits(r) /\ Edits(e)
  BY RenamingEdits, ExposingEdits
<1> HIDE DEF r, e
<1>3. IsSeq(cmds) /\ \A c \in Range(cmds) : Edits(c)
  <2>1. cmds \in Seq({r, e})
    OBVIOUS
  <2>2. IsSeq(cmds) /\ Range(cmds) \subseteq {r, e}
    BY <2>1, SeqIs
  <2> QED
    BY <1>2, <2>2
<1>4. Record(h, Applied(doc, cmds)) /\ minted' = minted
  BY <1>1 DEF r, e
<1> HIDE DEF cmds
<1> QED
  BY <1>3, <1>4, EditsIds

(* A command that brings new ids.                                            *)
LEMMA NewsIds ==
  ASSUME FormInv, IdsInv, NEW h \in Host, NEW c, CommandForm(c), Payload(c),
         Record(h, Applied(doc, <<c>>)), NEW k \in Nat, Enough(k), Minting(k),
         Brings(c) \subseteq News(k),
         Accepts(doc, c) => Answers(doc, c, After(doc, c), InverseOf(doc, c))
  PROVE  IdsInv'
<1> DEFINE cmds == <<c>>
<1>1. News(k) \subseteq Id \ minted /\ minted' = minted \cup News(k)
  BY EnoughNews DEF Minting, News
<1>2. DocForm(doc) /\ Planted(doc) /\ minted \subseteq Id /\ DocumentIds(doc) \subseteq minted
  BY DEF FormInv, IdsInv, IdsFor
<1>3. Brings(c) \cap DocumentIds(doc) = {}
  BY <1>1, <1>2
<1>4. IsSeq(cmds) /\ Range(cmds) = {c}
  BY Single
<1>5. Folded(doc, cmds).ok => Carries(doc, cmds, Folded(doc, cmds).doc, Folded(doc, cmds).inverse)
  BY <1>2, <1>3, OneIds
<1>6. \A x : Needs(cmds, 1, x) => x \in Brings(c)
  BY OneLoaded
<1> HIDE DEF cmds
<1>7. NeededBy(cmds) \subseteq News(k)
  BY <1>6, NeededIs
<1>8. Record(h, Applied(doc, cmds)) /\ \A e \in Range(cmds) : CommandForm(e)
  BY <1>4 DEF cmds
<1>9. /\ minted \subseteq minted' /\ minted' \subseteq Id /\ NeededBy(cmds) \cap minted = {}
      /\ NeededBy(cmds) \subseteq minted'
  BY <1>1, <1>2, <1>7
<1> QED
  BY <1>4, <1>5, <1>8, <1>9, RecordIds

LEMMA FirstNews ==
  ASSUME NEW k \in Nat, k >= 1, Enough(k)
  PROVE  /\ Fresh(1) \in Id \ minted /\ Fresh(1) \in News(k)
         /\ k >= 2 => Fresh(2) \in Id \ minted /\ Fresh(2) \in News(k) /\ Fresh(2) # Fresh(1)
<1>1. /\ \A i \in 1 .. k : i \in 1 .. Cardinality(Id \ minted)
      /\ News(k) \subseteq Id \ minted
  BY EnoughNews
<1>2. 1 \in 1 .. k /\ (k >= 2 => 2 \in 1 .. k)
  OBVIOUS
<1>3. Fresh(1) \in News(k) /\ (k >= 2 => Fresh(2) \in News(k))
  BY <1>2 DEF News
<1>4. k >= 2 => Fresh(2) # Fresh(1)
  <2>1. k >= 2 => 1 \in 1 .. Cardinality(Id \ minted) /\ 2 \in 1 .. Cardinality(Id \ minted)
    BY <1>1, <1>2
  <2>2. k >= 2 /\ Fresh(2) = Fresh(1) => 2 = 1
    BY <2>1, FreshApart
  <2> QED
    BY <2>2
<1> QED
  BY <1>1, <1>3, <1>4

(* The parent that a command names when it names none.                       *)
LEMMA TopIs ==
  ASSUME NEW d, Planted(d), NEW p \in Places(d)
  PROVE  Top(d, p) = 0 \/ Top(d, p) \in DocumentIds(d)
<1>1. CASE p \in Page
  BY <1>1 DEF Top
<1>2. CASE p \notin Page
  <2>1. Subtree(Tree(d, p), d.defs[p].root, 0)
    BY <1>2 DEF Planted, Rooted
  <2>2. Top(d, p) \in IdsOf(Tree(d, p))
    BY <1>2, <2>1 DEF Top, Subtree
  <2> QED
    BY <2>2, IdsAre
<1> QED
  BY <1>1, <1>2

LEMMA NodeCreateIds == ASSUME FormInv, IdsInv, NEW h \in Host, NodeCreate(h) PROVE IdsInv'
<1>1. PICK p \in Places(doc) :
        /\ Enough(1) /\ Minting(1)
        /\ Submit(h, <<[type |-> "node.create", place |-> p, id |-> Fresh(1), under |-> Top(doc, p),
                       nodes |-> {PlainNode(Fresh(1), Top(doc, p), "absent")}]>>)
  BY DEF NodeCreate
<1> DEFINE n == PlainNode(Fresh(1), Top(doc, p), "absent")
           c == [type |-> "node.create", place |-> p, id |-> Fresh(1), under |-> Top(doc, p),
                 nodes |-> {n}]
<1>2. TreeForm({n}) /\ n.id = Fresh(1) /\ n.under = Top(doc, p)
  BY PlainForm, FS_Singleton DEF TreeForm, PlainNode
<1>3. Record(h, Applied(doc, <<c>>))
  BY <1>1 DEF Submit
<1> HIDE DEF n
<1>4. CommandForm(c)
  BY <1>2 DEF CommandForm, KeptForm
<1>5. DocForm(doc) /\ Planted(doc) /\ minted \subseteq Id /\ DocumentIds(doc) \subseteq minted
  BY DEF FormInv, IdsInv, IdsFor
<1>6. Fresh(1) \in Id \ minted /\ Fresh(1) \in News(1)
  BY <1>1, FirstNews
<1>7. n.id \in Id /\ n.under # n.id
  <2>1. Top(doc, p) = 0 \/ Top(doc, p) \in DocumentIds(doc)
    BY <1>5, TopIs
  <2>2. 0 \notin Id
    BY DEF Id
  <2> QED
    BY <1>2, <1>5, <1>6, <2>1, <2>2
<1>8. Subtree({n}, n.id, n.under) /\ IdsOf({n}) = {n.id}
  BY <1>7, OneGrown
<1>9. c.type = "node.create" /\ c.nodes = {n} /\ c.id = n.id /\ c.under = n.under
  BY <1>2
<1> HIDE DEF c
<1>10. Payload(c) /\ Brings(c) = {Fresh(1)}
  BY <1>2, <1>8, <1>9 DEF Payload, Brings
<1>11. Brings(c) \subseteq News(1) /\ Brings(c) \cap DocumentIds(doc) = {}
  BY <1>5, <1>6, <1>10
<1>12. Accepts(doc, c) => Answers(doc, c, After(doc, c), InverseOf(doc, c))
  BY <1>4, <1>5, <1>9, <1>10, <1>11, CreateAnswers
<1> QED
  BY <1>1, <1>3, <1>4, <1>10, <1>11, <1>12, NewsIds

LEMMA InstanceInsertIds == ASSUME FormInv, IdsInv, NEW h \in Host, InstanceInsert(h) PROVE IdsInv'
<1>1. PICK pair \in Nestings :
        /\ Enough(1) /\ Minting(1)
        /\ Submit(h, <<[type |-> "component-instance.insert", component |-> pair[1], place |-> pair[2],
                       instance |-> Fresh(1)]>>)
  BY DEF InstanceInsert
<1> DEFINE c == [type |-> "component-instance.insert", component |-> pair[1], place |-> pair[2],
                 instance |-> Fresh(1)]
<1>2. Record(h, Applied(doc, <<c>>))
  BY <1>1 DEF Submit
<1>3. CommandForm(c)
  BY DEF CommandForm, FirstForm
<1>4. DocForm(doc) /\ Planted(doc) /\ minted \subseteq Id /\ DocumentIds(doc) \subseteq minted
  BY DEF FormInv, IdsInv, IdsFor
<1>5. Fresh(1) \in Id \ minted /\ Fresh(1) \in News(1)
  BY <1>1, FirstNews
<1>6. c.type = "component-instance.insert" /\ c.instance = Fresh(1)
  OBVIOUS
<1> HIDE DEF c
<1>7. Payload(c) /\ Brings(c) = {Fresh(1)}
  BY <1>6 DEF Payload, Brings
<1>8. Brings(c) \subseteq News(1) /\ Brings(c) \cap DocumentIds(doc) = {} /\ c.instance \in Id
  BY <1>4, <1>5, <1>6, <1>7
<1>9. Accepts(doc, c) => Answers(doc, c, After(doc, c), InverseOf(doc, c))
  BY <1>3, <1>4, <1>6, <1>8, InsertAnswers
<1> QED
  BY <1>1, <1>2, <1>3, <1>7, <1>8, <1>9, NewsIds

(* A definition that a host brings is a tree of two new nodes.               *)
LEMMA NewDefinitionIs ==
  ASSUME NEW used \in Component \cup {Plain}, Enough(2)
  PROVE  /\ Subtree(NewDefinition(used).tree, NewDefinition(used).root, 0)
         /\ IdsOf(NewDefinition(used).tree) \subseteq News(2)
         /\ SourceForm(NewDefinition(used))
<1> DEFINE root == PlainNode(Fresh(1), 0, "absent")
           leaf == PlainNode(Fresh(2), Fresh(1), "absent")
           child == [leaf EXCEPT !.of = used]
           def == [name |-> "Component", rev |-> 1, root |-> root.id, tree |-> {root, child},
                   props |-> <<>>]
<1>1. NewDefinition(used) = def
  BY DEF NewDefinition
<1>2. /\ root.id = Fresh(1) /\ root.under = 0 /\ root.of = Plain
      /\ child.id = Fresh(2) /\ child.under = Fresh(1)
  BY DEF PlainNode
<1>3. /\ Fresh(1) \in Id /\ Fresh(1) \in News(2) /\ Fresh(2) \in Id /\ Fresh(2) \in News(2)
      /\ Fresh(2) # Fresh(1)
  BY FirstNews
<1>4. 0 \notin Id
  BY DEF Id
<1>5. def.tree = {root} \cup {child} /\ def.root = root.id
  OBVIOUS
<1> HIDE DEF root, child, def
<1>6. Subtree({root}, root.id, root.under) /\ IdsOf({root}) = {root.id}
  BY <1>2, <1>3, <1>4, OneGrown
<1>7. Subtree({child}, child.id, child.under) /\ IdsOf({child}) = {child.id}
  BY <1>2, <1>3, OneGrown
<1>8. Grown({root} \cup {child}, 0)
  <2>1. Grown({root}, 0) /\ Grown({child}, Fresh(1))
    BY <1>2, <1>6, <1>7 DEF Subtree
  <2>2. IdsOf({root}) \cap IdsOf({child}) = {}
    BY <1>2, <1>3, <1>6, <1>7
  <2>3. \E m \in {root} : m.id = Fresh(1) /\ m.of = Plain
    BY <1>2
  <2> QED
    BY <1>4, <2>1, <2>2, <2>3, GraftGrown
<1>9. IdsOf({root} \cup {child}) = {Fresh(1), Fresh(2)}
  BY <1>2 DEF IdsOf
<1>10. Subtree({root} \cup {child}, root.id, 0)
  BY <1>2, <1>3, <1>8, <1>9 DEF Subtree
<1>11. SourceForm(NewDefinition(used))
  BY NewForm
<1> QED
  BY <1>1, <1>3, <1>5, <1>9, <1>10, <1>11

LEMMA ComponentCreateIds == ASSUME FormInv, IdsInv, NEW h \in Host, ComponentCreate(h) PROVE IdsInv'
<1>1. PICK x \in Component \ named :
        /\ Enough(2) /\ Minting(2)
        /\ \E def \in {NewDefinition(used) : used \in Defined(doc) \cup {x, Plain}}
                      \cup {doc.defs[y] : y \in Defined(doc)} :
              Submit(h, <<[type |-> "component.create", component |-> x, definition |-> def]>>)
  BY DEF ComponentCreate
<1>2. PICK def \in {NewDefinition(used) : used \in Defined(doc) \cup {x, Plain}}
                   \cup {doc.defs[y] : y \in Defined(doc)} :
              Submit(h, <<[type |-> "component.create", component |-> x, definition |-> def]>>)
  BY <1>1
<1> DEFINE c == [type |-> "component.create", component |-> x, definition |-> def]
<1>3. Record(h, Applied(doc, <<c>>))
  BY <1>2 DEF Submit
<1>4. IdsOf(def.tree) \cap DocumentIds(doc) = {}
  <2>1. Accepts(doc, c)
    BY <1>3, OneAccepted DEF Record, Commits
  <2> QED
    BY <2>1 DEF Accepts, RestoreAccepts, Addable
<1>5. DocForm(doc) /\ Planted(doc) /\ Defined(doc) \subseteq Component
  BY PlacesAre DEF FormInv, IdsInv, IdsFor
<1>6. ASSUME NEW y \in Defined(doc), def = doc.defs[y]
      PROVE  FALSE
  <2>1. y \in Places(doc) /\ y \notin Page
    BY <1>5, <1>6, ComponentAssumption DEF Places
  <2>2. Tree(doc, y) = def.tree
    BY <1>6, <2>1 DEF Tree
  <2>3. Subtree(Tree(doc, y), doc.defs[y].root, 0)
    BY <1>5, <2>1 DEF Planted, Rooted
  <2>4. doc.defs[y].root \in IdsOf(Tree(doc, y)) /\ IdsOf(Tree(doc, y)) \subseteq DocumentIds(doc)
    BY <2>1, <2>3, IdsAre DEF Subtree
  <2> QED
    BY <1>4, <2>2, <2>4
<1>7. PICK used \in Defined(doc) \cup {x, Plain} : def = NewDefinition(used)
  BY <1>2, <1>6
<1>8. Subtree(def.tree, def.root, 0) /\ IdsOf(def.tree) \subseteq News(2) /\ SourceForm(def)
  <2>1. used \in Component \cup {Plain}
    BY <1>1, <1>5
  <2> QED
    BY <1>1, <1>7, <2>1, NewDefinitionIs
<1>9. c.type = "component.create" /\ c.definition = def /\ CommandForm(c)
  BY <1>1, <1>8 DEF CommandForm, KeptForm
<1> HIDE DEF c
<1>10. Payload(c) /\ Brings(c) \subseteq News(2)
  BY <1>8, <1>9 DEF Payload, Brings
<1>11. Accepts(doc, c) => Answers(doc, c, After(doc, c), InverseOf(doc, c))
  BY <1>5, <1>9, <1>10, RestoreAnswers
<1> QED
  BY <1>1, <1>3, <1>9, <1>10, <1>11, NewsIds

LEMMA ComponentDuplicateIds ==
  ASSUME FormInv, IdsInv, NEW h \in Host, ComponentDuplicate(h) PROVE IdsInv'
<1>1. PICK x, copy :
        /\ x \in Defined(doc) /\ copy \in Component \ named
        /\ Enough(Cardinality(IdsOf(Tree(doc, x)))) /\ Minting(Cardinality(IdsOf(Tree(doc, x))))
        /\ Submit(h, <<[type |-> "component.duplicate", component |-> x, copy |-> copy,
                       fresh |-> FreshFor(IdsOf(Tree(doc, x)), 0)]>>)
  BY DEF ComponentDuplicate
<1> DEFINE old == IdsOf(Tree(doc, x))
           k == Cardinality(old)
           fresh == FreshFor(old, 0)
           c == [type |-> "component.duplicate", component |-> x, copy |-> copy, fresh |-> fresh]
<1>2. Record(h, Applied(doc, <<c>>)) /\ Enough(k) /\ Minting(k)
  BY <1>1 DEF Submit
<1> HIDE DEF fresh
<1>3. CommandForm(c)
  BY <1>1 DEF CommandForm, FirstForm
<1>4. DocForm(doc) /\ Planted(doc) /\ minted \subseteq Id /\ DocumentIds(doc) \subseteq minted
  BY DEF FormInv, IdsInv, IdsFor
<1>5. old \in SUBSET (Id \cap minted) /\ IsFiniteSet(old) /\ k \in Nat
  <2>1. x \in Places(doc)
    BY <1>1 DEF Places
  <2>2. old \subseteq minted
    BY <1>4, <2>1, IdsAre
  <2>3. IsFiniteSet(1 .. MaxId)
    BY ComponentAssumption, FS_Interval
  <2>4. IsFiniteSet(old)
    BY <1>4, <2>2, <2>3, FS_Subset DEF Id
  <2> QED
    BY <1>4, <2>2, <2>4, FS_CardinalityType
<1> HIDE DEF old, k
<1>6. /\ Renews(fresh, old)
      /\ \A y \in Renewed(fresh) : \E i \in 0 + 1 .. 0 + k : y = Fresh(i)
  <2>1. Enough(0 + k)
    BY <1>2, <1>5
  <2> QED
    BY <1>5, <2>1, FreshForNews DEF fresh, k
<1>7. Renewed(fresh) \subseteq News(k)
  <2>1. 0 + 1 .. 0 + k = 1 .. k
    BY <1>5
  <2> QED
    BY <1>6, <2>1 DEF News
<1>8. c.type = "component.duplicate" /\ c.fresh = fresh /\ c.component = x
  OBVIOUS
<1>9. Renews(c.fresh, IdsOf(Tree(doc, c.component)))
  BY <1>6, <1>8 DEF old
<1> HIDE DEF c
<1>10. Payload(c) /\ Brings(c) \subseteq News(k)
  BY <1>7, <1>8 DEF Payload, Brings
<1>11. Accepts(doc, c) => Answers(doc, c, After(doc, c), InverseOf(doc, c))
  BY <1>3, <1>4, <1>8, <1>9, DuplicateAnswers
<1> QED
  BY <1>2, <1>3, <1>5, <1>10, <1>11, NewsIds

(* A selection, and its ids.                                                 *)
Chosen(d, p, ids) == UNION {Below(Tree(d, p), id) : id \in ids}

ChosenIds(d, p, ids) == UNION {IdsOf(Below(Tree(d, p), id)) : id \in ids}

LEMMA ChosenIdsAre ==
  ASSUME NEW d, Planted(d), DocumentIds(d) \subseteq minted, NEW p, NEW ids
  PROVE  /\ ChosenIds(d, p, ids) \in SUBSET (Id \cap minted)
         /\ IsFiniteSet(ChosenIds(d, p, ids))
         /\ IdsOf(Chosen(d, p, ids)) = ChosenIds(d, p, ids)
<1> DEFINE B(id) == Below(Tree(d, p), id)
           S == Chosen(d, p, ids)
           old == ChosenIds(d, p, ids)
<1>1. \A id : B(id) \subseteq Tree(d, p)
  BY BelowIn
<1>2. \A x : x \in IdsOf(S) <=> \E id \in ids : \E n \in B(id) : x = n.id
  BY DEF IdsOf, Chosen
<1>3. \A x : x \in old <=> \E id \in ids : \E n \in B(id) : x = n.id
  BY DEF IdsOf, ChosenIds
<1> HIDE DEF B
<1>4. IdsOf(S) = old
  BY <1>2, <1>3
<1>5. old \subseteq DocumentIds(d)
  BY <1>1, <1>3, IdsAre
<1>6. old \subseteq Id
  BY <1>5, PlantedIds
<1>7. IsFiniteSet(old)
  <2>1. IsFiniteSet(1 .. MaxId)
    BY ComponentAssumption, FS_Interval
  <2> QED
    BY <1>6, <2>1, FS_Subset DEF Id
<1> QED
  BY <1>4, <1>5, <1>6, <1>7

LEMMA ComponentExtractIds ==
  ASSUME FormInv, IdsInv, NEW h \in Host, ComponentExtract(h) PROVE IdsInv'
<1>0. PICK x \in Component : \E p, ids, reuse :
        LET old == UNION {IdsOf(Below(Tree(doc, p), id)) : id \in ids}
            count == 2 + Cardinality(old)
        IN  /\ Enough(count) /\ Minting(count)
            /\ Submit(h, <<[type |-> "component.extract", place |-> p, ids |-> ids, component |-> x,
                           root |-> Fresh(1), instance |-> Fresh(2), fresh |-> FreshFor(old, 2),
                           reuse |-> reuse]>>)
  BY DEF ComponentExtract
<1>1. PICK p, ids, reuse :
        LET old == UNION {IdsOf(Below(Tree(doc, p), id)) : id \in ids}
            count == 2 + Cardinality(old)
        IN  /\ Enough(count) /\ Minting(count)
            /\ Submit(h, <<[type |-> "component.extract", place |-> p, ids |-> ids, component |-> x,
                           root |-> Fresh(1), instance |-> Fresh(2), fresh |-> FreshFor(old, 2),
                           reuse |-> reuse]>>)
  BY <1>0
<1> DEFINE old == UNION {IdsOf(Below(Tree(doc, p), id)) : id \in ids}
           S == UNION {Below(Tree(doc, p), id) : id \in ids}
           k == 2 + Cardinality(old)
           fresh == FreshFor(old, 2)
           c == [type |-> "component.extract", place |-> p, ids |-> ids, component |-> x,
                 root |-> Fresh(1), instance |-> Fresh(2), fresh |-> fresh, reuse |-> reuse]
<1>2. Record(h, Applied(doc, <<c>>)) /\ Enough(k) /\ Minting(k)
  BY <1>1 DEF Submit
<1> HIDE DEF fresh
<1>3. CommandForm(c)
  BY <1>1 DEF CommandForm, FirstForm
<1>4. DocForm(doc) /\ Planted(doc) /\ minted \subseteq Id /\ DocumentIds(doc) \subseteq minted
  BY DEF FormInv, IdsInv, IdsFor
<1>5. /\ c.type = "component.extract" /\ c.fresh = fresh /\ Selected(doc, c) = S
      /\ c.root = Fresh(1) /\ c.instance = Fresh(2)
  BY DEF Selected
<1>6. old \in SUBSET (Id \cap minted) /\ IsFiniteSet(old) /\ IdsOf(S) = old
  <2>1. old = ChosenIds(doc, p, ids) /\ S = Chosen(doc, p, ids)
    BY DEF ChosenIds, Chosen
  <2> HIDE DEF old, S
  <2> QED
    BY <1>4, <2>1, ChosenIdsAre
<1> HIDE DEF old, S, c
<1>7. k \in Nat /\ k >= 2 /\ Cardinality(old) \in Nat /\ k = 2 + Cardinality(old)
  BY <1>6, FS_CardinalityType
<1> HIDE DEF k
<1>8. /\ Renews(fresh, old) /\ \A y \in old : fresh[y] # y
      /\ \A y \in Renewed(fresh) : \E i \in 2 + 1 .. 2 + Cardinality(old) : y = Fresh(i)
  BY <1>2, <1>6, <1>7, FreshForNews DEF fresh
<1>9. /\ \A i \in 1 .. k : i \in 1 .. Cardinality(Id \ minted)
      /\ News(k) \subseteq Id \ minted
  BY <1>2, <1>7, EnoughNews
<1>10. /\ Fresh(1) \in News(k) /\ Fresh(2) \in News(k) /\ Fresh(1) # Fresh(2)
  BY <1>2, <1>7, FirstNews
<1>11. Renewed(fresh) \subseteq News(k) /\ {Fresh(1), Fresh(2)} \cap Renewed(fresh) = {}
  <2>1. 1 \in 1 .. k /\ 2 \in 1 .. k /\ \A i \in 2 + 1 .. 2 + Cardinality(old) : i \in 1 .. k /\ i # 1 /\ i # 2
    BY <1>7
  <2>2. \A i \in 2 + 1 .. 2 + Cardinality(old) : Fresh(i) # Fresh(1) /\ Fresh(i) # Fresh(2)
    BY <1>9, <2>1, FreshApart
  <2>3. \A i \in 2 + 1 .. 2 + Cardinality(old) : Fresh(i) \in News(k)
    BY <2>1 DEF News
  <2> QED
    BY <1>8, <2>2, <2>3
<1>12. Payload(c) /\ Brings(c) = {c.root, c.instance} \cup Renewed(c.fresh)
  BY <1>5 DEF Payload, Brings
<1>13. /\ Brings(c) \subseteq News(k) /\ Brings(c) \subseteq Id /\ Brings(c) \cap DocumentIds(doc) = {}
       /\ c.root # c.instance /\ {c.root, c.instance} \cap Renewed(c.fresh) = {}
  BY <1>4, <1>5, <1>9, <1>10, <1>11, <1>12
<1>14. Renews(c.fresh, IdsOf(Selected(doc, c))) /\ \A y \in IdsOf(Selected(doc, c)) : c.fresh[y] # y
  BY <1>5, <1>6, <1>8
<1>15. Accepts(doc, c) => Answers(doc, c, After(doc, c), InverseOf(doc, c))
  BY <1>3, <1>4, <1>5, <1>13, <1>14, ExtractAnswers
<1> QED
  BY <1>2, <1>3, <1>7, <1>12, <1>13, <1>15, NewsIds

(* The command that detaches the instance id on p with new ids.              *)
LEMMA DetachingIs ==
  ASSUME NEW p, NEW id, NEW skip \in Nat, NEW P, P = Inside(doc, The(doc, p, id).of), IsFiniteSet(P),
         Enough(skip + Cardinality(P)), NEW c, c = Detaching(p, id, skip)
  PROVE  /\ CommandForm(c) /\ Payload(c) /\ Frees(c) = {} /\ Cardinality(P) \in Nat
         /\ c.type = "component-instance.detach" /\ c.place = p /\ c.id = id
         /\ FreshIds(P, c.fresh)
         /\ \A x \in Brings(c) : \E i \in skip + 1 .. skip + Cardinality(P) : x = Fresh(i)
<1> DEFINE m == Cardinality(P)
           fresh == [i \in 1 .. m |-> Fresh(skip + i)]
<1>1. c = [type |-> "component-instance.detach", place |-> p, id |-> id, fresh |-> fresh]
  BY DEF Detaching
<1>2. m \in Nat
  BY FS_CardinalityType
<1>3. \A i \in 1 .. m : fresh[i] = Fresh(skip + i) /\ skip + i \in 1 .. skip + m /\ skip + i \in skip + 1 .. skip + m
  BY <1>2
<1>4. \A i \in 1 .. skip + m : i \in 1 .. Cardinality(Id \ minted)
  BY <1>2, EnoughNews
<1>5. DOMAIN fresh = 1 .. m
  OBVIOUS
<1> HIDE DEF m, fresh
<1>6. FreshIds(P, fresh)
  <2>1. \A i \in 1 .. m : fresh[i] \in Id
    BY <1>3, <1>4, FreshIs
  <2>2. ASSUME NEW i \in 1 .. m, NEW j \in 1 .. m, fresh[i] = fresh[j]
        PROVE  i = j
    <3>1. skip + i = skip + j
      BY <1>3, <1>4, <2>2, FreshApart
    <3> QED
      BY <1>2, <3>1
  <2> QED
    BY <1>5, <2>1, <2>2 DEF FreshIds, m
<1>7. /\ c.type = "component-instance.detach" /\ c.place = p /\ c.id = id /\ c.fresh = fresh
  BY <1>1
<1>8. CommandForm(c)
  BY <1>1 DEF CommandForm, FirstForm
<1>9. Payload(c) /\ Frees(c) = {} /\ Brings(c) = {fresh[i] : i \in DOMAIN fresh}
  BY <1>7 DEF Payload, Frees, Brings
<1>10. \A x \in Brings(c) : \E i \in skip + 1 .. skip + m : x = Fresh(i)
  BY <1>3, <1>5, <1>9
<1> QED
  BY <1>2, <1>6, <1>7, <1>8, <1>9, <1>10 DEF m

LEMMA InstanceDetachIds == ASSUME FormInv, IdsInv, NEW h \in Host, InstanceDetach(h) PROVE IdsInv'
<1>1. PICK p, id :
        /\ Enough(Cardinality(Inside(doc, The(doc, p, id).of)))
        /\ Minting(Cardinality(Inside(doc, The(doc, p, id).of)))
        /\ Submit(h, <<Detaching(p, id, 0)>>)
  BY DEF InstanceDetach
<1> DEFINE x == The(doc, p, id).of
           P == Inside(doc, x)
           k == Cardinality(P)
           c == Detaching(p, id, 0)
<1>2. Record(h, Applied(doc, <<c>>)) /\ Enough(k) /\ Minting(k)
  BY <1>1 DEF Submit
<1>3. DocForm(doc) /\ Planted(doc) /\ minted \subseteq Id /\ DocumentIds(doc) \subseteq minted
  BY DEF FormInv, IdsInv, IdsFor
<1>4. Accepts(doc, c)
  BY <1>2, OneAccepted DEF Record, Commits
<1>5. x \in Component
  <2>1. c.type = "component-instance.detach" /\ c.place = p /\ c.id = id
    BY DEF Detaching
  <2>2. IsInstance(doc, p, id)
    BY <1>4, <2>1 DEF Accepts, DetachAccepts
  <2>3. The(doc, p, id) \in Tree(doc, p) /\ TreeForm(Tree(doc, p))
    BY <1>3, <2>2, TheIn, TreesForm DEF IsInstance
  <2> QED
    BY <2>2, <2>3 DEF IsInstance, TreeForm, NodeForm
<1>6. IsFiniteSet(P)
  BY <1>3, <1>5, InsideFinite
<1>7. k \in Nat
  BY <1>6, FS_CardinalityType
<1>8. /\ CommandForm(c) /\ Payload(c) /\ c.type = "component-instance.detach"
      /\ c.place = p /\ c.id = id /\ FreshIds(P, c.fresh)
      /\ \A y \in Brings(c) : \E i \in 1 .. k : y = Fresh(i)
  <2> DEFINE q == P
             e == c
  <2>1. q = Inside(doc, The(doc, p, id).of) /\ e = Detaching(p, id, 0) /\ 0 \in Nat
    OBVIOUS
  <2>2. Enough(0 + Cardinality(q)) /\ IsFiniteSet(q)
    BY <1>2, <1>6, <1>7
  <2> HIDE DEF q, e
  <2>3. /\ CommandForm(e) /\ Payload(e) /\ e.type = "component-instance.detach"
        /\ e.place = p /\ e.id = id /\ FreshIds(q, e.fresh)
        /\ \A y \in Brings(e) : \E i \in 0 + 1 .. 0 + Cardinality(q) : y = Fresh(i)
    BY <2>1, <2>2, DetachingIs
  <2>4. 0 + 1 .. 0 + Cardinality(q) = 1 .. k
    BY <1>7 DEF q
  <2> QED
    BY <2>3, <2>4 DEF q, e
<1>9. Brings(c) \subseteq News(k) /\ News(k) \subseteq Id \ minted
  BY <1>2, <1>7, <1>8, EnoughNews DEF News
<1> HIDE DEF c, k
<1>10. Answers(doc, c, After(doc, c), InverseOf(doc, c))
  <2>1. FreshIds(Inside(doc, The(doc, c.place, c.id).of), c.fresh)
    BY <1>8
  <2>2. Brings(c) \cap DocumentIds(doc) = {}
    BY <1>3, <1>9
  <2> QED
    BY <1>3, <1>4, <1>8, <2>1, <2>2, DetachAnswers
<1> QED
  BY <1>2, <1>7, <1>8, <1>9, <1>10, NewsIds

(* Detaching every instance of a Source: the commands of a batch leave what  *)
(* the next ones rely on.                                                    *)

(* Each definition that is nested in a Source is in its cone.                *)
LEMMA ConeHolds ==
  ASSUME NEW d, DocForm(d), NEW c
  PROVE  /\ Cone(d, c) \subseteq Component /\ Uses(d, c) \subseteq Cone(d, c)
         /\ \A x \in Cone(d, c) : Uses(d, x) \subseteq Cone(d, c)
<1> DEFINE Closed(S) == Uses(d, c) \subseteq S /\ \A x \in S : Uses(d, x) \subseteq S
<1>1. \A y : y \in Cone(d, c) <=> y \in Component /\ \A S \in SUBSET Component : Closed(S) => y \in S
  BY DEF Cone
<1>2. \A x : Uses(d, x) \subseteq Component
  <2>1. \A x : TreeForm(Tree(d, x))
    BY TreesForm
  <2> QED
    BY <2>1 DEF Uses, TreeForm, NodeForm
<1>3. Uses(d, c) \subseteq Cone(d, c)
  BY <1>1, <1>2
<1>4. ASSUME NEW x \in Cone(d, c), NEW y \in Uses(d, x)
      PROVE  y \in Cone(d, c)
  <2>1. \A S \in SUBSET Component : Closed(S) => x \in S
    BY <1>1
  <2>2. \A S \in SUBSET Component : Closed(S) => y \in S
    BY <2>1
  <2> QED
    BY <1>1, <1>2, <2>2
<1> QED
  BY <1>1, <1>3, <1>4

(* A detached instance is in no Source that an instance of its own expands,  *)
(* so such an expansion stays what it was, and so does every other node.     *)
LEMMA DetachedElsewhere ==
  ASSUME NEW d, DocForm(d), NEW c, CommandForm(c), c.type = "component-instance.detach",
         Accepts(d, c), NEW n, n = The(d, c.place, c.id)
  PROVE  /\ n \in Tree(d, c.place) /\ n.of \in Component /\ c.place \in Places(d)
         /\ Inside(After(d, c), n.of) = Inside(d, n.of)
         /\ Places(After(d, c)) \subseteq Places(d)
         /\ \A q \in Places(After(d, c)) : \A m \in Tree(d, q) :
               q # c.place \/ m # n => m \in Tree(After(d, c), q)
<1> DEFINE p == c.place
           x == n.of
           T == Tree(d, p)
           new == Materialized(d, c)
           tree == (T \ {n}) \cup new
           e == After(d, c)
           R == {x} \cup Cone(d, x)
<1>1. e = Plant(d, p, tree)
  BY DEF After, Detached
<1>2. Holds(d, p, c.id) /\ n.of # Plain /\ Resolvable(d, x)
  BY DEF Accepts, DetachAccepts, IsInstance
<1>3. n \in T /\ x \in Component /\ TreeForm(T)
  <2>1. n \in T
    BY <1>2, TheIn
  <2>2. TreeForm(T)
    BY TreesForm
  <2> HIDE DEF T
  <2> QED
    BY <1>2, <2>1, <2>2 DEF TreeForm, NodeForm
<1>4. p \in Places(d)
  BY <1>3 DEF Tree, Places
<1>5. TreeForm(tree)
  <2>1. TreeForm(new)
    BY <1>3, MaterializedForm
  <2> HIDE DEF new, T
  <2> QED
    BY <1>3, <2>1, FS_Subset, FS_Union DEF TreeForm
<1>6. R \subseteq Component /\ \A y \in R : Uses(d, y) \subseteq Cone(d, x)
  BY <1>3, ConeHolds
<1>7. p \notin R
  <2>1. x \in Uses(d, p)
    BY <1>2, <1>3 DEF Uses
  <2>2. x \notin Cone(d, x)
    BY <1>2 DEF Resolvable
  <2> QED
    BY <1>6, <2>1, <2>2
<1> HIDE DEF tree, new, T
<1>8. /\ Apart(d, e, p)
      /\ p \in Places(e) => Tree(e, p) = tree
  BY <1>1, <1>4, <1>5, PlantApart
<1>9. \A y \in Component : y # p => e.defs[y] = d.defs[y]
  BY <1>1, <1>4, <1>5, PlantKeeps
<1> HIDE DEF e
<1>10. \A y \in R : Inner(d, y) = Inner(e, y) /\ Uses(d, y) \subseteq R
  <2> TAKE y \in R
  <2>1. y \in Component /\ y \notin Page /\ e.defs[y] = d.defs[y]
    BY <1>6, <1>7, <1>9, ComponentAssumption
  <2>2. Tree(e, y) = Tree(d, y) /\ (y \in Defined(e) <=> y \in Defined(d))
    BY <2>1 DEF Tree, Defined
  <2>3. Inner(d, y) = Inner(e, y)
    BY <2>1, <2>2 DEF Inner, IsRoot
  <2> QED
    BY <1>6, <2>3
<1>11. \A y \in R : Inside(d, y) = Inside(e, y)
  <2> DEFINE S == R
  <2>1. S \in SUBSET Component /\ \A y \in S : Inner(d, y) = Inner(e, y) /\ Uses(d, y) \subseteq S
    BY <1>6, <1>10
  <2> HIDE DEF S
  <2>2. \A y \in S : Inside(d, y) = Inside(e, y)
    BY <2>1, SameInside
  <2> QED
    BY <2>2 DEF S
<1>12. Inside(e, x) = Inside(d, x)
  BY <1>11
<1>13. Places(e) \subseteq Places(d)
  BY <1>4, <1>8 DEF Apart
<1>14. ASSUME NEW q \in Places(e), NEW m \in Tree(d, q), q # p \/ m # n
       PROVE  m \in Tree(e, q)
  <2>1. CASE q # p
    BY <1>8, <2>1 DEF Apart
  <2>2. CASE q = p
    BY <1>8, <1>14, <2>2 DEF tree, T
  <2> QED
    BY <2>1, <2>2
<1> QED
  BY <1>3, <1>4, <1>12, <1>13, <1>14 DEF e, T

(* Equal shares of the naturals: e each, and the j-th lies after the i-th.   *)
LEMMA SharesApart ==
  ASSUME NEW e \in Nat, NEW n \in Nat, NEW i \in 1 .. n
  PROVE  /\ e * (i - 1) \in Nat /\ e * n \in Nat
         /\ e * (i - 1) + e = e * i /\ e * i <= e * n
         /\ \A j \in 1 .. n : i < j => e * i <= e * (j - 1)
<1>1. i \in Nat /\ i - 1 \in Nat /\ i >= 1
  OBVIOUS
<1>2. \A a, b \in Nat : a <= b => e * a <= e * b /\ e * a \in Nat /\ e * b \in Nat
  <2> TAKE a, b \in Nat
  <2> HAVE a <= b
  <2>1. e * a \in Nat /\ e * (b - a) \in Nat
    OBVIOUS
  <2>2. e * b = e * a + e * (b - a)
    OBVIOUS
  <2> QED
    BY <2>1, <2>2
<1>3. e * (i - 1) + e = e * i
  BY <1>1
<1>4. e * (i - 1) \in Nat /\ e * n \in Nat /\ e * i <= e * n
  BY <1>1, <1>2
<1>5. ASSUME NEW j \in 1 .. n, i < j
      PROVE  e * i <= e * (j - 1)
  BY <1>1, <1>2, <1>5
<1> QED
  BY <1>3, <1>4, <1>5

(* The instances refs of x, all of them apart, and the batch that detaches   *)
(* one after the other and deletes x.                                        *)
DetachesAll(x, refs, cmds) ==
    /\ x \in Component /\ IsSeq(refs) /\ IsSeq(cmds) /\ Len(cmds) = Len(refs) + 1
    /\ \A i \in 1 .. Len(refs) :
          /\ refs[i][1] \in Places(doc) /\ refs[i][2] \in Tree(doc, refs[i][1]) /\ refs[i][2].of = x
          /\ cmds[i] = Detaching(refs[i][1], refs[i][2].id, Cardinality(Inside(doc, x)) * (i - 1))
    /\ \A i, j \in 1 .. Len(refs) : refs[i][1] = refs[j][1] /\ refs[i][2] = refs[j][2] => i = j
    /\ cmds[Len(refs) + 1] = [type |-> "component.delete", component |-> x]

LEMMA DetachingAll ==
  ASSUME FormInv, NEW h \in Host, DetachAllAndDelete(h)
  PROVE  \E x, refs, cmds :
            /\ DetachesAll(x, refs, cmds) /\ Record(h, Applied(doc, cmds))
            /\ Enough(Cardinality(Inside(doc, x)) * Len(refs))
            /\ Minting(Cardinality(Inside(doc, x)) * Len(refs))
<1>1. PICK x \in Defined(doc) :
        LET inSources == SetToSeq({r \in References(doc, x) : r[1] \in Component})
            onPages == SetToSeq({r \in References(doc, x) : r[1] \in Page})
            refs == inSources \o onPages
            each == Cardinality(Inside(doc, x))
        IN  /\ Enough(each * Len(refs)) /\ Minting(each * Len(refs))
            /\ Submit(h, [i \in DOMAIN refs |-> Detaching(refs[i][1], refs[i][2].id, each * (i - 1))]
                         \o <<[type |-> "component.delete", component |-> x]>>)
  BY DEF DetachAllAndDelete
<1> DEFINE A == {r \in References(doc, x) : r[1] \in Component}
           B == {r \in References(doc, x) : r[1] \in Page}
           a == SetToSeq(A)
           b == SetToSeq(B)
           refs == a \o b
           N == Len(refs)
           each == Cardinality(Inside(doc, x))
           s == [i \in DOMAIN refs |-> Detaching(refs[i][1], refs[i][2].id, each * (i - 1))]
           c == [type |-> "component.delete", component |-> x]
           t == <<c>>
           cmds == s \o t
<1>2. Record(h, Applied(doc, cmds)) /\ Enough(each * N) /\ Minting(each * N)
  BY <1>1 DEF Submit
<1>3. x \in Component
  BY DEF Defined
<1>4. /\ IsSeq(a) /\ \A i \in 1 .. Len(a) : a[i] \in A
      /\ \A i, j \in 1 .. Len(a) : a[i] = a[j] => i = j
      /\ IsSeq(b) /\ \A i \in 1 .. Len(b) : b[i] \in B
      /\ \A i, j \in 1 .. Len(b) : b[i] = b[j] => i = j
  <2>1. IsFiniteSet(References(doc, x))
    BY ReferencesFinite DEF FormInv
  <2>2. A \subseteq References(doc, x) /\ B \subseteq References(doc, x)
    OBVIOUS
  <2> HIDE DEF A, B
  <2>3. IsFiniteSet(A) /\ IsFiniteSet(B)
    BY <2>1, <2>2, FS_Subset
  <2> QED
    BY <2>3, ListOnce
<1>5. A \cap B = {}
  BY ComponentAssumption
<1>6. \A r \in A \cup B : /\ r = <<r[1], r[2]>> /\ r[1] \in Places(doc)
                          /\ r[2] \in Tree(doc, r[1]) /\ r[2].of = x
  BY DEF References
<1> HIDE DEF A, B, a, b
<1>7. /\ IsSeq(refs) /\ N = Len(a) + Len(b) /\ Len(a) \in Nat /\ Len(b) \in Nat
      /\ \A i \in 1 .. Len(a) : refs[i] = a[i]
      /\ \A i \in 1 .. Len(b) : refs[Len(a) + i] = b[i]
  BY <1>4, SeqJoin, JoinAt
<1> HIDE DEF refs
<1>8. \A i \in 1 .. N : \/ i \in 1 .. Len(a) /\ refs[i] = a[i] /\ refs[i] \in A
                        \/ /\ i - Len(a) \in 1 .. Len(b) /\ refs[i] = b[i - Len(a)]
                           /\ refs[i] \in B
  <2> TAKE i \in 1 .. N
  <2>1. CASE i <= Len(a)
    BY <1>4, <1>7, <2>1
  <2>2. CASE i > Len(a)
    <3> DEFINE k == i - Len(a)
    <3>1. k \in 1 .. Len(b) /\ i = Len(a) + k
      BY <1>7, <2>2
    <3> HIDE DEF k
    <3>2. refs[i] = b[k] /\ b[k] \in B
      BY <1>4, <1>7, <3>1
    <3> QED
      BY <3>1, <3>2 DEF k
  <2> QED
    BY <1>7, <2>1, <2>2
<1>9. \A i, j \in 1 .. N : refs[i] = refs[j] => i = j
  <2> TAKE i, j \in 1 .. N
  <2> HAVE refs[i] = refs[j]
  <2>1. CASE refs[i] \in A
    BY <1>4, <1>5, <1>8, <2>1
  <2>2. CASE refs[i] \in B
    <3>1. i - Len(a) \in 1 .. Len(b) /\ j - Len(a) \in 1 .. Len(b) /\ b[i - Len(a)] = b[j - Len(a)]
      BY <1>5, <1>8, <2>2
    <3>2. i - Len(a) = j - Len(a)
      BY <1>4, <3>1
    <3> QED
      BY <1>7, <3>2
  <2> QED
    BY <1>8, <2>1, <2>2
<1>10. \A i \in 1 .. N : /\ refs[i] = <<refs[i][1], refs[i][2]>> /\ refs[i][1] \in Places(doc)
                         /\ refs[i][2] \in Tree(doc, refs[i][1]) /\ refs[i][2].of = x
  BY <1>6, <1>8
<1>11. \A i, j \in 1 .. N : refs[i][1] = refs[j][1] /\ refs[i][2] = refs[j][2] => i = j
  BY <1>9, <1>10
<1>12. N \in Nat /\ DOMAIN refs = 1 .. N
  BY <1>7 DEF IsSeq
<1>13. /\ IsSeq(s) /\ Len(s) = N
       /\ \A i \in 1 .. N : s[i] = Detaching(refs[i][1], refs[i][2].id, each * (i - 1))
  <2>1. s = [i \in 1 .. N |-> s[i]] /\ DOMAIN s = 1 .. N
    BY <1>12
  <2>2. \A i \in 1 .. N : s[i] = Detaching(refs[i][1], refs[i][2].id, each * (i - 1))
    BY <1>12
  <2> HIDE DEF s, N
  <2>3. s \in [1 .. N -> Range(s)]
    BY <2>1 DEF Range
  <2>4. s \in Seq(Range(s))
    BY <1>12, <2>3
  <2>5. Len(s) = N
    BY <1>12, <2>1, <2>4
  <2> QED
    BY <2>2, <2>4, <2>5 DEF IsSeq
<1>14. IsSeq(t) /\ Len(t) = 1 /\ t[1] = c
  BY Single
<1> HIDE DEF s, t, N
<1>15. /\ IsSeq(cmds) /\ Len(cmds) = N + 1
       /\ \A i \in 1 .. N : cmds[i] = s[i]
       /\ cmds[N + 1] = c
  <2>1. IsSeq(cmds)
    BY <1>13, <1>14, SeqJoin
  <2>2. /\ Len(cmds) = Len(s) + Len(t)
        /\ \A i \in 1 .. Len(s) : cmds[i] = s[i]
        /\ \A i \in 1 .. Len(t) : cmds[Len(s) + i] = t[i]
    BY <1>13, <1>14, JoinAt
  <2>3. 1 \in 1 .. Len(t)
    BY <1>14
  <2>4. cmds[N + 1] = c
    BY <1>13, <1>14, <2>2, <2>3
  <2> HIDE DEF cmds
  <2> QED
    BY <1>13, <1>14, <2>1, <2>2, <2>4
<1> HIDE DEF cmds, c
<1>16. DetachesAll(x, refs, cmds)
  <2>1. \A i \in 1 .. N : cmds[i] = Detaching(refs[i][1], refs[i][2].id, each * (i - 1))
    BY <1>13, <1>15
  <2> QED
    BY <1>3, <1>7, <1>10, <1>11, <1>15, <2>1 DEF DetachesAll, N, c
<1> QED
  BY <1>2, <1>16 DEF N

(* Its commands bring new ids, each of them its own.                         *)
LEMMA DetachAllLoaded ==
  ASSUME FormInv, IdsInv, NEW x, NEW refs, NEW cmds, DetachesAll(x, refs, cmds),
         Enough(Cardinality(Inside(doc, x)) * Len(refs))
  PROVE  /\ Cardinality(Inside(doc, x)) * Len(refs) \in Nat
         /\ Loaded(cmds) /\ \A c \in Range(cmds) : CommandForm(c)
         /\ \A y : Needs(cmds, 1, y) => y \in News(Cardinality(Inside(doc, x)) * Len(refs))
         /\ \A i \in 1 .. Len(refs) :
               /\ CommandForm(cmds[i]) /\ cmds[i].type = "component-instance.detach"
               /\ cmds[i].place = refs[i][1] /\ cmds[i].id = refs[i][2].id
               /\ FreshIds(Inside(doc, x), cmds[i].fresh)
<1> DEFINE P == Inside(doc, x)
           each == Cardinality(P)
           N == Len(refs)
           k == each * N
           Share(i) == {Fresh(j) : j \in each * (i - 1) + 1 .. each * i}
           last == cmds[N + 1]
<1>1. /\ x \in Component /\ IsSeq(refs) /\ IsSeq(cmds) /\ Len(cmds) = N + 1 /\ N \in Nat
      /\ \A i \in 1 .. N : /\ refs[i][1] \in Places(doc) /\ refs[i][2] \in Tree(doc, refs[i][1])
                           /\ refs[i][2].of = x
                           /\ cmds[i] = Detaching(refs[i][1], refs[i][2].id, each * (i - 1))
      /\ last = [type |-> "component.delete", component |-> x]
  BY LenNat DEF DetachesAll
<1>2. DocForm(doc) /\ Planted(doc)
  BY DEF FormInv, IdsInv, IdsFor
<1>3. IsFiniteSet(P) /\ each \in Nat
  BY <1>1, <1>2, InsideFinite, FS_CardinalityType
<1>4. Enough(k)
  OBVIOUS
<1> HIDE DEF P, each
<1>5. /\ k \in Nat
      /\ \A i \in 1 .. N : /\ each * (i - 1) \in Nat /\ each * (i - 1) + each = each * i
                           /\ each * i <= k
                           /\ \A j \in 1 .. N : i < j => each * i <= each * (j - 1)
  <2>1. k \in Nat
    BY <1>1, <1>3
  <2> QED
    BY <1>1, <1>3, <2>1, SharesApart
<1> HIDE DEF k
<1>6. ASSUME NEW i \in 1 .. N
      PROVE  /\ CommandForm(cmds[i]) /\ cmds[i].type = "component-instance.detach"
             /\ cmds[i].place = refs[i][1] /\ cmds[i].id = refs[i][2].id
             /\ FreshIds(P, cmds[i].fresh)
             /\ Payload(cmds[i]) /\ Frees(cmds[i]) = {} /\ Brings(cmds[i]) \subseteq Share(i)
  <2> DEFINE p == refs[i][1]
             id == refs[i][2].id
             skip == each * (i - 1)
             c == cmds[i]
  <2>1. The(doc, p, id) = refs[i][2]
    <3> DEFINE n == refs[i][2]
               m == The(doc, p, id)
    <3>1. n \in Tree(doc, p) /\ n.id = id /\ p \in Places(doc)
      BY <1>1
    <3>2. Holds(doc, p, id)
      BY <3>1 DEF Holds, IdsOf
    <3>3. m \in Tree(doc, p) /\ m.id = id
      BY <3>2, TheIn
    <3> HIDE DEF n, m, p, id
    <3>4. m = n
      BY <1>2, <3>1, <3>3, PlantedUnique
    <3> QED
      BY <3>4 DEF n, m
  <2>2. The(doc, p, id).of = x
    BY <1>1, <2>1
  <2>3. P = Inside(doc, The(doc, p, id).of)
    BY <2>2 DEF P
  <2>4. skip \in Nat /\ skip + Cardinality(P) = each * i /\ each * i <= k
    BY <1>5 DEF each
  <2>5. Enough(skip + Cardinality(P))
    <3>1. Cardinality(Id \ minted) >= k
      BY <1>4 DEF Enough
    <3>2. Cardinality(Id \ minted) \in Nat
      <4>1. IsFiniteSet(Id)
        BY FS_Interval, ComponentAssumption DEF Id
      <4>2. IsFiniteSet(Id \ minted)
        BY <4>1, FS_Subset
      <4> QED
        BY <4>2, FS_CardinalityType
    <3>3. skip + Cardinality(P) <= k /\ skip + Cardinality(P) \in Nat
      BY <1>3, <2>4 DEF each
    <3> DEFINE left == Cardinality(Id \ minted)
               r == skip + Cardinality(P)
    <3>4. left \in Nat /\ left >= k /\ r <= k /\ r \in Nat /\ k \in Nat
      BY <1>5, <3>1, <3>2, <3>3
    <3> HIDE DEF left, r
    <3>5. left >= r
      BY <3>4
    <3> QED
      BY <3>5 DEF left, r, Enough
  <2>6. c = Detaching(p, id, skip)
    BY <1>1
  <2> HIDE DEF p, id, skip, c
  <2>7. /\ CommandForm(c) /\ Payload(c) /\ Frees(c) = {}
        /\ c.type = "component-instance.detach" /\ c.place = p /\ c.id = id
        /\ FreshIds(P, c.fresh)
        /\ \A y \in Brings(c) : \E j \in skip + 1 .. skip + Cardinality(P) : y = Fresh(j)
    BY <1>3, <2>3, <2>4, <2>5, <2>6, DetachingIs
  <2>8. Brings(c) \subseteq Share(i)
    BY <2>4, <2>7 DEF skip
  <2> QED
    BY <2>7, <2>8 DEF p, id, c
<1>7. CommandForm(last) /\ Payload(last) /\ Frees(last) = {} /\ Brings(last) = {}
  BY <1>1 DEF CommandForm, KeptForm, Payload, Frees, Brings
<1>8. \A i \in 1 .. N : Share(i) \subseteq News(k)
  <2> TAKE i \in 1 .. N
  <2>1. \A j \in each * (i - 1) + 1 .. each * i : j \in 1 .. k
    <3>1. each * (i - 1) \in Nat /\ each * i <= k /\ each * i \in Nat
      BY <1>3, <1>5
    <3> DEFINE lo == each * (i - 1)
               hi == each * i
    <3> HIDE DEF lo, hi
    <3>2. \A j \in lo + 1 .. hi : j \in 1 .. k
      BY <1>5, <3>1 DEF lo, hi
    <3> QED
      BY <3>2 DEF lo, hi
  <2> QED
    BY <2>1 DEF News
<1>9. ASSUME NEW i \in 1 .. N, NEW j \in 1 .. N, i < j
      PROVE  Share(i) \cap Share(j) = {}
  <2>1. ASSUME NEW a \in each * (i - 1) + 1 .. each * i, NEW b \in each * (j - 1) + 1 .. each * j,
               Fresh(a) = Fresh(b)
        PROVE  FALSE
    <3> DEFINE left == Cardinality(Id \ minted)
               lo == each * (i - 1)
               mid == each * i
               lo2 == each * (j - 1)
               hi == each * j
    <3>1. /\ lo \in Nat /\ lo2 \in Nat /\ lo + each = mid /\ lo2 + each = hi
          /\ mid <= lo2 /\ hi <= k /\ mid <= k
      BY <1>5, <1>9
    <3>2. a \in lo + 1 .. mid /\ b \in lo2 + 1 .. hi
      BY <2>1
    <3> HIDE DEF lo, mid, lo2, hi
    <3>3. a \in 1 .. k /\ b \in 1 .. k /\ a < b
      BY <1>3, <1>5, <3>1, <3>2
    <3>4. a \in 1 .. left /\ b \in 1 .. left
      BY <1>4, <1>5, <3>3, EnoughNews
    <3>5. a = b
      BY <2>1, <3>4, FreshApart
    <3> QED
      BY <3>3, <3>5
  <2> QED
    BY <2>1
<1> HIDE DEF Share, last, N
<1>10. \A i \in 1 .. Len(cmds) : i \in 1 .. N \/ cmds[i] = last
  <2>1. \A i \in 1 .. N + 1 : i \in 1 .. N \/ i = N + 1
    BY <1>1
  <2> QED
    BY <1>1, <2>1 DEF last, N
<1>11. \A i \in 1 .. Len(cmds) :
          /\ CommandForm(cmds[i]) /\ Payload(cmds[i]) /\ Frees(cmds[i]) = {}
          /\ Brings(cmds[i]) \subseteq News(k)
  BY <1>6, <1>7, <1>8, <1>10
<1>12. Tidy(cmds)
  <2>1. ASSUME NEW m \in 1 .. Len(cmds), NEW i \in 1 .. m - 1
        PROVE  Brings(cmds[i]) \cap Brings(cmds[m]) = {}
    <3>1. i \in 1 .. Len(cmds) /\ i < m
      BY <1>1
    <3>2. CASE cmds[i] = last \/ cmds[m] = last
      BY <1>7, <3>2
    <3>3. CASE i \in 1 .. N /\ m \in 1 .. N
      <4>1. Brings(cmds[i]) \subseteq Share(i) /\ Brings(cmds[m]) \subseteq Share(m)
        BY <1>6, <3>3
      <4>2. Share(i) \cap Share(m) = {}
        BY <1>9, <3>1, <3>3
      <4> QED
        BY <4>1, <4>2
    <3> QED
      BY <1>10, <3>1, <3>2, <3>3
  <2>2. \A m \in 1 .. Len(cmds) : \A i \in 1 .. m - 1 : i \in 1 .. Len(cmds)
    BY <1>1
  <2> QED
    BY <1>11, <2>1, <2>2 DEF Tidy
<1>13. Loaded(cmds)
  BY <1>1, <1>11, <1>12 DEF Loaded
<1>14. \A c \in Range(cmds) : CommandForm(c)
  <2>1. \A c \in Range(cmds) : \E i \in 1 .. Len(cmds) : c = cmds[i]
    BY <1>1 DEF IsSeq, Range
  <2> QED
    BY <1>11, <2>1
<1>15. \A y : Needs(cmds, 1, y) => y \in News(k)
  BY <1>11 DEF Needs
<1>16. \A i \in 1 .. N :
          /\ CommandForm(cmds[i]) /\ cmds[i].type = "component-instance.detach"
          /\ cmds[i].place = refs[i][1] /\ cmds[i].id = refs[i][2].id
          /\ FreshIds(P, cmds[i].fresh)
  BY <1>6
<1> QED
  BY <1>5, <1>13, <1>14, <1>15, <1>16 DEF k, each, P, N

(* Before the k-th command: the instances it and the next ones detach are    *)
(* where they were, unless their place is gone, and expand to what they did. *)
Undisturbed(d, x, refs, k) ==
    /\ Inside(d, x) = Inside(doc, x)
    /\ \A i \in k .. Len(refs) : refs[i][1] \in Places(d) => refs[i][2] \in Tree(d, refs[i][1])

LEMMA DetachAllCarries ==
  ASSUME FormInv, IdsInv, NEW x, NEW refs, NEW cmds, DetachesAll(x, refs, cmds),
         Enough(Cardinality(Inside(doc, x)) * Len(refs)), Folded(doc, cmds).ok
  PROVE  Carries(doc, cmds, Folded(doc, cmds).doc, Folded(doc, cmds).inverse)
<1> DEFINE P == Inside(doc, x)
           N == Len(refs)
           k1 == Cardinality(P) * N
           last == cmds[N + 1]
<1>1. /\ x \in Component /\ IsSeq(cmds) /\ Len(cmds) = N + 1 /\ N \in Nat
      /\ \A i \in 1 .. N : /\ refs[i][1] \in Places(doc) /\ refs[i][2] \in Tree(doc, refs[i][1])
                           /\ refs[i][2].of = x
      /\ \A i, j \in 1 .. N : refs[i][1] = refs[j][1] /\ refs[i][2] = refs[j][2] => i = j
      /\ last = [type |-> "component.delete", component |-> x]
  BY LenNat DEF DetachesAll
<1>2. /\ DocForm(doc) /\ Planted(doc) /\ minted \subseteq Id /\ DocumentIds(doc) \subseteq minted
  BY DEF FormInv, IdsInv, IdsFor
<1>3. /\ k1 \in Nat /\ Loaded(cmds) /\ \A c \in Range(cmds) : CommandForm(c)
      /\ \A y : Needs(cmds, 1, y) => y \in News(k1)
      /\ \A i \in 1 .. N :
            /\ CommandForm(cmds[i]) /\ cmds[i].type = "component-instance.detach"
            /\ cmds[i].place = refs[i][1] /\ cmds[i].id = refs[i][2].id
            /\ FreshIds(P, cmds[i].fresh)
  BY DetachAllLoaded
<1>4. \A y : Needs(cmds, 1, y) => y \notin DocumentIds(doc)
  <2>1. News(k1) \subseteq Id \ minted
    BY <1>3, EnoughNews
  <2> QED
    BY <1>2, <1>3, <2>1
<1>5. PICK acc : Batches(doc, cmds, acc)
  BY <1>1, FoldedUnfolds DEF IsSeq
<1>6. /\ acc[0].doc = doc
      /\ \A k \in 1 .. Len(cmds) : acc[k] = Fold(acc[k - 1], cmds[k])
  BY <1>5 DEF Batches
<1> HIDE DEF P, N, k1, last
<1> DEFINE G == {k \in 0 .. N + 1 : k <= N => Undisturbed(acc[k].doc, x, refs, k + 1)}
<1>7. 0 \in G
  <2>1. \A i \in 0 + 1 .. N : i \in 1 .. N
    OBVIOUS
  <2>2. Undisturbed(doc, x, refs, 0 + 1)
    BY <1>1, <2>1 DEF Undisturbed, N
  <2>3. 0 \in 0 .. N + 1
    BY <1>1
  <2> QED
    BY <1>6, <2>2, <2>3
<1>8. ASSUME NEW k \in 1 .. Len(cmds),
             k - 1 \in G /\ acc[k - 1].ok /\ DocForm(acc[k - 1].doc) /\ Planted(acc[k - 1].doc)
             /\ Accepts(acc[k - 1].doc, cmds[k]) /\ Payload(cmds[k])
             /\ Brings(cmds[k]) \cap DocumentIds(acc[k - 1].doc) = {}
      PROVE  /\ k \in G
             /\ Answers(acc[k - 1].doc, cmds[k], After(acc[k - 1].doc, cmds[k]),
                        InverseOf(acc[k - 1].doc, cmds[k]))
  <2> DEFINE D == acc[k - 1].doc
             c == cmds[k]
             e == After(D, c)
  <2>1. /\ DocForm(D) /\ Planted(D) /\ Accepts(D, c) /\ Brings(c) \cap DocumentIds(D) = {}
        /\ k \in 1 .. N + 1 /\ k \in 0 .. N + 1
    BY <1>1, <1>8
  <2>2. acc[k].doc = e
    <3>1. acc[k] = Fold(acc[k - 1], c)
      BY <1>6
    <3>2. acc[k - 1].ok /\ Accepts(acc[k - 1].doc, c)
      BY <1>8
    <3> QED
      BY <3>1, <3>2 DEF Fold
  <2>3. CASE k = N + 1
    <3>1. c = last
      BY <2>3 DEF last
    <3>2. CommandForm(c) /\ c.type = "component.delete"
      BY <1>1, <3>1 DEF CommandForm, KeptForm
    <3> HIDE DEF D, c
    <3>3. Answers(D, c, After(D, c), InverseOf(D, c))
      BY <2>1, <3>2, RemoveAnswers
    <3>4. ~(k <= N)
      BY <1>1, <2>3
    <3> QED
      BY <2>1, <3>3, <3>4 DEF D, c
  <2>4. CASE k \in 1 .. N
    <3> DEFINE q == refs[k][1]
               m == refs[k][2]
               n == The(D, c.place, c.id)
    <3>1. /\ CommandForm(c) /\ c.type = "component-instance.detach" /\ c.place = q /\ c.id = m.id
          /\ FreshIds(P, c.fresh)
      BY <1>3, <2>4
    <3>2. Undisturbed(D, x, refs, k)
      <4>1. k - 1 <= N /\ k - 1 + 1 = k
        BY <1>1, <2>4
      <4> QED
        BY <1>8, <4>1
    <3>3. k \in k .. N
      BY <1>1, <2>4
    <3>4. Inside(D, x) = P /\ (q \in Places(D) => m \in Tree(D, q))
      BY <3>2, <3>3 DEF Undisturbed, P, N
    <3> HIDE DEF D, c, e
    <3>5. /\ n \in Tree(D, c.place) /\ c.place \in Places(D)
          /\ Inside(After(D, c), n.of) = Inside(D, n.of)
          /\ Places(After(D, c)) \subseteq Places(D)
          /\ \A r \in Places(After(D, c)) : \A o \in Tree(D, r) :
                r # c.place \/ o # n => o \in Tree(After(D, c), r)
      BY <2>1, <3>1, DetachedElsewhere
    <3>6. n.id = c.id
      <4>1. Holds(D, c.place, c.id)
        BY <2>1, <3>1 DEF Accepts, DetachAccepts, IsInstance
      <4> QED
        BY <4>1, TheIn
    <3>7. n = m /\ n.of = x
      <4>1. q \in Places(D) /\ m \in Tree(D, q) /\ n \in Tree(D, q) /\ n.id = m.id
        BY <3>1, <3>4, <3>5, <3>6
      <4>2. m.of = x
        BY <1>1, <2>4
      <4> HIDE DEF n, m, q
      <4>3. n = m
        BY <2>1, <4>1, PlantedUnique
      <4> QED
        BY <4>2, <4>3
    <3>8. Answers(D, c, After(D, c), InverseOf(D, c))
      <4>1. FreshIds(Inside(D, The(D, c.place, c.id).of), c.fresh)
        BY <3>1, <3>4, <3>7
      <4> QED
        BY <2>1, <3>1, <4>1, DetachAnswers
    <3>9. Undisturbed(e, x, refs, k + 1)
      <4>1. Inside(e, x) = Inside(doc, x)
        BY <3>4, <3>5, <3>7 DEF e, P
      <4>2. ASSUME NEW i \in k + 1 .. N, refs[i][1] \in Places(e)
            PROVE  refs[i][2] \in Tree(e, refs[i][1])
        <5>1. i \in k .. N /\ i \in 1 .. N /\ i # k
          BY <1>1, <2>4
        <5>2. refs[i][2] \in Tree(D, refs[i][1])
          BY <3>2, <3>5, <4>2, <5>1 DEF Undisturbed, N, e
        <5>3. refs[i][1] # q \/ refs[i][2] # m
          BY <1>1, <2>4, <5>1
        <5> HIDE DEF n, q, m
        <5> QED
          BY <3>1, <3>5, <3>7, <4>2, <5>2, <5>3 DEF e
      <4> QED
        BY <4>1, <4>2 DEF Undisturbed, N
    <3> QED
      BY <2>1, <2>2, <3>8, <3>9 DEF D, c
  <2> QED
    BY <1>1, <2>1, <2>3, <2>4
<1> HIDE DEF G
<1> QED
  BY <1>2, <1>3, <1>4, <1>5, <1>7, <1>8, BatchIds

LEMMA DetachAllIds == ASSUME FormInv, IdsInv, NEW h \in Host, DetachAllAndDelete(h) PROVE IdsInv'
<1>1. PICK x, refs, cmds :
        /\ DetachesAll(x, refs, cmds) /\ Record(h, Applied(doc, cmds))
        /\ Enough(Cardinality(Inside(doc, x)) * Len(refs))
        /\ Minting(Cardinality(Inside(doc, x)) * Len(refs))
  BY DetachingAll
<1> DEFINE k == Cardinality(Inside(doc, x)) * Len(refs)
<1>2. /\ k \in Nat /\ Loaded(cmds) /\ \A c \in Range(cmds) : CommandForm(c)
      /\ \A y : Needs(cmds, 1, y) => y \in News(k)
  BY <1>1, DetachAllLoaded
<1>3. Folded(doc, cmds).ok => Carries(doc, cmds, Folded(doc, cmds).doc, Folded(doc, cmds).inverse)
  BY <1>1, DetachAllCarries
<1>4. Enough(k) /\ Minting(k)
  BY <1>1
<1> HIDE DEF k
<1>5. News(k) \subseteq Id \ minted /\ minted' = minted \cup News(k)
  BY <1>2, <1>4, EnoughNews DEF Minting, News
<1>6. NeededBy(cmds) \subseteq News(k)
  BY <1>2, NeededIs
<1>7. /\ minted \subseteq minted' /\ minted' \subseteq Id /\ NeededBy(cmds) \cap minted = {}
      /\ NeededBy(cmds) \subseteq minted'
  BY <1>5, <1>6 DEF IdsInv, IdsFor
<1>8. IsSeq(cmds)
  BY <1>2 DEF Loaded
<1> QED
  BY <1>1, <1>2, <1>3, <1>7, <1>8, RecordIds

-----------------------------------------------------------------------------
(* The theorem.                                                              *)

LEMMA InitIds == Init => IdsInv
<1> SUFFICES ASSUME Init
             PROVE  IdsInv
  OBVIOUS
<1>1. /\ doc \in InitialDocuments /\ minted = DocumentIds(doc)
      /\ undo = [h \in Host |-> <<>>] /\ redo = [h \in Host |-> <<>>]
  BY DEF Init
<1>2. Planted(doc)
  BY <1>1, DocumentAssumption
<1>3. DocumentIds(doc) \subseteq minted /\ minted \subseteq Id
  BY <1>1, <1>2, PlantedIds
<1>4. Range(<<>>) = {} /\ Len(<<>>) = 0
  BY DEF Range
<1>5. \A h \in Host : undo[h] = <<>> /\ redo[h] = <<>>
  BY <1>1
<1>6. \A h \in Host : \A cmds \in Range(undo[h]) \cup Range(redo[h]) : Loaded(cmds)
  BY <1>4, <1>5
<1>7. \A e \in Slots : Held(undo, redo, e) = {}
  <2> TAKE e \in Slots
  <2>1. e[1] \in Host /\ e[2] \in {"undo", "redo"} /\ e[3] \in Nat \ {0}
    BY SlotParts
  <2>2. Side(undo, redo, e[2])[e[1]] = <<>>
    BY <1>5, <2>1 DEF Side
  <2>3. ~(e[3] <= 0)
    BY <2>1
  <2> QED
    BY <1>4, <2>2, <2>3 DEF Held
<1> QED
  BY <1>2, <1>3, <1>6, <1>7 DEF IdsInv, IdsFor

LEMMA NextIds == FormInv /\ IdsInv /\ [Next]_vars => IdsInv'
<1> SUFFICES ASSUME FormInv, IdsInv, [Next]_vars
             PROVE  IdsInv'
  OBVIOUS
<1>1. CASE UNCHANGED vars
  BY <1>1 DEF vars, IdsInv
<1>2. CASE Next
  <2>1. PICK h \in Host :
          \/ NodeCreate(h) \/ NodeDelete(h) \/ NodeLock(h)
          \/ ComponentCreate(h) \/ ComponentExtract(h) \/ ComponentDuplicate(h) \/ ComponentDelete(h)
          \/ ComponentRename(h) \/ AddProperty(h) \/ UpdateProperty(h) \/ RemoveProperty(h)
          \/ InstanceInsert(h) \/ SetOverride(h) \/ ResetOverride(h) \/ ResetAllOverrides(h)
          \/ InstanceDetach(h) \/ DetachAllAndDelete(h) \/ RenameAndExpose(h)
          \/ Undo(h) \/ Redo(h)
    BY <1>2 DEF Next
  <2> QED
    BY <2>1, NodeCreateIds, NodeDeleteIds, NodeLockIds, ComponentCreateIds, ComponentExtractIds,
       ComponentDuplicateIds, ComponentDeleteIds, ComponentRenameIds, AddPropertyIds,
       UpdatePropertyIds, RemovePropertyIds, InstanceInsertIds, SetOverrideIds, ResetOverrideIds,
       ResetAllOverridesIds, InstanceDetachIds, DetachAllIds, RenameAndExposeIds, UndoIds, RedoIds
<1> QED
  BY <1>1, <1>2

(* UniqueIds (INV-2), for any number of hosts, pages, Sources and steps: a   *)
(* node id occurs once in the whole document, on pages and in Sources,       *)
(* whatever is created, extracted, duplicated, detached, deleted and brought *)
(* back by the undo of any host, also of what other hosts edited since.      *)
THEOREM IdsStayUnique == Spec => []UniqueIds
<1>1. Init => FormInv /\ IdsInv
  BY InitKeeps, InitIds
<1>2. FormInv /\ IdsInv /\ [Next]_vars => (FormInv /\ IdsInv)'
  BY NextKeeps, NextIds DEF Kept
<1>3. FormInv /\ IdsInv => UniqueIds
  BY PlantedUnique DEF IdsInv, IdsFor, UniqueIds
<1> QED
  BY <1>1, <1>2, <1>3, PTL DEF Spec

=================================================================================
