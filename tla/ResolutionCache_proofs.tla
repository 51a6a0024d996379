------------------------- MODULE ResolutionCache_proofs -------------------------
(***************************************************************************)
(* Proofs about ResolutionCache: its types, and that a host which uses the *)
(* cache carefully, on a document that fits its budget, is always shown    *)
(* what an empty cache would have led to, within the budget of the         *)
(* document.                                                               *)
(*                                                                         *)
(* The operators of the model are recursive functions on intervals.  By    *)
(* induction along the interval (IntervalInduction) each is shown to       *)
(* satisfy its own equation (PassUnfolds, FlattenUnfolds, WalkUnfolds).    *)
(***************************************************************************)
EXTENDS ResolutionCache, IntervalInduction, FiniteSetTheorems, SequenceTheorems, TLAPS

(* after[k]: what a document pass has done after the first k instances.      *)
Passes(d, budget, pages, before, cached, after) ==
    /\ after[0] = [expanded |-> 0, shown |-> before, cache |-> cached]
    /\ \A k \in 1 .. Len(Paint) :
          after[k] = IF PageOf[Paint[k]] \in pages
                     THEN Resolve(d, budget, after[k - 1], Paint[k]) ELSE after[k - 1]
    /\ Pass(d, budget, pages, before, cached) = after[Len(Paint)]

(* A pass is the last of its steps.                                          *)
LEMMA PassUnfolds ==
  ASSUME NEW d, NEW budget, NEW pages, NEW before, NEW cached
  PROVE  \E after : Passes(d, budget, pages, before, cached, after)
<1> DEFINE N == Len(Paint)
           start == [expanded |-> 0, shown |-> before, cache |-> cached]
           Step(x, k) == IF PageOf[Paint[k]] \in pages THEN Resolve(d, budget, x, Paint[k]) ELSE x
           Run(f, n) == f = [k \in 0 .. n |-> IF k = 0 THEN start ELSE Step(f[k - 1], k)]
           S == {n \in 0 .. N : \E f : Run(f, n)}
           after == CHOOSE f : Run(f, N)
<1>1. N \in Nat
  BY CacheAssumption
<1>2. Pass(d, budget, pages, before, cached) = after[N]
  BY DEF Pass
<1> HIDE DEF start, Step
<1>3. 0 \in S
  <2> DEFINE g == [k \in 0 .. 0 |-> start]
  <2>1. Run(g, 0)
    BY \A k \in 0 .. 0 : k = 0
  <2> HIDE DEF Run, g
  <2> QED
    BY <1>1, <2>1
<1>4. ASSUME NEW k \in 1 .. N, k - 1 \in S
      PROVE  k \in S
  <2>1. PICK f : Run(f, k - 1)
    BY <1>4
  <2> DEFINE g == [j \in 0 .. k |-> IF j < k THEN f[j] ELSE Step(f[k - 1], k)]
  <2>2. \A j \in 0 .. k : g[j] = IF j = 0 THEN start ELSE Step(g[j - 1], j)
    <3> TAKE j \in 0 .. k
    <3>1. CASE j = k
      BY <1>1, <3>1
    <3>2. CASE j # k
      BY <1>1, <2>1, <3>2
    <3> QED
      BY <3>1, <3>2
  <2>3. Run(g, k)
    BY <2>2
  <2> HIDE DEF Run, g
  <2> QED
    BY <1>1, <2>3
<1> HIDE DEF Run
<1>5. N \in S
  <2> HIDE DEF S
  <2>1. 0 .. N \subseteq S
    BY <1>1, <1>3, <1>4, Induction, Zenon
  <2> QED
    BY <1>1, <2>1
<1>6. Run(after, N)
  BY <1>5
<1> HIDE DEF after
<1>7. /\ after[0] = start
      /\ \A k \in 1 .. N : after[k] = Step(after[k - 1], k)
  BY <1>1, <1>6 DEF Run
<1> QED
  BY <1>2, <1>7 DEF start, Step, Passes

-----------------------------------------------------------------------------
(* FlattenSeq is the last of the concatenations from the left.               *)
LEMMA FlattenUnfolds ==
  ASSUME NEW T, NEW seqs \in Seq(Seq(T)), seqs # <<>>
  PROVE  \E flat : /\ flat[1] = seqs[1]
                   /\ \A k \in 2 .. Len(seqs) : flat[k] = flat[k - 1] \o seqs[k]
                   /\ FlattenSeq(seqs) = flat[Len(seqs)]
<1> DEFINE N == Len(seqs)
           First(k) == seqs[k]
           Step(x, k) == x \o seqs[k]
           Run(f, n) == f = [k \in 1 .. n |-> IF k = 1 THEN First(k) ELSE Step(f[k - 1], k)]
           S == {n \in 0 .. N : \E f : Run(f, n)}
           flat == CHOOSE f : Run(f, N)
<1>1. N \in Nat /\ N # 0
  OBVIOUS
<1>2. FlattenSeq(seqs) = flat[N]
  BY <1>1 DEF FlattenSeq
<1> HIDE DEF N, First, Step
<1>3. 0 \in S
  <2> DEFINE g == [k \in 1 .. 0 |-> First(k)]
  <2>1. Run(g, 0)
    BY \A k \in 1 .. 0 : FALSE
  <2> HIDE DEF Run, g
  <2> QED
    BY <1>1, <2>1
<1>4. ASSUME NEW k \in 1 .. N, k - 1 \in S
      PROVE  k \in S
  <2>1. PICK f : Run(f, k - 1)
    BY <1>4
  <2> DEFINE g == [j \in 1 .. k |-> IF j < k THEN f[j]
                                    ELSE IF k = 1 THEN First(k) ELSE Step(f[k - 1], k)]
  <2>2. \A j \in 1 .. k : g[j] = IF j = 1 THEN First(j) ELSE Step(g[j - 1], j)
    <3> TAKE j \in 1 .. k
    <3>1. CASE j = k
      BY <1>1, <3>1
    <3>2. CASE j # k
      BY <1>1, <2>1, <3>2
    <3> QED
      BY <3>1, <3>2
  <2>3. Run(g, k)
    BY <2>2
  <2> HIDE DEF Run, g
  <2> QED
    BY <1>1, <2>3
<1> HIDE DEF Run
<1>5. N \in S
  <2> HIDE DEF S
  <2>1. 0 .. N \subseteq S
    BY <1>1, <1>3, <1>4, Induction, Zenon
  <2> QED
    BY <1>1, <2>1
<1>6. Run(flat, N)
  BY <1>5
<1> HIDE DEF flat
<1>7. /\ flat[1] = First(1)
      /\ \A k \in 2 .. N : flat[k] = Step(flat[k - 1], k)
  BY <1>1, <1>6 DEF Run
<1> QED
  BY <1>2, <1>7 DEF N, First, Step

(* Flattening sequences over a set gives a sequence over it.                 *)
LEMMA FlattenIsSeq ==
  ASSUME NEW T, NEW seqs \in Seq(Seq(T))
  PROVE  FlattenSeq(seqs) \in Seq(T)
<1>1. CASE seqs = <<>>
  BY <1>1 DEF FlattenSeq
<1>2. CASE seqs # <<>>
  <2>1. PICK flat : /\ flat[1] = seqs[1]
                    /\ \A k \in 2 .. Len(seqs) : flat[k] = flat[k - 1] \o seqs[k]
                    /\ FlattenSeq(seqs) = flat[Len(seqs)]
    BY <1>2, FlattenUnfolds
  <2> DEFINE S == {k \in 0 .. Len(seqs) : k > 0 => flat[k] \in Seq(T)}
  <2>2. Len(seqs) \in Nat /\ Len(seqs) # 0
    BY <1>2
  <2>3. 0 \in S
    BY <2>2
  <2>4. ASSUME NEW k \in 1 .. Len(seqs), k - 1 \in S
        PROVE  k \in S
    <3>1. CASE k = 1
      BY <2>1, <2>2, <3>1
    <3>2. CASE k # 1
      <4>1. flat[k - 1] \in Seq(T) /\ seqs[k] \in Seq(T)
        BY <2>2, <2>4, <3>2
      <4>2. k \in 2 .. Len(seqs)
        BY <2>2, <3>2
      <4>3. flat[k] = flat[k - 1] \o seqs[k]
        BY <2>1, <4>2
      <4>4. flat[k] \in Seq(T)
        BY <4>1, <4>3
      <4> QED
        BY <2>2, <4>4
    <3> QED
      BY <3>1, <3>2
  <2>5. Len(seqs) \in S
    <3> HIDE DEF S
    <3>1. 0 .. Len(seqs) \subseteq S
      BY <2>2, <2>3, <2>4, Induction, Zenon
    <3> QED
      BY <2>2, <3>1
  <2> QED
    BY <2>1, <2>2, <2>5 DEF S
<1> QED
  BY <1>1, <1>2

-----------------------------------------------------------------------------
(* upTo[k]: the nodes of each Source, expanded k levels deep.                *)
Levels(d, upTo) ==
    /\ upTo[0] = [s \in Component |-> <<>>]
    /\ \A k \in 1 .. MaxDepth : upTo[k] = Level(d, upTo[k - 1])
    /\ \A s \in Component : Walk(d, s) = upTo[MaxDepth][s]

(* A walk is the last of its levels.                                         *)
LEMMA WalkUnfolds ==
  ASSUME NEW d
  PROVE  \E upTo : Levels(d, upTo)
<1> DEFINE N == MaxDepth
           start == [s \in Component |-> <<>>]
           Run(f, n) == f = [k \in 0 .. n |-> IF k = 0 THEN start ELSE Level(d, f[k - 1])]
           S == {n \in 0 .. N : \E f : Run(f, n)}
           upTo == CHOOSE f : Run(f, N)
<1>1. N \in Nat
  BY CacheAssumption
<1>2. \A s \in Component : Walk(d, s) = upTo[N][s]
  BY DEF Walk, Found
<1> HIDE DEF start
<1>3. 0 \in S
  <2> DEFINE g == [k \in 0 .. 0 |-> start]
  <2>1. Run(g, 0)
    BY \A k \in 0 .. 0 : k = 0
  <2> HIDE DEF Run, g
  <2> QED
    BY <1>1, <2>1
<1>4. ASSUME NEW k \in 1 .. N, k - 1 \in S
      PROVE  k \in S
  <2>1. PICK f : Run(f, k - 1)
    BY <1>4
  <2> DEFINE g == [j \in 0 .. k |-> IF j < k THEN f[j] ELSE Level(d, f[k - 1])]
  <2>2. \A j \in 0 .. k : g[j] = IF j = 0 THEN start ELSE Level(d, g[j - 1])
    <3> TAKE j \in 0 .. k
    <3>1. CASE j = k
      BY <1>1, <3>1
    <3>2. CASE j # k
      BY <1>1, <2>1, <3>2
    <3> QED
      BY <3>1, <3>2
  <2>3. Run(g, k)
    BY <2>2
  <2> HIDE DEF Run, g
  <2> QED
    BY <1>1, <2>3
<1> HIDE DEF Run
<1>5. N \in S
  <2> HIDE DEF S
  <2>1. 0 .. N \subseteq S
    BY <1>1, <1>3, <1>4, Induction, Zenon
  <2> QED
    BY <1>1, <2>1
<1>6. Run(upTo, N)
  BY <1>5
<1> HIDE DEF upTo
<1>7. /\ upTo[0] = start
      /\ \A k \in 1 .. N : upTo[k] = Level(d, upTo[k - 1])
  BY <1>1, <1>6 DEF Run
<1> QED
  BY <1>2, <1>7 DEF start, Levels

-----------------------------------------------------------------------------
(* What an expanded node can be, and the entries of a walk.                  *)
Piece == Binding \cup UNION {Range(b) : b \in UNION {BodiesOf[s] : s \in Source}}

Entry == [at : Seq(Nat), is : Piece]

(* The body of a Source is a sequence of pieces.                             *)
LEMMA BodyIsSeq ==
  ASSUME NEW d \in Document, NEW s \in Source
  PROVE  Body(d, s) \in Seq(Piece)
<1>1. Body(d, s) \in BodiesOf[s]
  BY CacheAssumption DEF Body, Source, Document
<1>2. Body(d, s) \in Seq(Range(Body(d, s)))
  BY <1>1, CacheAssumption
<1>3. Range(Body(d, s)) \subseteq Piece
  BY <1>1 DEF Piece
<1> QED
  BY <1>2, <1>3

(* The nodes a child of a body expands to.                                   *)
LEMMA ChildIsSeq ==
  ASSUME NEW d \in Document, NEW s \in Source, NEW below \in [Component -> Seq(Entry)],
         NEW n \in DOMAIN Body(d, s)
  PROVE  Child(d, s, below, n) \in Seq(Entry)
<1> DEFINE is == Body(d, s)[n]
<1>1. n \in Nat /\ is \in Piece
  BY BodyIsSeq
<1>2. <<n>> \in Seq(Nat)
  BY <1>1
<1>3. [at |-> <<n>>, is |-> is] \in Entry
  BY <1>1, <1>2 DEF Entry
<1>4. ASSUME NEW nodes \in Seq(Entry)
      PROVE  Within(n, nodes) \in Seq(Entry)
  <2>1. ASSUME NEW j \in DOMAIN nodes
        PROVE  [at |-> <<n>> \o nodes[j].at, is |-> nodes[j].is] \in Entry
    <3>1. nodes[j] \in Entry
      OBVIOUS
    <3>2. nodes[j].at \in Seq(Nat) /\ nodes[j].is \in Piece
      BY <3>1 DEF Entry
    <3>3. <<n>> \o nodes[j].at \in Seq(Nat)
      BY <1>2, <3>2
    <3> QED
      BY <3>2, <3>3 DEF Entry
  <2>2. DOMAIN nodes = 1 .. Len(nodes) /\ Len(nodes) \in Nat
    OBVIOUS
  <2> QED
    BY <2>1, <2>2 DEF Within
<1>5. CASE is \in Component
  <2>1. Within(n, below[is]) \in Seq(Entry)
    BY <1>4, <1>5
  <2> QED
    BY <1>3, <1>5, <2>1 DEF Child, Found
<1>6. CASE is \notin Component
  BY <1>3, <1>6 DEF Child, Found
<1> QED
  BY <1>5, <1>6

(* A walk is a sequence of entries, whatever the bodies nest.                *)
LEMMA WalkIsSeq ==
  ASSUME NEW d \in Document, NEW s
  PROVE  Walk(d, s) \in Seq(Entry)
<1>1. PICK upTo : Levels(d, upTo)
  BY WalkUnfolds
<1> DEFINE S == {k \in 0 .. MaxDepth : upTo[k] \in [Component -> Seq(Entry)]}
<1>2. MaxDepth \in Nat
  BY CacheAssumption
<1>3. 0 \in S
  <2>1. upTo[0] = [x \in Component |-> <<>>]
    BY <1>1 DEF Levels
  <2>2. [x \in Component |-> <<>>] \in [Component -> Seq(Entry)]
    OBVIOUS
  <2>3. upTo[0] \in [Component -> Seq(Entry)]
    BY <2>1, <2>2, Zenon
  <2> QED
    BY <1>2, <2>3
<1>4. ASSUME NEW k \in 1 .. MaxDepth, k - 1 \in S
      PROVE  k \in S
  <2>1. upTo[k - 1] \in [Component -> Seq(Entry)]
    BY <1>4
  <2>2. ASSUME NEW x \in Component
        PROVE  <<[at |-> <<>>, is |-> d.registry[x].bound]>>
                 \o FlattenSeq([n \in DOMAIN Body(d, x) |-> Child(d, x, upTo[k - 1], n)]) \in Seq(Entry)
    <3> DEFINE parts == [n \in DOMAIN Body(d, x) |-> Child(d, x, upTo[k - 1], n)]
    <3>1. x \in Source
      BY DEF Source
    <3>2. DOMAIN Body(d, x) = 1 .. Len(Body(d, x)) /\ Len(Body(d, x)) \in Nat
      BY <3>1, BodyIsSeq
    <3>3. \A n \in DOMAIN Body(d, x) : parts[n] \in Seq(Entry)
      BY <2>1, <3>1, ChildIsSeq
    <3>4. parts \in Seq(Seq(Entry))
      BY <3>2, <3>3
    <3>5. FlattenSeq(parts) \in Seq(Entry)
      BY <3>4, FlattenIsSeq, Zenon
    <3>6. d.registry[x].bound \in Piece
      BY DEF Document, Definition, Piece
    <3>7. [at |-> <<>>, is |-> d.registry[x].bound] \in Entry
      BY <3>6 DEF Entry
    <3> HIDE DEF parts
    <3>8. <<[at |-> <<>>, is |-> d.registry[x].bound]>> \o FlattenSeq(parts) \in Seq(Entry)
      BY <3>5, <3>7
    <3> QED
      BY <3>8 DEF parts
  <2>3. upTo[k] = Level(d, upTo[k - 1])
    BY <1>1 DEF Levels
  <2>4. Level(d, upTo[k - 1]) \in [Component -> Seq(Entry)]
    BY <2>2 DEF Level
  <2> QED
    BY <2>3, <2>4
<1>5. MaxDepth \in S
  <2> HIDE DEF S
  <2>1. 0 .. MaxDepth \subseteq S
    BY <1>2, <1>3, <1>4, Induction, Zenon
  <2> QED
    BY <1>2, <2>1
<1>6. CASE s \in Component
  BY <1>1, <1>5, <1>6 DEF Levels
<1>7. CASE s \notin Component
  BY <1>7 DEF Walk, Found
<1> QED
  BY <1>6, <1>7

-----------------------------------------------------------------------------
(* What a Source of the cone nests is in the cone.                           *)
LEMMA ConeIsClosed ==
  ASSUME NEW d, NEW s, NEW x \in {s} \cup LocalCone(d, s)
  PROVE  Nested(d, x) \cap Component \subseteq LocalCone(d, s)
<1> DEFINE Closed == {S \in SUBSET Component :
                        \A y \in S \cup {s} : Nested(d, y) \cap Component \subseteq S}
<1>1. LocalCone(d, s) = {y \in Component : \A S \in Closed : y \in S}
  BY DEF LocalCone
<1>2. ASSUME NEW y \in Nested(d, x) \cap Component, NEW S \in Closed
      PROVE  y \in S
  BY <1>1
<1> HIDE DEF Closed
<1> QED
  BY <1>1, <1>2

(* The cone is in every set that is closed in that way.                      *)
LEMMA ConeIsLeast ==
  ASSUME NEW d, NEW s, NEW S \in SUBSET Component,
         \A x \in S \cup {s} : Nested(d, x) \cap Component \subseteq S
  PROVE  LocalCone(d, s) \subseteq S
  BY DEF LocalCone

(* The Sources an expansion is made from nest no others.                     *)
LEMMA PartsAreClosed ==
  ASSUME NEW d, NEW s, NEW x \in Parts(d, s)
  PROVE  Nested(d, x) \cap Component \subseteq Parts(d, s)
<1>1. x \in {s} \cup LocalCone(d, s)
  BY DEF Parts
<1>2. Nested(d, x) \cap Component \subseteq LocalCone(d, s)
  BY <1>1, ConeIsClosed, Zenon
<1> QED
  BY <1>2 DEF Parts

(* The documents define the Sources of C alike.                              *)
Agree(d, e, C) ==
    \A x \in C : d.registry[x].body = e.registry[x].body /\ d.registry[x].bound = e.registry[x].bound

(* Documents that agree on the parts of an expansion have the same parts     *)
(* ...                                                                       *)
LEMMA SameParts ==
  ASSUME NEW d, NEW e, NEW s \in Source, Agree(d, e, Parts(d, s))
  PROVE  Parts(e, s) = Parts(d, s)
<1>1. ASSUME NEW x \in {s} \cup LocalCone(d, s)
      PROVE  Nested(e, x) = Nested(d, x)
  <2>1. CASE x \in Library
    BY <2>1 DEF Nested, Body
  <2>2. CASE x \notin Library
    <3>1. x \in Component
      BY <2>2 DEF Source, LocalCone
    <3>2. x \in Parts(d, s)
      BY <3>1 DEF Parts
    <3> QED
      BY <2>2, <3>2 DEF Agree, Nested, Body
  <2> QED
    BY <2>1, <2>2
<1>2. LocalCone(d, s) \subseteq Component /\ LocalCone(e, s) \subseteq Component
  BY DEF LocalCone
<1>3. LocalCone(e, s) \subseteq LocalCone(d, s)
  <2>1. \A x \in LocalCone(d, s) \cup {s} : Nested(e, x) \cap Component \subseteq LocalCone(d, s)
    BY <1>1, ConeIsClosed
  <2> QED
    BY <1>2, <2>1, ConeIsLeast
<1>4. LocalCone(d, s) \subseteq LocalCone(e, s)
  <2>1. \A x \in LocalCone(e, s) \cup {s} : Nested(d, x) \cap Component \subseteq LocalCone(e, s)
    BY <1>1, <1>3, ConeIsClosed
  <2> QED
    BY <1>2, <2>1, ConeIsLeast
<1> QED
  BY <1>3, <1>4 DEF Parts

(* ... and pay for the same nodes, in the same order.                        *)
LEMMA SameWalk ==
  ASSUME NEW d, NEW e, NEW s \in Source, Agree(d, e, Parts(d, s))
  PROVE  Walk(e, s) = Walk(d, s)
<1> DEFINE First(f, x) == <<[at |-> <<>>, is |-> f.registry[x].bound]>>
           Rest(f, below, x) == FlattenSeq([n \in DOMAIN Body(f, x) |-> Child(f, x, below, n)])
<1>1. PICK one : Levels(d, one)
  BY WalkUnfolds
<1>2. PICK two : Levels(e, two)
  BY WalkUnfolds
<1> DEFINE S == {k \in 0 .. MaxDepth : \A x \in Parts(d, s) : one[k][x] = two[k][x]}
<1>3. MaxDepth \in Nat
  BY CacheAssumption
<1>4. 0 \in S
  BY <1>1, <1>2, <1>3 DEF Levels, Parts
<1>5. ASSUME NEW k \in 1 .. MaxDepth, k - 1 \in S
      PROVE  k \in S
  <2>1. ASSUME NEW x \in Parts(d, s)
        PROVE  one[k][x] = two[k][x]
    <3>1. x \in Component /\ x \notin Library
      BY CacheAssumption DEF Parts
    <3>2. Body(d, x) = Body(e, x) /\ First(d, x) = First(e, x)
      BY <3>1 DEF Body, Agree
    <3>3. ASSUME NEW n \in DOMAIN Body(d, x)
          PROVE  Child(d, x, one[k - 1], n) = Child(e, x, two[k - 1], n)
      <4>1. CASE Body(d, x)[n] \in Component
        <5>1. Body(d, x)[n] \in Nested(d, x)
          BY <4>1 DEF Nested, Source, Range
        <5>2. Body(d, x)[n] \in Parts(d, s)
          BY <4>1, <5>1, PartsAreClosed
        <5>3. one[k - 1][Body(d, x)[n]] = two[k - 1][Body(d, x)[n]]
          BY <1>5, <5>2
        <5> QED
          BY <3>2, <4>1, <5>3 DEF Child
      <4>2. CASE Body(d, x)[n] \notin Component
        BY <3>2, <4>2 DEF Child, Found
      <4> QED
        BY <4>1, <4>2
    <3>4. [n \in DOMAIN Body(d, x) |-> Child(d, x, one[k - 1], n)]
            = [n \in DOMAIN Body(e, x) |-> Child(e, x, two[k - 1], n)]
      BY <3>2, <3>3
    <3>5. Rest(d, one[k - 1], x) = Rest(e, two[k - 1], x)
      BY <3>4, Zenon
    <3> HIDE DEF First, Rest
    <3>6. one[k][x] = First(d, x) \o Rest(d, one[k - 1], x)
      <4>1. one[k] = Level(d, one[k - 1])
        BY <1>1 DEF Levels
      <4> HIDE DEF Source
      <4>2. \A v : Level(d, v)[x] = First(d, x) \o Rest(d, v, x)
        BY <3>1, Zenon DEF Level, First, Rest
      <4> QED
        BY <4>1, <4>2
    <3>7. two[k][x] = First(e, x) \o Rest(e, two[k - 1], x)
      <4>1. two[k] = Level(e, two[k - 1])
        BY <1>2 DEF Levels
      <4> HIDE DEF Source
      <4>2. \A v : Level(e, v)[x] = First(e, x) \o Rest(e, v, x)
        BY <3>1, Zenon DEF Level, First, Rest
      <4> QED
        BY <4>1, <4>2
    <3> QED
      BY <3>2, <3>5, <3>6, <3>7
  <2> QED
    BY <2>1
<1>6. MaxDepth \in S
  <2> HIDE DEF S
  <2>1. 0 .. MaxDepth \subseteq S
    BY <1>3, <1>4, <1>5, Induction, Zenon
  <2> QED
    BY <1>3, <2>1
<1>7. CASE s \in Component
  <2>1. s \in Parts(d, s)
    BY <1>7 DEF Parts
  <2> QED
    BY <1>1, <1>2, <1>6, <1>7, <2>1 DEF Levels
<1>8. CASE s \notin Component
  BY <1>8 DEF Walk, Found
<1> QED
  BY <1>7, <1>8

-----------------------------------------------------------------------------
(* There are no more origins than nodes.                                     *)
LEMMA CountBound ==
  ASSUME NEW result, result.nodes \in Seq(Entry)
  PROVE  Count(result) \in Nat /\ Count(result) <= Len(result.nodes)
<1> DEFINE nodes == result.nodes
           N == Len(nodes)
           T == {n.at : n \in Range(nodes)}
           f == [j \in 1 .. N |-> nodes[j].at]
<1>1. N \in Nat /\ DOMAIN nodes = 1 .. N
  OBVIOUS
<1>2. IsFiniteSet(1 .. N) /\ Cardinality(1 .. N) = N
  BY <1>1, FS_Interval
<1>3. f \in Surjection(1 .. N, T)
  BY <1>1 DEF Surjection, Range
<1> HIDE DEF f, T, N
<1>4. IsFiniteSet(T) /\ Cardinality(T) <= N
  BY <1>2, <1>3, FS_Surjection
<1>5. Cardinality(T) \in Nat
  BY <1>4, FS_CardinalityType
<1> QED
  BY <1>4, <1>5 DEF Count, T, N

(* The expansion of an instance in an unlimited budget.                      *)
Whole(d, i) == Expansion(d, SourceOf[i], d.node[i], Len(Walk(d, SourceOf[i])))

(* A budget bounds an expansion, and one that suffices changes nothing.      *)
LEMMA ExpansionNodes ==
  ASSUME NEW d \in Document, NEW s, NEW node, NEW budget \in Nat
  PROVE  /\ Expansion(d, s, node, budget).nodes \in Seq(Entry)
         /\ Len(Expansion(d, s, node, budget).nodes) <= budget
         /\ Expansion(d, s, node, budget).over = node.over
         /\ Len(Walk(d, s)) <= budget => Expansion(d, s, node, budget) = Expansion(d, s, node, Len(Walk(d, s)))
<1> DEFINE all == Walk(d, s)
           paid == IF Len(all) <= budget THEN all ELSE SubSeq(all, 1, budget)
<1>1. all \in Seq(Entry) /\ Len(all) \in Nat
  BY WalkIsSeq
<1>2. Expansion(d, s, node, budget).nodes = paid /\ Expansion(d, s, node, budget).over = node.over
  BY DEF Expansion
<1>3. Len(all) <= budget => Expansion(d, s, node, budget) = Expansion(d, s, node, Len(all))
  BY <1>1 DEF Expansion
<1> HIDE DEF all
<1>4. paid \in Seq(Entry) /\ Len(paid) <= budget
  <2>1. CASE Len(all) <= budget
    BY <1>1, <2>1
  <2>2. CASE ~(Len(all) <= budget)
    <3>1. 1 .. budget \subseteq 1 .. Len(all)
      BY <1>1, <2>2
    <3> QED
      BY <1>1, <2>2, <3>1
  <2> QED
    BY <2>1, <2>2
<1> QED
  BY <1>2, <1>3, <1>4 DEF all

(* The origins of a full expansion are at most the nodes paid for.           *)
LEMMA WholeNodes ==
  ASSUME NEW d \in Document, NEW i
  PROVE  Count(Whole(d, i)) \in Nat /\ Count(Whole(d, i)) <= Len(Walk(d, SourceOf[i]))
<1>1. Len(Walk(d, SourceOf[i])) \in Nat
  BY WalkIsSeq
<1>2. /\ Whole(d, i).nodes \in Seq(Entry)
      /\ Len(Whole(d, i).nodes) <= Len(Walk(d, SourceOf[i]))
  BY <1>1, ExpansionNodes DEF Whole
<1>3. Len(Whole(d, i).nodes) \in Nat
  BY <1>2
<1> QED
  BY <1>1, <1>2, <1>3, CountBound

(* What is left of the budget, and the result of resolving an instance: a    *)
(* fresh expansion in what is left, unless its key is cached.                *)
Left(budget, acc) == IF acc.expanded < budget THEN budget - acc.expanded ELSE 0

Fresh(d, budget, acc, i) == Expansion(d, SourceOf[i], d.node[i], Left(budget, acc))

Result(d, budget, acc, i) ==
    IF Key(d, i) \in DOMAIN acc.cache THEN acc.cache[Key(d, i)] ELSE Fresh(d, budget, acc, i)

(* What resolving one instance does: the cache keeps its entries, and gets   *)
(* one for an instance that is expanded and is no placeholder.               *)
Steps(d, budget, acc, i, next) ==
    /\ next.expanded = acc.expanded + Count(Result(d, budget, acc, i))
    /\ next.shown = [acc.shown EXCEPT ![i] = Result(d, budget, acc, i)]
    /\ next.cache = IF Key(d, i) \in DOMAIN acc.cache \/ Placeholder(Result(d, budget, acc, i))
                    THEN acc.cache ELSE With(acc.cache, Key(d, i), Result(d, budget, acc, i))
    /\ \A k \in DOMAIN next.cache :
          \/ k \in DOMAIN acc.cache /\ next.cache[k] = acc.cache[k]
          \/ /\ k = Key(d, i) /\ k \notin DOMAIN acc.cache
             /\ next.cache[k] = Fresh(d, budget, acc, i)
             /\ ~Placeholder(Fresh(d, budget, acc, i))

(* Resolve is such a step.                                                   *)
LEMMA ResolveStep ==
  ASSUME NEW d, NEW budget, NEW acc, NEW i
  PROVE  Steps(d, budget, acc, i, Resolve(d, budget, acc, i))
<1> DEFINE key == Key(d, i)
           fresh == Fresh(d, budget, acc, i)
           result == Result(d, budget, acc, i)
           next == Resolve(d, budget, acc, i)
<1>1. next = [expanded |-> acc.expanded + Count(result),
              shown |-> [acc.shown EXCEPT ![i] = result],
              cache |-> IF key \in DOMAIN acc.cache \/ Placeholder(result)
                        THEN acc.cache ELSE With(acc.cache, key, result)]
  BY DEF Resolve, Result, Fresh, Left
<1>2. result = IF key \in DOMAIN acc.cache THEN acc.cache[key] ELSE fresh
  BY DEF Result
<1> HIDE DEF next, result, key, fresh
<1>3. \A k \in DOMAIN next.cache :
         \/ k \in DOMAIN acc.cache /\ next.cache[k] = acc.cache[k]
         \/ k = key /\ k \notin DOMAIN acc.cache /\ next.cache[k] = fresh /\ ~Placeholder(fresh)
  <2>1. CASE key \in DOMAIN acc.cache \/ Placeholder(result)
    BY <1>1, <2>1
  <2>2. CASE ~(key \in DOMAIN acc.cache \/ Placeholder(result))
    <3>1. result = fresh /\ ~Placeholder(fresh)
      BY <1>2, <2>2
    <3>2. next.cache = With(acc.cache, key, fresh)
      BY <1>1, <2>2, <3>1
    <3>3. /\ DOMAIN next.cache = DOMAIN acc.cache \cup {key}
          /\ \A k \in DOMAIN next.cache : next.cache[k] = IF k = key THEN fresh ELSE acc.cache[k]
      BY <3>2 DEF With
    <3> QED
      BY <2>2, <3>1, <3>3
  <2> QED
    BY <2>1, <2>2
<1>4. /\ next.expanded = acc.expanded + Count(result)
      /\ next.shown = [acc.shown EXCEPT ![i] = result]
      /\ next.cache = IF key \in DOMAIN acc.cache \/ Placeholder(result)
                      THEN acc.cache ELSE With(acc.cache, key, result)
  BY <1>1
<1> QED
  BY <1>3, <1>4 DEF Steps, next, key, fresh, result

(* Each instance is painted once.                                            *)
LEMMA Painted ==
  /\ Len(Paint) \in Nat
  /\ \A k \in 1 .. Len(Paint) : Paint[k] \in Instance
  /\ \A i \in Instance : \E k \in 1 .. Len(Paint) : Paint[k] = i
  /\ \A j, k \in 1 .. Len(Paint) : Paint[j] = Paint[k] => j = k
  BY CacheAssumption DEF Range, IsInjective

(* What may be in a cache: no placeholder, and every result under the        *)
(* overrides of its key.                                                     *)
Kept(cached) == \A k \in DOMAIN cached : ~Placeholder(cached[k]) /\ cached[k].over = k.over

(* A function on the instances. *)
IsView(v) == v = [i \in Instance |-> v[i]]

(* A pass keeps views views and caches free of placeholders.                 *)
LEMMA PassTyped ==
  ASSUME NEW d, NEW budget, NEW pages, NEW before, NEW cached,
         IsView(before), Kept(cached)
  PROVE  /\ IsView(Pass(d, budget, pages, before, cached).shown)
         /\ Kept(Pass(d, budget, pages, before, cached).cache)
<1>1. PICK after : Passes(d, budget, pages, before, cached, after)
  BY PassUnfolds
<1> DEFINE N == Len(Paint)
           S == {k \in 0 .. N : IsView(after[k].shown) /\ Kept(after[k].cache)}
<1>2. N \in Nat
  BY Painted
<1>3. 0 \in S
  BY <1>1, <1>2 DEF Passes
<1>4. ASSUME NEW k \in 1 .. N, k - 1 \in S
      PROVE  k \in S
  <2> DEFINE acc == after[k - 1]
             i == Paint[k]
             next == Resolve(d, budget, acc, i)
  <2>1. IsView(acc.shown) /\ Kept(acc.cache)
    BY <1>4
  <2>2. after[k] = IF PageOf[i] \in pages THEN next ELSE acc
    BY <1>1 DEF Passes
  <2>3. IsView(next.shown) /\ Kept(next.cache)
    <3> DEFINE fresh == Fresh(d, budget, acc, i)
               key == Key(d, i)
               result == Result(d, budget, acc, i)
    <3>1. /\ next.shown = [acc.shown EXCEPT ![i] = result]
          /\ \A x \in DOMAIN next.cache :
                \/ x \in DOMAIN acc.cache /\ next.cache[x] = acc.cache[x]
                \/ x = key /\ next.cache[x] = fresh /\ ~Placeholder(fresh)
      <4>1. Steps(d, budget, acc, i, next)
        BY ResolveStep
      <4> HIDE DEF acc, next
      <4> QED
        BY <4>1 DEF Steps
    <3>2. fresh.over = key.over
      BY DEF Fresh, Expansion, Key
    <3> HIDE DEF fresh, key, next
    <3> QED
      BY <2>1, <3>1, <3>2 DEF Kept, IsView
  <2> HIDE DEF next, acc
  <2> QED
    BY <2>1, <2>2, <2>3
<1> HIDE DEF S
<1>5. 0 .. N \subseteq S
  BY <1>2, <1>3, <1>4, Induction, Zenon
<1>6. N \in S
  BY <1>2, <1>5
<1> QED
  BY <1>1, <1>6 DEF Passes, S

(* All instances of the document, fully expanded one by one, fit into the    *)
(* budget.                                                                   *)
Room(d, budget) ==
    \E spent \in [0 .. Len(Paint) -> 0 .. budget] :
        /\ spent[0] = 0
        /\ \A k \in 1 .. Len(Paint) : spent[k] = spent[k - 1] + Len(Walk(d, SourceOf[Paint[k]]))

(* With room, and a cache that is right about the keys of the document, a    *)
(* pass shows full expansions and adds only such.                            *)
LEMMA PassShowsWhole ==
  ASSUME NEW d \in Document, NEW budget \in Nat, NEW pages, NEW before, NEW cached,
         IsView(before), Room(d, budget),
         \A i \in Instance : Key(d, i) \in DOMAIN cached => cached[Key(d, i)] = Whole(d, i)
  PROVE  LET pass == Pass(d, budget, pages, before, cached)
         IN  /\ pass.shown = [i \in Instance |-> IF PageOf[i] \in pages THEN Whole(d, i) ELSE before[i]]
             /\ \A x \in DOMAIN pass.cache :
                   \/ x \in DOMAIN cached /\ pass.cache[x] = cached[x]
                   \/ \E i \in Instance : x = Key(d, i) /\ pass.cache[x] = Whole(d, i)
<1>1. PICK after : Passes(d, budget, pages, before, cached, after)
  BY PassUnfolds
<1>2. PICK spent \in [0 .. Len(Paint) -> 0 .. budget] :
         /\ spent[0] = 0
         /\ \A k \in 1 .. Len(Paint) : spent[k] = spent[k - 1] + Len(Walk(d, SourceOf[Paint[k]]))
  BY DEF Room
<1> DEFINE N == Len(Paint)
           View(k) == [i \in Instance |->
                         IF PageOf[i] \in pages /\ \E j \in 1 .. k : Paint[j] = i
                         THEN Whole(d, i) ELSE before[i]]
           Filled(acc) == \A x \in DOMAIN acc.cache :
                             \/ x \in DOMAIN cached /\ acc.cache[x] = cached[x]
                             \/ \E i \in Instance : x = Key(d, i) /\ acc.cache[x] = Whole(d, i)
           S == {k \in 0 .. N : /\ after[k].expanded \in Nat /\ after[k].expanded <= spent[k]
                                /\ after[k].shown = View(k)
                                /\ Filled(after[k])}
<1>3. N \in Nat
  BY Painted
<1>4. 0 \in S
  <2>1. View(0) = before
    BY \A j \in 1 .. 0 : FALSE DEF IsView
  <2>2. Filled(after[0])
    BY <1>1 DEF Passes
  <2> HIDE DEF View, Filled
  <2> QED
    BY <1>1, <1>2, <1>3, <2>1, <2>2 DEF Passes
<1>5. ASSUME NEW k \in 1 .. N, k - 1 \in S
      PROVE  k \in S
  <2> DEFINE acc == after[k - 1]
             i == Paint[k]
             next == Resolve(d, budget, acc, i)
  <2>1. /\ acc.expanded \in Nat /\ acc.expanded <= spent[k - 1]
        /\ acc.shown = View(k - 1)
        /\ Filled(acc)
    BY <1>5
  <2>2. after[k] = IF PageOf[i] \in pages THEN next ELSE acc
    BY <1>1 DEF Passes
  <2>3. /\ spent[k] = spent[k - 1] + Len(Walk(d, SourceOf[i]))
        /\ spent[k] \in 0 .. budget /\ spent[k - 1] \in 0 .. budget
    <3>1. spent[k] = spent[k - 1] + Len(Walk(d, SourceOf[i]))
      BY <1>2
    <3>2. k \in 0 .. N /\ k - 1 \in 0 .. N
      BY <1>3
    <3> HIDE DEF N
    <3>3. spent[k] \in 0 .. budget /\ spent[k - 1] \in 0 .. budget
      BY <1>2, <3>2 DEF N
    <3> QED
      BY <3>1, <3>3
  <2>4. i \in Instance
    BY Painted
  <2>5. Len(Walk(d, SourceOf[i])) \in Nat
    BY WalkIsSeq
  <2>6. CASE PageOf[i] \notin pages
    <3>1. after[k] = acc
      BY <2>2, <2>6
    <3>2. View(k) = View(k - 1)
      <4>1. \A x \in Instance : (\E j \in 1 .. k : Paint[j] = x)
                                 <=> x = i \/ \E j \in 1 .. k - 1 : Paint[j] = x
        BY <1>3
      <4> QED
        BY <2>6, <4>1
    <3> HIDE DEF View, Filled
    <3> QED
      BY <2>1, <2>3, <2>5, <3>1, <3>2
  <2>7. CASE PageOf[i] \in pages
    <3> DEFINE left == Left(budget, acc)
               fresh == Fresh(d, budget, acc, i)
               key == Key(d, i)
               result == Result(d, budget, acc, i)
    <3>1. /\ next.expanded = acc.expanded + Count(result)
          /\ next.shown = [acc.shown EXCEPT ![i] = result]
          /\ \A x \in DOMAIN next.cache :
                \/ x \in DOMAIN acc.cache /\ next.cache[x] = acc.cache[x]
                \/ x = key /\ next.cache[x] = fresh /\ ~Placeholder(fresh)
      <4>1. Steps(d, budget, acc, i, next)
        BY ResolveStep
      <4> HIDE DEF acc, next
      <4> QED
        BY <4>1 DEF Steps
    <3>2. left \in Nat /\ Len(Walk(d, SourceOf[i])) <= left
      BY SMTT(30), <2>1, <2>3, <2>5 DEF Left
    <3>3. fresh = Whole(d, i)
      BY <3>2, ExpansionNodes DEF Whole, Fresh
    <3>4. key \in DOMAIN acc.cache => acc.cache[key] = Whole(d, i)
      <4> SUFFICES ASSUME key \in DOMAIN acc.cache
                   PROVE  acc.cache[key] = Whole(d, i)
        OBVIOUS
      <4>1. CASE key \in DOMAIN cached /\ acc.cache[key] = cached[key]
        BY <2>4, <4>1
      <4>2. CASE \E j \in Instance : key = Key(d, j) /\ acc.cache[key] = Whole(d, j)
        <5>1. PICK j \in Instance : key = Key(d, j) /\ acc.cache[key] = Whole(d, j)
          BY <4>2
        <5>2. key.instance = i /\ Key(d, j).instance = j
          BY DEF Key
        <5> QED
          BY <5>1, <5>2
      <4> QED
        BY <2>1, <4>1, <4>2
    <3>5. result = Whole(d, i)
      BY <3>3, <3>4 DEF Result
    <3>6. Count(result) \in Nat /\ Count(result) <= Len(Walk(d, SourceOf[i]))
      BY <3>5, WholeNodes
    <3>7. after[k] = next
      BY <2>2, <2>7
    <3> HIDE DEF next, result, fresh, acc, key
    <3>8. after[k].expanded \in Nat /\ after[k].expanded <= spent[k]
      BY <2>1, <2>3, <2>5, <3>1, <3>6, <3>7
    <3>9. after[k].shown = View(k)
      <4>1. \A x \in Instance : (\E j \in 1 .. k : Paint[j] = x)
                                 <=> x = i \/ \E j \in 1 .. k - 1 : Paint[j] = x
        BY <1>3
      <4>2. \A x \in Instance : View(k)[x] = IF x = i THEN Whole(d, i) ELSE View(k - 1)[x]
        BY <2>4, <2>7, <4>1
      <4>3. /\ View(k) = [x \in Instance |-> View(k)[x]]
            /\ View(k - 1) = [x \in Instance |-> View(k - 1)[x]]
        OBVIOUS
      <4> HIDE DEF View
      <4>4. View(k) = [View(k - 1) EXCEPT ![i] = Whole(d, i)]
        BY <4>2, <4>3
      <4> QED
        BY <2>1, <3>1, <3>5, <3>7, <4>4
    <3>10. Filled(after[k])
      BY <2>1, <2>4, <3>1, <3>3, <3>7 DEF key
    <3> HIDE DEF View, Filled
    <3> QED
      BY <3>8, <3>9, <3>10
  <2> QED
    BY <2>6, <2>7
<1> HIDE DEF S, View, Filled
<1>6. 0 .. N \subseteq S
  BY <1>3, <1>4, <1>5, Induction, Zenon
<1>7. N \in S
  BY <1>3, <1>6
<1>8. View(N) = [i \in Instance |-> IF PageOf[i] \in pages THEN Whole(d, i) ELSE before[i]]
  BY Painted DEF View
<1>9. Pass(d, budget, pages, before, cached) = after[N]
  BY <1>1 DEF Passes
<1>10. after[N].shown = View(N) /\ Filled(after[N])
  BY <1>7 DEF S
<1> DEFINE pass == Pass(d, budget, pages, before, cached)
<1>11. pass = after[N]
  BY <1>9
<1> HIDE DEF pass
<1>12. /\ pass.shown = [i \in Instance |-> IF PageOf[i] \in pages THEN Whole(d, i) ELSE before[i]]
       /\ \A x \in DOMAIN pass.cache :
             \/ x \in DOMAIN cached /\ pass.cache[x] = cached[x]
             \/ \E i \in Instance : x = Key(d, i) /\ pass.cache[x] = Whole(d, i)
  BY <1>8, <1>10, <1>11 DEF Filled
<1> QED
  BY <1>12 DEF pass

(* Passes over documents that expand alike, from the same cache, show the    *)
(* same.                                                                     *)
LEMMA PassCongruent ==
  ASSUME NEW d, NEW e, NEW budget, NEW before, NEW other, NEW cached,
         IsView(before), IsView(other),
         \A i \in Instance : /\ Key(d, i) = Key(e, i)
                             /\ \A b : Expansion(d, SourceOf[i], d.node[i], b)
                                          = Expansion(e, SourceOf[i], e.node[i], b)
  PROVE  Pass(d, budget, Page, before, cached).shown = Pass(e, budget, Page, other, cached).shown
<1>1. PICK one : Passes(d, budget, Page, before, cached, one)
  BY PassUnfolds
<1>2. PICK two : Passes(e, budget, Page, other, cached, two)
  BY PassUnfolds
<1> DEFINE N == Len(Paint)
           S == {k \in 0 .. N : /\ one[k].expanded = two[k].expanded
                                /\ one[k].cache = two[k].cache
                                /\ IsView(one[k].shown) /\ IsView(two[k].shown)
                                /\ \A j \in 1 .. k : one[k].shown[Paint[j]] = two[k].shown[Paint[j]]}
<1>3. N \in Nat
  BY Painted
<1>4. 0 \in S
  BY <1>1, <1>2, <1>3 DEF Passes
<1>5. ASSUME NEW k \in 1 .. N, k - 1 \in S
      PROVE  k \in S
  <2> DEFINE i == Paint[k]
             result == Result(d, budget, one[k - 1], i)
  <2>1. /\ one[k - 1].expanded = two[k - 1].expanded
        /\ one[k - 1].cache = two[k - 1].cache
        /\ IsView(one[k - 1].shown) /\ IsView(two[k - 1].shown)
        /\ \A j \in 1 .. k - 1 : one[k - 1].shown[Paint[j]] = two[k - 1].shown[Paint[j]]
    BY <1>5
  <2>2. i \in Instance /\ PageOf[i] \in Page
    BY Painted, CacheAssumption
  <2>3. /\ Steps(d, budget, one[k - 1], i, one[k])
        /\ Steps(e, budget, two[k - 1], i, two[k])
    BY <1>1, <1>2, <2>2, ResolveStep DEF Passes
  <2>4. result = Result(e, budget, two[k - 1], i)
    BY <2>1, <2>2 DEF Result, Fresh, Left
  <2>5. Key(d, i) = Key(e, i)
    BY <2>2
  <2> HIDE DEF result
  <2>6. /\ one[k].expanded = two[k].expanded
        /\ one[k].cache = two[k].cache
    BY <2>1, <2>3, <2>4, <2>5 DEF Steps, result
  <2>7. /\ one[k].shown = [one[k - 1].shown EXCEPT ![i] = result]
        /\ two[k].shown = [two[k - 1].shown EXCEPT ![i] = result]
    BY <2>3, <2>4 DEF Steps, result
  <2>8. /\ IsView(one[k].shown) /\ IsView(two[k].shown)
        /\ \A x \in Instance : one[k].shown[x] = (IF x = i THEN result ELSE one[k - 1].shown[x])
        /\ \A x \in Instance : two[k].shown[x] = (IF x = i THEN result ELSE two[k - 1].shown[x])
    BY <2>1, <2>2, <2>7 DEF IsView
  <2>9. \A j \in 1 .. k : one[k].shown[Paint[j]] = two[k].shown[Paint[j]]
    <3> TAKE j \in 1 .. k
    <3>1. Paint[j] \in Instance
      BY <1>3, Painted
    <3>2. CASE j = k
      BY <2>8, <3>1, <3>2
    <3>3. CASE j # k
      <4>1. j \in 1 .. k - 1
        BY <1>3, <3>3
      <4>2. one[k - 1].shown[Paint[j]] = two[k - 1].shown[Paint[j]]
        BY <2>1, <4>1
      <4> QED
        BY <2>8, <3>1, <4>2
    <3> QED
      BY <3>2, <3>3
  <2> QED
    BY <2>6, <2>8, <2>9
<1>6. N \in S
  <2> HIDE DEF S
  <2>1. 0 .. N \subseteq S
    BY <1>3, <1>4, <1>5, Induction, Zenon
  <2> QED
    BY <1>3, <2>1
<1>7. /\ IsView(one[N].shown) /\ IsView(two[N].shown)
      /\ \A i \in Instance : one[N].shown[i] = two[N].shown[i]
  BY <1>6, Painted
<1>8. one[N].shown = two[N].shown
  BY <1>7 DEF IsView
<1> QED
  BY <1>1, <1>2, <1>8 DEF Passes

(* sum[k]: the expanded nodes of the first k instances of a view.            *)
Adds(sum, view) ==
    /\ sum[0] = 0
    /\ \A k \in 1 .. Len(Paint) : sum[k] = sum[k - 1] + Count(view[Paint[k]])

(* The expansions of a pass that starts with an empty cache fit into its     *)
(* budget.                                                                   *)
LEMMA PassFits ==
  ASSUME NEW d \in Document, NEW budget \in Nat, NEW before, IsView(before)
  PROVE  \E sum : /\ Adds(sum, Pass(d, budget, Page, before, EmptyCache).shown)
                  /\ sum[Len(Paint)] <= budget
<1>1. PICK after : Passes(d, budget, Page, before, EmptyCache, after)
  BY PassUnfolds
<1> DEFINE N == Len(Paint)
           sum == [k \in 0 .. N |-> after[k].expanded]
           S == {k \in 0 .. N :
                   /\ after[k].expanded \in Nat /\ after[k].expanded <= budget
                   /\ IsView(after[k].shown)
                   /\ \A x \in DOMAIN after[k].cache : \E j \in 1 .. k : x.instance = Paint[j]
                   /\ \A j \in 1 .. k :
                         after[j].expanded = after[j - 1].expanded + Count(after[k].shown[Paint[j]])}
<1>2. N \in Nat
  BY Painted
<1>3. 0 \in S
  BY <1>1, <1>2 DEF Passes, EmptyCache
<1>4. ASSUME NEW k \in 1 .. N, k - 1 \in S
      PROVE  k \in S
  <2> DEFINE acc == after[k - 1]
             i == Paint[k]
             fresh == Fresh(d, budget, acc, i)
  <2>1. /\ acc.expanded \in Nat /\ acc.expanded <= budget
        /\ IsView(acc.shown)
        /\ \A x \in DOMAIN acc.cache : \E j \in 1 .. k - 1 : x.instance = Paint[j]
        /\ \A j \in 1 .. k - 1 :
              after[j].expanded = after[j - 1].expanded + Count(acc.shown[Paint[j]])
    BY <1>4
  <2>2. i \in Instance /\ PageOf[i] \in Page
    BY Painted, CacheAssumption
  <2>3. Steps(d, budget, acc, i, after[k])
    BY <1>1, <2>2, ResolveStep DEF Passes
  <2>4. Key(d, i).instance = i
    BY DEF Key
  <2>5. Key(d, i) \notin DOMAIN acc.cache
    <3> SUFFICES ASSUME Key(d, i) \in DOMAIN acc.cache
                 PROVE  FALSE
      OBVIOUS
    <3>1. PICK j \in 1 .. k - 1 : i = Paint[j]
      BY <2>1, <2>4
    <3> QED
      BY <1>2, <3>1, Painted
  <2>6. Result(d, budget, acc, i) = fresh
    BY <2>5 DEF Result
  <2>7. Left(budget, acc) \in Nat /\ acc.expanded + Left(budget, acc) = budget
    BY <2>1 DEF Left
  <2>8. fresh.nodes \in Seq(Entry) /\ Len(fresh.nodes) <= Left(budget, acc)
    BY <2>7, ExpansionNodes DEF Fresh
  <2>9. Count(fresh) \in Nat /\ Count(fresh) <= Len(fresh.nodes) /\ Len(fresh.nodes) \in Nat
    BY <2>8, CountBound
  <2> HIDE DEF fresh, acc
  <2>10. /\ after[k].expanded = acc.expanded + Count(fresh)
         /\ after[k].shown = [acc.shown EXCEPT ![i] = fresh]
         /\ \A x \in DOMAIN after[k].cache : x \in DOMAIN acc.cache \/ x = Key(d, i)
    BY <2>3, <2>6 DEF Steps
  <2>11. after[k].expanded \in Nat /\ after[k].expanded <= budget
    BY <2>1, <2>7, <2>8, <2>9, <2>10
  <2>12. /\ IsView(after[k].shown)
         /\ \A x \in Instance : after[k].shown[x] = IF x = i THEN fresh ELSE acc.shown[x]
    BY <2>1, <2>2, <2>10 DEF IsView
  <2>13. \A x \in DOMAIN after[k].cache : \E j \in 1 .. k : x.instance = Paint[j]
    BY <1>2, <2>1, <2>4, <2>10
  <2>14. \A j \in 1 .. k : after[j].expanded = after[j - 1].expanded + Count(after[k].shown[Paint[j]])
    <3> TAKE j \in 1 .. k
    <3>1. Paint[j] \in Instance
      BY <1>2, Painted
    <3>2. CASE j = k
      BY <2>10, <2>12, <3>1, <3>2 DEF acc
    <3>3. CASE j # k
      <4>1. j \in 1 .. k - 1 /\ Paint[j] # i
        BY <1>2, <3>3, Painted
      <4> QED
        BY <2>1, <2>12, <3>1, <4>1
    <3> QED
      BY <3>2, <3>3
  <2> QED
    BY <2>11, <2>12, <2>13, <2>14
<1>5. N \in S
  <2> HIDE DEF S
  <2>1. 0 .. N \subseteq S
    BY <1>2, <1>3, <1>4, Induction, Zenon
  <2> QED
    BY <1>2, <2>1
<1>6. Pass(d, budget, Page, before, EmptyCache) = after[N] /\ after[0].expanded = 0
  BY <1>1 DEF Passes
<1>7. /\ sum[0] = 0
      /\ \A k \in 1 .. N : sum[k] = sum[k - 1] + Count(after[N].shown[Paint[k]])
      /\ sum[N] <= budget
  BY <1>2, <1>5, <1>6
<1> HIDE DEF sum, S
<1> QED
  BY <1>6, <1>7 DEF Adds

-----------------------------------------------------------------------------
(* How a session cache has to be used: no instance moves, and revisions do   *)
(* not come back unless edits are followed by invalidateComponent.           *)
Careful(h) ==
    h.session => /\ "move" \notin h.offered
                 /\ h.invalidating \/ "rebind" \notin h.offered \/ "undo" \notin h.offered

(* Whoever keeps results from one pass to the next, in a cache or as the     *)
(* pages of the previous result, has a budget that fits the document.        *)
Roomy == host.session \/ host.incremental => Room(doc, host.budget)

(* The entry under key k is what the document expands to now ...             *)
Right(k) ==
    cache[k] = Expansion(doc, k.source, [at |-> doc.node[k.instance].at, over |-> k.over],
                         Len(Walk(doc, k.source)))

(* ... and k names the revisions of now.                                     *)
Current(k) == \A r \in k.revisions : r[2] = doc.registry[r[1]].rev

(* An entry that can still be asked for is right: one under a key of now, or *)
(* any entry of a host that invalidates.                                     *)
KeysInv ==
    \A k \in DOMAIN cache :
        /\ host.session
        /\ k.instance \in Instance /\ k.source = SourceOf[k.instance]
        /\ k.revisions \subseteq Component \X Nat
        /\ host.invalidating \/ Current(k) => Right(k)

(* Keys are never ahead of the document, and a key of now names the Sources  *)
(* its expansion is made from.                                               *)
RevisionsInv ==
    ~host.invalidating =>
        \A k \in DOMAIN cache :
            /\ \A r \in k.revisions : r[2] <= doc.registry[r[1]].rev
            /\ Current(k) => Parts(doc, k.source) = {r[1] : r \in k.revisions}

(* What is shown on a clean page is right, when results are kept; without,   *)
(* only the resolved document as a whole is what a pass leads to.            *)
ShownInv ==
    IF host.session \/ host.incremental
    THEN \A i \in Instance : PageOf[i] \notin dirty => shown[i] = Whole(doc, i)
    ELSE Transparent

(* Only rebinding leaves an inverse that brings a revision back.             *)
UndoInv == "rebind" \notin host.offered => \A j \in DOMAIN undo : undo[j].rev = 0

(* The inductive invariant.                                                  *)
CacheInv == KeysInv /\ RevisionsInv /\ ShownInv /\ UndoInv

-----------------------------------------------------------------------------
(* Replacing the definition of a Source keeps the types.                     *)
LEMMA RewriteKeepsType ==
  ASSUME TypeOK, NEW c \in Component, NEW def \in Definition, def.body \in BodiesOf[c],
         Rewrite(c, def)
  PROVE  /\ doc' \in Document /\ Kept(cache')
         /\ host' = host /\ shown' = shown /\ dirty' \subseteq Page
<1>1. doc' \in Document
  <2>1. doc' = [doc EXCEPT !.registry[c] = def]
    BY DEF Rewrite
  <2> QED
    BY <2>1 DEF TypeOK, Document
<1>2. Kept(cache')
  BY DEF Rewrite, TypeOK, Kept, Invalidated
<1>3. dirty' \subseteq Page
  BY CacheAssumption DEF Rewrite, TypeOK, Embedding
<1> QED
  BY <1>1, <1>2, <1>3 DEF Rewrite

(* An inverse is pushed on a stack of inverses.                              *)
LEMMA RememberKeepsType ==
  ASSUME TypeOK, NEW c \in Component, NEW rev \in Nat, Remember(c, rev)
  PROVE  undo' \in Seq(Retraction)
<1> DEFINE last == [component |-> c, body |-> doc.registry[c].body,
                    bound |-> doc.registry[c].bound, rev |-> rev]
<1>1. last \in Retraction
  BY SMTT(30) DEF TypeOK, Document, Definition, Retraction
<1>2. undo' = <<last>> \o undo
  BY DEF Remember
<1> HIDE DEF last
<1> QED
  BY <1>1, <1>2 DEF TypeOK

(* What EditBody and Rebind make of the definition and of the undo stack.    *)
LEMMA SourceEdits ==
  ASSUME TypeOK, NEW c \in Component, EditBody(c) \/ Rebind(c)
  PROVE  \E def \in Definition, rev \in Nat :
            /\ def.body \in BodiesOf[c]
            /\ Rewrite(c, def) /\ Remember(c, rev)
            /\ def.rev = doc.registry[c].rev + 1
            /\ "rebind" \notin host.offered => rev = 0
<1> DEFINE old == doc.registry[c]
<1>1. /\ old = [rev |-> old.rev, body |-> old.body, bound |-> old.bound]
      /\ old.rev \in Nat /\ old.body \in BodiesOf[c] /\ old.bound \in Binding
  BY DEF TypeOK, Document, Definition
<1>2. /\ EditBody(c) => \E b \in BodiesOf[c] : Rewrite(c, [old EXCEPT !.body = b, !.rev = @ + 1])
      /\ Rebind(c) => \E b \in Binding : Rewrite(c, [old EXCEPT !.bound = b, !.rev = @ + 1])
  BY ZenonT(40) DEF EditBody, Rebind
<1>3. /\ EditBody(c) => Remember(c, 0)
      /\ Rebind(c) => Remember(c, old.rev) /\ "rebind" \in host.offered
  BY DEF EditBody, Rebind
<1> HIDE DEF old
<1> DEFINE Def(body, bound) == [rev |-> old.rev + 1, body |-> body, bound |-> bound]
<1>4. PICK body \in BodiesOf[c], bound \in Binding, rev \in Nat :
         /\ Rewrite(c, Def(body, bound))
         /\ Remember(c, rev)
         /\ "rebind" \notin host.offered => rev = 0
  <2>1. CASE EditBody(c)
    <3>1. PICK b \in BodiesOf[c] : Rewrite(c, [old EXCEPT !.body = b, !.rev = @ + 1])
      BY <1>2, <2>1
    <3> DEFINE one == [old EXCEPT !.body = b]
    <3>2. [old EXCEPT !.body = b, !.rev = @ + 1] = [one EXCEPT !.rev = @ + 1]
      OBVIOUS
    <3>3. one = [rev |-> old.rev, body |-> b, bound |-> old.bound]
      BY <1>1
    <3> HIDE DEF one
    <3>4. [one EXCEPT !.rev = @ + 1] = Def(b, old.bound)
      BY <1>1, <3>3
    <3> QED
      BY <1>1, <1>3, <2>1, <3>1, <3>2, <3>4
  <2>2. CASE Rebind(c)
    <3>1. PICK b \in Binding : Rewrite(c, [old EXCEPT !.bound = b, !.rev = @ + 1])
      BY <1>2, <2>2
    <3> DEFINE one == [old EXCEPT !.bound = b]
    <3>2. [old EXCEPT !.bound = b, !.rev = @ + 1] = [one EXCEPT !.rev = @ + 1]
      OBVIOUS
    <3>3. one = [rev |-> old.rev, body |-> old.body, bound |-> b]
      BY <1>1
    <3> HIDE DEF one
    <3>4. [one EXCEPT !.rev = @ + 1] = Def(old.body, b)
      BY <1>1, <3>3
    <3> QED
      BY <1>1, <1>3, <2>2, <3>1, <3>2, <3>4
  <2> QED
    BY <2>1, <2>2
<1>5. /\ Def(body, bound) \in Definition
      /\ Def(body, bound).body \in BodiesOf[c] /\ Def(body, bound).rev = old.rev + 1
  BY <1>1 DEF Definition
<1> HIDE DEF Def
<1> QED
  BY <1>4, <1>5 DEF old

(* Undoing an edit of a Source replaces its definition too.                  *)
LEMMA Undoing ==
  ASSUME TypeOK, UndoEdit
  PROVE  \E c \in Component, def \in Definition :
            /\ def.body \in BodiesOf[c]
            /\ Rewrite(c, def)
            /\ undo # <<>> /\ undo' = Tail(undo)
            /\ undo[1].rev = 0 => def.rev = doc.registry[c].rev + 1
<1> DEFINE last == undo[1]
           c == last.component
           def == [body |-> last.body, bound |-> last.bound,
                   rev |-> IF last.rev = 0 THEN doc.registry[c].rev + 1 ELSE last.rev]
<1>1. last \in Retraction
  BY DEF TypeOK, UndoEdit
<1>2. c \in Component /\ last.body \in BodiesOf[c] /\ last.bound \in Binding /\ last.rev \in Nat
  BY <1>1 DEF Retraction
<1>3. doc.registry[c].rev \in Nat
  BY <1>2 DEF TypeOK, Document, Definition
<1>4. def \in Definition /\ def.body \in BodiesOf[c]
  BY <1>2, <1>3 DEF Definition
<1>5. last.rev = 0 => def.rev = doc.registry[c].rev + 1
  OBVIOUS
<1>6. Rewrite(c, def) /\ undo # <<>> /\ undo' = Tail(undo)
  BY DEF UndoEdit
<1> HIDE DEF c, def
<1> QED
  BY <1>2, <1>4, <1>5, <1>6

(* What happens to an instance on a page.                                    *)
LEMMA InstanceEdits ==
  ASSUME TypeOK, NEW i \in Instance, Move(i) \/ Override(i)
  PROVE  \E at \in Position, over \in Value :
            /\ doc' = [doc EXCEPT !.node[i].at = at, !.node[i].over = over]
            /\ "move" \notin host.offered => at = doc.node[i].at
            /\ dirty' = dirty \cup {PageOf[i]}
            /\ UNCHANGED <<host, cache, shown, undo>>
<1>1. /\ doc.node[i].at \in Position /\ doc.node[i].over \in Value
      /\ doc.node[i] = [at |-> doc.node[i].at, over |-> doc.node[i].over]
      /\ doc = [registry |-> doc.registry, node |-> doc.node]
      /\ doc.node = [x \in Instance |-> doc.node[x]]
  BY SMTT(30) DEF TypeOK, Document
<1>2. CASE Move(i)
  <2>1. PICK x \in Position : doc' = [doc EXCEPT !.node[i].at = x]
    BY <1>2 DEF Move
  <2>2. doc' = [doc EXCEPT !.node[i].at = x, !.node[i].over = doc.node[i].over]
    BY <1>1, <2>1
  <2> QED
    BY <1>1, <1>2, <2>2 DEF Move
<1>3. CASE Override(i)
  <2>1. PICK v \in Value : doc' = [doc EXCEPT !.node[i].over = v]
    BY <1>3 DEF Override
  <2>2. doc' = [doc EXCEPT !.node[i].at = doc.node[i].at, !.node[i].over = v]
    BY <1>1, <2>1
  <2> QED
    BY <1>1, <1>3, <2>2 DEF Override
<1> QED
  BY <1>2, <1>3

(* Definitions, cached results and inverses have their types.                *)
THEOREM CacheTypeCorrect == Spec => []TypeOK
<1>1. Init => TypeOK
  <2> SUFFICES ASSUME Init
               PROVE  TypeOK
    OBVIOUS
  <2>1. doc \in Document
    BY CacheAssumption DEF Init, Document, Definition, Source
  <2>2. /\ host \in Hosts /\ DOMAIN cache = {} /\ dirty \subseteq Page
        /\ shown = [i \in Instance |-> shown[i]]
        /\ undo \in Seq(Retraction)
    BY DEF Init, EmptyCache
  <2> QED
    BY <2>1, <2>2 DEF TypeOK
<1>2. TypeOK /\ [Next]_vars => TypeOK'
  <2> SUFFICES ASSUME TypeOK, [Next]_vars
               PROVE  TypeOK'
    OBVIOUS
  <2>1. SUFFICES /\ host' \in Hosts /\ doc' \in Document /\ Kept(cache')
                 /\ IsView(shown') /\ dirty' \subseteq Page /\ undo' \in Seq(Retraction)
    BY DEF TypeOK, Kept, IsView
  <2>2. /\ host \in Hosts /\ doc \in Document /\ Kept(cache)
        /\ IsView(shown) /\ dirty \subseteq Page /\ undo \in Seq(Retraction)
    BY DEF TypeOK, Kept, IsView
  <2>3. CASE ResolveDocument
    <3> DEFINE pass == Pass(doc, host.budget, IF Reuse THEN dirty ELSE Page, shown, cache)
    <3>1. IsView(pass.shown) /\ Kept(pass.cache)
      BY <2>2, PassTyped
    <3>2. /\ shown' = pass.shown /\ cache' = (IF host.session THEN pass.cache ELSE EmptyCache)
          /\ dirty' = {} /\ UNCHANGED <<host, doc, undo>>
      BY <2>3 DEF ResolveDocument
    <3> HIDE DEF pass
    <3> QED
      BY <2>2, <3>1, <3>2 DEF Kept, EmptyCache
  <2>4. CASE \E c \in Component : EditBody(c) \/ Rebind(c)
    BY <2>2, <2>4, SourceEdits, RewriteKeepsType, RememberKeepsType
  <2>5. CASE UndoEdit
    <3>1. PICK c \in Component, def \in Definition :
             /\ def.body \in BodiesOf[c]
             /\ Rewrite(c, def)
             /\ undo # <<>> /\ undo' = Tail(undo)
      BY <2>5, Undoing
    <3>2. undo' \in Seq(Retraction)
      BY <2>2, <3>1
    <3> QED
      BY <2>2, <3>1, <3>2, RewriteKeepsType
  <2>6. CASE \E i \in Instance : Move(i) \/ Override(i)
    <3> PICK i \in Instance : Move(i) \/ Override(i)
      BY <2>6
    <3>1. PICK at \in Position, over \in Value :
             /\ doc' = [doc EXCEPT !.node[i].at = at, !.node[i].over = over]
             /\ dirty' = dirty \cup {PageOf[i]}
             /\ UNCHANGED <<host, cache, shown, undo>>
      BY ZenonT(40), InstanceEdits
    <3>2. doc' \in Document
      BY <2>2, <3>1 DEF Document
    <3> QED
      BY <2>2, <3>1, <3>2, CacheAssumption
  <2>7. CASE UNCHANGED vars
    BY <2>2, <2>7 DEF vars
  <2> QED
    BY <2>3, <2>4, <2>5, <2>6, <2>7 DEF Next
<1> QED
  BY <1>1, <1>2, PTL DEF Spec

-----------------------------------------------------------------------------
(* A key of the document as it is leads to what it would expand to now.      *)
LEMMA KeyIsRight ==
  ASSUME TypeOK, KeysInv, NEW i \in Instance, Key(doc, i) \in DOMAIN cache
  PROVE  cache[Key(doc, i)] = Whole(doc, i)
<1> DEFINE key == Key(doc, i)
<1>1. /\ key.instance = i /\ key.source = SourceOf[i] /\ key.over = doc.node[i].over
      /\ \A r \in key.revisions : r[2] = doc.registry[r[1]].rev
  BY DEF Key
<1>2. doc.node[i] = [at |-> doc.node[i].at, over |-> doc.node[i].over]
  BY DEF TypeOK, Document
<1> HIDE DEF key
<1>3. Current(key)
  BY <1>1 DEF Current
<1>4. Right(key)
  BY <1>3 DEF KeysInv, key
<1>5. cache[key] = Expansion(doc, SourceOf[i], [at |-> doc.node[i].at, over |-> doc.node[i].over],
                             Len(Walk(doc, SourceOf[i])))
  BY <1>1, <1>4 DEF Right
<1> QED
  BY <1>2, <1>5 DEF Whole, key

(* A pass keeps the invariant: it finds only right entries, and adds such.   *)
LEMMA ResolveKeeps ==
  ASSUME TypeOK, CacheInv, Roomy, ResolveDocument
  PROVE  CacheInv'
<1> DEFINE pages == IF Reuse THEN dirty ELSE Page
           pass == Pass(doc, host.budget, pages, shown, cache)
<1>1. /\ shown' = pass.shown /\ cache' = (IF host.session THEN pass.cache ELSE EmptyCache)
      /\ dirty' = {} /\ UNCHANGED <<host, doc, undo>>
  BY DEF ResolveDocument
<1>2. doc \in Document /\ IsView(shown) /\ host.budget \in Nat
  BY CacheAssumption DEF TypeOK, IsView, HostOptions
<1>3. UndoInv'
  BY <1>1 DEF CacheInv, UndoInv
<1>4. CASE host.session \/ host.incremental
  <2>1. Room(doc, host.budget)
    BY <1>4 DEF Roomy
  <2>2. \A i \in Instance : Key(doc, i) \in DOMAIN cache => cache[Key(doc, i)] = Whole(doc, i)
    BY KeyIsRight DEF CacheInv
  <2>3. /\ pass.shown = [i \in Instance |-> IF PageOf[i] \in pages THEN Whole(doc, i) ELSE shown[i]]
        /\ \A x \in DOMAIN pass.cache :
              \/ x \in DOMAIN cache /\ pass.cache[x] = cache[x]
              \/ \E i \in Instance : x = Key(doc, i) /\ pass.cache[x] = Whole(doc, i)
    BY <1>2, <2>1, <2>2, PassShowsWhole
  <2>4. \A i \in Instance : PageOf[i] \notin pages => shown[i] = Whole(doc, i)
    BY <1>4, CacheAssumption DEF CacheInv, ShownInv
  <2> HIDE DEF pass, pages
  <2>5. \A i \in Instance : shown'[i] = Whole(doc, i)
    BY <1>1, <2>3, <2>4
  <2>6. ShownInv'
    BY <1>1, <1>4, <2>5 DEF ShownInv
  <2>7. ASSUME NEW k \in DOMAIN cache'
        PROVE  \/ k \in DOMAIN cache /\ cache'[k] = cache[k]
               \/ \E i \in Instance : k = Key(doc, i) /\ cache'[k] = Whole(doc, i)
    BY <1>1, <2>3 DEF EmptyCache
  <2>8. \A k \in DOMAIN cache' : host.session
    BY <1>1 DEF EmptyCache
  <2>9. \A k : Current(k)' <=> Current(k)
    BY <1>1 DEF Current
  <2>10. ASSUME NEW k, NEW i \in Instance, k = Key(doc, i), cache'[k] = Whole(doc, i)
         PROVE  /\ k.instance \in Instance /\ k.source = SourceOf[k.instance]
                /\ k.revisions \subseteq Component \X Nat
                /\ Right(k)'
                /\ \A r \in k.revisions : r[2] <= doc.registry[r[1]].rev
                /\ Parts(doc, k.source) = {r[1] : r \in k.revisions}
    <3>1. /\ k.instance = i /\ k.source = SourceOf[i] /\ k.over = doc.node[i].over
          /\ k.revisions = {<<x, doc.registry[x].rev>> : x \in Parts(doc, SourceOf[i])}
      BY <2>10 DEF Key
    <3>2. Parts(doc, SourceOf[i]) \subseteq Component
      BY DEF Parts
    <3>3. \A x \in Component : doc.registry[x].rev \in Nat /\ doc.registry[x].rev <= doc.registry[x].rev
      BY <1>2 DEF Document, Definition
    <3>4. doc.node[i] = [at |-> doc.node[i].at, over |-> doc.node[i].over]
      BY <1>2 DEF Document
    <3>5. Right(k)'
      BY <1>1, <2>10, <3>1, <3>4 DEF Right, Whole
    <3>6. k.revisions \subseteq Component \X Nat
      BY <3>1, <3>2, <3>3
    <3>7. \A r \in k.revisions : r[2] <= doc.registry[r[1]].rev
      BY <3>1, <3>2, <3>3
    <3>8. Parts(doc, k.source) = {r[1] : r \in k.revisions}
      <4>1. \A x \in Parts(doc, SourceOf[i]) : <<x, doc.registry[x].rev>> \in k.revisions
        BY <3>1
      <4>2. \A r \in k.revisions : r[1] \in Parts(doc, SourceOf[i])
        BY <3>1
      <4>3. \A x \in Parts(doc, SourceOf[i]) : \E r \in k.revisions : r[1] = x
        <5> TAKE x \in Parts(doc, SourceOf[i])
        <5>1. <<x, doc.registry[x].rev>>[1] = x
          OBVIOUS
        <5> QED
          BY <4>1, <5>1
      <4> QED
        BY <3>1, <4>2, <4>3
    <3> QED
      BY <3>1, <3>5, <3>6, <3>7, <3>8
  <2>11. ASSUME NEW k \in DOMAIN cache, cache'[k] = cache[k]
         PROVE  Right(k) <=> Right(k)'
    BY <1>1, <2>11 DEF Right
  <2>12. KeysInv'
    BY <1>1, <2>7, <2>8, <2>9, <2>10, <2>11 DEF KeysInv, CacheInv
  <2>13. RevisionsInv'
    BY <1>1, <2>7, <2>9, <2>10 DEF RevisionsInv, CacheInv
  <2> QED
    BY <1>3, <2>6, <2>12, <2>13 DEF CacheInv
<1>5. CASE ~host.session /\ ~host.incremental
  <2>1. cache' = EmptyCache
    BY <1>1, <1>5
  <2>2. KeysInv' /\ RevisionsInv'
    BY <2>1 DEF KeysInv, RevisionsInv, EmptyCache
  <2>3. cache = EmptyCache
    <3>1. DOMAIN cache = {}
      BY <1>5 DEF CacheInv, KeysInv
    <3> QED
      BY <3>1 DEF EmptyCache
  <2>4. shown' = Pass(doc, host.budget, Page, shown, EmptyCache).shown
    BY <1>1, <1>5, <2>3 DEF Reuse
  <2>5. IsView(shown')
    BY <1>2, <2>4, PassTyped DEF Kept, EmptyCache
  <2>6. Pass(doc, host.budget, Page, shown, EmptyCache).shown
          = Pass(doc, host.budget, Page, shown', EmptyCache).shown
    BY <1>2, <2>5, PassCongruent
  <2>7. ShownInv'
    BY <1>1, <1>5, <2>4, <2>6 DEF ShownInv, Transparent, Uncached
  <2> QED
    BY <1>3, <2>2, <2>7 DEF CacheInv
<1> QED
  BY <1>4, <1>5

(* A Source that is not part of an expansion can change.                     *)
LEMMA OtherSource ==
  ASSUME TypeOK, NEW c \in Component, NEW def \in Definition, Rewrite(c, def),
         NEW s \in Source, c \notin Parts(doc, s)
  PROVE  /\ Parts(doc', s) = Parts(doc, s)
         /\ Walk(doc', s) = Walk(doc, s)
         /\ \A x \in Parts(doc, s) : doc'.registry[x] = doc.registry[x]
         /\ \A node, b : Expansion(doc', s, node, b) = Expansion(doc, s, node, b)
<1>1. \A x \in Parts(doc, s) : doc'.registry[x] = doc.registry[x]
  BY DEF Rewrite, TypeOK, Document, Parts
<1>2. Agree(doc, doc', Parts(doc, s))
  BY <1>1 DEF Agree
<1>3. Parts(doc', s) = Parts(doc, s)
  BY <1>2, SameParts
<1>4. Walk(doc', s) = Walk(doc, s)
  BY <1>2, SameWalk
<1>5. \A node, b : Expansion(doc', s, node, b) = Expansion(doc, s, node, b)
  BY <1>4 DEF Expansion
<1> QED
  BY <1>1, <1>3, <1>4, <1>5

(* So does a new definition: it outdates the keys that name the Source, or   *)
(* the entries made from it are dropped.                                     *)
LEMMA RewriteKeeps ==
  ASSUME TypeOK, KeysInv, RevisionsInv, ShownInv,
         NEW c \in Component, NEW def \in Definition, def.body \in BodiesOf[c], Rewrite(c, def),
         host.session /\ ~host.invalidating => def.rev > doc.registry[c].rev
  PROVE  KeysInv' /\ RevisionsInv' /\ ShownInv'
<1>1. /\ doc'.node = doc.node /\ doc'.registry = [doc.registry EXCEPT ![c] = def]
      /\ dirty' = dirty \cup {PageOf[i] : i \in Embedding(c)}
      /\ cache' = (IF host.invalidating THEN Invalidated(c) ELSE cache)
      /\ host' = host /\ shown' = shown
  BY DEF Rewrite, TypeOK, Document
<1>2. /\ doc \in Document /\ doc' \in Document /\ IsView(shown)
      /\ host.budget \in Nat
  <2>1. doc' \in Document
    BY RewriteKeepsType
  <2>2. host.budget \in Nat
    BY CacheAssumption DEF TypeOK, HostOptions
  <2> QED
    BY <2>1, <2>2 DEF TypeOK, IsView
<1>3. doc'.registry[c] = def /\ \A x \in Component \ {c} : doc'.registry[x] = doc.registry[x]
  BY <1>1 DEF TypeOK, Document
<1>4. \A k : k.source \in Source /\ c \notin Parts(doc, k.source) /\ k \in DOMAIN cache'
               => (Right(k)' <=> cache'[k] = Expansion(doc, k.source, [at |-> doc.node[k.instance].at, over |-> k.over], Len(Walk(doc, k.source))))
  BY <1>1, OtherSource DEF Right
<1>5. \A k \in DOMAIN cache' : k \in DOMAIN cache /\ cache'[k] = cache[k]
  BY <1>1 DEF Invalidated
<1>6. ASSUME NEW k \in DOMAIN cache'
      PROVE  /\ k.instance \in Instance /\ k.source = SourceOf[k.instance] /\ k.source \in Source
             /\ k.revisions \subseteq Component \X Nat
             /\ host.session
  BY <1>5, CacheAssumption DEF KeysInv
<1>7. ASSUME host.invalidating
      PROVE  KeysInv' /\ RevisionsInv'
  <2>1. ASSUME NEW k \in DOMAIN cache'
        PROVE  Right(k)'
    <3>1. k \in DOMAIN cache /\ k.source \notin Dependents(c) /\ Right(k)
      BY <1>1, <1>7 DEF Invalidated, KeysInv
    <3>2. CASE c \notin Parts(doc, k.source)
      BY <1>4, <1>5, <1>6, <3>1, <3>2 DEF Right
    <3>3. CASE c \in Parts(doc, k.source)
      <4>1. k.source \notin Component
        BY <3>1, <3>3 DEF Dependents
      <4>2. Walk(doc, k.source) = <<>> /\ Walk(doc', k.source) = <<>>
        BY <4>1 DEF Walk, Found
      <4>3. \A node, b : Expansion(doc', k.source, node, b) = Expansion(doc, k.source, node, b)
        BY <4>2 DEF Expansion
      <4> QED
        BY <1>1, <1>5, <3>1, <4>2, <4>3 DEF Right
    <3> QED
      BY <3>2, <3>3
  <2>2. KeysInv'
    BY <1>1, <1>6, <2>1 DEF KeysInv
  <2>3. RevisionsInv'
    BY <1>1, <1>7 DEF RevisionsInv
  <2> QED
    BY <2>2, <2>3
<1>8. ASSUME ~host.invalidating
      PROVE  KeysInv' /\ RevisionsInv'
  <2>1. ASSUME NEW k \in DOMAIN cache'
        PROVE  /\ \A r \in k.revisions : r[2] <= doc'.registry[r[1]].rev
               /\ Current(k)' => Right(k)' /\ Parts(doc', k.source) = {r[1] : r \in k.revisions}
    <3>1. /\ \A r \in k.revisions : r[1] \in Component /\ r[2] \in Nat /\ r[2] <= doc.registry[r[1]].rev
          /\ Current(k) => Right(k) /\ Parts(doc, k.source) = {r[1] : r \in k.revisions}
      BY <1>5, <1>6, <1>8 DEF RevisionsInv, KeysInv
    <3>2. /\ def.rev \in Nat /\ doc.registry[c].rev \in Nat
          /\ def.rev > doc.registry[c].rev
      BY <1>2, <1>6, <1>8 DEF Definition, Document
    <3>3. \A r \in k.revisions : r[2] <= doc'.registry[r[1]].rev
      <4> TAKE r \in k.revisions
      <4>1. CASE r[1] = c
        BY <1>3, <3>1, <3>2, <4>1
      <4>2. CASE r[1] # c
        BY <1>3, <3>1, <4>2
      <4> QED
        BY <4>1, <4>2
    <3>4. ASSUME Current(k)'
          PROVE  Right(k)' /\ Parts(doc', k.source) = {r[1] : r \in k.revisions}
      <4>1. \A r \in k.revisions : r[2] = doc'.registry[r[1]].rev
        BY <3>4 DEF Current
      <4>2. \A r \in k.revisions : r[1] # c
        BY <1>3, <3>1, <3>2, <4>1
      <4>3. Current(k)
        BY <1>3, <3>1, <4>1, <4>2 DEF Current
      <4>4. c \notin Parts(doc, k.source)
        BY <3>1, <4>2, <4>3
      <4>5. Right(k)'
        BY <1>4, <1>5, <1>6, <3>1, <4>3, <4>4 DEF Right
      <4>6. Parts(doc', k.source) = Parts(doc, k.source)
        BY <1>6, <4>4, OtherSource
      <4> QED
        BY <3>1, <4>3, <4>5, <4>6
    <3> QED
      BY <3>3, <3>4
  <2>2. KeysInv'
    BY <1>1, <1>6, <1>8, <2>1 DEF KeysInv
  <2>3. RevisionsInv'
    BY <2>1 DEF RevisionsInv
  <2> QED
    BY <2>2, <2>3
<1>9. ShownInv'
  <2>1. ASSUME NEW i \in Instance, PageOf[i] \notin dirty'
        PROVE  PageOf[i] \notin dirty /\ SourceOf[i] \in Source /\ c \notin Parts(doc, SourceOf[i])
    BY <1>1, <2>1, CacheAssumption DEF Embedding
  <2>2. CASE host.session \/ host.incremental
    <3>1. ASSUME NEW i \in Instance, PageOf[i] \notin dirty'
          PROVE  shown'[i] = Whole(doc', i)
      <4>1. shown[i] = Whole(doc, i)
        BY <2>1, <2>2, <3>1 DEF ShownInv
      <4>2. Whole(doc', i) = Whole(doc, i)
        BY <1>1, <2>1, <3>1, OtherSource DEF Whole
      <4> QED
        BY <1>1, <4>1, <4>2
    <3> QED
      BY <1>1, <2>2, <3>1 DEF ShownInv
  <2>3. CASE ~(host.session \/ host.incremental)
    <3>1. SUFFICES ASSUME dirty' = {}
                   PROVE  shown = Pass(doc', host.budget, Page, shown, EmptyCache).shown
      BY <1>1, <2>3 DEF ShownInv, Transparent, Uncached
    <3>2. shown = Pass(doc, host.budget, Page, shown, EmptyCache).shown
      BY <1>1, <2>3, <3>1 DEF ShownInv, Transparent, Uncached
    <3>3. ASSUME NEW i \in Instance
          PROVE  /\ Key(doc, i) = Key(doc', i)
                 /\ \A b : Expansion(doc, SourceOf[i], doc.node[i], b)
                             = Expansion(doc', SourceOf[i], doc'.node[i], b)
      <4>1. SourceOf[i] \in Source /\ c \notin Parts(doc, SourceOf[i])
        BY <2>1, <3>1
      <4>2. /\ Parts(doc', SourceOf[i]) = Parts(doc, SourceOf[i])
            /\ \A x \in Parts(doc, SourceOf[i]) : doc'.registry[x] = doc.registry[x]
            /\ \A node, b : Expansion(doc', SourceOf[i], node, b) = Expansion(doc, SourceOf[i], node, b)
        BY <4>1, OtherSource
      <4>3. {<<x, doc.registry[x].rev>> : x \in Parts(doc, SourceOf[i])}
              = {<<x, doc'.registry[x].rev>> : x \in Parts(doc', SourceOf[i])}
        BY <4>2
      <4>4. Key(doc, i) = Key(doc', i)
        BY <1>1, <4>3 DEF Key
      <4> QED
        BY <1>1, <4>2, <4>4
    <3> QED
      BY <1>2, <3>2, <3>3, PassCongruent
  <2> QED
    BY <2>2, <2>3
<1> QED
  BY <1>7, <1>8, <1>9

(* And an edit of an instance, which makes its page dirty.                   *)
LEMMA InstanceKeeps ==
  ASSUME TypeOK, CacheInv, Careful(host), NEW i \in Instance, Move(i) \/ Override(i)
  PROVE  CacheInv'
<1>1. PICK at \in Position, over \in Value :
         /\ doc' = [doc EXCEPT !.node[i].at = at, !.node[i].over = over]
         /\ "move" \notin host.offered => at = doc.node[i].at
         /\ dirty' = dirty \cup {PageOf[i]}
         /\ UNCHANGED <<host, cache, shown, undo>>
  BY InstanceEdits
<1>2. /\ doc'.registry = doc.registry
      /\ \A j \in Instance : /\ j # i => doc'.node[j] = doc.node[j]
                             /\ "move" \notin host.offered => doc'.node[j].at = doc.node[j].at
  BY <1>1 DEF TypeOK, Document
<1>3. \A s \in Source : /\ Parts(doc', s) = Parts(doc, s) /\ Walk(doc', s) = Walk(doc, s)
                        /\ \A node, b : Expansion(doc', s, node, b) = Expansion(doc, s, node, b)
  <2> TAKE s \in Source
  <2>1. Agree(doc, doc', Parts(doc, s))
    BY <1>2 DEF Agree
  <2>2. Parts(doc', s) = Parts(doc, s) /\ Walk(doc', s) = Walk(doc, s)
    BY <2>1, SameParts, SameWalk
  <2> QED
    BY <2>2 DEF Expansion
<1>4. \A k : Current(k)' <=> Current(k)
  BY <1>2 DEF Current
<1>5. ASSUME NEW k \in DOMAIN cache
      PROVE  k.source \in Source /\ (Right(k)' <=> Right(k))
  <2>1. k.source \in Source /\ k.instance \in Instance /\ "move" \notin host.offered
    BY CacheAssumption DEF CacheInv, KeysInv, Careful
  <2>2. doc'.node[k.instance].at = doc.node[k.instance].at
    BY <1>2, <2>1
  <2> QED
    BY <1>1, <1>3, <2>1, <2>2 DEF Right
<1>6. KeysInv'
  BY <1>1, <1>4, <1>5 DEF CacheInv, KeysInv
<1>7. RevisionsInv'
  BY <1>1, <1>2, <1>3, <1>4, <1>5 DEF CacheInv, RevisionsInv
<1>8. ShownInv'
  <2>1. PageOf[i] \in dirty' /\ dirty' # {}
    BY <1>1
  <2>2. ASSUME NEW j \in Instance, PageOf[j] \notin dirty'
        PROVE  PageOf[j] \notin dirty /\ Whole(doc', j) = Whole(doc, j)
    <3>1. j # i /\ PageOf[j] \notin dirty /\ SourceOf[j] \in Source
      BY <1>1, <2>1, <2>2, CacheAssumption
    <3> QED
      BY <1>2, <1>3, <3>1 DEF Whole
  <2> QED
    BY <1>1, <2>1, <2>2 DEF CacheInv, ShownInv, Transparent
<1>9. UndoInv'
  BY <1>1 DEF CacheInv, UndoInv
<1> QED
  BY <1>6, <1>7, <1>8, <1>9 DEF CacheInv

(* Every step keeps the invariant.                                           *)
LEMMA StepKeeps ==
  ASSUME TypeOK, CacheInv, Careful(host), Roomy, [Next]_vars
  PROVE  CacheInv'
<1>1. CASE ResolveDocument
  BY <1>1, ResolveKeeps
<1>2. CASE \E c \in Component : EditBody(c) \/ Rebind(c)
  <2> PICK c \in Component : EditBody(c) \/ Rebind(c)
    BY <1>2
  <2>1. PICK def \in Definition, rev \in Nat :
           /\ def.body \in BodiesOf[c]
           /\ Rewrite(c, def) /\ Remember(c, rev)
           /\ def.rev = doc.registry[c].rev + 1
           /\ "rebind" \notin host.offered => rev = 0
    BY SourceEdits
  <2>2. doc.registry[c].rev \in Nat
    BY DEF TypeOK, Document, Definition
  <2>3. def.rev > doc.registry[c].rev
    BY <2>1, <2>2
  <2>4. KeysInv' /\ RevisionsInv' /\ ShownInv'
    BY <2>1, <2>3, RewriteKeeps DEF CacheInv
  <2>5. UndoInv'
    <3>1. host' = host
      BY <2>1 DEF Rewrite
    <3>2. PICK first : first.rev = rev /\ undo' = <<first>> \o undo
      BY <2>1 DEF Remember
    <3>3. undo \in Seq(Retraction)
      BY DEF TypeOK
    <3>4. \A j \in DOMAIN undo' : \/ j = 1 /\ undo'[j] = first
                                  \/ j - 1 \in DOMAIN undo /\ undo'[j] = undo[j - 1]
      <4> DEFINE T == Retraction \cup {first}
      <4>1. undo \in Seq(T) /\ <<first>> \in Seq(T) /\ Len(<<first>>) = 1 /\ <<first>>[1] = first
        BY <3>3
      <4> HIDE DEF T
      <4>2. undo' = <<first>> \o undo
        BY <3>2
      <4> QED
        BY <4>1, <4>2
    <3> QED
      BY <2>1, <3>1, <3>2, <3>4 DEF CacheInv, UndoInv
  <2> QED
    BY <2>4, <2>5 DEF CacheInv
<1>3. CASE UndoEdit
  <2>1. PICK c \in Component, def \in Definition :
           /\ def.body \in BodiesOf[c]
           /\ Rewrite(c, def)
           /\ undo # <<>> /\ undo' = Tail(undo)
           /\ undo[1].rev = 0 => def.rev = doc.registry[c].rev + 1
    BY <1>3, Undoing
  <2>2. "undo" \in host.offered
    BY <1>3 DEF UndoEdit
  <2>3. doc.registry[c].rev \in Nat /\ 1 \in DOMAIN undo
    BY SMTT(30), <2>1 DEF TypeOK, Document, Definition
  <2>4. host.session /\ ~host.invalidating => def.rev > doc.registry[c].rev
    BY <2>1, <2>2, <2>3 DEF Careful, CacheInv, UndoInv
  <2>5. KeysInv' /\ RevisionsInv' /\ ShownInv'
    BY <2>1, <2>4, RewriteKeeps DEF CacheInv
  <2>6. UndoInv'
    <3>1. host' = host
      BY <2>1 DEF Rewrite
    <3>2. \A j \in DOMAIN undo' : j + 1 \in DOMAIN undo /\ undo'[j] = undo[j + 1]
      BY <2>1 DEF TypeOK
    <3> QED
      BY <3>1, <3>2 DEF CacheInv, UndoInv
  <2> QED
    BY <2>5, <2>6 DEF CacheInv
<1>4. CASE \E i \in Instance : Move(i) \/ Override(i)
  BY <1>4, InstanceKeeps
<1>5. CASE UNCHANGED vars
  BY <1>5 DEF vars, CacheInv, KeysInv, RevisionsInv, ShownInv, UndoInv, Right, Current,
              Transparent, Uncached
<1> QED
  BY <1>1, <1>2, <1>3, <1>4, <1>5 DEF Next

(* The invariant implies transparency ...                                    *)
LEMMA TransparentWhen ==
  ASSUME TypeOK, CacheInv, Roomy
  PROVE  Transparent
<1>1. CASE host.session \/ host.incremental
  <2>1. doc \in Document /\ host.budget \in Nat /\ IsView(shown)
    BY CacheAssumption DEF TypeOK, HostOptions, IsView
  <2>2. Room(doc, host.budget)
    BY <1>1 DEF Roomy
  <2>3. \A i \in Instance : Key(doc, i) \in DOMAIN EmptyCache => EmptyCache[Key(doc, i)] = Whole(doc, i)
    BY DEF EmptyCache
  <2>4. Pass(doc, host.budget, Page, shown, EmptyCache).shown
          = [i \in Instance |-> IF PageOf[i] \in Page THEN Whole(doc, i) ELSE shown[i]]
    BY <2>1, <2>2, <2>3, PassShowsWhole
  <2>5. Uncached.shown = [i \in Instance |-> Whole(doc, i)]
    BY <2>4, CacheAssumption DEF Uncached
  <2>6. dirty = {} => shown = [i \in Instance |-> Whole(doc, i)]
    BY <1>1, <2>1 DEF CacheInv, ShownInv, IsView
  <2> QED
    BY <2>5, <2>6 DEF Transparent
<1>2. CASE ~(host.session \/ host.incremental)
  BY <1>2 DEF CacheInv, ShownInv
<1> QED
  BY <1>1, <1>2

(* ... and holds at the start.                                               *)
LEMMA StartHolds ==
  Init => TypeOK /\ CacheInv
<1> SUFFICES ASSUME Init
             PROVE  TypeOK /\ CacheInv
  OBVIOUS
<1>1. /\ DOMAIN cache = {} /\ undo = <<>> /\ dirty = Page
      /\ host \in Hosts /\ shown = [i \in Instance |-> shown[i]]
  BY DEF Init, EmptyCache
<1>2. doc \in Document
  BY CacheAssumption DEF Init, Document, Definition, Source
<1>3. TypeOK
  BY <1>1, <1>2 DEF TypeOK
<1>4. KeysInv /\ RevisionsInv /\ UndoInv
  BY <1>1 DEF KeysInv, RevisionsInv, UndoInv
<1>5. ShownInv
  <2>1. \A x \in Instance : PageOf[x] \in dirty
    BY <1>1, CacheAssumption
  <2>2. ASSUME dirty = {}
        PROVE  shown = Uncached.shown
    <3>1. Instance = {}
      BY <2>1, <2>2
    <3>2. IsView(shown) /\ Kept(EmptyCache)
      BY <1>1 DEF IsView, Kept, EmptyCache
    <3>3. IsView(Uncached.shown)
      BY <3>2, PassTyped DEF Uncached
    <3> QED
      BY <3>1, <3>2, <3>3 DEF IsView
  <2> QED
    BY <2>1, <2>2 DEF ShownInv, Transparent
<1> QED
  BY <1>3, <1>4, <1>5 DEF CacheInv

(* Every resolved document is the one an empty cache would have led to: the  *)
(* keys, invalidation and the reuse of clean pages lose no edit.  Without    *)
(* Careful hosts cached instances stay where they were (cache_moved) or a    *)
(* revision that comes back revives its entries (cache_revision); without    *)
(* room a truncated result outlives its reason (cache_truncated).            *)
THEOREM CacheIsTransparent ==
  ASSUME \A h \in Hosts : Careful(h)
  PROVE  Spec /\ []Roomy => []Transparent
<1>1. Init => TypeOK /\ CacheInv
  BY StartHolds
<1>2. TypeOK /\ CacheInv /\ Roomy /\ [Next]_vars => CacheInv'
  <2>1. TypeOK => Careful(host)
    BY DEF TypeOK
  <2> QED
    BY <2>1, StepKeeps
<1>3. TypeOK /\ CacheInv /\ Roomy => Transparent
  BY TransparentWhen
<1>4. Spec => []TypeOK
  BY CacheTypeCorrect
<1> QED
  BY <1>1, <1>2, <1>3, <1>4, PTL DEF Spec

(* A resolved document that an empty cache would have led to is in the       *)
(* budget.                                                                   *)
LEMMA BudgetWhen ==
  ASSUME TypeOK, Transparent
  PROVE  BudgetKept
<1> DEFINE N == Len(Paint)
           Cost(k) == Count(shown[Paint[k]])
           Sums(f) == f = [k \in 0 .. N |-> IF k = 0 THEN 0 ELSE f[k - 1] + Cost(k)]
           expanded == CHOOSE f : Sums(f)
<1>1. N \in Nat
  BY Painted
<1>2. SUFFICES ASSUME dirty = {}
               PROVE  expanded[N] <= host.budget
  BY DEF BudgetKept
<1>3. shown = Pass(doc, host.budget, Page, shown, EmptyCache).shown
  BY <1>2 DEF Transparent, Uncached
<1>4. PICK sum : /\ sum[0] = 0
                 /\ \A k \in 1 .. N : sum[k] = sum[k - 1] + Cost(k)
                 /\ sum[N] <= host.budget
  <2>1. doc \in Document /\ host.budget \in Nat /\ IsView(shown)
    BY CacheAssumption DEF TypeOK, HostOptions, IsView
  <2>2. PICK sum : /\ Adds(sum, Pass(doc, host.budget, Page, shown, EmptyCache).shown)
                   /\ sum[Len(Paint)] <= host.budget
    BY <2>1, PassFits
  <2>3. Adds(sum, shown)
    BY <1>3, <2>2
  <2> QED
    BY <2>2, <2>3 DEF Adds
<1> HIDE DEF Cost
<1> DEFINE f == [k \in 0 .. N |-> sum[k]]
<1>5. Sums(f)
  <2>1. \A k \in 0 .. N : sum[k] = IF k = 0 THEN 0 ELSE f[k - 1] + Cost(k)
    BY <1>1, <1>4
  <2> QED
    BY <2>1
<1> HIDE DEF f, Sums
<1>6. Sums(expanded)
  BY <1>5
<1> HIDE DEF expanded
<1>7. /\ expanded[0] = 0
      /\ \A k \in 1 .. N : expanded[k] = expanded[k - 1] + Cost(k)
  BY <1>1, <1>6 DEF Sums
<1> DEFINE S == {k \in 0 .. N : expanded[k] = sum[k]}
<1>8. 0 \in S
  BY <1>1, <1>4, <1>7
<1>9. \A k \in 1 .. N : k - 1 \in S => k \in S
  BY <1>1, <1>4, <1>7
<1> HIDE DEF S
<1>10. 0 .. N \subseteq S
  BY <1>1, <1>8, <1>9, Induction, Zenon
<1>11. expanded[N] = sum[N]
  BY <1>1, <1>10 DEF S
<1> QED
  BY <1>4, <1>11

(* And it has no more expanded nodes than the budget of the document allows: *)
(* a hit is charged what its expansion would have cost.                      *)
THEOREM BudgetIsKept ==
  ASSUME \A h \in Hosts : Careful(h)
  PROVE  Spec /\ []Roomy => []BudgetKept
<1>1. TypeOK /\ Transparent => BudgetKept
  BY BudgetWhen
<1>2. Spec /\ []Roomy => []Transparent
  BY CacheIsTransparent
<1>3. Spec => []TypeOK
  BY CacheTypeCorrect
<1> QED
  BY <1>1, <1>2, <1>3, PTL

=============================================================================
