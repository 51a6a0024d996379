------------------------ MODULE ImportSession_proofs ------------------------
(***************************************************************************)
(* Proofs about ImportSession, for every document, template and payload.   *)
(***************************************************************************)
EXTENDS ImportSession, IntervalInduction, FiniteSetTheorems, SequenceTheorems, TLAPS

-----------------------------------------------------------------------------
(* Sets of numbers. *)

LEMMA CardinalNat ==
  ASSUME NEW S, IsFiniteSet(S)
  PROVE  Cardinality(S) \in Nat
BY FS_CardinalityType

(* A finite set of numbers that is not empty has a greatest one.             *)
LEMMA GreatestInt ==
  ASSUME NEW S \in SUBSET Int, S # {}, IsFiniteSet(S)
  PROVE  \E m \in S : \A n \in S : n <= m
<1> DEFINE P == {k \in Nat : \A T \in SUBSET Int : IsFiniteSet(T) /\ Cardinality(T) = k /\ T # {} => \E m \in T : \A n \in T : n <= m}
<1>1. 0 \in P
  BY FS_EmptySet
<1>2. ASSUME NEW k \in 1 .. Cardinality(S), k - 1 \in P
      PROVE  k \in P
  <2>1. SUFFICES ASSUME NEW T \in SUBSET Int, IsFiniteSet(T), Cardinality(T) = k, T # {}
                 PROVE  \E m \in T : \A n \in T : n <= m
    BY CardinalNat
  <2>2. PICK t \in T : TRUE
    BY <2>1
  <2>3. IsFiniteSet(T \ {t}) /\ Cardinality(T \ {t}) = k - 1
    BY <2>1, <2>2, FS_RemoveElement
  <2>4. CASE T \ {t} = {}
    BY <2>2, <2>4
  <2>5. CASE T \ {t} # {}
    <3>1. PICK m \in T \ {t} : \A n \in T \ {t} : n <= m
      BY <1>2, <2>3, <2>5
    <3>2. CASE t <= m
      BY <3>1, <3>2
    <3>3. CASE ~(t <= m)
      <4>1. \A n \in T : n <= t
        BY <2>1, <2>2, <3>1, <3>3
      <4> QED
        BY <2>2, <4>1
    <3> QED
      BY <3>2, <3>3
  <2> QED
    BY <2>4, <2>5
<1>3. 0 .. Cardinality(S) \subseteq P
  <2> HIDE DEF P
  <2> QED
    BY <1>1, <1>2, CardinalNat, Induction, Zenon
<1>4. Cardinality(S) \in P
  <2> HIDE DEF P
  <2> QED
    BY <1>3, CardinalNat
<1> QED
  BY <1>4

LEMMA MostOfIs ==
  ASSUME NEW S \in SUBSET Int, S # {}, IsFiniteSet(S)
  PROVE  MostOf(S) \in S /\ \A n \in S : n <= MostOf(S)
<1>1. \E m \in S : \A n \in S : n <= m
  BY GreatestInt
<1> QED
  BY <1>1 DEF MostOf

(* A finite set of numbers can be listed in order.                           *)
LEMMA AscendingExists ==
  ASSUME NEW S \in SUBSET Int, IsFiniteSet(S)
  PROVE  \E s \in [1..Cardinality(S) -> S] :
           /\ \A i, j \in DOMAIN s : i < j => s[i] < s[j]
           /\ \A x \in S : \E i \in DOMAIN s : s[i] = x
<1> DEFINE Listed(s, T) == /\ s \in [1..Cardinality(T) -> T]
                           /\ \A i, j \in DOMAIN s : i < j => s[i] < s[j]
                           /\ \A x \in T : \E i \in DOMAIN s : s[i] = x
           P == {k \in Nat : \A T \in SUBSET Int : IsFiniteSet(T) /\ Cardinality(T) = k => \E s : Listed(s, T)}
<1>1. 0 \in P
  <2>1. ASSUME NEW T \in SUBSET Int, IsFiniteSet(T), Cardinality(T) = 0
        PROVE  \E s : Listed(s, T)
    <3>1. T = {}
      BY <2>1, FS_EmptySet
    <3>2. Listed([i \in 1 .. 0 |-> 0], T)
      BY <2>1, <3>1
    <3> QED
      BY <3>2
  <2> QED
    BY <2>1
<1>2. ASSUME NEW k \in 1 .. Cardinality(S), k - 1 \in P
      PROVE  k \in P
  <2>0. k \in Nat /\ k >= 1
    BY CardinalNat
  <2>1. SUFFICES ASSUME NEW T \in SUBSET Int, IsFiniteSet(T), Cardinality(T) = k
                 PROVE  \E s : Listed(s, T)
    BY <2>0
  <2>2. T # {}
    BY <2>0, <2>1, FS_EmptySet
  <2>3. PICK m \in T : \A n \in T : n <= m
    BY <2>1, <2>2, GreatestInt
  <2>4. IsFiniteSet(T \ {m}) /\ Cardinality(T \ {m}) = k - 1
    BY <2>1, <2>3, FS_RemoveElement
  <2>5. PICK s : Listed(s, T \ {m})
    BY <1>2, <2>4
  <2> DEFINE t == [i \in 1 .. k |-> IF i = k THEN m ELSE s[i]]
  <2>6. \A i \in 1 .. k - 1 : i \in 1 .. k /\ i # k /\ t[i] = s[i] /\ s[i] \in T \ {m} /\ s[i] < m
    <3> TAKE i \in 1 .. k - 1
    <3>1. i \in 1 .. k /\ i # k
      BY <2>0
    <3>2. s[i] \in T \ {m}
      BY <2>4, <2>5
    <3>3. \A x \in T \ {m} : x < m
      <4>1. \A x \in T : x \in Int
        OBVIOUS
      <4> QED
        BY <2>3, <4>1
    <3>4. t[i] = s[i]
      BY <3>1
    <3> HIDE DEF t
    <3> QED
      BY <3>1, <3>2, <3>3, <3>4
  <2>7. t \in [1 .. k -> T] /\ t[k] = m
    <3>1. \A i \in 1 .. k : i = k \/ i \in 1 .. k - 1
      BY <2>0
    <3>2. k \in 1 .. k
      BY <2>0
    <3>3. t[k] = m
      BY <3>2
    <3>4. \A i \in 1 .. k : t[i] \in T
      BY <2>3, <2>6, <3>1, <3>3
    <3> QED
      BY <3>3, <3>4
  <2>8. \A i, j \in 1 .. k : i < j => t[i] < t[j]
    <3> TAKE i, j \in 1 .. k
    <3> HAVE i < j
    <3>1. i \in 1 .. k - 1 /\ (j = k \/ j \in 1 .. k - 1)
      BY <2>0
    <3>2. t[i] = s[i] /\ s[i] < m
      BY <2>6, <3>1
    <3>3. CASE j = k
      BY <2>7, <3>2, <3>3
    <3>4. CASE j \in 1 .. k - 1
      <4>1. t[j] = s[j] /\ i \in DOMAIN s /\ j \in DOMAIN s
        BY <2>4, <2>5, <2>6, <3>1, <3>4
      <4> QED
        BY <2>5, <3>2, <4>1
    <3> QED
      BY <3>1, <3>3, <3>4
  <2>9. \A x \in T : \E i \in 1 .. k : t[i] = x
    <3> TAKE x \in T
    <3>1. CASE x = m
      BY <2>0, <2>7, <3>1
    <3>2. CASE x # m
      <4>1. PICK i \in DOMAIN s : s[i] = x
        BY <2>5, <3>2
      <4>2. i \in 1 .. k - 1
        BY <2>4, <2>5
      <4> QED
        BY <2>6, <4>1, <4>2
    <3> QED
      BY <3>1, <3>2
  <2>10. Listed(t, T)
    <3> HIDE DEF t
    <3> QED
      BY <2>1, <2>7, <2>8, <2>9
  <2> QED
    BY <2>10
<1>3. 0 .. Cardinality(S) \subseteq P
  <2> HIDE DEF P
  <2> QED
    BY <1>1, <1>2, CardinalNat, Induction, Zenon
<1>4. Cardinality(S) \in P
  <2> HIDE DEF P
  <2> QED
    BY <1>3, CardinalNat
<1> QED
  BY <1>4


LEMMA AscendingLists ==
  ASSUME NEW S \in SUBSET Int, IsFiniteSet(S)
  PROVE  /\ Ascending(S) \in [1..Cardinality(S) -> S]
         /\ Ascending(S) \in Seq(S) /\ Len(Ascending(S)) = Cardinality(S)
         /\ \A i, j \in 1..Cardinality(S) : Ascending(S)[i] = Ascending(S)[j] => i = j
         /\ \A x \in S : \E i \in 1..Cardinality(S) : Ascending(S)[i] = x
<1> DEFINE A == Ascending(S)
           n == Cardinality(S)
<1>0. n \in Nat
  BY CardinalNat
<1>1. PICK s \in [1..n -> S] :
           /\ \A i, j \in DOMAIN s : i < j => s[i] < s[j]
           /\ \A x \in S : \E i \in DOMAIN s : s[i] = x
  BY AscendingExists
<1>2. A \in [1..n -> S] /\ \A i, j \in DOMAIN A : i < j => A[i] < A[j]
  BY <1>1 DEF Ascending
<1> HIDE DEF A
<1>3. \A i, j \in 1..n : A[i] = A[j] => i = j
  <2> TAKE i, j \in 1..n
  <2> HAVE A[i] = A[j]
  <2>1. A[i] \in Int /\ A[j] \in Int
    BY <1>2
  <2>2. ~(i < j) /\ ~(j < i)
    BY <1>2, <2>1
  <2> QED
    BY <2>2
<1>4. \A x \in S : \E i \in 1..n : A[i] = x
  <2>1. A \in Injection(1..n, S)
    BY <1>2, <1>3 DEF Injection, IsInjective
  <2>2. IsFiniteSet(1..n) /\ Cardinality(1..n) = n
    BY <1>0, FS_Interval
  <2>3. A \in Surjection(1..n, S)
    BY <2>1, <2>2, FS_SameCardinalityBij, FS_Injection DEF Bijection
  <2> QED
    BY <2>3 DEF Surjection
<1>5. A \in Seq(S) /\ Len(A) = n
  BY <1>0, <1>2
<1> QED
  BY <1>2, <1>3, <1>4, <1>5 DEF A

-----------------------------------------------------------------------------
(* Recursion along an interval, and folds.                                  *)

IsStep(step, N, X) == step \in [X \X (1..N) -> X]
IsRun(f, N, X, base, step) == f \in [0..N -> X] /\ f[0] = base /\ \A k \in 1..N : f[k] = step[<<f[k - 1], k>>]
IsTable(it, N, X, base, step) ==
    /\ it \in [SUBSET (1..N) -> X]
    /\ \A s \in SUBSET (1..N) : it[s] = IF s = {} THEN base ELSE step[<<it[s \ {Max(s)}], Max(s)>>]

LEMMA StepsExist ==
  ASSUME NEW N \in Nat, NEW X, NEW base \in X, NEW step, IsStep(step, N, X)
  PROVE  \E f : IsRun(f, N, X, base, step)
<1>0. step \in [X \X (1..N) -> X]
  BY DEF IsStep
<1> DEFINE Run(f, n) == f \in [0..n -> X] /\ f[0] = base /\ \A k \in 1..n : f[k] = step[<<f[k - 1], k>>]
           S == {n \in 0..N : \E f : Run(f, n)}
<1>1. 0 \in S
  <2>1. Run([k \in 0..0 |-> base], 0)
    OBVIOUS
  <2> HIDE DEF Run
  <2> QED
    BY <2>1
<1>2. ASSUME NEW n \in 1..N, n - 1 \in S
      PROVE  n \in S
  <2>1. PICK f : Run(f, n - 1)
    BY <1>2
  <2> DEFINE g == [k \in 0..n |-> IF k = n THEN step[<<f[n - 1], n>>] ELSE f[k]]
  <2>2. f[n - 1] \in X
    BY <2>1
  <2>3. \A k \in 0..n - 1 : k \in 0..n /\ k # n /\ g[k] = f[k] /\ g[k] \in X
    BY <2>1
  <2>4. n \in 0..n /\ g[n] = step[<<f[n - 1], n>>] /\ g[n] \in X
    BY <1>0, <2>2
  <2>5. \A k \in 0..n : k = n \/ k \in 0..n - 1
    OBVIOUS
  <2>6. g \in [0..n -> X]
    BY <2>3, <2>4, <2>5
  <2>7. \A k \in 1..n : g[k] = step[<<g[k - 1], k>>]
    <3> TAKE k \in 1..n
    <3>1. k - 1 \in 0..n - 1 /\ g[k - 1] = f[k - 1]
      BY <2>3
    <3>2. CASE k = n
      BY <2>4, <3>1, <3>2
    <3>3. CASE k # n
      <4>1. k \in 1..n - 1
        BY <3>3
      <4>2. f[k] = step[<<f[k - 1], k>>]
        BY <2>1, <4>1
      <4>3. g[k] = f[k]
        BY <2>3, <4>1
      <4> QED
        BY <3>1, <4>2, <4>3
    <3> QED
      BY <3>2, <3>3
  <2>8. 0 \in 0..n - 1 /\ g[0] = base
    BY <2>1, <2>3
  <2>9. Run(g, n)
    <3> HIDE DEF g
    <3> QED
      BY <2>6, <2>7, <2>8
  <2> HIDE DEF Run, g
  <2> QED
    BY <2>9
<1>3. 0..N \subseteq S
  <2> HIDE DEF S
  <2> QED
    BY <1>1, <1>2, Induction, Zenon
<1>4. N \in S
  <2> HIDE DEF S
  <2> QED
    BY <1>3
<1> QED
  BY <1>4 DEF IsRun


LEMMA IntervalMax ==
  ASSUME NEW k \in Nat, NEW s \in SUBSET (1..k), k \in s
  PROVE  Max(s) = k
<1>1. \A y \in s : y \in Nat /\ y <= k
  OBVIOUS
<1>2. \A x \in s : (\A y \in s : x >= y) => x = k
  BY <1>1
<1>3. \A y \in s : k >= y
  BY <1>1
<1> DEFINE P(x) == x \in s /\ \A y \in s : x >= y
<1>4. P(k) /\ \A x : P(x) => x = k
  BY <1>2, <1>3
<1>5. Max(s) = CHOOSE x : P(x)
  BY DEF Max
<1> HIDE DEF P
<1>6. P(CHOOSE x : P(x))
  BY <1>4
<1> QED
  BY <1>4, <1>5, <1>6

(* The table by which a fold is defined, for a step that stays in a set X.  *)
LEMMA FoldExists ==
  ASSUME NEW N \in Nat, NEW X, NEW base \in X, NEW step, IsStep(step, N, X)
  PROVE  \E it : IsTable(it, N, X, base, step)
<1>0. step \in [X \X (1..N) -> X]
  BY DEF IsStep
<1> DEFINE Run(f, n) == /\ f \in [SUBSET (1..n) -> X]
                        /\ \A s \in SUBSET (1..n) :
                             f[s] = IF s = {} THEN base ELSE step[<<f[s \ {Max(s)}], Max(s)>>]
           S == {n \in 0..N : \E f : Run(f, n)}
<1>1. 0 \in S
  <2> DEFINE g == [s \in SUBSET (1..0) |-> base]
  <2>1. \A s \in SUBSET (1..0) : s = {}
    OBVIOUS
  <2>2. Run(g, 0)
    BY <2>1
  <2> HIDE DEF Run, g
  <2> QED
    BY <2>2
<1>2. ASSUME NEW k \in 1..N, k - 1 \in S
      PROVE  k \in S
  <2>1. PICK f : Run(f, k - 1)
    BY <1>2
  <2> DEFINE g == [s \in SUBSET (1..k) |-> IF k \in s THEN step[<<f[s \ {k}], k>>] ELSE f[s]]
  <2>2. \A s \in SUBSET (1..k) : /\ g[s] = IF s = {} THEN base ELSE step[<<g[s \ {Max(s)}], Max(s)>>]
                                 /\ g[s] \in X
    <3> TAKE s \in SUBSET (1..k)
    <3>1. CASE k \in s
      <4>1. Max(s) = k
        BY <3>1, IntervalMax
      <4>2. s \ {k} \in SUBSET (1..k) /\ k \notin s \ {k} /\ s # {}
        BY <3>1
      <4>3. s \ {k} \in SUBSET (1..k - 1)
        <5>1. \A x \in s \ {k} : x \in 1..k - 1
          OBVIOUS
        <5> QED
          BY <5>1
      <4>4. g[s \ {k}] = f[s \ {k}] /\ f[s \ {k}] \in X
        BY <2>1, <4>2, <4>3
      <4> QED
        BY <1>0, <3>1, <4>1, <4>2, <4>4
    <3>2. CASE k \notin s
      <4>1. s \in SUBSET (1..k - 1)
        <5>1. \A x \in s : x \in 1..k - 1
          BY <3>2
        <5> QED
          BY <5>1
      <4>2. s \ {Max(s)} \in SUBSET (1..k - 1) /\ s \ {Max(s)} \in SUBSET (1..k) /\ k \notin s \ {Max(s)}
        BY <3>2, <4>1
      <4>3. /\ f[s] = IF s = {} THEN base ELSE step[<<f[s \ {Max(s)}], Max(s)>>]
            /\ f[s] \in X
        BY <2>1, <4>1
      <4>4. g[s] = f[s] /\ g[s \ {Max(s)}] = f[s \ {Max(s)}]
        BY <3>2, <4>1, <4>2
      <4> QED
        BY <4>3, <4>4
    <3> QED
      BY <3>1, <3>2
  <2>3. Run(g, k)
    <3>1. g \in [SUBSET (1..k) -> X]
      BY <2>2
    <3> QED
      BY <2>2, <3>1
  <2> HIDE DEF Run, g
  <2> QED
    BY <2>3
<1>3. 0..N \subseteq S
  <2> HIDE DEF S
  <2> QED
    BY <1>1, <1>2, Induction, Zenon
<1>4. N \in S
  <2> HIDE DEF S
  <2> QED
    BY <1>3
<1> QED
  BY <1>4 DEF IsTable


-----------------------------------------------------------------------------
(* Maps and documents as members of sets.                                   *)

Maps(V) == {f \in UNION {[S -> V] : S \in SUBSET Int} : IsFiniteSet(DOMAIN f)}

LEMMA MapsAre ==
  ASSUME NEW V, NEW f
  PROVE  f \in Maps(V) <=> IsMap(f, V)
BY DEF Maps, IsMap

DocumentRecords == [id : Int, version : STRING, pages : Seq(PageRecord), components : Maps(DefinitionRecord),
                    snapshots : Seq(SnapshotRecord), assets : Maps(AssetRecord), capabilities : SUBSET STRING]

LEMMA DocumentsAre ==
  ASSUME NEW d
  PROVE  IsDocument(d) <=> d \in DocumentRecords
BY MapsAre DEF IsDocument, DocumentRecords

LEMMA OverIs ==
  ASSUME NEW V, NEW f \in Maps(V), NEW g \in Maps(V)
  PROVE  /\ Over(f, g) \in Maps(V)
         /\ DOMAIN Over(f, g) = DOMAIN f \cup DOMAIN g
         /\ \A x \in DOMAIN f : Over(f, g)[x] = f[x]
         /\ \A x \in DOMAIN g \ DOMAIN f : Over(f, g)[x] = g[x]
<1>1. /\ f \in [DOMAIN f -> V] /\ DOMAIN f \subseteq Int /\ IsFiniteSet(DOMAIN f)
      /\ g \in [DOMAIN g -> V] /\ DOMAIN g \subseteq Int /\ IsFiniteSet(DOMAIN g)
  BY MapsAre DEF IsMap
<1>2. IsFiniteSet(DOMAIN f \cup DOMAIN g)
  BY <1>1, FS_Union
<1>3. DOMAIN Over(f, g) = DOMAIN f \cup DOMAIN g
  BY DEF Over
<1>4. \A x \in DOMAIN f : Over(f, g)[x] = f[x]
  BY DEF Over
<1>5. \A x \in DOMAIN g \ DOMAIN f : Over(f, g)[x] = g[x]
  BY DEF Over
<1>6. Over(f, g) \in [DOMAIN f \cup DOMAIN g -> V]
  BY <1>1 DEF Over
<1>7. IsMap(Over(f, g), V)
  BY <1>1, <1>2, <1>3, <1>6 DEF IsMap
<1> QED
  BY <1>3, <1>4, <1>5, <1>7, MapsAre

LEMMA EntryIs ==
  ASSUME NEW V, NEW k \in Int, NEW v \in V
  PROVE  Entry(k, v) \in Maps(V) /\ DOMAIN Entry(k, v) = {k} /\ Entry(k, v)[k] = v
<1>1. IsFiniteSet({k})
  BY FS_Singleton
<1>2. IsMap(Entry(k, v), V)
  BY <1>1 DEF IsMap, Entry
<1> QED
  BY <1>2, MapsAre DEF Entry

(* Over(Entry(k, v), g): one entry written over a map. *)
LEMMA EntryOver ==
  ASSUME NEW V, NEW k \in Int, NEW v \in V, NEW g \in Maps(V)
  PROVE  /\ Over(Entry(k, v), g) \in Maps(V)
         /\ DOMAIN Over(Entry(k, v), g) = {k} \cup DOMAIN g
         /\ Over(Entry(k, v), g)[k] = v
         /\ \A x \in DOMAIN g \ {k} : Over(Entry(k, v), g)[x] = g[x]
<1>1. Entry(k, v) \in Maps(V) /\ DOMAIN Entry(k, v) = {k} /\ Entry(k, v)[k] = v
  BY EntryIs
<1> DEFINE e == Entry(k, v)
<1>2. e \in Maps(V) /\ DOMAIN e = {k} /\ e[k] = v
  BY <1>1
<1> HIDE DEF e
<1>3. /\ Over(e, g) \in Maps(V)
      /\ DOMAIN Over(e, g) = {k} \cup DOMAIN g
      /\ Over(e, g)[k] = v
      /\ \A x \in DOMAIN g \ {k} : Over(e, g)[x] = g[x]
  BY <1>2, OverIs
<1> QED
  BY <1>3 DEF e

-----------------------------------------------------------------------------
(* The folds of the model, step by step.                                    *)

LEMMA MaxIn ==
  ASSUME NEW N \in Nat, NEW s \in SUBSET (1..N), s # {}
  PROVE  Max(s) \in s /\ Max(s) \in 1..N /\ s \ {Max(s)} \in SUBSET (1..N)
<1>1. IsFiniteSet(s)
  <2>1. IsFiniteSet(1..N)
    BY FS_Interval
  <2> QED
    BY <2>1, FS_Subset
<1>2. s \in SUBSET Int
  OBVIOUS
<1>3. PICK m \in s : \A n \in s : n <= m
  BY <1>1, <1>2, GreatestInt
<1> DEFINE P(x) == x \in s /\ \A y \in s : x >= y
<1>4. P(m)
  BY <1>2, <1>3
<1>5. Max(s) = CHOOSE x : P(x)
  BY DEF Max
<1> HIDE DEF P
<1>6. P(CHOOSE x : P(x))
  BY <1>4
<1> QED
  BY <1>5, <1>6 DEF P

(* page.delete keeps the pages of other ids, in order.                      *)
LEMMA PagesButSteps ==
  ASSUME NEW pages \in Seq(PageRecord), NEW id \in Int
  PROVE  \E acc \in [0..Len(pages) -> Seq(PageRecord)] :
           /\ acc[0] = <<>> /\ PagesBut(pages, id) = acc[Len(pages)]
           /\ \A k \in 1..Len(pages) : acc[k] = IF pages[k].id = id THEN acc[k - 1] ELSE Append(acc[k - 1], pages[k])
<1> DEFINE N == Len(pages)
           X == Seq(PageRecord)
           step == [a \in X \X (1..N) |-> IF pages[a[2]].id = id THEN a[1] ELSE Append(a[1], pages[a[2]])]
           it == CHOOSE it : it = [s \in SUBSET (DOMAIN pages) |->
                    IF s = {} THEN <<>>
                    ELSE IF pages[Max(s)].id = id THEN it[s \ {Max(s)}] ELSE Append(it[s \ {Max(s)}], pages[Max(s)])]
<1>1. N \in Nat /\ DOMAIN pages = 1..N
  OBVIOUS
<1>2. <<>> \in X
  OBVIOUS
<1>3. IsStep(step, N, X)
  <2>1. \A a \in X, k \in 1..N : (IF pages[k].id = id THEN a ELSE Append(a, pages[k])) \in X
    OBVIOUS
  <2> HIDE DEF X
  <2> QED
    BY <2>1 DEF IsStep
<1>4. \A a \in X, k \in 1..N : step[<<a, k>>] = IF pages[k].id = id THEN a ELSE Append(a, pages[k])
  <2> HIDE DEF X
  <2> QED
    OBVIOUS
<1>5. PagesBut(pages, id) = it[DOMAIN pages]
  BY DEF FoldLeft, MapThenFoldSet, PagesBut
<1> HIDE DEF step, X
<1>6. PICK jt \in [SUBSET (1..N) -> X] :
           \A s \in SUBSET (1..N) : jt[s] = IF s = {} THEN <<>> ELSE step[<<jt[s \ {Max(s)}], Max(s)>>]
  <2> DEFINE base == <<>>
  <2>1. base \in X
    BY <1>2
  <2> HIDE DEF N, base
  <2>2. \E jt \in [SUBSET (1..N) -> X] :
           \A s \in SUBSET (1..N) : jt[s] = IF s = {} THEN base ELSE step[<<jt[s \ {Max(s)}], Max(s)>>]
    <3>1. PICK jt : IsTable(jt, N, X, base, step)
      BY <1>1, <2>1, <1>3, FoldExists
    <3> QED
      BY <3>1 DEF IsTable
  <2> QED
    BY <2>2 DEF base
<1>7. jt = [s \in SUBSET (1..N) |->
              IF s = {} THEN <<>>
              ELSE IF pages[Max(s)].id = id THEN jt[s \ {Max(s)}] ELSE Append(jt[s \ {Max(s)}], pages[Max(s)])]
  <2>1. ASSUME NEW s \in SUBSET (1..N), s # {}
        PROVE  jt[s] = IF pages[Max(s)].id = id THEN jt[s \ {Max(s)}] ELSE Append(jt[s \ {Max(s)}], pages[Max(s)])
    <3>1. Max(s) \in 1..N /\ s \ {Max(s)} \in SUBSET (1..N)
      BY <1>1, <2>1, MaxIn
    <3>2. jt[s \ {Max(s)}] \in X
      BY <3>1
    <3>3. jt[s] = step[<<jt[s \ {Max(s)}], Max(s)>>]
      BY <1>6, <2>1
    <3> HIDE DEF N
    <3> QED
      BY <1>4, <3>1, <3>2, <3>3
  <2>2. \A s \in SUBSET (1..N) : jt[s] = IF s = {} THEN <<>>
              ELSE IF pages[Max(s)].id = id THEN jt[s \ {Max(s)}] ELSE Append(jt[s \ {Max(s)}], pages[Max(s)])
    <3> TAKE s \in SUBSET (1..N)
    <3>1. CASE s = {}
      BY <1>6, <3>1
    <3>2. CASE s # {}
      BY <2>1, <3>2
    <3> QED
      BY <3>1, <3>2
  <2> HIDE DEF N
  <2> QED
    BY <2>2
<1>8. it = [s \in SUBSET (1..N) |->
              IF s = {} THEN <<>>
              ELSE IF pages[Max(s)].id = id THEN it[s \ {Max(s)}] ELSE Append(it[s \ {Max(s)}], pages[Max(s)])]
  <2> HIDE DEF N
  <2> QED
    BY <1>1, <1>7
<1> HIDE DEF it
<1>9. \A s \in SUBSET (1..N) : it[s] = IF s = {} THEN <<>> ELSE IF pages[Max(s)].id = id THEN it[s \ {Max(s)}] ELSE Append(it[s \ {Max(s)}], pages[Max(s)])
  <2> HIDE DEF N
  <2> QED
    BY <1>8
<1> DEFINE acc == [k \in 0..N |-> it[1..k]]
           S == {k \in 0..N : acc[k] \in X}
<1>10. acc[0] = <<>> /\ acc[N] = it[1..N] /\ DOMAIN acc = 0..N /\ acc = [k \in 0..N |-> acc[k]]
  <2>1. 1..0 = {} /\ {} \in SUBSET (1..N) /\ 0 \in 0..N /\ N \in 0..N
    BY <1>1
  <2>2. it[{}] = <<>>
    BY <1>9, <2>1
  <2> HIDE DEF N
  <2> QED
    BY <2>1, <2>2
<1>11. \A k \in 1..N : acc[k] = IF pages[k].id = id THEN acc[k - 1] ELSE Append(acc[k - 1], pages[k])
  <2> TAKE k \in 1..N
  <2>1. /\ 1..k \in SUBSET (1..N) /\ k \in 1..k /\ (1..k) \ {k} = 1..k - 1 /\ k \in Nat /\ 1..k # {}
        /\ k \in 0..N /\ k - 1 \in 0..N
    BY <1>1
  <2>2. Max(1..k) = k
    BY <2>1, IntervalMax
  <2>3. it[1..k] = IF pages[k].id = id THEN it[1..k - 1] ELSE Append(it[1..k - 1], pages[k])
    BY <1>9, <2>1, <2>2
  <2>4. acc[k] = it[1..k] /\ acc[k - 1] = it[1..k - 1]
    <3> HIDE DEF N
    <3> QED
      BY <2>1
  <2> HIDE DEF acc, N
  <2> QED
    BY <2>3, <2>4
<1> HIDE DEF acc
<1>12. 0..N \subseteq S
  <2>1. 0 \in S
    BY <1>1, <1>2, <1>10
  <2>2. ASSUME NEW k \in 1..N, k - 1 \in S
        PROVE  k \in S
    <3>1. k \in 0..N /\ acc[k - 1] \in X
      BY <1>1, <2>2
    <3>2. step[<<acc[k - 1], k>>] \in X
      BY <1>3, <3>1 DEF IsStep
    <3>3. acc[k] = step[<<acc[k - 1], k>>]
      BY <1>4, <1>11, <3>1
    <3> QED
      BY <3>1, <3>2, <3>3
  <2> HIDE DEF S
  <2> QED
    BY <1>1, <2>1, <2>2, Induction, Zenon
<1>13. acc \in [0..N -> X]
  <2>1. \A k \in 0..N : acc[k] \in X
    BY <1>12
  <2> HIDE DEF S, N
  <2> QED
    BY <1>10, <2>1
<1> QED
  BY <1>1, <1>5, <1>10, <1>11, <1>13 DEF X

LEMMA PagesButTyped ==
  ASSUME NEW pages \in Seq(PageRecord), NEW id \in Int
  PROVE  PagesBut(pages, id) \in Seq(PageRecord)
<1>1. PICK acc \in [0..Len(pages) -> Seq(PageRecord)] : PagesBut(pages, id) = acc[Len(pages)]
  BY PagesButSteps
<1>2. Len(pages) \in 0..Len(pages)
  OBVIOUS
<1> QED
  BY <1>1, <1>2

(* A page that is added at the end and taken away again leaves the others.  *)
LEMMA PagesButAdded ==
  ASSUME NEW pages \in Seq(PageRecord), NEW p \in PageRecord, \A i \in 1..Len(pages) : pages[i].id # p.id
  PROVE  PagesBut(Append(pages, p), p.id) = pages
<1> DEFINE more == Append(pages, p)
           N == Len(pages)
<1>1. more \in Seq(PageRecord) /\ Len(more) = N + 1 /\ N \in Nat /\ p.id \in Int /\ more[N + 1] = p
  BY DEF PageRecord
<1>2. \A i \in 1..N : more[i] = pages[i]
  OBVIOUS
<1> HIDE DEF more
<1>3. PICK acc \in [0..Len(more) -> Seq(PageRecord)] :
           /\ acc[0] = <<>> /\ PagesBut(more, p.id) = acc[Len(more)]
           /\ \A k \in 1..Len(more) : acc[k] = IF more[k].id = p.id THEN acc[k - 1] ELSE Append(acc[k - 1], more[k])
  BY <1>1, PagesButSteps
<1> DEFINE S == {k \in 0..N : Len(acc[k]) = k /\ \A i \in 1..k : acc[k][i] = pages[i]}
<1>4. 0 \in S
  <2>1. 0 \in 0..N /\ Len(acc[0]) = 0 /\ 1..0 = {}
    BY <1>1, <1>3
  <2> QED
    BY <2>1
<1>5. ASSUME NEW k \in 1..N, k - 1 \in S
      PROVE  k \in S
  <2>1. k \in 1..Len(more) /\ k - 1 \in 0..Len(more) /\ k \in 0..N
    BY <1>1
  <2>2. acc[k - 1] \in Seq(PageRecord) /\ Len(acc[k - 1]) = k - 1 /\ \A i \in 1..k - 1 : acc[k - 1][i] = pages[i]
    BY <1>3, <1>5, <2>1
  <2>3. acc[k] = Append(acc[k - 1], pages[k]) /\ pages[k] \in PageRecord
    <3>1. more[k] = pages[k] /\ pages[k].id # p.id /\ pages[k] \in PageRecord
      BY <1>2
    <3>2. acc[k] = IF more[k].id = p.id THEN acc[k - 1] ELSE Append(acc[k - 1], more[k])
      BY <1>3, <2>1
    <3> QED
      BY <3>1, <3>2
  <2> DEFINE a == acc[k - 1]
             q == pages[k]
  <2>4. a \in Seq(PageRecord) /\ Len(a) = k - 1 /\ \A i \in 1..k - 1 : a[i] = pages[i]
    BY <2>2
  <2>5. acc[k] = Append(a, q) /\ q \in PageRecord /\ q = pages[k]
    BY <2>3
  <2> HIDE DEF a, q
  <2>6. Len(Append(a, q)) = k /\ \A i \in 1..k : Append(a, q)[i] = pages[i]
    <3>1. \A i \in 1..k : i = k \/ i \in 1..k - 1
      BY <1>1
    <3>2. k \in Nat /\ Len(Append(a, q)) = k /\ Append(a, q)[k] = q /\ \A i \in 1..k - 1 : Append(a, q)[i] = a[i]
      BY <1>1, <2>4, <2>5
    <3> QED
      BY <2>4, <2>5, <3>1, <3>2
  <2> QED
    BY <2>1, <2>5, <2>6
<1>6. N \in S
  <2> HIDE DEF S
  <2>1. 0..N \subseteq S
    BY <1>1, <1>4, <1>5, Induction, Zenon
  <2> QED
    BY <1>1, <2>1
<1>7. acc[N] = pages
  <2>1. acc[N] \in Seq(PageRecord) /\ Len(acc[N]) = N /\ \A i \in 1..N : acc[N][i] = pages[i]
    BY <1>1, <1>3, <1>6
  <2> QED
    BY <2>1, SeqEqual
<1>8. acc[N + 1] = acc[N]
  <2>1. N + 1 \in 1..Len(more) /\ (N + 1) - 1 = N
    BY <1>1
  <2> QED
    BY <1>1, <1>3, <2>1
<1> QED
  BY <1>1, <1>3, <1>7, <1>8 DEF more

Commands == ({"component.create"} \X DefinitionRecord) \cup ({"page.create"} \X PageRecord)
            \cup ({"component.delete", "page.delete"} \X Int)

LEMMA RemovedIs ==
  ASSUME NEW V, NEW f \in Maps(V), NEW k
  PROVE  [x \in DOMAIN f \ {k} |-> f[x]] \in Maps(V)
<1>1. f \in [DOMAIN f -> V] /\ DOMAIN f \subseteq Int /\ IsFiniteSet(DOMAIN f)
  BY MapsAre DEF IsMap
<1>2. IsFiniteSet(DOMAIN f \ {k})
  BY <1>1, FS_Difference
<1> DEFINE g == [x \in DOMAIN f \ {k} |-> f[x]]
<1>3. g \in [DOMAIN g -> V] /\ DOMAIN g = DOMAIN f \ {k}
  BY <1>1
<1>4. IsMap(g, V)
  <2> HIDE DEF g
  <2> QED
    BY <1>1, <1>2, <1>3 DEF IsMap
<1> QED
  BY <1>4, MapsAre

LEMMA CarriedTyped ==
  ASSUME NEW d \in DocumentRecords, NEW command \in Commands
  PROVE  Carried(d, command) \in DocumentRecords
<1>1. CASE command \in {"component.create"} \X DefinitionRecord
  <2>1. command[1] = "component.create" /\ command[2] \in DefinitionRecord /\ command[2].id \in Int
    BY <1>1 DEF DefinitionRecord
  <2>2. d.components \in Maps(DefinitionRecord)
    BY DEF DocumentRecords
  <2>3. Over(Entry(command[2].id, command[2]), d.components) \in Maps(DefinitionRecord)
    BY <2>1, <2>2, EntryOver
  <2>4. Carried(d, command) = [d EXCEPT !.components = Over(Entry(command[2].id, command[2]), d.components)]
    BY <2>1 DEF Carried
  <2> QED
    BY <2>3, <2>4 DEF DocumentRecords
<1>2. CASE command \in {"page.create"} \X PageRecord
  <2>1. command[1] = "page.create" /\ command[2] \in PageRecord
    BY <1>2
  <2>2. Carried(d, command) = [d EXCEPT !.pages = Append(d.pages, command[2])]
    BY <2>1 DEF Carried
  <2>3. Append(d.pages, command[2]) \in Seq(PageRecord)
    BY <2>1 DEF DocumentRecords
  <2> QED
    BY <2>2, <2>3 DEF DocumentRecords
<1>3. CASE command \in {"component.delete", "page.delete"} \X Int
  <2>1. command[1] \in {"component.delete", "page.delete"} /\ command[2] \in Int
    BY <1>3
  <2>2. CASE command[1] = "component.delete"
    <3> DEFINE rest == [c \in DOMAIN d.components \ {command[2]} |-> d.components[c]]
    <3>1. d.components \in Maps(DefinitionRecord)
      BY DEF DocumentRecords
    <3>2. rest \in Maps(DefinitionRecord)
      BY <3>1, RemovedIs
    <3>3. Carried(d, command) = [d EXCEPT !.components = rest]
      BY <2>2 DEF Carried
    <3> HIDE DEF rest
    <3> QED
      BY <3>2, <3>3 DEF DocumentRecords
  <2>3. CASE command[1] = "page.delete"
    <3>1. PagesBut(d.pages, command[2]) \in Seq(PageRecord)
      BY <2>1, PagesButTyped DEF DocumentRecords
    <3>2. Carried(d, command) = [d EXCEPT !.pages = PagesBut(d.pages, command[2])]
      BY <2>3 DEF Carried
    <3> QED
      BY <3>1, <3>2 DEF DocumentRecords
  <2> QED
    BY <2>1, <2>2, <2>3
<1> QED
  BY <1>1, <1>2, <1>3 DEF Commands

(* A batch, command by command; from the first refused one on it is Missing.*)
LEMMA BatchSteps ==
  ASSUME NEW d \in DocumentRecords, NEW commands \in Seq(Commands)
  PROVE  \E acc \in [0..Len(commands) -> ({Missing} \cup DocumentRecords)] :
           /\ acc[0] = d /\ applyBatch(d, commands) = acc[Len(commands)]
           /\ \A k \in 1..Len(commands) : acc[k] = IF acc[k - 1] # Missing /\ Allowed(acc[k - 1], commands[k]) THEN Carried(acc[k - 1], commands[k]) ELSE Missing
<1> DEFINE N == Len(commands)
           X == ({Missing} \cup DocumentRecords)
           step == [a \in X \X (1..N) |-> IF a[1] # Missing /\ Allowed(a[1], commands[a[2]]) THEN Carried(a[1], commands[a[2]]) ELSE Missing]
           it == CHOOSE it : it = [s \in SUBSET (DOMAIN commands) |->
                    IF s = {} THEN d
                    ELSE IF it[s \ {Max(s)}] # Missing /\ Allowed(it[s \ {Max(s)}], commands[Max(s)]) THEN Carried(it[s \ {Max(s)}], commands[Max(s)]) ELSE Missing]
<1>1. N \in Nat /\ DOMAIN commands = 1..N
  OBVIOUS
<1>2. d \in X
  OBVIOUS
<1>3. IsStep(step, N, X)
  <2>1. \A a \in X, k \in 1..N : (IF a # Missing /\ Allowed(a, commands[k]) THEN Carried(a, commands[k]) ELSE Missing) \in X
    BY CarriedTyped
  <2> HIDE DEF X
  <2> QED
    BY <2>1 DEF IsStep
<1>4. \A a \in X, k \in 1..N : step[<<a, k>>] = IF a # Missing /\ Allowed(a, commands[k]) THEN Carried(a, commands[k]) ELSE Missing
  <2> HIDE DEF X
  <2> QED
    OBVIOUS
<1>5. applyBatch(d, commands) = it[DOMAIN commands]
  BY DEF FoldLeft, MapThenFoldSet, applyBatch
<1> HIDE DEF step, X
<1>6. PICK jt \in [SUBSET (1..N) -> X] :
           \A s \in SUBSET (1..N) : jt[s] = IF s = {} THEN d ELSE step[<<jt[s \ {Max(s)}], Max(s)>>]
  <2> DEFINE base == d
  <2>1. base \in X
    BY <1>2
  <2> HIDE DEF N, base
  <2>2. \E jt \in [SUBSET (1..N) -> X] :
           \A s \in SUBSET (1..N) : jt[s] = IF s = {} THEN base ELSE step[<<jt[s \ {Max(s)}], Max(s)>>]
    <3>1. PICK jt : IsTable(jt, N, X, base, step)
      BY <1>1, <2>1, <1>3, FoldExists
    <3> QED
      BY <3>1 DEF IsTable
  <2> QED
    BY <2>2 DEF base
<1>7. jt = [s \in SUBSET (1..N) |->
              IF s = {} THEN d
              ELSE IF jt[s \ {Max(s)}] # Missing /\ Allowed(jt[s \ {Max(s)}], commands[Max(s)]) THEN Carried(jt[s \ {Max(s)}], commands[Max(s)]) ELSE Missing]
  <2>1. ASSUME NEW s \in SUBSET (1..N), s # {}
        PROVE  jt[s] = IF jt[s \ {Max(s)}] # Missing /\ Allowed(jt[s \ {Max(s)}], commands[Max(s)]) THEN Carried(jt[s \ {Max(s)}], commands[Max(s)]) ELSE Missing
    <3>1. Max(s) \in 1..N /\ s \ {Max(s)} \in SUBSET (1..N)
      BY <1>1, <2>1, MaxIn
    <3>2. jt[s \ {Max(s)}] \in X
      BY <3>1
    <3>3. jt[s] = step[<<jt[s \ {Max(s)}], Max(s)>>]
      BY <1>6, <2>1
    <3> HIDE DEF N
    <3> QED
      BY <1>4, <3>1, <3>2, <3>3
  <2>2. \A s \in SUBSET (1..N) : jt[s] = IF s = {} THEN d
              ELSE IF jt[s \ {Max(s)}] # Missing /\ Allowed(jt[s \ {Max(s)}], commands[Max(s)]) THEN Carried(jt[s \ {Max(s)}], commands[Max(s)]) ELSE Missing
    <3> TAKE s \in SUBSET (1..N)
    <3>1. CASE s = {}
      BY <1>6, <3>1
    <3>2. CASE s # {}
      BY <2>1, <3>2
    <3> QED
      BY <3>1, <3>2
  <2> HIDE DEF N
  <2> QED
    BY <2>2
<1>8. it = [s \in SUBSET (1..N) |->
              IF s = {} THEN d
              ELSE IF it[s \ {Max(s)}] # Missing /\ Allowed(it[s \ {Max(s)}], commands[Max(s)]) THEN Carried(it[s \ {Max(s)}], commands[Max(s)]) ELSE Missing]
  <2> HIDE DEF N
  <2> QED
    BY <1>1, <1>7
<1> HIDE DEF it
<1>9. \A s \in SUBSET (1..N) : it[s] = IF s = {} THEN d ELSE IF it[s \ {Max(s)}] # Missing /\ Allowed(it[s \ {Max(s)}], commands[Max(s)]) THEN Carried(it[s \ {Max(s)}], commands[Max(s)]) ELSE Missing
  <2> HIDE DEF N
  <2> QED
    BY <1>8
<1> DEFINE acc == [k \in 0..N |-> it[1..k]]
           S == {k \in 0..N : acc[k] \in X}
<1>10. acc[0] = d /\ acc[N] = it[1..N] /\ DOMAIN acc = 0..N /\ acc = [k \in 0..N |-> acc[k]]
  <2>1. 1..0 = {} /\ {} \in SUBSET (1..N) /\ 0 \in 0..N /\ N \in 0..N
    BY <1>1
  <2>2. it[{}] = d
    BY <1>9, <2>1
  <2> HIDE DEF N
  <2> QED
    BY <2>1, <2>2
<1>11. \A k \in 1..N : acc[k] = IF acc[k - 1] # Missing /\ Allowed(acc[k - 1], commands[k]) THEN Carried(acc[k - 1], commands[k]) ELSE Missing
  <2> TAKE k \in 1..N
  <2>1. /\ 1..k \in SUBSET (1..N) /\ k \in 1..k /\ (1..k) \ {k} = 1..k - 1 /\ k \in Nat /\ 1..k # {}
        /\ k \in 0..N /\ k - 1 \in 0..N
    BY <1>1
  <2>2. Max(1..k) = k
    BY <2>1, IntervalMax
  <2>3. it[1..k] = IF it[1..k - 1] # Missing /\ Allowed(it[1..k - 1], commands[k]) THEN Carried(it[1..k - 1], commands[k]) ELSE Missing
    BY <1>9, <2>1, <2>2
  <2>4. acc[k] = it[1..k] /\ acc[k - 1] = it[1..k - 1]
    <3> HIDE DEF N
    <3> QED
      BY <2>1
  <2> HIDE DEF acc, N
  <2> QED
    BY <2>3, <2>4
<1> HIDE DEF acc
<1>12. 0..N \subseteq S
  <2>1. 0 \in S
    BY <1>1, <1>2, <1>10
  <2>2. ASSUME NEW k \in 1..N, k - 1 \in S
        PROVE  k \in S
    <3>1. k \in 0..N /\ acc[k - 1] \in X
      BY <1>1, <2>2
    <3>2. step[<<acc[k - 1], k>>] \in X
      BY <1>3, <3>1 DEF IsStep
    <3>3. acc[k] = step[<<acc[k - 1], k>>]
      BY <1>4, <1>11, <3>1
    <3> QED
      BY <3>1, <3>2, <3>3
  <2> HIDE DEF S
  <2> QED
    BY <1>1, <2>1, <2>2, Induction, Zenon
<1>13. acc \in [0..N -> X]
  <2>1. \A k \in 0..N : acc[k] \in X
    BY <1>12
  <2> HIDE DEF S, N
  <2> QED
    BY <1>10, <2>1
<1> QED
  BY <1>1, <1>5, <1>10, <1>11, <1>13 DEF X

-----------------------------------------------------------------------------
(* Trees in a row: where each begins.                                       *)

Trees == Seq(Seq(NodeRecord))

(* A sum, term by term.                                                     *)
LEMMA SumSteps ==
  ASSUME NEW lens \in Seq(Nat)
  PROVE  \E acc \in [0..Len(lens) -> Nat] :
           /\ acc[0] = 0 /\ FoldLeft(+, 0, lens) = acc[Len(lens)]
           /\ \A k \in 1..Len(lens) : acc[k] = acc[k - 1] + lens[k]
<1> DEFINE N == Len(lens)
           X == Nat
           step == [a \in X \X (1..N) |-> a[1] + lens[a[2]]]
           it == CHOOSE it : it = [s \in SUBSET (DOMAIN lens) |->
                    IF s = {} THEN 0
                    ELSE it[s \ {Max(s)}] + lens[Max(s)]]
<1>1. N \in Nat /\ DOMAIN lens = 1..N
  OBVIOUS
<1>2. 0 \in X
  OBVIOUS
<1>3. IsStep(step, N, X)
  <2>1. \A a \in X, k \in 1..N : (a + lens[k]) \in X
    OBVIOUS
  <2> HIDE DEF X
  <2> QED
    BY <2>1 DEF IsStep
<1>4. \A a \in X, k \in 1..N : step[<<a, k>>] = a + lens[k]
  <2> HIDE DEF X
  <2> QED
    OBVIOUS
<1>5. FoldLeft(+, 0, lens) = it[DOMAIN lens]
  BY DEF FoldLeft, MapThenFoldSet
<1> HIDE DEF step, X
<1>6. PICK jt \in [SUBSET (1..N) -> X] :
           \A s \in SUBSET (1..N) : jt[s] = IF s = {} THEN 0 ELSE step[<<jt[s \ {Max(s)}], Max(s)>>]
  <2> DEFINE base == 0
  <2>1. base \in X
    BY <1>2
  <2> HIDE DEF N, base
  <2>2. \E jt \in [SUBSET (1..N) -> X] :
           \A s \in SUBSET (1..N) : jt[s] = IF s = {} THEN base ELSE step[<<jt[s \ {Max(s)}], Max(s)>>]
    <3>1. PICK jt : IsTable(jt, N, X, base, step)
      BY <1>1, <2>1, <1>3, FoldExists
    <3> QED
      BY <3>1 DEF IsTable
  <2> QED
    BY <2>2 DEF base
<1>7. jt = [s \in SUBSET (1..N) |->
              IF s = {} THEN 0
              ELSE jt[s \ {Max(s)}] + lens[Max(s)]]
  <2>1. ASSUME NEW s \in SUBSET (1..N), s # {}
        PROVE  jt[s] = jt[s \ {Max(s)}] + lens[Max(s)]
    <3>1. Max(s) \in 1..N /\ s \ {Max(s)} \in SUBSET (1..N)
      BY <1>1, <2>1, MaxIn
    <3>2. jt[s \ {Max(s)}] \in X
      BY <3>1
    <3>3. jt[s] = step[<<jt[s \ {Max(s)}], Max(s)>>]
      BY <1>6, <2>1
    <3> HIDE DEF N
    <3> QED
      BY <1>4, <3>1, <3>2, <3>3
  <2>2. \A s \in SUBSET (1..N) : jt[s] = IF s = {} THEN 0
              ELSE jt[s \ {Max(s)}] + lens[Max(s)]
    <3> TAKE s \in SUBSET (1..N)
    <3>1. CASE s = {}
      BY <1>6, <3>1
    <3>2. CASE s # {}
      BY <2>1, <3>2
    <3> QED
      BY <3>1, <3>2
  <2> HIDE DEF N
  <2> QED
    BY <2>2
<1>8. it = [s \in SUBSET (1..N) |->
              IF s = {} THEN 0
              ELSE it[s \ {Max(s)}] + lens[Max(s)]]
  <2> HIDE DEF N
  <2> QED
    BY <1>1, <1>7
<1> HIDE DEF it
<1>9. \A s \in SUBSET (1..N) : it[s] = IF s = {} THEN 0 ELSE it[s \ {Max(s)}] + lens[Max(s)]
  <2> HIDE DEF N
  <2> QED
    BY <1>8
<1> DEFINE acc == [k \in 0..N |-> it[1..k]]
           S == {k \in 0..N : acc[k] \in X}
<1>10. acc[0] = 0 /\ acc[N] = it[1..N] /\ DOMAIN acc = 0..N /\ acc = [k \in 0..N |-> acc[k]]
  <2>1. 1..0 = {} /\ {} \in SUBSET (1..N) /\ 0 \in 0..N /\ N \in 0..N
    BY <1>1
  <2>2. it[{}] = 0
    BY <1>9, <2>1
  <2> HIDE DEF N
  <2> QED
    BY <2>1, <2>2
<1>11. \A k \in 1..N : acc[k] = acc[k - 1] + lens[k]
  <2> TAKE k \in 1..N
  <2>1. /\ 1..k \in SUBSET (1..N) /\ k \in 1..k /\ (1..k) \ {k} = 1..k - 1 /\ k \in Nat /\ 1..k # {}
        /\ k \in 0..N /\ k - 1 \in 0..N
    <3> HIDE DEF N
    <3>1. k \in Nat /\ k >= 1 /\ k <= N /\ N \in Nat
      BY <1>1
    <3>2. (1..k) \ {k} = 1..k - 1
      BY <3>1
    <3>3. 1..k \in SUBSET (1..N)
      BY <3>1
    <3> QED
      BY <3>1, <3>2, <3>3, SMTT(60)
  <2>2. Max(1..k) = k
    BY <2>1, IntervalMax
  <2>3. it[1..k] = it[1..k - 1] + lens[k]
    BY <1>9, <2>1, <2>2
  <2>4. acc[k] = it[1..k] /\ acc[k - 1] = it[1..k - 1]
    <3> HIDE DEF N
    <3> QED
      BY <2>1
  <2> HIDE DEF acc, N
  <2> QED
    BY <2>3, <2>4
<1> HIDE DEF acc
<1>12. 0..N \subseteq S
  <2>1. 0 \in S
    BY <1>1, <1>2, <1>10
  <2>2. ASSUME NEW k \in 1..N, k - 1 \in S
        PROVE  k \in S
    <3>1. k \in 0..N /\ acc[k - 1] \in X
      BY <1>1, <2>2
    <3>2. step[<<acc[k - 1], k>>] \in X
      BY <1>3, <3>1 DEF IsStep
    <3>3. acc[k] = step[<<acc[k - 1], k>>]
      BY <1>4, <1>11, <3>1
    <3> QED
      BY <3>1, <3>2, <3>3
  <2> HIDE DEF S
  <2> QED
    BY <1>1, <2>1, <2>2, Induction, Zenon
<1>13. acc \in [0..N -> X]
  <2>1. \A k \in 0..N : acc[k] \in X
    BY <1>12
  <2> HIDE DEF S, N
  <2> QED
    BY <1>10, <2>1
<1> QED
  BY <1>1, <1>5, <1>10, <1>11, <1>13 DEF X

Before(trees, t) == [i \in 1..t - 1 |-> Len(trees[i])]

LEMMA FirstIdIs ==
  ASSUME NEW trees \in Trees, NEW from \in Int
  PROVE  /\ FirstId(trees, 1, from) = from
         /\ \A t \in 1..Len(trees) : FirstId(trees, t + 1, from) = FirstId(trees, t, from) + Len(trees[t])
         /\ \A t \in 1..Len(trees) + 1 : FirstId(trees, t, from) = from + FirstId(trees, t, 0) /\ FirstId(trees, t, 0) \in Nat
<1> DEFINE N == Len(trees)
           Sum(t) == FoldLeft(+, 0, Before(trees, t))
<1>0. N \in Nat /\ \A t \in 1..N : Len(trees[t]) \in Nat
  BY DEF Trees
<1>1. \A t \in 1..N + 1 : Before(trees, t) \in Seq(Nat) /\ Len(Before(trees, t)) = t - 1
                          /\ \A i \in 1..t - 1 : Before(trees, t)[i] = Len(trees[i])
  <2> TAKE t \in 1..N + 1
  <2>1. t - 1 \in Nat /\ \A i \in 1..t - 1 : Len(trees[i]) \in Nat
    BY <1>0
  <2> QED
    BY <2>1 DEF Before
<1>2. \A t \in 1..N + 1 : \E acc \in [0..t - 1 -> Nat] :
         acc[0] = 0 /\ Sum(t) = acc[t - 1] /\ \A k \in 1..t - 1 : acc[k] = acc[k - 1] + Len(trees[k])
  <2> TAKE t \in 1..N + 1
  <2> DEFINE lens == Before(trees, t)
  <2>1. lens \in Seq(Nat) /\ Len(lens) = t - 1 /\ \A i \in 1..t - 1 : lens[i] = Len(trees[i])
    BY <1>1
  <2>2. Sum(t) = FoldLeft(+, 0, lens)
    OBVIOUS
  <2> HIDE DEF lens, Sum
  <2>3. PICK acc \in [0..Len(lens) -> Nat] :
           /\ acc[0] = 0 /\ FoldLeft(+, 0, lens) = acc[Len(lens)]
           /\ \A k \in 1..Len(lens) : acc[k] = acc[k - 1] + lens[k]
    BY <2>1, SumSteps
  <2> QED
    BY <2>1, <2>2, <2>3
<1> HIDE DEF Sum
<1>3. Sum(1) = 0
  <2>1. 1 \in 1..N + 1 /\ 1 - 1 = 0
    BY <1>0
  <2> QED
    BY <1>2, <2>1
<1>4. ASSUME NEW t \in 1..N
      PROVE  Sum(t + 1) = Sum(t) + Len(trees[t])
  <2>1. t \in 1..N + 1 /\ t + 1 \in 1..N + 1 /\ (t + 1) - 1 = t /\ t - 1 \in Nat /\ t \in 1..t
    BY <1>0
  <2>2. PICK a \in [0..t - 1 -> Nat] : a[0] = 0 /\ Sum(t) = a[t - 1] /\ \A k \in 1..t - 1 : a[k] = a[k - 1] + Len(trees[k])
    BY <1>2, <2>1
  <2>3. PICK b \in [0..t -> Nat] : b[0] = 0 /\ Sum(t + 1) = b[t] /\ \A k \in 1..t : b[k] = b[k - 1] + Len(trees[k])
    BY <1>2, <2>1, ZenonT(60)
  <2> DEFINE S == {k \in 0..t - 1 : a[k] = b[k]}
  <2>4. 0 \in S
    BY <2>1, <2>2, <2>3
  <2>5. ASSUME NEW k \in 1..t - 1, k - 1 \in S
        PROVE  k \in S
    <3>1. k \in 1..t /\ k \in 0..t - 1
      OBVIOUS
    <3>2. a[k] = a[k - 1] + Len(trees[k]) /\ b[k] = b[k - 1] + Len(trees[k]) /\ a[k - 1] = b[k - 1]
      BY <2>2, <2>3, <2>5, <3>1
    <3> QED
      BY <3>1, <3>2
  <2>6. t - 1 \in S
    <3> HIDE DEF S
    <3>1. 0..t - 1 \subseteq S
      BY <2>1, <2>4, <2>5, Induction, Zenon
    <3> QED
      BY <2>1, <3>1
  <2> QED
    BY <2>1, <2>2, <2>3, <2>6
<1>5. \A t \in 1..N + 1 : Sum(t) \in Nat
  <2> TAKE t \in 1..N + 1
  <2>1. t - 1 \in 0..t - 1
    BY <1>0
  <2> QED
    BY <1>2, <2>1
<1>6. \A t : \A n \in Int : FirstId(trees, t, n) = n + Sum(t)
  BY DEF FirstId, Sum, Before
<1>7. \A t \in 1..N : t \in 1..N + 1 /\ t + 1 \in 1..N + 1
  BY <1>0
<1>8. 1 \in 1..N + 1
  BY <1>0
<1> QED
  BY <1>0, <1>3, <1>4, <1>5, <1>6, <1>7, <1>8

(* A later tree begins where every earlier one has ended.                   *)
LEMMA FirstIdGrows ==
  ASSUME NEW trees \in Trees, NEW t \in 1..Len(trees), NEW u \in 1..Len(trees) + 1, t < u
  PROVE  FirstId(trees, t, 0) + Len(trees[t]) <= FirstId(trees, u, 0)
<1> DEFINE N == Len(trees)
           F(x) == FirstId(trees, x, 0)
           S == {k \in 0..N - t : F(t) + Len(trees[t]) <= F(t + 1 + k)}
<1>0. N \in Nat /\ \A x \in 1..N : Len(trees[x]) \in Nat
  BY DEF Trees
<1>1. /\ \A x \in 1..N : F(x + 1) = F(x) + Len(trees[x])
      /\ \A x \in 1..N + 1 : F(x) \in Nat
  <2>1. 0 \in Int
    OBVIOUS
  <2> QED
    BY <2>1, FirstIdIs
<1> HIDE DEF F
<1>2. 0 \in S
  BY <1>0, <1>1
<1>3. ASSUME NEW k \in 1..N - t, k - 1 \in S
      PROVE  k \in S
  <2>1. t + 1 + (k - 1) = t + k /\ t + k \in 1..N /\ t + k \in 1..N + 1 /\ (t + k) + 1 = t + 1 + k /\ t + 1 + k \in 1..N + 1
    BY <1>0
  <2>2. F(t + 1 + k) = F(t + k) + Len(trees[t + k]) /\ F(t + k) \in Nat
    BY <1>1, <2>1
  <2>3. F(t) + Len(trees[t]) <= F(t + k) /\ F(t) \in Nat /\ Len(trees[t]) \in Nat /\ Len(trees[t + k]) \in Nat
    BY <1>0, <1>1, <1>3, <2>1
  <2>4. F(t) + Len(trees[t]) <= F(t + 1 + k)
    BY <2>2, <2>3
  <2> QED
    BY <2>4
<1>4. 0..N - t \subseteq S
  <2> HIDE DEF S
  <2>1. N - t \in Nat
    BY <1>0
  <2> QED
    BY <1>2, <1>3, <2>1, Induction, Zenon
<1>5. u - (t + 1) \in 0..N - t /\ t + 1 + (u - (t + 1)) = u
  BY <1>0
<1>6. u - (t + 1) \in S
  BY <1>4, <1>5
<1>7. F(t) + Len(trees[t]) <= F(u)
  BY <1>5, <1>6
<1> QED
  BY <1>7 DEF F

LEMMA FlattenSteps ==
  ASSUME NEW trees \in Trees
  PROVE  \E acc \in [0..Len(trees) -> Seq(NodeRecord)] :
           /\ acc[0] = <<>> /\ FlattenSeq(trees) = acc[Len(trees)]
           /\ \A k \in 1..Len(trees) : acc[k] = acc[k - 1] \o trees[k]
<1> DEFINE N == Len(trees)
           X == Seq(NodeRecord)
           base == <<>>
           step == [a \in X \X (1..N) |-> a[1] \o trees[a[2]]]
           flatten == CHOOSE flatten : flatten = [i \in 1..N |-> IF i = 1 THEN trees[i] ELSE flatten[i - 1] \o trees[i]]
<1>1. N \in Nat /\ base \in X /\ \A k \in 1..N : trees[k] \in X
  BY DEF Trees
<1>2. IsStep(step, N, X)
  <2>1. \A a \in X, k \in 1..N : a \o trees[k] \in X
    BY <1>1
  <2> HIDE DEF X
  <2> QED
    BY <2>1 DEF IsStep
<1>3. \A a \in X, k \in 1..N : step[<<a, k>>] = a \o trees[k]
  <2> HIDE DEF X
  <2> QED
    OBVIOUS
<1> HIDE DEF step
<1>4. PICK f : IsRun(f, N, X, base, step)
  <2> HIDE DEF N, X, base
  <2> QED
    BY <1>1, <1>2, StepsExist
<1>5. f \in [0..N -> X] /\ f[0] = <<>> /\ \A k \in 1..N : f[k] = f[k - 1] \o trees[k]
  <2>1. f \in [0..N -> X] /\ f[0] = <<>> /\ \A k \in 1..N : f[k] = step[<<f[k - 1], k>>]
    BY <1>4 DEF IsRun
  <2>2. \A k \in 1..N : k - 1 \in 0..N
    BY <1>1
  <2> HIDE DEF X
  <2> QED
    BY <1>3, <2>1, <2>2
<1>8. N # 0 => f[1] = trees[1]
  <2>1. HAVE N # 0
  <2>2. 1 \in 1..N /\ 1 - 1 = 0
    BY <1>1, <2>1
  <2>3. f[1] = <<>> \o trees[1] /\ trees[1] \in Seq(NodeRecord)
    <3> HIDE DEF N
    <3> QED
      BY <1>1, <1>5, <2>2
  <2> QED
    BY <2>3, ConcatEmptySeq
<1>6. CASE N = 0
  <2>1. trees = <<>>
    BY <1>6 DEF Trees
  <2>2. FlattenSeq(trees) = <<>>
    BY <2>1 DEF FlattenSeq
  <2> QED
    BY <1>5, <1>6, <2>2
<1>7. CASE N # 0
  <2>1. FlattenSeq(trees) = flatten[N]
    BY <1>7 DEF FlattenSeq
  <2> DEFINE g == [i \in 1..N |-> f[i]]
  <2>2. g = [i \in 1..N |-> IF i = 1 THEN trees[i] ELSE g[i - 1] \o trees[i]]
    <3>1. ASSUME NEW i \in 1..N
          PROVE  g[i] = IF i = 1 THEN trees[i] ELSE g[i - 1] \o trees[i]
      <4>1. CASE i = 1
        <5> QED
          BY <1>7, <1>8, <4>1
      <4>2. CASE i # 1
        <5>1. i - 1 \in 1..N
          BY <1>1, <4>2
        <5> QED
          BY <1>5, <4>2, <5>1
      <4> QED
        BY <4>1, <4>2
    <3>2. g = [i \in 1..N |-> g[i]]
      OBVIOUS
    <3> HIDE DEF g
    <3> QED
      BY <3>1, <3>2
  <2>3. flatten = [i \in 1..N |-> IF i = 1 THEN trees[i] ELSE flatten[i - 1] \o trees[i]]
    <3> HIDE DEF g, N
    <3> QED
      BY <2>2
  <2> HIDE DEF flatten, g
  <2> DEFINE S == {k \in 0..N : k = 0 \/ flatten[k] = f[k]}
  <2>4. 0 \in S
    BY <1>1
  <2>5. ASSUME NEW k \in 1..N, k - 1 \in S
        PROVE  k \in S
    <3>1. flatten[k] = IF k = 1 THEN trees[k] ELSE flatten[k - 1] \o trees[k]
      <4> HIDE DEF N
      <4> QED
        BY <2>3
    <3>2. CASE k = 1
      <4> QED
        BY <1>7, <1>8, <3>1, <3>2
    <3>3. CASE k # 1
      <4>1. flatten[k - 1] = f[k - 1]
        BY <2>5, <3>3
      <4>2. f[k] = f[k - 1] \o trees[k]
        BY <1>5
      <4>3. k \in 0..N
        <5> HIDE DEF N
        <5> QED
          BY <1>1
      <4> QED
        BY <3>1, <3>3, <4>1, <4>2, <4>3
    <3> QED
      BY <3>2, <3>3
  <2>6. N \in S
    <3> HIDE DEF S
    <3>1. 0..N \subseteq S
      BY <1>1, <2>4, <2>5, Induction, Zenon
    <3> QED
      BY <1>1, <3>1
  <2>7. flatten[N] = f[N]
    BY <1>7, <2>6
  <2> QED
    BY <1>5, <2>1, <2>7
<1> QED
  BY <1>6, <1>7

(* Where a node of a tree is in the row, and that there are no others.      *)
LEMMA FlattenIs ==
  ASSUME NEW trees \in Trees
  PROVE  /\ FlattenSeq(trees) \in Seq(NodeRecord)
         /\ Len(FlattenSeq(trees)) = FirstId(trees, Len(trees) + 1, 0)
         /\ \A t \in 1..Len(trees) : \A i \in 1..Len(trees[t]) :
              /\ FirstId(trees, t, 0) + i \in 1..Len(FlattenSeq(trees))
              /\ FlattenSeq(trees)[FirstId(trees, t, 0) + i] = trees[t][i]
         /\ \A j \in 1..Len(FlattenSeq(trees)) :
              \E t \in 1..Len(trees) : \E i \in 1..Len(trees[t]) : j = FirstId(trees, t, 0) + i
<1> DEFINE N == Len(trees)
           F(t) == FirstId(trees, t, 0)
<1>0. N \in Nat /\ \A t \in 1..N : trees[t] \in Seq(NodeRecord) /\ Len(trees[t]) \in Nat
  BY DEF Trees
<1>1. /\ F(1) = 0
      /\ \A t \in 1..N : F(t + 1) = F(t) + Len(trees[t])
      /\ \A t \in 1..N + 1 : F(t) \in Nat
  BY FirstIdIs
<1> HIDE DEF F
<1>2. PICK acc \in [0..N -> Seq(NodeRecord)] :
         /\ acc[0] = <<>> /\ FlattenSeq(trees) = acc[N]
         /\ \A k \in 1..N : acc[k] = acc[k - 1] \o trees[k]
  BY FlattenSteps
<1> DEFINE Placed(k) == /\ Len(acc[k]) = F(k + 1)
                        /\ \A t \in 1..k : \A i \in 1..Len(trees[t]) :
                             F(t) + i \in 1..F(k + 1) /\ acc[k][F(t) + i] = trees[t][i]
                        /\ \A j \in 1..F(k + 1) : \E t \in 1..k : \E i \in 1..Len(trees[t]) : j = F(t) + i
           S == {k \in 0..N : Placed(k)}
<1>3. 0 \in S
  <2>1. 0 \in 0..N /\ Len(acc[0]) = 0 /\ F(0 + 1) = 0 /\ 1..0 = {}
    BY <1>0, <1>1, <1>2
  <2> QED
    BY <2>1
<1>4. ASSUME NEW k \in 1..N, k - 1 \in S
      PROVE  k \in S
  <2> DEFINE a == acc[k - 1]
             b == trees[k]
  <2>1. (k - 1) + 1 = k /\ k - 1 \in 0..N /\ k \in 0..N /\ k \in 1..N + 1 /\ k + 1 \in 1..N + 1
    BY <1>0
  <2>2. Placed(k - 1)
    BY <1>4
  <2>3. a \in Seq(NodeRecord) /\ b \in Seq(NodeRecord) /\ acc[k] = a \o b
    BY <1>0, <1>2, <2>1
  <2>4. Len(a) = F(k) /\ F(k + 1) = F(k) + Len(b) /\ F(k) \in Nat /\ Len(b) \in Nat
    BY <1>0, <1>1, <2>1, <2>2
  <2>5. \A t \in 1..k - 1 : \A i \in 1..Len(trees[t]) : F(t) + i \in 1..F(k) /\ a[F(t) + i] = trees[t][i]
    BY <2>1, <2>2
  <2>6. \A j \in 1..F(k) : \E t \in 1..k - 1 : \E i \in 1..Len(trees[t]) : j = F(t) + i
    BY <2>1, <2>2
  <2> HIDE DEF a, b, Placed
  <2>7. /\ Len(a \o b) = F(k + 1)
        /\ \A j \in 1..F(k + 1) : (a \o b)[j] = IF j <= F(k) THEN a[j] ELSE b[j - F(k)]
    BY <2>3, <2>4, ConcatProperties
  <2>8. \A t \in 1..k : \A i \in 1..Len(trees[t]) : F(t) + i \in 1..F(k + 1) /\ acc[k][F(t) + i] = trees[t][i]
    <3> TAKE t \in 1..k
    <3> TAKE i \in 1..Len(trees[t])
    <3>1. CASE t = k
      <4>1. trees[t] = b
        BY <3>1 DEF b
      <4>2. F(k) + i \in 1..F(k + 1) /\ ~(F(k) + i <= F(k)) /\ (F(k) + i) - F(k) = i
        BY <2>4, <4>1
      <4> QED
        BY <2>3, <2>7, <3>1, <4>1, <4>2
    <3>2. CASE t # k
      <4>1. t \in 1..k - 1
        BY <3>2
      <4>2. F(t) + i \in 1..F(k) /\ a[F(t) + i] = trees[t][i]
        BY <2>5, <4>1
      <4>3. F(t) + i \in 1..F(k + 1) /\ F(t) + i <= F(k)
        BY <2>4, <4>2
      <4> QED
        BY <2>3, <2>7, <4>2, <4>3
    <3> QED
      BY <3>1, <3>2
  <2>9. \A j \in 1..F(k + 1) : \E t \in 1..k : \E i \in 1..Len(trees[t]) : j = F(t) + i
    <3> TAKE j \in 1..F(k + 1)
    <3>1. CASE j \in 1..F(k)
      <4>1. PICK t \in 1..k - 1 : \E i \in 1..Len(trees[t]) : j = F(t) + i
        BY <2>6, <3>1
      <4>2. t \in 1..k
        OBVIOUS
      <4> QED
        BY <4>1, <4>2
    <3>2. CASE j \notin 1..F(k)
      <4>1. j - F(k) \in 1..Len(b) /\ j = F(k) + (j - F(k)) /\ k \in 1..k
        BY <2>4, <3>2
      <4> QED
        BY <4>1 DEF b
    <3> QED
      BY <3>1, <3>2
  <2>10. Placed(k)
    BY <2>3, <2>7, <2>8, <2>9 DEF Placed
  <2> QED
    BY <2>1, <2>10
<1>5. N \in S
  <2> HIDE DEF S
  <2>1. 0..N \subseteq S
    BY <1>0, <1>3, <1>4, Induction, Zenon
  <2> QED
    BY <1>0, <2>1
<1>6. Placed(N) /\ acc[N] \in Seq(NodeRecord)
  BY <1>0, <1>2, <1>5
<1> HIDE DEF S
<1>7. /\ FlattenSeq(trees) \in Seq(NodeRecord)
      /\ Len(FlattenSeq(trees)) = F(N + 1)
      /\ \A t \in 1..N : \A i \in 1..Len(trees[t]) :
              F(t) + i \in 1..Len(FlattenSeq(trees)) /\ FlattenSeq(trees)[F(t) + i] = trees[t][i]
      /\ \A j \in 1..Len(FlattenSeq(trees)) : \E t \in 1..N : \E i \in 1..Len(trees[t]) : j = F(t) + i
  BY <1>2, <1>6
<1> QED
  BY <1>7 DEF F

-----------------------------------------------------------------------------
(* What the invariants of a document say of its pages and Sources.          *)

DistinctTrees(trees) ==
    \A t, u \in 1..Len(trees) : \A i \in 1..Len(trees[t]), j \in 1..Len(trees[u]) :
        trees[t][i].id = trees[u][j].id => t = u /\ i = j

LEMMA FlattenDistinct ==
  ASSUME NEW trees \in Trees
  PROVE  DistinctTrees(trees)
         <=> \A x, y \in 1..Len(FlattenSeq(trees)) : FlattenSeq(trees)[x].id = FlattenSeq(trees)[y].id => x = y
<1> DEFINE row == FlattenSeq(trees)
           N == Len(trees)
           F(t) == FirstId(trees, t, 0)
<1>1. /\ \A t \in 1..N : \A i \in 1..Len(trees[t]) : F(t) + i \in 1..Len(row) /\ row[F(t) + i] = trees[t][i]
      /\ \A x \in 1..Len(row) : \E t \in 1..N : \E i \in 1..Len(trees[t]) : x = F(t) + i
  BY FlattenIs
<1>2. \A t \in 1..N : F(t) \in Nat /\ Len(trees[t]) \in Nat
  <2>1. N \in Nat /\ \A t \in 1..N : Len(trees[t]) \in Nat /\ t \in 1..N + 1
    BY DEF Trees
  <2>2. 0 \in Int
    OBVIOUS
  <2> QED
    BY <2>1, <2>2, FirstIdIs
<1>3. \A t, u \in 1..N : t < u => F(t) + Len(trees[t]) <= F(u)
  <2>1. N \in Nat /\ \A u \in 1..N : u \in 1..N + 1
    BY DEF Trees
  <2> QED
    BY <2>1, FirstIdGrows
<1> HIDE DEF row, F
<1>4. ASSUME DistinctTrees(trees), NEW x \in 1..Len(row), NEW y \in 1..Len(row), row[x].id = row[y].id
      PROVE  x = y
  <2>1. PICK t \in 1..N : \E i \in 1..Len(trees[t]) : x = F(t) + i
    BY <1>1
  <2>1i. PICK i \in 1..Len(trees[t]) : x = F(t) + i
    BY <2>1
  <2>2. PICK u \in 1..N : \E j \in 1..Len(trees[u]) : y = F(u) + j
    BY <1>1
  <2>2i. PICK j \in 1..Len(trees[u]) : y = F(u) + j
    BY <2>2
  <2>3. trees[t][i].id = trees[u][j].id
    BY <1>1, <1>4, <2>1i, <2>2i
  <2>4. t = u /\ i = j
    BY <1>4, <2>3 DEF DistinctTrees
  <2> QED
    BY <2>1i, <2>2i, <2>4
<1>5. ASSUME \A x, y \in 1..Len(row) : row[x].id = row[y].id => x = y
      PROVE  DistinctTrees(trees)
  <2>1. ASSUME NEW t \in 1..N, NEW u \in 1..N, NEW i \in 1..Len(trees[t]), NEW j \in 1..Len(trees[u]),
               trees[t][i].id = trees[u][j].id
        PROVE  t = u /\ i = j
    <3>1. F(t) + i = F(u) + j
      <4>1. F(t) + i \in 1..Len(row) /\ F(u) + j \in 1..Len(row) /\ row[F(t) + i].id = row[F(u) + j].id
        BY <1>1, <2>1
      <4> QED
        BY <1>5, <4>1
    <3>2. F(t) \in Nat /\ F(u) \in Nat /\ Len(trees[t]) \in Nat /\ Len(trees[u]) \in Nat
      BY <1>2
    <3>3. ~(t < u)
      BY <1>3, <3>1, <3>2
    <3>4. ~(u < t)
      BY <1>3, <3>1, <3>2
    <3>5. t = u
      BY <3>3, <3>4
    <3> QED
      BY <3>1, <3>2, <3>5
  <2> QED
    BY <2>1 DEF DistinctTrees
<1> QED
  BY <1>4, <1>5 DEF row

(* Every node of the pages and of the Sources. *)
NodesOf(d) == {n \in NodeRecord :
                 \/ \E p \in DOMAIN d.pages : \E i \in DOMAIN d.pages[p].nodes : n = d.pages[p].nodes[i]
                 \/ \E c \in DOMAIN d.components : \E i \in DOMAIN d.components[c].nodes : n = d.components[c].nodes[i]}

LEMMA PagesAre ==
  ASSUME NEW d \in DocumentRecords
  PROVE  /\ d.pages \in Seq(PageRecord) /\ DOMAIN d.pages = 1..Len(d.pages) /\ Len(d.pages) \in Nat
         /\ \A p \in DOMAIN d.pages :
              /\ d.pages[p] \in PageRecord /\ d.pages[p].id \in Int
              /\ d.pages[p].nodes \in Seq(NodeRecord) /\ d.pages[p].nodes # <<>>
              /\ DOMAIN d.pages[p].nodes = 1..Len(d.pages[p].nodes) /\ Len(d.pages[p].nodes) \in Nat
              /\ \A i \in DOMAIN d.pages[p].nodes : d.pages[p].nodes[i] \in NodeRecord
<1>1. d.pages \in Seq(PageRecord)
  BY DEF DocumentRecords
<1>2. ASSUME NEW p \in DOMAIN d.pages
      PROVE  /\ d.pages[p] \in PageRecord /\ d.pages[p].id \in Int
             /\ d.pages[p].nodes \in Seq(NodeRecord) /\ d.pages[p].nodes # <<>>
  <2>1. p \in 1..Len(d.pages)
    BY <1>1
  <2>2. d.pages[p] \in PageRecord
    BY <1>1, <2>1, ElementOfSeq
  <2> QED
    BY <2>2 DEF PageRecord, NodeTree
<1> QED
  BY <1>1, <1>2

LEMMA SourcesAre ==
  ASSUME NEW d \in DocumentRecords
  PROVE  /\ d.components \in Maps(DefinitionRecord) /\ DOMAIN d.components \subseteq Int
         /\ IsFiniteSet(DOMAIN d.components) /\ Cardinality(DOMAIN d.components) \in Nat
         /\ \A c \in DOMAIN d.components :
              /\ d.components[c] \in DefinitionRecord /\ d.components[c].id \in Int
              /\ d.components[c].nodes \in Seq(NodeRecord) /\ d.components[c].nodes # <<>>
              /\ DOMAIN d.components[c].nodes = 1..Len(d.components[c].nodes) /\ Len(d.components[c].nodes) \in Nat
              /\ \A i \in DOMAIN d.components[c].nodes : d.components[c].nodes[i] \in NodeRecord
<1>1. d.components \in Maps(DefinitionRecord)
  BY DEF DocumentRecords
<1>2. d.components \in [DOMAIN d.components -> DefinitionRecord] /\ DOMAIN d.components \subseteq Int /\ IsFiniteSet(DOMAIN d.components)
  BY <1>1, MapsAre DEF IsMap
<1>3. ASSUME NEW c \in DOMAIN d.components
      PROVE  /\ d.components[c] \in DefinitionRecord /\ d.components[c].id \in Int
             /\ d.components[c].nodes \in Seq(NodeRecord) /\ d.components[c].nodes # <<>>
  BY <1>2 DEF DefinitionRecord, NodeTree
<1> QED
  BY <1>1, <1>2, <1>3, FS_CardinalityType

LEMMA TreesAre ==
  ASSUME NEW d \in DocumentRecords
  PROVE  /\ PageTrees(d) \in Trees /\ Len(PageTrees(d)) = Len(d.pages)
         /\ \A p \in 1..Len(d.pages) : PageTrees(d)[p] = d.pages[p].nodes
         /\ SourceTrees(d) \in Trees /\ Len(SourceTrees(d)) = Cardinality(DOMAIN d.components)
         /\ \A k \in 1..Cardinality(DOMAIN d.components) :
              /\ Ascending(DOMAIN d.components)[k] \in DOMAIN d.components
              /\ SourceTrees(d)[k] = d.components[Ascending(DOMAIN d.components)[k]].nodes
<1> DEFINE A == Ascending(DOMAIN d.components)
           n == Cardinality(DOMAIN d.components)
<1>1. n \in Nat /\ A \in [1..n -> DOMAIN d.components]
  BY SourcesAre, AscendingLists
<1> HIDE DEF A, n
<1>2. PageTrees(d) = [p \in 1..Len(d.pages) |-> d.pages[p].nodes]
  BY DEF PageTrees
<1>3. Len(d.pages) \in Nat /\ \A p \in 1..Len(d.pages) : d.pages[p].nodes \in Seq(NodeRecord)
  BY PagesAre
<1>4. SourceTrees(d) = [c \in 1..n |-> d.components[A[c]].nodes]
  BY DEF SourceTrees, A, n
<1>5. \A k \in 1..n : A[k] \in DOMAIN d.components /\ d.components[A[k]].nodes \in Seq(NodeRecord)
  BY <1>1, SourcesAre
<1>6. PageTrees(d) \in Trees /\ Len(PageTrees(d)) = Len(d.pages) /\ \A p \in 1..Len(d.pages) : PageTrees(d)[p] = d.pages[p].nodes
  BY <1>2, <1>3 DEF Trees
<1>7. SourceTrees(d) \in Trees /\ Len(SourceTrees(d)) = n /\ \A k \in 1..n : SourceTrees(d)[k] = d.components[A[k]].nodes
  BY <1>1, <1>4, <1>5 DEF Trees
<1> QED
  BY <1>5, <1>6, <1>7 DEF A, n

AllTrees(d) == PageTrees(d) \o SourceTrees(d)

LEMMA AllTreesAre ==
  ASSUME NEW d \in DocumentRecords
  PROVE  /\ AllTrees(d) \in Trees
         /\ Len(AllTrees(d)) = Len(d.pages) + Cardinality(DOMAIN d.components)
         /\ \A p \in 1..Len(d.pages) : p \in 1..Len(AllTrees(d)) /\ AllTrees(d)[p] = d.pages[p].nodes
         /\ \A c \in DOMAIN d.components : \E k \in 1..Cardinality(DOMAIN d.components) :
              /\ Ascending(DOMAIN d.components)[k] = c
              /\ Len(d.pages) + k \in 1..Len(AllTrees(d))
              /\ AllTrees(d)[Len(d.pages) + k] = d.components[c].nodes
         /\ \A t \in 1..Len(AllTrees(d)) :
              \/ t \in 1..Len(d.pages)
              \/ \E k \in 1..Cardinality(DOMAIN d.components) :
                   /\ t = Len(d.pages) + k /\ Ascending(DOMAIN d.components)[k] \in DOMAIN d.components
                   /\ AllTrees(d)[t] = d.components[Ascending(DOMAIN d.components)[k]].nodes
<1> DEFINE A == Ascending(DOMAIN d.components)
           n == Cardinality(DOMAIN d.components)
           P == PageTrees(d)
           Q == SourceTrees(d)
           m == Len(d.pages)
<1>1. /\ P \in Trees /\ Len(P) = m /\ \A p \in 1..m : P[p] = d.pages[p].nodes
      /\ Q \in Trees /\ Len(Q) = n /\ \A k \in 1..n : A[k] \in DOMAIN d.components /\ Q[k] = d.components[A[k]].nodes
  BY TreesAre
<1>2. \A c \in DOMAIN d.components : \E k \in 1..n : A[k] = c
  BY SourcesAre, AscendingLists
<1>3. m \in Nat /\ n \in Nat
  BY PagesAre, SourcesAre
<1> HIDE DEF A, n, P, Q, m
<1>4. /\ P \o Q \in Trees /\ Len(P \o Q) = m + n
      /\ \A i \in 1..m + n : (P \o Q)[i] = IF i <= m THEN P[i] ELSE Q[i - m]
  BY <1>1, ConcatProperties, ZenonT(60) DEF Trees
<1>5. \A p \in 1..m : p \in 1..m + n /\ (P \o Q)[p] = d.pages[p].nodes
  BY <1>1, <1>3, <1>4
<1>6. \A k \in 1..n : m + k \in 1..m + n /\ (P \o Q)[m + k] = d.components[A[k]].nodes
  <2> TAKE k \in 1..n
  <2>1. m + k \in 1..m + n /\ ~(m + k <= m) /\ (m + k) - m = k
    BY <1>3
  <2> QED
    BY <1>1, <1>4, <2>1
<1>7. \A t \in 1..m + n : t \in 1..m \/ \E k \in 1..n : t = m + k
  <2> TAKE t \in 1..m + n
  <2>1. t \in 1..m \/ (t - m \in 1..n /\ t = m + (t - m))
    BY <1>3
  <2> QED
    BY <2>1
<1>8. AllTrees(d) = P \o Q
  BY DEF AllTrees, P, Q
<1>9. \A c \in DOMAIN d.components : \E k \in 1..n :
              A[k] = c /\ m + k \in 1..m + n /\ (P \o Q)[m + k] = d.components[c].nodes
  BY <1>2, <1>6
<1>10. \A t \in 1..m + n : t \in 1..m \/ \E k \in 1..n : t = m + k /\ A[k] \in DOMAIN d.components /\ (P \o Q)[t] = d.components[A[k]].nodes
  <2> TAKE t \in 1..m + n
  <2>1. CASE t \in 1..m
    BY <2>1
  <2>2. CASE t \notin 1..m
    <3>1. PICK k \in 1..n : t = m + k
      BY <1>7, <2>2
    <3>2. A[k] \in DOMAIN d.components /\ (P \o Q)[t] = d.components[A[k]].nodes
      BY <1>1, <1>6, <3>1
    <3> QED
      BY <3>1, <3>2
  <2> QED
    BY <2>1, <2>2
<1> DEFINE R == AllTrees(d)
<1>11. /\ R \in Trees /\ Len(R) = m + n
       /\ \A p \in 1..m : p \in 1..Len(R) /\ R[p] = d.pages[p].nodes
       /\ \A c \in DOMAIN d.components : \E k \in 1..n :
              A[k] = c /\ m + k \in 1..Len(R) /\ R[m + k] = d.components[c].nodes
       /\ \A t \in 1..Len(R) : t \in 1..m \/ \E k \in 1..n : t = m + k /\ A[k] \in DOMAIN d.components /\ R[t] = d.components[A[k]].nodes
  <2> HIDE DEF R
  <2>1. R = P \o Q
    BY <1>8 DEF R
  <2> QED
    BY <1>4, <1>5, <1>9, <1>10, <2>1
<1> HIDE DEF R
<1> QED
  BY <1>11 DEF A, n, m, R

LEMMA WalkIs ==
  ASSUME NEW d \in DocumentRecords
  PROVE  walkDocument(d) \in Seq(NodeRecord) /\ Range(walkDocument(d)) = NodesOf(d)
<1> DEFINE trees == AllTrees(d)
           row == walkDocument(d)
           F(t) == FirstId(trees, t, 0)
<1>0. row = FlattenSeq(trees) /\ trees \in Trees
  BY AllTreesAre DEF walkDocument, AllTrees
<1> HIDE DEF trees, row
<1>1. /\ row \in Seq(NodeRecord)
      /\ \A t \in 1..Len(trees) : \A i \in 1..Len(trees[t]) : F(t) + i \in 1..Len(row) /\ row[F(t) + i] = trees[t][i]
      /\ \A x \in 1..Len(row) : \E t \in 1..Len(trees) : \E i \in 1..Len(trees[t]) : x = F(t) + i
  BY <1>0, FlattenIs
<1> HIDE DEF F
<1>2. DOMAIN row = 1..Len(row) /\ \A x \in 1..Len(row) : row[x] \in NodeRecord
  BY <1>1
<1>3. ASSUME NEW x \in 1..Len(row)
      PROVE  row[x] \in NodesOf(d)
  <2>1. PICK t \in 1..Len(trees) : \E i \in 1..Len(trees[t]) : row[x] = trees[t][i]
    BY <1>1
  <2>1i. PICK i \in 1..Len(trees[t]) : row[x] = trees[t][i]
    BY <2>1
  <2>2. CASE t \in 1..Len(d.pages)
    <3>1. t \in DOMAIN d.pages /\ trees[t] = d.pages[t].nodes /\ i \in DOMAIN d.pages[t].nodes
      BY <2>2, AllTreesAre, PagesAre DEF trees
    <3> QED
      BY <1>2, <2>1i, <3>1 DEF NodesOf
  <2>3. CASE t \notin 1..Len(d.pages)
    <3>1. PICK c \in DOMAIN d.components : trees[t] = d.components[c].nodes
      BY <2>3, AllTreesAre, ZenonT(60) DEF trees
    <3>2. i \in DOMAIN d.components[c].nodes
      BY <2>1i, <3>1, SourcesAre
    <3> QED
      BY <1>2, <2>1i, <3>1, <3>2 DEF NodesOf
  <2> QED
    BY <2>2, <2>3
<1>4. ASSUME NEW n \in NodesOf(d)
      PROVE  \E x \in 1..Len(row) : row[x] = n
  <2>1. CASE \E p \in DOMAIN d.pages : \E i \in DOMAIN d.pages[p].nodes : n = d.pages[p].nodes[i]
    <3>1. PICK p \in DOMAIN d.pages : \E i \in DOMAIN d.pages[p].nodes : n = d.pages[p].nodes[i]
      BY <2>1
    <3>1i. PICK i \in DOMAIN d.pages[p].nodes : n = d.pages[p].nodes[i]
      BY <3>1
    <3>3. p \in 1..Len(d.pages)
      BY PagesAre
    <3>4. p \in 1..Len(trees) /\ trees[p] = d.pages[p].nodes
      BY <3>3, AllTreesAre DEF trees
    <3>2. p \in 1..Len(trees) /\ trees[p] = d.pages[p].nodes /\ i \in 1..Len(trees[p])
      BY <3>4, PagesAre
    <3> QED
      BY <1>1, <3>1i, <3>2
  <2>2. CASE \E c \in DOMAIN d.components : \E i \in DOMAIN d.components[c].nodes : n = d.components[c].nodes[i]
    <3>1. PICK c \in DOMAIN d.components : \E i \in DOMAIN d.components[c].nodes : n = d.components[c].nodes[i]
      BY <2>2
    <3>1i. PICK i \in DOMAIN d.components[c].nodes : n = d.components[c].nodes[i]
      BY <3>1
    <3>2. PICK t \in 1..Len(trees) : trees[t] = d.components[c].nodes
      BY AllTreesAre DEF trees
    <3>3. i \in 1..Len(trees[t])
      BY <3>2, SourcesAre
    <3> QED
      BY <1>1, <3>1i, <3>2, <3>3
  <2> QED
    BY <2>1, <2>2 DEF NodesOf
<1>5. Range(row) = NodesOf(d)
  BY <1>2, <1>3, <1>4 DEF Range
<1> QED
  BY <1>1, <1>5 DEF row

LEMMA RepeatedNone ==
  ASSUME NEW list
  PROVE  Repeated(list) = {} <=> \A j, k \in DOMAIN list : list[j] = list[k] => j = k
<1>1. ASSUME Repeated(list) = {}, NEW j \in DOMAIN list, NEW k \in DOMAIN list, list[j] = list[k]
      PROVE  j = k
  <2>1. SUFFICES ASSUME j # k
                 PROVE  FALSE
    OBVIOUS
  <2>2. list[j] \in Repeated(list)
    BY <1>1, <2>1 DEF Repeated
  <2> QED
    BY <1>1, <2>2
<1>2. ASSUME \A j, k \in DOMAIN list : list[j] = list[k] => j = k
      PROVE  Repeated(list) = {}
  BY <1>2 DEF Repeated
<1> QED
  BY <1>1, <1>2

PagesDistinct(d) == \A p, q \in DOMAIN d.pages : d.pages[p].id = d.pages[q].id => p = q

NodesDistinct(d) ==
    /\ \A p, q \in DOMAIN d.pages : \A i \in DOMAIN d.pages[p].nodes, j \in DOMAIN d.pages[q].nodes :
         d.pages[p].nodes[i].id = d.pages[q].nodes[j].id => p = q /\ i = j
    /\ \A b, c \in DOMAIN d.components : \A i \in DOMAIN d.components[b].nodes, j \in DOMAIN d.components[c].nodes :
         d.components[b].nodes[i].id = d.components[c].nodes[j].id => b = c /\ i = j
    /\ \A p \in DOMAIN d.pages, c \in DOMAIN d.components :
         \A i \in DOMAIN d.pages[p].nodes, j \in DOMAIN d.components[c].nodes :
           d.pages[p].nodes[i].id # d.components[c].nodes[j].id

AssetsFiled(d) == \A a \in DOMAIN d.assets : d.assets[a].id = a

LEMMA DistinctMeans ==
  ASSUME NEW d \in DocumentRecords
  PROVE  DistinctTrees(AllTrees(d)) <=> NodesDistinct(d)
<1> DEFINE A == Ascending(DOMAIN d.components)
           n == Cardinality(DOMAIN d.components)
           R == AllTrees(d)
           m == Len(d.pages)
<1>1. /\ Len(R) = m + n
      /\ \A p \in 1..m : p \in 1..Len(R) /\ R[p] = d.pages[p].nodes
      /\ \A c \in DOMAIN d.components : \E k \in 1..n :
              A[k] = c /\ m + k \in 1..Len(R) /\ R[m + k] = d.components[c].nodes
      /\ \A t \in 1..Len(R) : t \in 1..m \/ \E k \in 1..n : t = m + k /\ A[k] \in DOMAIN d.components /\ R[t] = d.components[A[k]].nodes
  BY AllTreesAre
<1>2. m \in Nat /\ n \in Nat /\ DOMAIN d.pages = 1..m
  BY PagesAre, SourcesAre
<1>3. \A p \in DOMAIN d.pages : DOMAIN d.pages[p].nodes = 1..Len(d.pages[p].nodes)
  BY PagesAre
<1>4. \A c \in DOMAIN d.components : DOMAIN d.components[c].nodes = 1..Len(d.components[c].nodes)
  BY SourcesAre
<1>5. \A j, k \in 1..n : A[j] = A[k] => j = k
  BY SourcesAre, AscendingLists
<1> HIDE DEF A, n, R, m
<1>6. ASSUME DistinctTrees(R)
      PROVE  NodesDistinct(d)
  <2>1. ASSUME NEW p \in DOMAIN d.pages, NEW q \in DOMAIN d.pages,
               NEW i \in DOMAIN d.pages[p].nodes, NEW j \in DOMAIN d.pages[q].nodes,
               d.pages[p].nodes[i].id = d.pages[q].nodes[j].id
        PROVE  p = q /\ i = j
    <3>1. /\ p \in 1..Len(R) /\ R[p] = d.pages[p].nodes /\ i \in 1..Len(R[p])
          /\ q \in 1..Len(R) /\ R[q] = d.pages[q].nodes /\ j \in 1..Len(R[q])
      BY <1>1, <1>2, <1>3
    <3>2. R[p][i].id = R[q][j].id
      BY <2>1, <3>1
    <3> QED
      BY <1>6, <3>1, <3>2 DEF DistinctTrees
  <2>2. ASSUME NEW b \in DOMAIN d.components, NEW c \in DOMAIN d.components,
               NEW i \in DOMAIN d.components[b].nodes, NEW j \in DOMAIN d.components[c].nodes,
               d.components[b].nodes[i].id = d.components[c].nodes[j].id
        PROVE  b = c /\ i = j
    <3>1. PICK k \in 1..n : A[k] = b /\ m + k \in 1..Len(R) /\ R[m + k] = d.components[b].nodes
      BY <1>1
    <3>2. PICK l \in 1..n : A[l] = c /\ m + l \in 1..Len(R) /\ R[m + l] = d.components[c].nodes
      BY <1>1
    <3>3. i \in 1..Len(R[m + k]) /\ j \in 1..Len(R[m + l]) /\ R[m + k][i].id = R[m + l][j].id
      BY <1>4, <2>2, <3>1, <3>2
    <3>4. m + k = m + l /\ i = j
      BY <1>6, <3>1, <3>2, <3>3, SMTT(60) DEF DistinctTrees
    <3>5. k = l
      BY <1>2, <3>4
    <3> QED
      BY <3>1, <3>2, <3>4, <3>5
  <2>3. ASSUME NEW p \in DOMAIN d.pages, NEW c \in DOMAIN d.components,
               NEW i \in DOMAIN d.pages[p].nodes, NEW j \in DOMAIN d.components[c].nodes,
               d.pages[p].nodes[i].id = d.components[c].nodes[j].id
        PROVE  FALSE
    <3>1. p \in 1..Len(R) /\ R[p] = d.pages[p].nodes /\ i \in 1..Len(R[p])
      BY <1>1, <1>2, <1>3
    <3>2. PICK l \in 1..n : m + l \in 1..Len(R) /\ R[m + l] = d.components[c].nodes
      BY <1>1
    <3>3. j \in 1..Len(R[m + l]) /\ R[p][i].id = R[m + l][j].id
      BY <1>4, <2>3, <3>1, <3>2
    <3>4. p = m + l
      BY <1>6, <3>1, <3>2, <3>3 DEF DistinctTrees
    <3> QED
      BY <1>2, <3>4
  <2> QED
    BY <2>1, <2>2, <2>3 DEF NodesDistinct
<1>7. ASSUME NodesDistinct(d)
      PROVE  DistinctTrees(R)
  <2> SUFFICES ASSUME NEW t \in 1..Len(R), NEW u \in 1..Len(R), NEW i \in 1..Len(R[t]), NEW j \in 1..Len(R[u]),
                      R[t][i].id = R[u][j].id
               PROVE  t = u /\ i = j
    BY DEF DistinctTrees
  <2>1. CASE t \in 1..m /\ u \in 1..m
    <3>1. /\ t \in DOMAIN d.pages /\ u \in DOMAIN d.pages
          /\ R[t] = d.pages[t].nodes /\ R[u] = d.pages[u].nodes
          /\ i \in DOMAIN d.pages[t].nodes /\ j \in DOMAIN d.pages[u].nodes
      BY <1>1, <1>2, <1>3, <2>1
    <3> QED
      BY <1>7, <3>1, SMTT(60) DEF NodesDistinct
  <2>2. CASE t \in 1..m /\ u \notin 1..m
    <3>1. t \in DOMAIN d.pages /\ R[t] = d.pages[t].nodes /\ i \in DOMAIN d.pages[t].nodes
      BY <1>1, <1>2, <1>3, <2>2
    <3>2. PICK c \in DOMAIN d.components : R[u] = d.components[c].nodes
      BY <1>1, <2>2
    <3>3. j \in DOMAIN d.components[c].nodes
      BY <1>4, <3>2
    <3> QED
      BY <1>7, <3>1, <3>2, <3>3, SMTT(60) DEF NodesDistinct
  <2>3. CASE t \notin 1..m /\ u \in 1..m
    <3>1. u \in DOMAIN d.pages /\ R[u] = d.pages[u].nodes /\ j \in DOMAIN d.pages[u].nodes
      BY <1>1, <1>2, <1>3, <2>3, SMTT(60)
    <3>2. PICK c \in DOMAIN d.components : R[t] = d.components[c].nodes
      BY <1>1, <2>3
    <3>3. i \in DOMAIN d.components[c].nodes
      BY <1>4, <3>2
    <3>4. d.pages[u].nodes[j].id = d.components[c].nodes[i].id
      BY <3>1, <3>2
    <3> QED
      BY <1>7, <3>1, <3>3, <3>4, SMTT(60) DEF NodesDistinct
  <2>4. CASE t \notin 1..m /\ u \notin 1..m
    <3>1. PICK k \in 1..n : t = m + k /\ A[k] \in DOMAIN d.components /\ R[t] = d.components[A[k]].nodes
      BY <1>1, <2>4
    <3>2. PICK l \in 1..n : u = m + l /\ A[l] \in DOMAIN d.components /\ R[u] = d.components[A[l]].nodes
      BY <1>1, <2>4
    <3>3. i \in DOMAIN d.components[A[k]].nodes /\ j \in DOMAIN d.components[A[l]].nodes
      BY <1>4, <3>1, <3>2
    <3>4. A[k] = A[l] /\ i = j
      <4> DEFINE b == A[k]
                 c == A[l]
      <4>1. /\ b \in DOMAIN d.components /\ c \in DOMAIN d.components
            /\ i \in DOMAIN d.components[b].nodes /\ j \in DOMAIN d.components[c].nodes
            /\ d.components[b].nodes[i].id = d.components[c].nodes[j].id
        BY <3>1, <3>2, <3>3
      <4> HIDE DEF b, c
      <4>2. b = c /\ i = j
        BY <1>7, <4>1 DEF NodesDistinct
      <4> QED
        BY <4>2 DEF b, c
    <3> QED
      BY <1>5, <3>1, <3>2, <3>4
  <2> QED
    BY <2>1, <2>2, <2>3, <2>4
<1> QED
  BY <1>6, <1>7 DEF R

(* Identified, in terms of the pages, nodes and assets.                      *)
LEMMA UniqueMeans ==
  ASSUME NEW d \in DocumentRecords
  PROVE  Identified(d) <=> PagesDistinct(d) /\ NodesDistinct(d) /\ AssetsFiled(d)
<1> DEFINE row == walkDocument(d)
           ids == [i \in DOMAIN row |-> row[i].id]
           pageIds == [p \in DOMAIN d.pages |-> d.pages[p].id]
           wrong == {k \in DOMAIN d.assets : d.assets[k].id # k}
           issues == validateCanvasIRInvariants(d)
           codes == {"duplicate-page-id", "duplicate-node-id", "asset-key-id-mismatch"}
<1> DEFINE used == AssetsUsed(row) \ DOMAIN d.assets
           ofPages == {<<"duplicate-page-id", x>> : x \in Repeated(pageIds)}
           ofNodes == {<<"duplicate-node-id", x>> : x \in Repeated(ids)}
           ofAssets == {<<"asset-key-id-mismatch", x>> : x \in wrong}
           dangling == {<<"dangling-asset-reference", x>> : x \in used}
           layout == IF (\E n \in Range(row) : n.flows) /\ Layout \notin d.capabilities
                     THEN {<<"missing-required-capability", 0>>} ELSE {}
<1>0. issues = ofPages \cup ofNodes \cup ofAssets \cup dangling \cup layout
  <2>1. \A x \in issues : x \in ofPages \cup ofNodes \cup ofAssets \cup dangling \cup layout
    BY DEF validateCanvasIRInvariants
  <2>2. ofPages \subseteq issues
    BY DEF validateCanvasIRInvariants
  <2>3. ofNodes \subseteq issues
    BY DEF validateCanvasIRInvariants
  <2>4. ofAssets \subseteq issues
    BY DEF validateCanvasIRInvariants
  <2>5. dangling \subseteq issues
    BY DEF validateCanvasIRInvariants
  <2>6. layout \subseteq issues
    BY DEF validateCanvasIRInvariants
  <2> HIDE DEF issues, ofPages, ofNodes, ofAssets, dangling, layout
  <2> QED
    BY <2>1, <2>2, <2>3, <2>4, <2>5, <2>6
<1>01. \A issue \in layout : issue = <<issue[1], issue[2]>> /\ issue[1] = "missing-required-capability"
  OBVIOUS
<1> HIDE DEF issues, used, layout, pageIds, ids, wrong
<1>02. \A issue \in ofPages : issue = <<issue[1], issue[2]>> /\ issue[1] = "duplicate-page-id" /\ issue[2] \in Repeated(pageIds)
  OBVIOUS
<1>03. \A issue \in ofNodes : issue = <<issue[1], issue[2]>> /\ issue[1] = "duplicate-node-id" /\ issue[2] \in Repeated(ids)
  OBVIOUS
<1>04. \A issue \in ofAssets : issue = <<issue[1], issue[2]>> /\ issue[1] = "asset-key-id-mismatch" /\ issue[2] \in wrong
  OBVIOUS
<1>05. \A issue \in dangling : issue = <<issue[1], issue[2]>> /\ issue[1] = "dangling-asset-reference"
  OBVIOUS
<1>06. /\ \A x \in Repeated(pageIds) : <<"duplicate-page-id", x>> \in ofPages
       /\ \A x \in Repeated(ids) : <<"duplicate-node-id", x>> \in ofNodes
       /\ \A x \in wrong : <<"asset-key-id-mismatch", x>> \in ofAssets
  OBVIOUS
<1> HIDE DEF ofPages, ofNodes, ofAssets, dangling
<1>4. \A issue \in issues : /\ issue = <<issue[1], issue[2]>>
                            /\ \/ issue[1] = "duplicate-page-id" /\ issue[2] \in Repeated(pageIds)
                               \/ issue[1] = "duplicate-node-id" /\ issue[2] \in Repeated(ids)
                               \/ issue[1] = "asset-key-id-mismatch" /\ issue[2] \in wrong
                               \/ issue[1] \notin codes
  <2> TAKE issue \in issues
  <2>1. CASE issue \in ofPages
    BY <2>1, <1>02
  <2>2. CASE issue \in ofNodes
    BY <2>2, <1>03
  <2>3. CASE issue \in ofAssets
    BY <2>3, <1>04
  <2>4. CASE issue \in dangling
    BY <2>4, <1>05
  <2>5. CASE issue \in layout
    BY <2>5, <1>01
  <2> QED
    BY <1>0, <2>1, <2>2, <2>3, <2>4, <2>5
<1>5. Identified(d) <=> \A issue \in issues : issue[1] \notin codes
  BY DEF Identified, issues
<1>6. Identified(d) <=> Repeated(pageIds) = {} /\ Repeated(ids) = {} /\ wrong = {}
  <2>1. ASSUME Identified(d)
        PROVE  Repeated(pageIds) = {} /\ Repeated(ids) = {} /\ wrong = {}
    <3>1. \A x : <<"duplicate-page-id", x>>[1] \in codes /\ <<"duplicate-node-id", x>>[1] \in codes /\ <<"asset-key-id-mismatch", x>>[1] \in codes
      OBVIOUS
    <3> HIDE DEF codes
    <3>2. ASSUME NEW x \in Repeated(pageIds) PROVE FALSE
      BY <1>0, <1>06, <1>5, <2>1, <3>1
    <3>3. ASSUME NEW x \in Repeated(ids) PROVE FALSE
      BY <1>0, <1>06, <1>5, <2>1, <3>1
    <3>4. ASSUME NEW x \in wrong PROVE FALSE
      BY <1>0, <1>06, <1>5, <2>1, <3>1
    <3> QED
      BY <3>2, <3>3, <3>4
  <2>2. ASSUME Repeated(pageIds) = {} /\ Repeated(ids) = {} /\ wrong = {}
        PROVE  Identified(d)
    BY <1>4, <1>5, <2>2
  <2> QED
    BY <2>1, <2>2
<1>7. Repeated(pageIds) = {} <=> PagesDistinct(d)
  <2>1. Repeated(pageIds) = {} <=> \A p, q \in DOMAIN pageIds : pageIds[p] = pageIds[q] => p = q
    BY RepeatedNone
  <2> QED
    BY <2>1 DEF PagesDistinct, pageIds
<1>8. Repeated(ids) = {} <=> NodesDistinct(d)
  <2>1. Repeated(ids) = {} <=> \A x, y \in DOMAIN ids : ids[x] = ids[y] => x = y
    BY RepeatedNone
  <2>2. DOMAIN row = 1..Len(row)
    BY WalkIs
  <2>3. row = FlattenSeq(AllTrees(d)) /\ AllTrees(d) \in Trees
    BY AllTreesAre DEF walkDocument, AllTrees
  <2>4. DistinctTrees(AllTrees(d)) <=> \A x, y \in 1..Len(row) : row[x].id = row[y].id => x = y
    BY <2>3, FlattenDistinct
  <2>5. Repeated(ids) = {} <=> \A x, y \in 1..Len(row) : row[x].id = row[y].id => x = y
    <3> HIDE DEF row
    <3> QED
      BY <2>1, <2>2 DEF ids
  <2> QED
    BY <2>4, <2>5, DistinctMeans
<1>9. wrong = {} <=> AssetsFiled(d)
  BY DEF AssetsFiled, wrong
<1> QED
  BY <1>6, <1>7, <1>8, <1>9

-----------------------------------------------------------------------------
(* The dependency graph of a Registry.                                      *)

AboveOf(deps, depths) == {c \in DOMAIN deps \ DOMAIN depths : deps[c] \cap DOMAIN deps \subseteq DOMAIN depths}
Deeper(deps, depths, n) == Over(depths, [c \in AboveOf(deps, depths) |-> n])

LEMMA DeeperIs ==
  ASSUME NEW deps, IsFiniteSet(DOMAIN deps), DOMAIN deps \subseteq Int,
         NEW depths \in Maps(Nat), DOMAIN depths \subseteq DOMAIN deps, NEW n \in Nat
  PROVE  /\ Deeper(deps, depths, n) \in Maps(Nat)
         /\ DOMAIN Deeper(deps, depths, n) = DOMAIN depths \cup AboveOf(deps, depths)
         /\ \A c \in DOMAIN depths : Deeper(deps, depths, n)[c] = depths[c]
         /\ \A c \in AboveOf(deps, depths) : Deeper(deps, depths, n)[c] = n
         /\ DOMAIN Deeper(deps, depths, n) \subseteq DOMAIN deps
<1> DEFINE A == AboveOf(deps, depths)
           g == [c \in A |-> n]
<1>1. A \subseteq DOMAIN deps /\ A \cap DOMAIN depths = {}
  BY DEF AboveOf
<1>2. IsFiniteSet(A) /\ A \subseteq Int
  BY <1>1, FS_Subset
<1>3. DOMAIN g = A /\ g \in [A -> Nat] /\ \A c \in A : g[c] = n
  OBVIOUS
<1> HIDE DEF g, A
<1>4. g \in Maps(Nat)
  BY <1>2, <1>3, MapsAre DEF IsMap
<1>5. Deeper(deps, depths, n) = Over(depths, g)
  BY DEF Deeper, g, A
<1>6. /\ Over(depths, g) \in Maps(Nat) /\ DOMAIN Over(depths, g) = DOMAIN depths \cup DOMAIN g
      /\ \A c \in DOMAIN depths : Over(depths, g)[c] = depths[c]
      /\ \A c \in DOMAIN g \ DOMAIN depths : Over(depths, g)[c] = g[c]
  BY <1>4, OverIs, SMTT(60)
<1>7. \A c \in A : c \in DOMAIN g \ DOMAIN depths
  BY <1>1, <1>3
<1> QED
  BY <1>1, <1>3, <1>5, <1>6, <1>7 DEF A

IsRegistry(deps) == IsFiniteSet(DOMAIN deps) /\ DOMAIN deps \subseteq Int
Within(depths, deps) == depths \in Maps(Nat) /\ DOMAIN depths \subseteq DOMAIN deps
IsDeeper(more, deps, depths, n) ==
    /\ DOMAIN more = DOMAIN depths \cup AboveOf(deps, depths)
    /\ \A c \in DOMAIN depths : more[c] = depths[c]
    /\ \A c \in AboveOf(deps, depths) : more[c] = n

LEMMA DeeperHolds ==
  ASSUME NEW deps, IsRegistry(deps), NEW depths, Within(depths, deps), NEW n \in Nat
  PROVE  IsDeeper(Deeper(deps, depths, n), deps, depths, n)
BY DeeperIs DEF IsRegistry, Within, IsDeeper

LEMMA NoMapIs ==
  ASSUME NEW V
  PROVE  NoMap \in Maps(V) /\ DOMAIN NoMap = {}
<1>1. DOMAIN NoMap = {} /\ NoMap \in [{} -> V]
  BY DEF NoMap
<1>2. IsFiniteSet({})
  BY FS_EmptySet
<1>3. IsMap(NoMap, V)
  BY <1>1, <1>2 DEF IsMap
<1> QED
  BY <1>1, <1>3, MapsAre

LEMMA ChainSteps ==
  ASSUME NEW deps, IsFiniteSet(DOMAIN deps), DOMAIN deps \subseteq Int
  PROVE  \E acc \in [0..Cardinality(DOMAIN deps) -> {f \in Maps(Nat) : DOMAIN f \subseteq DOMAIN deps}] :
           /\ acc[0] = NoMap /\ ChainDepths(deps) = acc[Cardinality(DOMAIN deps)]
           /\ \A k \in 1..Cardinality(DOMAIN deps) : acc[k] = Deeper(deps, acc[k - 1], k)
<1> DEFINE N == Cardinality(DOMAIN deps)
           X == {f \in Maps(Nat) : DOMAIN f \subseteq DOMAIN deps}
           step == [a \in X \X (1..N) |-> Deeper(deps, a[1], a[2])]
           round == CHOOSE round : round = [n \in 0..N |-> IF n = 0 THEN NoMap ELSE Deeper(deps, round[n - 1], n)]
<1>1. N \in Nat /\ NoMap \in X
  BY FS_CardinalityType, NoMapIs
<1>2. IsStep(step, N, X)
  <2>1. \A a \in X, k \in 1..N : Deeper(deps, a, k) \in X
    <3> TAKE a \in X, k \in 1..N
    <3>1. k \in Nat /\ a \in Maps(Nat) /\ DOMAIN a \subseteq DOMAIN deps
      BY <1>1
    <3> QED
      BY <3>1, DeeperIs
  <2> HIDE DEF X, N
  <2> QED
    BY <2>1 DEF IsStep
<1>3. \A a \in X, k \in 1..N : step[<<a, k>>] = Deeper(deps, a, k)
  <2> HIDE DEF X, N
  <2> QED
    OBVIOUS
<1> HIDE DEF step
<1>4. PICK f : IsRun(f, N, X, NoMap, step)
  <2> HIDE DEF N, X
  <2> QED
    BY <1>1, <1>2, StepsExist
<1>5. f \in [0..N -> X] /\ f[0] = NoMap /\ \A k \in 1..N : f[k] = Deeper(deps, f[k - 1], k)
  <2> HIDE DEF N, X
  <2>1. f \in [0..N -> X] /\ f[0] = NoMap /\ \A k \in 1..N : f[k] = step[<<f[k - 1], k>>]
    BY <1>4 DEF IsRun
  <2>2. \A k \in 1..N : k - 1 \in 0..N
    BY <1>1
  <2> QED
    BY <1>3, <2>1, <2>2
<1>6. ChainDepths(deps) = round[N]
  BY DEF ChainDepths, Deeper, AboveOf
<1> HIDE DEF N, X
<1>7. f = [n \in 0..N |-> IF n = 0 THEN NoMap ELSE Deeper(deps, f[n - 1], n)]
  <2>1. f = [n \in 0..N |-> f[n]]
    BY <1>5
  <2>2. \A n \in 0..N : n = 0 \/ n \in 1..N
    BY <1>1
  <2>3. \A n \in 0..N : f[n] = IF n = 0 THEN NoMap ELSE Deeper(deps, f[n - 1], n)
    BY <1>5, <2>2
  <2> QED
    BY <2>1, <2>3
<1>8. round = [n \in 0..N |-> IF n = 0 THEN NoMap ELSE Deeper(deps, round[n - 1], n)]
  BY <1>7
<1> HIDE DEF round
<1> DEFINE S == {k \in 0..N : round[k] = f[k]}
<1>9. 0 \in S
  BY <1>1, <1>5, <1>8
<1>10. ASSUME NEW k \in 1..N, k - 1 \in S
       PROVE  k \in S
  <2>1. k \in 0..N /\ k # 0
    BY <1>1
  <2>2. round[k] = Deeper(deps, round[k - 1], k)
    BY <1>8, <2>1
  <2>3. round[k - 1] = f[k - 1] /\ f[k] = Deeper(deps, f[k - 1], k)
    BY <1>5, <1>10
  <2> QED
    BY <2>1, <2>2, <2>3
<1>11. round[N] = f[N]
  <2> HIDE DEF S
  <2>1. 0..N \subseteq S
    BY <1>1, <1>9, <1>10, Induction, Zenon
  <2>2. N \in S
    BY <1>1, <2>1
  <2> QED
    BY <2>2 DEF S
<1> QED
  BY <1>5, <1>6, <1>11 DEF N, X

LEMMA ChainTyped ==
  ASSUME NEW deps, IsFiniteSet(DOMAIN deps), DOMAIN deps \subseteq Int
  PROVE  ChainDepths(deps) \in Maps(Nat) /\ DOMAIN ChainDepths(deps) \subseteq DOMAIN deps
<1>1. PICK acc \in [0..Cardinality(DOMAIN deps) -> {f \in Maps(Nat) : DOMAIN f \subseteq DOMAIN deps}] :
           ChainDepths(deps) = acc[Cardinality(DOMAIN deps)]
  BY ChainSteps
<1>2. Cardinality(DOMAIN deps) \in 0..Cardinality(DOMAIN deps)
  BY FS_CardinalityType
<1> QED
  BY <1>1, <1>2

(* A Registry whose definitions get other ids has the same chains.          *)
SameChains(new, deps, moved) ==
    /\ DOMAIN ChainDepths(moved) = {new[c] : c \in DOMAIN ChainDepths(deps)}
    /\ \A c \in DOMAIN ChainDepths(deps) : ChainDepths(moved)[new[c]] = ChainDepths(deps)[c]

IsRenaming(new, deps, moved) ==
    /\ IsFiniteSet(DOMAIN deps) /\ DOMAIN deps \subseteq Int
    /\ new \in [DOMAIN deps -> Int] /\ \A b, c \in DOMAIN deps : new[b] = new[c] => b = c
    /\ DOMAIN moved = {new[c] : c \in DOMAIN deps}
    /\ \A c \in DOMAIN deps : deps[c] \subseteq DOMAIN deps /\ moved[new[c]] = {new[e] : e \in deps[c]}

LEMMA ChainRenamed ==
  ASSUME NEW deps, NEW new, NEW moved, IsRenaming(new, deps, moved)
  PROVE  SameChains(new, deps, moved)
<1>a. IsFiniteSet(DOMAIN deps) /\ DOMAIN deps \subseteq Int
  BY DEF IsRenaming
<1>b. new \in [DOMAIN deps -> Int]
  BY DEF IsRenaming
<1>c. \A b, c \in DOMAIN deps : new[b] = new[c] => b = c
  BY DEF IsRenaming
<1>d. DOMAIN moved = {new[c] : c \in DOMAIN deps}
  BY DEF IsRenaming
<1>e. \A c \in DOMAIN deps : deps[c] \subseteq DOMAIN deps /\ moved[new[c]] = {new[e] : e \in deps[c]}
  BY DEF IsRenaming
<1> USE <1>a, <1>b, <1>c, <1>d, <1>e
<1> DEFINE D == DOMAIN deps
           N == Cardinality(D)
           X == {f \in Maps(Nat) : DOMAIN f \subseteq D}
           Y == {f \in Maps(Nat) : DOMAIN f \subseteq DOMAIN moved}
<1>1. DOMAIN moved \subseteq Int /\ IsFiniteSet(DOMAIN moved) /\ Cardinality(DOMAIN moved) = N
  <2> DEFINE M == {new[c] : c \in D}
  <2>1. new \in [D -> M] /\ \A m \in M : \E c \in D : new[c] = m
    OBVIOUS
  <2>2. new \in Bijection(D, M)
    <3> HIDE DEF M, D
    <3>1. \A b, c \in D : new[b] = new[c] => b = c
      BY DEF D
    <3> QED
      BY <2>1, <3>1 DEF Bijection, Injection, IsInjective, Surjection
  <2>3. IsFiniteSet(M) /\ Cardinality(M) = N
    <3>1. ExistsBijection(D, M)
      BY <2>2 DEF ExistsBijection
    <3> HIDE DEF M, D
    <3>2. IsFiniteSet(D)
      BY DEF D
    <3> QED
      BY <3>1, <3>2, FS_Bijection
  <2>4. M \subseteq Int
    OBVIOUS
  <2> QED
    BY <2>3, <2>4
<1>2. N \in Nat
  BY FS_CardinalityType
<1>3. PICK a \in [0..N -> X] : a[0] = NoMap /\ ChainDepths(deps) = a[N] /\ \A k \in 1..N : a[k] = Deeper(deps, a[k - 1], k)
  BY ChainSteps
<1>4. PICK b \in [0..N -> Y] : b[0] = NoMap /\ ChainDepths(moved) = b[N] /\ \A k \in 1..N : b[k] = Deeper(moved, b[k - 1], k)
  <2> DEFINE M == Cardinality(DOMAIN moved)
  <2>1. \E b \in [0..M -> Y] : b[0] = NoMap /\ ChainDepths(moved) = b[M] /\ \A k \in 1..M : b[k] = Deeper(moved, b[k - 1], k)
    <3>1. IsFiniteSet(DOMAIN moved) /\ DOMAIN moved \subseteq Int
      BY <1>1
    <3> QED
      BY <3>1, ChainSteps, ZenonT(60)
  <2>2. M = N
    BY <1>1
  <2> HIDE DEF M, N, Y
  <2> QED
    BY <2>1, <2>2
<1> DEFINE Same(f, g) == DOMAIN g = {new[c] : c \in DOMAIN f} /\ \A c \in DOMAIN f : g[new[c]] = f[c]
           S == {k \in 0..N : Same(a[k], b[k])}
<1>5. 0 \in S
  BY <1>2, <1>3, <1>4, NoMapIs
<1> HIDE DEF N
<1>6. ASSUME NEW k \in 1..N, k - 1 \in S
      PROVE  k \in S
  <2> DEFINE f == a[k - 1]
             g == b[k - 1]
             A == AboveOf(deps, f)
             B == AboveOf(moved, g)
  <2>1. k \in Nat /\ k \in 0..N /\ k - 1 \in 0..N
    BY <1>2
  <2>2. f \in Maps(Nat) /\ DOMAIN f \subseteq D /\ g \in Maps(Nat) /\ DOMAIN g \subseteq DOMAIN moved
    BY <1>3, <1>4, <2>1
  <2>3. DOMAIN g = {new[c] : c \in DOMAIN f} /\ \A c \in DOMAIN f : g[new[c]] = f[c]
    BY <1>6
  <2>4. a[k] = Deeper(deps, f, k) /\ b[k] = Deeper(moved, g, k)
    BY <1>3, <1>4
  <2> HIDE DEF f, g
  <2>5. /\ DOMAIN Deeper(deps, f, k) = DOMAIN f \cup A
        /\ \A c \in DOMAIN f : Deeper(deps, f, k)[c] = f[c]
        /\ \A c \in A : Deeper(deps, f, k)[c] = k
    <3>1. IsRegistry(deps) /\ Within(f, deps) /\ k \in Nat
      BY <2>1, <2>2 DEF IsRegistry, Within
    <3>2. IsDeeper(Deeper(deps, f, k), deps, f, k)
      BY <3>1, DeeperHolds
    <3> QED
      BY <3>2 DEF IsDeeper
  <2>6. /\ DOMAIN Deeper(moved, g, k) = DOMAIN g \cup B
        /\ \A c \in DOMAIN g : Deeper(moved, g, k)[c] = g[c]
        /\ \A c \in B : Deeper(moved, g, k)[c] = k
    <3>1. IsFiniteSet(DOMAIN moved) /\ DOMAIN moved \subseteq Int
      BY <1>1
    <3>2. IsRegistry(moved) /\ Within(g, moved) /\ k \in Nat
      BY <2>1, <2>2, <3>1 DEF IsRegistry, Within
    <3>3. IsDeeper(Deeper(moved, g, k), moved, g, k)
      BY <3>2, DeeperHolds
    <3> QED
      BY <3>3 DEF IsDeeper
  <2>7. \A c \in D : c \in DOMAIN f <=> new[c] \in DOMAIN g
    BY <2>2, <2>3
  <2>8. \A c \in D : c \in A <=> new[c] \in B
    <3> TAKE c \in D
    <3>1. deps[c] \subseteq D /\ moved[new[c]] = {new[e] : e \in deps[c]} /\ new[c] \in DOMAIN moved
      OBVIOUS
    <3>2. deps[c] \cap D \subseteq DOMAIN f <=> moved[new[c]] \cap DOMAIN moved \subseteq DOMAIN g
      <4>1. deps[c] \cap D = deps[c] /\ moved[new[c]] \cap DOMAIN moved = moved[new[c]]
        BY <3>1
      <4>2. deps[c] \subseteq DOMAIN f <=> \A e \in deps[c] : new[e] \in DOMAIN g
        BY <2>7, <3>1
      <4>3. (\A e \in deps[c] : new[e] \in DOMAIN g) <=> moved[new[c]] \subseteq DOMAIN g
        BY <3>1
      <4> QED
        BY <4>1, <4>2, <4>3
    <3> QED
      BY <2>7, <3>1, <3>2 DEF AboveOf
  <2>9. A \subseteq D /\ B \subseteq DOMAIN moved
    BY DEF AboveOf
  <2>10. B = {new[c] : c \in A}
    BY <2>8, <2>9
  <2> HIDE DEF A, B
  <2>11. DOMAIN b[k] = {new[c] : c \in DOMAIN a[k]}
    BY <2>3, <2>4, <2>5, <2>6, <2>10
  <2>12. \A c \in DOMAIN a[k] : b[k][new[c]] = a[k][c]
    <3> TAKE c \in DOMAIN a[k]
    <3>1. CASE c \in DOMAIN f
      <4>1. new[c] \in DOMAIN g /\ g[new[c]] = f[c]
        BY <2>3, <3>1
      <4> QED
        BY <2>4, <2>5, <2>6, <3>1, <4>1
    <3>2. CASE c \in A
      <4>1. new[c] \in B
        BY <2>10, <3>2
      <4> QED
        BY <2>4, <2>5, <2>6, <3>2, <4>1
    <3> QED
      BY <2>4, <2>5, <3>1, <3>2
  <2> QED
    BY <2>1, <2>11, <2>12
<1>7. N \in S
  <2> HIDE DEF S
  <2>1. 0..N \subseteq S
    BY <1>2, <1>5, <1>6, Induction, Zenon
  <2> QED
    BY <1>2, <2>1
<1>8. Same(a[N], b[N])
  BY <1>7
<1> QED
  BY <1>3, <1>4, <1>8 DEF SameChains

GraphHolds(components) ==
    /\ DOMAIN ChainDepths(dependencies(components)) = DOMAIN components
    /\ \A c \in DOMAIN components : ChainDepths(dependencies(components))[c] <= MaxNesting

BindsHold(components) ==
    \A c \in DOMAIN components : /\ components[c].id = c
                                 /\ components[c].binds \subseteq {n.id : n \in Range(components[c].nodes)}

RefsHold(d) == \A n \in NodesOf(d) : IsLocal(n) => n.source[2] \in DOMAIN d.components

LEMMA DependenciesAre ==
  ASSUME NEW d \in DocumentRecords
  PROVE  /\ DOMAIN dependencies(d.components) = DOMAIN d.components
         /\ IsRegistry(dependencies(d.components))
         /\ ChainDepths(dependencies(d.components)) \in Maps(Nat)
         /\ DOMAIN ChainDepths(dependencies(d.components)) \subseteq DOMAIN d.components
         /\ \A c \in DOMAIN d.components : dependencies(d.components)[c] = localRefs(d.components[c].nodes)
<1> DEFINE deps == dependencies(d.components)
<1>1. DOMAIN deps = DOMAIN d.components /\ \A c \in DOMAIN d.components : deps[c] = localRefs(d.components[c].nodes)
  BY DEF dependencies
<1>2. IsFiniteSet(DOMAIN d.components) /\ DOMAIN d.components \subseteq Int
  BY SourcesAre
<1> HIDE DEF deps
<1>3. IsFiniteSet(DOMAIN deps) /\ DOMAIN deps \subseteq Int
  BY <1>1, <1>2
<1>4. ChainDepths(deps) \in Maps(Nat) /\ DOMAIN ChainDepths(deps) \subseteq DOMAIN deps
  BY <1>3, ChainTyped
<1> QED
  BY <1>1, <1>3, <1>4 DEF deps, IsRegistry

LEMMA LocalSource ==
  ASSUME NEW n \in NodeRecord, IsLocal(n)
  PROVE  n.source = <<"local", n.source[2]>> /\ n.source[2] \in Int
<1>1. n.source \in {<<>>} \cup ({"local", "external"} \X Int) /\ n.source # <<>> /\ n.source[1] = "local"
  BY DEF NodeRecord, IsLocal, IsInstance
<1> QED
  BY <1>1

LEMMA RefsMeans ==
  ASSUME NEW d \in DocumentRecords
  PROVE  localRefs(walkDocument(d)) = {n.source[2] : n \in {m \in NodesOf(d) : IsLocal(m)}}
BY WalkIs DEF localRefs

(* Resolved, in terms of the Registry and of the instances.                  *)
LEMMA ResolvedMeans ==
  ASSUME NEW d \in DocumentRecords, NodesDistinct(d)
  PROVE  Resolved(d) <=> GraphHolds(d.components) /\ BindsHold(d.components) /\ RefsHold(d)
<1> DEFINE deps == dependencies(d.components)
           depths == ChainDepths(deps)
           row == walkDocument(d)
           ids == [i \in DOMAIN row |-> row[i].id]
           loose == DOMAIN deps \ DOMAIN depths
           deep == {c \in DOMAIN depths : depths[c] > MaxNesting}
           unbound == {c \in DOMAIN deps : \E b \in d.components[c].binds : b \notin {n.id : n \in Range(d.components[c].nodes)}}
           shared == {c \in DOMAIN deps : \E n \in Range(d.components[c].nodes) : n.id \in Repeated(ids)}
           lost == localRefs(row) \ DOMAIN deps
           large == IF PredictedTotal(d) > Policy.expanded THEN {Missing} ELSE {}
           issues == validateComponentGraph(d)
<1>1. loose \subseteq issues
  BY DEF validateComponentGraph
<1>2. deep \subseteq issues
  BY DEF validateComponentGraph
<1>3. unbound \subseteq issues
  BY DEF validateComponentGraph
<1>4. lost \subseteq issues
  BY DEF validateComponentGraph
<1>5. issues \subseteq loose \cup deep \cup unbound \cup shared \cup lost \cup large
  BY DEF validateComponentGraph
<1>6. large \subseteq {Missing}
  OBVIOUS
<1>7. shared = {}
  <2>1. Repeated(ids) = {} <=> \A x, y \in DOMAIN ids : ids[x] = ids[y] => x = y
    BY RepeatedNone
  <2>3. DOMAIN row = 1..Len(row)
    BY WalkIs
  <2>4. row = FlattenSeq(AllTrees(d)) /\ AllTrees(d) \in Trees
    BY AllTreesAre DEF walkDocument, AllTrees
  <2>5. DistinctTrees(AllTrees(d)) <=> \A x, y \in 1..Len(row) : row[x].id = row[y].id => x = y
    BY <2>4, FlattenDistinct
  <2>6. DistinctTrees(AllTrees(d))
    BY DistinctMeans
  <2>2. Repeated(ids) = {}
    <3> HIDE DEF row
    <3> QED
      BY <2>1, <2>3, <2>5, <2>6
  <2> HIDE DEF ids
  <2> QED
    BY <2>2
<1>8. DOMAIN deps = DOMAIN d.components /\ DOMAIN depths \subseteq DOMAIN deps /\ DOMAIN deps \subseteq Int /\ depths \in Maps(Nat)
  BY DependenciesAre DEF IsRegistry
<1>9. MaxNesting \in Nat /\ Missing \notin Int
  BY ImportAssumption DEF ImportAssumption
<1>10. \A c \in DOMAIN depths : depths[c] \in Nat
  <2> HIDE DEF depths
  <2> QED
    BY <1>8, MapsAre DEF IsMap
<1>11. lost \subseteq Int
  <2>1. \A n \in NodesOf(d) : n \in NodeRecord
    BY DEF NodesOf
  <2>2. \A n \in NodesOf(d) : IsLocal(n) => n.source[2] \in Int
    BY <2>1, LocalSource
  <2> QED
    BY <2>2, RefsMeans
<1>12. lost = {} <=> RefsHold(d)
  <2>1. lost = {} <=> localRefs(row) \subseteq DOMAIN d.components
    BY <1>8
  <2>2. localRefs(row) \subseteq DOMAIN d.components <=> \A n \in NodesOf(d) : IsLocal(n) => n.source[2] \in DOMAIN d.components
    BY RefsMeans
  <2> QED
    BY <2>1, <2>2 DEF RefsHold
<1>13. unbound = {} <=> \A c \in DOMAIN d.components : d.components[c].binds \subseteq {n.id : n \in Range(d.components[c].nodes)}
  BY <1>8
<1>14. loose = {} /\ deep = {} <=> GraphHolds(d.components)
  <2>1. loose = {} <=> DOMAIN depths = DOMAIN d.components
    BY <1>8
  <2>2. deep = {} <=> \A c \in DOMAIN depths : depths[c] <= MaxNesting
    BY <1>9, <1>10
  <2>3. GraphHolds(d.components) <=> DOMAIN depths = DOMAIN d.components /\ \A c \in DOMAIN d.components : depths[c] <= MaxNesting
    BY DEF GraphHolds
  <2> HIDE DEF loose, deep, depths
  <2> QED
    BY <2>1, <2>2, <2>3
<1>15. issues \subseteq {Missing} <=> loose = {} /\ deep = {} /\ unbound = {} /\ lost = {}
  <2>1. loose \subseteq Int /\ deep \subseteq Int /\ unbound \subseteq Int
    BY <1>8
  <2> HIDE DEF loose, deep, unbound, shared, lost, large, issues
  <2> QED
    BY <1>1, <1>2, <1>3, <1>4, <1>5, <1>6, <1>7, <1>9, <1>11, <2>1
<1>16. Resolved(d) <=> issues \subseteq {Missing} /\ \A c \in DOMAIN d.components : d.components[c].id = c
  BY DEF Resolved
<1> HIDE DEF loose, deep, unbound, shared, lost, large, issues
<1>17. BindsHold(d.components) <=>
         /\ \A c \in DOMAIN d.components : d.components[c].id = c
         /\ \A c \in DOMAIN d.components : d.components[c].binds \subseteq {n.id : n \in Range(d.components[c].nodes)}
  BY DEF BindsHold
<1> QED
  BY <1>12, <1>13, <1>14, <1>15, <1>16, <1>17

-----------------------------------------------------------------------------
(* Pasting.                                                                 *)

LEMMA OverValues ==
  ASSUME NEW f, NEW g
  PROVE  /\ DOMAIN Over(f, g) = DOMAIN f \cup DOMAIN g
         /\ \A x \in DOMAIN f : Over(f, g)[x] = f[x]
         /\ \A x \in DOMAIN g \ DOMAIN f : Over(f, g)[x] = g[x]
  BY DEF Over

LEMMA MostOfOne ==
  ASSUME NEW x \in Int
  PROVE  MostOf({x}) = x
<1>1. IsFiniteSet({x}) /\ {x} \in SUBSET Int /\ {x} # {}
  BY FS_Singleton
<1> QED
  BY <1>1, MostOfIs

LEMMA AscendingIndex ==
  ASSUME NEW S \in SUBSET Int, IsFiniteSet(S), NEW k \in S
  PROVE  /\ MostOf({i \in DOMAIN Ascending(S) : Ascending(S)[i] = k}) \in 1..Cardinality(S)
         /\ Ascending(S)[MostOf({i \in DOMAIN Ascending(S) : Ascending(S)[i] = k})] = k
<1> DEFINE A == Ascending(S)
           n == Cardinality(S)
<1>1. /\ A \in [1..n -> S] /\ \A i, j \in 1..n : A[i] = A[j] => i = j
      /\ \A x \in S : \E i \in 1..n : A[i] = x
  BY AscendingLists
<1> HIDE DEF A, n
<1>2. PICK x \in 1..n : A[x] = k
  BY <1>1
<1>3. {i \in DOMAIN A : A[i] = k} = {x}
  BY <1>1, <1>2
<1>4. MostOf({i \in DOMAIN A : A[i] = k}) = x
  BY <1>3, MostOfOne
<1> QED
  BY <1>2, <1>4 DEF A, n

(* What is known of a payload: its assets are filed under their own ids, and *)
(* none of these is new.                                                     *)
Settled(payload, m) ==
    /\ IsPayload(payload)
    /\ \A a \in DOMAIN payload.assets : a <= m /\ payload.assets[a].id = a

LEMMA NodeWithId ==
  ASSUME NEW n \in NodeRecord, NEW id \in Int
  PROVE  /\ [n EXCEPT !.id = id] \in NodeRecord
         /\ [n EXCEPT !.id = id].id = id
  BY DEF NodeRecord

LEMMA RegeneratedIs ==
  ASSUME NEW nodes \in Seq(NodeRecord), NEW from \in Int
  PROVE  /\ regenerateNodeIds(nodes, from) \in Seq(NodeRecord)
         /\ DOMAIN regenerateNodeIds(nodes, from) = 1..Len(nodes)
         /\ Len(regenerateNodeIds(nodes, from)) = Len(nodes)
         /\ \A i \in 1..Len(nodes) : regenerateNodeIds(nodes, from)[i] = [nodes[i] EXCEPT !.id = from + i]
<1>1. regenerateNodeIds(nodes, from) = [i \in 1..Len(nodes) |-> [nodes[i] EXCEPT !.id = from + i]]
  BY DEF regenerateNodeIds
<1>2. \A i \in 1..Len(nodes) : nodes[i] \in NodeRecord
  OBVIOUS
<1>3. \A i \in 1..Len(nodes) : [nodes[i] EXCEPT !.id = from + i] \in NodeRecord
  <2> TAKE i \in 1..Len(nodes)
  <2>1. nodes[i] \in NodeRecord /\ from + i \in Int
    BY <1>2
  <2> QED
    BY <2>1, NodeWithId
<1>4. Len(nodes) \in Nat
  OBVIOUS
<1> DEFINE R == regenerateNodeIds(nodes, from)
<1>5. R = [i \in 1..Len(nodes) |-> [nodes[i] EXCEPT !.id = from + i]]
  BY <1>1
<1> HIDE DEF R
<1>6. R \in [1..Len(nodes) -> NodeRecord]
  BY <1>3, <1>5
<1>7. R \in Seq(NodeRecord) /\ DOMAIN R = 1..Len(nodes) /\ Len(R) = Len(nodes)
  BY <1>4, <1>6
<1>8. \A i \in 1..Len(nodes) : R[i] = [nodes[i] EXCEPT !.id = from + i]
  BY <1>5
<1> QED
  BY <1>7, <1>8 DEF R

(* What materializeClipboardNodes prepares for a document of another id.     *)
IsPrepared(prepared, rekeyed, payload, d, m) ==
    /\ rekeyed \in [Colliding(payload, d) -> Int]
    /\ prepared.nodes = [i \in 1..Len(payload.nodes) |-> Renamed(regenerateNodeIds(payload.nodes, m)[i], rekeyed)]
    /\ prepared.assetsToAdd \in Maps(AssetRecord)
    /\ \A a \in DOMAIN prepared.assetsToAdd :
         /\ prepared.assetsToAdd[a].id = a
         /\ a <= m + Len(payload.nodes) + Cardinality(DOMAIN prepared.assetsToAdd)
         /\ a \in DOMAIN d.assets => a > m
    /\ \A k \in Colliding(payload, d) :
         rekeyed[k] \in DOMAIN prepared.assetsToAdd /\ prepared.assetsToAdd[rekeyed[k]].uri = payload.assets[k].uri
    /\ \A k \in DOMAIN payload.assets \ DOMAIN d.assets :
         k \in DOMAIN prepared.assetsToAdd /\ prepared.assetsToAdd[k] = payload.assets[k]

LEMMA PreparedAssets ==
  ASSUME NEW d \in DocumentRecords, NEW m \in Int,
         NEW payload, Settled(payload, m), payload.document # d.id
  PROVE  \E rekeyed : IsPrepared(materializeClipboardNodes(payload, d, m), rekeyed, payload, d, m)
<1> DEFINE prepared == materializeClipboardNodes(payload, d, m)
           C == Colliding(payload, d)
           clash == Ascending(C)
           nodes == regenerateNodeIds(payload.nodes, m)
           base == m + Len(nodes)
           rekeyed == [k \in Range(clash) |-> m + Len(nodes) + MostOf({i \in DOMAIN clash : clash[i] = k})]
           taken == DOMAIN payload.assets \ DOMAIN d.assets
           plain == [k \in taken |-> payload.assets[k]]
           fresh == [a \in Range(rekeyed) |-> [payload.assets[CHOOSE k \in DOMAIN rekeyed : rekeyed[k] = a] EXCEPT !.id = a]]
<1>1. /\ payload.nodes \in Seq(NodeRecord) /\ payload.assets \in Maps(AssetRecord)
      /\ \A a \in DOMAIN payload.assets : a <= m /\ payload.assets[a].id = a
  BY MapsAre DEF Settled, IsPayload, NodeTree
<1>2. /\ payload.assets \in [DOMAIN payload.assets -> AssetRecord]
      /\ DOMAIN payload.assets \subseteq Int /\ IsFiniteSet(DOMAIN payload.assets)
  BY <1>1, MapsAre DEF IsMap
<1>3. Len(nodes) = Len(payload.nodes) /\ Len(nodes) \in Nat /\ base \in Int
  BY <1>1, RegeneratedIs
<1>4. prepared.nodes = [i \in DOMAIN nodes |-> Renamed(nodes[i], rekeyed)] /\ prepared.assetsToAdd = Over(plain, fresh)
  BY DEF materializeClipboardNodes
<1>5. C \in SUBSET Int /\ IsFiniteSet(C) /\ C \subseteq DOMAIN payload.assets /\ C \subseteq DOMAIN d.assets
  <2>1. C \subseteq DOMAIN payload.assets /\ C \subseteq DOMAIN d.assets
    BY DEF Colliding
  <2> HIDE DEF C
  <2> QED
    BY <1>2, <2>1, FS_Subset
<1> HIDE DEF C
<1>6. Range(clash) = C
  <2>1. clash \in [1..Cardinality(C) -> C] /\ \A x \in C : \E i \in 1..Cardinality(C) : clash[i] = x
    BY <1>5, AscendingLists
  <2> HIDE DEF clash
  <2> QED
    BY <2>1 DEF Range
<1>7. \A k \in C : /\ rekeyed[k] \in base + 1..base + Cardinality(C)
                   /\ clash[rekeyed[k] - base] = k
  <2> TAKE k \in C
  <2> DEFINE x == MostOf({i \in DOMAIN clash : clash[i] = k})
  <2>1. x \in 1..Cardinality(C) /\ clash[x] = k
    BY <1>5, AscendingIndex
  <2>2. rekeyed[k] = base + x
    BY <1>6
  <2>3. Cardinality(C) \in Nat
    BY <1>5, FS_CardinalityType
  <2> HIDE DEF x, rekeyed, clash, base
  <2>4. base + x - base = x /\ base + x \in base + 1..base + Cardinality(C)
    BY <1>3, <2>1, <2>3
  <2> DEFINE y == rekeyed[k]
  <2>5. y = base + x
    BY <2>2
  <2> HIDE DEF y
  <2>6. y \in base + 1..base + Cardinality(C) /\ clash[y - base] = k
    BY <1>3, <2>1, <2>3, <2>4, <2>5
  <2> QED
    BY <2>6 DEF y
<1>8. DOMAIN rekeyed = C
  BY <1>6
<1> HIDE DEF clash, rekeyed, nodes
<1>9. \A j, k \in C : rekeyed[j] = rekeyed[k] => j = k
  BY <1>7
<1>10. Cardinality(C) \in Nat
  BY <1>5, FS_CardinalityType
<1>11. rekeyed \in [C -> Int] /\ \A k \in C : rekeyed[k] > m
  <2>1. \A k \in C : rekeyed[k] \in Int /\ rekeyed[k] > m
    <3> TAKE k \in C
    <3>1. rekeyed[k] \in base + 1..base + Cardinality(C)
      BY <1>7
    <3> QED
      BY <1>3, <1>10, <3>1
  <2>2. rekeyed = [k \in C |-> rekeyed[k]]
    BY <1>8 DEF rekeyed
  <2> QED
    BY <2>1, <2>2
<1>12. \A k \in C : (CHOOSE j \in DOMAIN rekeyed : rekeyed[j] = rekeyed[k]) = k
  BY <1>8, <1>9
<1>13. Range(rekeyed) = {rekeyed[k] : k \in C}
  BY <1>8 DEF Range
<1>14. \A k \in C : fresh[rekeyed[k]] = [payload.assets[k] EXCEPT !.id = rekeyed[k]]
  BY <1>12, <1>13
<1>15. DOMAIN fresh = Range(rekeyed) /\ DOMAIN plain = taken
  OBVIOUS
<1>16. fresh \in Maps(AssetRecord) /\ \A a \in DOMAIN fresh : fresh[a].id = a
  <2>1. \A a \in Range(rekeyed) : \E k \in C : a = rekeyed[k]
    BY <1>13
  <2>2. \A k \in C : payload.assets[k] \in AssetRecord /\ rekeyed[k] \in Int
    BY <1>2, <1>5, <1>11
  <2>3. \A k \in C : [payload.assets[k] EXCEPT !.id = rekeyed[k]] \in AssetRecord
                     /\ [payload.assets[k] EXCEPT !.id = rekeyed[k]].id = rekeyed[k]
    BY <2>2 DEF AssetRecord
  <2>4. IsFiniteSet(Range(rekeyed)) /\ Range(rekeyed) \subseteq Int
    <3>1. Range(rekeyed) \subseteq base + 1..base + Cardinality(C)
      BY <1>7, <1>13
    <3>2. IsFiniteSet(base + 1..base + Cardinality(C))
      <4>1. base + 1 \in Int /\ base + Cardinality(C) \in Int
        BY <1>3, <1>10
      <4> QED
        BY <4>1, FS_Interval
    <3> QED
      BY <1>3, <1>10, <3>1, <3>2, FS_Subset
  <2>5. fresh = [a \in DOMAIN fresh |-> fresh[a]]
    OBVIOUS
  <2> HIDE DEF fresh
  <2>6. \A a \in DOMAIN fresh : fresh[a] \in AssetRecord /\ fresh[a].id = a
    <3> TAKE a \in DOMAIN fresh
    <3>1. a \in Range(rekeyed)
      BY <1>15
    <3>2. PICK k \in C : a = rekeyed[k]
      BY <2>1, <3>1
    <3>3. fresh[a] = [payload.assets[k] EXCEPT !.id = a]
      BY <1>14, <3>2
    <3>4. payload.assets[k] \in AssetRecord /\ a \in Int
      BY <2>2, <3>2
    <3> QED
      BY <3>3, <3>4 DEF AssetRecord
  <2>7. fresh \in [DOMAIN fresh -> AssetRecord]
    BY <2>5, <2>6
  <2> QED
    BY <1>15, <2>4, <2>6, <2>7, MapsAre DEF IsMap
<1>17. plain \in Maps(AssetRecord) /\ \A a \in taken : plain[a] = payload.assets[a]
  <2>1. IsFiniteSet(taken) /\ taken \subseteq Int
    BY <1>2, FS_Subset
  <2>2. plain \in [taken -> AssetRecord]
    BY <1>2
  <2> QED
    BY <2>1, <2>2, MapsAre DEF IsMap
<1>18. taken \cap Range(rekeyed) = {}
  <2>1. ASSUME NEW k \in C, rekeyed[k] \in taken
        PROVE  FALSE
    <3>1. rekeyed[k] > m /\ rekeyed[k] <= m /\ rekeyed[k] \in Int
      BY <1>1, <1>11, <2>1
    <3> QED
      BY <3>1
  <2> QED
    BY <1>13, <2>1
<1> HIDE DEF plain, fresh, taken
<1> DEFINE added == Over(plain, fresh)
<1>19. /\ added \in Maps(AssetRecord) /\ DOMAIN added = taken \cup Range(rekeyed)
       /\ \A a \in taken : added[a] = payload.assets[a]
       /\ \A a \in Range(rekeyed) : added[a] = fresh[a]
  <2>1. /\ Over(plain, fresh) \in Maps(AssetRecord) /\ DOMAIN Over(plain, fresh) = DOMAIN plain \cup DOMAIN fresh
        /\ \A x \in DOMAIN plain : Over(plain, fresh)[x] = plain[x]
        /\ \A x \in DOMAIN fresh \ DOMAIN plain : Over(plain, fresh)[x] = fresh[x]
    <3>1. plain \in Maps(AssetRecord) /\ fresh \in Maps(AssetRecord)
      BY <1>16, <1>17
    <3>2. Over(plain, fresh) \in Maps(AssetRecord)
      BY <3>1, OverIs
    <3> QED
      BY <3>2, OverValues
  <2>2. DOMAIN added = taken \cup Range(rekeyed)
    BY <1>15, <2>1
  <2>3. \A a \in taken : added[a] = payload.assets[a]
    BY <1>15, <1>17, <2>1
  <2>4. \A a \in Range(rekeyed) : added[a] = fresh[a]
    BY <1>15, <1>18, <2>1
  <2> QED
    BY <2>1, <2>2, <2>3, <2>4
<1> HIDE DEF added
<1>20. Cardinality(C) <= Cardinality(DOMAIN added)
  <2>1. IsFiniteSet(DOMAIN added) /\ Range(rekeyed) \subseteq DOMAIN added
    BY <1>19, MapsAre DEF IsMap
  <2>2. rekeyed \in Injection(C, DOMAIN added)
    <3>1. \A k \in C : rekeyed[k] \in DOMAIN added
      BY <1>13, <2>1
    <3>2. rekeyed \in [C -> DOMAIN added]
      BY <1>11, <3>1
    <3> QED
      BY <1>9, <3>2 DEF Injection, IsInjective
  <2> QED
    BY <2>1, <2>2, FS_Injection
<1>21. Cardinality(DOMAIN added) \in Nat
  BY <1>19, MapsAre, FS_CardinalityType DEF IsMap
<1>22. ASSUME NEW a \in DOMAIN added
       PROVE  added[a].id = a /\ a <= m + Len(payload.nodes) + Cardinality(DOMAIN added)
  <2>1. CASE a \in taken
    <3>1. a \in DOMAIN payload.assets
      BY <2>1 DEF taken
    <3>2. added[a] = payload.assets[a] /\ payload.assets[a].id = a /\ a <= m /\ a \in Int
      BY <1>1, <1>2, <1>19, <2>1, <3>1
    <3> QED
      BY <1>3, <1>21, <3>2
  <2>2. CASE a \in Range(rekeyed)
    <3>1. a \in base + 1..base + Cardinality(C)
      BY <1>7, <1>13, <2>2
    <3>2. a <= m + Len(payload.nodes) + Cardinality(DOMAIN added)
      BY <1>3, <1>10, <1>20, <1>21, <3>1
    <3> QED
      BY <1>15, <1>16, <1>19, <2>2, <3>2
  <2> QED
    BY <1>19, <2>1, <2>2
<1>23. \A k \in C : rekeyed[k] > m /\ rekeyed[k] \in DOMAIN added /\ added[rekeyed[k]].uri = payload.assets[k].uri
  <2> TAKE k \in C
  <2>1. rekeyed[k] \in Range(rekeyed)
    BY <1>13
  <2>2. added[rekeyed[k]] = [payload.assets[k] EXCEPT !.id = rekeyed[k]]
    BY <1>14, <1>19, <2>1
  <2>3. payload.assets[k] \in AssetRecord
    BY <1>2, <1>5
  <2>4. [payload.assets[k] EXCEPT !.id = rekeyed[k]].uri = payload.assets[k].uri
    BY <2>3 DEF AssetRecord
  <2> QED
    BY <1>11, <1>19, <2>1, <2>2, <2>4
<1>24. \A k \in DOMAIN payload.assets \ DOMAIN d.assets : k \in DOMAIN added /\ added[k] = payload.assets[k]
  BY <1>19 DEF taken
<1>25. \A k \in DOMAIN added : k \in DOMAIN d.assets => k > m
  <2>1. \A k \in Range(rekeyed) : k > m
    BY <1>11, <1>13
  <2> QED
    BY <1>19, <2>1 DEF taken
<1>26. prepared.assetsToAdd = added
  BY <1>4 DEF added
<1>27. prepared.nodes = [i \in DOMAIN nodes |-> Renamed(nodes[i], rekeyed)]
  BY <1>4
<1>28. DOMAIN nodes = 1..Len(payload.nodes)
  BY <1>1, RegeneratedIs DEF nodes
<1> HIDE DEF prepared
<1>29. IsPrepared(prepared, rekeyed, payload, d, m)
  <2>1. rekeyed \in [Colliding(payload, d) -> Int]
    BY <1>11 DEF C
  <2>2. prepared.nodes = [i \in 1..Len(payload.nodes) |-> Renamed(regenerateNodeIds(payload.nodes, m)[i], rekeyed)]
    BY <1>27, <1>28 DEF nodes
  <2>3. \A a \in DOMAIN added : added[a].id = a /\ a <= m + Len(payload.nodes) + Cardinality(DOMAIN added)
    BY <1>22
  <2>4. \A k \in Colliding(payload, d) : rekeyed[k] \in DOMAIN added /\ added[rekeyed[k]].uri = payload.assets[k].uri
    BY <1>23 DEF C
  <2> QED
    BY <1>19, <1>24, <1>25, <1>26, <2>1, <2>2, <2>3, <2>4 DEF IsPrepared
<1> QED
  BY <1>29 DEF prepared

(* What a session may rely on of the open document: nothing in it is newer   *)
(* than the factory's last id.                                               *)
Strong(d) ==
    /\ d \in DocumentRecords
    /\ PagesDistinct(d) /\ NodesDistinct(d) /\ AssetsFiled(d)
    /\ GraphHolds(d.components) /\ BindsHold(d.components) /\ RefsHold(d)

NodesUpTo(d, m) == \A n \in NodesOf(d) : n.id <= m

Below(d, m) == NodesUpTo(d, m) /\ \A a \in DOMAIN d.assets : a <= m

LEMMA SoundMeans ==
  ASSUME NEW d
  PROVE  Sound(d) <=> Strong(d)
<1>1. CASE d \in DocumentRecords
  <2>1. Identified(d) <=> PagesDistinct(d) /\ NodesDistinct(d) /\ AssetsFiled(d)
    BY <1>1, UniqueMeans
  <2>2. NodesDistinct(d) => (Resolved(d) <=> GraphHolds(d.components) /\ BindsHold(d.components) /\ RefsHold(d))
    BY <1>1, ResolvedMeans
  <2> QED
    BY <1>1, <2>1, <2>2, DocumentsAre DEF Sound, Strong
<1>2. CASE d \notin DocumentRecords
  BY <1>2, DocumentsAre DEF Sound, Strong
<1> QED
  BY <1>1, <1>2

LEMMA RenamedIs ==
  ASSUME NEW n \in NodeRecord, NEW S, NEW assets \in [S -> Int]
  PROVE  /\ Renamed(n, assets) \in NodeRecord
         /\ Renamed(n, assets).id = n.id /\ Renamed(n, assets).depth = n.depth
         /\ Renamed(n, assets).source = n.source
         /\ Renamed(n, assets).asset = IF n.asset \in S THEN assets[n.asset] ELSE n.asset
<1> DEFINE a == IF n.asset \in S THEN assets[n.asset] ELSE n.asset
           b == IF n.mask \in S THEN assets[n.mask] ELSE n.mask
<1>1. n.asset \in Int /\ n.mask \in Int
  BY DEF NodeRecord
<1>2. a \in Int /\ b \in Int
  BY <1>1
<1>3. Renamed(n, assets) = [n EXCEPT !.asset = a, !.mask = b]
  BY DEF Renamed, NodeRecord
<1> HIDE DEF a, b
<1>4. /\ [n EXCEPT !.asset = a, !.mask = b] \in NodeRecord
      /\ [n EXCEPT !.asset = a, !.mask = b].id = n.id
      /\ [n EXCEPT !.asset = a, !.mask = b].depth = n.depth
      /\ [n EXCEPT !.asset = a, !.mask = b].source = n.source
      /\ [n EXCEPT !.asset = a, !.mask = b].asset = a
  BY <1>2 DEF NodeRecord
<1> QED
  BY <1>3, <1>4 DEF a

(* The nodes and assets a paste adds: under new ids, showing what the        *)
(* payload's nodes showed.                                                   *)
IsPasted(prepared, payload, d, m) ==
    /\ prepared.nodes \in [1..Len(payload.nodes) -> NodeRecord]
    /\ \A i \in 1..Len(payload.nodes) :
         prepared.nodes[i].id = m + i /\ prepared.nodes[i].source = payload.nodes[i].source
    /\ prepared.assetsToAdd \in Maps(AssetRecord)
    /\ \A a \in DOMAIN prepared.assetsToAdd :
         /\ prepared.assetsToAdd[a].id = a
         /\ a <= m + Len(payload.nodes) + Cardinality(DOMAIN prepared.assetsToAdd)
    /\ payload.document # d.id => \A i \in 1..Len(payload.nodes) :
         payload.nodes[i].asset \in DOMAIN payload.assets =>
           LET shown == prepared.nodes[i].asset
           IN  /\ shown \in DOMAIN Over(prepared.assetsToAdd, d.assets)
               /\ Over(prepared.assetsToAdd, d.assets)[shown].uri = payload.assets[payload.nodes[i].asset].uri

LEMMA PastedIs ==
  ASSUME NEW d \in DocumentRecords, NEW m \in Int, \A a \in DOMAIN d.assets : a <= m,
         NEW payload, Settled(payload, m)
  PROVE  IsPasted(materializeClipboardNodes(payload, d, m), payload, d, m)
<1> DEFINE prepared == materializeClipboardNodes(payload, d, m)
           nodes == regenerateNodeIds(payload.nodes, m)
           n == Len(payload.nodes)
<1>1. payload.nodes \in Seq(NodeRecord) /\ payload.assets \in Maps(AssetRecord) /\ n \in Nat
  BY MapsAre DEF Settled, IsPayload, NodeTree
<1>2. /\ nodes \in Seq(NodeRecord) /\ DOMAIN nodes = 1..n /\ Len(nodes) = n
      /\ \A i \in 1..n : nodes[i] = [payload.nodes[i] EXCEPT !.id = m + i]
  BY <1>1, RegeneratedIs
<1> HIDE DEF nodes, n
<1>3. \A i \in 1..n : /\ nodes[i] \in NodeRecord /\ nodes[i].id = m + i /\ nodes[i].source = payload.nodes[i].source
                      /\ nodes[i].asset = payload.nodes[i].asset
  <2> TAKE i \in 1..n
  <2>1. payload.nodes[i] \in NodeRecord
    BY <1>1 DEF n
  <2>2. nodes[i] \in NodeRecord
    BY <1>2
  <2>3. nodes[i] = [payload.nodes[i] EXCEPT !.id = m + i]
    BY <1>2
  <2> QED
    BY <2>1, <2>2, <2>3 DEF NodeRecord
<1>4. \A a \in DOMAIN d.assets : a \in Int
  BY MapsAre DEF DocumentRecords, IsMap
<1>5. CASE payload.document = d.id
  <2>1. prepared.nodes = nodes /\ prepared.assetsToAdd = NoMap
    BY <1>5 DEF materializeClipboardNodes, nodes
  <2> HIDE DEF prepared
  <2>2. NoMap \in Maps(AssetRecord) /\ DOMAIN NoMap = {}
    BY NoMapIs
  <2>3. nodes \in [1..n -> NodeRecord]
    BY <1>2, <1>3
  <2>4. IsPasted(prepared, payload, d, m)
    BY <1>3, <1>5, <2>1, <2>2, <2>3 DEF IsPasted, n
  <2> QED
    BY <2>4 DEF prepared
<1>6. CASE payload.document # d.id
  <2>1. PICK rekeyed : IsPrepared(prepared, rekeyed, payload, d, m)
    BY <1>6, PreparedAssets
  <2> DEFINE C == Colliding(payload, d)
  <2> HIDE DEF prepared, C
  <2>2. /\ rekeyed \in [C -> Int]
        /\ prepared.nodes = [i \in 1..n |-> Renamed(nodes[i], rekeyed)]
        /\ prepared.assetsToAdd \in Maps(AssetRecord)
    BY <2>1 DEF IsPrepared, C, n, nodes
  <2>3. \A a \in DOMAIN prepared.assetsToAdd :
          /\ prepared.assetsToAdd[a].id = a
          /\ a <= m + n + Cardinality(DOMAIN prepared.assetsToAdd)
          /\ a \in DOMAIN d.assets => a > m
    BY <2>1 DEF IsPrepared, n
  <2>4. /\ \A k \in C : rekeyed[k] \in DOMAIN prepared.assetsToAdd
                        /\ prepared.assetsToAdd[rekeyed[k]].uri = payload.assets[k].uri
        /\ \A k \in DOMAIN payload.assets \ DOMAIN d.assets :
             k \in DOMAIN prepared.assetsToAdd /\ prepared.assetsToAdd[k] = payload.assets[k]
    BY <2>1 DEF IsPrepared, C
  <2>5. \A i \in 1..n : /\ prepared.nodes[i] \in NodeRecord /\ prepared.nodes[i].id = m + i
                        /\ prepared.nodes[i].source = payload.nodes[i].source
                        /\ prepared.nodes[i].asset = IF payload.nodes[i].asset \in C THEN rekeyed[payload.nodes[i].asset]
                                                     ELSE payload.nodes[i].asset
    <3> TAKE i \in 1..n
    <3>1. nodes[i] \in NodeRecord
      BY <1>3
    <3>2. prepared.nodes[i] = Renamed(nodes[i], rekeyed)
      BY <2>2
    <3>3. /\ Renamed(nodes[i], rekeyed) \in NodeRecord
          /\ Renamed(nodes[i], rekeyed).id = nodes[i].id
          /\ Renamed(nodes[i], rekeyed).source = nodes[i].source
          /\ Renamed(nodes[i], rekeyed).asset = IF nodes[i].asset \in C THEN rekeyed[nodes[i].asset] ELSE nodes[i].asset
      BY <2>2, <3>1, RenamedIs
    <3> QED
      BY <1>3, <3>2, <3>3
  <2>6. prepared.nodes \in [1..n -> NodeRecord]
    BY <2>2, <2>5
  <2> DEFINE added == prepared.assetsToAdd
             all == Over(added, d.assets)
  <2>7. /\ DOMAIN all = DOMAIN added \cup DOMAIN d.assets
        /\ \A x \in DOMAIN added : all[x] = added[x]
        /\ \A x \in DOMAIN d.assets \ DOMAIN added : all[x] = d.assets[x]
    BY OverValues
  <2>8. ASSUME NEW i \in 1..n, payload.nodes[i].asset \in DOMAIN payload.assets
        PROVE  /\ prepared.nodes[i].asset \in DOMAIN all
               /\ all[prepared.nodes[i].asset].uri = payload.assets[payload.nodes[i].asset].uri
    <3> DEFINE k == payload.nodes[i].asset
    <3> HIDE DEF added, all
    <3>1. CASE k \in C
      <4>1. prepared.nodes[i].asset = rekeyed[k]
        BY <2>5, <3>1
      <4>2. rekeyed[k] \in DOMAIN added /\ added[rekeyed[k]].uri = payload.assets[k].uri
        BY <2>4, <3>1 DEF added
      <4> QED
        BY <2>7, <4>1, <4>2
    <3>2. CASE k \notin C /\ k \notin DOMAIN d.assets
      <4>1. prepared.nodes[i].asset = k
        BY <2>5, <3>2
      <4>2. k \in DOMAIN added /\ added[k] = payload.assets[k]
        BY <2>4, <2>8, <3>2 DEF added
      <4> QED
        BY <2>7, <4>1, <4>2
    <3>3. CASE k \notin C /\ k \in DOMAIN d.assets
      <4>1. prepared.nodes[i].asset = k
        BY <2>5, <3>3
      <4>2. d.assets[k] = payload.assets[k]
        BY <2>8, <3>3 DEF C, Colliding
      <4>3. k \notin DOMAIN added
        <5>1. k \in Int /\ k <= m
          BY <1>4, <3>3
        <5>2. k \in DOMAIN added => k > m
          BY <2>3, <3>3 DEF added
        <5> QED
          BY <5>1, <5>2
      <4> QED
        BY <2>7, <3>3, <4>1, <4>2, <4>3
    <3> QED
      BY <3>1, <3>2, <3>3
  <2>9. IsPasted(prepared, payload, d, m)
    BY <2>2, <2>3, <2>5, <2>6, <2>8 DEF IsPasted, n
  <2> QED
    BY <2>9 DEF prepared
<1> QED
  BY <1>5, <1>6

(* A document with nodes added at the end of a page, and assets.             *)
AddedTo(d, p, nodes, assets) == [d EXCEPT !.pages[p].nodes = @ \o nodes, !.assets = Over(assets, @)]

LEMMA AddedIs ==
  ASSUME NEW d \in DocumentRecords, NEW p \in DOMAIN d.pages, NEW nodes \in Seq(NodeRecord),
         NEW assets \in Maps(AssetRecord), NEW e, e = AddedTo(d, p, nodes, assets)
  PROVE  /\ e \in DocumentRecords
         /\ e.components = d.components /\ e.assets = Over(assets, d.assets)
         /\ DOMAIN e.pages = DOMAIN d.pages
         /\ \A q \in DOMAIN d.pages : e.pages[q].id = d.pages[q].id
         /\ \A q \in DOMAIN d.pages \ {p} : e.pages[q].nodes = d.pages[q].nodes
         /\ e.pages[p].nodes = d.pages[p].nodes \o nodes
<1>1. /\ d.pages \in Seq(PageRecord) /\ DOMAIN d.pages = 1..Len(d.pages) /\ Len(d.pages) \in Nat
      /\ \A q \in DOMAIN d.pages : d.pages[q] \in PageRecord
      /\ d.pages[p].nodes \in Seq(NodeRecord) /\ d.pages[p].nodes # <<>>
  BY PagesAre
<1> DEFINE row == d.pages[p].nodes \o nodes
           page == [d.pages[p] EXCEPT !.nodes = row]
           pages == [d.pages EXCEPT ![p] = page]
           filed == Over(assets, d.assets)
<1>2. row \in Seq(NodeRecord) /\ row # <<>>
  BY <1>1
<1>3. filed \in Maps(AssetRecord)
  BY OverIs DEF DocumentRecords
<1>4. e = [d EXCEPT !.pages = pages, !.assets = filed]
  BY DEF AddedTo, DocumentRecords
<1> HIDE DEF row, filed
<1>5. page \in PageRecord /\ page.id = d.pages[p].id /\ page.nodes = row
  BY <1>1, <1>2 DEF PageRecord, NodeTree
<1> HIDE DEF page
<1>6. /\ pages \in Seq(PageRecord) /\ DOMAIN pages = DOMAIN d.pages /\ pages[p] = page
      /\ \A q \in DOMAIN d.pages \ {p} : pages[q] = d.pages[q]
  BY <1>1, <1>5
<1> HIDE DEF pages
<1>7. e \in DocumentRecords /\ e.components = d.components /\ e.assets = filed /\ e.pages = pages
  BY <1>3, <1>4, <1>6 DEF DocumentRecords
<1> QED
  BY <1>5, <1>6, <1>7 DEF row, filed

(* Adding nodes under new ids, with assets filed under their own, leaves     *)
(* nothing undone.                                                           *)
LEMMA AddedStrong ==
  ASSUME NEW d, Strong(d), NEW m \in Int, NodesUpTo(d, m), NEW p \in DOMAIN d.pages,
         NEW nodes \in Seq(NodeRecord), \A i \in 1..Len(nodes) : nodes[i].id = m + i,
         \A i \in 1..Len(nodes) : IsLocal(nodes[i]) => nodes[i].source[2] \in DOMAIN d.components,
         NEW assets \in Maps(AssetRecord), \A a \in DOMAIN assets : assets[a].id = a,
         NEW e, e = AddedTo(d, p, nodes, assets)
  PROVE  /\ Strong(e)
         /\ \A n \in NodesOf(e) : n.id <= m + Len(nodes)
<1>1. d \in DocumentRecords
  BY DEF Strong
<1>2. /\ e \in DocumentRecords
      /\ e.components = d.components /\ e.assets = Over(assets, d.assets)
      /\ DOMAIN e.pages = DOMAIN d.pages
      /\ \A q \in DOMAIN d.pages : e.pages[q].id = d.pages[q].id
      /\ \A q \in DOMAIN d.pages \ {p} : e.pages[q].nodes = d.pages[q].nodes
      /\ e.pages[p].nodes = d.pages[p].nodes \o nodes
  BY <1>1, AddedIs, SMTT(60)
<1> DEFINE l == Len(d.pages[p].nodes)
           n == Len(nodes)
<1>3. /\ l \in Nat /\ n \in Nat /\ d.pages[p].nodes \in Seq(NodeRecord)
      /\ \A q \in DOMAIN d.pages : /\ DOMAIN d.pages[q].nodes = 1..Len(d.pages[q].nodes)
                                   /\ \A i \in DOMAIN d.pages[q].nodes : d.pages[q].nodes[i] \in NodeRecord
  BY <1>1, PagesAre
<1>4. /\ DOMAIN e.pages[p].nodes = 1..l + n
      /\ \A i \in 1..l : e.pages[p].nodes[i] = d.pages[p].nodes[i]
      /\ \A i \in l + 1..l + n : i - l \in 1..n /\ e.pages[p].nodes[i] = nodes[i - l]
  BY <1>2, <1>3
<1>5. DOMAIN d.pages[p].nodes = 1..l
  BY <1>3
<1> HIDE DEF l, n
<1>6. \A x \in NodeRecord : x.id \in Int
  BY DEF NodeRecord
<1>7. \A q \in DOMAIN d.pages : \A i \in DOMAIN d.pages[q].nodes : d.pages[q].nodes[i] \in NodesOf(d)
  BY <1>3 DEF NodesOf
<1>8. \A c \in DOMAIN d.components : \A i \in DOMAIN d.components[c].nodes : d.components[c].nodes[i] \in NodesOf(d)
  BY <1>1, SourcesAre DEF NodesOf
<1>9. \A x \in NodesOf(d) : x \in NodeRecord /\ x.id <= m
  BY DEF NodesUpTo, NodesOf
(* A node of a page of e was there before, at its place, or is new. *)
<1>10. ASSUME NEW q \in DOMAIN e.pages, NEW i \in DOMAIN e.pages[q].nodes
       PROVE  \/ i \in DOMAIN d.pages[q].nodes /\ e.pages[q].nodes[i] = d.pages[q].nodes[i]
              \/ /\ q = p /\ i \in l + 1..l + n /\ i - l \in 1..n /\ e.pages[q].nodes[i] = nodes[i - l]
                 /\ e.pages[q].nodes[i].id = m + (i - l) /\ i \notin DOMAIN d.pages[q].nodes
  <2>1. CASE q # p
    BY <1>2, <2>1
  <2>2. CASE q = p /\ i \in 1..l
    BY <1>4, <1>5, <2>2
  <2>3. CASE q = p /\ i \notin 1..l
    <3>1. i \in l + 1..l + n
      BY <1>3, <1>4, <2>3
    <3>2. i - l \in 1..n /\ e.pages[q].nodes[i] = nodes[i - l]
      BY <1>4, <2>3, <3>1
    <3>3. nodes[i - l].id = m + (i - l)
      BY <3>2 DEF n
    <3> QED
      BY <1>5, <2>3, <3>1, <3>2, <3>3
  <2> QED
    BY <2>1, <2>2, <2>3
<1>11. PagesDistinct(e)
  BY <1>2 DEF Strong, PagesDistinct
<1>12. NodesDistinct(e)
  <2>1. ASSUME NEW q \in DOMAIN e.pages, NEW r \in DOMAIN e.pages, NEW i \in DOMAIN e.pages[q].nodes,
               NEW j \in DOMAIN e.pages[r].nodes, e.pages[q].nodes[i].id = e.pages[r].nodes[j].id
        PROVE  q = r /\ i = j
    <3> DEFINE Old(q2, i2) == i2 \in DOMAIN d.pages[q2].nodes /\ e.pages[q2].nodes[i2] = d.pages[q2].nodes[i2]
               New(q2, i2) == /\ q2 = p /\ i2 \in l + 1..l + n /\ i2 - l \in 1..n /\ e.pages[q2].nodes[i2] = nodes[i2 - l]
                              /\ e.pages[q2].nodes[i2].id = m + (i2 - l) /\ i2 \notin DOMAIN d.pages[q2].nodes
    <3>1. (Old(q, i) \/ New(q, i)) /\ (Old(r, j) \/ New(r, j))
      BY <1>10
    <3>2. CASE Old(q, i) /\ Old(r, j)
      BY <1>2, <2>1, <3>2, SMTT(60) DEF Strong, NodesDistinct
    <3>3. CASE New(q, i) /\ New(r, j)
      BY <1>3, <2>1, <3>3, SMTT(60)
    <3>4. CASE Old(q, i) /\ New(r, j)
      <4>1. e.pages[q].nodes[i].id <= m /\ e.pages[q].nodes[i].id \in Int
        BY <1>2, <1>6, <1>7, <1>9, <3>4
      <4> QED
        BY <2>1, <3>4, <4>1
    <3>5. CASE New(q, i) /\ Old(r, j)
      <4>1. e.pages[r].nodes[j].id <= m /\ e.pages[r].nodes[j].id \in Int
        BY <1>2, <1>6, <1>7, <1>9, <3>5
      <4> QED
        BY <2>1, <3>5, <4>1
    <3> QED
      BY <3>1, <3>2, <3>3, <3>4, <3>5
  <2>2. ASSUME NEW q \in DOMAIN e.pages, NEW c \in DOMAIN e.components, NEW i \in DOMAIN e.pages[q].nodes,
               NEW j \in DOMAIN e.components[c].nodes
        PROVE  e.pages[q].nodes[i].id # e.components[c].nodes[j].id
    <3>1. CASE i \in DOMAIN d.pages[q].nodes /\ e.pages[q].nodes[i] = d.pages[q].nodes[i]
      BY <1>2, <3>1 DEF Strong, NodesDistinct
    <3>2. CASE e.pages[q].nodes[i].id = m + (i - l) /\ i - l \in 1..n
      <4>1. e.components[c].nodes[j].id <= m /\ e.components[c].nodes[j].id \in Int
        BY <1>2, <1>6, <1>8, <1>9
      <4> QED
        BY <3>2, <4>1
    <3> QED
      BY <1>10, <3>1, <3>2
  <2>3. \A b, c \in DOMAIN e.components : \A i \in DOMAIN e.components[b].nodes, j \in DOMAIN e.components[c].nodes :
          e.components[b].nodes[i].id = e.components[c].nodes[j].id => b = c /\ i = j
    BY <1>2, SMTT(60) DEF Strong, NodesDistinct
  <2> QED
    BY <2>1, <2>2, <2>3 DEF NodesDistinct
<1>13. AssetsFiled(e)
  <2>1. \A a \in DOMAIN d.assets : d.assets[a].id = a
    BY DEF Strong, AssetsFiled
  <2>2. /\ DOMAIN e.assets = DOMAIN assets \cup DOMAIN d.assets
        /\ \A x \in DOMAIN assets : e.assets[x] = assets[x]
        /\ \A x \in DOMAIN d.assets \ DOMAIN assets : e.assets[x] = d.assets[x]
    <3>1. e.assets = Over(assets, d.assets)
      BY <1>2
    <3>2. /\ DOMAIN Over(assets, d.assets) = DOMAIN assets \cup DOMAIN d.assets
          /\ \A x \in DOMAIN assets : Over(assets, d.assets)[x] = assets[x]
          /\ \A x \in DOMAIN d.assets \ DOMAIN assets : Over(assets, d.assets)[x] = d.assets[x]
      BY OverValues
    <3> QED
      BY <3>1, <3>2
  <2>3. ASSUME NEW x \in DOMAIN e.assets
        PROVE  e.assets[x].id = x
    BY <2>1, <2>2
  <2> QED
    BY <2>3 DEF AssetsFiled
<1>14. ASSUME NEW x \in NodesOf(e)
       PROVE  x \in NodesOf(d) \/ \E i \in 1..n : x = nodes[i]
  <2>1. CASE \E q \in DOMAIN e.pages : \E i \in DOMAIN e.pages[q].nodes : x = e.pages[q].nodes[i]
    <3>1. PICK q \in DOMAIN e.pages : \E i \in DOMAIN e.pages[q].nodes : x = e.pages[q].nodes[i]
      BY <2>1
    <3>2. PICK i \in DOMAIN e.pages[q].nodes : x = e.pages[q].nodes[i]
      BY <3>1
    <3>3. CASE i \in DOMAIN d.pages[q].nodes /\ e.pages[q].nodes[i] = d.pages[q].nodes[i]
      BY <1>2, <1>7, <3>2, <3>3
    <3>4. CASE i - l \in 1..n /\ e.pages[q].nodes[i] = nodes[i - l]
      BY <3>2, <3>4
    <3> QED
      BY <1>10, <3>3, <3>4
  <2>2. CASE \E c \in DOMAIN e.components : \E i \in DOMAIN e.components[c].nodes : x = e.components[c].nodes[i]
    BY <1>2, <1>8, <2>2
  <2> QED
    BY <2>1, <2>2 DEF NodesOf
<1>15. RefsHold(e)
  <2>1. ASSUME NEW x \in NodesOf(e), IsLocal(x)
        PROVE  x.source[2] \in DOMAIN e.components
    <3>1. CASE x \in NodesOf(d)
      BY <1>2, <2>1, <3>1 DEF Strong, RefsHold
    <3>2. CASE \E i \in 1..n : x = nodes[i]
      BY <1>2, <2>1, <3>2 DEF n
    <3> QED
      BY <1>14, <3>1, <3>2
  <2> QED
    BY <2>1 DEF RefsHold
<1>16. Strong(e)
  BY <1>2, <1>11, <1>12, <1>13, <1>15 DEF Strong
<1>17. ASSUME NEW x \in NodesOf(e)
       PROVE  x.id <= m + n
  <2>1. CASE x \in NodesOf(d)
    BY <1>3, <1>6, <1>9, <2>1
  <2>2. CASE \E i \in 1..n : x = nodes[i]
    <3>1. PICK i \in 1..n : x = nodes[i]
      BY <2>2
    <3>2. x.id = m + i
      BY <3>1 DEF n
    <3> QED
      BY <1>3, <3>2
  <2> QED
    BY <1>14, <2>1, <2>2
<1> QED
  BY <1>16, <1>17 DEF n

-----------------------------------------------------------------------------
(* Templates: slots.                                                        *)

LEMMA IntervalStep ==
  ASSUME NEW N \in Nat, NEW k \in 1..N
  PROVE  /\ 1..k \in SUBSET (1..N) /\ k \in 1..k /\ (1..k) \ {k} = 1..k - 1 /\ k \in Nat /\ 1..k # {}
         /\ k \in 0..N /\ k - 1 \in 0..N
<1>1. k \in Nat /\ k >= 1 /\ k <= N /\ N \in Nat
  OBVIOUS
<1>2. (1..k) \ {k} = 1..k - 1
  BY <1>1
<1>3. 1..k \in SUBSET (1..N)
  BY <1>1
<1>4. k \in 1..k /\ 1..k # {} /\ k \in 0..N /\ k - 1 \in 0..N
  BY <1>1
<1> QED
  BY <1>1, <1>2, <1>3, <1>4

(* What a slot may change of a node: its text and its asset.                 *)
SameBut(n, m) ==
    /\ m \in NodeRecord
    /\ m.id = n.id /\ m.depth = n.depth /\ m.kind = n.kind /\ m.mask = n.mask /\ m.source = n.source

LEMMA SlotWritten ==
  ASSUME NEW n \in NodeRecord, NEW slot, NEW value \in Int
  PROVE  SameBut(n, applySlotValue(n, slot, value))
<1>1. CASE ~Writes(n, slot)
  <2>1. applySlotValue(n, slot, value) = n
    BY <1>1 DEF applySlotValue
  <2> QED
    BY <2>1 DEF SameBut
<1>2. CASE Writes(n, slot) /\ slot.kind = "text"
  <2>1. applySlotValue(n, slot, value) = [n EXCEPT !.text = value]
    BY <1>2 DEF applySlotValue
  <2> QED
    BY <2>1 DEF SameBut, NodeRecord
<1>3. CASE Writes(n, slot) /\ slot.kind = "image"
  <2>1. applySlotValue(n, slot, value) = [n EXCEPT !.asset = value]
    BY <1>3 DEF applySlotValue
  <2> QED
    BY <2>1 DEF SameBut, NodeRecord
<1>4. Writes(n, slot) => slot.kind = "text" \/ slot.kind = "image"
  BY DEF Writes
<1> QED
  BY <1>1, <1>2, <1>3, <1>4

(* The values of a template's variables that reach a slot.                   *)
Values(template, supplied) == resolveTemplateVariables(template, supplied)

LEMMA ValuesAre ==
  ASSUME NEW template, IsTemplate(template), NEW supplied, IsMap(supplied, Int)
  PROVE  /\ DOMAIN Values(template, supplied) \subseteq DOMAIN template.variables
         /\ DOMAIN Values(template, supplied) \subseteq Int /\ IsFiniteSet(DOMAIN Values(template, supplied))
         /\ \A v \in DOMAIN Values(template, supplied) : Values(template, supplied)[v] \in Int
<1> DEFINE S == {x \in DOMAIN template.variables : x \in DOMAIN supplied \/ template.variables[x].default # Missing}
           W == [slot : Int, default : Int \cup {Missing}, required : BOOLEAN]
<1>1. Values(template, supplied) = [v \in S |-> IF v \in DOMAIN supplied THEN supplied[v] ELSE template.variables[v].default]
  BY DEF Values, resolveTemplateVariables
<1>2. IsMap(template.variables, W)
  BY DEF IsTemplate
<1>3. /\ DOMAIN template.variables \subseteq Int /\ IsFiniteSet(DOMAIN template.variables)
      /\ \A v \in DOMAIN template.variables : template.variables[v] \in W
  BY <1>2 DEF IsMap
<1>4. \A v \in DOMAIN supplied : supplied[v] \in Int
  BY DEF IsMap
<1>5. S \subseteq DOMAIN template.variables /\ S \subseteq Int /\ IsFiniteSet(S)
  BY <1>3, FS_Subset
<1>6. \A v \in S : (IF v \in DOMAIN supplied THEN supplied[v] ELSE template.variables[v].default) \in Int
  BY <1>3, <1>4
<1> HIDE DEF S
<1> QED
  BY <1>1, <1>5, <1>6

AllGiven(values, variables) == \A k \in 1..Len(variables) : values[variables[k]] \in Int
Wanted(template, values, ids, v) == ids[template.slots[template.variables[v].slot].node]
Written(n, template, values, v) == applySlotValue(n, template.slots[template.variables[v].slot], values[v])

(* A node is filled by one variable after the other.                        *)
LEMMA FilledSteps ==
  ASSUME NEW n \in NodeRecord, NEW template, NEW values, NEW ids, NEW variables \in Seq(Int), AllGiven(values, variables)
  PROVE  \E acc \in [0..Len(variables) -> NodeRecord] :
           /\ acc[0] = n /\ Filled(n, template, values, ids, variables) = acc[Len(variables)]
           /\ \A k \in 1..Len(variables) : acc[k] = IF (acc[k - 1]).id = Wanted(template, values, ids, variables[k]) THEN Written(acc[k - 1], template, values, variables[k]) ELSE acc[k - 1]
<1> DEFINE N == Len(variables)
           X == NodeRecord
           step == [a \in X \X (1..N) |-> IF (a[1]).id = Wanted(template, values, ids, variables[a[2]]) THEN Written(a[1], template, values, variables[a[2]]) ELSE a[1]]
           it == CHOOSE it : it = [s \in SUBSET (DOMAIN variables) |->
                    IF s = {} THEN n
                    ELSE IF (it[s \ {Max(s)}]).id = Wanted(template, values, ids, variables[Max(s)]) THEN Written(it[s \ {Max(s)}], template, values, variables[Max(s)]) ELSE it[s \ {Max(s)}]]
<1>1. N \in Nat /\ DOMAIN variables = 1..N
  OBVIOUS
<1>2. n \in X
  OBVIOUS
<1>3. IsStep(step, N, X)
  <2>1. \A a \in X, k \in 1..N : (IF (a).id = Wanted(template, values, ids, variables[k]) THEN Written(a, template, values, variables[k]) ELSE a) \in X
    <3> TAKE a \in X, k \in 1..N
    <3>1. SameBut(a, Written(a, template, values, variables[k]))
      BY SlotWritten DEF Written, AllGiven
    <3> QED
      BY <3>1 DEF SameBut
  <2> HIDE DEF X
  <2> QED
    BY <2>1 DEF IsStep
<1>4. \A a \in X, k \in 1..N : step[<<a, k>>] = IF (a).id = Wanted(template, values, ids, variables[k]) THEN Written(a, template, values, variables[k]) ELSE a
  <2> HIDE DEF X
  <2> QED
    OBVIOUS
<1>5. Filled(n, template, values, ids, variables) = it[DOMAIN variables]
  BY DEF FoldLeft, MapThenFoldSet, Filled, Wanted, Written
<1> HIDE DEF step, X
<1>6. PICK jt \in [SUBSET (1..N) -> X] :
           \A s \in SUBSET (1..N) : jt[s] = IF s = {} THEN n ELSE step[<<jt[s \ {Max(s)}], Max(s)>>]
  <2> DEFINE base == n
  <2>1. base \in X
    BY <1>2
  <2> HIDE DEF N, base
  <2>2. \E jt \in [SUBSET (1..N) -> X] :
           \A s \in SUBSET (1..N) : jt[s] = IF s = {} THEN base ELSE step[<<jt[s \ {Max(s)}], Max(s)>>]
    <3>1. PICK jt : IsTable(jt, N, X, base, step)
      BY <1>1, <2>1, <1>3, FoldExists
    <3> QED
      BY <3>1 DEF IsTable
  <2> QED
    BY <2>2 DEF base
<1>7. jt = [s \in SUBSET (1..N) |->
              IF s = {} THEN n
              ELSE IF (jt[s \ {Max(s)}]).id = Wanted(template, values, ids, variables[Max(s)]) THEN Written(jt[s \ {Max(s)}], template, values, variables[Max(s)]) ELSE jt[s \ {Max(s)}]]
  <2>1. ASSUME NEW s \in SUBSET (1..N), s # {}
        PROVE  jt[s] = IF (jt[s \ {Max(s)}]).id = Wanted(template, values, ids, variables[Max(s)]) THEN Written(jt[s \ {Max(s)}], template, values, variables[Max(s)]) ELSE jt[s \ {Max(s)}]
    <3>1. Max(s) \in 1..N /\ s \ {Max(s)} \in SUBSET (1..N)
      BY <1>1, <2>1, MaxIn
    <3>2. jt[s \ {Max(s)}] \in X
      BY <3>1
    <3>3. jt[s] = step[<<jt[s \ {Max(s)}], Max(s)>>]
      BY <1>6, <2>1
    <3> HIDE DEF N
    <3> QED
      BY <1>4, <3>1, <3>2, <3>3
  <2>2. \A s \in SUBSET (1..N) : jt[s] = IF s = {} THEN n
              ELSE IF (jt[s \ {Max(s)}]).id = Wanted(template, values, ids, variables[Max(s)]) THEN Written(jt[s \ {Max(s)}], template, values, variables[Max(s)]) ELSE jt[s \ {Max(s)}]
    <3> TAKE s \in SUBSET (1..N)
    <3>1. CASE s = {}
      BY <1>6, <3>1
    <3>2. CASE s # {}
      BY <2>1, <3>2
    <3> QED
      BY <3>1, <3>2
  <2> HIDE DEF N
  <2> QED
    BY <2>2
<1>8. it = [s \in SUBSET (1..N) |->
              IF s = {} THEN n
              ELSE IF (it[s \ {Max(s)}]).id = Wanted(template, values, ids, variables[Max(s)]) THEN Written(it[s \ {Max(s)}], template, values, variables[Max(s)]) ELSE it[s \ {Max(s)}]]
  <2> HIDE DEF N
  <2> QED
    BY <1>1, <1>7
<1> HIDE DEF it
<1>9. \A s \in SUBSET (1..N) : it[s] = IF s = {} THEN n ELSE IF (it[s \ {Max(s)}]).id = Wanted(template, values, ids, variables[Max(s)]) THEN Written(it[s \ {Max(s)}], template, values, variables[Max(s)]) ELSE it[s \ {Max(s)}]
  <2> HIDE DEF N
  <2> QED
    BY <1>8
<1> DEFINE acc == [k \in 0..N |-> it[1..k]]
           S == {k \in 0..N : acc[k] \in X}
<1>10. acc[0] = n /\ acc[N] = it[1..N] /\ DOMAIN acc = 0..N /\ acc = [k \in 0..N |-> acc[k]]
  <2>1. 1..0 = {} /\ {} \in SUBSET (1..N) /\ 0 \in 0..N /\ N \in 0..N
    BY <1>1
  <2>2. it[{}] = n
    BY <1>9, <2>1
  <2> HIDE DEF N
  <2> QED
    BY <2>1, <2>2
<1>11. \A k \in 1..N : acc[k] = IF (acc[k - 1]).id = Wanted(template, values, ids, variables[k]) THEN Written(acc[k - 1], template, values, variables[k]) ELSE acc[k - 1]
  <2> TAKE k \in 1..N
  <2>1. /\ 1..k \in SUBSET (1..N) /\ k \in 1..k /\ (1..k) \ {k} = 1..k - 1 /\ k \in Nat /\ 1..k # {}
        /\ k \in 0..N /\ k - 1 \in 0..N
    <3> HIDE DEF N
    <3> QED
      BY <1>1, IntervalStep
  <2>2. Max(1..k) = k
    BY <2>1, IntervalMax
  <2>3. it[1..k] = IF (it[1..k - 1]).id = Wanted(template, values, ids, variables[k]) THEN Written(it[1..k - 1], template, values, variables[k]) ELSE it[1..k - 1]
    BY <1>9, <2>1, <2>2
  <2>4. acc[k] = it[1..k] /\ acc[k - 1] = it[1..k - 1]
    <3> HIDE DEF N
    <3> QED
      BY <2>1
  <2> HIDE DEF acc, N
  <2> QED
    BY <2>3, <2>4
<1> HIDE DEF acc
<1>12. 0..N \subseteq S
  <2>1. 0 \in S
    BY <1>1, <1>2, <1>10
  <2>2. ASSUME NEW k \in 1..N, k - 1 \in S
        PROVE  k \in S
    <3>1. k \in 0..N /\ acc[k - 1] \in X
      BY <1>1, <2>2
    <3>2. step[<<acc[k - 1], k>>] \in X
      BY <1>3, <3>1 DEF IsStep
    <3>3. acc[k] = step[<<acc[k - 1], k>>]
      BY <1>4, <1>11, <3>1
    <3> QED
      BY <3>1, <3>2, <3>3
  <2> HIDE DEF S
  <2> QED
    BY <1>1, <2>1, <2>2, Induction, Zenon
<1>13. acc \in [0..N -> X]
  <2>1. \A k \in 0..N : acc[k] \in X
    BY <1>12
  <2> HIDE DEF S, N
  <2> QED
    BY <1>10, <2>1
<1> QED
  BY <1>1, <1>5, <1>10, <1>11, <1>13 DEF X

LEMMA FilledIs ==
  ASSUME NEW n \in NodeRecord, NEW template, NEW values, NEW ids, NEW variables \in Seq(Int),
         AllGiven(values, variables)
  PROVE  /\ SameBut(n, Filled(n, template, values, ids, variables))
         /\ (\A k \in 1..Len(variables) : Wanted(template, values, ids, variables[k]) # n.id)
              => Filled(n, template, values, ids, variables) = n
<1> DEFINE N == Len(variables)
<1>1. N \in Nat
  OBVIOUS
<1>2. PICK acc \in [0..N -> NodeRecord] :
        /\ acc[0] = n /\ Filled(n, template, values, ids, variables) = acc[N]
        /\ \A k \in 1..N : acc[k] = IF acc[k - 1].id = Wanted(template, values, ids, variables[k])
                                    THEN Written(acc[k - 1], template, values, variables[k]) ELSE acc[k - 1]
  BY FilledSteps
<1> DEFINE untouched == \A k \in 1..N : Wanted(template, values, ids, variables[k]) # n.id
           S == {k \in 0..N : SameBut(n, acc[k]) /\ (untouched => acc[k] = n)}
<1>3. 0 \in S
  <2>1. 0 \in 0..N /\ acc[0] = n
    BY <1>1, <1>2
  <2>2. SameBut(n, acc[0])
    BY <2>1 DEF SameBut
  <2> QED
    BY <2>1, <2>2
<1>4. ASSUME NEW k \in 1..N, k - 1 \in S
      PROVE  k \in S
  <2>1. k \in 0..N /\ acc[k - 1] \in NodeRecord /\ values[variables[k]] \in Int
    <3>1. k \in 0..N /\ k - 1 \in 0..N
      BY <1>1
    <3> QED
      BY <1>2, <3>1 DEF AllGiven
  <2>2. SameBut(acc[k - 1], Written(acc[k - 1], template, values, variables[k]))
    BY <2>1, SlotWritten DEF Written
  <2>3. SameBut(n, acc[k - 1]) /\ (untouched => acc[k - 1] = n)
    BY <1>4
  <2>4. acc[k] = IF acc[k - 1].id = Wanted(template, values, ids, variables[k])
                 THEN Written(acc[k - 1], template, values, variables[k]) ELSE acc[k - 1]
    BY <1>2
  <2>5. SameBut(n, acc[k])
    BY <2>2, <2>3, <2>4 DEF SameBut
  <2>6. untouched => acc[k] = n
    BY <2>3, <2>4
  <2> QED
    BY <2>1, <2>5, <2>6
<1>5. N \in S
  <2> HIDE DEF S
  <2>1. 0..N \subseteq S
    BY <1>1, <1>3, <1>4, Induction, Zenon
  <2> QED
    BY <1>1, <2>1
<1> QED
  BY <1>2, <1>5

-----------------------------------------------------------------------------
(* Fresh ids: where a tree's nodes are found again.                         *)

LEMMA TypeOfId ==
  ASSUME NEW n \in NodeRecord
  PROVE  n.id \in Int
  BY DEF NodeRecord

LEMMA ImageFinite ==
  ASSUME NEW f, IsFiniteSet(DOMAIN f)
  PROVE  IsFiniteSet({f[x] : x \in DOMAIN f})
<1> DEFINE S == DOMAIN f
           T == {f[x] : x \in DOMAIN f}
           g == [x \in S |-> f[x]]
<1>1. g \in Surjection(S, T)
  BY DEF Surjection
<1> HIDE DEF g, T, S
<1>2. IsFiniteSet(S)
  BY DEF S
<1>3. IsFiniteSet(T)
  BY <1>1, <1>2, FS_Surjection
<1> QED
  BY <1>3 DEF T

LEMMA IdMapIs ==
  ASSUME NEW nodes \in Seq(NodeRecord), NEW from \in Int
  PROVE  /\ IdMap(nodes, from) \in Maps(Int)
         /\ DOMAIN IdMap(nodes, from) = {nodes[i].id : i \in 1..Len(nodes)}
         /\ \A id \in DOMAIN IdMap(nodes, from) : \E i \in 1..Len(nodes) :
              nodes[i].id = id /\ IdMap(nodes, from)[id] = from + i
<1> DEFINE N == Len(nodes)
           ids == {nodes[i].id : i \in 1..N}
           At(id) == {i \in DOMAIN nodes : nodes[i].id = id}
           M == IdMap(nodes, from)
<1>1. N \in Nat /\ DOMAIN nodes = 1..N /\ \A i \in 1..N : nodes[i] \in NodeRecord /\ nodes[i].id \in Int
  BY TypeOfId
<1>2. M = [id \in {n.id : n \in Range(nodes)} |-> from + MostOf(At(id))]
  BY DEF IdMap
<1>3. {n.id : n \in Range(nodes)} = ids
  BY <1>1 DEF Range
<1>4. ASSUME NEW id \in ids
      PROVE  MostOf(At(id)) \in 1..N /\ nodes[MostOf(At(id))].id = id
  <2>1. At(id) # {} /\ At(id) \in SUBSET (1..N)
    BY <1>1, <1>4
  <2>2. IsFiniteSet(At(id)) /\ At(id) \in SUBSET Int
    <3>1. IsFiniteSet(1..N) /\ 1..N \subseteq Int
      BY <1>1, FS_Interval
    <3> HIDE DEF At, N
    <3> QED
      BY <2>1, <3>1, FS_Subset
  <2> HIDE DEF At
  <2>3. MostOf(At(id)) \in At(id)
    BY <2>1, <2>2, MostOfIs
  <2> QED
    BY <1>1, <2>3 DEF At
<1> HIDE DEF M, At
<1>5. DOMAIN M = ids /\ \A id \in ids : M[id] = from + MostOf(At(id))
  BY <1>2, <1>3
<1>6. \A id \in ids : \E i \in 1..N : nodes[i].id = id /\ M[id] = from + i
  BY <1>4, <1>5
<1>7. ids \subseteq Int /\ IsFiniteSet(ids)
  <2>1. IsFiniteSet(1..N)
    BY <1>1, FS_Interval
  <2>2. IsFiniteSet(ids)
    <3> DEFINE f == [i \in 1..N |-> nodes[i].id]
    <3>1. DOMAIN f = 1..N /\ {f[i] : i \in DOMAIN f} = ids
      OBVIOUS
    <3> HIDE DEF f, ids
    <3> QED
      BY <2>1, <3>1, ImageFinite
  <2> QED
    BY <1>1, <2>2
<1>8. M \in [ids -> Int]
  <2>1. \A id \in ids : M[id] \in Int
    <3> TAKE id \in ids
    <3>1. PICK i \in 1..N : M[id] = from + i
      BY <1>6
    <3> QED
      BY <1>1, <3>1
  <2>2. M = [id \in ids |-> M[id]]
    BY <1>2, <1>3, <1>5
  <2> HIDE DEF ids
  <2> QED
    BY <2>1, <2>2
<1>9. M \in Maps(Int)
  BY <1>5, <1>7, <1>8, MapsAre DEF IsMap
<1> QED
  BY <1>5, <1>6, <1>9 DEF M

(* The parts of a row of trees do not overlap.                               *)
LEMMA PlacesApart ==
  ASSUME NEW trees \in Trees, NEW from \in Int, NEW t \in 1..Len(trees), NEW u \in 1..Len(trees),
         NEW i \in 1..Len(trees[t]), NEW j \in 1..Len(trees[u]),
         FirstId(trees, t, from) + i = FirstId(trees, u, from) + j
  PROVE  t = u /\ i = j
<1> DEFINE a == FirstId(trees, t, 0)
           b == FirstId(trees, u, 0)
           lt == Len(trees[t])
           lu == Len(trees[u])
<1>1. lt \in Nat /\ lu \in Nat /\ t \in Nat /\ u \in Nat /\ Len(trees) \in Nat
  BY DEF Trees
<1>2. FirstId(trees, t, from) = from + a /\ a \in Nat /\ FirstId(trees, u, from) = from + b /\ b \in Nat
  <2>1. t \in 1..Len(trees) + 1 /\ u \in 1..Len(trees) + 1
    BY <1>1
  <2> QED
    BY <2>1, FirstIdIs
<1>3. t < u => a + lt <= b
  BY <1>1, FirstIdGrows
<1>4. u < t => b + lu <= a
  BY <1>1, FirstIdGrows
<1> HIDE DEF a, b, lt, lu
<1>5. i \in 1..lt /\ j \in 1..lu /\ a + i = b + j
  BY <1>2 DEF lt, lu
<1> QED
  BY <1>1, <1>2, <1>3, <1>4, <1>5

LEMMA PlacesWithin ==
  ASSUME NEW trees \in Trees, NEW from \in Int, NEW t \in 1..Len(trees), NEW i \in 1..Len(trees[t])
  PROVE  /\ FirstId(trees, t, from) \in Int
         /\ FirstId(trees, t, from) + i > from
         /\ FirstId(trees, t, from) + i <= from + Len(FlattenSeq(trees))
<1> DEFINE a == FirstId(trees, t, 0)
           n == Len(FlattenSeq(trees))
<1>1. t \in 1..Len(trees) + 1
  BY DEF Trees
<1>2. FirstId(trees, t, from) = from + a /\ a \in Nat
  BY <1>1, FirstIdIs
<1>3. a + i \in 1..n /\ n \in Nat /\ i \in Nat /\ i >= 1
  BY FlattenIs DEF Trees
<1> HIDE DEF a, n
<1>4. from + a + i > from /\ from + a + i <= from + n
  BY <1>2, <1>3
<1> QED
  BY <1>2, <1>4 DEF n

Places(trees) == [t \in DOMAIN trees |-> t]

(* The ids of a row of trees, one tree after the other.                      *)
LEMMA TreeIdsSteps ==
  ASSUME NEW trees \in Trees, NEW from \in Int
  PROVE  \E acc \in [0..Len(trees) -> Maps(Int)] :
           /\ acc[0] = NoMap /\ TreeIds(trees, from) = acc[Len(trees)]
           /\ \A k \in 1..Len(trees) : acc[k] = Over(IdMap(trees[Places(trees)[k]], FirstId(trees, Places(trees)[k], from)), acc[k - 1])
<1> DEFINE N == Len(trees)
           X == Maps(Int)
           step == [a \in X \X (1..N) |-> Over(IdMap(trees[Places(trees)[a[2]]], FirstId(trees, Places(trees)[a[2]], from)), a[1])]
           it == CHOOSE it : it = [s \in SUBSET (DOMAIN Places(trees)) |->
                    IF s = {} THEN NoMap
                    ELSE Over(IdMap(trees[Places(trees)[Max(s)]], FirstId(trees, Places(trees)[Max(s)], from)), it[s \ {Max(s)}])]
<1>1. N \in Nat /\ DOMAIN Places(trees) = 1..N
  BY DEF Trees, Places
<1>2. NoMap \in X
  BY NoMapIs
<1>3. IsStep(step, N, X)
  <2>1. \A a \in X, k \in 1..N : (Over(IdMap(trees[Places(trees)[k]], FirstId(trees, Places(trees)[k], from)), a)) \in X
    <3> TAKE a \in X, k \in 1..N
    <3>1. Places(trees)[k] = k /\ trees[k] \in Seq(NodeRecord) /\ k \in 1..Len(trees) + 1
      BY <1>1 DEF Places, Trees
    <3>2. FirstId(trees, k, from) \in Int
      BY <3>1, FirstIdIs
    <3>3. IdMap(trees[k], FirstId(trees, k, from)) \in Maps(Int)
      BY <3>1, <3>2, IdMapIs
    <3> QED
      BY <3>1, <3>3, OverIs
  <2> HIDE DEF X
  <2> QED
    BY <2>1 DEF IsStep
<1>4. \A a \in X, k \in 1..N : step[<<a, k>>] = Over(IdMap(trees[Places(trees)[k]], FirstId(trees, Places(trees)[k], from)), a)
  <2> HIDE DEF X
  <2> QED
    OBVIOUS
<1>5. TreeIds(trees, from) = it[DOMAIN Places(trees)]
  BY DEF FoldLeft, MapThenFoldSet, TreeIds, Places
<1> HIDE DEF step, X
<1>6. PICK jt \in [SUBSET (1..N) -> X] :
           \A s \in SUBSET (1..N) : jt[s] = IF s = {} THEN NoMap ELSE step[<<jt[s \ {Max(s)}], Max(s)>>]
  <2> DEFINE base == NoMap
  <2>1. base \in X
    BY <1>2
  <2> HIDE DEF N, base
  <2>2. \E jt \in [SUBSET (1..N) -> X] :
           \A s \in SUBSET (1..N) : jt[s] = IF s = {} THEN base ELSE step[<<jt[s \ {Max(s)}], Max(s)>>]
    <3>1. PICK jt : IsTable(jt, N, X, base, step)
      BY <1>1, <2>1, <1>3, FoldExists
    <3> QED
      BY <3>1 DEF IsTable
  <2> QED
    BY <2>2 DEF base
<1>7. jt = [s \in SUBSET (1..N) |->
              IF s = {} THEN NoMap
              ELSE Over(IdMap(trees[Places(trees)[Max(s)]], FirstId(trees, Places(trees)[Max(s)], from)), jt[s \ {Max(s)}])]
  <2>1. ASSUME NEW s \in SUBSET (1..N), s # {}
        PROVE  jt[s] = Over(IdMap(trees[Places(trees)[Max(s)]], FirstId(trees, Places(trees)[Max(s)], from)), jt[s \ {Max(s)}])
    <3>1. Max(s) \in 1..N /\ s \ {Max(s)} \in SUBSET (1..N)
      BY <1>1, <2>1, MaxIn
    <3>2. jt[s \ {Max(s)}] \in X
      BY <3>1
    <3>3. jt[s] = step[<<jt[s \ {Max(s)}], Max(s)>>]
      BY <1>6, <2>1
    <3> HIDE DEF N
    <3> QED
      BY <1>4, <3>1, <3>2, <3>3
  <2>2. \A s \in SUBSET (1..N) : jt[s] = IF s = {} THEN NoMap
              ELSE Over(IdMap(trees[Places(trees)[Max(s)]], FirstId(trees, Places(trees)[Max(s)], from)), jt[s \ {Max(s)}])
    <3> TAKE s \in SUBSET (1..N)
    <3>1. CASE s = {}
      BY <1>6, <3>1
    <3>2. CASE s # {}
      BY <2>1, <3>2
    <3> QED
      BY <3>1, <3>2
  <2> HIDE DEF N
  <2> QED
    BY <2>2
<1>8. it = [s \in SUBSET (1..N) |->
              IF s = {} THEN NoMap
              ELSE Over(IdMap(trees[Places(trees)[Max(s)]], FirstId(trees, Places(trees)[Max(s)], from)), it[s \ {Max(s)}])]
  <2> HIDE DEF N
  <2> QED
    BY <1>1, <1>7
<1> HIDE DEF it
<1>9. \A s \in SUBSET (1..N) : it[s] = IF s = {} THEN NoMap ELSE Over(IdMap(trees[Places(trees)[Max(s)]], FirstId(trees, Places(trees)[Max(s)], from)), it[s \ {Max(s)}])
  <2> HIDE DEF N
  <2> QED
    BY <1>8
<1> DEFINE acc == [k \in 0..N |-> it[1..k]]
           S == {k \in 0..N : acc[k] \in X}
<1>10. acc[0] = NoMap /\ acc[N] = it[1..N] /\ DOMAIN acc = 0..N /\ acc = [k \in 0..N |-> acc[k]]
  <2>1. 1..0 = {} /\ {} \in SUBSET (1..N) /\ 0 \in 0..N /\ N \in 0..N
    BY <1>1
  <2>2. it[{}] = NoMap
    BY <1>9, <2>1
  <2> HIDE DEF N
  <2> QED
    BY <2>1, <2>2
<1>11. \A k \in 1..N : acc[k] = Over(IdMap(trees[Places(trees)[k]], FirstId(trees, Places(trees)[k], from)), acc[k - 1])
  <2> TAKE k \in 1..N
  <2>1. /\ 1..k \in SUBSET (1..N) /\ k \in 1..k /\ (1..k) \ {k} = 1..k - 1 /\ k \in Nat /\ 1..k # {}
        /\ k \in 0..N /\ k - 1 \in 0..N
    <3> HIDE DEF N
    <3> QED
      BY <1>1, IntervalStep
  <2>2. Max(1..k) = k
    BY <2>1, IntervalMax
  <2>3. it[1..k] = Over(IdMap(trees[Places(trees)[k]], FirstId(trees, Places(trees)[k], from)), it[1..k - 1])
    BY <1>9, <2>1, <2>2
  <2>4. acc[k] = it[1..k] /\ acc[k - 1] = it[1..k - 1]
    <3> HIDE DEF N
    <3> QED
      BY <2>1
  <2> HIDE DEF acc, N
  <2> QED
    BY <2>3, <2>4
<1> HIDE DEF acc
<1>12. 0..N \subseteq S
  <2>1. 0 \in S
    BY <1>1, <1>2, <1>10
  <2>2. ASSUME NEW k \in 1..N, k - 1 \in S
        PROVE  k \in S
    <3>1. k \in 0..N /\ acc[k - 1] \in X
      BY <1>1, <2>2
    <3>2. step[<<acc[k - 1], k>>] \in X
      BY <1>3, <3>1 DEF IsStep
    <3>3. acc[k] = step[<<acc[k - 1], k>>]
      BY <1>4, <1>11, <3>1
    <3> QED
      BY <3>1, <3>2, <3>3
  <2> HIDE DEF S
  <2> QED
    BY <1>1, <2>1, <2>2, Induction, Zenon
<1>13. acc \in [0..N -> X]
  <2>1. \A k \in 0..N : acc[k] \in X
    BY <1>12
  <2> HIDE DEF S, N
  <2> QED
    BY <1>10, <2>1
<1> QED
  BY <1>1, <1>5, <1>10, <1>11, <1>13 DEF X

(* ids lists the first k trees of a row, each node under the id it is given. *)
ListsTrees(ids, trees, from, k) ==
    /\ \A t \in 1..k : \A i \in 1..Len(trees[t]) :
         trees[t][i].id \in DOMAIN ids /\ ids[trees[t][i].id] = FirstId(trees, t, from) + i
    /\ \A x \in DOMAIN ids : \E t \in 1..k : \E i \in 1..Len(trees[t]) : x = trees[t][i].id

LEMMA TreeIdsIs ==
  ASSUME NEW trees \in Trees, DistinctTrees(trees), NEW from \in Int
  PROVE  ListsTrees(TreeIds(trees, from), trees, from, Len(trees))
<1> DEFINE N == Len(trees)
<1>1. N \in Nat /\ DOMAIN trees = 1..N /\ \A t \in 1..N : trees[t] \in Seq(NodeRecord)
  BY DEF Trees
<1>2. PICK acc \in [0..N -> Maps(Int)] :
        /\ acc[0] = NoMap /\ TreeIds(trees, from) = acc[N]
        /\ \A k \in 1..N : acc[k] = Over(IdMap(trees[Places(trees)[k]], FirstId(trees, Places(trees)[k], from)), acc[k - 1])
  BY TreeIdsSteps
<1>3. \A k \in 1..N : acc[k] = Over(IdMap(trees[k], FirstId(trees, k, from)), acc[k - 1])
  BY <1>1, <1>2 DEF Places
<1> DEFINE S == {k \in 0..N : ListsTrees(acc[k], trees, from, k)}
<1>4. 0 \in S
  <2>1. DOMAIN NoMap = {} /\ 1..0 = {} /\ 0 \in 0..N
    BY <1>1, NoMapIs
  <2> QED
    BY <1>2, <2>1 DEF ListsTrees
<1>5. ASSUME NEW k \in 1..N, k - 1 \in S
      PROVE  k \in S
  <2> DEFINE first == FirstId(trees, k, from)
             map == IdMap(trees[k], first)
             old == acc[k - 1]
  <2>1. k \in 0..N /\ k - 1 \in 0..N /\ k \in Nat /\ 1..k = (1..k - 1) \cup {k} /\ 1..k \subseteq 1..N
    BY <1>1
  <2>2. first \in Int /\ trees[k] \in Seq(NodeRecord)
    <3>1. k \in 1..N + 1
      BY <1>1
    <3> QED
      BY <1>1, <3>1, FirstIdIs
  <2>3. /\ DOMAIN map = {trees[k][i].id : i \in 1..Len(trees[k])}
        /\ \A id \in DOMAIN map : \E i \in 1..Len(trees[k]) : trees[k][i].id = id /\ map[id] = first + i
    BY <2>2, IdMapIs
  <2>4. ListsTrees(old, trees, from, k - 1)
    BY <1>5
  <2>5. acc[k] = Over(map, old)
    BY <1>3
  <2>6. /\ DOMAIN Over(map, old) = DOMAIN map \cup DOMAIN old
        /\ \A x \in DOMAIN map : Over(map, old)[x] = map[x]
        /\ \A x \in DOMAIN old \ DOMAIN map : Over(map, old)[x] = old[x]
    BY OverValues
  <2> HIDE DEF first, map, old, N
  <2>7. ASSUME NEW i \in 1..Len(trees[k])
        PROVE  trees[k][i].id \in DOMAIN map /\ map[trees[k][i].id] = first + i
    <3>1. trees[k][i].id \in DOMAIN map
      BY <2>3
    <3>2. PICK j \in 1..Len(trees[k]) : trees[k][j].id = trees[k][i].id /\ map[trees[k][i].id] = first + j
      BY <2>3, <3>1
    <3>3. i = j
      BY <3>2 DEF DistinctTrees, N
    <3> QED
      BY <3>1, <3>2, <3>3
  <2>8. ASSUME NEW t \in 1..k - 1, NEW i \in 1..Len(trees[t])
        PROVE  trees[t][i].id \notin DOMAIN map
    <3>1. ASSUME trees[t][i].id \in DOMAIN map
          PROVE  FALSE
      <4>1. PICK j \in 1..Len(trees[k]) : trees[k][j].id = trees[t][i].id
        BY <2>3, <3>1
      <4>2. t \in 1..N /\ t # k
        BY <2>1
      <4> QED
        BY <4>1, <4>2 DEF DistinctTrees, N
    <3> QED
      BY <3>1
  <2>9. ASSUME NEW t \in 1..k, NEW i \in 1..Len(trees[t])
        PROVE  trees[t][i].id \in DOMAIN acc[k] /\ acc[k][trees[t][i].id] = FirstId(trees, t, from) + i
    <3>1. CASE t = k
      <4>1. trees[k][i].id \in DOMAIN map /\ map[trees[k][i].id] = first + i
        BY <2>7, <3>1
      <4> QED
        BY <2>5, <2>6, <3>1, <4>1 DEF first
    <3>2. CASE t \in 1..k - 1
      <4>1. trees[t][i].id \in DOMAIN old /\ old[trees[t][i].id] = FirstId(trees, t, from) + i
        BY <2>4, <3>2 DEF ListsTrees
      <4>2. trees[t][i].id \notin DOMAIN map
        BY <2>8, <3>2
      <4> QED
        BY <2>5, <2>6, <4>1, <4>2
    <3> QED
      BY <2>1, <3>1, <3>2
  <2>10. ASSUME NEW x \in DOMAIN acc[k]
         PROVE  \E t \in 1..k : \E i \in 1..Len(trees[t]) : x = trees[t][i].id
    <3>1. CASE x \in DOMAIN map
      BY <2>1, <2>3, <3>1
    <3>2. CASE x \in DOMAIN old
      BY <2>1, <2>4, <3>2 DEF ListsTrees
    <3> QED
      BY <2>5, <2>6, <3>1, <3>2
  <2>11. ListsTrees(acc[k], trees, from, k)
    BY <2>9, <2>10 DEF ListsTrees
  <2> QED
    BY <2>1, <2>11
<1>6. N \in S
  <2> HIDE DEF S
  <2>1. 0..N \subseteq S
    BY <1>1, <1>4, <1>5, Induction, Zenon
  <2> QED
    BY <1>1, <2>1
<1> QED
  BY <1>2, <1>6

(* Two rows of trees one after the other hold the nodes of both.             *)
LEMMA FlattenBoth ==
  ASSUME NEW a \in Trees, NEW b \in Trees
  PROVE  Len(FlattenSeq(a \o b)) = Len(FlattenSeq(a)) + Len(FlattenSeq(b))
<1> DEFINE l == Len(a)
           n == Len(b)
           c == a \o b
<1>1. /\ l \in Nat /\ n \in Nat /\ c \in Trees /\ Len(c) = l + n
      /\ \A t \in 1..l : c[t] = a[t]
      /\ \A u \in 1..n : c[l + u] = b[u]
  BY DEF Trees
<1> HIDE DEF l, n, c
<1>2. /\ FirstId(c, 1, 0) = 0 /\ FirstId(a, 1, 0) = 0 /\ FirstId(b, 1, 0) = 0
      /\ \A t \in 1..l + n : FirstId(c, t + 1, 0) = FirstId(c, t, 0) + Len(c[t])
      /\ \A t \in 1..l : FirstId(a, t + 1, 0) = FirstId(a, t, 0) + Len(a[t])
      /\ \A t \in 1..n : FirstId(b, t + 1, 0) = FirstId(b, t, 0) + Len(b[t])
  BY <1>1, FirstIdIs DEF l, n
<1>3. /\ \A t \in 1..l + 1 : FirstId(a, t, 0) \in Nat
      /\ \A t \in 1..n + 1 : FirstId(b, t, 0) \in Nat
  BY FirstIdIs DEF l, n
<1> DEFINE S == {t \in 0..l : FirstId(c, t + 1, 0) = FirstId(a, t + 1, 0)}
           U == {u \in 0..n : FirstId(c, l + u + 1, 0) = FirstId(a, l + 1, 0) + FirstId(b, u + 1, 0)}
<1>4. l \in S
  <2>1. 0 \in S
    BY <1>1, <1>2
  <2>2. ASSUME NEW t \in 1..l, t - 1 \in S
        PROVE  t \in S
    <3>1. t \in 0..l /\ t \in 1..l + n /\ (t - 1) + 1 = t
      BY <1>1
    <3>2. FirstId(c, t, 0) = FirstId(a, t, 0)
      BY <2>2, <3>1
    <3>3. FirstId(c, t + 1, 0) = FirstId(c, t, 0) + Len(c[t]) /\ FirstId(a, t + 1, 0) = FirstId(a, t, 0) + Len(a[t])
      BY <1>2, <3>1
    <3>4. c[t] = a[t]
      BY <1>1
    <3> QED
      BY <3>1, <3>2, <3>3, <3>4
  <2> HIDE DEF S
  <2>3. 0..l \subseteq S
    BY <1>1, <2>1, <2>2, Induction, Zenon
  <2> QED
    BY <1>1, <2>3
<1>5. FirstId(c, l + 1, 0) = FirstId(a, l + 1, 0) /\ FirstId(a, l + 1, 0) \in Nat
  <2>1. l + 1 \in 1..l + 1
    BY <1>1
  <2> QED
    BY <1>3, <1>4, <2>1
<1>6. n \in U
  <2>1. 0 \in U
    <3>1. l + 0 + 1 = l + 1 /\ 0 + 1 = 1 /\ 0 \in 0..n
      BY <1>1
    <3> QED
      BY <1>2, <1>5, <3>1
  <2>2. ASSUME NEW u \in 1..n, u - 1 \in U
        PROVE  u \in U
    <3>1. u \in 0..n /\ l + u \in 1..l + n /\ (u - 1) + 1 = u /\ l + (u - 1) + 1 = l + u /\ u \in 1..n + 1
      BY <1>1
    <3>2. FirstId(c, l + u, 0) = FirstId(a, l + 1, 0) + FirstId(b, u, 0)
      BY <2>2, <3>1
    <3>3. FirstId(c, l + u + 1, 0) = FirstId(c, l + u, 0) + Len(c[l + u]) /\ FirstId(b, u + 1, 0) = FirstId(b, u, 0) + Len(b[u])
      BY <1>2, <3>1
    <3>4. c[l + u] = b[u] /\ Len(b[u]) \in Nat
      BY <1>1 DEF Trees, n
    <3>5. FirstId(b, u, 0) \in Nat
      BY <1>3, <3>1
    <3> QED
      BY <1>5, <3>1, <3>2, <3>3, <3>4, <3>5
  <2> HIDE DEF U
  <2>3. 0..n \subseteq U
    BY <1>1, <2>1, <2>2, Induction, Zenon
  <2> QED
    BY <1>1, <2>3
<1>7. Len(FlattenSeq(c)) = FirstId(c, l + n + 1, 0) /\ Len(FlattenSeq(a)) = FirstId(a, l + 1, 0)
      /\ Len(FlattenSeq(b)) = FirstId(b, n + 1, 0)
  BY <1>1, FlattenIs DEF l, n
<1> QED
  BY <1>6, <1>7 DEF c

(* Where the clone's ids for the pages' trees, and for a Source's, begin.    *)
Roots(d, from) == Len(d.pages) + from
BelowRoots(d, from) == Roots(d, from) + Len(walk(d)) + Len(Ascending(DOMAIN d.components))
PageFirst(d, p, from) == FirstId(PageTrees(d), p, Roots(d, from))
Index(d, c) == MostOf({i \in DOMAIN Ascending(DOMAIN d.components) : Ascending(DOMAIN d.components)[i] = c})
SourceFirst(d, c, from) == FirstId(SourceTrees(d), Index(d, c), BelowRoots(d, from))
CloneEnd(d, from) == BelowRoots(d, from) + Len(FlattenSeq(SourceTrees(d)))

LEMMA CountsAre ==
  ASSUME NEW d \in DocumentRecords, NEW from \in Int
  PROVE  /\ Roots(d, from) \in Int /\ BelowRoots(d, from) \in Int /\ CloneEnd(d, from) \in Int
         /\ BelowRoots(d, from) = Roots(d, from) + Len(walk(d)) + Cardinality(DOMAIN d.components)
         /\ Len(walk(d)) \in Nat /\ Cardinality(DOMAIN d.components) \in Nat /\ Len(FlattenSeq(SourceTrees(d))) \in Nat
         /\ Len(walkDocument(d)) = Len(walk(d)) + Len(FlattenSeq(SourceTrees(d)))
         /\ from <= Roots(d, from) /\ Roots(d, from) + Len(walk(d)) <= BelowRoots(d, from)
         /\ BelowRoots(d, from) <= CloneEnd(d, from)
         /\ CloneEnd(d, from) = from + Len(d.pages) + Len(walkDocument(d)) + Cardinality(DOMAIN d.components)
<1>1. PageTrees(d) \in Trees /\ SourceTrees(d) \in Trees
  BY TreesAre
<1>2. Len(walk(d)) \in Nat /\ Len(FlattenSeq(SourceTrees(d))) \in Nat
  BY <1>1, FlattenIs DEF walk
<1>3. Len(walkDocument(d)) = Len(walk(d)) + Len(FlattenSeq(SourceTrees(d)))
  BY <1>1, FlattenBoth DEF walk, walkDocument
<1>4. Cardinality(DOMAIN d.components) \in Nat /\ Len(d.pages) \in Nat
  BY SourcesAre, PagesAre
<1> DEFINE w == Len(walk(d))
           c == Cardinality(DOMAIN d.components)
           s == Len(FlattenSeq(SourceTrees(d)))
           p == Len(d.pages)
<1>5. /\ Roots(d, from) = p + from /\ BelowRoots(d, from) = p + from + w + c /\ CloneEnd(d, from) = p + from + w + c + s
  <2>1. DOMAIN d.components \in SUBSET Int /\ IsFiniteSet(DOMAIN d.components)
    BY SourcesAre
  <2>2. Len(Ascending(DOMAIN d.components)) = c
    BY <2>1, AscendingLists
  <2> QED
    BY <2>2 DEF Roots, BelowRoots, CloneEnd
<1>6. Len(walkDocument(d)) = w + s /\ w \in Nat /\ c \in Nat /\ s \in Nat /\ p \in Nat
  BY <1>2, <1>3, <1>4
<1> HIDE DEF w, c, s, p
<1>7. /\ p + from \in Int /\ p + from + w + c \in Int /\ p + from + w + c + s \in Int
      /\ from <= p + from /\ p + from + w <= p + from + w + c /\ p + from + w + c <= p + from + w + c + s
      /\ p + from + w + c + s = from + p + (w + s) + c
  BY <1>6
<1> QED
  BY <1>5, <1>6, <1>7 DEF w, c, s, p, Roots

LEMMA IndexIs ==
  ASSUME NEW d \in DocumentRecords, NEW c \in DOMAIN d.components
  PROVE  /\ Index(d, c) \in 1..Len(SourceTrees(d))
         /\ SourceTrees(d)[Index(d, c)] = d.components[c].nodes
         /\ Ascending(DOMAIN d.components)[Index(d, c)] = c
<1>1. DOMAIN d.components \in SUBSET Int /\ IsFiniteSet(DOMAIN d.components)
  BY SourcesAre
<1>2. Index(d, c) \in 1..Cardinality(DOMAIN d.components) /\ Ascending(DOMAIN d.components)[Index(d, c)] = c
  BY <1>1, AscendingIndex DEF Index
<1> QED
  BY <1>2, TreesAre

(* No two parts of the clone are given the same id.                          *)
LEMMA PagePlaces ==
  ASSUME NEW d \in DocumentRecords, NEW from \in Int, NEW p \in DOMAIN d.pages, NEW i \in DOMAIN d.pages[p].nodes
  PROVE  /\ PageFirst(d, p, from) \in Int
         /\ PageFirst(d, p, from) + i > Roots(d, from)
         /\ PageFirst(d, p, from) + i <= Roots(d, from) + Len(walk(d))
         /\ \A q \in DOMAIN d.pages : \A j \in DOMAIN d.pages[q].nodes :
              PageFirst(d, p, from) + i = PageFirst(d, q, from) + j => p = q /\ i = j
<1> DEFINE trees == PageTrees(d)
           roots == Roots(d, from)
<1>1. trees \in Trees /\ Len(trees) = Len(d.pages) /\ roots \in Int
  BY TreesAre, CountsAre
<1>2. \A q \in DOMAIN d.pages : q \in 1..Len(trees) /\ trees[q] = d.pages[q].nodes /\ DOMAIN d.pages[q].nodes = 1..Len(trees[q])
  BY TreesAre, PagesAre
<1>3. walk(d) = FlattenSeq(trees)
  BY DEF walk
<1>4. \A q \in DOMAIN d.pages : PageFirst(d, q, from) = FirstId(trees, q, roots)
  BY DEF PageFirst
<1> HIDE DEF trees, roots
<1>5. p \in 1..Len(trees) /\ i \in 1..Len(trees[p])
  BY <1>2
<1>6. FirstId(trees, p, roots) \in Int /\ FirstId(trees, p, roots) + i > roots
      /\ FirstId(trees, p, roots) + i <= roots + Len(FlattenSeq(trees))
  BY <1>1, <1>5, PlacesWithin
<1>7. ASSUME NEW q \in DOMAIN d.pages, NEW j \in DOMAIN d.pages[q].nodes, PageFirst(d, p, from) + i = PageFirst(d, q, from) + j
      PROVE  p = q /\ i = j
  <2>1. q \in 1..Len(trees) /\ j \in 1..Len(trees[q])
    BY <1>2
  <2>2. FirstId(trees, p, roots) + i = FirstId(trees, q, roots) + j
    BY <1>4, <1>7
  <2> QED
    BY <1>1, <1>5, <2>1, <2>2, PlacesApart
<1> QED
  BY <1>3, <1>4, <1>6, <1>7 DEF roots

LEMMA SourcePlaces ==
  ASSUME NEW d \in DocumentRecords, NEW from \in Int, NEW c \in DOMAIN d.components, NEW i \in DOMAIN d.components[c].nodes
  PROVE  /\ SourceFirst(d, c, from) \in Int
         /\ SourceFirst(d, c, from) + i > BelowRoots(d, from)
         /\ SourceFirst(d, c, from) + i <= CloneEnd(d, from)
         /\ \A b \in DOMAIN d.components : \A j \in DOMAIN d.components[b].nodes :
              SourceFirst(d, c, from) + i = SourceFirst(d, b, from) + j => c = b /\ i = j
<1> DEFINE trees == SourceTrees(d)
           base == BelowRoots(d, from)
<1>1. trees \in Trees /\ base \in Int
  BY TreesAre, CountsAre
<1>2. \A b \in DOMAIN d.components :
        /\ Index(d, b) \in 1..Len(trees) /\ trees[Index(d, b)] = d.components[b].nodes
        /\ Ascending(DOMAIN d.components)[Index(d, b)] = b
        /\ DOMAIN d.components[b].nodes = 1..Len(trees[Index(d, b)])
  BY IndexIs, SourcesAre
<1>3. CloneEnd(d, from) = base + Len(FlattenSeq(trees))
  BY DEF CloneEnd
<1>4. \A b \in DOMAIN d.components : SourceFirst(d, b, from) = FirstId(trees, Index(d, b), base)
  BY DEF SourceFirst
<1> HIDE DEF trees, base
<1>5. Index(d, c) \in 1..Len(trees) /\ i \in 1..Len(trees[Index(d, c)])
  BY <1>2
<1>6. FirstId(trees, Index(d, c), base) \in Int /\ FirstId(trees, Index(d, c), base) + i > base
      /\ FirstId(trees, Index(d, c), base) + i <= base + Len(FlattenSeq(trees))
  BY <1>1, <1>5, PlacesWithin
<1>7. ASSUME NEW b \in DOMAIN d.components, NEW j \in DOMAIN d.components[b].nodes,
             SourceFirst(d, c, from) + i = SourceFirst(d, b, from) + j
      PROVE  c = b /\ i = j
  <2>1. Index(d, b) \in 1..Len(trees) /\ j \in 1..Len(trees[Index(d, b)])
    BY <1>2
  <2>2. FirstId(trees, Index(d, c), base) + i = FirstId(trees, Index(d, b), base) + j
    BY <1>4, <1>7
  <2>3. Index(d, c) = Index(d, b) /\ i = j
    BY <1>1, <1>5, <2>1, <2>2, PlacesApart
  <2> QED
    BY <1>2, <2>3
<1> QED
  BY <1>3, <1>4, <1>6, <1>7 DEF base

(* The table of the template's ids knows every node of its pages by the id   *)
(* the clone gives it.                                                       *)
LEMMA AllIdsIs ==
  ASSUME NEW d \in DocumentRecords, NodesDistinct(d), NEW from \in Int,
         NEW p \in DOMAIN d.pages, NEW i \in DOMAIN d.pages[p].nodes
  PROVE  /\ d.pages[p].nodes[i].id \in DOMAIN AllIds(d, from)
         /\ AllIds(d, from)[d.pages[p].nodes[i].id] = PageFirst(d, p, from) + i
<1> DEFINE pt == PageTrees(d)
           st == SourceTrees(d)
           x == d.pages[p].nodes[i].id
           inPages == TreeIds(pt, Roots(d, from))
           inSources == TreeIds(st, BelowRoots(d, from))
           pages == [id \in {q.id : q \in Range(d.pages)} |-> from + MostOf({q \in DOMAIN d.pages : d.pages[q].id = id})]
<1>1. AllIds(d, from) = Over(inSources, Over(inPages, pages))
  <2>1. BelowRoots(d, from) = Roots(d, from) + Len(walk(d)) + Cardinality(DOMAIN d.components)
    BY CountsAre
  <2>2. AllIds(d, from) = Over(TreeIds(st, Roots(d, from) + Len(walk(d)) + Cardinality(DOMAIN d.components)), Over(inPages, pages))
    BY DEF AllIds, Roots
  <2> HIDE DEF st, pages, inPages
  <2> QED
    BY <2>1, <2>2
<1>2. pt \in Trees /\ st \in Trees /\ Roots(d, from) \in Int /\ BelowRoots(d, from) \in Int
  BY TreesAre, CountsAre
<1>3. /\ Len(pt) = Len(d.pages) /\ \A q \in 1..Len(pt) : q \in DOMAIN d.pages /\ pt[q] = d.pages[q].nodes
      /\ \A q \in DOMAIN d.pages : q \in 1..Len(pt) /\ DOMAIN d.pages[q].nodes = 1..Len(pt[q])
  BY TreesAre, PagesAre
<1>4. \A k \in 1..Len(st) : Ascending(DOMAIN d.components)[k] \in DOMAIN d.components
                            /\ st[k] = d.components[Ascending(DOMAIN d.components)[k]].nodes
                            /\ DOMAIN st[k] = 1..Len(st[k])
  BY TreesAre, SourcesAre
<1>5. DistinctTrees(pt)
  <2> HIDE DEF pt
  <2> QED
    <3> SUFFICES ASSUME NEW t \in 1..Len(pt), NEW u \in 1..Len(pt), NEW h \in 1..Len(pt[t]), NEW j \in 1..Len(pt[u]),
                        pt[t][h].id = pt[u][j].id
                 PROVE  t = u /\ h = j
      BY DEF DistinctTrees
    <3>1. t \in DOMAIN d.pages /\ u \in DOMAIN d.pages /\ pt[t] = d.pages[t].nodes /\ pt[u] = d.pages[u].nodes
      BY <1>3
    <3>2. h \in DOMAIN d.pages[t].nodes /\ j \in DOMAIN d.pages[u].nodes
      BY <1>3, <3>1
    <3> QED
      BY <3>1, <3>2 DEF NodesDistinct
<1>6. DistinctTrees(st)
  <2>1. /\ Ascending(DOMAIN d.components) \in [1..Cardinality(DOMAIN d.components) -> DOMAIN d.components]
        /\ \A k, l \in 1..Cardinality(DOMAIN d.components) :
             Ascending(DOMAIN d.components)[k] = Ascending(DOMAIN d.components)[l] => k = l
    BY SourcesAre, AscendingLists
  <2>2. Len(st) = Cardinality(DOMAIN d.components)
    BY TreesAre
  <2> HIDE DEF st
  <2>3. ASSUME NEW k \in 1..Len(st), NEW l \in 1..Len(st), NEW h \in 1..Len(st[k]), NEW j \in 1..Len(st[l]),
               st[k][h].id = st[l][j].id
        PROVE  k = l /\ h = j
    <3> DEFINE b == Ascending(DOMAIN d.components)[k]
               c == Ascending(DOMAIN d.components)[l]
    <3>1. b \in DOMAIN d.components /\ c \in DOMAIN d.components /\ st[k] = d.components[b].nodes /\ st[l] = d.components[c].nodes
      BY <1>4
    <3>2. h \in DOMAIN d.components[b].nodes /\ j \in DOMAIN d.components[c].nodes
      BY <1>4, <3>1
    <3> HIDE DEF b, c
    <3>3. b = c /\ h = j
      BY <2>3, <3>1, <3>2 DEF NodesDistinct
    <3> QED
      BY <2>1, <2>2, <3>3 DEF b, c
  <2> QED
    BY <2>3 DEF DistinctTrees
<1>7. ListsTrees(inPages, pt, Roots(d, from), Len(pt))
  BY <1>2, <1>5, TreeIdsIs
<1>8. ListsTrees(inSources, st, BelowRoots(d, from), Len(st))
  BY <1>2, <1>6, TreeIdsIs
<1> HIDE DEF pt, st, inPages, inSources, pages, x
<1>9. x \in DOMAIN inPages /\ inPages[x] = FirstId(pt, p, Roots(d, from)) + i
  BY <1>3, <1>7 DEF ListsTrees, x
<1>10. x \notin DOMAIN inSources
  <2>1. ASSUME x \in DOMAIN inSources
        PROVE  FALSE
    <3>1. PICK k \in 1..Len(st) : \E j \in 1..Len(st[k]) : x = st[k][j].id
      BY <1>8, <2>1 DEF ListsTrees
    <3>2. PICK j \in 1..Len(st[k]) : x = st[k][j].id
      BY <3>1
    <3>3. Ascending(DOMAIN d.components)[k] \in DOMAIN d.components
          /\ st[k] = d.components[Ascending(DOMAIN d.components)[k]].nodes /\ j \in DOMAIN st[k]
      BY <1>4, <3>2
    <3> QED
      BY <3>2, <3>3 DEF NodesDistinct, x
  <2> QED
    BY <2>1
<1>11. /\ DOMAIN Over(inPages, pages) = DOMAIN inPages \cup DOMAIN pages
       /\ \A y \in DOMAIN inPages : Over(inPages, pages)[y] = inPages[y]
  BY OverValues
<1> DEFINE rest == Over(inPages, pages)
<1>12. x \in DOMAIN rest /\ rest[x] = FirstId(pt, p, Roots(d, from)) + i
  BY <1>9, <1>11
<1> HIDE DEF rest
<1>13. /\ DOMAIN Over(inSources, rest) = DOMAIN inSources \cup DOMAIN rest
       /\ \A y \in DOMAIN rest \ DOMAIN inSources : Over(inSources, rest)[y] = rest[y]
  BY OverValues
<1>14. x \in DOMAIN Over(inSources, rest) /\ Over(inSources, rest)[x] = FirstId(pt, p, Roots(d, from)) + i
  BY <1>10, <1>12, <1>13
<1> QED
  BY <1>1, <1>14 DEF rest, x, pt, PageFirst

-----------------------------------------------------------------------------
(* Templates: the clone.                                                    *)

Moved(n, id, newId) == Retargeted([n EXCEPT !.id = id], newId)

LEMMA MovedIs ==
  ASSUME NEW n \in NodeRecord, NEW id \in Int, NEW S, NEW newId \in [S -> Int]
  PROVE  /\ Moved(n, id, newId) \in NodeRecord
         /\ Moved(n, id, newId).id = id
         /\ Moved(n, id, newId).kind = n.kind /\ Moved(n, id, newId).depth = n.depth /\ Moved(n, id, newId).mask = n.mask
         /\ Moved(n, id, newId).text = n.text /\ Moved(n, id, newId).asset = n.asset
         /\ IsLocal(Moved(n, id, newId)) <=> IsLocal(n)
         /\ IsLocal(n) /\ n.source[2] \in S => Moved(n, id, newId).source[2] = newId[n.source[2]]
<1> DEFINE m == [n EXCEPT !.id = id]
<1>1. /\ m \in NodeRecord /\ m.id = id /\ m.kind = n.kind /\ m.depth = n.depth /\ m.mask = n.mask /\ m.text = n.text
      /\ m.asset = n.asset /\ m.source = n.source
  BY DEF NodeRecord
<1>2. IsLocal(m) <=> IsLocal(n)
  BY <1>1 DEF IsLocal, IsInstance
<1> HIDE DEF m
<1>3. CASE IsLocal(n) /\ n.source[2] \in S
  <2> DEFINE to == <<"local", newId[n.source[2]]>>
             r == [m EXCEPT !.source = to]
  <2>1. Moved(n, id, newId) = r
    BY <1>1, <1>2, <1>3 DEF Moved, Retargeted, m
  <2>2. newId[n.source[2]] \in Int
    BY <1>3
  <2>3. to \in {"local", "external"} \X Int /\ to # <<>> /\ to[1] = "local" /\ to[2] = newId[n.source[2]]
    BY <2>2
  <2> HIDE DEF to
  <2>4. /\ r \in NodeRecord /\ r.id = m.id /\ r.kind = m.kind /\ r.depth = m.depth /\ r.mask = m.mask /\ r.text = m.text
        /\ r.asset = m.asset /\ r.source = to
    BY <1>1, <2>3 DEF NodeRecord
  <2>5. IsLocal(r)
    BY <2>3, <2>4 DEF IsLocal, IsInstance
  <2> QED
    BY <1>1, <1>3, <2>1, <2>3, <2>4, <2>5
<1>4. CASE ~(IsLocal(n) /\ n.source[2] \in S)
  <2>1. Moved(n, id, newId) = m
    BY <1>1, <1>2, <1>4 DEF Moved, Retargeted, m
  <2> QED
    BY <1>1, <1>2, <1>4, <2>1
<1> QED
  BY <1>3, <1>4

(* newId gives every definition an id, and no two the same. *)
Renames(newId, d) == newId \in [DOMAIN d.components -> Int] /\ \A b, c \in DOMAIN newId : newId[b] = newId[c] => b = c

(* The clone, part by part.                                                  *)
IsClone(e, d, newId, from) ==
    /\ e \in DocumentRecords
    /\ e.assets = d.assets /\ e.snapshots = d.snapshots /\ e.version = d.version
    /\ DOMAIN e.pages = DOMAIN d.pages
    /\ \A p \in DOMAIN d.pages :
         /\ e.pages[p].id = from + p
         /\ DOMAIN e.pages[p].nodes = DOMAIN d.pages[p].nodes
         /\ \A i \in DOMAIN d.pages[p].nodes :
              e.pages[p].nodes[i] = Moved(d.pages[p].nodes[i], PageFirst(d, p, from) + i, newId)
    /\ DOMAIN e.components = {newId[c] : c \in DOMAIN d.components}
    /\ \A c \in DOMAIN d.components :
         /\ e.components[newId[c]].id = newId[c]
         /\ DOMAIN e.components[newId[c]].nodes = DOMAIN d.components[c].nodes
         /\ \A i \in DOMAIN d.components[c].nodes :
              e.components[newId[c]].nodes[i] = Moved(d.components[c].nodes[i], SourceFirst(d, c, from) + i, newId)
         /\ \A b \in e.components[newId[c]].binds : \E old \in d.components[c].binds :
              LET map == IdMap(d.components[c].nodes, SourceFirst(d, c, from))
              IN  b = IF old \in DOMAIN map THEN map[old] ELSE old

MovedNodes(nodes, first, newId) == [i \in DOMAIN nodes |-> Retargeted(regenerateNodeIds(nodes, first)[i], newId)]

LEMMA MovedTree ==
  ASSUME NEW nodes \in Seq(NodeRecord), NEW first \in Int, NEW S, NEW newId \in [S -> Int],
         NEW tree, tree = MovedNodes(nodes, first, newId)
  PROVE  /\ tree \in Seq(NodeRecord) /\ DOMAIN tree = DOMAIN nodes /\ Len(tree) = Len(nodes)
         /\ \A i \in DOMAIN nodes : tree[i] = Moved(nodes[i], first + i, newId)
<1>1. DOMAIN nodes = 1..Len(nodes) /\ Len(nodes) \in Nat /\ \A i \in DOMAIN nodes : nodes[i] \in NodeRecord
  OBVIOUS
<1>2. \A i \in 1..Len(nodes) : regenerateNodeIds(nodes, first)[i] = [nodes[i] EXCEPT !.id = first + i]
  BY RegeneratedIs
<1>3. \A i \in DOMAIN nodes : tree[i] = Moved(nodes[i], first + i, newId)
  BY <1>1, <1>2 DEF Moved, MovedNodes
<1>4. \A i \in DOMAIN nodes : tree[i] \in NodeRecord
  <2> TAKE i \in DOMAIN nodes
  <2>1. nodes[i] \in NodeRecord /\ first + i \in Int
    BY <1>1
  <2> QED
    BY <1>3, <2>1, MovedIs
<1>5. tree \in [1..Len(nodes) -> NodeRecord]
  <2>1. DOMAIN tree = 1..Len(nodes) /\ tree = [i \in DOMAIN tree |-> tree[i]]
    BY <1>1 DEF MovedNodes
  <2> QED
    BY <1>1, <1>4, <2>1
<1> QED
  BY <1>1, <1>3, <1>5

LEMMA ClonedIs ==
  ASSUME NEW d \in DocumentRecords, NEW newId, Renames(newId, d), NEW from \in Int
  PROVE  IsClone(Cloned(d, newId, from), d, newId, from)
<1> DEFINE D == DOMAIN d.components
           pageTree(p) == MovedNodes(d.pages[p].nodes, PageFirst(d, p, from), newId)
           sourceTree(c) == MovedNodes(d.components[c].nodes, SourceFirst(d, c, from), newId)
           page(p) == [d.pages[p] EXCEPT !.id = from + p, !.nodes = pageTree(p)]
           map(c) == IdMap(d.components[c].nodes, SourceFirst(d, c, from))
           binds(c) == {IF b \in DOMAIN map(c) THEN map(c)[b] ELSE b : b \in d.components[c].binds}
           source(c) == [id |-> newId[c], nodes |-> sourceTree(c), binds |-> binds(c)]
           old(c) == CHOOSE x \in DOMAIN newId : newId[x] = c
           pages == [p \in DOMAIN d.pages |-> page(p)]
           components == [c \in Range(newId) |-> source(old(c))]
           end == BelowRoots(d, from) + Len(FlattenSeq(SourceTrees(d))) + 1
           e == Cloned(d, newId, from)
<1>1. /\ newId \in [D -> Int] /\ DOMAIN newId = D /\ \A b, c \in D : newId[b] = newId[c] => b = c
      /\ IsFiniteSet(D) /\ D \subseteq Int
  BY SourcesAre DEF Renames
<1>2. BelowRoots(d, from) \in Int /\ Len(FlattenSeq(SourceTrees(d))) \in Nat
  BY CountsAre
<1>3. Len(Ascending(D)) = Cardinality(D)
  BY <1>1, AscendingLists
<1>4. e = [d EXCEPT !.id = end, !.pages = pages, !.components = components]
  BY DEF Cloned, MovedNodes, PageFirst, SourceFirst, Roots, BelowRoots, Index
<1>5. \A p \in DOMAIN d.pages : PageFirst(d, p, from) \in Int
  <2> TAKE p \in DOMAIN d.pages
  <2>1. 1 \in DOMAIN d.pages[p].nodes
    BY PagesAre
  <2> QED
    BY <2>1, PagePlaces
<1>6. \A c \in D : SourceFirst(d, c, from) \in Int
  <2> TAKE c \in D
  <2>1. 1 \in DOMAIN d.components[c].nodes
    BY SourcesAre
  <2> QED
    BY <2>1, SourcePlaces
<1>7. \A p \in DOMAIN d.pages :
        /\ pageTree(p) \in Seq(NodeRecord) /\ DOMAIN pageTree(p) = DOMAIN d.pages[p].nodes
        /\ Len(pageTree(p)) = Len(d.pages[p].nodes)
        /\ \A i \in DOMAIN d.pages[p].nodes : pageTree(p)[i] = Moved(d.pages[p].nodes[i], PageFirst(d, p, from) + i, newId)
  <2> TAKE p \in DOMAIN d.pages
  <2>1. d.pages[p].nodes \in Seq(NodeRecord)
    BY PagesAre
  <2> HIDE DEF D
  <2> QED
    BY <1>1, <1>5, <2>1, MovedTree
<1>8. \A c \in D :
        /\ sourceTree(c) \in Seq(NodeRecord) /\ DOMAIN sourceTree(c) = DOMAIN d.components[c].nodes
        /\ Len(sourceTree(c)) = Len(d.components[c].nodes)
        /\ \A i \in DOMAIN d.components[c].nodes :
             sourceTree(c)[i] = Moved(d.components[c].nodes[i], SourceFirst(d, c, from) + i, newId)
  <2> TAKE c \in D
  <2>1. d.components[c].nodes \in Seq(NodeRecord)
    BY SourcesAre
  <2> HIDE DEF D
  <2> QED
    BY <1>1, <1>6, <2>1, MovedTree
<1>9. \A p \in DOMAIN d.pages : page(p) \in PageRecord /\ page(p).id = from + p /\ page(p).nodes = pageTree(p)
  <2> TAKE p \in DOMAIN d.pages
  <2>1. d.pages[p] \in PageRecord /\ d.pages[p].nodes \in Seq(NodeRecord) /\ d.pages[p].nodes # <<>> /\ p \in Int
    BY PagesAre
  <2>2. pageTree(p) \in Seq(NodeRecord) /\ Len(pageTree(p)) = Len(d.pages[p].nodes)
    BY <1>7
  <2>3. pageTree(p) # <<>>
    <3> DEFINE a == pageTree(p)
               b == d.pages[p].nodes
    <3>1. a \in Seq(NodeRecord) /\ b \in Seq(NodeRecord) /\ Len(a) = Len(b) /\ b # <<>>
      BY <2>1, <2>2
    <3> HIDE DEF a, b
    <3>2. a # <<>>
      BY <3>1
    <3> QED
      BY <3>2 DEF a
  <2> DEFINE a == pageTree(p)
  <2>4. a \in NodeTree /\ from + p \in Int
    BY <2>1, <2>2, <2>3 DEF NodeTree
  <2> HIDE DEF a
  <2>5. [d.pages[p] EXCEPT !.id = from + p, !.nodes = a] \in PageRecord
    BY <2>1, <2>4 DEF PageRecord
  <2>6. /\ [d.pages[p] EXCEPT !.id = from + p, !.nodes = a].id = from + p
        /\ [d.pages[p] EXCEPT !.id = from + p, !.nodes = a].nodes = a
    BY <2>1 DEF PageRecord
  <2> QED
    BY <2>5, <2>6 DEF a
<1>10. \A c \in D : /\ source(c) \in DefinitionRecord /\ source(c).id = newId[c] /\ source(c).nodes = sourceTree(c)
                    /\ source(c).binds = binds(c)
  <2> TAKE c \in D
  <2>1. d.components[c] \in DefinitionRecord /\ d.components[c].nodes \in Seq(NodeRecord) /\ d.components[c].nodes # <<>>
    BY SourcesAre
  <2>2. sourceTree(c) \in Seq(NodeRecord) /\ Len(sourceTree(c)) = Len(d.components[c].nodes)
    BY <1>8
  <2>3. sourceTree(c) # <<>>
    <3> DEFINE a == sourceTree(c)
               b == d.components[c].nodes
    <3>1. a \in Seq(NodeRecord) /\ b \in Seq(NodeRecord) /\ Len(a) = Len(b) /\ b # <<>>
      BY <2>1, <2>2
    <3> HIDE DEF a, b
    <3>2. a # <<>>
      BY <3>1
    <3> QED
      BY <3>2 DEF a
  <2>4. binds(c) \in SUBSET Int
    <3>1. map(c) \in Maps(Int)
      BY <1>6, <2>1, IdMapIs
    <3>2. map(c) \in [DOMAIN map(c) -> Int]
      BY <3>1, MapsAre DEF IsMap
    <3>3. d.components[c].binds \subseteq Int
      BY <2>1 DEF DefinitionRecord
    <3> HIDE DEF map
    <3> QED
      BY <3>2, <3>3
  <2> DEFINE a == sourceTree(c)
             bs == binds(c)
  <2>5. a \in NodeTree /\ newId[c] \in Int /\ bs \in SUBSET Int
    BY <1>1, <2>2, <2>3, <2>4 DEF NodeTree
  <2> HIDE DEF a, bs
  <2>6. [id |-> newId[c], nodes |-> a, binds |-> bs] \in DefinitionRecord
    BY <2>5 DEF DefinitionRecord
  <2> QED
    BY <2>6 DEF a, bs
<1> HIDE DEF pageTree, sourceTree, binds, map
<1>11. pages \in Seq(PageRecord) /\ DOMAIN pages = DOMAIN d.pages /\ \A p \in DOMAIN d.pages : pages[p] = page(p)
  <2>1. DOMAIN d.pages = 1..Len(d.pages) /\ Len(d.pages) \in Nat
    BY PagesAre
  <2>2. pages \in [1..Len(d.pages) -> PageRecord]
    <3> HIDE DEF page
    <3> QED
      BY <1>9, <2>1
  <2> HIDE DEF page
  <2> QED
    BY <2>1, <2>2
<1>12. Range(newId) = {newId[c] : c \in D}
  BY <1>1 DEF Range
<1>13. \A c \in D : old(newId[c]) = c
  BY <1>1
<1>14. DOMAIN components = {newId[c] : c \in D} /\ \A c \in D : components[newId[c]] = source(c)
  <2> HIDE DEF source, old, D
  <2> QED
    BY <1>12, <1>13
<1>15. components \in Maps(DefinitionRecord)
  <2>1. IsFiniteSet(Range(newId)) /\ Range(newId) \subseteq Int
    <3>1. IsFiniteSet({newId[c] : c \in DOMAIN newId})
      BY <1>1, ImageFinite
    <3> QED
      BY <1>1, <1>12, <3>1
  <2>2. \A c \in Range(newId) : components[c] \in DefinitionRecord
    <3> HIDE DEF source, components, D
    <3> QED
      BY <1>10, <1>12, <1>14
  <2>3. DOMAIN components = Range(newId) /\ components = [c \in Range(newId) |-> components[c]]
    <3> HIDE DEF source, old
    <3> QED
      OBVIOUS
  <2> HIDE DEF components
  <2>4. components \in [Range(newId) -> DefinitionRecord]
    BY <2>2, <2>3
  <2> QED
    BY <2>1, <2>3, <2>4, MapsAre DEF IsMap
<1> HIDE DEF pages, components
<1>16. /\ e \in DocumentRecords /\ e.pages = pages /\ e.components = components /\ e.assets = d.assets
       /\ e.snapshots = d.snapshots /\ e.version = d.version
  <2>1. end \in Int
    BY <1>2
  <2> HIDE DEF e, end
  <2> QED
    BY <1>4, <1>11, <1>15, <2>1 DEF DocumentRecords
<1> HIDE DEF e, page, source
<1>17. \A p \in DOMAIN d.pages :
         /\ e.pages[p].id = from + p
         /\ DOMAIN e.pages[p].nodes = DOMAIN d.pages[p].nodes
         /\ \A i \in DOMAIN d.pages[p].nodes :
              e.pages[p].nodes[i] = Moved(d.pages[p].nodes[i], PageFirst(d, p, from) + i, newId)
  BY <1>7, <1>9, <1>11, <1>16
<1>18. \A c \in D :
         /\ e.components[newId[c]].id = newId[c]
         /\ DOMAIN e.components[newId[c]].nodes = DOMAIN d.components[c].nodes
         /\ \A i \in DOMAIN d.components[c].nodes :
              e.components[newId[c]].nodes[i] = Moved(d.components[c].nodes[i], SourceFirst(d, c, from) + i, newId)
         /\ e.components[newId[c]].binds = binds(c)
  BY <1>8, <1>10, <1>14, <1>16
<1>19. \A c \in D : \A b \in binds(c) : \E x \in d.components[c].binds :
           b = IF x \in DOMAIN map(c) THEN map(c)[x] ELSE x
  BY DEF binds
<1>20. \A c \in D : \A b \in e.components[newId[c]].binds : \E x \in d.components[c].binds :
           b = IF x \in DOMAIN map(c) THEN map(c)[x] ELSE x
  BY <1>18, <1>19
<1>21. DOMAIN e.pages = DOMAIN d.pages /\ DOMAIN e.components = {newId[c] : c \in D}
  BY <1>11, <1>14, <1>16
<1>22. IsClone(e, d, newId, from)
  BY <1>16, <1>17, <1>18, <1>20, <1>21 DEF IsClone, map
<1> QED
  BY <1>22 DEF e

(* A clone of a sound document is sound, and all its nodes are new.          *)
LEMMA CloneSound ==
  ASSUME NEW d, Strong(d), NEW from \in Int, NEW newId, Renames(newId, d), NEW e, IsClone(e, d, newId, from)
  PROVE  /\ Strong(e)
         /\ \A n \in NodesOf(e) : n.id > from /\ n.id <= CloneEnd(d, from)
<1> DEFINE D == DOMAIN d.components
<1>1. d \in DocumentRecords /\ e \in DocumentRecords
  BY DEF Strong, IsClone
<1>2. newId \in [D -> Int] /\ \A b, c \in D : newId[b] = newId[c] => b = c
  BY DEF Renames
<1>3. /\ Roots(d, from) \in Int /\ BelowRoots(d, from) \in Int /\ CloneEnd(d, from) \in Int /\ Len(walk(d)) \in Nat
      /\ from <= Roots(d, from) /\ Roots(d, from) + Len(walk(d)) <= BelowRoots(d, from)
      /\ BelowRoots(d, from) <= CloneEnd(d, from)
  BY <1>1, CountsAre
<1> HIDE DEF D
<1>4. \A p \in DOMAIN d.pages : \A i \in DOMAIN d.pages[p].nodes : d.pages[p].nodes[i] \in NodeRecord /\ i \in Int
  BY <1>1, PagesAre
<1>5. \A c \in D : \A i \in DOMAIN d.components[c].nodes : d.components[c].nodes[i] \in NodeRecord /\ i \in Int
  BY <1>1, SourcesAre DEF D
<1>6. ASSUME NEW p \in DOMAIN d.pages, NEW i \in DOMAIN d.pages[p].nodes
      PROVE  LET m == e.pages[p].nodes[i]
                 n == d.pages[p].nodes[i]
             IN  /\ m.id = PageFirst(d, p, from) + i /\ m.id \in Int
                 /\ m.id > Roots(d, from) /\ m.id <= Roots(d, from) + Len(walk(d))
                 /\ IsLocal(m) <=> IsLocal(n)
                 /\ IsLocal(n) /\ n.source[2] \in D => m.source[2] = newId[n.source[2]]
  <2> DEFINE n == d.pages[p].nodes[i]
             id == PageFirst(d, p, from) + i
  <2>1. n \in NodeRecord /\ id \in Int /\ id > Roots(d, from) /\ id <= Roots(d, from) + Len(walk(d))
    BY <1>1, <1>4, PagePlaces
  <2>2. e.pages[p].nodes[i] = Moved(n, id, newId)
    BY DEF IsClone
  <2> HIDE DEF n, id
  <2>3. /\ Moved(n, id, newId).id = id /\ (IsLocal(Moved(n, id, newId)) <=> IsLocal(n))
        /\ IsLocal(n) /\ n.source[2] \in D => Moved(n, id, newId).source[2] = newId[n.source[2]]
    BY <1>2, <2>1, MovedIs
  <2> QED
    BY <2>1, <2>2, <2>3 DEF n, id
<1>7. ASSUME NEW c \in D, NEW i \in DOMAIN d.components[c].nodes
      PROVE  LET m == e.components[newId[c]].nodes[i]
                 n == d.components[c].nodes[i]
             IN  /\ m \in NodeRecord
                 /\ m.id = SourceFirst(d, c, from) + i /\ m.id \in Int
                 /\ m.id > BelowRoots(d, from) /\ m.id <= CloneEnd(d, from)
                 /\ IsLocal(m) <=> IsLocal(n)
                 /\ IsLocal(n) /\ n.source[2] \in D => m.source[2] = newId[n.source[2]]
  <2> DEFINE n == d.components[c].nodes[i]
             id == SourceFirst(d, c, from) + i
  <2>1. n \in NodeRecord /\ id \in Int /\ id > BelowRoots(d, from) /\ id <= CloneEnd(d, from)
    <3>1. /\ SourceFirst(d, c, from) \in Int /\ SourceFirst(d, c, from) + i > BelowRoots(d, from)
          /\ SourceFirst(d, c, from) + i <= CloneEnd(d, from)
      BY <1>1, SourcePlaces DEF D
    <3> QED
      BY <1>5, <3>1
  <2>2. e.components[newId[c]].nodes[i] = Moved(n, id, newId)
    BY DEF IsClone, D
  <2> HIDE DEF n, id
  <2>3. /\ Moved(n, id, newId) \in NodeRecord /\ Moved(n, id, newId).id = id
        /\ IsLocal(Moved(n, id, newId)) <=> IsLocal(n)
        /\ IsLocal(n) /\ n.source[2] \in D => Moved(n, id, newId).source[2] = newId[n.source[2]]
    <3>1. n \in NodeRecord /\ id \in Int /\ newId \in [D -> Int]
      BY <1>2, <2>1
    <3>2. Moved(n, id, newId) \in NodeRecord
      BY <3>1, MovedIs
    <3>3. Moved(n, id, newId).id = id
      BY <3>1, MovedIs
    <3>4. IsLocal(Moved(n, id, newId)) <=> IsLocal(n)
      BY <3>1, MovedIs
    <3>5. IsLocal(n) /\ n.source[2] \in D => Moved(n, id, newId).source[2] = newId[n.source[2]]
      BY <3>1, MovedIs
    <3> QED
      BY <3>2, <3>3, <3>4, <3>5
  <2> QED
    BY <2>1, <2>2, <2>3 DEF n, id
<1>8. /\ DOMAIN e.pages = DOMAIN d.pages
      /\ \A p \in DOMAIN d.pages : e.pages[p].id = from + p /\ DOMAIN e.pages[p].nodes = DOMAIN d.pages[p].nodes
  BY DEF IsClone
<1>9. /\ DOMAIN e.components = {newId[c] : c \in D}
      /\ \A c \in D : e.components[newId[c]].id = newId[c] /\ DOMAIN e.components[newId[c]].nodes = DOMAIN d.components[c].nodes
  BY DEF IsClone, D
<1>10. PagesDistinct(e)
  <2>1. \A p \in DOMAIN d.pages : p \in Int
    BY <1>1, PagesAre
  <2> QED
    BY <1>8, <2>1 DEF PagesDistinct
<1>11. \A x \in DOMAIN e.components : \E c \in D : x = newId[c]
  BY <1>9
<1>12. NodesDistinct(e)
  <2>1. ASSUME NEW p \in DOMAIN e.pages, NEW q \in DOMAIN e.pages, NEW i \in DOMAIN e.pages[p].nodes,
               NEW j \in DOMAIN e.pages[q].nodes, e.pages[p].nodes[i].id = e.pages[q].nodes[j].id
        PROVE  p = q /\ i = j
    <3>1. /\ p \in DOMAIN d.pages /\ q \in DOMAIN d.pages
          /\ i \in DOMAIN d.pages[p].nodes /\ j \in DOMAIN d.pages[q].nodes
      BY <1>8
    <3>2. PageFirst(d, p, from) + i = PageFirst(d, q, from) + j
      BY <1>6, <2>1, <3>1, SMTT(60)
    <3> QED
      BY <1>1, <3>1, <3>2, PagePlaces
  <2>2. ASSUME NEW x \in DOMAIN e.components, NEW y \in DOMAIN e.components, NEW i \in DOMAIN e.components[x].nodes,
               NEW j \in DOMAIN e.components[y].nodes, e.components[x].nodes[i].id = e.components[y].nodes[j].id
        PROVE  x = y /\ i = j
    <3>1. PICK b \in D : x = newId[b]
      BY <1>11
    <3>2. PICK c \in D : y = newId[c]
      BY <1>11
    <3>3. i \in DOMAIN d.components[b].nodes /\ j \in DOMAIN d.components[c].nodes
      BY <1>9, <3>1, <3>2
    <3>4. SourceFirst(d, b, from) + i = SourceFirst(d, c, from) + j
      <4>1. e.components[newId[b]].nodes[i].id = SourceFirst(d, b, from) + i
        BY <1>7, <3>3
      <4>2. e.components[newId[c]].nodes[j].id = SourceFirst(d, c, from) + j
        BY <1>7, <3>3
      <4> QED
        BY <2>2, <3>1, <3>2, <4>1, <4>2
    <3>5. b = c /\ i = j
      BY <1>1, <3>3, <3>4, SourcePlaces, SMTT(30) DEF D
    <3> QED
      BY <3>1, <3>2, <3>5
  <2>3. ASSUME NEW p \in DOMAIN e.pages, NEW y \in DOMAIN e.components, NEW i \in DOMAIN e.pages[p].nodes,
               NEW j \in DOMAIN e.components[y].nodes
        PROVE  e.pages[p].nodes[i].id # e.components[y].nodes[j].id
    <3>1. PICK c \in D : y = newId[c]
      BY <1>11
    <3>2. p \in DOMAIN d.pages /\ i \in DOMAIN d.pages[p].nodes /\ j \in DOMAIN d.components[c].nodes
      BY <1>8, <1>9, <3>1
    <3>3. e.pages[p].nodes[i].id <= Roots(d, from) + Len(walk(d)) /\ e.pages[p].nodes[i].id \in Int
      BY <1>6, <3>2
    <3>4. e.components[y].nodes[j].id > BelowRoots(d, from) /\ e.components[y].nodes[j].id \in Int
      BY <1>7, <3>1, <3>2
    <3> QED
      BY <1>3, <3>3, <3>4
  <2> QED
    BY <2>1, <2>2, <2>3 DEF NodesDistinct
<1>13. AssetsFiled(e)
  BY DEF Strong, AssetsFiled, IsClone
<1>14. \A n \in NodesOf(d) : IsLocal(n) => n.source[2] \in D
  BY DEF Strong, RefsHold, D
<1>15. ASSUME NEW m \in NodesOf(e)
       PROVE  /\ m.id > from /\ m.id <= CloneEnd(d, from)
              /\ IsLocal(m) => m.source[2] \in DOMAIN e.components
  <2>1. CASE \E p \in DOMAIN e.pages : \E i \in DOMAIN e.pages[p].nodes : m = e.pages[p].nodes[i]
    <3>1. PICK p \in DOMAIN e.pages : \E i \in DOMAIN e.pages[p].nodes : m = e.pages[p].nodes[i]
      BY <2>1
    <3>2. PICK i \in DOMAIN e.pages[p].nodes : m = e.pages[p].nodes[i]
      BY <3>1
    <3>3. p \in DOMAIN d.pages /\ i \in DOMAIN d.pages[p].nodes
      BY <1>8
    <3>4. d.pages[p].nodes[i] \in NodesOf(d)
      BY <1>4, <3>3 DEF NodesOf
    <3>5. /\ m.id \in Int /\ m.id > Roots(d, from) /\ m.id <= Roots(d, from) + Len(walk(d))
          /\ IsLocal(m) <=> IsLocal(d.pages[p].nodes[i])
          /\ IsLocal(d.pages[p].nodes[i]) /\ d.pages[p].nodes[i].source[2] \in D
               => m.source[2] = newId[d.pages[p].nodes[i].source[2]]
      BY <1>6, <3>2, <3>3
    <3>6. m.id > from /\ m.id <= CloneEnd(d, from)
      BY <1>3, <3>5
    <3> QED
      BY <1>9, <1>14, <3>4, <3>5, <3>6
  <2>2. CASE \E x \in DOMAIN e.components : \E i \in DOMAIN e.components[x].nodes : m = e.components[x].nodes[i]
    <3>1. PICK x \in DOMAIN e.components : \E i \in DOMAIN e.components[x].nodes : m = e.components[x].nodes[i]
      BY <2>2
    <3>2. PICK i \in DOMAIN e.components[x].nodes : m = e.components[x].nodes[i]
      BY <3>1
    <3>3. PICK c \in D : x = newId[c]
      BY <1>11
    <3>4. i \in DOMAIN d.components[c].nodes
      BY <1>9, <3>3
    <3>5. d.components[c].nodes[i] \in NodesOf(d)
      BY <1>5, <3>4 DEF NodesOf, D
    <3>6. /\ m.id \in Int /\ m.id > BelowRoots(d, from) /\ m.id <= CloneEnd(d, from)
          /\ IsLocal(m) <=> IsLocal(d.components[c].nodes[i])
          /\ IsLocal(d.components[c].nodes[i]) /\ d.components[c].nodes[i].source[2] \in D
               => m.source[2] = newId[d.components[c].nodes[i].source[2]]
      BY <1>7, <3>2, <3>3, <3>4
    <3>7. m.id > from
      BY <1>3, <3>6
    <3> QED
      BY <1>9, <1>14, <3>5, <3>6, <3>7
  <2> QED
    BY <2>1, <2>2 DEF NodesOf
<1>16. RefsHold(e)
  BY <1>15 DEF RefsHold
<1>17. BindsHold(e.components)
  <2> SUFFICES ASSUME NEW x \in DOMAIN e.components
               PROVE  /\ e.components[x].id = x
                      /\ e.components[x].binds \subseteq {n.id : n \in Range(e.components[x].nodes)}
    BY DEF BindsHold
  <2>1. PICK c \in D : x = newId[c]
    BY <1>11
  <2>2. e.components[x].id = x
    BY <1>9, <2>1
  <2> DEFINE nodes == d.components[c].nodes
             map == IdMap(nodes, SourceFirst(d, c, from))
  <2>3. /\ nodes \in Seq(NodeRecord) /\ DOMAIN nodes = 1..Len(nodes) /\ 1 \in DOMAIN nodes
    BY <1>1, SourcesAre DEF D
  <2>4. SourceFirst(d, c, from) \in Int
    BY <1>1, <2>3, SourcePlaces DEF D
  <2>5. /\ DOMAIN map = {nodes[i].id : i \in 1..Len(nodes)}
        /\ \A id \in DOMAIN map : \E i \in 1..Len(nodes) : nodes[i].id = id /\ map[id] = SourceFirst(d, c, from) + i
    BY <2>3, <2>4, IdMapIs
  <2>6. \A b \in e.components[x].binds : \E old \in d.components[c].binds : b = IF old \in DOMAIN map THEN map[old] ELSE old
    BY <2>1 DEF IsClone, D
  <2>7. \A old \in d.components[c].binds : \E i \in DOMAIN nodes : old = nodes[i].id
    BY DEF Strong, BindsHold, Range, D
  <2>8. \A i \in DOMAIN nodes : e.components[x].nodes[i].id = SourceFirst(d, c, from) + i /\ i \in DOMAIN e.components[x].nodes
    BY <1>7, <1>9, <2>1
  <2> HIDE DEF nodes, map
  <2>9. ASSUME NEW b \in e.components[x].binds
        PROVE  \E i \in DOMAIN e.components[x].nodes : b = e.components[x].nodes[i].id
    <3>1. PICK old \in d.components[c].binds : b = IF old \in DOMAIN map THEN map[old] ELSE old
      BY <2>6
    <3>2. old \in DOMAIN map
      BY <2>3, <2>5, <2>7
    <3>3. PICK i \in 1..Len(nodes) : map[old] = SourceFirst(d, c, from) + i
      BY <2>5, <3>2
    <3> QED
      BY <2>3, <2>8, <3>1, <3>2, <3>3
  <2> QED
    BY <2>2, <2>9 DEF Range
<1>18. GraphHolds(e.components)
  <2> DEFINE deps == dependencies(d.components)
             moved == dependencies(e.components)
  <2>1. /\ DOMAIN deps = D /\ IsFiniteSet(DOMAIN deps) /\ DOMAIN deps \subseteq Int
        /\ \A c \in D : deps[c] = localRefs(d.components[c].nodes)
    BY <1>1, DependenciesAre DEF IsRegistry, D
  <2>2. /\ DOMAIN moved = DOMAIN e.components
        /\ \A x \in DOMAIN e.components : moved[x] = localRefs(e.components[x].nodes)
    BY <1>1, DependenciesAre
  <2> HIDE DEF deps, moved
  <2>3. ASSUME NEW c \in D
        PROVE  deps[c] \subseteq D /\ moved[newId[c]] = {newId[b] : b \in deps[c]}
    <3> DEFINE old == d.components[c].nodes
               new == e.components[newId[c]].nodes
    <3>1. DOMAIN new = DOMAIN old
      BY <1>9
    <3>2. \A i \in DOMAIN old :
            /\ IsLocal(old[i]) => old[i].source[2] \in D /\ new[i].source[2] = newId[old[i].source[2]]
            /\ IsLocal(new[i]) <=> IsLocal(old[i])
      <4> TAKE i \in DOMAIN old
      <4>1. old[i] \in NodesOf(d)
        BY <1>5 DEF NodesOf, D
      <4> QED
        BY <1>7, <1>14, <4>1
    <3>3. deps[c] = {n.source[2] : n \in {m \in Range(old) : IsLocal(m)}}
      BY <2>1 DEF localRefs
    <3>4. moved[newId[c]] = {n.source[2] : n \in {m \in Range(new) : IsLocal(m)}}
      <4>1. newId[c] \in DOMAIN e.components
        BY <1>9
      <4> QED
        BY <2>2, <4>1 DEF localRefs
    <3>5. Range(old) = {old[i] : i \in DOMAIN old} /\ Range(new) = {new[i] : i \in DOMAIN new}
      BY DEF Range
    <3> HIDE DEF old, new
    <3>6. deps[c] \subseteq D
      BY <3>2, <3>3, <3>5
    <3>7. \A x \in moved[newId[c]] : \E b \in deps[c] : x = newId[b]
      <4> TAKE x \in moved[newId[c]]
      <4>1. PICK i \in DOMAIN new : IsLocal(new[i]) /\ x = new[i].source[2]
        BY <3>4, <3>5
      <4>2. IsLocal(old[i]) /\ x = newId[old[i].source[2]] /\ old[i] \in Range(old)
        BY <3>1, <3>2, <3>5, <4>1
      <4> QED
        BY <3>3, <4>2
    <3>8. \A b \in deps[c] : newId[b] \in moved[newId[c]]
      <4> TAKE b \in deps[c]
      <4>1. PICK i \in DOMAIN old : IsLocal(old[i]) /\ b = old[i].source[2]
        BY <3>3, <3>5
      <4>2. IsLocal(new[i]) /\ newId[b] = new[i].source[2] /\ new[i] \in Range(new)
        BY <3>1, <3>2, <3>5, <4>1
      <4> QED
        BY <3>4, <4>2
    <3> QED
      BY <3>6, <3>7, <3>8
  <2>4. DOMAIN moved = {newId[c] : c \in DOMAIN deps}
    BY <1>9, <2>1, <2>2
  <2>5. newId \in [DOMAIN deps -> Int] /\ \A b, c \in DOMAIN deps : newId[b] = newId[c] => b = c
    BY <1>2, <2>1
  <2>6. \A c \in DOMAIN deps : deps[c] \subseteq DOMAIN deps /\ moved[newId[c]] = {newId[b] : b \in deps[c]}
    BY <2>1, <2>3
  <2>7. /\ DOMAIN ChainDepths(moved) = {newId[c] : c \in DOMAIN ChainDepths(deps)}
        /\ \A c \in DOMAIN ChainDepths(deps) : ChainDepths(moved)[newId[c]] = ChainDepths(deps)[c]
    <3>1. IsRenaming(newId, deps, moved)
      BY <2>1, <2>4, <2>5, <2>6 DEF IsRenaming
    <3>2. SameChains(newId, deps, moved)
      BY <3>1, ChainRenamed
    <3> QED
      BY <3>2 DEF SameChains
  <2>8. DOMAIN ChainDepths(deps) = D /\ \A c \in D : ChainDepths(deps)[c] <= MaxNesting
    BY DEF Strong, GraphHolds, deps, D
  <2>9. DOMAIN ChainDepths(moved) = DOMAIN e.components
    BY <1>9, <2>7, <2>8
  <2>10. \A x \in DOMAIN e.components : ChainDepths(moved)[x] <= MaxNesting
    BY <1>11, <2>7, <2>8
  <2> QED
    BY <2>9, <2>10 DEF GraphHolds, moved
<1>19. Strong(e)
  BY <1>1, <1>10, <1>12, <1>13, <1>16, <1>17, <1>18 DEF Strong
<1> QED
  BY <1>15, <1>19

(* Templates: the slots of the clone, filled.                               *)

Reached(template, values, ids, e) == Ascending(Reaching(template, values, ids, {n.id : n \in Range(walk(e))}))

(* Of the clone only the texts and pictures of pages' nodes are changed.     *)
IsFilled(f, e, template, values, ids) ==
    /\ f \in DocumentRecords
    /\ f.assets = e.assets /\ f.components = e.components
    /\ DOMAIN f.pages = DOMAIN e.pages
    /\ \A p \in DOMAIN e.pages :
         /\ f.pages[p].id = e.pages[p].id
         /\ DOMAIN f.pages[p].nodes = DOMAIN e.pages[p].nodes
         /\ \A i \in DOMAIN e.pages[p].nodes :
              /\ SameBut(e.pages[p].nodes[i], f.pages[p].nodes[i])
              /\ f.pages[p].nodes[i] = Filled(e.pages[p].nodes[i], template, values, ids, Reached(template, values, ids, e))

(* Values for finitely many variables. *)
AreValues(values) == /\ DOMAIN values \subseteq Int /\ IsFiniteSet(DOMAIN values)
                     /\ \A v \in DOMAIN values : values[v] \in Int

LEMMA ReachedIs ==
  ASSUME NEW template, NEW values, AreValues(values), NEW ids, NEW e
  PROVE  /\ Reached(template, values, ids, e) \in Seq(Int)
         /\ AllGiven(values, Reached(template, values, ids, e))
         /\ \A k \in 1..Len(Reached(template, values, ids, e)) :
              Reached(template, values, ids, e)[k] \in Reaching(template, values, ids, {n.id : n \in Range(walk(e))})
<1> DEFINE R == Reaching(template, values, ids, {n.id : n \in Range(walk(e))})
<1>1. R \subseteq DOMAIN values
  BY DEF Reaching
<1>2. R \subseteq Int /\ IsFiniteSet(R)
  BY <1>1, FS_Subset DEF AreValues
<1> HIDE DEF R
<1>3. Ascending(R) \in Seq(R)
  BY <1>2, AscendingLists
<1>4. Ascending(R) \in Seq(Int) /\ \A k \in 1..Len(Ascending(R)) : Ascending(R)[k] \in R
  <2> DEFINE s == Ascending(R)
             N == Cardinality(R)
  <2>1. s \in [1..N -> R] /\ Len(s) = N /\ N \in Nat
    BY <1>2, AscendingLists, CardinalNat
  <2> HIDE DEF s, N
  <2>2. \A k \in 1..Len(s) : s[k] \in R
    BY <2>1
  <2>3. s \in [1..N -> Int]
    BY <1>2, <2>1
  <2>4. s \in Seq(Int)
    BY <2>1, <2>3
  <2> QED
    BY <2>2, <2>4 DEF s
<1>5. \A k \in 1..Len(Ascending(R)) : values[Ascending(R)[k]] \in Int
  BY <1>1, <1>4 DEF AreValues
<1> QED
  BY <1>4, <1>5 DEF R, Reached, AllGiven

FilledNodes(nodes, template, values, ids, variables) ==
    [i \in DOMAIN nodes |-> Filled(nodes[i], template, values, ids, variables)]

LEMMA FilledTree ==
  ASSUME NEW nodes \in Seq(NodeRecord), NEW template, NEW values, NEW ids, NEW variables \in Seq(Int),
         AllGiven(values, variables), NEW tree, tree = FilledNodes(nodes, template, values, ids, variables)
  PROVE  /\ tree \in Seq(NodeRecord) /\ DOMAIN tree = DOMAIN nodes /\ Len(tree) = Len(nodes)
         /\ \A i \in DOMAIN nodes : SameBut(nodes[i], tree[i]) /\ tree[i] = Filled(nodes[i], template, values, ids, variables)
<1>1. DOMAIN nodes = 1..Len(nodes) /\ Len(nodes) \in Nat /\ \A i \in DOMAIN nodes : nodes[i] \in NodeRecord
  OBVIOUS
<1>2. \A i \in DOMAIN nodes : SameBut(nodes[i], Filled(nodes[i], template, values, ids, variables))
  BY <1>1, FilledIs
<1>3. tree = [i \in 1..Len(nodes) |-> Filled(nodes[i], template, values, ids, variables)]
  BY <1>1 DEF FilledNodes
<1>4. \A i \in 1..Len(nodes) : Filled(nodes[i], template, values, ids, variables) \in NodeRecord
  BY <1>1, <1>2 DEF SameBut
<1>5. tree \in [1..Len(nodes) -> NodeRecord]
  BY <1>3, <1>4
<1>6. tree \in Seq(NodeRecord) /\ DOMAIN tree = DOMAIN nodes /\ Len(tree) = Len(nodes)
  BY <1>1, <1>5
<1> QED
  BY <1>1, <1>2, <1>3, <1>6

LEMMA InstantiatedIs ==
  ASSUME NEW e \in DocumentRecords, NEW template, NEW values, AreValues(values), NEW ids
  PROVE  IsFilled(Instantiated(template, values, ids, e), e, template, values, ids)
<1> DEFINE reached == Reached(template, values, ids, e)
           tree(p) == FilledNodes(e.pages[p].nodes, template, values, ids, reached)
           page(p) == [e.pages[p] EXCEPT !.nodes = tree(p)]
           pages == [p \in DOMAIN e.pages |-> page(p)]
           f == Instantiated(template, values, ids, e)
<1>1. reached \in Seq(Int) /\ AllGiven(values, reached)
  BY ReachedIs
<1>2. f = [e EXCEPT !.pages = pages]
  BY DEF Instantiated, FilledNodes, Reached
<1> HIDE DEF reached
<1>3. \A p \in DOMAIN e.pages :
        /\ tree(p) \in Seq(NodeRecord) /\ DOMAIN tree(p) = DOMAIN e.pages[p].nodes
        /\ Len(tree(p)) = Len(e.pages[p].nodes)
        /\ \A i \in DOMAIN e.pages[p].nodes :
             /\ SameBut(e.pages[p].nodes[i], tree(p)[i])
             /\ tree(p)[i] = Filled(e.pages[p].nodes[i], template, values, ids, reached)
  <2> TAKE p \in DOMAIN e.pages
  <2>1. e.pages[p].nodes \in Seq(NodeRecord)
    BY PagesAre
  <2> QED
    BY <1>1, <2>1, FilledTree
<1> HIDE DEF tree
<1>4. \A p \in DOMAIN e.pages : page(p) \in PageRecord /\ page(p).id = e.pages[p].id /\ page(p).nodes = tree(p)
  <2> TAKE p \in DOMAIN e.pages
  <2>1. e.pages[p] \in PageRecord /\ e.pages[p].nodes \in Seq(NodeRecord) /\ e.pages[p].nodes # <<>>
    BY PagesAre
  <2> DEFINE a == tree(p)
             b == e.pages[p].nodes
  <2>2. a \in Seq(NodeRecord) /\ Len(a) = Len(b) /\ b \in Seq(NodeRecord) /\ b # <<>>
    BY <1>3, <2>1
  <2> HIDE DEF a, b
  <2>3. a \in NodeTree
    BY <2>2 DEF NodeTree
  <2>4. [e.pages[p] EXCEPT !.nodes = a] \in PageRecord
    BY <2>1, <2>3 DEF PageRecord
  <2>5. [e.pages[p] EXCEPT !.nodes = a].id = e.pages[p].id /\ [e.pages[p] EXCEPT !.nodes = a].nodes = a
    BY <2>1 DEF PageRecord
  <2> QED
    BY <2>4, <2>5 DEF a
<1> HIDE DEF page
<1>5. pages \in Seq(PageRecord) /\ DOMAIN pages = DOMAIN e.pages /\ \A p \in DOMAIN e.pages : pages[p] = page(p)
  <2>1. DOMAIN e.pages = 1..Len(e.pages) /\ Len(e.pages) \in Nat
    BY PagesAre
  <2>2. pages \in [1..Len(e.pages) -> PageRecord]
    BY <1>4, <2>1
  <2> QED
    BY <2>1, <2>2
<1> HIDE DEF pages
<1>6. f \in DocumentRecords /\ f.pages = pages /\ f.assets = e.assets /\ f.components = e.components
  BY <1>2, <1>5 DEF DocumentRecords
<1> HIDE DEF f
<1>7. \A p \in DOMAIN e.pages :
        /\ f.pages[p].id = e.pages[p].id
        /\ DOMAIN f.pages[p].nodes = DOMAIN e.pages[p].nodes
        /\ \A i \in DOMAIN e.pages[p].nodes :
             /\ SameBut(e.pages[p].nodes[i], f.pages[p].nodes[i])
             /\ f.pages[p].nodes[i] = Filled(e.pages[p].nodes[i], template, values, ids, reached)
  BY <1>3, <1>4, <1>5, <1>6
<1> QED
  BY <1>5, <1>6, <1>7 DEF f, reached, IsFilled

(* Filling slots leaves a sound document sound, and adds no id.              *)
LEMMA FilledSound ==
  ASSUME NEW e, Strong(e), NEW template, NEW values, NEW ids, NEW f, IsFilled(f, e, template, values, ids)
  PROVE  /\ Strong(f)
         /\ \A n \in NodesOf(f) : \E m \in NodesOf(e) : n.id = m.id
<1>1. e \in DocumentRecords /\ f \in DocumentRecords
  BY DEF Strong, IsFilled
<1>2. /\ f.assets = e.assets /\ f.components = e.components /\ DOMAIN f.pages = DOMAIN e.pages
      /\ \A p \in DOMAIN e.pages :
           /\ f.pages[p].id = e.pages[p].id
           /\ DOMAIN f.pages[p].nodes = DOMAIN e.pages[p].nodes
           /\ \A i \in DOMAIN e.pages[p].nodes : /\ f.pages[p].nodes[i].id = e.pages[p].nodes[i].id
                                                 /\ f.pages[p].nodes[i].source = e.pages[p].nodes[i].source
  BY DEF IsFilled, SameBut
<1>3. \A p \in DOMAIN e.pages : \A i \in DOMAIN e.pages[p].nodes : e.pages[p].nodes[i] \in NodeRecord
  BY <1>1, PagesAre
<1>4. PagesDistinct(f)
  BY <1>2 DEF Strong, PagesDistinct
<1>5. NodesDistinct(f)
  <2>1. NodesDistinct(e)
    BY DEF Strong
  <2>2. \A p, q \in DOMAIN e.pages : \A i \in DOMAIN e.pages[p].nodes, j \in DOMAIN e.pages[q].nodes :
          f.pages[p].nodes[i].id = f.pages[q].nodes[j].id => p = q /\ i = j
    BY <1>2, <2>1 DEF NodesDistinct
  <2>3. \A p \in DOMAIN e.pages, c \in DOMAIN e.components :
          \A i \in DOMAIN e.pages[p].nodes, j \in DOMAIN e.components[c].nodes :
            f.pages[p].nodes[i].id # e.components[c].nodes[j].id
    BY <1>2, <2>1 DEF NodesDistinct
  <2> QED
    BY <1>2, <2>1, <2>2, <2>3 DEF NodesDistinct
<1>6. ASSUME NEW n \in NodesOf(f)
      PROVE  \E m \in NodesOf(e) : n.id = m.id /\ n.source = m.source
  <2>1. CASE \E p \in DOMAIN f.pages : \E i \in DOMAIN f.pages[p].nodes : n = f.pages[p].nodes[i]
    <3>1. PICK p \in DOMAIN f.pages : \E i \in DOMAIN f.pages[p].nodes : n = f.pages[p].nodes[i]
      BY <2>1
    <3>2. PICK i \in DOMAIN f.pages[p].nodes : n = f.pages[p].nodes[i]
      BY <3>1
    <3>3. p \in DOMAIN e.pages /\ i \in DOMAIN e.pages[p].nodes
      BY <1>2
    <3>4. e.pages[p].nodes[i] \in NodesOf(e)
      BY <1>3, <3>3 DEF NodesOf
    <3> QED
      BY <1>2, <3>2, <3>3, <3>4
  <2>2. CASE \E c \in DOMAIN f.components : \E i \in DOMAIN f.components[c].nodes : n = f.components[c].nodes[i]
    <3>1. n \in NodesOf(e)
      BY <1>2, <2>2 DEF NodesOf
    <3> QED
      BY <3>1
  <2> QED
    BY <2>1, <2>2 DEF NodesOf
<1>7. RefsHold(f)
  <2> SUFFICES ASSUME NEW n \in NodesOf(f), IsLocal(n)
               PROVE  n.source[2] \in DOMAIN f.components
    BY DEF RefsHold
  <2>1. PICK m \in NodesOf(e) : n.id = m.id /\ n.source = m.source
    BY <1>6
  <2>2. IsLocal(m)
    BY <2>1 DEF IsLocal, IsInstance
  <2> QED
    BY <1>2, <2>1, <2>2 DEF Strong, RefsHold
<1>8. AssetsFiled(f) /\ BindsHold(f.components) /\ GraphHolds(f.components)
  BY <1>2 DEF Strong, AssetsFiled
<1> QED
  BY <1>1, <1>4, <1>5, <1>6, <1>7, <1>8 DEF Strong

(* Templates: what is locked stays as it is, and the whole is sound.        *)

LocksHold(template, document) ==
    \A p \in DOMAIN template.doc.pages : \A i \in DOMAIN template.doc.pages[p].nodes :
        LET old == template.doc.pages[p].nodes[i]
            new == document.pages[p].nodes[i]
        IN  /\ <<old.kind, old.depth, old.mask>> = <<new.kind, new.depth, new.mask>>
            /\ old.id \in template.locked => <<old.text, old.asset>> = <<new.text, new.asset>>

(* document: what the template is instantiated as, with ids after from.      *)
IsInstanceOf(document, template, supplied, newId, from) ==
    /\ IsTemplate(template) /\ Strong(template.doc) /\ IsMap(supplied, Int) /\ Renames(newId, template.doc)
    /\ document = Instantiated(template, resolveTemplateVariables(template, supplied), AllIds(template.doc, from),
                               Cloned(template.doc, newId, from))

LEMMA InstanceParts ==
  ASSUME NEW template, NEW supplied, NEW newId, NEW from \in Int, NEW document,
         IsInstanceOf(document, template, supplied, newId, from)
  PROVE  \E clone, values :
           /\ AreValues(values) /\ values = resolveTemplateVariables(template, supplied)
           /\ IsClone(clone, template.doc, newId, from)
           /\ IsFilled(document, clone, template, values, AllIds(template.doc, from))
<1> DEFINE values == resolveTemplateVariables(template, supplied)
           clone == Cloned(template.doc, newId, from)
           ids == AllIds(template.doc, from)
<1>1. /\ IsTemplate(template) /\ Strong(template.doc) /\ IsMap(supplied, Int) /\ Renames(newId, template.doc)
      /\ document = Instantiated(template, values, ids, clone)
  BY DEF IsInstanceOf
<1>2. template.doc \in DocumentRecords
  BY <1>1 DEF Strong
<1>3. AreValues(values)
  BY <1>1, ValuesAre DEF Values, AreValues
<1>4. IsClone(clone, template.doc, newId, from)
  BY <1>1, <1>2, ClonedIs
<1>5. clone \in DocumentRecords
  BY <1>4 DEF IsClone
<1> HIDE DEF values, clone, ids
<1>6. IsFilled(document, clone, template, values, ids)
  BY <1>1, <1>3, <1>5, InstantiatedIs
<1> QED
  BY <1>3, <1>4, <1>6 DEF values, ids

LEMMA LocksKept ==
  ASSUME NEW template, NEW supplied, NEW newId, NEW from \in Int, NEW document,
         IsInstanceOf(document, template, supplied, newId, from)
  PROVE  LocksHold(template, document)
<1> DEFINE d == template.doc
           ids == AllIds(template.doc, from)
<1>1. PICK clone, values :
        /\ AreValues(values)
        /\ IsClone(clone, d, newId, from)
        /\ IsFilled(document, clone, template, values, ids)
  BY InstanceParts
<1>2. d \in DocumentRecords /\ NodesDistinct(d) /\ Renames(newId, d)
  BY DEF IsInstanceOf, Strong
<1> HIDE DEF d
<1> SUFFICES ASSUME NEW p \in DOMAIN d.pages, NEW i \in DOMAIN d.pages[p].nodes
             PROVE  LET old == d.pages[p].nodes[i]
                        new == document.pages[p].nodes[i]
                    IN  /\ <<old.kind, old.depth, old.mask>> = <<new.kind, new.depth, new.mask>>
                        /\ old.id \in template.locked => <<old.text, old.asset>> = <<new.text, new.asset>>
  BY DEF LocksHold, d
<1> DEFINE old == d.pages[p].nodes[i]
           new == document.pages[p].nodes[i]
           id == PageFirst(d, p, from) + i
           moved == Moved(old, id, newId)
           variables == Reached(template, values, ids, clone)
<1>3. old \in NodeRecord /\ id \in Int
  <2>1. old \in NodeRecord /\ i \in Int
    BY <1>2, PagesAre
  <2>2. PageFirst(d, p, from) \in Int
    BY <1>2, PagePlaces
  <2> QED
    BY <2>1, <2>2
<1>4. old.id \in DOMAIN ids /\ ids[old.id] = id
  BY <1>2, AllIdsIs DEF d
<1>5. clone.pages[p].nodes[i] = moved /\ p \in DOMAIN clone.pages /\ i \in DOMAIN clone.pages[p].nodes
  BY <1>1 DEF IsClone
<1>6. SameBut(moved, new) /\ new = Filled(moved, template, values, ids, variables)
  BY <1>1, <1>5 DEF IsFilled
<1>7. /\ variables \in Seq(Int) /\ AllGiven(values, variables)
      /\ \A k \in 1..Len(variables) :
           variables[k] \in Reaching(template, values, ids, {n.id : n \in Range(walk(clone))})
  BY <1>1, ReachedIs
<1> HIDE DEF old, new, id, variables, ids
<1>8. /\ moved \in NodeRecord /\ moved.id = id /\ moved.kind = old.kind /\ moved.depth = old.depth
      /\ moved.mask = old.mask /\ moved.text = old.text /\ moved.asset = old.asset
  BY <1>2, <1>3, MovedIs DEF Renames
<1> HIDE DEF moved
<1>9. <<old.kind, old.depth, old.mask>> = <<new.kind, new.depth, new.mask>>
  BY <1>6, <1>8 DEF SameBut
<1>10. ASSUME old.id \in template.locked
       PROVE  <<old.text, old.asset>> = <<new.text, new.asset>>
  <2>1. ASSUME NEW k \in 1..Len(variables)
        PROVE  Wanted(template, values, ids, variables[k]) # moved.id
    <3>1. variables[k] \in Reaching(template, values, ids, {n.id : n \in Range(walk(clone))})
      BY <1>7
    <3>2. Wanted(template, values, ids, variables[k]) \notin {ids[l] : l \in template.locked \cap DOMAIN ids}
      BY <3>1 DEF Reaching, Wanted
    <3> QED
      BY <1>4, <1>8, <1>10, <3>2
  <2>2. Filled(moved, template, values, ids, variables) = moved
    BY <1>7, <1>8, <2>1, FilledIs
  <2> QED
    BY <1>6, <1>8, <2>2
<1> QED
  BY <1>9, <1>10 DEF old, new

(* What a template is instantiated as is sound, and all its nodes are new.   *)
LEMMA InstanceSound ==
  ASSUME NEW template, NEW supplied, NEW newId, NEW from \in Int, NEW document,
         IsInstanceOf(document, template, supplied, newId, from)
  PROVE  /\ Strong(document) /\ document.assets = template.doc.assets
         /\ \A n \in NodesOf(document) : n.id > from /\ n.id <= CloneEnd(template.doc, from)
<1> DEFINE d == template.doc
<1>1. PICK clone, values :
        /\ IsClone(clone, d, newId, from)
        /\ IsFilled(document, clone, template, values, AllIds(d, from))
  BY InstanceParts
<1>2. Strong(d) /\ Renames(newId, d)
  BY DEF IsInstanceOf
<1> HIDE DEF d
<1>3. Strong(clone) /\ \A n \in NodesOf(clone) : n.id > from /\ n.id <= CloneEnd(d, from)
  BY <1>1, <1>2, CloneSound
<1>4. Strong(document) /\ \A n \in NodesOf(document) : \E m \in NodesOf(clone) : n.id = m.id
  BY <1>1, <1>3, FilledSound
<1>5. document.assets = d.assets
  BY <1>1 DEF IsFilled, IsClone
<1>6. ASSUME NEW n \in NodesOf(document)
      PROVE  n.id > from /\ n.id <= CloneEnd(d, from)
  BY <1>3, <1>4
<1> QED
  BY <1>4, <1>5, <1>6 DEF d

(* Batches: what an import adds, command by command.                        *)

Additions == ({"component.create"} \X DefinitionRecord) \cup ({"page.create"} \X PageRecord)

(* part: the definition or page that a command adds. *)
LEMMA PartIs ==
  ASSUME NEW command \in Additions
  PROVE  /\ command \in Commands
         /\ command = <<command[1], command[2]>>
         /\ \/ command[1] = "component.create" /\ command[2] \in DefinitionRecord
            \/ command[1] = "page.create" /\ command[2] \in PageRecord
         /\ command[2].id \in Int /\ command[2].nodes \in Seq(NodeRecord) /\ command[2].nodes # <<>>
         /\ DOMAIN command[2].nodes = 1..Len(command[2].nodes)
         /\ \A i \in DOMAIN command[2].nodes : command[2].nodes[i] \in NodeRecord
<1>1. /\ command \in Commands /\ command = <<command[1], command[2]>>
      /\ \/ command[1] = "component.create" /\ command[2] \in DefinitionRecord
         \/ command[1] = "page.create" /\ command[2] \in PageRecord
  BY DEF Additions, Commands
<1>2. command[2].id \in Int /\ command[2].nodes \in NodeTree
  BY <1>1 DEF DefinitionRecord, PageRecord
<1> DEFINE nodes == command[2].nodes
<1>3. nodes \in Seq(NodeRecord) /\ nodes # <<>>
  BY <1>2 DEF NodeTree
<1> HIDE DEF nodes
<1>4. DOMAIN nodes = 1..Len(nodes) /\ \A i \in DOMAIN nodes : nodes[i] \in NodeRecord
  BY <1>3
<1> QED
  BY <1>1, <1>2, <1>3, <1>4 DEF nodes

LEMMA ComponentAdded ==
  ASSUME NEW d \in DocumentRecords, NEW c \in DefinitionRecord, NEW e, e = Carried(d, <<"component.create", c>>)
  PROVE  /\ e \in DocumentRecords /\ e.pages = d.pages /\ e.assets = d.assets
         /\ e.components = Over(Entry(c.id, c), d.components)
         /\ DOMAIN e.components = {c.id} \cup DOMAIN d.components
         /\ e.components[c.id] = c
         /\ \A x \in DOMAIN d.components \ {c.id} : e.components[x] = d.components[x]
<1> DEFINE command == <<"component.create", c>>
<1>1. e \in DocumentRecords
  <2>1. command \in Commands
    BY DEF Commands
  <2>2. Carried(d, command) \in DocumentRecords
    BY <2>1, CarriedTyped
  <2> QED
    BY <2>2
<1>2. e = [d EXCEPT !.components = Over(Entry(c.id, c), d.components)]
  BY DEF Carried
<1> DEFINE more == Over(Entry(c.id, c), d.components)
<1> DEFINE f == Entry(c.id, c)
<1>3. DOMAIN f = {c.id} /\ f[c.id] = c
  BY DEF Entry
<1>4. DOMAIN more = {c.id} \cup DOMAIN d.components /\ more[c.id] = c /\ \A x \in DOMAIN d.components \ {c.id} : more[x] = d.components[x]
  <2> HIDE DEF f
  <2>1. /\ DOMAIN Over(f, d.components) = DOMAIN f \cup DOMAIN d.components
        /\ \A x \in DOMAIN f : Over(f, d.components)[x] = f[x]
        /\ \A x \in DOMAIN d.components \ DOMAIN f : Over(f, d.components)[x] = d.components[x]
    BY OverValues
  <2>2. more = Over(f, d.components)
    BY DEF f
  <2> QED
    BY <1>3, <2>1, <2>2
<1> HIDE DEF more
<1>5. e.pages = d.pages /\ e.assets = d.assets /\ e.components = more
  BY <1>2 DEF DocumentRecords, more
<1> QED
  BY <1>1, <1>4, <1>5 DEF more

LEMMA PageAdded ==
  ASSUME NEW d \in DocumentRecords, NEW page \in PageRecord, NEW e, e = Carried(d, <<"page.create", page>>)
  PROVE  /\ e \in DocumentRecords /\ e.components = d.components /\ e.assets = d.assets
         /\ e.pages = Append(d.pages, page)
         /\ DOMAIN e.pages = DOMAIN d.pages \cup {Len(d.pages) + 1}
         /\ Len(d.pages) + 1 \notin DOMAIN d.pages
         /\ e.pages[Len(d.pages) + 1] = page
         /\ \A q \in DOMAIN d.pages : e.pages[q] = d.pages[q]
<1> DEFINE command == <<"page.create", page>>
<1>1. e \in DocumentRecords
  <2>1. command \in Commands
    BY DEF Commands
  <2>2. Carried(d, command) \in DocumentRecords
    BY <2>1, CarriedTyped
  <2> QED
    BY <2>2
<1>2. e = [d EXCEPT !.pages = Append(d.pages, page)]
  BY DEF Carried
<1>3. d.pages \in Seq(PageRecord) /\ DOMAIN d.pages = 1..Len(d.pages) /\ Len(d.pages) \in Nat
  BY PagesAre
<1> DEFINE a == d.pages
           more == Append(a, page)
<1>4. /\ DOMAIN more = DOMAIN a \cup {Len(a) + 1} /\ Len(a) + 1 \notin DOMAIN a
      /\ more[Len(a) + 1] = page /\ \A q \in DOMAIN a : more[q] = a[q]
  <2> HIDE DEF a
  <2>1. a \in Seq(PageRecord) /\ DOMAIN a = 1..Len(a) /\ Len(a) \in Nat
    BY <1>3 DEF a
  <2> QED
    BY <2>1
<1> HIDE DEF more
<1>5. e.components = d.components /\ e.assets = d.assets /\ e.pages = more
  BY <1>2 DEF DocumentRecords, more
<1> QED
  BY <1>1, <1>4, <1>5 DEF more

(* What was just added is taken away again, and nothing else.                *)
LEMMA InverseCarried ==
  ASSUME NEW d \in DocumentRecords, NEW command \in Additions, Allowed(d, command)
  PROVE  Carried(Carried(d, command), InverseOf(command)) = d
<1> DEFINE part == command[2]
<1>1. command = <<command[1], part>>
  BY PartIs
<1>2. CASE command[1] = "component.create"
  <2>1. part \in DefinitionRecord /\ command = <<"component.create", part>>
    BY <1>1, <1>2, PartIs
  <2>2. part.id \notin DOMAIN d.components
    BY <1>2 DEF Allowed, assertRegistryAddable
  <2> DEFINE e == Carried(d, command)
             less == [x \in DOMAIN e.components \ {part.id} |-> e.components[x]]
  <2>3. /\ e = [d EXCEPT !.components = e.components]
        /\ DOMAIN e.components = {part.id} \cup DOMAIN d.components
        /\ \A x \in DOMAIN d.components \ {part.id} : e.components[x] = d.components[x]
    <3>1. /\ e.components = Over(Entry(part.id, part), d.components)
          /\ DOMAIN e.components = {part.id} \cup DOMAIN d.components
          /\ \A x \in DOMAIN d.components \ {part.id} : e.components[x] = d.components[x]
      BY <2>1, ComponentAdded
    <3>2. e = [d EXCEPT !.components = Over(Entry(part.id, part), d.components)]
      BY <1>2 DEF Carried
    <3> HIDE DEF e
    <3>3. e = [d EXCEPT !.components = e.components]
      BY <3>1, <3>2
    <3> QED
      BY <3>1, <3>3
  <2>4. InverseOf(command) = <<"component.delete", part.id>>
    BY <1>2 DEF InverseOf
  <2>5. Carried(e, <<"component.delete", part.id>>) = [e EXCEPT !.components = less]
    BY DEF Carried
  <2>6. d.components \in [DOMAIN d.components -> DefinitionRecord]
    BY SourcesAre, MapsAre DEF IsMap
  <2> HIDE DEF e
  <2>7. less = d.components
    BY <2>2, <2>3, <2>6
  <2> HIDE DEF less
  <2>8. [e EXCEPT !.components = less] = d
    BY <2>3, <2>7 DEF DocumentRecords
  <2> QED
    BY <2>4, <2>5, <2>8 DEF e
<1>3. CASE command[1] = "page.create"
  <2>1. part \in PageRecord /\ command = <<"page.create", part>>
    BY <1>1, <1>3, PartIs DEF Additions
  <2>2. \A i \in 1..Len(d.pages) : d.pages[i].id # part.id
    <3>1. part.id \notin {p.id : p \in Range(d.pages)}
      BY <1>3 DEF Allowed
    <3>2. \A i \in 1..Len(d.pages) : d.pages[i] \in Range(d.pages)
      BY PagesAre DEF Range
    <3> QED
      BY <3>1, <3>2
  <2> DEFINE e == Carried(d, command)
             less == PagesBut(e.pages, part.id)
  <2>3. e = [d EXCEPT !.pages = Append(d.pages, part)] /\ e.pages = Append(d.pages, part)
    BY <1>3 DEF Carried, DocumentRecords
  <2>4. InverseOf(command) = <<"page.delete", part.id>>
    BY <1>3 DEF InverseOf
  <2>5. Carried(e, <<"page.delete", part.id>>) = [e EXCEPT !.pages = less]
    BY DEF Carried
  <2>6. less = d.pages
    <3>1. d.pages \in Seq(PageRecord)
      BY PagesAre
    <3> QED
      BY <2>1, <2>2, <2>3, <3>1, PagesButAdded
  <2> HIDE DEF e, less
  <2>7. [e EXCEPT !.pages = less] = d
    BY <2>3, <2>6 DEF DocumentRecords
  <2> QED
    BY <2>4, <2>5, <2>7 DEF e
<1> QED
  BY <1>2, <1>3, PartIs

(* Soundness command by command: all of it but that references resolve,      *)
(* which may wait for a definition that a later command adds.                *)
Sturdy(d) ==
    /\ d \in DocumentRecords
    /\ PagesDistinct(d) /\ NodesDistinct(d) /\ AssetsFiled(d)
    /\ GraphHolds(d.components) /\ BindsHold(d.components)

(* A part whose nodes have ids of their own. *)
Joins(part, d) ==
    /\ \A i, l \in DOMAIN part.nodes : part.nodes[i].id = part.nodes[l].id => i = l
    /\ \A n \in NodesOf(d) : \A i \in DOMAIN part.nodes : n.id # part.nodes[i].id

LEMMA ComponentJoins ==
  ASSUME NEW d, Sturdy(d), NEW c \in DefinitionRecord, Joins(c, d),
         c.binds \subseteq {n.id : n \in Range(c.nodes)},
         Allowed(d, <<"component.create", c>>), NEW e, e = Carried(d, <<"component.create", c>>)
  PROVE  Sturdy(e)
<1>1. d \in DocumentRecords
  BY DEF Sturdy
<1>2. /\ e \in DocumentRecords /\ e.pages = d.pages /\ e.assets = d.assets
      /\ e.components = Over(Entry(c.id, c), d.components)
      /\ DOMAIN e.components = {c.id} \cup DOMAIN d.components
      /\ e.components[c.id] = c
      /\ \A x \in DOMAIN d.components \ {c.id} : e.components[x] = d.components[x]
  BY <1>1, ComponentAdded, SMTT(60)
<1>3. /\ c.id \notin DOMAIN d.components
      /\ DOMAIN ChainDepths(dependencies(e.components)) = DOMAIN e.components
      /\ \A x \in DOMAIN ChainDepths(dependencies(e.components)) : ChainDepths(dependencies(e.components))[x] <= MaxNesting
  BY <1>2 DEF Allowed, assertRegistryAddable
<1>4. PagesDistinct(e) /\ AssetsFiled(e)
  BY <1>2 DEF Sturdy, PagesDistinct, AssetsFiled
<1>5. GraphHolds(e.components)
  BY <1>3 DEF GraphHolds
<1>6. BindsHold(e.components)
  <2> SUFFICES ASSUME NEW x \in DOMAIN e.components
               PROVE  /\ e.components[x].id = x
                      /\ e.components[x].binds \subseteq {n.id : n \in Range(e.components[x].nodes)}
    BY DEF BindsHold
  <2>1. CASE x = c.id
    BY <1>2, <2>1
  <2>2. CASE x \in DOMAIN d.components \ {c.id}
    BY <1>2, <2>2 DEF Sturdy, BindsHold
  <2> QED
    BY <1>2, <2>1, <2>2
<1>7. \A p \in DOMAIN d.pages : \A i \in DOMAIN d.pages[p].nodes : d.pages[p].nodes[i] \in NodesOf(d)
  <2> TAKE p \in DOMAIN d.pages
  <2> TAKE i \in DOMAIN d.pages[p].nodes
  <2>1. d.pages[p].nodes[i] \in NodeRecord
    BY <1>1, PagesAre
  <2> QED
    BY <2>1 DEF NodesOf
<1>8. \A x \in DOMAIN d.components : \A i \in DOMAIN d.components[x].nodes : d.components[x].nodes[i] \in NodesOf(d)
  <2> TAKE x \in DOMAIN d.components
  <2> TAKE i \in DOMAIN d.components[x].nodes
  <2>1. d.components[x].nodes[i] \in NodeRecord
    BY <1>1, SourcesAre
  <2> QED
    BY <2>1 DEF NodesOf
<1>9. NodesDistinct(e)
  <2>1. NodesDistinct(d)
    BY DEF Sturdy
  <2>2. ASSUME NEW x \in DOMAIN e.components, NEW y \in DOMAIN e.components, NEW i \in DOMAIN e.components[x].nodes,
               NEW j \in DOMAIN e.components[y].nodes, e.components[x].nodes[i].id = e.components[y].nodes[j].id
        PROVE  x = y /\ i = j
    <3>1. CASE x = c.id /\ y = c.id
      BY <1>2, <2>2, <3>1 DEF Joins
    <3>2. CASE x = c.id /\ y \in DOMAIN d.components \ {c.id}
      BY <1>2, <1>8, <2>2, <3>2 DEF Joins
    <3>3. CASE x \in DOMAIN d.components \ {c.id} /\ y = c.id
      BY <1>2, <1>8, <2>2, <3>3 DEF Joins
    <3>4. CASE x \in DOMAIN d.components \ {c.id} /\ y \in DOMAIN d.components \ {c.id}
      BY <1>2, <2>1, <2>2, <3>4 DEF NodesDistinct
    <3> QED
      BY <1>2, <3>1, <3>2, <3>3, <3>4
  <2>3. ASSUME NEW p \in DOMAIN e.pages, NEW y \in DOMAIN e.components, NEW i \in DOMAIN e.pages[p].nodes,
               NEW j \in DOMAIN e.components[y].nodes
        PROVE  e.pages[p].nodes[i].id # e.components[y].nodes[j].id
    <3>1. CASE y = c.id
      BY <1>2, <1>7, <3>1 DEF Joins
    <3>2. CASE y \in DOMAIN d.components \ {c.id}
      BY <1>2, <2>1, <3>2 DEF NodesDistinct
    <3> QED
      BY <1>2, <3>1, <3>2
  <2>4. \A p, q \in DOMAIN e.pages : \A i \in DOMAIN e.pages[p].nodes, j \in DOMAIN e.pages[q].nodes :
          e.pages[p].nodes[i].id = e.pages[q].nodes[j].id => p = q /\ i = j
    BY <1>2, <2>1 DEF NodesDistinct
  <2> QED
    BY <2>2, <2>3, <2>4 DEF NodesDistinct
<1> QED
  BY <1>2, <1>4, <1>5, <1>6, <1>9 DEF Sturdy

LEMMA PageJoins ==
  ASSUME NEW d, Sturdy(d), NEW page \in PageRecord, Joins(page, d),
         Allowed(d, <<"page.create", page>>), NEW e, e = Carried(d, <<"page.create", page>>)
  PROVE  Sturdy(e)
<1>1. d \in DocumentRecords
  BY DEF Sturdy
<1> DEFINE N == Len(d.pages) + 1
<1>2. /\ e \in DocumentRecords /\ e.components = d.components /\ e.assets = d.assets
      /\ DOMAIN e.pages = DOMAIN d.pages \cup {N} /\ N \notin DOMAIN d.pages
      /\ e.pages[N] = page
      /\ \A q \in DOMAIN d.pages : e.pages[q] = d.pages[q]
  BY <1>1, PageAdded, SMTT(60)
<1>3. \A q \in DOMAIN d.pages : d.pages[q].id # page.id
  BY DEF Allowed, Range
<1> HIDE DEF N
<1>4. PagesDistinct(e)
  BY <1>2, <1>3 DEF Sturdy, PagesDistinct
<1>5. AssetsFiled(e) /\ BindsHold(e.components) /\ GraphHolds(e.components)
  BY <1>2 DEF Sturdy, AssetsFiled
<1>6. \A p \in DOMAIN d.pages : \A i \in DOMAIN d.pages[p].nodes : d.pages[p].nodes[i] \in NodesOf(d)
  <2> TAKE p \in DOMAIN d.pages
  <2> TAKE i \in DOMAIN d.pages[p].nodes
  <2>1. d.pages[p].nodes[i] \in NodeRecord
    BY <1>1, PagesAre
  <2> QED
    BY <2>1 DEF NodesOf
<1>7. \A x \in DOMAIN d.components : \A i \in DOMAIN d.components[x].nodes : d.components[x].nodes[i] \in NodesOf(d)
  <2> TAKE x \in DOMAIN d.components
  <2> TAKE i \in DOMAIN d.components[x].nodes
  <2>1. d.components[x].nodes[i] \in NodeRecord
    BY <1>1, SourcesAre
  <2> QED
    BY <2>1 DEF NodesOf
<1>8. NodesDistinct(e)
  <2>1. NodesDistinct(d)
    BY DEF Sturdy
  <2>2. ASSUME NEW p \in DOMAIN e.pages, NEW q \in DOMAIN e.pages, NEW i \in DOMAIN e.pages[p].nodes,
               NEW j \in DOMAIN e.pages[q].nodes, e.pages[p].nodes[i].id = e.pages[q].nodes[j].id
        PROVE  p = q /\ i = j
    <3>1. CASE p = N /\ q = N
      BY <1>2, <2>2, <3>1 DEF Joins
    <3>2. CASE p = N /\ q \in DOMAIN d.pages
      BY <1>2, <1>6, <2>2, <3>2 DEF Joins
    <3>3. CASE p \in DOMAIN d.pages /\ q = N
      BY <1>2, <1>6, <2>2, <3>3 DEF Joins
    <3>4. CASE p \in DOMAIN d.pages /\ q \in DOMAIN d.pages
      BY <1>2, <2>1, <2>2, <3>4 DEF NodesDistinct
    <3> QED
      BY <1>2, <3>1, <3>2, <3>3, <3>4
  <2>3. ASSUME NEW p \in DOMAIN e.pages, NEW y \in DOMAIN e.components, NEW i \in DOMAIN e.pages[p].nodes,
               NEW j \in DOMAIN e.components[y].nodes
        PROVE  e.pages[p].nodes[i].id # e.components[y].nodes[j].id
    <3>1. CASE p = N
      BY <1>2, <1>7, <3>1 DEF Joins
    <3>2. CASE p \in DOMAIN d.pages
      BY <1>2, <2>1, <3>2 DEF NodesDistinct
    <3> QED
      BY <1>2, <3>1, <3>2
  <2>4. \A b, c \in DOMAIN e.components : \A i \in DOMAIN e.components[b].nodes, j \in DOMAIN e.components[c].nodes :
          e.components[b].nodes[i].id = e.components[c].nodes[j].id => b = c /\ i = j
    BY <1>2, <2>1 DEF NodesDistinct
  <2> QED
    BY <2>2, <2>3, <2>4 DEF NodesDistinct
<1> QED
  BY <1>2, <1>4, <1>5, <1>8 DEF Sturdy

(* What a command adds to the nodes of a document. *)
LEMMA PartJoined ==
  ASSUME NEW d \in DocumentRecords, NEW command \in Additions, NEW e, e = Carried(d, command)
  PROVE  /\ e \in DocumentRecords /\ e.assets = d.assets
         /\ \A n \in NodesOf(e) : n \in NodesOf(d) \/ \E i \in DOMAIN command[2].nodes : n = command[2].nodes[i]
         /\ DOMAIN d.components \subseteq DOMAIN e.components
         /\ command[1] = "component.create" => command[2].id \in DOMAIN e.components
<1>1. CASE command[1] = "component.create"
  <2> DEFINE c == command[2]
  <2>1. c \in DefinitionRecord /\ command = <<"component.create", c>>
    BY <1>1, PartIs DEF Additions
  <2>2. /\ e \in DocumentRecords /\ e.pages = d.pages /\ e.assets = d.assets
        /\ DOMAIN e.components = {c.id} \cup DOMAIN d.components
        /\ e.components[c.id] = c
        /\ \A x \in DOMAIN d.components \ {c.id} : e.components[x] = d.components[x]
    BY <2>1, ComponentAdded
  <2> HIDE DEF c
  <2>3. ASSUME NEW n \in NodesOf(e)
        PROVE  n \in NodesOf(d) \/ \E i \in DOMAIN c.nodes : n = c.nodes[i]
    BY <2>2, <2>3 DEF NodesOf
  <2> QED
    BY <2>2, <2>3 DEF c
<1>2. CASE command[1] = "page.create"
  <2> DEFINE page == command[2]
             N == Len(d.pages) + 1
  <2>1. page \in PageRecord /\ command = <<"page.create", page>>
    BY <1>2, PartIs DEF Additions
  <2>2. /\ e \in DocumentRecords /\ e.components = d.components /\ e.assets = d.assets
        /\ DOMAIN e.pages = DOMAIN d.pages \cup {N} /\ e.pages[N] = page
        /\ \A q \in DOMAIN d.pages : e.pages[q] = d.pages[q]
    BY <2>1, PageAdded
  <2> HIDE DEF page, N
  <2>3. ASSUME NEW n \in NodesOf(e)
        PROVE  n \in NodesOf(d) \/ \E i \in DOMAIN page.nodes : n = page.nodes[i]
    BY <2>2, <2>3 DEF NodesOf
  <2> QED
    BY <1>2, <2>2, <2>3 DEF page
<1> QED
  BY <1>1, <1>2, PartIs

(* The nodes a batch adds have ids of their own, all after m.                *)
IsAddition(commands, m) ==
    /\ commands \in Seq(Additions)
    /\ \A j \in 1..Len(commands) : commands[j][1] = "component.create" =>
         commands[j][2].binds \subseteq {n.id : n \in Range(commands[j][2].nodes)}
    /\ \A j, k \in 1..Len(commands) : \A i \in DOMAIN commands[j][2].nodes, l \in DOMAIN commands[k][2].nodes :
         commands[j][2].nodes[i].id = commands[k][2].nodes[l].id => j = k /\ i = l
    /\ \A j \in 1..Len(commands) : \A i \in DOMAIN commands[j][2].nodes : commands[j][2].nodes[i].id > m

(* What d has become after the first k commands of a batch. *)
HoldsUpTo(e, d, commands, k) ==
    /\ Sturdy(e) /\ e.assets = d.assets
    /\ \A n \in NodesOf(e) : \/ n \in NodesOf(d)
                             \/ \E j \in 1..k : \E i \in DOMAIN commands[j][2].nodes : n = commands[j][2].nodes[i]
    /\ DOMAIN d.components \subseteq DOMAIN e.components
    /\ \A j \in 1..k : commands[j][1] = "component.create" => commands[j][2].id \in DOMAIN e.components

LEMMA BatchStep ==
  ASSUME NEW m \in Int, NEW d, NodesUpTo(d, m), NEW commands, IsAddition(commands, m), NEW k \in 1..Len(commands),
         NEW e, HoldsUpTo(e, d, commands, k - 1), Allowed(e, commands[k])
  PROVE  HoldsUpTo(Carried(e, commands[k]), d, commands, k)
<1> DEFINE command == commands[k]
           part == command[2]
           f == Carried(e, command)
<1>1. /\ commands \in Seq(Additions) /\ Len(commands) \in Nat /\ command \in Additions
      /\ \A j \in 1..k - 1 : j \in 1..Len(commands) /\ j # k /\ j \in 1..k
      /\ \A j \in 1..k : j \in 1..k - 1 \/ j = k
  BY DEF IsAddition
<1>2. Sturdy(e) /\ e \in DocumentRecords /\ e.assets = d.assets /\ DOMAIN d.components \subseteq DOMAIN e.components
  BY DEF HoldsUpTo, Sturdy
<1>3. /\ command = <<command[1], part>>
      /\ \/ command[1] = "component.create" /\ part \in DefinitionRecord
         \/ command[1] = "page.create" /\ part \in PageRecord
      /\ \A i \in DOMAIN part.nodes : part.nodes[i] \in NodeRecord
  BY <1>1, PartIs
<1>4. Joins(part, e)
  <2>1. \A i, l \in DOMAIN part.nodes : part.nodes[i].id = part.nodes[l].id => i = l
    BY DEF IsAddition
  <2>2. ASSUME NEW n \in NodesOf(e), NEW i \in DOMAIN part.nodes
        PROVE  n.id # part.nodes[i].id
    <3>1. part.nodes[i].id > m /\ part.nodes[i].id \in Int
      BY <1>3, TypeOfId DEF IsAddition
    <3>2. CASE n \in NodesOf(d)
      <4>1. n.id <= m /\ n.id \in Int
        BY <3>2, TypeOfId DEF NodesUpTo, NodesOf
      <4> QED
        BY <3>1, <4>1
    <3>3. CASE \E j \in 1..k - 1 : \E l \in DOMAIN commands[j][2].nodes : n = commands[j][2].nodes[l]
      <4>1. PICK j \in 1..k - 1 : \E l \in DOMAIN commands[j][2].nodes : n = commands[j][2].nodes[l]
        BY <3>3
      <4>2. PICK l \in DOMAIN commands[j][2].nodes : n = commands[j][2].nodes[l]
        BY <4>1
      <4>3. j \in 1..Len(commands) /\ j # k
        BY <1>1
      <4> QED
        BY <4>2, <4>3 DEF IsAddition
    <3> QED
      BY <3>2, <3>3 DEF HoldsUpTo
  <2> QED
    BY <2>1, <2>2 DEF Joins
<1>5. Sturdy(f)
  <2>1. CASE command[1] = "component.create"
    <3>1. part.binds \subseteq {n.id : n \in Range(part.nodes)}
      BY <2>1 DEF IsAddition
    <3>2. part \in DefinitionRecord /\ command = <<"component.create", part>>
      BY <1>3, <2>1
    <3> HIDE DEF part, command
    <3>3. Allowed(e, <<"component.create", part>>) /\ f = Carried(e, <<"component.create", part>>)
      BY <3>2 DEF command
    <3> HIDE DEF f
    <3> QED
      BY <1>2, <1>4, <3>1, <3>2, <3>3, ComponentJoins
  <2>2. CASE command[1] = "page.create"
    <3>2. part \in PageRecord /\ command = <<"page.create", part>>
      BY <1>1, <1>3, <2>2, PartIs DEF Additions
    <3> HIDE DEF part, command
    <3>3. Allowed(e, <<"page.create", part>>) /\ f = Carried(e, <<"page.create", part>>)
      BY <3>2 DEF command
    <3> HIDE DEF f
    <3> QED
      BY <1>2, <1>4, <3>2, <3>3, PageJoins
  <2> QED
    BY <1>3, <2>1, <2>2
<1>6. /\ f.assets = e.assets
      /\ \A n \in NodesOf(f) : n \in NodesOf(e) \/ \E i \in DOMAIN part.nodes : n = part.nodes[i]
      /\ DOMAIN e.components \subseteq DOMAIN f.components
      /\ command[1] = "component.create" => part.id \in DOMAIN f.components
  <2>1. command \in Additions /\ e \in DocumentRecords /\ f = Carried(e, command)
    BY <1>1, <1>2
  <2> HIDE DEF f, command
  <2> QED
    BY <2>1, PartJoined
<1> HIDE DEF f
<1>7. ASSUME NEW n \in NodesOf(f)
      PROVE  \/ n \in NodesOf(d)
             \/ \E j \in 1..k : \E i \in DOMAIN commands[j][2].nodes : n = commands[j][2].nodes[i]
  <2>1. CASE n \in NodesOf(e)
    BY <1>1, <2>1 DEF HoldsUpTo
  <2>2. CASE \E i \in DOMAIN part.nodes : n = part.nodes[i]
    <3>1. k \in 1..k
      BY <1>1
    <3> QED
      BY <2>2, <3>1
  <2> QED
    BY <1>6, <2>1, <2>2
<1>8. \A j \in 1..k : commands[j][1] = "component.create" => commands[j][2].id \in DOMAIN f.components
  BY <1>1, <1>6 DEF HoldsUpTo
<1>9. f.assets = d.assets /\ DOMAIN d.components \subseteq DOMAIN f.components
  BY <1>2, <1>6
<1>10. HoldsUpTo(f, d, commands, k)
  BY <1>5, <1>7, <1>8, <1>9 DEF HoldsUpTo
<1> QED
  BY <1>10 DEF f

(* Every reference of what a batch adds names a definition that is there, or *)
(* that it adds.                                                             *)
RefsKnown(commands, d) ==
    \A j \in 1..Len(commands) : \A i \in DOMAIN commands[j][2].nodes :
        IsLocal(commands[j][2].nodes[i]) =>
          \/ commands[j][2].nodes[i].source[2] \in DOMAIN d.components
          \/ \E k \in 1..Len(commands) : commands[k][1] = "component.create"
                                         /\ commands[k][2].id = commands[j][2].nodes[i].source[2]

(* A batch that goes through leaves a sound document sound.                  *)
LEMMA BatchSound ==
  ASSUME NEW d, Strong(d), NEW m \in Int, NodesUpTo(d, m), NEW commands, IsAddition(commands, m), RefsKnown(commands, d),
         NEW e, e = applyBatch(d, commands), e # Missing
  PROVE  /\ Strong(e) /\ e.assets = d.assets
         /\ \A n \in NodesOf(e) : \/ n \in NodesOf(d)
                                  \/ \E j \in 1..Len(commands) : \E i \in DOMAIN commands[j][2].nodes :
                                       n = commands[j][2].nodes[i]
<1> DEFINE N == Len(commands)
<1>1. d \in DocumentRecords /\ commands \in Seq(Additions) /\ commands \in Seq(Commands) /\ N \in Nat
  <2>1. Additions \subseteq Commands
    BY DEF Additions, Commands
  <2>2. commands \in Seq(Additions)
    BY DEF IsAddition
  <2>3. commands \in [1..N -> Commands] /\ N \in Nat
    BY <2>1, <2>2
  <2>4. d \in DocumentRecords
    BY DEF Strong
  <2> HIDE DEF N
  <2>5. commands \in Seq(Commands)
    BY <2>3
  <2> QED
    BY <2>2, <2>3, <2>4, <2>5
<1>2. PICK acc \in [0..N -> ({Missing} \cup DocumentRecords)] :
        /\ acc[0] = d /\ applyBatch(d, commands) = acc[N]
        /\ \A k \in 1..N : acc[k] = IF acc[k - 1] # Missing /\ Allowed(acc[k - 1], commands[k]) THEN Carried(acc[k - 1], commands[k]) ELSE Missing
  BY <1>1, BatchSteps
<1> DEFINE S == {k \in 0..N : acc[k] # Missing => HoldsUpTo(acc[k], d, commands, k)}
<1>3. 0 \in S
  <2>1. HoldsUpTo(d, d, commands, 0)
    BY DEF HoldsUpTo, Strong, Sturdy
  <2> QED
    BY <1>1, <1>2, <2>1
<1>4. ASSUME NEW k \in 1..N, k - 1 \in S
      PROVE  k \in S
  <2>1. k \in 0..N
    BY <1>1
  <2> SUFFICES ASSUME acc[k] # Missing
               PROVE  HoldsUpTo(acc[k], d, commands, k)
    BY <2>1
  <2>2. acc[k - 1] # Missing /\ Allowed(acc[k - 1], commands[k]) /\ acc[k] = Carried(acc[k - 1], commands[k])
    BY <1>2
  <2>3. HoldsUpTo(acc[k - 1], d, commands, k - 1)
    BY <1>4, <2>2
  <2> DEFINE a == acc[k - 1]
  <2>4. HoldsUpTo(a, d, commands, k - 1) /\ Allowed(a, commands[k])
    BY <2>2, <2>3
  <2> HIDE DEF a
  <2>5. HoldsUpTo(Carried(a, commands[k]), d, commands, k)
    BY <2>4, BatchStep
  <2> QED
    BY <2>2, <2>5 DEF a
<1>5. N \in S
  <2> HIDE DEF S, N
  <2>1. 0..N \subseteq S
    BY <1>1, <1>3, <1>4, Induction, Zenon
  <2> QED
    BY <1>1, <2>1
<1>6. HoldsUpTo(e, d, commands, N)
  BY <1>2, <1>5
<1>7. RefsHold(e)
  <2> SUFFICES ASSUME NEW n \in NodesOf(e), IsLocal(n)
               PROVE  n.source[2] \in DOMAIN e.components
    BY DEF RefsHold
  <2>1. CASE n \in NodesOf(d)
    BY <1>6, <2>1 DEF HoldsUpTo, Strong, RefsHold
  <2>2. CASE \E j \in 1..N : \E i \in DOMAIN commands[j][2].nodes : n = commands[j][2].nodes[i]
    <3>1. PICK j \in 1..N : \E i \in DOMAIN commands[j][2].nodes : n = commands[j][2].nodes[i]
      BY <2>2
    <3>2. PICK i \in DOMAIN commands[j][2].nodes : n = commands[j][2].nodes[i]
      BY <3>1
    <3>3. \/ n.source[2] \in DOMAIN d.components
          \/ \E k \in 1..N : commands[k][1] = "component.create" /\ commands[k][2].id = n.source[2]
      BY <3>2 DEF RefsKnown
    <3> QED
      BY <1>6, <3>3 DEF HoldsUpTo
  <2> QED
    BY <1>6, <2>1, <2>2 DEF HoldsUpTo
<1>8. Strong(e)
  BY <1>6, <1>7 DEF HoldsUpTo, Sturdy, Strong
<1> QED
  BY <1>6, <1>8 DEF HoldsUpTo

(* The inverse of a batch restores the document, or is refused as a whole.   *)
LEMMA BatchReverted ==
  ASSUME NEW d \in DocumentRecords, NEW commands \in Seq(Additions), NEW e, e = applyBatch(d, commands), e # Missing
  PROVE  applyBatch(e, InverseBatch(commands)) \in {Missing, d}
<1> DEFINE N == Len(commands)
           backward == InverseBatch(commands)
<1>1. commands \in Seq(Commands) /\ N \in Nat /\ \A k \in 1..N : commands[k] \in Additions
  <2>1. Additions \subseteq Commands
    BY DEF Additions, Commands
  <2>2. commands \in [1..N -> Additions] /\ N \in Nat
    OBVIOUS
  <2>3. commands \in [1..N -> Commands]
    BY <2>1, <2>2
  <2> HIDE DEF N
  <2>4. commands \in Seq(Commands)
    BY <2>2, <2>3
  <2> QED
    BY <2>2, <2>4
<1>2. PICK acc \in [0..N -> ({Missing} \cup DocumentRecords)] :
        /\ acc[0] = d /\ applyBatch(d, commands) = acc[N]
        /\ \A k \in 1..N : acc[k] = IF acc[k - 1] # Missing /\ Allowed(acc[k - 1], commands[k]) THEN Carried(acc[k - 1], commands[k]) ELSE Missing
  BY <1>1, BatchSteps
<1>3. /\ backward \in Seq(Commands) /\ Len(backward) = N
      /\ \A k \in 1..N : N - k + 1 \in 1..N /\ backward[k] = InverseOf(commands[N - k + 1])
  <2> DEFINE list == [i \in DOMAIN commands |-> InverseOf(commands[i])]
  <2>1. \A i \in 1..N : InverseOf(commands[i]) \in Commands
    <3> TAKE i \in 1..N
    <3>1. commands[i] \in Additions
      BY <1>1
    <3>2. commands[i][2].id \in Int
      BY <3>1, PartIs
    <3> QED
      BY <3>2 DEF InverseOf, Commands
  <2>2. DOMAIN commands = 1..N
    OBVIOUS
  <2>3. list \in [1..N -> Commands] /\ \A i \in 1..N : list[i] = InverseOf(commands[i])
    BY <2>1, <2>2
  <2> HIDE DEF list, N
  <2>4. list \in Seq(Commands) /\ Len(list) = N
    BY <1>1, <2>3
  <2>5. backward = Reverse(list)
    BY DEF InverseBatch, list
  <2>6. \A k \in 1..N : N - k + 1 \in 1..N
    BY <1>1
  <2>7. backward = [k \in 1..N |-> list[N - k + 1]]
    BY <2>4, <2>5 DEF Reverse
  <2> HIDE DEF backward
  <2>8. backward \in [1..N -> Commands]
    BY <2>3, <2>6, <2>7
  <2>9. backward \in Seq(Commands) /\ Len(backward) = N
    BY <1>1, <2>8
  <2> QED
    BY <2>3, <2>6, <2>7, <2>9
<1> HIDE DEF backward
<1>4. acc[N] = e /\ acc[N] # Missing
  BY <1>2
<1> DEFINE T == {k \in 0..N : acc[N - k] # Missing}
<1>5. \A k \in 0..N : acc[k] # Missing
  <2>1. 0 \in T
    BY <1>1, <1>4
  <2>2. ASSUME NEW k \in 1..N, k - 1 \in T
        PROVE  k \in T
    <3>1. N - k + 1 \in 1..N /\ (N - k + 1) - 1 = N - k /\ N - (k - 1) = N - k + 1 /\ k \in 0..N
      BY <1>1
    <3>2. acc[N - k + 1] # Missing
      BY <2>2, <3>1
    <3> QED
      BY <1>2, <3>1, <3>2
  <2>3. 0..N \subseteq T
    <3> HIDE DEF T, N
    <3> QED
      BY <1>1, <2>1, <2>2, Induction, Zenon
  <2> TAKE k \in 0..N
  <2>4. N - k \in 0..N /\ N - (N - k) = k
    BY <1>1
  <2>5. N - k \in T
    BY <2>3, <2>4
  <2> QED
    BY <2>4, <2>5
<1>6. \A k \in 1..N : Allowed(acc[k - 1], commands[k]) /\ acc[k] = Carried(acc[k - 1], commands[k]) /\ acc[k - 1] \in DocumentRecords
  <2> TAKE k \in 1..N
  <2>1. k \in 0..N /\ k - 1 \in 0..N
    BY <1>1
  <2> QED
    BY <1>2, <1>5, <2>1
<1>7. e \in DocumentRecords
  <2>1. N \in 0..N
    BY <1>1
  <2> QED
    BY <1>2, <1>4, <1>5, <2>1
<1>8. PICK back \in [0..N -> ({Missing} \cup DocumentRecords)] :
        /\ back[0] = e /\ applyBatch(e, backward) = back[N]
        /\ \A k \in 1..N : back[k] = IF back[k - 1] # Missing /\ Allowed(back[k - 1], backward[k]) THEN Carried(back[k - 1], backward[k]) ELSE Missing
  <2>1. backward \in Seq(Commands) /\ Len(backward) = N
    BY <1>3
  <2> DEFINE M == Len(backward)
  <2>2. \E back \in [0..M -> ({Missing} \cup DocumentRecords)] :
          /\ back[0] = e /\ applyBatch(e, backward) = back[M]
          /\ \A k \in 1..M : back[k] = IF back[k - 1] # Missing /\ Allowed(back[k - 1], backward[k]) THEN Carried(back[k - 1], backward[k]) ELSE Missing
    BY <1>7, <2>1, BatchSteps
  <2>3. M = N
    BY <2>1
  <2> HIDE DEF M, N
  <2> QED
    BY <2>2, <2>3
<1> DEFINE S == {k \in 0..N : back[k] \in {Missing, acc[N - k]}}
<1>9. 0 \in S
  BY <1>1, <1>4, <1>8
<1>10. ASSUME NEW k \in 1..N, k - 1 \in S
       PROVE  k \in S
  <2> DEFINE j == N - k + 1
  <2>1. /\ j \in 1..N /\ j - 1 = N - k /\ N - (k - 1) = j /\ k \in 0..N /\ commands[j] \in Additions
        /\ backward[k] = InverseOf(commands[j])
    BY <1>1, <1>3
  <2>2. back[k - 1] \in {Missing, acc[j]}
    BY <1>10, <2>1
  <2> HIDE DEF j
  <2>3. Allowed(acc[j - 1], commands[j]) /\ acc[j] = Carried(acc[j - 1], commands[j]) /\ acc[j - 1] \in DocumentRecords
    BY <1>6, <2>1
  <2>4. Carried(acc[j], backward[k]) = acc[j - 1]
    <3> DEFINE a == acc[j - 1]
               c == commands[j]
    <3>1. a \in DocumentRecords /\ c \in Additions /\ Allowed(a, c)
      BY <2>1, <2>3
    <3> HIDE DEF a, c
    <3>2. Carried(Carried(a, c), InverseOf(c)) = a
      BY <3>1, InverseCarried
    <3> QED
      BY <2>1, <2>3, <3>2 DEF a, c
  <2>5. back[k] \in {Missing, acc[j - 1]}
    BY <1>8, <2>2, <2>4
  <2> QED
    BY <2>1, <2>5
<1>11. N \in S
  <2> HIDE DEF S, N
  <2>1. 0..N \subseteq S
    BY <1>1, <1>9, <1>10, Induction, Zenon
  <2> QED
    BY <1>1, <2>1
<1>12. N - N = 0
  BY <1>1
<1> QED
  BY <1>2, <1>8, <1>11, <1>12 DEF backward

(* What a template's command adds.                                           *)
LEMMA RowIs ==
  ASSUME NEW n \in Nat, NEW R, NEW s \in [1..n -> R]
  PROVE  s \in Seq(R) /\ Len(s) = n /\ DOMAIN s = 1..n /\ (n # 0 => s # <<>>)
<1>1. s \in Seq(R) /\ Len(s) = n /\ DOMAIN s = 1..n
  OBVIOUS
<1>2. n # 0 => s # <<>>
  BY <1>1
<1> QED
  BY <1>1, <1>2

LEMMA TemplateAdds ==
  ASSUME NEW r, Strong(r), NEW m \in Int, \A n \in NodesOf(r) : n.id > m, NEW d
  PROVE  /\ IsAddition(TemplateCommand(r), m) /\ RefsKnown(TemplateCommand(r), d)
         /\ \A j \in 1..Len(TemplateCommand(r)) : \A i \in DOMAIN TemplateCommand(r)[j][2].nodes :
              TemplateCommand(r)[j][2].nodes[i] \in NodesOf(r)
<1> DEFINE C == Cardinality(DOMAIN r.components)
           L == Len(r.pages)
           asc == Ascending(DOMAIN r.components)
           sources == [c \in 1..C |-> <<"component.create", r.components[asc[c]]>>]
           pages == [p \in DOMAIN r.pages |-> <<"page.create", r.pages[p]>>]
           commands == TemplateCommand(r)
<1>1. r \in DocumentRecords
  BY DEF Strong
<1>2. /\ C \in Nat /\ IsFiniteSet(DOMAIN r.components) /\ DOMAIN r.components \subseteq Int
      /\ \A c \in DOMAIN r.components : /\ r.components[c] \in DefinitionRecord
                                        /\ \A i \in DOMAIN r.components[c].nodes : r.components[c].nodes[i] \in NodeRecord
  BY <1>1, SourcesAre
<1>3. /\ L \in Nat /\ DOMAIN r.pages = 1..L
      /\ \A p \in DOMAIN r.pages : /\ r.pages[p] \in PageRecord
                                   /\ \A i \in DOMAIN r.pages[p].nodes : r.pages[p].nodes[i] \in NodeRecord
  BY <1>1, PagesAre
<1>4. /\ asc \in [1..C -> DOMAIN r.components]
      /\ \A i, j \in 1..C : asc[i] = asc[j] => i = j
      /\ \A x \in DOMAIN r.components : \E i \in 1..C : asc[i] = x
  BY <1>2, AscendingLists
<1> HIDE DEF C, L, asc
<1>5. sources \in [1..C -> Additions] /\ \A c \in 1..C : sources[c] = <<"component.create", r.components[asc[c]]>>
  <2>1. \A c \in 1..C : asc[c] \in DOMAIN r.components
    BY <1>4
  <2>2. \A c \in 1..C : <<"component.create", r.components[asc[c]]>> \in Additions
    BY <1>2, <2>1 DEF Additions
  <2> QED
    BY <2>2
<1>6. pages \in [1..L -> Additions] /\ \A p \in 1..L : pages[p] = <<"page.create", r.pages[p]>>
  BY <1>3 DEF Additions
<1>7. commands = sources \o pages
  BY DEF TemplateCommand, C, asc
<1> HIDE DEF sources, pages, commands
<1>8. /\ commands \in Seq(Additions) /\ Len(commands) = C + L
      /\ \A c \in 1..C : commands[c] = sources[c]
      /\ \A p \in 1..L : commands[C + p] = pages[p]
  <2>0. C \in Nat /\ L \in Nat
    BY <1>2, <1>3 DEF C, L
  <2>a. sources \in [1..C -> Additions]
    BY <1>5
  <2>b. sources \in Seq(Additions) /\ Len(sources) = C
    BY <2>0, <2>a, RowIs
  <2>c. pages \in [1..L -> Additions]
    BY <1>6
  <2>d. pages \in Seq(Additions) /\ Len(pages) = L
    BY <2>0, <2>c, RowIs
  <2>1. sources \in Seq(Additions) /\ Len(sources) = C /\ pages \in Seq(Additions) /\ Len(pages) = L
    BY <2>b, <2>d
  <2>2. commands \in Seq(Additions) /\ Len(commands) = C + L
    BY <1>7, <2>1, ConcatProperties
  <2>3. C \in Nat /\ L \in Nat
    BY <1>2, <1>3 DEF C, L
  <2>4. \A c \in 1..C : commands[c] = sources[c]
    BY <1>7, <2>1, <2>3
  <2>5. \A p \in 1..L : commands[C + p] = pages[p]
    BY <1>7, <2>1, <2>3
  <2> QED
    BY <2>2, <2>4, <2>5
<1>9. C \in Nat /\ L \in Nat
  BY <1>2, <1>3 DEF C, L
<1>10. ASSUME NEW j \in 1..Len(commands)
       PROVE  \/ j \in 1..C /\ asc[j] \in DOMAIN r.components /\ commands[j] = <<"component.create", r.components[asc[j]]>>
              \/ j - C \in 1..L /\ j - C \in DOMAIN r.pages /\ commands[j] = <<"page.create", r.pages[j - C]>>
  <2>1. CASE j \in 1..C
    BY <1>4, <1>5, <1>8, <2>1
  <2>2. CASE j \notin 1..C
    <3>1. j - C \in 1..L /\ j = C + (j - C)
      BY <1>8, <1>9, <2>2
    <3>2. j - C \in DOMAIN r.pages
      BY <1>3, <3>1 DEF L
    <3>3. commands[j] = pages[j - C]
      BY <1>8, <3>1
    <3> QED
      BY <1>6, <3>1, <3>2, <3>3
  <2> QED
    BY <2>1, <2>2
<1>11. /\ \A c \in DOMAIN r.components : \A i \in DOMAIN r.components[c].nodes : r.components[c].nodes[i] \in NodesOf(r)
       /\ \A p \in DOMAIN r.pages : \A i \in DOMAIN r.pages[p].nodes : r.pages[p].nodes[i] \in NodesOf(r)
  BY <1>2, <1>3 DEF NodesOf
<1>12. \A j \in 1..Len(commands) : \A i \in DOMAIN commands[j][2].nodes : commands[j][2].nodes[i] \in NodesOf(r)
  <2> TAKE j \in 1..Len(commands)
  <2> QED
    BY <1>10, <1>11
<1>13. ASSUME NEW j \in 1..Len(commands), commands[j][1] = "component.create"
       PROVE  commands[j][2].binds \subseteq {n.id : n \in Range(commands[j][2].nodes)}
  <2>1. asc[j] \in DOMAIN r.components /\ commands[j][2] = r.components[asc[j]]
    BY <1>10, <1>13
  <2> QED
    BY <2>1 DEF Strong, BindsHold
<1>14. ASSUME NEW j \in 1..Len(commands), NEW k \in 1..Len(commands),
              NEW i \in DOMAIN commands[j][2].nodes, NEW l \in DOMAIN commands[k][2].nodes,
              commands[j][2].nodes[i].id = commands[k][2].nodes[l].id
       PROVE  j = k /\ i = l
  <2>1. NodesDistinct(r)
    BY DEF Strong
  <2>2. CASE j \in 1..C /\ k \in 1..C
    <3>1. /\ asc[j] \in DOMAIN r.components /\ commands[j][2] = r.components[asc[j]]
          /\ asc[k] \in DOMAIN r.components /\ commands[k][2] = r.components[asc[k]]
      BY <1>4, <1>5, <1>8, <2>2
    <3>2. asc[j] = asc[k] /\ i = l
      BY <1>14, <2>1, <3>1, SMTT(60) DEF NodesDistinct
    <3> QED
      BY <1>4, <2>2, <3>2
  <2>3. CASE j \notin 1..C /\ k \notin 1..C
    <3>1. /\ j - C \in DOMAIN r.pages /\ commands[j][2] = r.pages[j - C]
          /\ k - C \in DOMAIN r.pages /\ commands[k][2] = r.pages[k - C]
      BY <1>10, <2>3
    <3>2. j - C = k - C /\ i = l
      BY <1>14, <2>1, <3>1 DEF NodesDistinct
    <3> QED
      BY <1>9, <3>2
  <2>4. CASE j \in 1..C /\ k \notin 1..C
    <3>1. /\ asc[j] \in DOMAIN r.components /\ commands[j][2] = r.components[asc[j]]
          /\ k - C \in DOMAIN r.pages /\ commands[k][2] = r.pages[k - C]
      BY <1>4, <1>5, <1>8, <1>10, <2>4
    <3> QED
      BY <1>14, <2>1, <3>1 DEF NodesDistinct
  <2>5. CASE j \notin 1..C /\ k \in 1..C
    <3>1. /\ asc[k] \in DOMAIN r.components /\ commands[k][2] = r.components[asc[k]]
          /\ j - C \in DOMAIN r.pages /\ commands[j][2] = r.pages[j - C]
      BY <1>4, <1>5, <1>8, <1>10, <2>5
    <3> QED
      BY <1>14, <2>1, <3>1 DEF NodesDistinct
  <2> QED
    BY <2>2, <2>3, <2>4, <2>5
<1>15. IsAddition(commands, m)
  BY <1>8, <1>12, <1>13, <1>14 DEF IsAddition
<1>16. RefsKnown(commands, d)
  <2> SUFFICES ASSUME NEW j \in 1..Len(commands), NEW i \in DOMAIN commands[j][2].nodes, IsLocal(commands[j][2].nodes[i])
               PROVE  \E k \in 1..Len(commands) : commands[k][1] = "component.create"
                                                  /\ commands[k][2].id = commands[j][2].nodes[i].source[2]
    BY DEF RefsKnown
  <2> DEFINE c == commands[j][2].nodes[i].source[2]
  <2>1. c \in DOMAIN r.components
    BY <1>12 DEF Strong, RefsHold
  <2> HIDE DEF c
  <2>2. PICK k \in 1..C : asc[k] = c
    BY <1>4, <2>1
  <2>3. commands[k][1] = "component.create" /\ commands[k][2] = r.components[c] /\ k \in 1..Len(commands)
    BY <1>5, <1>8, <1>9, <2>2
  <2>4. r.components[c].id = c
    BY <2>1 DEF Strong, BindsHold
  <2> QED
    BY <2>3, <2>4 DEF c
<1> QED
  BY <1>12, <1>15, <1>16 DEF commands

(* Size variants: blocks of W ids that do not overlap.                       *)
Block(W, v) == (v - 1) * W

LEMMA BlocksApart ==
  ASSUME NEW W \in Nat, NEW u \in Nat, NEW v \in Nat, NEW i \in 1..W, NEW j \in 1..W,
         Block(W, u) + i = Block(W, v) + j
  PROVE  u = v /\ i = j
<1>1. ASSUME NEW a \in Nat, NEW b \in Nat, NEW x \in 1..W, NEW y \in 1..W, a < b, (a - 1) * W + x = (b - 1) * W + y
      PROVE  FALSE
  <2>1. (b - 1) * W = (a - 1) * W + (b - a) * W
    OBVIOUS
  <2>2. (b - a) * W >= W
    BY <1>1
  <2> QED
    BY <1>1, <2>1, <2>2
<1>2. (u - 1) * W + i = (v - 1) * W + j
  BY DEF Block
<1>3. u = v
  BY <1>1, <1>2
<1> QED
  BY <1>2, <1>3

LEMMA BlockEnd ==
  ASSUME NEW W \in Nat, NEW N \in Nat, NEW v \in 1..N, NEW i \in 1..W
  PROVE  (v - 1) * W + i <= N * W /\ (v - 1) * W \in Nat
<1>1. N * W = (v - 1) * W + (N - v + 1) * W
  OBVIOUS
<1>2. (N - v + 1) * W >= W
  OBVIOUS
<1>3. (v - 1) * W \in Nat /\ (N - v + 1) * W \in Nat /\ N * W \in Nat
  OBVIOUS
<1> DEFINE a == (v - 1) * W
           b == (N - v + 1) * W
           c == N * W
<1>4. c = a + b /\ b >= W /\ a \in Nat /\ b \in Nat /\ c \in Nat
  BY <1>1, <1>2, <1>3
<1> HIDE DEF a, b, c
<1>5. a + i <= c
  BY <1>4
<1> QED
  BY <1>3, <1>5 DEF a, c

Resized(nodes, first, size) == [regenerateNodeIds(nodes, first) EXCEPT ![1].bounds = size]

LEMMA ResizedTree ==
  ASSUME NEW nodes \in Seq(NodeRecord), nodes # <<>>, NEW first \in Int, NEW size \in Int,
         NEW tree, tree = Resized(nodes, first, size)
  PROVE  /\ tree \in NodeTree /\ DOMAIN tree = DOMAIN nodes
         /\ \A i \in DOMAIN nodes : tree[i].id = first + i /\ tree[i].source = nodes[i].source
<1> DEFINE fresh == regenerateNodeIds(nodes, first)
           root == [fresh[1] EXCEPT !.bounds = size]
<1>1. /\ fresh \in Seq(NodeRecord) /\ DOMAIN fresh = 1..Len(nodes) /\ Len(fresh) = Len(nodes) /\ Len(nodes) \in Nat
      /\ DOMAIN nodes = 1..Len(nodes) /\ 1 \in DOMAIN nodes
      /\ \A i \in 1..Len(nodes) : fresh[i] = [nodes[i] EXCEPT !.id = first + i]
  <2>1. /\ fresh \in Seq(NodeRecord) /\ DOMAIN fresh = 1..Len(nodes) /\ Len(fresh) = Len(nodes)
        /\ \A i \in 1..Len(nodes) : fresh[i] = [nodes[i] EXCEPT !.id = first + i]
    BY RegeneratedIs
  <2>2. Len(nodes) \in Nat /\ DOMAIN nodes = 1..Len(nodes) /\ 1 \in DOMAIN nodes
    OBVIOUS
  <2> QED
    BY <2>1, <2>2
<1> HIDE DEF fresh
<1>2. \A i \in 1..Len(nodes) : /\ fresh[i] \in NodeRecord /\ fresh[i].id = first + i /\ fresh[i].source = nodes[i].source
  <2> TAKE i \in 1..Len(nodes)
  <2> DEFINE n == nodes[i]
             id == first + i
  <2>1. n \in NodeRecord /\ id \in Int /\ fresh[i] = [n EXCEPT !.id = id]
    BY <1>1
  <2> HIDE DEF n, id
  <2>2. [n EXCEPT !.id = id] \in NodeRecord /\ [n EXCEPT !.id = id].id = id /\ [n EXCEPT !.id = id].source = n.source
    BY <2>1 DEF NodeRecord
  <2> QED
    BY <2>1, <2>2 DEF n, id
<1>3. root \in NodeRecord /\ root.id = fresh[1].id /\ root.source = fresh[1].source
  <2>1. fresh[1] \in NodeRecord
    BY <1>1, <1>2
  <2> QED
    BY <2>1 DEF NodeRecord
<1>4. tree = [fresh EXCEPT ![1] = root]
  BY DEF fresh, Resized
<1> HIDE DEF root
<1>5. /\ tree \in [1..Len(nodes) -> NodeRecord]
      /\ \A i \in 1..Len(nodes) : tree[i].id = fresh[i].id /\ tree[i].source = fresh[i].source
  <2> DEFINE n == Len(nodes)
  <2>1. DOMAIN fresh = 1..n /\ n \in Nat /\ 1 \in 1..n /\ \A i \in 1..n : fresh[i] \in NodeRecord
    BY <1>1, <1>2
  <2> HIDE DEF n
  <2>2. tree = [i \in 1..n |-> IF i = 1 THEN root ELSE fresh[i]]
    BY <1>4, <2>1
  <2>3. \A i \in 1..n : tree[i] = IF i = 1 THEN root ELSE fresh[i]
    BY <2>2
  <2>4. tree \in [1..n -> NodeRecord]
    BY <1>3, <2>1, <2>2
  <2>5. \A i \in 1..n : tree[i].id = fresh[i].id /\ tree[i].source = fresh[i].source
    BY <1>3, <2>3
  <2> QED
    BY <2>4, <2>5 DEF n
<1>6. tree \in Seq(NodeRecord) /\ tree # <<>>
  <2> DEFINE n == Len(nodes)
  <2>1. tree \in [1..n -> NodeRecord] /\ n \in Nat /\ n # 0
    BY <1>1, <1>5
  <2> HIDE DEF n
  <2> QED
    BY <2>1, RowIs
<1> QED
  BY <1>1, <1>2, <1>5, <1>6 DEF NodeTree

Created(pages) == [v \in DOMAIN pages |-> <<"page.create", pages[v]>>]

(* What a resize adds.                                                       *)
LEMMA ResizeAdds ==
  ASSUME NEW d, Strong(d), NEW p \in DOMAIN d.pages, NEW presets \in Seq(Int), NEW m \in Int,
         NEW commands, commands = Created(resizeToVariants(d.pages[p], presets, m))
  PROVE  /\ IsAddition(commands, m) /\ RefsKnown(commands, d)
         /\ \A j \in 1..Len(commands) : \A i \in DOMAIN commands[j][2].nodes :
              commands[j][2].nodes[i].id <= m + Len(presets) * (Len(d.pages[p].nodes) + 1)
<1> DEFINE page == d.pages[p]
           nodes == page.nodes
           W == Len(nodes) + 1
           N == Len(presets)
           pages == resizeToVariants(page, presets, m)
           first(v) == m + (v - 1) * W
           tree(v) == [regenerateNodeIds(nodes, first(v)) EXCEPT ![1].bounds = presets[v]]
<1>1. d \in DocumentRecords
  BY DEF Strong
<1>2. /\ page \in PageRecord /\ page.id \in Int /\ nodes \in Seq(NodeRecord) /\ nodes # <<>>
      /\ DOMAIN nodes = 1..Len(nodes) /\ Len(nodes) \in Nat /\ \A i \in DOMAIN nodes : nodes[i] \in NodeRecord
      /\ \A i \in DOMAIN nodes : nodes[i] \in NodesOf(d)
  <2>1. /\ page \in PageRecord /\ page.id \in Int /\ nodes \in Seq(NodeRecord) /\ nodes # <<>>
        /\ DOMAIN nodes = 1..Len(nodes) /\ Len(nodes) \in Nat /\ \A i \in DOMAIN nodes : nodes[i] \in NodeRecord
    BY <1>1, PagesAre
  <2> QED
    BY <2>1 DEF NodesOf
<1>3. N \in Nat /\ DOMAIN presets = 1..N /\ \A v \in 1..N : presets[v] \in Int
  OBVIOUS
<1>4. pages = [v \in DOMAIN presets |-> [id |-> first(v) + Len(nodes) + 1, size |-> presets[v], variant |-> page.id, nodes |-> tree(v)]]
  BY DEF resizeToVariants
<1>5. commands = [v \in DOMAIN pages |-> <<"page.create", pages[v]>>]
  BY DEF Created
<1> HIDE DEF page, pages
<1>6. \A v \in 1..N : \A i \in 1..Len(nodes) : i \in 1..W /\ (v - 1) * W + i <= N * W /\ (v - 1) * W \in Nat
  <2> TAKE v \in 1..N
  <2> TAKE i \in 1..Len(nodes)
  <2>1. W \in Nat /\ i \in 1..W
    BY <1>2
  <2> HIDE DEF W, N
  <2> QED
    BY <1>3, <2>1, BlockEnd
<1>7. \A v \in 1..N : first(v) \in Int
  BY <1>2, <1>6
<1>8. \A v \in 1..N : /\ tree(v) \in NodeTree /\ DOMAIN tree(v) = DOMAIN nodes
                      /\ \A i \in DOMAIN nodes : tree(v)[i].id = first(v) + i /\ tree(v)[i].source = nodes[i].source
  <2> TAKE v \in 1..N
  <2> DEFINE a == first(v)
             b == presets[v]
             x == tree(v)
  <2>1. a \in Int /\ b \in Int /\ nodes \in Seq(NodeRecord) /\ nodes # <<>>
    BY <1>2, <1>3, <1>7
  <2>2. x = Resized(nodes, a, b)
    BY DEF Resized
  <2> HIDE DEF nodes, a, b, x
  <2>3. /\ x \in NodeTree /\ DOMAIN x = DOMAIN nodes
        /\ \A i \in DOMAIN nodes : x[i].id = a + i /\ x[i].source = nodes[i].source
    BY <2>1, <2>2, ResizedTree
  <2> QED
    BY <2>3 DEF x, a
<1> HIDE DEF tree
<1>9. \A v \in 1..N : [id |-> first(v) + Len(nodes) + 1, size |-> presets[v], variant |-> page.id, nodes |-> tree(v)] \in PageRecord
  BY <1>2, <1>3, <1>7, <1>8 DEF PageRecord
<1>10. DOMAIN pages = 1..N /\ \A v \in 1..N : pages[v] \in PageRecord /\ pages[v].nodes = tree(v)
  BY <1>3, <1>4, <1>9
<1>11. /\ commands \in Seq(Additions) /\ Len(commands) = N
       /\ \A v \in 1..N : commands[v] = <<"page.create", pages[v]>> /\ commands[v][2].nodes = tree(v)
  <2>1. commands = [v \in 1..N |-> <<"page.create", pages[v]>>]
    BY <1>5, <1>10
  <2>2. \A v \in 1..N : <<"page.create", pages[v]>> \in Additions
    BY <1>10 DEF Additions
  <2>3. commands \in [1..N -> Additions]
    BY <2>1, <2>2
  <2> HIDE DEF N
  <2>4. commands \in Seq(Additions) /\ Len(commands) = N
    BY <1>3, <2>3
  <2>5. \A v \in 1..N : commands[v] = <<"page.create", pages[v]>> /\ pages[v].nodes = tree(v)
    BY <1>10, <2>1
  <2>6. \A v \in 1..N : commands[v][2].nodes = tree(v)
    BY <2>5
  <2> QED
    BY <2>4, <2>5, <2>6
<1> HIDE DEF N, W, nodes, first
<1>12. /\ \A v \in 1..Len(commands) : commands[v][1] = "page.create" /\ DOMAIN commands[v][2].nodes = 1..Len(nodes)
       /\ \A v \in 1..Len(commands) : \A i \in 1..Len(nodes) :
            /\ commands[v][2].nodes[i].id = first(v) + i
            /\ commands[v][2].nodes[i].source = nodes[i].source
  <2>1. DOMAIN nodes = 1..Len(nodes)
    BY <1>2
  <2>2. \A v \in 1..Len(commands) : commands[v][1] = "page.create" /\ commands[v][2].nodes = tree(v)
    BY <1>11
  <2>3. \A v \in 1..Len(commands) : DOMAIN tree(v) = 1..Len(nodes)
    BY <1>8, <1>11, <2>1
  <2>4. \A v \in 1..Len(commands) : \A i \in 1..Len(nodes) : tree(v)[i].id = first(v) + i /\ tree(v)[i].source = nodes[i].source
    BY <1>8, <1>11, <2>1
  <2>5. \A v \in 1..Len(commands) : DOMAIN commands[v][2].nodes = 1..Len(nodes)
    BY <2>2, <2>3
  <2> QED
    BY <2>2, <2>4, <2>5, SMTT(60)
<1>13. ASSUME NEW u \in 1..Len(commands), NEW v \in 1..Len(commands),
              NEW i \in DOMAIN commands[u][2].nodes, NEW j \in DOMAIN commands[v][2].nodes,
              commands[u][2].nodes[i].id = commands[v][2].nodes[j].id
       PROVE  u = v /\ i = j
  <2>0. N \in Nat /\ Len(nodes) \in Nat /\ u \in 1..N /\ v \in 1..N
    BY <1>2, <1>3, <1>11 DEF N
  <2>1. /\ u \in 1..N /\ v \in 1..N /\ u \in Nat /\ v \in Nat
        /\ i \in 1..Len(nodes) /\ j \in 1..Len(nodes) /\ i \in Int /\ j \in Int
    BY <1>12, <2>0
  <2>2. i \in 1..W /\ j \in 1..W /\ (u - 1) * W \in Nat /\ (v - 1) * W \in Nat
    BY <1>6, <2>1
  <2>3. first(u) + i = first(v) + j
    <3>1. commands[u][2].nodes[i].id = first(u) + i
      BY <1>12, <2>1
    <3>2. commands[v][2].nodes[j].id = first(v) + j
      BY <1>12, <2>1
    <3> QED
      BY <1>13, <3>1, <3>2
  <2>4. (u - 1) * W + i = (v - 1) * W + j
    <3> DEFINE a == (u - 1) * W
               b == (v - 1) * W
    <3>1. a \in Nat /\ b \in Nat /\ (m + a) + i = (m + b) + j
      BY <2>2, <2>3 DEF first
    <3> HIDE DEF a, b
    <3>2. a + i = b + j
      BY <2>1, <3>1
    <3> QED
      BY <3>2 DEF a, b
  <2>5. W \in Nat
    BY <1>2 DEF W, nodes
  <2>6. u \in Nat /\ v \in Nat /\ i \in 1..W /\ j \in 1..W
    BY <2>1, <2>2
  <2>7. Block(W, u) + i = Block(W, v) + j
    BY <2>4 DEF Block
  <2> QED
    BY <2>5, <2>6, <2>7, BlocksApart
<1>14. ASSUME NEW v \in 1..Len(commands), NEW i \in DOMAIN commands[v][2].nodes
       PROVE  commands[v][2].nodes[i].id > m /\ commands[v][2].nodes[i].id <= m + N * W
  <2>1. v \in 1..N /\ i \in 1..Len(nodes)
    BY <1>11, <1>12
  <2> DEFINE a == (v - 1) * W
             c == N * W
  <2>2. a \in Nat /\ a + i <= c /\ i \in Nat /\ i > 0
    BY <1>2, <1>6, <2>1 DEF nodes
  <2>3. commands[v][2].nodes[i].id = m + a + i
    BY <1>12, <2>1 DEF first
  <2>4. c \in Int
    BY <1>2, <1>3 DEF c, N, W, nodes
  <2> HIDE DEF a, c
  <2>5. commands[v][2].nodes[i].id > m /\ commands[v][2].nodes[i].id <= m + c
    BY <2>2, <2>3, <2>4
  <2> QED
    BY <2>5 DEF c
<1>15. IsAddition(commands, m)
  BY <1>11, <1>12, <1>13, <1>14 DEF IsAddition
<1>16. RefsKnown(commands, d)
  <2> SUFFICES ASSUME NEW v \in 1..Len(commands), NEW i \in DOMAIN commands[v][2].nodes, IsLocal(commands[v][2].nodes[i])
               PROVE  commands[v][2].nodes[i].source[2] \in DOMAIN d.components
    BY DEF RefsKnown
  <2>1. commands[v][2].nodes[i].source = nodes[i].source /\ nodes[i] \in NodesOf(d)
    BY <1>2, <1>12
  <2>2. IsLocal(nodes[i])
    BY <2>1 DEF IsLocal, IsInstance
  <2> QED
    BY <2>1, <2>2 DEF Strong, RefsHold
<1> QED
  BY <1>14, <1>15, <1>16 DEF N, W, nodes, page

(* What is copied, grown by a migration, or saved.                          *)

(* The subtree at i of a tree is a tree. *)
LEMMA SubtreeIs ==
  ASSUME NEW nodes \in Seq(NodeRecord), NEW i \in 1..Len(nodes)
  PROVE  Subtree(nodes, i) \in NodeTree
<1> DEFINE E == Ends(nodes, i)
           L == Len(nodes)
           neg == [j \in E |-> 0 - j]
           M == {neg[j] : j \in DOMAIN neg}
           end == CHOOSE j \in E : \A k \in E : j <= k
<1>1. L \in Nat /\ i \in Int /\ \A k \in 1..L : nodes[k] \in NodeRecord
  OBVIOUS
<1>2. E \subseteq i + 1..L + 1 /\ L + 1 \in E /\ E \subseteq Int
  BY <1>1 DEF Ends
<1>3. IsFiniteSet(E)
  <2>1. IsFiniteSet(i + 1..L + 1)
    BY <1>1, FS_Interval
  <2> QED
    BY <1>2, <2>1, FS_Subset
<1>4. IsFiniteSet(M)
  <2>1. DOMAIN neg = E
    OBVIOUS
  <2> HIDE DEF neg
  <2> QED
    BY <1>3, <2>1, ImageFinite
<1>5. M \in SUBSET Int /\ M # {}
  <2> HIDE DEF E
  <2> QED
    BY <1>2
<1>6. \E j \in E : \A k \in E : j <= k
  <2>1. PICK m \in M : \A n \in M : n <= m
    <3> HIDE DEF M
    <3> QED
      BY <1>4, <1>5, GreatestInt
  <2> HIDE DEF E
  <2>2. PICK j \in E : m = 0 - j
    OBVIOUS
  <2>3. \A k \in E : 0 - k <= 0 - j
    BY <2>1, <2>2
  <2>4. \A k \in E : j <= k
    BY <1>2, <2>3
  <2> QED
    BY <2>4
<1>7. end \in E
  <2> HIDE DEF E
  <2> QED
    BY <1>6
<1> DEFINE row == [k \in 1..end - i |-> [nodes[i + k - 1] EXCEPT !.depth = nodes[i + k - 1].depth - nodes[i].depth]]
<1>8. Subtree(nodes, i) = row
  BY DEF Subtree
<1> HIDE DEF E, end
<1>9. end \in i + 1..L + 1 /\ end - i \in Nat /\ end - i # 0
  BY <1>1, <1>2, <1>7
<1>10. \A k \in 1..end - i : [nodes[i + k - 1] EXCEPT !.depth = nodes[i + k - 1].depth - nodes[i].depth] \in NodeRecord
  <2> TAKE k \in 1..end - i
  <2>1. i + k - 1 \in 1..L /\ i \in 1..L
    BY <1>1, <1>9
  <2> DEFINE n == nodes[i + k - 1]
             r == nodes[i]
  <2>2. n \in NodeRecord /\ r \in NodeRecord
    BY <1>1, <2>1
  <2> HIDE DEF n, r
  <2> DEFINE at == n.depth - r.depth
  <2>3. n.depth \in Int /\ r.depth \in Int
    BY <2>2 DEF NodeRecord
  <2>4. at \in Int
    BY <2>3
  <2> HIDE DEF at
  <2>5. [n EXCEPT !.depth = at] \in NodeRecord
    BY <2>2, <2>4 DEF NodeRecord
  <2> QED
    BY <2>5 DEF n, r, at
<1>11. row \in [1..end - i -> NodeRecord]
  BY <1>10
<1> HIDE DEF row
<1>12. row \in Seq(NodeRecord) /\ row # <<>>
  BY <1>9, <1>11, RowIs
<1> QED
  BY <1>8, <1>12 DEF NodeTree

(* The ids in use, and a greatest one. *)
LEMMA GreatestId ==
  ASSUME NEW d \in DocumentRecords, 1 \in DOMAIN d.pages
  PROVE  /\ MostOf({n.id : n \in Range(walkDocument(d))}) \in Int
         /\ NodesUpTo(d, MostOf({n.id : n \in Range(walkDocument(d))}))
<1> DEFINE w == walkDocument(d)
           f == [i \in 1..Len(w) |-> w[i].id]
           S == {n.id : n \in Range(w)}
<1>1. w \in Seq(NodeRecord) /\ Range(w) = NodesOf(d) /\ Len(w) \in Nat /\ DOMAIN w = 1..Len(w)
  BY WalkIs
<1> HIDE DEF w
<1>2. S = {f[i] : i \in DOMAIN f}
  <2>1. Range(w) = {w[i] : i \in 1..Len(w)}
    BY <1>1 DEF Range
  <2>2. DOMAIN f = 1..Len(w) /\ \A i \in 1..Len(w) : f[i] = w[i].id
    OBVIOUS
  <2> HIDE DEF f
  <2>3. \A x \in S : \E i \in DOMAIN f : x = f[i]
    BY <2>1, <2>2
  <2>4. \A i \in DOMAIN f : f[i] \in S
    BY <2>1, <2>2
  <2> QED
    BY <2>3, <2>4
<1>3. IsFiniteSet(S)
  <2>1. IsFiniteSet(1..Len(w))
    BY <1>1, FS_Interval
  <2>2. DOMAIN f = 1..Len(w)
    OBVIOUS
  <2> HIDE DEF f
  <2> QED
    BY <1>2, <2>1, <2>2, ImageFinite
<1>4. S \in SUBSET Int
  <2>1. \A n \in Range(w) : n \in NodeRecord
    BY <1>1 DEF Range
  <2>2. \A n \in Range(w) : n.id \in Int
    BY <2>1, TypeOfId
  <2> QED
    BY <2>2
<1>5. S # {}
  <2>1. 1 \in DOMAIN d.pages[1].nodes /\ d.pages[1].nodes[1] \in NodeRecord
    BY PagesAre
  <2>2. d.pages[1].nodes[1] \in NodesOf(d)
    BY <2>1 DEF NodesOf
  <2> QED
    BY <1>1, <2>2
<1>6. MostOf(S) \in S /\ \A n \in S : n <= MostOf(S)
  <2> HIDE DEF S
  <2> QED
    BY <1>3, <1>4, <1>5, MostOfIs
<1>7. NodesUpTo(d, MostOf(S))
  BY <1>1, <1>6 DEF NodesUpTo
<1> QED
  BY <1>4, <1>6, <1>7 DEF w

LEMMA OverNoMap ==
  ASSUME NEW V, NEW f \in Maps(V)
  PROVE  Over(NoMap, f) = f
<1>1. f \in [DOMAIN f -> V]
  BY MapsAre DEF IsMap
<1>2. DOMAIN NoMap = {}
  BY DEF NoMap
<1>3. Over(NoMap, f) = [x \in DOMAIN f |-> f[x]]
  BY <1>2 DEF Over
<1> QED
  BY <1>1, <1>3

Beneath(n, id) == [n EXCEPT !.id = id, !.depth = 1]

LEMMA Placed ==
  ASSUME NEW n \in NodeRecord, NEW id \in Int
  PROVE  Beneath(n, id) \in NodeRecord /\ Beneath(n, id).id = id /\ Beneath(n, id).source = n.source
<1>1. Beneath(n, id) \in NodeRecord
  <2>1. 1 \in Int
    OBVIOUS
  <2> QED
    BY <2>1 DEF NodeRecord, Beneath
<1>2. Beneath(n, id).id = id
  BY DEF NodeRecord, Beneath
<1>3. Beneath(n, id).source = n.source
  BY DEF NodeRecord, Beneath
<1> QED
  BY <1>1, <1>2, <1>3

LEMMA OneMore ==
  ASSUME NEW S, NEW s \in Seq(S), NEW x \in S
  PROVE  /\ <<x>> \in Seq(S) /\ Len(<<x>>) = 1 /\ <<x>>[1] = x
         /\ Append(s, x) = s \o <<x>>
<1>1. Append(s, x) = s \o <<x>>
  BY AppendIsConcat
<1>2. <<x>> \in Seq(S) /\ Len(<<x>>) = 1 /\ <<x>>[1] = x
  OBVIOUS
<1> QED
  BY <1>1, <1>2

(* A migration that adds a node leaves a sound document sound.               *)
LEMMA GrownSound ==
  ASSUME NEW d, Strong(d)
  PROVE  Strong(Grown(d))
<1>1. d \in DocumentRecords
  BY DEF Strong
<1> DEFINE m == MostOf({n.id : n \in Range(walkDocument(d))})
           id == m + 1
           node == [d.pages[1].nodes[1] EXCEPT !.id = id, !.depth = 1]
           e == Grown(d)
<1>2. CASE 1 \in DOMAIN d.pages
  <2>1. m \in Int /\ NodesUpTo(d, m)
    BY <1>1, <1>2, GreatestId
  <2>2. e = [d EXCEPT !.pages[1].nodes = Append(d.pages[1].nodes, node)]
    BY DEF Grown
  <2> HIDE DEF m
  <2>3. /\ d.pages[1].nodes \in Seq(NodeRecord) /\ 1 \in DOMAIN d.pages[1].nodes
        /\ d.pages[1].nodes[1] \in NodeRecord /\ d.assets \in Maps(AssetRecord)
    BY <1>1, <1>2, PagesAre DEF DocumentRecords
  <2> DEFINE root == d.pages[1].nodes[1]
  <2>4. node \in NodeRecord /\ node.id = m + 1 /\ node.source = root.source
    <3>1. root \in NodeRecord /\ id \in Int
      BY <2>1, <2>3
    <3> HIDE DEF id, root
    <3>2. Beneath(root, id) \in NodeRecord /\ Beneath(root, id).id = id /\ Beneath(root, id).source = root.source
      BY <3>1, Placed
    <3>3. node = Beneath(root, id)
      BY DEF root, Beneath
    <3> HIDE DEF node
    <3> QED
      BY <3>2, <3>3 DEF id
  <2> HIDE DEF node
  <2> DEFINE more == <<node>>
  <2>5. /\ more \in Seq(NodeRecord) /\ Len(more) = 1 /\ more[1] = node
        /\ Append(d.pages[1].nodes, node) = d.pages[1].nodes \o more
    BY <2>3, <2>4, OneMore, ZenonT(60)
  <2>6. NoMap \in Maps(AssetRecord) /\ DOMAIN NoMap = {} /\ Over(NoMap, d.assets) = d.assets
    BY <2>3, NoMapIs, OverNoMap
  <2> HIDE DEF more
  <2>7. e = AddedTo(d, 1, more, NoMap)
    BY <1>1, <2>2, <2>5, <2>6 DEF AddedTo, DocumentRecords
  <2>8. \A i \in 1..Len(more) : more[i].id = m + i
    BY <2>4, <2>5
  <2>9. \A i \in 1..Len(more) : IsLocal(more[i]) => more[i].source[2] \in DOMAIN d.components
    <3>1. root \in NodesOf(d)
      BY <1>2, <2>3 DEF NodesOf
    <3>2. IsLocal(root) => root.source[2] \in DOMAIN d.components
      BY <3>1 DEF Strong, RefsHold
    <3>3. IsLocal(node) => node.source[2] \in DOMAIN d.components
      BY <2>4, <3>2 DEF IsLocal, IsInstance
    <3> QED
      BY <2>5, <3>3
  <2>10. \A a \in DOMAIN NoMap : NoMap[a].id = a
    BY <2>6
  <2> HIDE DEF e
  <2>11. Strong(e)
    BY <1>2, <2>1, <2>5, <2>6, <2>7, <2>8, <2>9, <2>10, AddedStrong
  <2> QED
    BY <2>11 DEF e
<1>3. CASE 1 \notin DOMAIN d.pages
  <2>1. d.pages = <<>>
    BY <1>1, <1>3, PagesAre
  <2>2. e = d
    BY <1>1, <1>3, <2>1 DEF Grown, DocumentRecords
  <2> QED
    BY <2>2
<1> QED
  BY <1>2, <1>3

(* A document of the same pages, Sources and assets is as sound.             *)
LEMMA SameStrong ==
  ASSUME NEW d, Strong(d), NEW e \in DocumentRecords,
         e.pages = d.pages, e.components = d.components, e.assets = d.assets
  PROVE  Strong(e) /\ NodesOf(e) = NodesOf(d)
<1>1. NodesOf(e) = NodesOf(d)
  BY DEF NodesOf
<1>2. Strong(e)
  BY <1>1 DEF Strong, PagesDistinct, NodesDistinct, AssetsFiled, RefsHold
<1> QED
  BY <1>1, <1>2

LEMMA SavedSound ==
  ASSUME NEW d, Strong(d)
  PROVE  /\ Strong(withComputedCapabilities(d)) /\ withComputedCapabilities(d).assets = d.assets
         /\ NodesOf(withComputedCapabilities(d)) = NodesOf(d)
<1> DEFINE e == withComputedCapabilities(d)
           required == computeRequiredCapabilities(d)
<1>1. d \in DocumentRecords
  BY DEF Strong
<1>2. required \in SUBSET STRING
  <2>1. d.capabilities \in SUBSET STRING
    BY <1>1 DEF DocumentRecords
  <2>2. Layout \in STRING /\ LocalComponents \in STRING /\ ExternalComponents \in STRING
    BY LiteralsAreStrings
  <2>3. computeRequiredCapabilities(d) \subseteq d.capabilities \cup {LocalComponents} \cup {ExternalComponents} \cup {Layout}
    BY DEF computeRequiredCapabilities
  <2> QED
    BY <2>1, <2>2, <2>3
<1>3. e = [d EXCEPT !.capabilities = required]
  BY DEF withComputedCapabilities
<1> HIDE DEF e, required
<1>4. e \in DocumentRecords /\ e.pages = d.pages /\ e.components = d.components /\ e.assets = d.assets
  BY <1>1, <1>2, <1>3 DEF DocumentRecords
<1>5. Strong(e) /\ NodesOf(e) = NodesOf(d)
  BY <1>4, SameStrong
<1> QED
  BY <1>4, <1>5 DEF e

(* The chain of migrations a registry holds.                                 *)
Migrations == STRING \X STRING \X BOOLEAN
Chains == UNION {[S -> Migrations] : S \in SUBSET STRING}

LEMMA ChainsAre ==
  ASSUME NEW f
  PROVE  f \in Chains <=> f \in [DOMAIN f -> Migrations] /\ DOMAIN f \subseteq STRING
<1>1. ASSUME f \in Chains
      PROVE  f \in [DOMAIN f -> Migrations] /\ DOMAIN f \subseteq STRING
  <2>1. PICK S \in SUBSET STRING : f \in [S -> Migrations]
    BY <1>1 DEF Chains
  <2> QED
    BY <2>1
<1>2. ASSUME f \in [DOMAIN f -> Migrations] /\ DOMAIN f \subseteq STRING
      PROVE  f \in Chains
  BY <1>2 DEF Chains
<1> QED
  BY <1>1, <1>2

LEMMA EmptyChain == NoMap \in Chains
<1>1. DOMAIN NoMap = {} /\ NoMap \in [{} -> Migrations]
  BY DEF NoMap
<1> QED
  BY <1>1, ChainsAre

LEMMA ChainLonger ==
  ASSUME NEW f \in Chains, NEW m \in Migrations
  PROVE  Over(Entry(m[1], m), f) \in Chains
<1> DEFINE g == Entry(m[1], m)
           h == Over(g, f)
<1>1. m[1] \in STRING
  BY DEF Migrations
<1>2. DOMAIN g = {m[1]} /\ g[m[1]] = m
  BY DEF Entry
<1>3. f \in [DOMAIN f -> Migrations] /\ DOMAIN f \subseteq STRING
  BY ChainsAre
<1> HIDE DEF g
<1>4. h = [x \in DOMAIN g \cup DOMAIN f |-> IF x \in DOMAIN g THEN g[x] ELSE f[x]]
  BY DEF Over
<1>5. h \in [DOMAIN g \cup DOMAIN f -> Migrations]
  BY <1>2, <1>3, <1>4
<1>6. DOMAIN g \cup DOMAIN f \subseteq STRING
  BY <1>1, <1>2, <1>3
<1> HIDE DEF h
<1>7. h \in Chains
  BY <1>5, <1>6, ChainsAre
<1> QED
  BY <1>7 DEF h, g

(* A registry, migration by migration.                                       *)
LEMMA StepsAre ==
  ASSUME NEW list \in Seq(Migrations)
  PROVE  \E acc \in [0..Len(list) -> Chains] :
           /\ acc[0] = NoMap /\ Steps(list) = acc[Len(list)]
           /\ \A k \in 1..Len(list) : acc[k] = Over(Entry(list[k][1], list[k]), acc[k - 1])
<1> DEFINE N == Len(list)
           X == Chains
           step == [a \in X \X (1..N) |-> Over(Entry(list[a[2]][1], list[a[2]]), a[1])]
           it == CHOOSE it : it = [s \in SUBSET (DOMAIN list) |->
                    IF s = {} THEN NoMap
                    ELSE Over(Entry(list[Max(s)][1], list[Max(s)]), it[s \ {Max(s)}])]
<1>1. N \in Nat /\ DOMAIN list = 1..N
  OBVIOUS
<1>2. NoMap \in X
  BY EmptyChain
<1>3. IsStep(step, N, X)
  <2>1. \A a \in X, k \in 1..N : (Over(Entry(list[k][1], list[k]), a)) \in X
    BY <1>1, ChainLonger
  <2> HIDE DEF X
  <2> QED
    BY <2>1 DEF IsStep
<1>4. \A a \in X, k \in 1..N : step[<<a, k>>] = Over(Entry(list[k][1], list[k]), a)
  <2> HIDE DEF X
  <2> QED
    OBVIOUS
<1>5. Steps(list) = it[DOMAIN list]
  BY DEF FoldLeft, MapThenFoldSet, Steps
<1> HIDE DEF step, X
<1>6. PICK jt \in [SUBSET (1..N) -> X] :
           \A s \in SUBSET (1..N) : jt[s] = IF s = {} THEN NoMap ELSE step[<<jt[s \ {Max(s)}], Max(s)>>]
  <2> DEFINE base == NoMap
  <2>1. base \in X
    BY <1>2
  <2> HIDE DEF N, base
  <2>2. \E jt \in [SUBSET (1..N) -> X] :
           \A s \in SUBSET (1..N) : jt[s] = IF s = {} THEN base ELSE step[<<jt[s \ {Max(s)}], Max(s)>>]
    <3>1. PICK jt : IsTable(jt, N, X, base, step)
      BY <1>1, <2>1, <1>3, FoldExists
    <3> QED
      BY <3>1 DEF IsTable
  <2> QED
    BY <2>2 DEF base
<1>7. jt = [s \in SUBSET (1..N) |->
              IF s = {} THEN NoMap
              ELSE Over(Entry(list[Max(s)][1], list[Max(s)]), jt[s \ {Max(s)}])]
  <2>1. ASSUME NEW s \in SUBSET (1..N), s # {}
        PROVE  jt[s] = Over(Entry(list[Max(s)][1], list[Max(s)]), jt[s \ {Max(s)}])
    <3>1. Max(s) \in 1..N /\ s \ {Max(s)} \in SUBSET (1..N)
      BY <1>1, <2>1, MaxIn
    <3>2. jt[s \ {Max(s)}] \in X
      BY <3>1
    <3>3. jt[s] = step[<<jt[s \ {Max(s)}], Max(s)>>]
      BY <1>6, <2>1
    <3> HIDE DEF N
    <3> QED
      BY <1>4, <3>1, <3>2, <3>3
  <2>2. \A s \in SUBSET (1..N) : jt[s] = IF s = {} THEN NoMap
              ELSE Over(Entry(list[Max(s)][1], list[Max(s)]), jt[s \ {Max(s)}])
    <3> TAKE s \in SUBSET (1..N)
    <3>1. CASE s = {}
      BY <1>6, <3>1
    <3>2. CASE s # {}
      BY <2>1, <3>2
    <3> QED
      BY <3>1, <3>2
  <2> HIDE DEF N
  <2> QED
    BY <2>2
<1>8. it = [s \in SUBSET (1..N) |->
              IF s = {} THEN NoMap
              ELSE Over(Entry(list[Max(s)][1], list[Max(s)]), it[s \ {Max(s)}])]
  <2> HIDE DEF N
  <2> QED
    BY <1>1, <1>7
<1> HIDE DEF it
<1>9. \A s \in SUBSET (1..N) : it[s] = IF s = {} THEN NoMap ELSE Over(Entry(list[Max(s)][1], list[Max(s)]), it[s \ {Max(s)}])
  <2> HIDE DEF N
  <2> QED
    BY <1>8
<1> DEFINE acc == [k \in 0..N |-> it[1..k]]
           S == {k \in 0..N : acc[k] \in X}
<1>10. acc[0] = NoMap /\ acc[N] = it[1..N] /\ DOMAIN acc = 0..N /\ acc = [k \in 0..N |-> acc[k]]
  <2>1. 1..0 = {} /\ {} \in SUBSET (1..N) /\ 0 \in 0..N /\ N \in 0..N
    BY <1>1
  <2>2. it[{}] = NoMap
    BY <1>9, <2>1
  <2> HIDE DEF N
  <2> QED
    BY <2>1, <2>2
<1>11. \A k \in 1..N : acc[k] = Over(Entry(list[k][1], list[k]), acc[k - 1])
  <2> TAKE k \in 1..N
  <2>1. /\ 1..k \in SUBSET (1..N) /\ k \in 1..k /\ (1..k) \ {k} = 1..k - 1 /\ k \in Nat /\ 1..k # {}
        /\ k \in 0..N /\ k - 1 \in 0..N
    <3> HIDE DEF N
    <3> QED
      BY <1>1, IntervalStep
  <2>2. Max(1..k) = k
    BY <2>1, IntervalMax
  <2>3. it[1..k] = Over(Entry(list[k][1], list[k]), it[1..k - 1])
    BY <1>9, <2>1, <2>2
  <2>4. acc[k] = it[1..k] /\ acc[k - 1] = it[1..k - 1]
    <3> HIDE DEF N
    <3> QED
      BY <2>1
  <2> HIDE DEF acc, N
  <2> QED
    BY <2>3, <2>4
<1> HIDE DEF acc
<1>12. 0..N \subseteq S
  <2>1. 0 \in S
    BY <1>1, <1>2, <1>10
  <2>2. ASSUME NEW k \in 1..N, k - 1 \in S
        PROVE  k \in S
    <3>1. k \in 0..N /\ acc[k - 1] \in X
      BY <1>1, <2>2
    <3>2. step[<<acc[k - 1], k>>] \in X
      BY <1>3, <3>1 DEF IsStep
    <3>3. acc[k] = step[<<acc[k - 1], k>>]
      BY <1>4, <1>11, <3>1
    <3> QED
      BY <3>1, <3>2, <3>3
  <2> HIDE DEF S
  <2> QED
    BY <1>1, <2>1, <2>2, Induction, Zenon
<1>13. acc \in [0..N -> X]
  <2>1. \A k \in 0..N : acc[k] \in X
    BY <1>12
  <2> HIDE DEF S, N
  <2> QED
    BY <1>10, <2>1
<1> QED
  BY <1>1, <1>5, <1>10, <1>11, <1>13 DEF X

LEMMA RegistryIs ==
  ASSUME NEW seam, NEW v \in DOMAIN createMigrationRegistry(seam)
  PROVE  createMigrationRegistry(seam)[v] \in Migrations /\ v \in STRING
<1> DEFINE list == IF seam = "core" THEN CANVAS_IR_MIGRATIONS ELSE CANVAS_IR_MIGRATIONS \o Registered
<1>1. CANVAS_IR_MIGRATIONS \in Seq(Migrations)
  <2>1. <<"1", "2", FALSE>> \in Migrations /\ <<"2", "3", FALSE>> \in Migrations
    BY LiteralsAreStrings DEF Migrations
  <2> DEFINE a == <<"1", "2", FALSE>>
             b == <<"2", "3", FALSE>>
  <2> HIDE DEF a, b
  <2>2. <<a, b>> \in Seq(Migrations)
    BY <2>1 DEF a, b
  <2> QED
    BY <2>2 DEF CANVAS_IR_MIGRATIONS, a, b
<1>2. Registered \in Seq(Migrations)
  BY SessionAssumption DEF Migrations
<1>3. CANVAS_IR_MIGRATIONS \o Registered \in Seq(Migrations)
  BY <1>1, <1>2, ConcatProperties
<1>4. list \in Seq(Migrations)
  BY <1>1, <1>3
<1>5. createMigrationRegistry(seam) = Steps(list)
  BY DEF createMigrationRegistry
<1> HIDE DEF list
<1>6. Steps(list) \in Chains
  <2>1. PICK acc \in [0..Len(list) -> Chains] : Steps(list) = acc[Len(list)]
    BY <1>4, StepsAre
  <2>2. Len(list) \in 0..Len(list)
    BY <1>4
  <2> QED
    BY <2>1, <2>2
<1> DEFINE f == Steps(list)
<1>7. f \in [DOMAIN f -> Migrations] /\ DOMAIN f \subseteq STRING
  BY <1>6, ChainsAre
<1> QED
  BY <1>5, <1>7

(* The session's steps.                                                      *)

LEMMA MoreMinted ==
  ASSUME NEW m \in Int, NEW n \in Int, m <= n
  PROVE  /\ \A d \in DocumentRecords : Below(d, m) => Below(d, n)
         /\ \A payload : Settled(payload, m) => Settled(payload, n)
<1>1. ASSUME NEW d \in DocumentRecords, Below(d, m)
      PROVE  Below(d, n)
  <2>1. \A x \in NodesOf(d) : x.id \in Int /\ x.id <= m
    BY <1>1, TypeOfId DEF Below, NodesUpTo, NodesOf
  <2>2. \A x \in NodesOf(d) : x.id <= n
    BY <2>1
  <2>3. d.assets \in Maps(AssetRecord)
    BY DEF DocumentRecords
  <2>4. DOMAIN d.assets \subseteq Int
    BY <2>3 DEF Maps
  <2>5. \A a \in DOMAIN d.assets : a <= m
    BY <1>1 DEF Below
  <2>6. \A a \in DOMAIN d.assets : a <= n
    BY <2>4, <2>5
  <2> QED
    BY <2>2, <2>6 DEF Below, NodesUpTo
<1>2. ASSUME NEW payload, Settled(payload, m)
      PROVE  Settled(payload, n)
  <2>1. IsPayload(payload) /\ \A a \in DOMAIN payload.assets : a <= m /\ payload.assets[a].id = a
    BY <1>2 DEF Settled
  <2>2. DOMAIN payload.assets \subseteq Int
    BY <2>1 DEF IsPayload, IsMap
  <2>3. \A a \in DOMAIN payload.assets : a <= n /\ payload.assets[a].id = a
    BY <2>1, <2>2
  <2> QED
    BY <2>1, <2>3 DEF Settled
<1> QED
  BY <1>1, <1>2

Copied(d, nodes) ==
    [version |-> 1, wellFormed |-> TRUE, document |-> d.id, nodes |-> nodes,
     assets |-> [a \in AssetsUsed(nodes) \cap DOMAIN d.assets |-> d.assets[a]],
     capabilities |-> IF \E n \in Range(nodes) : n.flows THEN {Layout} ELSE {}]

(* What a copy puts on the clipboard: a payload whose assets are filed as    *)
(* they were in the document copied from.                                    *)
LEMMA CopiedIs ==
  ASSUME NEW d \in DocumentRecords, NEW nodes \in NodeTree, NEW m,
         \A a \in DOMAIN d.assets : a <= m /\ d.assets[a].id = a
  PROVE  Settled(Copied(d, nodes), m)
<1> DEFINE c == Copied(d, nodes)
           S == AssetsUsed(nodes) \cap DOMAIN d.assets
           f == [a \in S |-> d.assets[a]]
           caps == IF \E n \in Range(nodes) : n.flows THEN {Layout} ELSE {}
<1>1. d.id \in Int /\ d.assets \in Maps(AssetRecord)
  BY DEF DocumentRecords
<1>2. d.assets \in [DOMAIN d.assets -> AssetRecord] /\ DOMAIN d.assets \subseteq Int /\ IsFiniteSet(DOMAIN d.assets)
  BY <1>1, MapsAre DEF IsMap
<1>3. S \subseteq DOMAIN d.assets
  OBVIOUS
<1> HIDE DEF S
<1>4. IsFiniteSet(S)
  BY <1>2, <1>3, FS_Subset
<1>5. DOMAIN f = S /\ f \in [S -> AssetRecord] /\ \A a \in S : f[a] = d.assets[a]
  BY <1>2, <1>3
<1>6. caps \in SUBSET STRING
  BY LiteralsAreStrings
<1>7. c = [version |-> 1, wellFormed |-> TRUE, document |-> d.id, nodes |-> nodes, assets |-> f, capabilities |-> caps]
  BY DEF Copied, S
<1> HIDE DEF c, f, caps
<1>8. c.assets = f
  BY <1>7
<1>9. c \in [version : Int, wellFormed : BOOLEAN, document : Int \cup {Missing}, nodes : NodeTree,
             assets : {c.assets}, capabilities : SUBSET STRING]
  <2>1. 1 \in Int /\ TRUE \in BOOLEAN /\ d.id \in Int \cup {Missing} /\ f \in {f}
    BY <1>1
  <2> QED
    BY <1>6, <1>7, <1>8, <2>1
<1>10. IsMap(c.assets, AssetRecord)
  BY <1>2, <1>3, <1>4, <1>5, <1>8 DEF IsMap
<1>11. IsPayload(c)
  BY <1>9, <1>10 DEF IsPayload
<1>12. \A a \in DOMAIN c.assets : a <= m /\ c.assets[a].id = a
  BY <1>3, <1>5, <1>8
<1> QED
  BY <1>11, <1>12 DEF Settled, c

Under(nodes) == [i \in DOMAIN nodes |-> [nodes[i] EXCEPT !.depth = nodes[i].depth + 1]]
Pasted(d, p, prepared) == AddedTo(d, p, Under(prepared.nodes), prepared.assetsToAdd)
PasteEnd(m, payload, prepared) == m + Len(payload.nodes) + Cardinality(DOMAIN prepared.assetsToAdd)
Wants(payload, d) ==
    [i \in DOMAIN payload.nodes |->
        IF payload.document # d.id /\ payload.nodes[i].asset \in DOMAIN payload.assets
        THEN payload.assets[payload.nodes[i].asset].uri ELSE Missing]

AllShown(payload, d, p, e) ==
    \A i \in DOMAIN Wants(payload, d) :
        Wants(payload, d)[i] # Missing =>
            LET shown == e.pages[p].nodes[Len(d.pages[p].nodes) + i].asset
            IN  shown \in DOMAIN e.assets /\ e.assets[shown].uri = Wants(payload, d)[i]

(* A node one level further down.                                            *)
LEMMA UnderIs ==
  ASSUME NEW n \in NodeRecord, NEW u, u = [n EXCEPT !.depth = n.depth + 1]
  PROVE  u \in NodeRecord /\ u.id = n.id /\ u.source = n.source /\ u.asset = n.asset
<1> DEFINE k == n.depth + 1
<1>1. n.depth \in Int
  BY DEF NodeRecord
<1>2. k \in Int
  BY <1>1
<1> HIDE DEF k
<1>3. u = [n EXCEPT !.depth = k]
  BY DEF k
<1>4. [n EXCEPT !.depth = k] \in NodeRecord
  BY <1>2 DEF NodeRecord
<1>5. [n EXCEPT !.depth = k].id = n.id /\ [n EXCEPT !.depth = k].source = n.source /\ [n EXCEPT !.depth = k].asset = n.asset
  BY DEF NodeRecord
<1> QED
  BY <1>3, <1>4, <1>5

LEMMA RowUnder ==
  ASSUME NEW n \in Nat, NEW nodes \in [1..n -> NodeRecord]
  PROVE  /\ Under(nodes) \in Seq(NodeRecord) /\ Len(Under(nodes)) = n
         /\ \A i \in 1..n : /\ Under(nodes)[i].id = nodes[i].id /\ Under(nodes)[i].source = nodes[i].source
                            /\ Under(nodes)[i].asset = nodes[i].asset
<1> DEFINE row == Under(nodes)
<1>1. DOMAIN row = 1..n /\ row = [i \in 1..n |-> [nodes[i] EXCEPT !.depth = nodes[i].depth + 1]]
  BY DEF Under
<1> HIDE DEF row
<1>2. ASSUME NEW i \in 1..n
      PROVE  row[i] \in NodeRecord /\ row[i].id = nodes[i].id /\ row[i].source = nodes[i].source /\ row[i].asset = nodes[i].asset
  <2> DEFINE a == nodes[i]
             u == row[i]
  <2>1. a \in NodeRecord /\ u = [a EXCEPT !.depth = a.depth + 1]
    BY <1>1
  <2> HIDE DEF a, u
  <2>2. u \in NodeRecord /\ u.id = a.id /\ u.source = a.source /\ u.asset = a.asset
    BY <2>1, UnderIs
  <2> QED
    BY <2>2 DEF a, u
<1>3. row \in [1..n -> NodeRecord]
  <2>1. \A i \in 1..n : row[i] \in NodeRecord
    BY <1>2
  <2>2. row = [i \in 1..n |-> row[i]]
    BY <1>1
  <2> QED
    BY <2>1, <2>2
<1>4. row \in Seq(NodeRecord) /\ Len(row) = n
  BY <1>3, RowIs
<1> QED
  BY <1>2, <1>4 DEF row

(* A paste adds new nodes and assets, and its nodes show what they showed    *)
(* where they were copied.                                                   *)
LEMMA PasteSound ==
  ASSUME NEW d, Strong(d), NEW m \in Int, Below(d, m), NEW payload, Settled(payload, m),
         findForeignComponentRefs(payload.nodes, d.components) = {},
         NEW prepared, prepared = materializeClipboardNodes(payload, d, m),
         NEW p \in DOMAIN d.pages, NEW e, e = Pasted(d, p, prepared)
  PROVE  /\ Strong(e) /\ PasteEnd(m, payload, prepared) \in Int /\ m <= PasteEnd(m, payload, prepared)
         /\ Below(e, PasteEnd(m, payload, prepared))
         /\ AllShown(payload, d, p, e)
<1>1. d \in DocumentRecords /\ NodesUpTo(d, m) /\ \A a \in DOMAIN d.assets : a <= m
  BY DEF Strong, Below
<1>2. IsPasted(prepared, payload, d, m)
  BY <1>1, PastedIs
<1> DEFINE N == Len(payload.nodes)
           added == prepared.assetsToAdd
           A == Cardinality(DOMAIN added)
           nodes == Under(prepared.nodes)
           end == PasteEnd(m, payload, prepared)
<1>3. payload.nodes \in Seq(NodeRecord) /\ N \in Nat /\ DOMAIN payload.nodes = 1..N /\ \A i \in 1..N : payload.nodes[i] \in NodeRecord
  <2>1. payload.nodes \in NodeTree
    BY DEF Settled, IsPayload
  <2> QED
    BY <2>1 DEF NodeTree
<1>4. prepared.nodes \in [1..N -> NodeRecord]
  BY <1>2 DEF IsPasted
<1>5. added \in Maps(AssetRecord) /\ \A a \in DOMAIN added : added[a].id = a /\ a <= m + N + A
  BY <1>2 DEF IsPasted
<1>6. \A i \in 1..N : prepared.nodes[i].id = m + i /\ prepared.nodes[i].source = payload.nodes[i].source
  BY <1>2 DEF IsPasted
<1>7. A \in Nat
  <2>1. IsFiniteSet(DOMAIN added)
    BY <1>5 DEF Maps
  <2> QED
    BY <2>1, CardinalNat
<1>8. end = m + N + A
  BY DEF PasteEnd
<1>9. payload.document # d.id => \A i \in 1..N : payload.nodes[i].asset \in DOMAIN payload.assets =>
        /\ prepared.nodes[i].asset \in DOMAIN Over(added, d.assets)
        /\ Over(added, d.assets)[prepared.nodes[i].asset].uri = payload.assets[payload.nodes[i].asset].uri
  BY <1>2 DEF IsPasted
<1>10. e = AddedTo(d, p, nodes, added)
  BY DEF Pasted
<1> HIDE DEF N, added, A, nodes, end
<1>11. /\ nodes \in Seq(NodeRecord) /\ Len(nodes) = N
       /\ \A i \in 1..N : /\ nodes[i].id = prepared.nodes[i].id /\ nodes[i].source = prepared.nodes[i].source
                          /\ nodes[i].asset = prepared.nodes[i].asset
  BY <1>3, <1>4, RowUnder DEF nodes
<1>12. \A i \in 1..Len(nodes) : nodes[i].id = m + i
  BY <1>6, <1>11
<1>13. \A i \in 1..Len(nodes) : IsLocal(nodes[i]) => nodes[i].source[2] \in DOMAIN d.components
  <2> TAKE i \in 1..Len(nodes)
  <2> HAVE IsLocal(nodes[i])
  <2>1. i \in 1..N /\ nodes[i].source = payload.nodes[i].source
    BY <1>6, <1>11
  <2>2. IsLocal(payload.nodes[i])
    BY <2>1 DEF IsLocal, IsInstance
  <2>3. payload.nodes[i] \in Range(payload.nodes)
    BY <1>3, <2>1 DEF Range
  <2>4. payload.nodes[i].source[2] \in localRefs(payload.nodes)
    BY <2>2, <2>3 DEF localRefs
  <2> QED
    BY <2>1, <2>4 DEF findForeignComponentRefs
<1>14. \A a \in DOMAIN added : added[a].id = a
  BY <1>5
<1>15. Strong(e) /\ \A n \in NodesOf(e) : n.id <= m + Len(nodes)
  BY <1>1, <1>5, <1>10, <1>11, <1>12, <1>13, <1>14, AddedStrong, SMTT(60)
<1>16. /\ e \in DocumentRecords /\ e.assets = Over(added, d.assets)
       /\ e.pages[p].nodes = d.pages[p].nodes \o nodes
  <2>1. added \in Maps(AssetRecord) /\ nodes \in Seq(NodeRecord)
    BY <1>5, <1>11
  <2> QED
    BY <1>1, <1>10, <2>1, AddedIs
<1>17. d.assets \in Maps(AssetRecord) /\ DOMAIN d.assets \subseteq Int
  <2>1. d.assets \in Maps(AssetRecord)
    BY <1>1 DEF DocumentRecords
  <2> QED
    BY <2>1 DEF Maps
<1>18. end \in Int /\ m <= end /\ m + Len(nodes) <= end
  BY <1>3, <1>7, <1>8, <1>11
<1>19. \A n \in NodesOf(e) : n.id <= end
  <2> TAKE n \in NodesOf(e)
  <2>1. n.id \in Int
    BY TypeOfId DEF NodesOf
  <2>2. n.id <= m + Len(nodes)
    BY <1>15
  <2>3. m + Len(nodes) \in Int
    BY <1>3, <1>11
  <2> DEFINE x == n.id
             y == m + Len(nodes)
  <2>4. x \in Int /\ y \in Int /\ end \in Int /\ x <= y /\ y <= end
    BY <1>18, <2>1, <2>2, <2>3
  <2> HIDE DEF x, y
  <2>5. x <= end
    BY <2>4
  <2> QED
    BY <2>5 DEF x
<1>20. \A a \in DOMAIN e.assets : a <= end
  <2>1. DOMAIN e.assets = DOMAIN added \cup DOMAIN d.assets
    BY <1>16 DEF Over
  <2>2. \A a \in DOMAIN d.assets : a <= end
    BY <1>1, <1>17, <1>18
  <2> QED
    BY <1>5, <1>8, <2>1, <2>2
<1>21. ASSUME NEW i \in DOMAIN Wants(payload, d), Wants(payload, d)[i] # Missing
       PROVE  /\ e.pages[p].nodes[Len(d.pages[p].nodes) + i].asset \in DOMAIN e.assets
              /\ e.assets[e.pages[p].nodes[Len(d.pages[p].nodes) + i].asset].uri = Wants(payload, d)[i]
  <2> DEFINE w == Wants(payload, d)[i]
  <2>1. i \in 1..N
    BY <1>3, <1>21 DEF Wants
  <2>2. w = IF payload.document # d.id /\ payload.nodes[i].asset \in DOMAIN payload.assets
            THEN payload.assets[payload.nodes[i].asset].uri ELSE Missing
    BY <1>3, <2>1 DEF Wants
  <2> HIDE DEF w
  <2>3. /\ payload.document # d.id /\ payload.nodes[i].asset \in DOMAIN payload.assets
        /\ w = payload.assets[payload.nodes[i].asset].uri
    BY <1>21, <2>2 DEF w
  <2> DEFINE s == d.pages[p].nodes
  <2>4. s \in Seq(NodeRecord)
    BY <1>1, PagesAre
  <2> HIDE DEF s
  <2>5. (s \o nodes)[Len(s) + i] = nodes[i]
    BY <1>11, <2>1, <2>4
  <2>6. e.pages[p].nodes[Len(d.pages[p].nodes) + i] = nodes[i]
    BY <1>16, <2>5 DEF s
  <2>7. nodes[i].asset = prepared.nodes[i].asset
    BY <1>11, <2>1
  <2>8. /\ prepared.nodes[i].asset \in DOMAIN e.assets
        /\ e.assets[prepared.nodes[i].asset].uri = payload.assets[payload.nodes[i].asset].uri
    BY <1>9, <1>16, <2>1, <2>3
  <2> QED
    BY <2>3, <2>6, <2>7, <2>8 DEF w
<1>22. Below(e, end)
  BY <1>19, <1>20 DEF Below, NodesUpTo
<1>23. AllShown(payload, d, p, e)
  BY <1>21 DEF AllShown
<1> QED
  BY <1>15, <1>18, <1>22, <1>23 DEF end

InstanceEnd(d, m) == m + Len(d.pages) + Len(walkDocument(d)) + Cardinality(DOMAIN d.components) + 1

(* A template's instance is sound, and so is a document it is added to.      *)
LEMMA OpenedSound ==
  ASSUME NEW template, NEW supplied, NEW newId, NEW m \in Int, NEW r,
         IsInstanceOf(r, template, supplied, newId, m), \A a \in DOMAIN template.doc.assets : a <= m
  PROVE  /\ Strong(r) /\ InstanceEnd(template.doc, m) \in Int /\ m <= InstanceEnd(template.doc, m)
         /\ Below(r, InstanceEnd(template.doc, m)) /\ LocksHold(template, r) /\ \A n \in NodesOf(r) : n.id > m
<1> DEFINE d == template.doc
           end == InstanceEnd(d, m)
           last3 == CloneEnd(d, m)
<1>1. d \in DocumentRecords
  BY DEF IsInstanceOf, Strong
<1>2. LocksHold(template, r)
  BY LocksKept
<1>3. Strong(r) /\ r.assets = d.assets /\ \A n \in NodesOf(r) : n.id > m /\ n.id <= last3
  BY InstanceSound
<1> HIDE DEF d
<1>4. last3 \in Int /\ end = last3 + 1 /\ m <= last3
  <2>1. /\ last3 \in Int /\ last3 = m + Len(d.pages) + Len(walkDocument(d)) + Cardinality(DOMAIN d.components)
        /\ m <= Roots(d, m) /\ Roots(d, m) + Len(walk(d)) <= BelowRoots(d, m) /\ BelowRoots(d, m) <= last3
        /\ Roots(d, m) \in Int /\ BelowRoots(d, m) \in Int /\ Len(walk(d)) \in Nat
    BY <1>1, CountsAre
  <2>2. end = m + Len(d.pages) + Len(walkDocument(d)) + Cardinality(DOMAIN d.components) + 1
    BY DEF InstanceEnd
  <2> HIDE DEF last3, end
  <2>3. m <= last3
    BY <2>1
  <2> QED
    BY <2>1, <2>2, <2>3
<1> HIDE DEF last3, end
<1>5. end \in Int /\ m <= end /\ last3 <= end
  BY <1>4
<1>6. \A n \in NodesOf(r) : n.id <= end
  <2>1. \A n \in NodesOf(r) : n.id \in Int /\ n.id <= last3
    BY <1>3, TypeOfId DEF NodesOf
  <2> QED
    BY <1>4, <1>5, <2>1
<1>7. \A a \in DOMAIN r.assets : a <= end
  <2>1. d.assets \in Maps(AssetRecord)
    BY <1>1 DEF DocumentRecords
  <2>2. \A a \in DOMAIN d.assets : a \in Int /\ a <= m
    BY <2>1 DEF Maps, d
  <2> QED
    BY <1>3, <1>5, <2>2
<1>8. Below(r, end)
  BY <1>6, <1>7 DEF Below, NodesUpTo
<1> QED
  BY <1>2, <1>3, <1>5, <1>8 DEF end, d

(* What undoing the last batch does: it is refused, or leads back.           *)
Reverts(undo, d, m) ==
    Strong(undo.to) /\ Below(undo.to, m) /\ applyBatch(d, undo.commands) \in {Missing, undo.to}

(* A batch of additions, all of whose ids are new.                           *)
LEMMA AppliedSound ==
  ASSUME NEW d, Strong(d), NEW m \in Int, Below(d, m), NEW n \in Int, m <= n,
         NEW commands, IsAddition(commands, m), RefsKnown(commands, d),
         \A j \in 1..Len(commands) : \A i \in DOMAIN commands[j][2].nodes : commands[j][2].nodes[i].id <= n,
         NEW e, e = applyBatch(d, commands), e # Missing,
         NEW undo, undo = [commands |-> InverseBatch(commands), to |-> d]
  PROVE  Strong(e) /\ Below(e, n) /\ Reverts(undo, e, n)
<1>1. d \in DocumentRecords /\ NodesUpTo(d, m) /\ commands \in Seq(Additions)
  BY DEF Strong, Below, IsAddition
<1>2. /\ Strong(e) /\ e.assets = d.assets
      /\ \A x \in NodesOf(e) : \/ x \in NodesOf(d)
                               \/ \E j \in 1..Len(commands) : \E i \in DOMAIN commands[j][2].nodes :
                                    x = commands[j][2].nodes[i]
  BY <1>1, BatchSound
<1>3. Below(d, n)
  BY <1>1, MoreMinted
<1>4. \A x \in NodesOf(e) : x.id <= n
  BY <1>2, <1>3 DEF Below, NodesUpTo
<1>5. Below(e, n)
  BY <1>2, <1>3, <1>4 DEF Below, NodesUpTo
<1>6. undo.to = d /\ undo.commands = InverseBatch(commands)
  OBVIOUS
<1>7. applyBatch(e, InverseBatch(commands)) \in {Missing, d}
  BY <1>1, BatchReverted
<1>8. Reverts(undo, e, n)
  BY <1>3, <1>6, <1>7 DEF Reverts
<1> QED
  BY <1>2, <1>5, <1>8

LEMMA InstanceApplied ==
  ASSUME NEW d, Strong(d), NEW m \in Int, Below(d, m),
         NEW template, NEW supplied, NEW newId, NEW r,
         IsInstanceOf(r, template, supplied, newId, m), \A a \in DOMAIN template.doc.assets : a <= m,
         NEW e, e = applyBatch(d, TemplateCommand(r)), e # Missing,
         NEW undo, undo = [commands |-> InverseBatch(TemplateCommand(r)), to |-> d]
  PROVE  /\ Strong(e) /\ Below(e, InstanceEnd(template.doc, m)) /\ Reverts(undo, e, InstanceEnd(template.doc, m))
<1> DEFINE end == InstanceEnd(template.doc, m)
           commands == TemplateCommand(r)
<1>1. Strong(r) /\ end \in Int /\ m <= end /\ Below(r, end) /\ \A n \in NodesOf(r) : n.id > m
  BY OpenedSound
<1>2. /\ IsAddition(commands, m) /\ RefsKnown(commands, d)
      /\ \A j \in 1..Len(commands) : \A i \in DOMAIN commands[j][2].nodes : commands[j][2].nodes[i] \in NodesOf(r)
  BY <1>1, TemplateAdds
<1>3. e = applyBatch(d, commands) /\ undo = [commands |-> InverseBatch(commands), to |-> d]
  OBVIOUS
<1> HIDE DEF end, commands
<1>4. \A j \in 1..Len(commands) : \A i \in DOMAIN commands[j][2].nodes : commands[j][2].nodes[i].id <= end
  BY <1>1, <1>2 DEF Below, NodesUpTo
<1>5. Strong(e) /\ Below(e, end) /\ Reverts(undo, e, end)
  BY <1>1, <1>2, <1>3, <1>4, AppliedSound
<1> QED
  BY <1>5 DEF end

LEMMA ResizeApplied ==
  ASSUME NEW d, Strong(d), NEW m \in Int, Below(d, m), NEW p \in DOMAIN d.pages, NEW presets \in Seq(Int),
         NEW commands, commands = Created(resizeToVariants(d.pages[p], presets, m)),
         NEW n \in Int, m <= n, n = m + Len(presets) * (Len(d.pages[p].nodes) + 1),
         NEW e, e = applyBatch(d, commands), e # Missing,
         NEW undo, undo = [commands |-> InverseBatch(commands), to |-> d]
  PROVE  Strong(e) /\ Below(e, n) /\ Reverts(undo, e, n)
<1>1. /\ IsAddition(commands, m) /\ RefsKnown(commands, d)
      /\ \A j \in 1..Len(commands) : \A i \in DOMAIN commands[j][2].nodes : commands[j][2].nodes[i].id <= n
  BY ResizeAdds
<1> QED
  BY <1>1, AppliedSound

(* The invariant, of the variables' values d, c, m, v, w and l.              *)

Counted(m) == m \in Nat /\ 100 <= m
Opens(l) == l.phase = "idle" /\ l.outcome = "none"
Loads(l) ==
    l \in [phase : {"idle", "migrating"}, seam : {"core", "runtime"}, raw : DocumentRecords, seen : SUBSET STRING,
           outcome : {"none", "unsupported", "over-budget", "cycle", "invalid", "loaded"}]

(* What a chain of migrations runs on is sound, and nothing was imported.    *)
Turning(l, w) == l.phase = "migrating" => Strong(l.raw) /\ w.kind = "none"

(* Until a load ended, no id or asset key was used that the factory could    *)
(* still give, and the batch to be undone can be taken back.                 *)
Fresh(d, c, m, v, l) ==
    Opens(l) => /\ Below(d, m)
                /\ c # Missing => Settled(c, m)
                /\ v # Missing => Reverts(v, d, m)

Shows(w, d) ==
    \A i \in DOMAIN w.wanted :
        w.wanted[i] # Missing =>
            LET shown == d.pages[w.page].nodes[w.of + i].asset
            IN  shown \in DOMAIN d.assets /\ d.assets[shown].uri = w.wanted[i]

Brought(w, d) ==
    /\ w.kind \in {"none", "paste", "template", "undo", "save"}
    /\ w.kind = "paste" => Shows(w, d)
    /\ w.kind = "template" => LocksHold(w.template, w.document)
    /\ w.kind = "undo" => w.undone \in {Missing, w.to}

Holds(d, c, m, v, w, l) ==
    /\ Counted(m) /\ Strong(d) /\ (c = Missing \/ IsPayload(c))
    /\ Loads(l) /\ Turning(l, w) /\ Fresh(d, c, m, v, l) /\ Brought(w, d)

SessionInv == Holds(doc, clip, minted, inverse, last, load)

(* An import that leaves the clipboard and the load alone.                   *)
LEMMA ImportKeeps ==
  ASSUME NEW d, NEW c, NEW m, NEW v, NEW w, NEW l, Holds(d, c, m, v, w, l), Opens(l),
         NEW e, Strong(e), NEW n \in Int, m <= n, Below(e, n), NEW u, u # Missing => Reverts(u, e, n),
         NEW x, Brought(x, e)
  PROVE  Holds(e, c, n, u, x, l)
<1>1. m \in Nat /\ 100 <= m /\ (c = Missing \/ IsPayload(c)) /\ Loads(l)
  BY DEF Holds, Counted
<1>2. Counted(n)
  <2>1. n \in Nat /\ 100 <= n
    BY <1>1
  <2> QED
    BY <2>1 DEF Counted
<1>3. c # Missing => Settled(c, n)
  <2>1. c # Missing => Settled(c, m)
    BY DEF Holds, Fresh
  <2>2. m \in Int
    BY <1>1
  <2> QED
    BY <2>1, <2>2, MoreMinted
<1>4. Fresh(e, c, n, u, l)
  BY <1>3 DEF Fresh
<1>5. Turning(l, x)
  BY DEF Turning, Opens
<1> QED
  BY <1>1, <1>2, <1>4, <1>5 DEF Holds

(* What the clipboard takes.                                                 *)
LEMMA ClipKeeps ==
  ASSUME NEW d, NEW c, NEW m, NEW v, NEW w, NEW l, Holds(d, c, m, v, w, l),
         NEW b, Opens(l) => Settled(b, m), Opens(l)
  PROVE  Holds(d, b, m, v, w, l)
<1>1. IsPayload(b)
  BY DEF Settled
<1>2. Fresh(d, b, m, v, l)
  BY DEF Fresh, Holds
<1> QED
  BY <1>1, <1>2 DEF Holds

LEMMA KindsBring ==
  ASSUME NEW d, NEW w, w.kind \in {"none", "save"}
  PROVE  Brought(w, d)
BY DEF Brought

LEMMA FreshHere ==
  ASSUME SessionInv, Imports
  PROVE  /\ Opens(load) /\ minted \in Nat /\ minted \in Int /\ 100 <= minted /\ Strong(doc) /\ Below(doc, minted)
         /\ clip # Missing => Settled(clip, minted)
         /\ inverse # Missing => Reverts(inverse, doc, minted)
BY DEF SessionInv, Holds, Counted, Fresh, Opens, Imports, Idle

LEMMA InitHolds == Init => SessionInv
<1> SUFFICES ASSUME Init
             PROVE  SessionInv
  OBVIOUS
<1>1. /\ doc \in Documents /\ clip = Missing /\ minted = 100 /\ inverse = Missing /\ last = Nothing
      /\ load = [phase |-> "idle", seam |-> "core", raw |-> doc, seen |-> {}, outcome |-> "none"]
  BY DEF Init
<1>2. /\ Sound(doc) /\ IsDocument(doc)
      /\ \A n \in Range(walkDocument(doc)) : n.id <= 100
      /\ \A a \in DOMAIN doc.assets : a <= 100
  BY <1>1, SessionAssumption
<1>3. Strong(doc)
  BY <1>2, SoundMeans
<1>4. doc \in DocumentRecords
  BY <1>2, DocumentsAre
<1>5. Below(doc, 100)
  <2>1. Range(walkDocument(doc)) = NodesOf(doc)
    BY <1>4, WalkIs
  <2> QED
    BY <1>2, <2>1 DEF Below, NodesUpTo
<1>6. Counted(minted)
  BY <1>1 DEF Counted
<1>7. Loads(load)
  BY <1>1, <1>4 DEF Loads
<1>8. Turning(load, last)
  BY <1>1 DEF Turning
<1>9. Fresh(doc, clip, minted, inverse, load)
  BY <1>1, <1>5 DEF Fresh
<1>10. Brought(last, doc)
  BY <1>1, KindsBring DEF Nothing
<1> QED
  BY <1>1, <1>3, <1>6, <1>7, <1>8, <1>9, <1>10 DEF SessionInv, Holds

LEMMA CopyHolds ==
  ASSUME SessionInv, NEW d \in Foreign \cup {doc}, NEW p \in DOMAIN d.pages, NEW i \in 2..Len(d.pages[p].nodes),
         Copy(d, p, i)
  PROVE  Holds(doc', clip', minted', inverse', last', load')
<1> DEFINE nodes == Subtree(d.pages[p].nodes, i)
<1>1. /\ Imports /\ doc' = doc /\ minted' = minted /\ inverse' = inverse /\ last' = last /\ load' = load
      /\ clip' = Copied(d, nodes)
  BY DEF Copy, Fills, Copied
<1>2. /\ Opens(load) /\ minted \in Int /\ 100 <= minted /\ Strong(doc) /\ Below(doc, minted)
  BY <1>1, FreshHere
<1>3. d \in DocumentRecords /\ \A a \in DOMAIN d.assets : a <= minted /\ d.assets[a].id = a
  <2>1. CASE d = doc
    BY <1>2, <2>1 DEF Strong, AssetsFiled, Below
  <2>2. CASE d \in Foreign
    <3>1. IsDocument(d) /\ \A a \in DOMAIN d.assets : a <= 100 /\ d.assets[a].id = a
      BY <2>2, SessionAssumption
    <3>2. d \in DocumentRecords
      BY <3>1, DocumentsAre
    <3>3. DOMAIN d.assets \subseteq Int
      BY <3>1 DEF IsDocument, IsMap
    <3>4. \A a \in DOMAIN d.assets : a <= minted
      BY <1>2, <3>1, <3>3
    <3> QED
      BY <3>1, <3>2, <3>4
  <2> QED
    BY <2>1, <2>2
<1>4. nodes \in NodeTree
  <2> DEFINE s == d.pages[p].nodes
  <2>1. s \in Seq(NodeRecord)
    BY <1>3, PagesAre
  <2>2. i \in 1..Len(s)
    BY <2>1
  <2> HIDE DEF s
  <2>3. Subtree(s, i) \in NodeTree
    BY <2>1, <2>2, SubtreeIs
  <2> QED
    BY <2>3 DEF s
<1> HIDE DEF nodes
<1>5. Settled(clip', minted)
  BY <1>1, <1>3, <1>4, CopiedIs
<1>6. Holds(doc, clip', minted, inverse, last, load)
  BY <1>2, <1>5, ClipKeeps DEF SessionInv
<1> QED
  BY <1>1, <1>6

LEMMA ReceiveHolds ==
  ASSUME SessionInv, NEW payload \in Payloads, Receive(payload)
  PROVE  Holds(doc', clip', minted', inverse', last', load')
<1>1. /\ Imports /\ doc' = doc /\ minted' = minted /\ inverse' = inverse /\ last' = last /\ load' = load
      /\ clip' = payload
  BY DEF Receive, Fills
<1>2. Opens(load) /\ minted \in Int /\ 100 <= minted
  BY <1>1, FreshHere
<1>3. Settled(payload, 100)
  BY SessionAssumption DEF Settled
<1>4. Settled(payload, minted)
  BY <1>2, <1>3, MoreMinted
<1>5. Holds(doc, payload, minted, inverse, last, load)
  BY <1>2, <1>4, ClipKeeps DEF SessionInv
<1> QED
  BY <1>1, <1>5

LEMMA PasteHolds ==
  ASSUME SessionInv, NEW p \in DOMAIN doc.pages, Paste(p)
  PROVE  Holds(doc', clip', minted', inverse', last', load')
<1> DEFINE prepared == materializeClipboardNodes(clip, doc, minted)
           x == [kind |-> "paste", page |-> p, of |-> Len(doc.pages[p].nodes), wanted |-> Wants(clip, doc)]
           e == Pasted(doc, p, prepared)
           n == PasteEnd(minted, clip, prepared)
<1>1. Imports /\ clip # Missing /\ findForeignComponentRefs(clip.nodes, doc.components) = {}
  BY DEF Paste
<1>2. /\ Opens(load) /\ minted \in Nat /\ minted \in Int /\ Strong(doc) /\ Below(doc, minted) /\ Settled(clip, minted)
  BY <1>1, FreshHere
<1>3. clip' = clip /\ load' = load /\ inverse' = Missing
  BY DEF Paste
<1>4. doc' = e
  BY DEF Paste, Pasted, AddedTo, Under
<1>5. last' = x
  BY DEF Paste, Wants
<1>6. minted' = minted + (Len(clip.nodes) + Cardinality(DOMAIN prepared.assetsToAdd))
  BY DEF Paste, Mint
<1> HIDE DEF prepared, e, n, x
<1>7. /\ Strong(e) /\ n \in Int /\ minted <= n /\ Below(e, n)
      /\ AllShown(clip, doc, p, e)
  BY <1>1, <1>2, PasteSound DEF prepared, e, n
<1>8. minted' = n
  <2>1. IsPasted(prepared, clip, doc, minted)
    BY <1>2, PastedIs DEF prepared, Strong, Below
  <2>2. Cardinality(DOMAIN prepared.assetsToAdd) \in Nat
    <3>1. prepared.assetsToAdd \in Maps(AssetRecord)
      BY <2>1 DEF IsPasted
    <3>2. IsFiniteSet(DOMAIN prepared.assetsToAdd)
      BY <3>1 DEF Maps
    <3> QED
      BY <3>2, CardinalNat
  <2>3. Len(clip.nodes) \in Nat
    BY <1>2 DEF Settled, IsPayload, NodeTree
  <2> QED
    BY <1>2, <1>6, <2>2, <2>3 DEF n, PasteEnd
<1>9. Shows(x, e)
  BY <1>7 DEF Shows, AllShown, x
<1>10. Brought(x, e)
  <2>1. x.kind = "paste"
    BY DEF x
  <2> QED
    BY <1>9, <2>1 DEF Brought
<1>11. Holds(e, clip, n, Missing, x, load)
  BY <1>2, <1>7, <1>10, ImportKeeps DEF SessionInv
<1> QED
  BY <1>3, <1>4, <1>5, <1>8, <1>11

(* What instantiateTemplate is given in a session.                           *)
LEMMA InstanceHere ==
  ASSUME SessionInv, Imports, NEW template \in Templates, NEW values \in Supplied, NEW newId \in Orders(template),
         Instantiates(template, newId)
  PROVE  /\ IsInstanceOf(instantiateTemplate(template, values, AllIds(template.doc, minted), newId), template, values,
                         newId, minted)
         /\ \A a \in DOMAIN template.doc.assets : a <= minted
         /\ minted' = InstanceEnd(template.doc, minted)
<1>1. minted \in Int /\ 100 <= minted
  BY FreshHere
<1>2. /\ IsTemplate(template) /\ Sound(template.doc) /\ \A a \in DOMAIN template.doc.assets : a <= 100
      /\ IsMap(values, Int)
  BY SessionAssumption
<1> DEFINE d == template.doc
<1>3. Strong(d) /\ d \in DocumentRecords
  BY <1>2, SoundMeans DEF Strong
<1>4. Len(d.pages) \in Nat /\ Len(walk(d)) \in Nat /\ Cardinality(DOMAIN d.components) \in Nat /\ Len(walkDocument(d)) \in Nat
  <2>1. Len(d.pages) \in Nat
    BY <1>3, PagesAre
  <2>2. Len(walkDocument(d)) \in Nat
    BY <1>3, WalkIs
  <2>3. Len(walk(d)) \in Nat /\ Cardinality(DOMAIN d.components) \in Nat
    BY <1>1, <1>3, CountsAre
  <2> QED
    BY <2>1, <2>2, <2>3
<1> DEFINE from == minted + Len(d.pages) + Len(walk(d))
           k == Cardinality(DOMAIN d.components)
           S == from + 1..from + k
<1>5. from \in Int /\ k \in Nat /\ S \in SUBSET Int
  <2> HIDE DEF d
  <2>1. from \in Int
    BY <1>1, <1>4
  <2>2. k \in Nat
    BY <1>4
  <2> HIDE DEF from, k
  <2> QED
    BY <2>1, <2>2
<1>6. newId \in [DOMAIN d.components -> S] /\ \A c, e \in DOMAIN newId : newId[c] = newId[e] => c = e
  BY DEF Instantiates
<1>7. minted' = minted + (Len(d.pages) + Len(walkDocument(d)) + Cardinality(DOMAIN newId) + 1)
  BY DEF Instantiates, Mint
<1> HIDE DEF S, from, k
<1>8. newId \in [DOMAIN d.components -> Int] /\ DOMAIN newId = DOMAIN d.components
  BY <1>5, <1>6
<1>9. Renames(newId, d)
  BY <1>6, <1>8 DEF Renames
<1>10. minted' = InstanceEnd(d, minted)
  <2> DEFINE a == Len(d.pages)
             b == Len(walkDocument(d))
             c == Cardinality(DOMAIN d.components)
  <2>1. minted' = minted + (a + b + c + 1)
    BY <1>7, <1>8
  <2>2. a \in Int /\ b \in Int /\ c \in Int
    BY <1>4
  <2>3. InstanceEnd(d, minted) = minted + a + b + c + 1
    BY DEF InstanceEnd
  <2> HIDE DEF a, b, c
  <2> QED
    BY <1>1, <2>1, <2>2, <2>3
<1>11. \A a \in DOMAIN d.assets : a <= minted
  <2>1. DOMAIN d.assets \subseteq Int
    BY <1>2 DEF IsTemplate, IsDocument, IsMap
  <2> QED
    BY <1>1, <1>2, <2>1
<1>12. IsInstanceOf(instantiateTemplate(template, values, AllIds(d, minted), newId), template, values, newId, minted)
  BY <1>2, <1>3, <1>9 DEF IsInstanceOf, instantiateTemplate
<1> QED
  BY <1>10, <1>11, <1>12

LEMMA LastBrings ==
  ASSUME NEW template, NEW values, NEW ids, NEW r, LocksHold(template, r), NEW d
  PROVE  Brought(LastTemplate(template, values, ids, r), d)
<1> DEFINE x == LastTemplate(template, values, ids, r)
<1>1. x.kind = "template" /\ x.template = template /\ x.document = r
  BY DEF LastTemplate
<1> HIDE DEF x
<1>2. Brought(x, d)
  BY <1>1 DEF Brought
<1> QED
  BY <1>2 DEF x

LEMMA OpenHolds ==
  ASSUME SessionInv, NEW template \in Templates, NEW values \in Supplied, NEW newId \in Orders(template),
         OpenTemplate(template, values, newId)
  PROVE  Holds(doc', clip', minted', inverse', last', load')
<1> DEFINE ids == AllIds(template.doc, minted)
           r == instantiateTemplate(template, values, ids, newId)
           n == InstanceEnd(template.doc, minted)
<1>1. /\ Imports /\ Instantiates(template, newId) /\ doc' = r /\ last' = LastTemplate(template, values, ids, r)
      /\ inverse' = Missing /\ clip' = clip /\ load' = load
  BY DEF OpenTemplate
<1>2. /\ IsInstanceOf(r, template, values, newId, minted) /\ minted' = n
      /\ \A a \in DOMAIN template.doc.assets : a <= minted
  BY <1>1, InstanceHere
<1>3. Opens(load) /\ minted \in Int
  BY <1>1, FreshHere
<1> HIDE DEF r
<1>4. Strong(r) /\ n \in Int /\ minted <= n /\ Below(r, n) /\ LocksHold(template, r)
  BY <1>2, <1>3, OpenedSound
<1> HIDE DEF n, ids
<1> DEFINE x == LastTemplate(template, values, ids, r)
<1>5. Brought(x, r)
  BY <1>4, LastBrings
<1>6. last' = x
  BY <1>1
<1> HIDE DEF x
<1>7. Holds(r, clip, n, Missing, x, load)
  BY <1>3, <1>4, <1>5, ImportKeeps DEF SessionInv
<1> QED
  BY <1>1, <1>2, <1>6, <1>7

LEMMA ApplyHolds ==
  ASSUME SessionInv, NEW template \in Templates, NEW values \in Supplied, NEW newId \in Orders(template),
         ApplyTemplate(template, values, newId)
  PROVE  Holds(doc', clip', minted', inverse', last', load')
<1> DEFINE ids == AllIds(template.doc, minted)
           r == instantiateTemplate(template, values, ids, newId)
           n == InstanceEnd(template.doc, minted)
           e == applyBatch(doc, TemplateCommand(r))
           u == [commands |-> InverseBatch(TemplateCommand(r)), to |-> doc]
<1>1. /\ Imports /\ Instantiates(template, newId) /\ doc' = e /\ e # Missing /\ inverse' = u
      /\ last' = LastTemplate(template, values, ids, r)
      /\ clip' = clip /\ load' = load
  BY DEF ApplyTemplate
<1>2. /\ IsInstanceOf(r, template, values, newId, minted) /\ minted' = n
      /\ \A a \in DOMAIN template.doc.assets : a <= minted
  BY <1>1, InstanceHere
<1>3. Opens(load) /\ minted \in Int /\ Strong(doc) /\ Below(doc, minted)
  BY <1>1, FreshHere
<1> HIDE DEF r
<1>4. n \in Int /\ minted <= n /\ LocksHold(template, r)
  BY <1>2, <1>3, OpenedSound
<1>5. e = applyBatch(doc, TemplateCommand(r)) /\ u = [commands |-> InverseBatch(TemplateCommand(r)), to |-> doc]
  OBVIOUS
<1> HIDE DEF e, u
<1>6. Strong(e) /\ Below(e, n) /\ Reverts(u, e, n)
  BY <1>1, <1>2, <1>3, <1>5, InstanceApplied
<1> HIDE DEF n, ids
<1> DEFINE x == LastTemplate(template, values, ids, r)
<1>7. Brought(x, e)
  BY <1>4, LastBrings
<1>8. last' = x
  BY <1>1
<1> HIDE DEF x
<1>9. Holds(e, clip, n, u, x, load)
  BY <1>3, <1>4, <1>6, <1>7, ImportKeeps DEF SessionInv
<1> QED
  BY <1>1, <1>2, <1>8, <1>9

LEMMA ResizeHolds ==
  ASSUME SessionInv, NEW p \in DOMAIN doc.pages, NEW presets \in Presets, Resize(p, presets)
  PROVE  Holds(doc', clip', minted', inverse', last', load')
<1> DEFINE commands == Created(resizeToVariants(doc.pages[p], presets, minted))
           k == Len(presets) * (Len(doc.pages[p].nodes) + 1)
           n == minted + k
           e == applyBatch(doc, commands)
           u == [commands |-> InverseBatch(commands), to |-> doc]
<1>1. /\ Imports /\ minted' = n /\ doc' = e /\ e # Missing /\ inverse' = u
      /\ last' = Nothing /\ clip' = clip /\ load' = load
  BY DEF Resize, Mint, Created
<1>2. Opens(load) /\ minted \in Int /\ Strong(doc) /\ Below(doc, minted)
  BY <1>1, FreshHere
<1>3. presets \in Seq(Int)
  BY SessionAssumption
<1>4. k \in Nat
  <2>1. Len(presets) \in Nat
    BY <1>3
  <2>2. Len(doc.pages[p].nodes) \in Nat
    BY <1>2, PagesAre DEF Strong
  <2> DEFINE a == Len(presets)
             b == Len(doc.pages[p].nodes) + 1
  <2>3. a \in Nat /\ b \in Nat
    BY <2>1, <2>2
  <2> HIDE DEF a, b
  <2>4. a * b \in Nat
    BY <2>3
  <2> QED
    BY <2>4 DEF a, b
<1>5. n = minted + Len(presets) * (Len(doc.pages[p].nodes) + 1)
      /\ commands = Created(resizeToVariants(doc.pages[p], presets, minted))
      /\ e = applyBatch(doc, commands) /\ u = [commands |-> InverseBatch(commands), to |-> doc]
  OBVIOUS
<1>6. n \in Int /\ minted <= n
  <2> HIDE DEF k
  <2> QED
    BY <1>2, <1>4
<1> HIDE DEF n, k, commands, e, u
<1>7. Strong(e) /\ Below(e, n) /\ Reverts(u, e, n)
  BY <1>1, <1>2, <1>3, <1>5, <1>6, ResizeApplied
<1>8. Brought(Nothing, e)
  BY KindsBring DEF Nothing
<1>9. Holds(e, clip, n, u, Nothing, load)
  BY <1>2, <1>6, <1>7, <1>8, ImportKeeps DEF SessionInv
<1> QED
  BY <1>1, <1>9

LEMMA UndoHolds ==
  ASSUME SessionInv, Undo
  PROVE  Holds(doc', clip', minted', inverse', last', load')
<1> DEFINE undone == applyBatch(doc, inverse.commands)
           e == IF undone = Missing THEN doc ELSE undone
           x == [kind |-> "undo", undone |-> undone, to |-> inverse.to]
<1>1. /\ Imports /\ inverse # Missing /\ doc' = e /\ last' = x /\ inverse' = Missing
      /\ clip' = clip /\ minted' = minted /\ load' = load
  BY DEF Undo
<1>2. Opens(load) /\ minted \in Int /\ Strong(doc) /\ Below(doc, minted) /\ Reverts(inverse, doc, minted)
  BY <1>1, FreshHere
<1>3. Strong(inverse.to) /\ Below(inverse.to, minted) /\ undone \in {Missing, inverse.to}
  BY <1>2 DEF Reverts
<1> HIDE DEF undone
<1>4. Strong(e) /\ Below(e, minted)
  BY <1>2, <1>3
<1>5. x.kind = "undo" /\ x.undone = undone /\ x.to = inverse.to
  OBVIOUS
<1> HIDE DEF x, e
<1>6. Brought(x, e)
  BY <1>3, <1>5 DEF Brought
<1>7. minted <= minted
  BY <1>2
<1>8. Holds(e, clip, minted, Missing, x, load)
  BY <1>2, <1>4, <1>6, <1>7, ImportKeeps DEF SessionInv
<1> QED
  BY <1>1, <1>8

LEMMA SaveHolds ==
  ASSUME SessionInv, Save
  PROVE  Holds(doc', clip', minted', inverse', last', load')
<1> DEFINE e == withComputedCapabilities(doc)
           x == [kind |-> "save"]
<1>1. /\ Imports /\ doc' = e /\ last' = x /\ inverse' = Missing
      /\ clip' = clip /\ minted' = minted /\ load' = load
  BY DEF Save
<1>2. Opens(load) /\ minted \in Int /\ Strong(doc) /\ Below(doc, minted)
  BY <1>1, FreshHere
<1>3. Strong(e) /\ e.assets = doc.assets /\ NodesOf(e) = NodesOf(doc)
  BY <1>2, SavedSound
<1> HIDE DEF e
<1>4. Below(e, minted)
  BY <1>2, <1>3 DEF Below, NodesUpTo
<1>5. Brought(x, e)
  BY KindsBring
<1> HIDE DEF x
<1>6. minted <= minted
  BY <1>2
<1>7. Holds(e, clip, minted, Missing, x, load)
  BY <1>2, <1>3, <1>4, <1>5, <1>6, ImportKeeps DEF SessionInv
<1> QED
  BY <1>1, <1>7

(* Steps of a load.                                                          *)

(* A load that turns or ends leaves the clipboard and the ids alone.         *)
LEMMA LoadKeeps ==
  ASSUME NEW d, NEW c, NEW m, NEW v, NEW w, NEW l, Holds(d, c, m, v, w, l), w.kind = "none",
         NEW e, Strong(e), NEW u, NEW k, Loads(k), ~Opens(k), k.phase = "migrating" => Strong(k.raw)
  PROVE  Holds(e, c, m, u, w, k)
<1>1. Fresh(e, c, m, u, k) /\ Turning(k, w)
  BY DEF Fresh, Turning
<1>2. Brought(w, e)
  BY KindsBring
<1> QED
  BY <1>1, <1>2 DEF Holds

LEMMA EndedIs ==
  ASSUME NEW outcome \in {"unsupported", "over-budget", "cycle", "invalid", "loaded"}, Loads(load),
         Ended(outcome, load.raw)
  PROVE  Loads(load') /\ ~Opens(load') /\ load'.phase = "idle"
<1>1. load' = [load EXCEPT !.phase = "idle", !.outcome = outcome, !.raw = load.raw, !.seen = {}]
  BY DEF Ended
<1> DEFINE raw == load.raw
<1>2. raw \in DocumentRecords
  BY DEF Loads
<1> HIDE DEF raw
<1>3. load' = [load EXCEPT !.phase = "idle", !.outcome = outcome, !.raw = raw, !.seen = {}]
  BY <1>1 DEF raw
<1>4. {} \in SUBSET STRING
  OBVIOUS
<1>5. load'.phase = "idle" /\ load'.outcome = outcome
  BY <1>3 DEF Loads
<1>6. Loads(load')
  BY <1>2, <1>3, <1>4 DEF Loads
<1>7. ~Opens(load')
  BY <1>5 DEF Opens
<1> QED
  BY <1>5, <1>6, <1>7

LEMMA BeginLoadHolds ==
  ASSUME SessionInv, NEW candidate \in Candidates, BeginLoad(candidate)
  PROVE  Holds(doc', clip', minted', inverse', last', load')
<1> DEFINE raw == candidate.doc
           refused == IF ~assertCanvasDocumentBudget(raw) THEN "over-budget"
                      ELSE IF candidate.seam = "core"
                              /\ raw.version \notin DOMAIN createMigrationRegistry("core") \cup {CurrentVersion}
                      THEN "unsupported" ELSE "none"
           k == [phase |-> IF refused = "none" THEN "migrating" ELSE "idle", seam |-> candidate.seam,
                 raw |-> raw, seen |-> {}, outcome |-> refused]
<1>1. Imports /\ load' = k /\ last' = Nothing /\ inverse' = Missing /\ doc' = doc /\ clip' = clip /\ minted' = minted
  BY DEF BeginLoad, Fills
<1>2. /\ IsDocument(raw) /\ candidate.seam \in {"core", "runtime"}
      /\ Sound(raw) \/ ~assertCanvasDocumentBudget(raw)
  BY SessionAssumption
<1>3. raw \in DocumentRecords
  BY <1>2, DocumentsAre
<1>4. refused \in {"none", "unsupported", "over-budget"}
  OBVIOUS
<1>5. refused = "none" => Strong(raw)
  BY <1>2, SoundMeans
<1> HIDE DEF refused, raw
<1>6. Loads(k)
  <2>1. {} \in SUBSET STRING
    OBVIOUS
  <2>2. (IF refused = "none" THEN "migrating" ELSE "idle") \in {"idle", "migrating"}
    OBVIOUS
  <2> QED
    BY <1>2, <1>3, <1>4, <2>1, <2>2 DEF Loads
<1>7. /\ k.phase = (IF refused = "none" THEN "migrating" ELSE "idle") /\ k.outcome = refused /\ k.raw = raw
  OBVIOUS
<1> HIDE DEF k
<1>8. ~Opens(k) /\ (k.phase = "migrating" => Strong(k.raw))
  BY <1>5, <1>7 DEF Opens
<1>9. Holds(doc, clip, minted, inverse, Nothing, load)
  <2>1. Brought(Nothing, doc)
    BY KindsBring DEF Nothing
  <2>2. Turning(load, Nothing)
    BY <1>1 DEF Turning, Imports, Idle
  <2> QED
    BY <2>1, <2>2 DEF SessionInv, Holds
<1>10. Nothing.kind = "none" /\ Strong(doc)
  BY DEF Nothing, SessionInv, Holds
<1>11. Holds(doc, clip, minted, Missing, Nothing, k)
  BY <1>6, <1>8, <1>9, <1>10, LoadKeeps
<1> QED
  BY <1>1, <1>11

LEMMA MigratingHere ==
  ASSUME SessionInv, load.phase = "migrating"
  PROVE  Strong(load.raw) /\ last.kind = "none" /\ Loads(load) /\ Strong(doc) /\ load.raw \in DocumentRecords
BY DEF SessionInv, Holds, Turning, Strong

(* One turn: the next version, of a document that may have grown.            *)
LEMMA Turned ==
  ASSUME NEW raw, Strong(raw), NEW grows, NEW version \in STRING
  PROVE  Strong([(IF grows THEN Grown(raw) ELSE raw) EXCEPT !.version = version])
<1> DEFINE d == IF grows THEN Grown(raw) ELSE raw
           e == [d EXCEPT !.version = version]
<1>1. Strong(d)
  BY GrownSound
<1>2. d \in DocumentRecords
  BY <1>1 DEF Strong
<1> HIDE DEF d
<1>3. e \in DocumentRecords /\ e.pages = d.pages /\ e.components = d.components /\ e.assets = d.assets
  BY <1>2 DEF DocumentRecords
<1> HIDE DEF e
<1>4. Strong(e)
  BY <1>1, <1>3, SameStrong
<1> QED
  BY <1>4 DEF d, e

LEMMA MigrateHolds ==
  ASSUME SessionInv, MigrateStep
  PROVE  Holds(doc', clip', minted', inverse', last', load')
<1> DEFINE steps == createMigrationRegistry(load.seam)
           step == steps[load.raw.version]
<1>1. load.phase = "migrating" /\ doc' = doc /\ clip' = clip /\ minted' = minted /\ inverse' = inverse /\ last' = last
  BY DEF MigrateStep
<1>2. Strong(load.raw) /\ last.kind = "none" /\ Loads(load) /\ Strong(doc) /\ load.raw \in DocumentRecords
  BY <1>1, MigratingHere
<1>3. Loads(load') /\ ~Opens(load') /\ (load'.phase = "migrating" => Strong(load'.raw))
  <2>1. CASE Ended("cycle", load.raw)
    BY <1>2, <2>1, EndedIs
  <2>2. CASE Ended("unsupported", load.raw)
    BY <1>2, <2>2, EndedIs
  <2>3. CASE /\ load.raw.version \in DOMAIN steps \ load.seen
             /\ load' = [load EXCEPT !.seen = load.seen \cup {load.raw.version},
                                     !.raw = [(IF step[3] THEN Grown(load.raw) ELSE load.raw) EXCEPT !.version = step[2]]]
    <3>1. step \in Migrations
      BY <2>3, RegistryIs
    <3>2. step[2] \in STRING
      BY <3>1 DEF Migrations
    <3> DEFINE raw == [(IF step[3] THEN Grown(load.raw) ELSE load.raw) EXCEPT !.version = step[2]]
               seen == load.seen \cup {load.raw.version}
    <3> HIDE DEF step
    <3>3. Strong(raw)
      BY <1>2, <3>2, Turned
    <3>4. raw \in DocumentRecords
      BY <3>3 DEF Strong
    <3>5. load' = [load EXCEPT !.seen = seen, !.raw = raw]
      BY <2>3
    <3> HIDE DEF raw
    <3>6. seen \in SUBSET STRING
      <4>1. load.raw.version \in STRING
        BY <1>2 DEF DocumentRecords
      <4>2. load.seen \in SUBSET STRING
        BY <1>2 DEF Loads
      <4> QED
        BY <4>1, <4>2
    <3> HIDE DEF seen
    <3>7. Loads(load')
      BY <1>2, <3>4, <3>5, <3>6 DEF Loads
    <3>8. load'.phase = "migrating" /\ load'.raw = raw
      BY <1>1, <1>2, <3>5 DEF Loads
    <3> QED
      BY <3>3, <3>7, <3>8 DEF Opens
  <2> QED
    BY <2>1, <2>2, <2>3 DEF MigrateStep
<1> HIDE DEF steps, step
<1>4. Holds(doc, clip, minted, inverse, last, load')
  BY <1>2, <1>3, LoadKeeps DEF SessionInv
<1> QED
  BY <1>1, <1>4

LEMMA FinishHolds ==
  ASSUME SessionInv, FinishLoad
  PROVE  Holds(doc', clip', minted', inverse', last', load')
<1>1. load.phase = "migrating" /\ clip' = clip /\ minted' = minted /\ inverse' = inverse /\ last' = last
  BY DEF FinishLoad
<1>2. Strong(load.raw) /\ last.kind = "none" /\ Loads(load) /\ Strong(doc)
  BY <1>1, MigratingHere
<1>3. Loads(load') /\ ~Opens(load') /\ load'.phase = "idle"
  <2>1. \/ Ended("over-budget", load.raw) \/ Ended("invalid", load.raw) \/ Ended("loaded", load.raw)
    BY DEF FinishLoad
  <2>2. CASE Ended("over-budget", load.raw)
    BY <1>2, <2>2, EndedIs
  <2>3. CASE Ended("invalid", load.raw)
    BY <1>2, <2>3, EndedIs
  <2>4. CASE Ended("loaded", load.raw)
    BY <1>2, <2>4, EndedIs
  <2> QED
    BY <2>1, <2>2, <2>3, <2>4
<1>4. Strong(doc')
  <2>1. doc' = doc \/ doc' = load.raw
    BY DEF FinishLoad
  <2> QED
    BY <1>2, <2>1
<1>5. Holds(doc', clip, minted, inverse, last, load')
  BY <1>2, <1>3, <1>4, LoadKeeps DEF SessionInv
<1> QED
  BY <1>1, <1>5

LEMMA StepHolds == SessionInv /\ [Next]_vars => SessionInv'
<1> SUFFICES ASSUME SessionInv, [Next]_vars
             PROVE  SessionInv'
  OBVIOUS
<1>1. CASE UNCHANGED vars
  <2>1. doc' = doc /\ clip' = clip /\ minted' = minted /\ inverse' = inverse /\ last' = last /\ load' = load
    BY <1>1 DEF vars
  <2>2. Holds(doc', clip', minted', inverse', last', load')
    BY <2>1 DEF SessionInv
  <2> QED
    BY <2>2 DEF SessionInv
<1>2. CASE Next
  <2>1. Holds(doc', clip', minted', inverse', last', load')
    <3>1. CASE \E d \in Foreign \cup {doc} : \E p \in DOMAIN d.pages : \E i \in 2..Len(d.pages[p].nodes) : Copy(d, p, i)
      BY <3>1, CopyHolds
    <3>2. CASE \E payload \in Payloads : Receive(payload)
      BY <3>2, ReceiveHolds
    <3>3. CASE \E p \in DOMAIN doc.pages : Paste(p)
      BY <3>3, PasteHolds
    <3>4. CASE \E template \in Templates : \E values \in Supplied : \E newId \in Orders(template) :
                 OpenTemplate(template, values, newId) \/ ApplyTemplate(template, values, newId)
      BY <3>4, OpenHolds, ApplyHolds
    <3>5. CASE \E p \in DOMAIN doc.pages : \E presets \in Presets : Resize(p, presets)
      BY <3>5, ResizeHolds
    <3>6. CASE Undo
      BY <3>6, UndoHolds
    <3>7. CASE Save
      BY <3>7, SaveHolds
    <3>8. CASE \E candidate \in Candidates : BeginLoad(candidate)
      BY <3>8, BeginLoadHolds
    <3>9. CASE MigrateStep
      BY <3>9, MigrateHolds
    <3>10. CASE FinishLoad
      BY <3>10, FinishHolds
    <3> QED
      BY <1>2, <3>1, <3>2, <3>3, <3>4, <3>5, <3>6, <3>7, <3>8, <3>9, <3>10 DEF Next
  <2> QED
    BY <2>1 DEF SessionInv
<1> QED
  BY <1>1, <1>2

-----------------------------------------------------------------------------
(* The variables keep their types, for all documents, payloads, templates    *)
(* and migrations a session may be given.                                    *)
THEOREM TypeCorrect == Spec => []TypeOK
<1>1. SessionInv => TypeOK
  <2> SUFFICES ASSUME SessionInv
               PROVE  TypeOK
    OBVIOUS
  <2>1. IsDocument(doc)
    BY DocumentsAre DEF SessionInv, Holds, Strong
  <2>2. minted \in Nat /\ (clip = Missing \/ IsPayload(clip))
    BY DEF SessionInv, Holds, Counted
  <2>3. last.kind \in {"none", "paste", "template", "undo", "save"}
    BY DEF SessionInv, Holds, Brought
  <2>4. Loads(load)
    BY DEF SessionInv, Holds
  <2>5. /\ load.phase \in {"idle", "migrating"} /\ load.seam \in {"core", "runtime"}
        /\ load.raw \in DocumentRecords /\ load.seen \subseteq STRING
        /\ load.outcome \in {"none", "unsupported", "over-budget", "cycle", "invalid", "loaded"}
    BY <2>4 DEF Loads
  <2>6. IsDocument(load.raw)
    BY <2>5, DocumentsAre
  <2> QED
    BY <2>1, <2>2, <2>3, <2>5, <2>6 DEF TypeOK
<1> QED
  BY <1>1, InitHolds, StepHolds, PTL DEF Spec

(* DocumentStaysSound: whatever is copied, pasted, instantiated, applied,    *)
(* resized, undone, saved, migrated and loaded, in any order: ids, page ids  *)
(* and asset keys stay unique (of src/ir/invariants.ts, not that references  *)
(* to assets resolve or that capabilities are complete), and the graph check *)
(* of src/components/validate.ts has nothing to refuse but sizes, for all    *)
(* documents, payloads and templates that meet SessionAssumption.            *)
THEOREM ImportsStaySound == Spec => []DocumentStaysSound
<1>1. SessionInv => DocumentStaysSound
  <2> SUFFICES ASSUME SessionInv
               PROVE  DocumentStaysSound
    OBVIOUS
  <2>1. Strong(doc)
    BY DEF SessionInv, Holds
  <2>2. Sound(doc)
    BY <2>1, SoundMeans
  <2> QED
    BY <2>2 DEF Sound, DocumentStaysSound, IdentitiesAreUnique, SourcesResolve
<1> QED
  BY <1>1, InitHolds, StepHolds, PTL DEF Spec

(* PastedPicturesKept: a node pasted from another document shows the picture *)
(* it showed there, whatever keys the two documents share, until the         *)
(* document changes again (src/clipboard/payload.ts, re-keyed assets).       *)
THEOREM PicturesSurvivePasting == Spec => []PastedPicturesKept
<1>1. SessionInv => PastedPicturesKept
  <2> SUFFICES ASSUME SessionInv
               PROVE  PastedPicturesKept
    OBVIOUS
  <2>1. last.kind = "paste" => Shows(last, doc)
    BY DEF SessionInv, Holds, Brought
  <2> QED
    BY <2>1 DEF PastedPicturesKept, Shows
<1> QED
  BY <1>1, InitHolds, StepHolds, PTL DEF Spec

(* LockedNodesKept: no value supplied for a variable reaches a node the      *)
(* template locks, and none changes the shape of a tree                      *)
(* (src/templates/instantiate.ts), for all templates and values.             *)
THEOREM LocksAreHard == Spec => []LockedNodesKept
<1>1. SessionInv => LockedNodesKept
  <2> SUFFICES ASSUME SessionInv
               PROVE  LockedNodesKept
    OBVIOUS
  <2>1. last.kind = "template" => LocksHold(last.template, last.document)
    BY DEF SessionInv, Holds, Brought
  <2> QED
    BY <2>1 DEF LockedNodesKept, LocksHold
<1> QED
  BY <1>1, InitHolds, StepHolds, PTL DEF Spec

(* UndoneOrRefused: the inverse of what a template or a resize added is      *)
(* refused as a whole or leads back to the very document it was applied to.  *)
THEOREM BatchesAreReversible == Spec => []UndoneOrRefused
<1>1. SessionInv => UndoneOrRefused
  BY DEF SessionInv, Holds, Brought, UndoneOrRefused
<1> QED
  BY <1>1, InitHolds, StepHolds, PTL DEF Spec
=============================================================================
