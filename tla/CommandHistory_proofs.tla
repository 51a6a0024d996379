------------------------ MODULE CommandHistory_proofs ------------------------
(***************************************************************************)
(* Proofs about CommandHistory, for every set of nodes and hosts.          *)
(***************************************************************************)
EXTENDS CommandHistory, IntervalInduction, FunctionTheorems, FiniteSetTheorems, SequenceTheorems, TLAPS

(* A set of nodes has a natural number of members. *)
LEMMA NodeCount ==
    ASSUME NEW S, S \subseteq Node
    PROVE  IsFiniteSet(S) /\ Cardinality(S) \in Nat
BY NodeAssumption, FS_Subset, FS_CardinalityType

(* The arrays of a document: kids are nodes, and a width is a number. *)
LEMMA KidsType ==
    ASSUME NEW d \in Document, NEW p
    PROVE  Kids(d, p) \subseteq d.live /\ d.live \subseteq Node /\ Width(d, p) \in Nat
<1>1. Kids(d, p) \subseteq d.live /\ d.live \subseteq Node
  BY DEF Kids, Document
<1> QED BY <1>1, NodeCount DEF Width

(* Restricting a document to some of its nodes leaves a document. *)
LEMMA OnlyType ==
    ASSUME NEW d \in Document, NEW S \in SUBSET Node
    PROVE  Only(d, S) \in Document
BY DEF Only, Document, LockState

(* The index shifts of a splice are indices. *)
LEMMA ShiftType ==
    ASSUME NEW d \in Document, NEW p, NEW n, NEW at \in Int
    PROVE  WithGap(d, p, at) \in [Node -> Int] /\ WithoutSlot(d, n) \in [Node -> Int]
<1>1. d.pos \in [Node -> Int]
  BY DEF Document
<1> QED BY <1>1 DEF WithGap, WithoutSlot

LEMMA ClampType ==
    ASSUME NEW i \in Int, NEW max \in Int
    PROVE  Clamp(i, max) \in Int
BY DEF Clamp, Smaller

-----------------------------------------------------------------------------
(* Every command returns a document and a command. *)

LEMMA CreateType ==
    ASSUME NEW d \in Document, NEW c \in CreateCommand
    PROVE  Created(d, c) \in Document /\ CreateInverse(d, c) \in Command
<1>1. /\ c.node \in Node /\ c.parent \in Node \cup {NoNode} /\ c.at \in Int
      /\ c.sub \in Document
  BY DEF CreateCommand
<1>2. WithGap(d, c.parent, c.at) \in [Node -> Int]
  BY <1>1, ShiftType
<1>3. Created(d, c) \in Document
  BY <1>1, <1>2 DEF Created, Document, LockState
<1>4. CreateInverse(d, c) \in DeleteCommand
  BY <1>1 DEF CreateInverse, DeleteCommand
<1> QED BY <1>3, <1>4 DEF Command

LEMMA DeleteType ==
    ASSUME NEW d \in Document, NEW c \in DeleteCommand
    PROVE  Deleted(d, c) \in Document /\ DeleteInverse(d, c) \in Command
<1>1. c.node \in Node /\ d.pos[c.node] \in Int /\ d.parent[c.node] \in Node \cup {NoNode}
  BY DEF DeleteCommand, Document
<1>2. Below(d, c.node) \subseteq Node /\ d.live \ Below(d, c.node) \subseteq Node
  BY DEF Below, Document
<1>3. [d EXCEPT !.pos = WithoutSlot(d, c.node)] \in Document
  <2>1. WithoutSlot(d, c.node) \in [Node -> Int]
    BY ShiftType
  <2> QED BY <2>1 DEF Document
<1>4. Deleted(d, c) \in Document
  BY <1>2, <1>3, OnlyType DEF Deleted
<1>5. Only(d, Below(d, c.node)) \in Document
  BY <1>2, OnlyType
<1>6. Subtree(d, c.node) \in Document
  <2> DEFINE own == Only(d, Below(d, c.node))
  <2>1. /\ own \in Document /\ own.parent \in [Node -> Node \cup {NoNode}]
        /\ own.pos \in [Node -> Int]
    BY <1>5 DEF Document
  <2>2. Subtree(d, c.node) = [own EXCEPT !.parent = [own.parent EXCEPT ![c.node] = NoNode],
                                         !.pos = [own.pos EXCEPT ![c.node] = 0]]
    BY <2>1 DEF Subtree
  <2>3. /\ [own.parent EXCEPT ![c.node] = NoNode] \in [Node -> Node \cup {NoNode}]
        /\ [own.pos EXCEPT ![c.node] = 0] \in [Node -> Int]
    <3> HIDE DEF own
    <3> QED BY <1>1, <2>1
  <2> HIDE DEF own
  <2>4. \A q \in [Node -> Node \cup {NoNode}], i \in [Node -> Int] :
          [own EXCEPT !.parent = q, !.pos = i] \in Document
    BY <2>1 DEF Document
  <2>5. [own EXCEPT !.parent = [own.parent EXCEPT ![c.node] = NoNode],
                    !.pos = [own.pos EXCEPT ![c.node] = 0]] \in Document
    BY <2>3, <2>4, Zenon
  <2> QED BY <2>2, <2>5, Zenon
<1>7. DeleteInverse(d, c) \in CreateCommand
  BY <1>1, <1>6 DEF DeleteInverse, CreateCommand
<1> QED BY <1>4, <1>7 DEF Command

LEMMA MoveType ==
    ASSUME NEW d \in Document, NEW c \in MoveCommand
    PROVE  Moved(d, c) \in Document /\ MoveInverse(d, c) \in Command
<1>1. c.node \in Node /\ c.to \in Int /\ d.x[c.node] \in Int
  BY DEF MoveCommand, Document
<1>2. Moved(d, c) \in Document
  BY <1>1 DEF Moved, Document
<1>3. MoveInverse(d, c) \in MoveCommand
  BY <1>1 DEF MoveInverse, MoveCommand
<1> QED BY <1>2, <1>3 DEF Command

LEMMA UpdateType ==
    ASSUME NEW d \in Document, NEW c \in UpdateCommand
    PROVE  Updated(d, c) \in Document /\ UpdateInverse(d, c) \in Command
<1>1. /\ c.node \in Node /\ c.to \in Int /\ c.lock \in LockState
      /\ c.keys \in SUBSET {"locked", "transform"}
      /\ d.x[c.node] \in Int /\ d.lock[c.node] \in LockState
  BY DEF UpdateCommand, Document
<1>2. Updated(d, c) \in Document
  BY <1>1 DEF Updated, Document
<1>3. UpdateInverse(d, c) \in UpdateCommand
  BY <1>1 DEF UpdateInverse, UpdateCommand, LockState
<1> QED BY <1>2, <1>3 DEF Command

LEMMA ReorderType ==
    ASSUME NEW d \in Document, NEW c \in ReorderCommand
    PROVE  Reordered(d, c) \in Document /\ ReorderInverse(d, c) \in Command
<1> DEFINE p == d.parent[c.node]
           to == Clamp(c.at, Width(d, p) - 1)
           out == [d EXCEPT !.pos = WithoutSlot(d, c.node), !.live = @ \ {c.node}]
<1>1. c.node \in Node /\ c.at \in Int /\ d.pos[c.node] \in Int
  BY DEF ReorderCommand, Document
<1>2. to \in Int
  <2>1. Width(d, p) - 1 \in Int
    BY KidsType
  <2> QED BY <1>1, <2>1, ClampType
<1>3. out \in Document
  <2>1. WithoutSlot(d, c.node) \in [Node -> Int]
    BY ShiftType
  <2> QED BY <2>1 DEF Document
<1>4. WithGap(out, p, to) \in [Node -> Int]
  BY <1>2, <1>3, ShiftType
<1>5. Reordered(d, c) \in Document
  <2> HIDE DEF to, out
  <2> QED BY <1>1, <1>2, <1>4 DEF Reordered, Document, to, out
<1>6. ReorderInverse(d, c) \in ReorderCommand
  BY <1>1 DEF ReorderInverse, ReorderCommand
<1> QED BY <1>5, <1>6 DEF Command

LEMMA ReparentType ==
    ASSUME NEW d \in Document, NEW c \in ReparentCommand
    PROVE  Reparented(d, c) \in Document /\ ReparentInverse(d, c) \in Command
<1> DEFINE out == [d EXCEPT !.pos = WithoutSlot(d, c.node), !.live = @ \ {c.node}]
           to == Clamp(c.at, Width(out, c.parent))
<1>1. /\ c.node \in Node /\ c.parent \in Node \cup {NoNode} /\ c.at \in Int
      /\ d.pos[c.node] \in Int /\ d.parent[c.node] \in Node \cup {NoNode}
  BY DEF ReparentCommand, Document
<1>2. out \in Document
  <2>1. WithoutSlot(d, c.node) \in [Node -> Int]
    BY ShiftType
  <2> QED BY <2>1 DEF Document
<1>3. to \in Int
  BY <1>1, <1>2, KidsType, ClampType
<1>4. WithGap(out, c.parent, to) \in [Node -> Int]
  BY <1>2, <1>3, ShiftType
<1>5. Reparented(d, c) \in Document
  <2> HIDE DEF to, out
  <2> QED BY <1>1, <1>3, <1>4 DEF Reparented, Document, to, out
<1>6. ReparentInverse(d, c) \in ReparentCommand
  BY <1>1 DEF ReparentInverse, ReparentCommand
<1> QED BY <1>5, <1>6 DEF Command

LEMMA GroupType ==
    ASSUME NEW d \in Document, NEW c \in GroupCommand, c.kids # {}
    PROVE  Grouped(d, c) \in Document /\ GroupInverse(d, c) \in Command
<1> DEFINE p == d.parent[CHOOSE n \in c.kids : TRUE]
           top == GroupSlot(d, p, c.kids)
           rank(n) == Before(d, c.kids, d.pos[n])
           rest(n) == d.pos[n] - rank(n)
<1>1. /\ c.group \in Node /\ c.kids \in SUBSET Node /\ c.shift \in Int /\ c.lock \in LockState
      /\ c.kids # {} /\ d.pos \in [Node -> Int] /\ d.x \in [Node -> Int]
  BY DEF GroupCommand, Document
<1>2. p \in Node \cup {NoNode}
  BY <1>1 DEF Document
<1>3. top \in Int
  <2>1. {m \in Kids(d, p) : \A n \in c.kids : d.pos[m] < d.pos[n]} \subseteq Node
    BY KidsType
  <2> QED BY <2>1, NodeCount DEF GroupSlot
<1>4. ASSUME NEW n \in Node PROVE rank(n) \in Int /\ rest(n) \in Int
  BY <1>1, NodeCount DEF Before
<1>5. Grouped(d, c) \in Document
  <2>1. Grouped(d, c).pos \in [Node -> Int]
    <3>1. Grouped(d, c).pos =
            [n \in Node |-> IF n = c.group THEN top
                            ELSE IF n \in c.kids THEN rank(n)
                            ELSE IF n \in Kids(d, p)
                            THEN rest(n) + (IF rest(n) >= top THEN 1 ELSE 0)
                            ELSE d.pos[n]]
      BY DEF Grouped
    <3> HIDE DEF p, top, rank, rest
    <3> QED BY <1>1, <1>3, <1>4, <3>1
  <2>2. Grouped(d, c).parent =
          [n \in Node |-> IF n = c.group THEN p
                          ELSE IF n \in c.kids THEN c.group ELSE d.parent[n]]
    BY DEF Grouped
  <2>3. Grouped(d, c).parent \in [Node -> Node \cup {NoNode}]
    <3> HIDE DEF p
    <3> QED BY <1>1, <1>2, <2>2 DEF Document
  <2>4. /\ Grouped(d, c).live \in SUBSET Node /\ Grouped(d, c).x \in [Node -> Int]
        /\ Grouped(d, c).lock \in [Node -> LockState]
    BY <1>1 DEF Grouped, Document
  <2>5. Grouped(d, c) = [live |-> Grouped(d, c).live, parent |-> Grouped(d, c).parent,
                         pos |-> Grouped(d, c).pos, x |-> Grouped(d, c).x,
                         lock |-> Grouped(d, c).lock]
    BY DEF Grouped
  <2> QED BY <2>1, <2>3, <2>4, <2>5 DEF Document
<1>6. GroupInverse(d, c) \in UngroupCommand
  BY <1>1 DEF GroupInverse, UngroupCommand
<1> QED BY <1>5, <1>6 DEF Command

LEMMA UngroupType ==
    ASSUME NEW d \in Document, NEW c \in UngroupCommand
    PROVE  Ungrouped(d, c) \in Document /\ UngroupInverse(d, c) \in Command
<1> DEFINE g == c.group
           siblings == Kids(d, d.parent[g]) \ {g}
           base(n) == IF d.pos[n] > d.pos[g] THEN d.pos[n] - 1 ELSE d.pos[n]
           earlier(n) == Cardinality({m \in c.restore : c.index[m] < c.index[n]})
           dropped == UNION {Below(d, n) : n \in Kids(d, g) \ Lifted(d, c)}
<1>1. /\ g \in Node /\ c.restore \in SUBSET Node /\ c.index \in [Node -> Int]
      /\ d.pos \in [Node -> Int] /\ d.x \in [Node -> Int] /\ d.lock \in [Node -> LockState]
      /\ d.parent \in [Node -> Node \cup {NoNode}] /\ d.live \in SUBSET Node
  BY DEF UngroupCommand, Document
<1>2. SpilledPos(d, c) \in [Node -> Int]
  BY <1>1, KidsType DEF SpilledPos
<1>3. RestoredPos(d, c) \in [Node -> Int]
  <2>1. Cardinality(siblings) \in Nat
    BY KidsType, NodeCount
  <2> DEFINE before(n) == Cardinality({m \in c.restore : c.index[m] - earlier(m) <= base(n)})
  <2>2. ASSUME NEW n \in Node PROVE base(n) \in Int /\ earlier(n) \in Int /\ before(n) \in Int
    <3>1. base(n) \in Int
      BY <1>1
    <3>2. {m \in c.restore : c.index[m] < c.index[n]} \subseteq Node
      BY <1>1
    <3>3. {m \in c.restore : c.index[m] - earlier(m) <= base(n)} \subseteq Node
      BY <1>1
    <3>4. earlier(n) \in Int
      BY <3>2, NodeCount
    <3>5. before(n) \in Int
      <4> HIDE DEF earlier, base
      <4> QED BY <3>3, NodeCount
    <3> QED BY <3>1, <3>4, <3>5
  <2>3. RestoredPos(d, c) =
          [n \in Node |-> IF n \in c.restore
                          THEN Smaller(c.index[n], Cardinality(siblings) + earlier(n))
                          ELSE IF n \in siblings THEN base(n) + before(n) ELSE d.pos[n]]
    BY DEF RestoredPos
  <2> HIDE DEF siblings, base, earlier, before
  <2> QED BY <1>1, <2>1, <2>2, <2>3 DEF Smaller
<1>4. Ungrouped(d, c) \in Document
  <2> DEFINE flat == [d EXCEPT
               !.parent = [n \in Node |-> IF n \in Kids(d, g) THEN d.parent[g] ELSE d.parent[n]],
               !.pos = IF c.restore = {} THEN SpilledPos(d, c) ELSE RestoredPos(d, c),
               !.x = Reprojected(d, g)]
  <2>1. flat \in Document
    <3>1. \A q \in [Node -> Node \cup {NoNode}], i, j \in [Node -> Int] :
            [d EXCEPT !.parent = q, !.pos = i, !.x = j] \in Document
      BY DEF Document
    <3>2. [n \in Node |-> IF n \in Kids(d, g) THEN d.parent[g] ELSE d.parent[n]]
            \in [Node -> Node \cup {NoNode}]
      BY <1>1
    <3>3. Reprojected(d, g) \in [Node -> Int]
      BY <1>1 DEF Reprojected
    <3> QED BY <1>2, <1>3, <3>1, <3>2, <3>3
  <2>2. (d.live \ {g}) \ dropped \in SUBSET Node
    BY <1>1
  <2>3. Only(flat, (d.live \ {g}) \ dropped) \in Document
    BY <2>1, <2>2, OnlyType
  <2> QED BY <2>3 DEF Ungrouped
<1>5. UngroupInverse(d, c) \in GroupCommand
  BY <1>1, KidsType DEF UngroupInverse, GroupCommand
<1> QED BY <1>4, <1>5 DEF Command

(* What applyCommandCore accepts, it turns into a document and an inverse. *)
LEMMA StepType ==
    ASSUME NEW d \in Document, NEW c \in Command, NEW e, Accepts(e, d, c)
    PROVE  After(d, c) \in Document /\ InverseOf(d, c) \in Command
<1>1. CASE c \in CreateCommand
  BY <1>1, CreateType DEF After, InverseOf, CreateCommand
<1>2. CASE c \in DeleteCommand
  BY <1>2, DeleteType DEF After, InverseOf, DeleteCommand
<1>3. CASE c \in MoveCommand
  BY <1>3, MoveType DEF After, InverseOf, MoveCommand
<1>4. CASE c \in UpdateCommand
  BY <1>4, UpdateType DEF After, InverseOf, UpdateCommand
<1>5. CASE c \in ReorderCommand
  BY <1>5, ReorderType DEF After, InverseOf, ReorderCommand
<1>6. CASE c \in ReparentCommand
  BY <1>6, ReparentType DEF After, InverseOf, ReparentCommand
<1>7. CASE c \in GroupCommand
  <2>1. c.type = "node.group"
    BY <1>7 DEF GroupCommand
  <2>2. c.kids # {}
    BY <2>1 DEF Accepts, GroupAccepts
  <2> QED BY <1>7, <2>1, <2>2, GroupType DEF After, InverseOf
<1>8. CASE c \in UngroupCommand
  BY <1>8, UngroupType DEF After, InverseOf, UngroupCommand
<1> QED BY <1>1, <1>2, <1>3, <1>4, <1>5, <1>6, <1>7, <1>8 DEF Command

-----------------------------------------------------------------------------
(* The roots.  A pending command spares them when its payload holds none.  *)

SparesRoots(c) ==
    /\ c.type = "node.create" => c.node \notin Roots /\ c.sub.live \cap Roots = {}
    /\ c.type = "node.group" => c.group \notin Roots

Pending == {c \in Command : SparesRoots(c)}

RootsInv ==
    /\ Rooted(doc)
    /\ Roots \subseteq minted
    /\ undo \in [Host -> Seq(Pending)]
    /\ redo \in [Host -> Seq(Pending)]

(* A root is in no subtree but its own: the subtree without the root is     *)
(* closed too, because nothing is the parent of a root.                     *)
LEMMA RootsNotBelow ==
    ASSUME NEW d \in Document, Rooted(d), NEW n, n \notin Roots
    PROVE  n \in d.live => Below(d, n) \cap Roots = {}
<1> SUFFICES ASSUME n \in d.live, NEW r \in Roots, r \in Below(d, n)
             PROVE  FALSE
  OBVIOUS
<1> DEFINE S == Below(d, n) \ {r}
<1>1. d.live \subseteq Node /\ NoNode \notin Node
  BY NodeAssumption DEF Document
<1>2. S \in SUBSET d.live /\ n \in S
  BY DEF Below
<1>3. ASSUME NEW m \in d.live, d.parent[m] \in S PROVE m \in S
  <2>1. m \in Below(d, n)
    BY <1>3 DEF Below
  <2>2. m # r
    BY <1>1, <1>2, <1>3 DEF Rooted
  <2> QED BY <2>1, <2>2
<1>4. r \in S
  <2> HIDE DEF S
  <2> QED BY <1>2, <1>3 DEF Below
<1> QED BY <1>4

LEMMA DeleteRoots ==
    ASSUME NEW d \in Document, Rooted(d), NEW c \in DeleteCommand,
           c.node \in d.live, c.node \notin Roots
    PROVE  Rooted(Deleted(d, c)) /\ SparesRoots(DeleteInverse(d, c))
<1>1. Below(d, c.node) \cap Roots = {}
  BY RootsNotBelow
<1>2. Rooted(Deleted(d, c))
  BY <1>1, NodeAssumption DEF Rooted, Deleted, Only, Node, Document
<1>3. Subtree(d, c.node).live = Below(d, c.node)
  BY DEF Subtree, Only
<1> QED BY <1>1, <1>2, <1>3 DEF SparesRoots, DeleteInverse

LEMMA GroupRoots ==
    ASSUME NEW d \in Document, Rooted(d), NEW c \in GroupCommand, SparesRoots(c),
           c.kids \cap Roots = {}
    PROVE  Rooted(Grouped(d, c))
BY NodeAssumption DEF Rooted, Grouped, SparesRoots, GroupCommand, Node

LEMMA UngroupRoots ==
    ASSUME NEW d \in Document, Rooted(d), NEW c \in UngroupCommand,
           c.group \in d.live, c.group \notin Roots
    PROVE  Rooted(Ungrouped(d, c)) /\ SparesRoots(UngroupInverse(d, c))
<1> DEFINE g == c.group
           dropped == UNION {Below(d, n) : n \in Kids(d, g) \ Lifted(d, c)}
<1>1. g \in Node /\ NoNode \notin Node /\ Roots \subseteq Node
  BY NodeAssumption DEF UngroupCommand, Node
<1>2. Kids(d, g) \cap Roots = {}
  BY <1>1 DEF Kids, Rooted
<1>3. dropped \cap Roots = {}
  <2>1. \A n \in Kids(d, g) : Below(d, n) \cap Roots = {}
    BY <1>2, RootsNotBelow DEF Kids
  <2> QED BY <2>1
<1>4. ASSUME NEW r \in Roots
      PROVE  r \in Ungrouped(d, c).live /\ Ungrouped(d, c).parent[r] = NoNode
  <2>1. r \in (d.live \ {g}) \ dropped
    BY <1>3 DEF Rooted
  <2>2. Ungrouped(d, c).live = (d.live \ {g}) \ dropped
    BY DEF Ungrouped, Only
  <2>3. Ungrouped(d, c).parent[r] = IF r \in Kids(d, g) THEN d.parent[g] ELSE d.parent[r]
    <3> HIDE DEF dropped
    <3>1. r \in Node
      BY <1>1
    <3> QED BY <2>1, <2>2, <3>1 DEF Ungrouped, Only, Document, dropped
  <2> QED BY <1>2, <2>1, <2>2, <2>3 DEF Rooted
<1>5. SparesRoots(UngroupInverse(d, c))
  BY DEF SparesRoots, UngroupInverse
<1> QED BY <1>4, <1>5 DEF Rooted

(* Every command keeps the roots, and its inverse spares them too. *)
LEMMA StepRoots ==
    ASSUME NEW d \in Document, Rooted(d), NEW c \in Pending, NEW e, Accepts(e, d, c)
    PROVE  Rooted(After(d, c)) /\ InverseOf(d, c) \in Pending
<1>1. InverseOf(d, c) \in Command /\ c \in Command /\ SparesRoots(c)
  BY StepType DEF Pending
<1>2. CASE c \in CreateCommand
  <2>1. c.type = "node.create"
    BY <1>2 DEF CreateCommand
  <2>2. Rooted(Created(d, c))
    BY <1>1, <2>1, NodeAssumption DEF Rooted, Created, SparesRoots, Node
  <2>3. SparesRoots(CreateInverse(d, c))
    BY DEF SparesRoots, CreateInverse
  <2> QED BY <1>1, <2>1, <2>2, <2>3 DEF After, InverseOf, Pending
<1>3. CASE c \in DeleteCommand
  <2>1. c.type = "node.delete"
    BY <1>3 DEF DeleteCommand
  <2>2. c.node \in d.live /\ c.node \notin Roots
    BY <2>1 DEF Accepts, DeleteAccepts, Movable
  <2> QED BY <1>1, <1>3, <2>1, <2>2, DeleteRoots DEF After, InverseOf, Pending
<1>4. CASE c \in MoveCommand
  <2>1. c.type = "node.move"
    BY <1>4 DEF MoveCommand
  <2>2. Rooted(Moved(d, c))
    BY DEF Rooted, Moved, Document
  <2>3. SparesRoots(MoveInverse(d, c))
    BY DEF SparesRoots, MoveInverse
  <2> QED BY <1>1, <2>1, <2>2, <2>3 DEF After, InverseOf, Pending
<1>5. CASE c \in UpdateCommand
  <2>1. c.type = "node.update"
    BY <1>5 DEF UpdateCommand
  <2>2. Rooted(Updated(d, c))
    BY DEF Rooted, Updated, Document
  <2>3. SparesRoots(UpdateInverse(d, c))
    BY DEF SparesRoots, UpdateInverse
  <2> QED BY <1>1, <2>1, <2>2, <2>3 DEF After, InverseOf, Pending
<1>6. CASE c \in ReorderCommand
  <2>1. c.type = "node.reorder"
    BY <1>6 DEF ReorderCommand
  <2>2. Rooted(Reordered(d, c))
    BY DEF Rooted, Reordered, Document
  <2>3. SparesRoots(ReorderInverse(d, c))
    BY DEF SparesRoots, ReorderInverse
  <2> QED BY <1>1, <2>1, <2>2, <2>3 DEF After, InverseOf, Pending
<1>7. CASE c \in ReparentCommand
  <2>1. c.type = "node.reparent"
    BY <1>7 DEF ReparentCommand
  <2>2. c.node \notin Roots
    BY <2>1 DEF Accepts, ReparentAccepts, Movable
  <2>3. Rooted(Reparented(d, c))
    BY <2>2 DEF Rooted, Reparented, Document
  <2>4. SparesRoots(ReparentInverse(d, c))
    BY DEF SparesRoots, ReparentInverse
  <2> QED BY <1>1, <2>1, <2>3, <2>4 DEF After, InverseOf, Pending
<1>8. CASE c \in GroupCommand
  <2>1. c.type = "node.group"
    BY <1>8 DEF GroupCommand
  <2>2. c.kids \cap Roots = {}
    BY <2>1 DEF Accepts, GroupAccepts, Movable
  <2>3. SparesRoots(GroupInverse(d, c))
    BY DEF SparesRoots, GroupInverse
  <2> QED BY <1>1, <1>8, <2>1, <2>2, <2>3, GroupRoots DEF After, InverseOf, Pending
<1>9. CASE c \in UngroupCommand
  <2>1. c.type = "node.ungroup"
    BY <1>9 DEF UngroupCommand
  <2>2. c.group \in d.live /\ c.group \notin Roots
    BY <2>1 DEF Accepts, UngroupAccepts
  <2>3. /\ Rooted(Ungrouped(d, c))
        /\ SparesRoots(UngroupInverse(d, c))
    BY <1>9, <2>2, UngroupRoots
  <2> QED BY <1>1, <2>1, <2>3 DEF After, InverseOf, Pending
<1> QED BY <1>1, <1>2, <1>3, <1>4, <1>5, <1>6, <1>7, <1>8, <1>9 DEF Command

-----------------------------------------------------------------------------
(* The steps of the machine. *)

LEMMA InitInv == Init => TypeOK /\ RootsInv
<1> SUFFICES ASSUME Init PROVE TypeOK /\ RootsInv
  OBVIOUS
<1>1. doc \in Document /\ Rooted(doc) /\ minted = doc.live
  BY HistoryAssumption DEF Init
<1>2. minted \subseteq Node /\ Roots \subseteq minted
  BY <1>1 DEF Document, Rooted
<1>3. \A T : undo \in [Host -> Seq(T)] /\ redo \in [Host -> Seq(T)]
  BY EmptySeq DEF Init
<1> QED BY <1>1, <1>2, <1>3 DEF TypeOK, RootsInv

(* Submitting a well-typed command that spares the roots. *)
LEMMA SubmitInv ==
    ASSUME TypeOK, RootsInv, NEW h \in Host, NEW c \in Pending, Submit(h, c)
    PROVE  /\ doc' \in Document /\ Rooted(doc')
           /\ undo' \in [Host -> Seq(Pending)] /\ redo' \in [Host -> Seq(Pending)]
<1>1. Accepts(EnforceOnSubmit, doc, c) /\ c \in Command
  BY DEF Submit, Pending
<1>2. After(doc, c) \in Document /\ Rooted(After(doc, c)) /\ InverseOf(doc, c) \in Pending
  BY <1>1, StepType, StepRoots DEF TypeOK, RootsInv
<1>3. <<InverseOf(doc, c)>> \o undo[h] \in Seq(Pending) /\ <<>> \in Seq(Pending)
  BY <1>2, ConcatProperties, EmptySeq DEF RootsInv
<1> QED BY <1>2, <1>3 DEF Submit, RootsInv

(* Replaying the newest entry of a stack. *)
LEMMA ReplayInv ==
    ASSUME TypeOK, RootsInv, NEW s \in Seq(Pending), s # <<>>, NEW t \in Seq(Pending),
           Accepts(EnforceOnReplay, doc, Head(s))
    PROVE  /\ After(doc, Head(s)) \in Document /\ Rooted(After(doc, Head(s)))
           /\ Tail(s) \in Seq(Pending)
           /\ <<InverseOf(doc, Head(s))>> \o t \in Seq(Pending)
<1>1. Head(s) \in Pending /\ Tail(s) \in Seq(Pending)
  BY HeadTailProperties
<1>2. /\ After(doc, Head(s)) \in Document /\ Rooted(After(doc, Head(s)))
      /\ InverseOf(doc, Head(s)) \in Pending
  BY <1>1, StepType, StepRoots DEF TypeOK, RootsInv, Pending
<1>3. <<InverseOf(doc, Head(s))>> \o t \in Seq(Pending)
  BY <1>2, ConcatProperties
<1> QED BY <1>1, <1>2, <1>3

LEMMA PendingTypes ==
    ASSUME NEW s \in [Host -> Seq(Pending)]
    PROVE  s \in [Host -> Seq(Command)]
BY SeqMonotonic DEF Pending

LEMMA StepInv == TypeOK /\ RootsInv /\ [Next]_vars => TypeOK' /\ RootsInv'
<1> SUFFICES ASSUME TypeOK, RootsInv, [Next]_vars PROVE TypeOK' /\ RootsInv'
  OBVIOUS
<1> DEFINE Kept == /\ doc' \in Document /\ Rooted(doc')
                   /\ undo' \in [Host -> Seq(Pending)] /\ redo' \in [Host -> Seq(Pending)]
                   /\ minted' \subseteq Node /\ minted \subseteq minted'
<1>0. doc \in Document /\ minted \subseteq Node /\ doc.live \subseteq Node /\ Roots \subseteq minted
  BY DEF TypeOK, Document, RootsInv
<1>1. ASSUME NEW h \in Host, NodeCreate(h) PROVE Kept
  <2>0. PICK n \in Node \ minted, m \in Node \ minted, p \in doc.live \cap Containers :
          \E at \in 0 .. Width(doc, p) :
            /\ Submit(h, [type |-> "node.create", node |-> n, sub |-> Payload(n, m),
                          parent |-> p, at |-> at])
            /\ minted' = minted \cup {n, m}
    BY <1>1 DEF NodeCreate
  <2>1. PICK at \in 0 .. Width(doc, p) :
          /\ Submit(h, [type |-> "node.create", node |-> n, sub |-> Payload(n, m),
                        parent |-> p, at |-> at])
          /\ minted' = minted \cup {n, m}
    BY <2>0
  <2>2. Payload(n, m) \in Document /\ Payload(n, m).live = {n, m}
    BY DEF Payload, Document, LockState
  <2>3. at \in Int /\ p \in Node /\ n \notin Roots /\ m \notin Roots
    BY <1>0, KidsType
  <2>4. [type |-> "node.create", node |-> n, sub |-> Payload(n, m), parent |-> p, at |-> at]
          \in Pending
    BY <2>2, <2>3 DEF Pending, Command, CreateCommand, SparesRoots
  <2> QED BY <1>0, <2>1, <2>4, SubmitInv
<1>2. ASSUME NEW h \in Host, NodeDelete(h) PROVE Kept
  <2>1. PICK n \in doc.live : Submit(h, [type |-> "node.delete", node |-> n])
    BY <1>2 DEF NodeDelete
  <2>2. [type |-> "node.delete", node |-> n] \in Pending
    BY <1>0 DEF Pending, Command, DeleteCommand, SparesRoots
  <2> QED BY <1>0, <1>2, <2>1, <2>2, SubmitInv DEF NodeDelete
<1>3. ASSUME NEW h \in Host, NodeMove(h) PROVE Kept
  <2>1. PICK n \in doc.live, to \in Positions :
          Submit(h, [type |-> "node.move", node |-> n, to |-> to])
    BY <1>3 DEF NodeMove
  <2>2. [type |-> "node.move", node |-> n, to |-> to] \in Pending
    BY <1>0, HistoryAssumption DEF Pending, Command, MoveCommand, SparesRoots
  <2> QED BY <1>0, <1>3, <2>1, <2>2, SubmitInv DEF NodeMove
<1>4. ASSUME NEW h \in Host, NodeUpdate(h) PROVE Kept
  <2>1. PICK n \in doc.live, keys \in (SUBSET {"locked", "transform"}) \ {{}},
             lock \in {"false", "true"}, to \in Positions :
          Submit(h, [type |-> "node.update", node |-> n, keys |-> keys, lock |-> lock, to |-> to])
    BY <1>4 DEF NodeUpdate
  <2>2. [type |-> "node.update", node |-> n, keys |-> keys, lock |-> lock, to |-> to] \in Pending
    BY <1>0, HistoryAssumption DEF Pending, Command, UpdateCommand, SparesRoots, LockState
  <2> QED BY <1>0, <1>4, <2>1, <2>2, SubmitInv DEF NodeUpdate
<1>5. ASSUME NEW h \in Host, NodeReorder(h) PROVE Kept
  <2>1. PICK n \in doc.live, at \in 0 .. Cardinality(Node) :
          Submit(h, [type |-> "node.reorder", node |-> n, at |-> at])
    BY <1>5 DEF NodeReorder
  <2>2. at \in Int
    BY NodeCount
  <2>3. [type |-> "node.reorder", node |-> n, at |-> at] \in Pending
    BY <1>0, <2>2 DEF Pending, Command, ReorderCommand, SparesRoots
  <2> QED BY <1>0, <1>5, <2>1, <2>3, SubmitInv DEF NodeReorder
<1>6. ASSUME NEW h \in Host, NodeReparent(h) PROVE Kept
  <2>0. PICK n \in doc.live, p \in doc.live :
          \E at \in 0 .. Width(doc, p) + 1 :
            Submit(h, [type |-> "node.reparent", node |-> n, parent |-> p, at |-> at])
    BY <1>6 DEF NodeReparent
  <2>1. PICK at \in 0 .. Width(doc, p) + 1 :
          Submit(h, [type |-> "node.reparent", node |-> n, parent |-> p, at |-> at])
    BY <2>0
  <2>2. at \in Int
    BY <1>0, KidsType
  <2>3. [type |-> "node.reparent", node |-> n, parent |-> p, at |-> at] \in Pending
    BY <1>0, <2>2 DEF Pending, Command, ReparentCommand, SparesRoots
  <2> QED BY <1>0, <1>6, <2>1, <2>3, SubmitInv DEF NodeReparent
<1>7. ASSUME NEW h \in Host, NodeGroup(h) PROVE Kept
  <2>1. PICK g \in Groups \ minted, kids \in SUBSET doc.live :
          /\ Submit(h, [type |-> "node.group", group |-> g, kids |-> kids,
                        shift |-> 0, lock |-> "absent"])
          /\ minted' = minted \cup {g}
    BY <1>7 DEF NodeGroup
  <2>2. g \in Node /\ g \notin Roots
    BY <1>0 DEF Node
  <2>3. [type |-> "node.group", group |-> g, kids |-> kids, shift |-> 0, lock |-> "absent"] \in Pending
    BY <1>0, <2>2 DEF Pending, Command, GroupCommand, SparesRoots, LockState
  <2> QED BY <1>0, <2>1, <2>2, <2>3, SubmitInv
<1>8. ASSUME NEW h \in Host, NodeUngroup(h) PROVE Kept
  <2>1. PICK g \in doc.live :
          Submit(h, [type |-> "node.ungroup", group |-> g, restore |-> {},
                     index |-> [n \in Node |-> 0]])
    BY <1>8 DEF NodeUngroup
  <2>2. [type |-> "node.ungroup", group |-> g, restore |-> {}, index |-> [n \in Node |-> 0]] \in Pending
    BY <1>0 DEF Pending, Command, UngroupCommand, SparesRoots
  <2> QED BY <1>0, <1>8, <2>1, <2>2, SubmitInv DEF NodeUngroup
<1>9. ASSUME NEW h \in Host, Undo(h) PROVE Kept
  <2>1. undo[h] \in Seq(Pending) /\ redo[h] \in Seq(Pending)
    BY DEF RootsInv
  <2> QED BY <1>0, <1>9, <2>1, ReplayInv DEF Undo, RootsInv
<1>10. ASSUME NEW h \in Host, Redo(h) PROVE Kept
  <2>1. undo[h] \in Seq(Pending) /\ redo[h] \in Seq(Pending)
    BY DEF RootsInv
  <2> QED BY <1>0, <1>10, <2>1, ReplayInv DEF Redo, RootsInv
<1>11. ASSUME UNCHANGED vars PROVE Kept
  BY <1>0, <1>11 DEF vars, TypeOK, RootsInv
<1>12. Kept
  <2> HIDE DEF Kept
  <2> QED BY <1>1, <1>2, <1>3, <1>4, <1>5, <1>6, <1>7, <1>8, <1>9, <1>10, <1>11 DEF Next
<1> QED BY <1>0, <1>12, PendingTypes DEF TypeOK, RootsInv

-----------------------------------------------------------------------------
(* Whatever the hosts submit, undo and redo, the document stays a document  *)
(* and every stack entry a command the runtime can dispatch.                *)
THEOREM TypeCorrect == Spec => []TypeOK
<1>1. Init => TypeOK /\ RootsInv
  BY InitInv
<1>2. TypeOK /\ RootsInv /\ [Next]_vars => (TypeOK /\ RootsInv)'
  BY StepInv
<1> QED BY <1>1, <1>2, PTL DEF Spec

(* No interleaving of hosts, commands, undos and redos removes a page root  *)
(* or puts it under another node.                                           *)
THEOREM RootsAreSafe == Spec => []RootsStay
<1>1. Init => TypeOK /\ RootsInv
  BY InitInv
<1>2. TypeOK /\ RootsInv /\ [Next]_vars => (TypeOK /\ RootsInv)'
  BY StepInv
<1>3. TypeOK /\ RootsInv => RootsStay
  BY DEF RootsInv, RootsStay
<1> QED BY <1>1, <1>2, <1>3, PTL DEF Spec

-----------------------------------------------------------------------------
(* Who holds a node: the document, or one stack entry; and what that means   *)
(* for locked nodes.                                                         *)

(* The places of all stacks, used or not. *)
Slots == Host \X {"undo", "redo"} \X (Nat \ {0})

(* The ids the entry at a place would bring, none when it is unused. *)
Held(u, r, e) ==
    LET stack == IF e[2] = "undo" THEN u[e[1]] ELSE r[e[1]]
    IN  IF e[3] <= Len(stack) THEN Brings(stack[e[3]]) ELSE {}

(* A pending creation creates the node it names. *)
Sound(c) == c.type = "node.create" => c.node \in c.sub.live

Entry == {c \in Command : Sound(c)}

(* Every id ever used has one holder at most, the document or one entry. *)
OwnerInv ==
    /\ undo \in [Host -> Seq(Entry)] /\ redo \in [Host -> Seq(Entry)]
    /\ doc.live \subseteq minted
    /\ \A e \in Slots : Held(undo, redo, e) \subseteq minted \ doc.live
    /\ \A e, f \in Slots : e # f => Held(undo, redo, e) \cap Held(undo, redo, f) = {}

-----------------------------------------------------------------------------
(* What a command takes out of the document it hands to its inverse, and it *)
(* puts in what it carried.                                                 *)
LEMMA Handover ==
    ASSUME NEW d \in Document, NEW c \in Entry, NEW e, Accepts(e, d, c)
    PROVE  /\ After(d, c).live \cup Brings(InverseOf(d, c)) \subseteq d.live \cup Brings(c)
           /\ After(d, c).live \cap Brings(InverseOf(d, c)) = {}
           /\ InverseOf(d, c) \in Entry
<1>0. c \in Command /\ InverseOf(d, c) \in Command
  BY StepType DEF Entry
<1>1. CASE c \in CreateCommand
  <2>1. c.type = "node.create"
    BY <1>1 DEF CreateCommand
  <2>2. After(d, c) = Created(d, c) /\ InverseOf(d, c) = CreateInverse(d, c)
    BY <2>1 DEF After, InverseOf
  <2>3. /\ After(d, c).live = d.live \cup c.sub.live
        /\ InverseOf(d, c).type = "node.delete"
    BY <2>2 DEF Created, CreateInverse
  <2> QED BY <1>0, <2>1, <2>3 DEF Brings, Entry, Sound
<1>2. CASE c \in DeleteCommand
  <2>1. c.type = "node.delete"
    BY <1>2 DEF DeleteCommand
  <2>2. After(d, c) = Deleted(d, c) /\ InverseOf(d, c) = DeleteInverse(d, c)
    BY <2>1 DEF After, InverseOf
  <2>3. c.node \in d.live /\ c.node \in Below(d, c.node) /\ Below(d, c.node) \subseteq d.live
    BY <2>1 DEF Accepts, DeleteAccepts, Movable, Below
  <2>4. After(d, c).live = d.live \ Below(d, c.node)
    BY <2>2 DEF Deleted, Only
  <2>5. Subtree(d, c.node).live = Below(d, c.node)
    BY DEF Subtree, Only
  <2>6. /\ InverseOf(d, c).type = "node.create" /\ InverseOf(d, c).node = c.node
        /\ InverseOf(d, c).sub.live = Below(d, c.node)
    BY <2>2, <2>5 DEF DeleteInverse
  <2> QED BY <1>0, <2>3, <2>4, <2>6 DEF Brings, Entry, Sound
<1>3. CASE c \in MoveCommand
  <2>1. c.type = "node.move"
    BY <1>3 DEF MoveCommand
  <2>2. After(d, c).live = d.live /\ InverseOf(d, c).type = "node.move"
    BY <2>1 DEF After, InverseOf, Moved, MoveInverse, Document
  <2> QED BY <1>0, <2>2 DEF Brings, Entry, Sound
<1>4. CASE c \in UpdateCommand
  <2>1. c.type = "node.update"
    BY <1>4 DEF UpdateCommand
  <2>2. After(d, c).live = d.live /\ InverseOf(d, c).type = "node.update"
    BY <2>1 DEF After, InverseOf, Updated, UpdateInverse, Document
  <2> QED BY <1>0, <2>2 DEF Brings, Entry, Sound
<1>5. CASE c \in ReorderCommand
  <2>1. c.type = "node.reorder"
    BY <1>5 DEF ReorderCommand
  <2>2. After(d, c).live = d.live /\ InverseOf(d, c).type = "node.reorder"
    BY <2>1 DEF After, InverseOf, Reordered, ReorderInverse, Document
  <2> QED BY <1>0, <2>2 DEF Brings, Entry, Sound
<1>6. CASE c \in ReparentCommand
  <2>1. c.type = "node.reparent"
    BY <1>6 DEF ReparentCommand
  <2>2. After(d, c).live = d.live /\ InverseOf(d, c).type = "node.reparent"
    BY <2>1 DEF After, InverseOf, Reparented, ReparentInverse, Document
  <2> QED BY <1>0, <2>2 DEF Brings, Entry, Sound
<1>7. CASE c \in GroupCommand
  <2>1. c.type = "node.group"
    BY <1>7 DEF GroupCommand
  <2>2. After(d, c).live = d.live \cup {c.group} /\ InverseOf(d, c).type = "node.ungroup"
    BY <2>1 DEF After, InverseOf, Grouped, GroupInverse
  <2> QED BY <1>0, <2>1, <2>2 DEF Brings, Entry, Sound
<1>8. CASE c \in UngroupCommand
  <2>1. c.type = "node.ungroup"
    BY <1>8 DEF UngroupCommand
  <2>2. c.group \in d.live
    BY <2>1 DEF Accepts, UngroupAccepts
  <2>3. After(d, c) = Ungrouped(d, c) /\ InverseOf(d, c) = UngroupInverse(d, c)
    BY <2>1 DEF After, InverseOf
  <2>4. After(d, c).live \subseteq d.live \ {c.group}
    BY <2>3 DEF Ungrouped, Only
  <2>5. InverseOf(d, c).type = "node.group" /\ InverseOf(d, c).group = c.group
    BY <2>3 DEF UngroupInverse
  <2> QED BY <1>0, <2>2, <2>4, <2>5 DEF Brings, Entry, Sound
<1> QED BY <1>0, <1>1, <1>2, <1>3, <1>4, <1>5, <1>6, <1>7, <1>8 DEF Command

-----------------------------------------------------------------------------
(* Pushing on one stack of a host and popping or clearing the other.        *)

(* The place whose content the step moves to place e; the place <<h, t, 1>> *)
(* is the one that the inverse takes.                                       *)
From(h, t) ==
    [e \in Slots |-> IF e[1] # h THEN e
                     ELSE IF e[2] = t THEN <<h, t, IF e[3] = 1 THEN 1 ELSE e[3] - 1>>
                     ELSE <<h, e[2], e[3] + 1>>]

(* A place is a host, a side and an index. *)
LEMMA SlotParts ==
    ASSUME NEW e \in Slots
    PROVE  /\ e = <<e[1], e[2], e[3]>>
           /\ e[1] \in Host /\ e[2] \in {"undo", "redo"} /\ e[3] \in Nat \ {0}
BY DEF Slots

(* No two places but the pushed one are handed the content of the same      *)
(* place.                                                                   *)
LEMMA FromInjective ==
    ASSUME NEW h \in Host, NEW t \in {"undo", "redo"}
    PROVE  /\ From(h, t) \in [Slots -> Slots]
           /\ \A e, f \in Slots \ {<<h, t, 1>>} : e # f => From(h, t)[e] # From(h, t)[f]
<1>1. ASSUME NEW e \in Slots PROVE From(h, t)[e] \in Slots
  BY <1>1, SlotParts DEF From, Slots
<1>2. ASSUME NEW e \in Slots \ {<<h, t, 1>>}, NEW f \in Slots \ {<<h, t, 1>>},
             From(h, t)[e] = From(h, t)[f]
      PROVE  e = f
  <2>1. /\ e = <<e[1], e[2], e[3]>> /\ f = <<f[1], f[2], f[3]>>
        /\ e[3] \in Nat \ {0} /\ f[3] \in Nat \ {0}
    BY SlotParts
  <2>2. /\ e[1] = h /\ e[2] = t => e[3] # 1
        /\ f[1] = h /\ f[2] = t => f[3] # 1
    BY <2>1
  <2>3. e[1] = f[1] /\ e[2] = f[2] /\ e[3] = f[3]
    BY <1>2, <2>1, <2>2 DEF From
  <2> QED BY <2>1, <2>3
<1> QED BY <1>1, <1>2 DEF From

(* Holdings A of places become holdings B: each place but q is handed that  *)
(* of a place of its own, and q and the document share what the document    *)
(* and the applied command had.  L and M are the live and the minted ids.   *)
LEMMA HoldersStayApart ==
    ASSUME NEW A, NEW B, NEW L, NEW L2, NEW M, NEW M2, NEW X, NEW q \in Slots,
           NEW p \in [Slots -> Slots],
           L \subseteq M, M \subseteq M2, X \subseteq M2,
           \A e \in Slots : A[e] \subseteq M \ L,
           \A e, f \in Slots : e # f => A[e] \cap A[f] = {},
           \A e, f \in Slots \ {q} : e # f => p[e] # p[f],
           \A e \in Slots \ {q} : B[e] \subseteq A[p[e]] \ X,
           L2 \cup B[q] \subseteq L \cup X,
           L2 \cap B[q] = {}
    PROVE  /\ L2 \subseteq M2
           /\ \A e \in Slots : B[e] \subseteq M2 \ L2
           /\ \A e, f \in Slots : e # f => B[e] \cap B[f] = {}
<1>1. \A e \in Slots \ {q} : B[e] \subseteq A[p[e]] /\ B[e] \cap (L \cup X) = {} /\ B[e] \subseteq M2
  OBVIOUS
<1>2. \A e \in Slots \ {q} : B[e] \cap L2 = {} /\ B[e] \cap B[q] = {}
  BY <1>1
<1>3. \A e, f \in Slots \ {q} : e # f => B[e] \cap B[f] = {}
  BY <1>1
<1> QED BY <1>1, <1>2, <1>3

(* What a push and a pop do to the places of a stack. *)
LEMMA StackShift ==
    ASSUME NEW T, NEW i \in T, NEW s \in Seq(T)
    PROVE  /\ <<i>> \o s \in Seq(T) /\ Len(s) \in Nat
           /\ Len(<<i>> \o s) = Len(s) + 1
           /\ (<<i>> \o s)[1] = i
           /\ \A k \in 2 .. Len(s) + 1 : (<<i>> \o s)[k] = s[k - 1]
           /\ s # <<>> => /\ Head(s) = s[1] /\ s[1] \in T /\ Len(s) >= 1
                          /\ Tail(s) \in Seq(T) /\ Len(Tail(s)) = Len(s) - 1
                          /\ \A k \in 1 .. Len(s) - 1 : Tail(s)[k] = s[k + 1]
<1>1. <<i>> \in Seq(T) /\ Len(<<i>>) = 1 /\ <<i>>[1] = i
  OBVIOUS
<1>2. /\ <<i>> \o s \in Seq(T) /\ Len(s) \in Nat
      /\ Len(<<i>> \o s) = Len(s) + 1
      /\ \A k \in 1 .. Len(s) + 1 : (<<i>> \o s)[k] = IF k <= 1 THEN <<i>>[k] ELSE s[k - 1]
  BY <1>1, ConcatProperties, LenProperties
<1>3. s # <<>> => /\ Head(s) = s[1] /\ s[1] \in T /\ Len(s) >= 1
                  /\ Tail(s) \in Seq(T) /\ Len(Tail(s)) = Len(s) - 1
                  /\ \A k \in 1 .. Len(s) - 1 : Tail(s)[k] = s[k + 1]
  BY HeadTailProperties, EmptySeq
<1> QED BY <1>1, <1>2, <1>3

-----------------------------------------------------------------------------
(* The steps of the machine. *)

(* A host submits a command that brings in fresh ids only. *)
LEMMA SubmitOwner ==
    ASSUME TypeOK, OwnerInv, NEW h \in Host, NEW c \in Entry, Submit(h, c),
           Brings(c) \cap minted = {}, minted' = minted \cup Brings(c)
    PROVE  OwnerInv'
<1> DEFINE q == <<h, "undo", 1>>
           i == InverseOf(doc, c)
           A == [e \in Slots |-> Held(undo, redo, e)]
           B == [e \in Slots |-> Held(undo', redo', e)]
<1>1. /\ doc'.live \cup Brings(i) \subseteq doc.live \cup Brings(c)
      /\ doc'.live \cap Brings(i) = {} /\ i \in Entry
  BY Handover DEF Submit, TypeOK
<1>2. undo[h] \in Seq(Entry) /\ <<>> \in Seq(Entry)
  BY EmptySeq DEF OwnerInv
<1>3. undo' = [undo EXCEPT ![h] = <<i>> \o undo[h]] /\ redo' = [redo EXCEPT ![h] = <<>>]
  BY DEF Submit
<1> HIDE DEF i
<1>4. /\ <<i>> \o undo[h] \in Seq(Entry) /\ Len(undo[h]) \in Nat
      /\ Len(<<i>> \o undo[h]) = Len(undo[h]) + 1 /\ (<<i>> \o undo[h])[1] = i
      /\ \A k \in 2 .. Len(undo[h]) + 1 : (<<i>> \o undo[h])[k] = undo[h][k - 1]
  BY <1>1, <1>2, StackShift
<1>5. undo' \in [Host -> Seq(Entry)] /\ redo' \in [Host -> Seq(Entry)]
  BY <1>2, <1>3, <1>4 DEF OwnerInv
<1>6. /\ undo'[h] = <<i>> \o undo[h] /\ redo'[h] = <<>>
      /\ \A g \in Host \ {h} : undo'[g] = undo[g] /\ redo'[g] = redo[g]
  BY <1>3 DEF OwnerInv
<1>7. q \in Slots /\ B[q] = Brings(i)
  BY <1>4, <1>6 DEF Slots, Held
<1>8. ASSUME NEW e \in Slots \ {q} PROVE B[e] \subseteq A[From(h, "undo")[e]]
  <2>0. e = <<e[1], e[2], e[3]>> /\ e[1] \in Host /\ e[2] \in {"undo", "redo"} /\ e[3] \in Nat \ {0}
    BY SlotParts
  <2>1. CASE e[1] # h
    <3>1. From(h, "undo")[e] = e
      BY <2>1 DEF From
    <3>2. Held(undo', redo', e) = Held(undo, redo, e)
      BY <1>6, <2>0, <2>1 DEF Held
    <3> QED BY <3>1, <3>2
  <2>2. CASE e[1] = h /\ e[2] = "undo"
    <3>1. e[3] # 1 /\ e[3] - 1 \in Nat \ {0}
      BY <2>0, <2>2
    <3>2. From(h, "undo")[e] = <<h, "undo", e[3] - 1>> /\ <<h, "undo", e[3] - 1>> \in Slots
      BY <2>2, <3>1 DEF From, Slots
    <3>3. Held(undo', redo', e) = Held(undo, redo, <<h, "undo", e[3] - 1>>)
      BY SMTT(30), <1>4, <1>6, <2>0, <2>2, <3>1 DEF Held
    <3> QED BY <3>2, <3>3
  <2>3. CASE e[1] = h /\ e[2] = "redo"
    BY <1>6, <2>0, <2>3 DEF Held
  <2> QED BY <2>0, <2>1, <2>2, <2>3
<1>9. /\ \A e \in Slots : A[e] \subseteq minted \ doc.live
      /\ \A e, f \in Slots : e # f => A[e] \cap A[f] = {}
      /\ doc.live \subseteq minted
  BY DEF OwnerInv
<1>10. \A e \in Slots \ {q} : B[e] \subseteq A[From(h, "undo")[e]] \ Brings(c)
  BY <1>8, <1>9, FromInjective
<1>11. /\ doc'.live \subseteq minted'
       /\ \A e \in Slots : B[e] \subseteq minted' \ doc'.live
       /\ \A e, f \in Slots : e # f => B[e] \cap B[f] = {}
  <2> HIDE DEF A, B, q
  <2>1. /\ From(h, "undo") \in [Slots -> Slots]
        /\ \A e, f \in Slots \ {q} : e # f => From(h, "undo")[e] # From(h, "undo")[f]
    BY FromInjective DEF q
  <2> QED BY <1>1, <1>7, <1>9, <1>10, <2>1, HoldersStayApart
<1> QED BY <1>5, <1>11 DEF OwnerInv

(* The stacks of side t. *)
Side(u, r, t) == IF t = "undo" THEN u ELSE r

(* A host replays the newest entry of side o, whose inverse goes to side t: *)
(* Undo and Redo in one form.                                               *)
Replay(h, o, t) ==
    LET s == Side(undo, redo, o)[h]
        z == Side(undo, redo, t)[h]
    IN  /\ s # <<>>
        /\ Accepts(EnforceOnReplay, doc, Head(s))
        /\ doc' = After(doc, Head(s))
        /\ Side(undo', redo', o) = [Side(undo, redo, o) EXCEPT ![h] = Tail(s)]
        /\ Side(undo', redo', t) =
             [Side(undo, redo, t) EXCEPT ![h] = <<InverseOf(doc, Head(s))>> \o z]
        /\ minted' = minted

(* The entry that is replayed brings no node the document has. *)
LEMMA ReplayBrings ==
    ASSUME OwnerInv, NEW h \in Host, NEW o \in {"undo", "redo"}, NEW t, Replay(h, o, t)
    PROVE  /\ Head(Side(undo, redo, o)[h]) \in Entry
           /\ Brings(Head(Side(undo, redo, o)[h])) \cap doc.live = {}
<1> DEFINE s == Side(undo, redo, o)[h]
<1>1. s \in Seq(Entry) /\ s # <<>>
  BY DEF OwnerInv, Side, Replay
<1>2. Head(s) \in Entry /\ Head(s) = s[1] /\ Len(s) >= 1
  <2> HIDE DEF s
  <2> QED BY <1>1, HeadTailProperties, EmptySeq
<1>3. <<h, o, 1>> \in Slots /\ Held(undo, redo, <<h, o, 1>>) = Brings(Head(s))
  BY <1>2 DEF Slots, Held, Side
<1> QED BY <1>2, <1>3 DEF OwnerInv

(* A replay passes what the entry held to the document and to the inverse.  *)
LEMMA ReplayOwner ==
    ASSUME TypeOK, OwnerInv, NEW h \in Host,
           NEW o \in {"undo", "redo"}, NEW t \in {"undo", "redo"} \ {o},
           Replay(h, o, t)
    PROVE  OwnerInv'
<1> DEFINE s == Side(undo, redo, o)[h]
           z == Side(undo, redo, t)[h]
           q == <<h, t, 1>>
           top == <<h, o, 1>>
           i == InverseOf(doc, Head(s))
           A == [e \in Slots |-> Held(undo, redo, e)]
           B == [e \in Slots |-> Held(undo', redo', e)]
<1>1. s \in Seq(Entry) /\ z \in Seq(Entry)
  BY DEF OwnerInv, Side
<1>2. Head(s) \in Entry
  BY <1>1, HeadTailProperties DEF Replay
<1>3. /\ doc'.live \cup Brings(i) \subseteq doc.live \cup Brings(Head(s))
      /\ doc'.live \cap Brings(i) = {} /\ i \in Entry
  BY <1>2, Handover DEF TypeOK, Replay
<1>4. /\ Side(undo', redo', o) = [Side(undo, redo, o) EXCEPT ![h] = Tail(s)]
      /\ Side(undo', redo', t) = [Side(undo, redo, t) EXCEPT ![h] = <<i>> \o z]
      /\ s # <<>> /\ minted' = minted
      /\ s = Side(undo, redo, o)[h] /\ z = Side(undo, redo, t)[h] /\ o # t
  BY DEF Replay
<1> HIDE DEF i, s, z
<1>5. /\ <<i>> \o z \in Seq(Entry) /\ Len(z) \in Nat
      /\ Len(<<i>> \o z) = Len(z) + 1 /\ (<<i>> \o z)[1] = i
      /\ \A k \in 2 .. Len(z) + 1 : (<<i>> \o z)[k] = z[k - 1]
  BY <1>1, <1>3, StackShift
<1>6. /\ Head(s) = s[1] /\ Len(s) \in Nat /\ Len(s) >= 1
      /\ Tail(s) \in Seq(Entry) /\ Len(Tail(s)) = Len(s) - 1
      /\ \A k \in 1 .. Len(s) - 1 : Tail(s)[k] = s[k + 1]
  BY <1>1, <1>3, <1>4, StackShift
<1>7. /\ Side(undo, redo, o) \in [Host -> Seq(Entry)]
      /\ Side(undo, redo, t) \in [Host -> Seq(Entry)]
  BY DEF OwnerInv, Side
<1>8. /\ Side(undo', redo', o) \in [Host -> Seq(Entry)]
      /\ Side(undo', redo', t) \in [Host -> Seq(Entry)]
  BY <1>4, <1>5, <1>6, <1>7
<1>9. undo' \in [Host -> Seq(Entry)] /\ redo' \in [Host -> Seq(Entry)]
  <2>1. CASE o = "undo" /\ t = "redo"
    BY <1>8, <2>1 DEF Side
  <2>2. CASE o = "redo" /\ t = "undo"
    BY <1>8, <2>2 DEF Side
  <2> QED BY <2>1, <2>2
<1>10. /\ Side(undo', redo', o)[h] = Tail(s) /\ Side(undo', redo', t)[h] = <<i>> \o z
       /\ Side(undo, redo, o)[h] = s /\ Side(undo, redo, t)[h] = z /\ o # t
       /\ \A g \in Host \ {h} : /\ Side(undo', redo', o)[g] = Side(undo, redo, o)[g]
                              /\ Side(undo', redo', t)[g] = Side(undo, redo, t)[g]
  BY <1>4, <1>7
<1>11. \A g \in Host \ {h} : undo'[g] = undo[g] /\ redo'[g] = redo[g]
  <2>1. CASE o = "undo" /\ t = "redo"
    BY <1>10, <2>1 DEF Side
  <2>2. CASE o = "redo" /\ t = "undo"
    BY <1>10, <2>2 DEF Side
  <2> QED BY <2>1, <2>2
<1>12. q \in Slots /\ B[q] = Brings(i) /\ top \in Slots /\ A[top] = Brings(Head(s))
  BY <1>5, <1>6, <1>10 DEF Slots, Held, Side
<1>13. ASSUME NEW e \in Slots \ {q}
       PROVE  From(h, t)[e] # top /\ B[e] \subseteq A[From(h, t)[e]]
  <2>0. e = <<e[1], e[2], e[3]>> /\ e[1] \in Host /\ e[2] \in {"undo", "redo"} /\ e[3] \in Nat \ {0}
    BY SlotParts
  <2>1. CASE e[1] # h
    <3>1. From(h, t)[e] = e
      BY <2>1 DEF From
    <3>2. Held(undo', redo', e) = Held(undo, redo, e)
      BY <1>11, <2>0, <2>1 DEF Held
    <3> QED BY <2>1, <3>1, <3>2
  <2>2. CASE e[1] = h /\ e[2] = t
    <3>1. e[3] # 1 /\ e[3] - 1 \in Nat \ {0}
      BY <2>0, <2>2
    <3>2. From(h, t)[e] = <<h, t, e[3] - 1>> /\ <<h, t, e[3] - 1>> \in Slots
      BY <2>2, <3>1 DEF From, Slots
    <3>3. Held(undo', redo', e) = Held(undo, redo, <<h, t, e[3] - 1>>)
      BY <1>5, <1>10, <2>0, <2>2, <3>1 DEF Held, Side
    <3> QED BY <3>2, <3>3
  <2>3. CASE e[1] = h /\ e[2] = o
    <3>1. From(h, t)[e] = <<h, o, e[3] + 1>> /\ <<h, o, e[3] + 1>> \in Slots
      BY <2>0, <2>3 DEF From, Slots
    <3>2. /\ Held(undo', redo', e) = IF e[3] <= Len(Tail(s)) THEN Brings(Tail(s)[e[3]]) ELSE {}
          /\ Held(undo, redo, <<h, o, e[3] + 1>>)
               = IF e[3] + 1 <= Len(s) THEN Brings(s[e[3] + 1]) ELSE {}
      BY <1>10, <2>3 DEF Held, Side
    <3>3. Held(undo', redo', e) = Held(undo, redo, <<h, o, e[3] + 1>>)
      BY <1>6, <2>0, <3>2
    <3> QED BY <2>0, <3>1, <3>3
  <2> QED BY <2>0, <2>1, <2>2, <2>3
<1>14. /\ \A e \in Slots : A[e] \subseteq minted \ doc.live
       /\ \A e, f \in Slots : e # f => A[e] \cap A[f] = {}
       /\ doc.live \subseteq minted
  BY DEF OwnerInv
<1>15. /\ doc'.live \subseteq minted
       /\ \A e \in Slots : B[e] \subseteq minted \ doc'.live
       /\ \A e, f \in Slots : e # f => B[e] \cap B[f] = {}
  <2> HIDE DEF A, B, q, top
  <2>1. /\ From(h, t) \in [Slots -> Slots]
        /\ \A e, f \in Slots \ {q} : e # f => From(h, t)[e] # From(h, t)[f]
    BY FromInjective DEF q
  <2>2. \A e \in Slots \ {q} : B[e] \subseteq A[From(h, t)[e]] \ A[top]
    BY <1>12, <1>13, <1>14, <2>1
  <2>3. /\ doc'.live \cup B[q] \subseteq doc.live \cup A[top] /\ A[top] \subseteq minted
        /\ doc'.live \cap B[q] = {}
    BY <1>3, <1>12, <1>14
  <2> QED BY <1>12, <1>14, <2>1, <2>2, <2>3, HoldersStayApart
<1> QED BY <1>4, <1>9, <1>15 DEF OwnerInv

(* At first no stack holds anything. *)
LEMMA InitOwner == Init => OwnerInv
<1> SUFFICES ASSUME Init PROVE OwnerInv
  OBVIOUS
<1>1. undo \in [Host -> Seq(Entry)] /\ redo \in [Host -> Seq(Entry)] /\ doc.live = minted
  BY EmptySeq DEF Init
<1>2. ASSUME NEW e \in Slots PROVE Held(undo, redo, e) = {}
  <2>1. e[1] \in Host /\ e[3] \in Nat \ {0}
    BY SlotParts
  <2>2. undo[e[1]] = <<>> /\ redo[e[1]] = <<>>
    BY <2>1 DEF Init
  <2> QED BY <2>1, <2>2 DEF Held
<1> QED BY <1>1, <1>2 DEF OwnerInv

(* What hosts submit: a node alone or a container with one child, a group   *)
(* of a group's kind, an ungrouping without a restore plan.                 *)
AsOffered(c) ==
    /\ c.type = "node.create" =>
         \E n, m \in Node : /\ m = n \/ n \in Containers
                            /\ c.node = n /\ c.sub = Payload(n, m)
    /\ c.type = "node.group" => c.group \in Groups
    /\ c.type = "node.ungroup" => c.restore = {}

(* A step submits a command that brings fresh ids only, or replays one.     *)
SubmitsFresh(h) ==
    \E c \in Entry : /\ Submit(h, c) /\ AsOffered(c)
                     /\ Brings(c) \cap minted = {}
                     /\ minted' = minted \cup Brings(c)

Applies(h) == SubmitsFresh(h) \/ Replay(h, "undo", "redo") \/ Replay(h, "redo", "undo")

(* Every step of the machine is one or the other. *)
LEMMA StepApplies == TypeOK /\ Next => \E h \in Host : Applies(h)
<1> SUFFICES ASSUME TypeOK, Next PROVE \E h \in Host : Applies(h)
  OBVIOUS
<1>0. doc \in Document /\ minted \subseteq Node /\ doc.live \subseteq Node
  BY DEF TypeOK, Document
<1>quiet. ASSUME NEW h \in Host, NEW c \in Command, Submit(h, c), UNCHANGED minted,
             c.type \notin {"node.create", "node.group"}, AsOffered(c)
      PROVE  Applies(h)
  <2>1. c \in Entry /\ Brings(c) = {}
    BY <1>quiet DEF Entry, Sound, Brings
  <2> QED BY <1>quiet, <2>1 DEF Applies, SubmitsFresh
<1>1. ASSUME NEW h \in Host, NodeCreate(h) PROVE Applies(h)
  <2>0. PICK n \in Node \ minted, m \in Node \ minted, p \in doc.live \cap Containers :
          \E at \in 0 .. Width(doc, p) :
            /\ m = n \/ n \in Containers
            /\ Submit(h, [type |-> "node.create", node |-> n, sub |-> Payload(n, m),
                          parent |-> p, at |-> at])
            /\ minted' = minted \cup {n, m}
    BY <1>1 DEF NodeCreate
  <2>1. PICK at \in 0 .. Width(doc, p) :
          /\ m = n \/ n \in Containers
          /\ Submit(h, [type |-> "node.create", node |-> n, sub |-> Payload(n, m),
                        parent |-> p, at |-> at])
          /\ minted' = minted \cup {n, m}
    BY <2>0
  <2>2. Payload(n, m) \in Document /\ Payload(n, m).live = {n, m}
    BY DEF Payload, Document, LockState
  <2>3. at \in Int /\ p \in Node
    BY <1>0, KidsType
  <2>4. [type |-> "node.create", node |-> n, sub |-> Payload(n, m), parent |-> p, at |-> at]
          \in Entry
    BY <2>2, <2>3 DEF Entry, Sound, Command, CreateCommand
  <2>5. Brings([type |-> "node.create", node |-> n, sub |-> Payload(n, m), parent |-> p, at |-> at])
          = {n, m}
    BY <2>2 DEF Brings
  <2>6. AsOffered([type |-> "node.create", node |-> n, sub |-> Payload(n, m), parent |-> p,
                   at |-> at])
    BY <2>1 DEF AsOffered
  <2> QED BY <2>1, <2>4, <2>5, <2>6 DEF Applies, SubmitsFresh
<1>2. ASSUME NEW h \in Host, NodeDelete(h) PROVE Applies(h)
  <2>1. PICK n \in doc.live : Submit(h, [type |-> "node.delete", node |-> n])
    BY <1>2 DEF NodeDelete
  <2>2. [type |-> "node.delete", node |-> n] \in Command
    BY <1>0 DEF Command, DeleteCommand
  <2> QED BY <1>2, <1>quiet, <2>1, <2>2 DEF NodeDelete, AsOffered
<1>3. ASSUME NEW h \in Host, NodeMove(h) PROVE Applies(h)
  <2>1. PICK n \in doc.live, to \in Positions :
          Submit(h, [type |-> "node.move", node |-> n, to |-> to])
    BY <1>3 DEF NodeMove
  <2>2. [type |-> "node.move", node |-> n, to |-> to] \in Command
    BY <1>0, HistoryAssumption DEF Command, MoveCommand
  <2> QED BY <1>3, <1>quiet, <2>1, <2>2 DEF NodeMove, AsOffered
<1>4. ASSUME NEW h \in Host, NodeUpdate(h) PROVE Applies(h)
  <2>1. PICK n \in doc.live, keys \in (SUBSET {"locked", "transform"}) \ {{}},
             lock \in {"false", "true"}, to \in Positions :
          Submit(h, [type |-> "node.update", node |-> n, keys |-> keys, lock |-> lock, to |-> to])
    BY <1>4 DEF NodeUpdate
  <2>2. [type |-> "node.update", node |-> n, keys |-> keys, lock |-> lock, to |-> to] \in Command
    BY <1>0, HistoryAssumption DEF Command, UpdateCommand, LockState
  <2> QED BY <1>4, <1>quiet, <2>1, <2>2 DEF NodeUpdate, AsOffered
<1>5. ASSUME NEW h \in Host, NodeReorder(h) PROVE Applies(h)
  <2>1. PICK n \in doc.live, at \in 0 .. Cardinality(Node) :
          Submit(h, [type |-> "node.reorder", node |-> n, at |-> at])
    BY <1>5 DEF NodeReorder
  <2>2. at \in Int
    BY NodeCount
  <2>3. [type |-> "node.reorder", node |-> n, at |-> at] \in Command
    BY <1>0, <2>2 DEF Command, ReorderCommand
  <2> QED BY <1>5, <1>quiet, <2>1, <2>3 DEF NodeReorder, AsOffered
<1>6. ASSUME NEW h \in Host, NodeReparent(h) PROVE Applies(h)
  <2>0. PICK n \in doc.live, p \in doc.live :
          \E at \in 0 .. Width(doc, p) + 1 :
            Submit(h, [type |-> "node.reparent", node |-> n, parent |-> p, at |-> at])
    BY <1>6 DEF NodeReparent
  <2>1. PICK at \in 0 .. Width(doc, p) + 1 :
          Submit(h, [type |-> "node.reparent", node |-> n, parent |-> p, at |-> at])
    BY <2>0
  <2>2. at \in Int
    BY <1>0, KidsType
  <2>3. [type |-> "node.reparent", node |-> n, parent |-> p, at |-> at] \in Command
    BY <1>0, <2>2 DEF Command, ReparentCommand
  <2> QED BY <1>6, <1>quiet, <2>1, <2>3 DEF NodeReparent, AsOffered
<1>7. ASSUME NEW h \in Host, NodeGroup(h) PROVE Applies(h)
  <2>1. PICK g \in Groups \ minted, kids \in SUBSET doc.live :
          /\ Submit(h, [type |-> "node.group", group |-> g, kids |-> kids,
                        shift |-> 0, lock |-> "absent"])
          /\ minted' = minted \cup {g}
    BY <1>7 DEF NodeGroup
  <2>2. g \in Node
    BY DEF Node, Containers
  <2>3. [type |-> "node.group", group |-> g, kids |-> kids, shift |-> 0, lock |-> "absent"] \in Entry
    BY <1>0, <2>2 DEF Entry, Sound, Command, GroupCommand, LockState
  <2>4. Brings([type |-> "node.group", group |-> g, kids |-> kids, shift |-> 0, lock |-> "absent"])
          = {g}
    BY DEF Brings
  <2> QED BY <2>1, <2>3, <2>4 DEF Applies, SubmitsFresh, AsOffered
<1>8. ASSUME NEW h \in Host, NodeUngroup(h) PROVE Applies(h)
  <2>1. PICK g \in doc.live :
          Submit(h, [type |-> "node.ungroup", group |-> g, restore |-> {},
                     index |-> [n \in Node |-> 0]])
    BY <1>8 DEF NodeUngroup
  <2>2. [type |-> "node.ungroup", group |-> g, restore |-> {}, index |-> [n \in Node |-> 0]] \in Command
    BY <1>0 DEF Command, UngroupCommand
  <2> QED BY <1>8, <1>quiet, <2>1, <2>2 DEF NodeUngroup, AsOffered
<1>9. ASSUME NEW h \in Host, Undo(h) PROVE Applies(h)
  <2>1. /\ Side(undo, redo, "undo") = undo /\ Side(undo, redo, "redo") = redo
        /\ Side(undo', redo', "undo") = undo' /\ Side(undo', redo', "redo") = redo'
    BY DEF Side
  <2>2. Replay(h, "undo", "redo")
    BY <1>9, <2>1 DEF Undo, Replay
  <2> QED BY <2>2 DEF Applies
<1>10. ASSUME NEW h \in Host, Redo(h) PROVE Applies(h)
  <2>1. /\ Side(undo, redo, "undo") = undo /\ Side(undo, redo, "redo") = redo
        /\ Side(undo', redo', "undo") = undo' /\ Side(undo', redo', "redo") = redo'
    BY DEF Side
  <2>2. Replay(h, "redo", "undo")
    BY <1>10, <2>1 DEF Redo, Replay
  <2> QED BY <2>2 DEF Applies
<1> QED BY <1>1, <1>2, <1>3, <1>4, <1>5, <1>6, <1>7, <1>8, <1>9, <1>10 DEF Next

(* No step gives an id a second holder. *)
LEMMA StepOwner == TypeOK /\ OwnerInv /\ [Next]_vars => OwnerInv'
<1> SUFFICES ASSUME TypeOK, OwnerInv, [Next]_vars PROVE OwnerInv'
  OBVIOUS
<1>1. ASSUME NEW h \in Host, SubmitsFresh(h) PROVE OwnerInv'
  BY <1>1, SubmitOwner DEF SubmitsFresh
<1>2. ASSUME NEW h \in Host, Replay(h, "undo", "redo") \/ Replay(h, "redo", "undo") PROVE OwnerInv'
  BY <1>2, ReplayOwner
<1>3. CASE UNCHANGED vars
  BY ZenonT(40), <1>3 DEF vars, OwnerInv, Held
<1> QED BY <1>1, <1>2, <1>3, StepApplies DEF Applies

-----------------------------------------------------------------------------
(* Whatever the hosts do, an id is in the document or in one stack entry,   *)
(* so no inverse of node.delete, of node.ungroup or of node.create brings a *)
(* second node with an id the document has.                                 *)
THEOREM OneOwnerHolds == Spec => []OneOwner
<1>1. Init => TypeOK /\ RootsInv /\ OwnerInv
  BY InitInv, InitOwner
<1>2. TypeOK /\ RootsInv /\ OwnerInv /\ [Next]_vars => (TypeOK /\ RootsInv /\ OwnerInv)'
  BY StepInv, StepOwner
<1>3. TypeOK /\ RootsInv /\ OwnerInv => OneOwner
  <2> SUFFICES ASSUME OwnerInv PROVE OneOwner
    OBVIOUS
  <2>1. \A e \in Entries : e \in Slots /\ EntryBrings(e) = Held(undo, redo, e)
    BY HistoryAssumption DEF Entries, Slots, EntryBrings, Held
  <2> QED BY <2>1 DEF OneOwner, OwnerInv
<1> QED BY <1>1, <1>2, <1>3, PTL DEF Spec

-----------------------------------------------------------------------------
(* What a step may do to a locked node n of d: leave it as it is, unlock    *)
(* it, or ungroup its parent.                                               *)
LeftAlone(d, d2, n) ==
    \/ d2.lock[n] = "false"
    \/ d.parent[n] # NoNode /\ d.parent[n] \notin d2.live
    \/ d2.lock[n] = "true" /\ d2.x[n] = d.x[n] /\ d2.parent[n] = d.parent[n]

(* A command that enforceLocked admits, and that brings no node the         *)
(* document has, leaves the locked nodes alone.                             *)
LEMMA LocksHold ==
    ASSUME NEW d \in Document, NEW c \in Entry, Accepts(TRUE, d, c),
           Brings(c) \cap d.live = {},
           NEW n \in d.live, n \in After(d, c).live, d.lock[n] = "true"
    PROVE  LeftAlone(d, After(d, c), n)
<1>0. c \in Command /\ n \in Node /\ d.live \subseteq Node
  BY DEF Entry, Document
<1>1. CASE c \in CreateCommand
  <2>1. c.type = "node.create"
    BY <1>1 DEF CreateCommand
  <2>2. c.node \in c.sub.live /\ c.sub.live \cap d.live = {}
    BY <2>1 DEF Entry, Sound, Brings
  <2>3. After(d, c) = Created(d, c)
    BY <2>1 DEF After
  <2> QED BY <1>0, <2>2, <2>3 DEF Created, LeftAlone
<1>2. CASE c \in DeleteCommand
  <2>1. c.type = "node.delete"
    BY <1>2 DEF DeleteCommand
  <2>2. After(d, c) = Deleted(d, c)
    BY <2>1 DEF After
  <2> QED BY <1>0, <2>2 DEF Deleted, Only, LeftAlone, Document
<1>3. CASE c \in MoveCommand
  <2>1. c.type = "node.move"
    BY <1>3 DEF MoveCommand
  <2>2. n # c.node
    BY <2>1 DEF Accepts, MoveAccepts, LockedOut
  <2>3. After(d, c) = Moved(d, c)
    BY <2>1 DEF After
  <2> QED BY <1>0, <2>2, <2>3 DEF Moved, LeftAlone, Document
<1>4. CASE c \in UpdateCommand
  <2>1. c.type = "node.update" /\ c.node \in Node
    BY <1>4 DEF UpdateCommand
  <2>2. n = c.node => "locked" \in c.keys /\ c.lock = "false"
    BY <2>1 DEF Accepts, UpdateAccepts, LockedOut
  <2>3. After(d, c) = Updated(d, c)
    BY <2>1 DEF After
  <2>4. CASE n = c.node
    BY <1>0, <2>2, <2>3, <2>4 DEF Updated, LeftAlone, Document
  <2>5. CASE n # c.node
    BY <1>0, <2>3, <2>5 DEF Updated, LeftAlone, Document
  <2> QED BY <2>4, <2>5
<1>5. CASE c \in ReorderCommand
  <2>1. c.type = "node.reorder"
    BY <1>5 DEF ReorderCommand
  <2>2. After(d, c) = Reordered(d, c)
    BY <2>1 DEF After
  <2> QED BY <1>0, <2>2 DEF Reordered, LeftAlone, Document
<1>6. CASE c \in ReparentCommand
  <2>1. c.type = "node.reparent"
    BY <1>6 DEF ReparentCommand
  <2>2. n # c.node
    BY <2>1 DEF Accepts, ReparentAccepts, LockedOut
  <2>3. After(d, c) = Reparented(d, c)
    BY <2>1 DEF After
  <2> QED BY <1>0, <2>2, <2>3 DEF Reparented, LeftAlone, Document
<1>7. CASE c \in GroupCommand
  <2>1. c.type = "node.group"
    BY <1>7 DEF GroupCommand
  <2>2. n # c.group /\ n \notin c.kids
    BY <2>1 DEF Accepts, GroupAccepts, LockedOut, Movable
  <2>3. After(d, c) = Grouped(d, c)
    BY <2>1 DEF After
  <2> QED BY <1>0, <2>2, <2>3 DEF Grouped, LeftAlone, Document
<1>8. CASE c \in UngroupCommand
  <2>1. c.type = "node.ungroup"
    BY <1>8 DEF UngroupCommand
  <2>2. c.group \in d.live /\ c.group # NoNode
    BY <1>0, <2>1, NodeAssumption DEF Accepts, UngroupAccepts
  <2>3. After(d, c) = Ungrouped(d, c)
    BY <2>1 DEF After
  <2>4. c.group \notin After(d, c).live
    BY <2>3 DEF Ungrouped, Only
  <2>5. CASE d.parent[n] = c.group
    BY <2>2, <2>4, <2>5 DEF LeftAlone
  <2>6. CASE d.parent[n] # c.group
    <3>1. n \notin Kids(d, c.group)
      BY <2>6 DEF Kids
    <3>2. After(d, c).x[n] = d.x[n]
      BY <1>0, <2>3, <3>1 DEF Ungrouped, Only, Reprojected, Document
    <3>3. After(d, c).parent[n] = d.parent[n] /\ After(d, c).lock[n] = d.lock[n]
      BY <1>0, <2>3, <3>1 DEF Ungrouped, Only, Document
    <3> QED BY <3>2, <3>3 DEF LeftAlone
  <2> QED BY <2>5, <2>6
<1> QED BY <1>0, <1>1, <1>2, <1>3, <1>4, <1>5, <1>6, <1>7, <1>8 DEF Command

(* With options.enforceLocked on every call, no interleaving of commands,   *)
(* undos and redos of any number of hosts changes a locked node but by      *)
(* unlocking it or ungrouping its parent.                                   *)
THEOREM LocksAreHonoured ==
    ASSUME EnforceOnSubmit, EnforceOnReplay
    PROVE  Spec => LockedUntouched
<1>0. EnforceOnSubmit = TRUE /\ EnforceOnReplay = TRUE
  BY HistoryAssumption
<1> DEFINE Alone == \A n \in doc.live \cap doc'.live :
                      doc.lock[n] = "true"
                      => \/ doc'.lock[n] = "false"
                         \/ doc.parent[n] # NoNode /\ doc.parent[n] \notin doc'.live
                         \/ /\ doc'.lock[n] = "true"
                            /\ doc'.x[n] = doc.x[n]
                            /\ doc'.parent[n] = doc.parent[n]
<1>1. Init => TypeOK /\ RootsInv /\ OwnerInv
  BY InitInv, InitOwner
<1>2. TypeOK /\ RootsInv /\ OwnerInv /\ [Next]_vars => (TypeOK /\ RootsInv /\ OwnerInv)'
  BY StepInv, StepOwner
<1>3. TypeOK /\ OwnerInv /\ [Next]_vars => [Alone]_vars
  <2> SUFFICES ASSUME TypeOK, OwnerInv, Next PROVE Alone
    OBVIOUS
  <2>1. PICK h \in Host : Applies(h)
    BY StepApplies
  <2>2. PICK c \in Entry : /\ Accepts(TRUE, doc, c) /\ doc' = After(doc, c)
                           /\ Brings(c) \cap doc.live = {}
    <3>1. CASE SubmitsFresh(h)
      BY <1>0, <3>1 DEF SubmitsFresh, Submit, OwnerInv
    <3>2. ASSUME NEW o \in {"undo", "redo"}, NEW t, Replay(h, o, t)
          PROVE  \E c \in Entry : /\ Accepts(TRUE, doc, c) /\ doc' = After(doc, c)
                                 /\ Brings(c) \cap doc.live = {}
      BY <1>0, <3>2, ReplayBrings DEF Replay
    <3> QED BY <2>1, <3>1, <3>2 DEF Applies
  <2>3. ASSUME NEW n \in doc.live \cap doc'.live, doc.lock[n] = "true"
        PROVE  LeftAlone(doc, doc', n)
    <3>1. doc \in Document /\ n \in doc.live /\ n \in After(doc, c).live
      BY <2>2, <2>3 DEF TypeOK
    <3>2. LeftAlone(doc, After(doc, c), n)
      BY <2>2, <2>3, <3>1, LocksHold
    <3> QED BY <2>2, <3>2
  <2> QED BY <2>3 DEF LeftAlone
<1> QED BY <1>1, <1>2, <1>3, PTL DEF Spec, LockedUntouched

-----------------------------------------------------------------------------
(***************************************************************************)
(* The shape of the trees: every command keeps the children of a container *)
(* an array, and the nodes a forest.                                       *)
(***************************************************************************)

(* The members of K are the elements of an array, f their indices. *)
ArrayOf(f, K) ==
    /\ \A n \in K : f[n] \in 0 .. Cardinality(K) - 1
    /\ \A m, n \in K : f[m] = f[n] => m = n

-----------------------------------------------------------------------------
(* Arrays. *)

(* Indices are those of an array when they are 0, 1, ... without gap: the   *)
(* second form is what TreeShape says, the first what a splice keeps.       *)
LEMMA ArrayImage ==
    ASSUME NEW K, IsFiniteSet(K), NEW f
    PROVE  ArrayOf(f, K) <=> {f[n] : n \in K} = 0 .. Cardinality(K) - 1
<1> DEFINE T == {f[n] : n \in K}
           I == 0 .. Cardinality(K) - 1
           g == [n \in K |-> f[n]]
<1>1. Cardinality(K) \in Nat
  BY FS_CardinalityType
<1>2. IsFiniteSet(I) /\ Cardinality(I) = Cardinality(K)
  BY <1>1, FS_Interval
<1>3. ASSUME ArrayOf(f, K) PROVE T = I
  <2>1. g \in Injection(K, I)
    BY <1>3 DEF ArrayOf, Injection, IsInjective
  <2>2. g \in Surjection(K, I)
    <3> HIDE DEF g, I
    <3> QED BY <1>2, <2>1, FS_Injection
  <2> QED BY <2>2 DEF Surjection
<1>4. ASSUME T = I PROVE ArrayOf(f, K)
  <2>1. g \in Surjection(K, T)
    BY DEF Surjection
  <2>2. Cardinality(K) = Cardinality(T)
    BY <1>2, <1>4
  <2>3. g \in Injection(K, T)
    <3> HIDE DEF g, T
    <3> QED BY <2>1, <2>2, FS_SurjSameCardinalityImpliesInj
  <2> QED BY <1>4, <2>3 DEF ArrayOf, Injection, IsInjective
<1> QED BY <1>3, <1>4

(* What makes an array depends on the indices of its members only.          *)
LEMMA ArrayAgrees ==
    ASSUME NEW K, NEW f, NEW g, ArrayOf(f, K), \A n \in K : g[n] = f[n]
    PROVE  ArrayOf(g, K)
BY DEF ArrayOf

(* splice(at, 0, n). *)
LEMMA ArrayInsert ==
    ASSUME NEW K, IsFiniteSet(K), NEW f, ArrayOf(f, K), NEW n, n \notin K,
           NEW at \in 0 .. Cardinality(K), NEW g, g[n] = at,
           \A m \in K : g[m] = IF f[m] >= at THEN f[m] + 1 ELSE f[m]
    PROVE  ArrayOf(g, K \cup {n})
<1>1. Cardinality(K) \in Nat /\ Cardinality(K \cup {n}) = Cardinality(K) + 1
  BY FS_CardinalityType, FS_AddElement
<1> QED BY <1>1 DEF ArrayOf

(* splice(f[n], 1). *)
LEMMA ArrayRemove ==
    ASSUME NEW K, IsFiniteSet(K), NEW f, ArrayOf(f, K), NEW n \in K, NEW g,
           \A m \in K \ {n} : g[m] = IF f[m] > f[n] THEN f[m] - 1 ELSE f[m]
    PROVE  ArrayOf(g, K \ {n})
<1>1. Cardinality(K) \in Nat /\ Cardinality(K \ {n}) = Cardinality(K) - 1
  BY FS_CardinalityType, FS_RemoveElement
<1>2. \A m \in K : f[m] \in 0 .. Cardinality(K) - 1
  BY DEF ArrayOf
<1>3. ASSUME NEW m \in K \ {n} PROVE g[m] \in 0 .. Cardinality(K) - 2
  BY <1>1, <1>2, <1>3 DEF ArrayOf
<1>4. ASSUME NEW k \in K \ {n}, NEW m \in K \ {n}, g[k] = g[m] PROVE k = m
  BY <1>1, <1>2, <1>4 DEF ArrayOf
<1> QED BY <1>1, <1>3, <1>4 DEF ArrayOf

(* How many members of S lie before n. *)
Rank(f, S, n) == Cardinality({m \in S : f[m] < f[n]})

(* Counting those before makes an array of any set without ties. *)
LEMMA RankArray ==
    ASSUME NEW S, IsFiniteSet(S), NEW f, \A n \in S : f[n] \in Int,
           \A m, n \in S : f[m] = f[n] => m = n
    PROVE  /\ \A n \in S : Rank(f, S, n) \in 0 .. Cardinality(S) - 1
           /\ \A m, n \in S : f[m] < f[n] => Rank(f, S, m) < Rank(f, S, n)
<1>1. ASSUME NEW n \in S
      PROVE  /\ Rank(f, S, n) \in Nat /\ Rank(f, S, n) < Cardinality(S)
  <2> DEFINE B == {m \in S : f[m] < f[n]}
  <2>1. B \in SUBSET S /\ B # S
    OBVIOUS
  <2>2. IsFiniteSet(B) /\ Cardinality(B) <= Cardinality(S) /\ Cardinality(B) # Cardinality(S)
    <3> HIDE DEF B
    <3> QED BY <2>1, FS_Subset
  <2>3. Cardinality(B) \in Nat /\ Cardinality(S) \in Nat
    <3> HIDE DEF B
    <3> QED BY <2>2, FS_CardinalityType
  <2> HIDE DEF B
  <2>4. Cardinality(B) < Cardinality(S)
    BY <2>2, <2>3
  <2> QED BY <2>3, <2>4 DEF Rank, B
<1>2. ASSUME NEW m \in S, NEW n \in S, f[m] < f[n] PROVE Rank(f, S, m) < Rank(f, S, n)
  <2> DEFINE A == {k \in S : f[k] < f[m]}
             B == {k \in S : f[k] < f[n]}
  <2>1. A \in SUBSET B /\ A # B
    BY <1>2
  <2>2. B \in SUBSET S
    OBVIOUS
  <2> HIDE DEF A, B
  <2>3. IsFiniteSet(B)
    BY <2>2, FS_Subset
  <2>4. IsFiniteSet(A) /\ Cardinality(A) <= Cardinality(B) /\ Cardinality(A) # Cardinality(B)
    BY <2>1, <2>3, FS_Subset
  <2>5. Cardinality(A) \in Nat /\ Cardinality(B) \in Nat
    BY <2>3, <2>4, FS_CardinalityType
  <2> QED BY <2>4, <2>5 DEF Rank, A, B
<1>3. Cardinality(S) \in Nat
  BY FS_CardinalityType
<1> QED BY <1>1, <1>2, <1>3

(* The index of a member of an array is the number of members before it.    *)
LEMMA ArrayRank ==
    ASSUME NEW K, IsFiniteSet(K), NEW f, ArrayOf(f, K), NEW n \in K
    PROVE  f[n] = Rank(f, K, n)
<1> DEFINE B == {m \in K : f[m] < f[n]}
           I == 0 .. f[n] - 1
           g == [m \in B |-> f[m]]
<1>1. f[n] \in Nat /\ {f[m] : m \in K} = 0 .. Cardinality(K) - 1 /\ Cardinality(K) \in Nat
      /\ f[n] <= Cardinality(K) - 1
  BY ArrayImage, FS_CardinalityType DEF ArrayOf
<1>2. g \in [B -> I] /\ \A m, k \in B : g[m] = g[k] => m = k
  BY <1>1 DEF ArrayOf
<1>3. \A i \in I : \E m \in B : g[m] = i
  <2> TAKE i \in I
  <2>1. i \in 0 .. Cardinality(K) - 1
    BY <1>1
  <2>2. PICK m \in K : f[m] = i
    BY <1>1, <2>1
  <2> QED BY <1>1, <2>2
<1>4. g \in Injection(B, I) /\ g \in Surjection(B, I)
  <2> HIDE DEF g, B, I
  <2> QED BY <1>2, <1>3, Fun_IsInj, Fun_IsSurj
<1>5. IsFiniteSet(I) /\ Cardinality(I) = f[n]
  <2>1. f[n] - 1 \in Int
    BY <1>1
  <2>2. IsFiniteSet(I) /\ Cardinality(I) = IF 0 > f[n] - 1 THEN 0 ELSE f[n] - 1 - 0 + 1
    BY <2>1, FS_Interval
  <2> QED BY <1>1, <2>2
<1>6. Cardinality(B) = Cardinality(I)
  <2> HIDE DEF g, B, I
  <2> QED BY <1>4, <1>5, FS_Injection
<1> QED BY <1>5, <1>6 DEF Rank

(* The members before n are those of G and those of the rest.               *)
LEMMA RankSplit ==
    ASSUME NEW K, IsFiniteSet(K), NEW f, ArrayOf(f, K), NEW G \in SUBSET K, NEW n \in K
    PROVE  /\ f[n] = Rank(f, G, n) + Rank(f, K \ G, n)
           /\ Rank(f, G, n) \in Nat /\ Rank(f, K \ G, n) \in Nat
<1> DEFINE A == {m \in G : f[m] < f[n]}
           B == {m \in K \ G : f[m] < f[n]}
           C == {m \in K : f[m] < f[n]}
<1>1. C = A \cup B /\ A \cap B = {} /\ A \in SUBSET K /\ B \in SUBSET K
  OBVIOUS
<1>2. f[n] = Cardinality(C)
  BY ArrayRank DEF Rank
<1> HIDE DEF A, B, C
<1>3. IsFiniteSet(A) /\ IsFiniteSet(B)
  BY <1>1, FS_Subset
<1>4. /\ Cardinality(A) \in Nat /\ Cardinality(B) \in Nat
      /\ Cardinality(C) = Cardinality(A) + Cardinality(B) - Cardinality(A \cap B)
  BY <1>1, <1>3, FS_Union, FS_CardinalityType
<1>5. Cardinality(A \cap B) = 0
  BY <1>1, FS_EmptySet
<1>6. f[n] = Cardinality(A) + Cardinality(B)
  BY <1>2, <1>4, <1>5
<1> QED BY <1>4, <1>6 DEF Rank, A, B

(* Filtering an array leaves an array: the children a grouping leaves, each *)
(* as far forward as there are grouped ones before it.                      *)
LEMMA ArrayFilter ==
    ASSUME NEW K, IsFiniteSet(K), NEW f, ArrayOf(f, K), NEW G \in SUBSET K, NEW g,
           \A n \in K \ G : g[n] = f[n] - Rank(f, G, n)
    PROVE  ArrayOf(g, K \ G)
<1>1. IsFiniteSet(K \ G)
  BY FS_Difference
<1>2. \A n \in K : f[n] \in Int
  BY DEF ArrayOf
<1>3. ASSUME NEW n \in K \ G PROVE g[n] = Rank(f, K \ G, n)
  <2>1. /\ f[n] = Rank(f, G, n) + Rank(f, K \ G, n)
        /\ Rank(f, G, n) \in Nat /\ Rank(f, K \ G, n) \in Nat
    BY RankSplit
  <2> QED BY <2>1
<1>4. /\ \A n \in K \ G : Rank(f, K \ G, n) \in 0 .. Cardinality(K \ G) - 1
      /\ \A m, n \in K \ G : f[m] < f[n] => Rank(f, K \ G, m) < Rank(f, K \ G, n)
  BY <1>1, <1>2, RankArray DEF ArrayOf
<1>5. \A m, n \in K \ G : f[m] = f[n] => m = n
  BY DEF ArrayOf
<1>6. ASSUME NEW m \in K \ G, NEW n \in K \ G, g[m] = g[n] PROVE m = n
  <2>1. f[m] \in Int /\ f[n] \in Int
    BY <1>2
  <2>2. Rank(f, K \ G, m) = Rank(f, K \ G, n) /\ Rank(f, K \ G, m) \in Int
    BY <1>3, <1>4, <1>6
  <2>3. ~(f[m] < f[n]) /\ ~(f[n] < f[m])
    BY <1>4, <2>2
  <2> QED BY <1>5, <2>1, <2>3
<1> QED BY <1>3, <1>4, <1>6 DEF ArrayOf

(* An array spilled at the slot of one of the elements of another.          *)
LEMMA ArraySpill ==
    ASSUME NEW K, IsFiniteSet(K), NEW L, IsFiniteSet(L), K \cap L = {}, NEW f,
           ArrayOf(f, K), ArrayOf(f, L), NEW g \in K, NEW h,
           \A n \in L : h[n] = f[g] + f[n],
           \A n \in K \ {g} : h[n] = IF f[n] > f[g] THEN f[n] - 1 + Cardinality(L) ELSE f[n]
    PROVE  ArrayOf(h, (K \ {g}) \cup L)
<1>1. /\ Cardinality(K) \in Nat /\ Cardinality(L) \in Nat
      /\ IsFiniteSet(K \ {g}) /\ Cardinality(K \ {g}) = Cardinality(K) - 1
  BY FS_CardinalityType, FS_RemoveElement
<1>2. Cardinality((K \ {g}) \cup L) = Cardinality(K) - 1 + Cardinality(L)
  <2>1. (K \ {g}) \cap L = {}
    OBVIOUS
  <2>2. Cardinality((K \ {g}) \cap L) = 0
    BY <2>1, FS_EmptySet
  <2>3. Cardinality((K \ {g}) \cup L)
          = Cardinality(K \ {g}) + Cardinality(L) - Cardinality((K \ {g}) \cap L)
    BY <1>1, FS_Union
  <2> QED BY <1>1, <2>2, <2>3
<1>3. /\ \A n \in K : f[n] \in 0 .. Cardinality(K) - 1
      /\ \A m, n \in K : f[m] = f[n] => m = n
      /\ \A n \in L : f[n] \in 0 .. Cardinality(L) - 1
      /\ \A m, n \in L : f[m] = f[n] => m = n
  BY DEF ArrayOf
<1>4. ASSUME NEW n \in (K \ {g}) \cup L
      PROVE  h[n] \in 0 .. Cardinality(K) + Cardinality(L) - 2
  <2>1. CASE n \in L
    BY <1>1, <1>3, <2>1
  <2>2. CASE n \in K \ {g}
    BY <1>1, <1>3, <2>2
  <2> QED BY <2>1, <2>2
<1>5. ASSUME NEW m \in (K \ {g}) \cup L, NEW n \in (K \ {g}) \cup L, h[m] = h[n]
      PROVE  m = n
  <2>1. CASE m \in L /\ n \in L
    BY <1>1, <1>3, <1>5, <2>1
  <2>2. CASE m \in K \ {g} /\ n \in K \ {g}
    BY <1>1, <1>3, <1>5, <2>2
  <2>3. ASSUME NEW k \in K \ {g}, NEW l \in L PROVE h[k] # h[l]
    BY <1>1, <1>3
  <2> QED BY <1>5, <2>1, <2>2, <2>3
<1> QED BY <1>1, <1>2, <1>4, <1>5 DEF ArrayOf

(* Of elements with distinct integer indices, no more lie between two of    *)
(* them than there are integers.                                            *)
LEMMA RankGap ==
    ASSUME NEW R, IsFiniteSet(R), NEW i, \A n \in R : i[n] \in Int,
           \A m, n \in R : i[m] = i[n] => m = n,
           NEW m \in R, NEW n \in R, i[m] < i[n]
    PROVE  Rank(i, R, n) - Rank(i, R, m) <= i[n] - i[m]
<1> DEFINE A == {k \in R : i[k] < i[m]}
           B == {k \in R : i[k] < i[n]}
           D == {k \in R : i[m] <= i[k] /\ i[k] < i[n]}
           J == i[m] .. i[n] - 1
           g == [k \in D |-> i[k]]
<1>1. B = A \cup D /\ A \cap D = {} /\ A \in SUBSET R /\ D \in SUBSET R
  OBVIOUS
<1>2. IsFiniteSet(J) /\ Cardinality(J) = i[n] - i[m]
  <2>1. i[m] \in Int /\ i[n] - 1 \in Int
    OBVIOUS
  <2>2. IsFiniteSet(J) /\ Cardinality(J) = IF i[m] > i[n] - 1 THEN 0 ELSE i[n] - 1 - i[m] + 1
    BY <2>1, FS_Interval
  <2> QED BY <2>1, <2>2
<1>3. g \in [D -> J] /\ \A k, l \in D : g[k] = g[l] => k = l
  OBVIOUS
<1> HIDE DEF A, B, D, J, g
<1>4. Cardinality(D) <= Cardinality(J)
  BY <1>2, <1>3, Fun_IsInj, FS_Injection
<1>5. IsFiniteSet(A) /\ IsFiniteSet(D)
  BY <1>1, FS_Subset
<1>6. /\ Cardinality(A) \in Nat /\ Cardinality(D) \in Nat
      /\ Cardinality(B) = Cardinality(A) + Cardinality(D) - Cardinality(A \cap D)
      /\ Cardinality(A \cap D) = 0
  BY <1>1, <1>5, FS_CardinalityType, FS_Union, FS_EmptySet
<1>7. Cardinality(B) - Cardinality(A) <= i[n] - i[m]
  BY <1>2, <1>4, <1>6
<1> QED BY <1>7 DEF Rank, A, B

(* Elements R spliced one by one, by ascending index i, into an array S     *)
(* with indices b: the restore plan of node.ungroup.                        *)
LEMMA ArrayWeave ==
    ASSUME NEW S, IsFiniteSet(S), NEW b, ArrayOf(b, S), NEW R, IsFiniteSet(R), S \cap R = {},
           NEW i, \A n \in R : i[n] \in Nat, \A m, n \in R : i[m] = i[n] => m = n,
           NEW h,
           \A n \in R : h[n] = Smaller(i[n], Cardinality(S) + Rank(i, R, n)),
           \A n \in S : h[n] = b[n] + Cardinality({m \in R : i[m] - Rank(i, R, m) <= b[n]})
    PROVE  ArrayOf(h, S \cup R)
<1> DEFINE r(n) == Rank(i, R, n)
           C(s) == {m \in R : i[m] - r(m) <= b[s]}
<1>1. Cardinality(S) \in Nat /\ Cardinality(R) \in Nat
  BY FS_CardinalityType
<1>2. Cardinality(S \cup R) = Cardinality(S) + Cardinality(R)
  <2>1. Cardinality(S \cap R) = 0
    BY FS_EmptySet
  <2>2. Cardinality(S \cup R) = Cardinality(S) + Cardinality(R) - Cardinality(S \cap R)
    BY FS_Union
  <2> QED BY <1>1, <2>1, <2>2
<1>3. /\ \A n \in R : r(n) \in 0 .. Cardinality(R) - 1
      /\ \A m, n \in R : i[m] < i[n] => r(m) < r(n)
  BY RankArray
<1>4. \A m, n \in R : i[m] < i[n] => i[m] - r(m) <= i[n] - r(n)
  <2> TAKE m, n \in R
  <2> HAVE i[m] < i[n]
  <2>1. r(n) - r(m) <= i[n] - i[m]
    BY RankGap
  <2>2. r(n) \in Int /\ r(m) \in Int /\ i[n] \in Int /\ i[m] \in Int
    BY <1>3
  <2> HIDE DEF r
  <2> QED BY <2>1, <2>2
<1>5. ASSUME NEW s \in S
      PROVE  /\ C(s) \in SUBSET R /\ IsFiniteSet(C(s))
             /\ Cardinality(C(s)) \in 0 .. Cardinality(R)
  <2>1. C(s) \in SUBSET R
    OBVIOUS
  <2> HIDE DEF C
  <2>2. IsFiniteSet(C(s)) /\ Cardinality(C(s)) <= Cardinality(R) /\ Cardinality(C(s)) \in Nat
    BY <2>1, FS_Subset, FS_CardinalityType
  <2> QED BY <1>1, <2>1, <2>2
<1>6. \A n \in S : b[n] \in 0 .. Cardinality(S) - 1
  BY DEF ArrayOf
<1>7. ASSUME NEW s \in S, NEW t \in S, b[s] < b[t]
      PROVE  Cardinality(C(s)) <= Cardinality(C(t))
  <2>1. \A m \in R : i[m] - r(m) \in Int /\ i[m] - r(m) <= b[s] => i[m] - r(m) <= b[t]
    <3> HIDE DEF r
    <3> QED BY <1>1, <1>3, <1>6, <1>7
  <2>2. C(s) \in SUBSET C(t)
    <3>1. \A m \in R : i[m] - r(m) \in Int
      <4> HIDE DEF r
      <4> QED BY <1>3
    <3> QED BY <2>1, <3>1
  <2> HIDE DEF C
  <2> QED BY <1>5, <2>2, FS_Subset
<1>8. ASSUME NEW s \in S, NEW m \in R
      PROVE  /\ i[m] - r(m) <= b[s] => Cardinality(C(s)) >= r(m) + 1
             /\ ~(i[m] - r(m) <= b[s]) => Cardinality(C(s)) <= r(m)
  <2> DEFINE B == {k \in R : i[k] < i[m]}
  <2>1. B \in SUBSET R /\ m \notin B
    OBVIOUS
  <2>2. r(m) = Cardinality(B)
    BY DEF Rank
  <2>3. /\ \A k \in R : i[k] \in Int /\ r(k) \in Int
        /\ b[s] \in Int /\ Cardinality(C(s)) \in Int
    <3> HIDE DEF C, r
    <3> QED BY <1>1, <1>3, <1>5, <1>6
  <2>4. ASSUME i[m] - r(m) <= b[s] PROVE B \cup {m} \in SUBSET C(s)
    <3>1. ASSUME NEW k \in R, i[k] < i[m] PROVE i[k] - r(k) <= b[s]
      <4>1. i[k] - r(k) <= i[m] - r(m)
        BY <1>4, <3>1
      <4> HIDE DEF r
      <4> QED BY <2>3, <2>4, <4>1
    <3> HIDE DEF r
    <3> QED BY <2>4, <3>1
  <2>5. ASSUME ~(i[m] - r(m) <= b[s]) PROVE C(s) \in SUBSET B
    <3>1. ASSUME NEW k \in R, i[k] - r(k) <= b[s] PROVE i[k] < i[m]
      <4>1. i[m] < i[k] => i[m] - r(m) <= i[k] - r(k)
        BY <1>4
      <4>2. i[m] = i[k] => m = k
        OBVIOUS
      <4> HIDE DEF r
      <4> QED BY <2>3, <2>5, <3>1, <4>1, <4>2
    <3> HIDE DEF r
    <3> QED BY <3>1
  <2> HIDE DEF B, C, r
  <2>6. IsFiniteSet(B) /\ IsFiniteSet(B \cup {m}) /\ Cardinality(B \cup {m}) = Cardinality(B) + 1
    BY <2>1, FS_Subset, FS_AddElement
  <2>7. i[m] - r(m) <= b[s] => Cardinality(B \cup {m}) <= Cardinality(C(s))
    BY <1>5, <2>4, FS_Subset
  <2>8. ~(i[m] - r(m) <= b[s]) => Cardinality(C(s)) <= Cardinality(B)
    BY <2>5, <2>6, FS_Subset
  <2> QED BY <2>2, <2>3, <2>6, <2>7, <2>8
<1>9. /\ \A n \in R : h[n] = IF i[n] < Cardinality(S) + r(n) THEN i[n] ELSE Cardinality(S) + r(n)
      /\ \A n \in S : h[n] = b[n] + Cardinality(C(n))
  BY DEF Smaller
<1>10. \A n \in R : r(n) \in Nat /\ r(n) <= Cardinality(R) - 1 /\ i[n] \in Nat
  BY <1>1, <1>3
<1>11. \A n \in S : /\ Cardinality(C(n)) \in Nat /\ Cardinality(C(n)) <= Cardinality(R)
                    /\ b[n] \in Nat /\ b[n] <= Cardinality(S) - 1
  BY <1>1, <1>5, <1>6
<1> HIDE DEF r, C
<1>12. ASSUME NEW n \in S \cup R PROVE h[n] \in 0 .. Cardinality(S \cup R) - 1
  <2>1. CASE n \in R
    BY <1>1, <1>2, <1>9, <1>10, <2>1
  <2>2. CASE n \in S
    BY <1>1, <1>2, <1>9, <1>11, <2>2
  <2> QED BY <2>1, <2>2
<1>13. ASSUME NEW m \in R, NEW n \in R, h[m] = h[n] PROVE m = n
  <2>1. ASSUME NEW k \in R, NEW l \in R, i[k] < i[l] PROVE h[k] < h[l]
    <3>1. r(k) < r(l) /\ i[k] - r(k) <= i[l] - r(l)
      BY <1>3, <1>4, <2>1
    <3> QED BY <1>1, <1>9, <1>10, <2>1, <3>1
  <2>2. ~(h[m] < h[n]) /\ ~(h[n] < h[m])
    BY <1>12, <1>13
  <2>3. ~(i[m] < i[n]) /\ ~(i[n] < i[m])
    BY <2>1, <2>2
  <2> QED BY <1>10, <2>3
<1>14. ASSUME NEW s \in S, NEW t \in S, h[s] = h[t] PROVE s = t
  <2>1. ASSUME NEW k \in S, NEW l \in S, b[k] < b[l] PROVE h[k] < h[l]
    BY <1>7, <1>9, <1>11, <2>1
  <2>2. ~(h[s] < h[t]) /\ ~(h[t] < h[s])
    BY <1>12, <1>14
  <2>3. ~(b[s] < b[t]) /\ ~(b[t] < b[s])
    BY <2>1, <2>2
  <2>4. b[s] = b[t]
    BY <1>11, <2>3
  <2> QED BY <2>4 DEF ArrayOf
<1>15. ASSUME NEW s \in S, NEW m \in R PROVE h[s] # h[m]
  <2>1. CASE i[m] - r(m) <= b[s]
    <3>1. Cardinality(C(s)) >= r(m) + 1
      BY <1>8, <2>1
    <3> QED BY <1>1, <1>9, <1>10, <1>11, <2>1, <3>1
  <2>2. CASE ~(i[m] - r(m) <= b[s])
    <3>1. Cardinality(C(s)) <= r(m)
      BY <1>8, <2>2
    <3> QED BY <1>1, <1>9, <1>10, <1>11, <2>2, <3>1
  <2> QED BY <2>1, <2>2
<1>16. ASSUME NEW m \in S \cup R, NEW n \in S \cup R, h[m] = h[n] PROVE m = n
  BY <1>13, <1>14, <1>15, <1>16
<1> QED BY <1>12, <1>16, Zenon DEF ArrayOf

-----------------------------------------------------------------------------
(* Forests. *)

(* S holds the children of its members. *)
Closed(d, S) == \A m \in d.live : d.parent[m] \in S => m \in S

(* The trees under R: what Shaped says of a document, and what a payload is *)
(* that one node.create brings.  Every node is reached from R, because no   *)
(* smaller set holds R and the children of its members.                     *)
Forest(d, R) ==
    /\ R \subseteq d.live
    /\ \A r \in R : d.parent[r] = NoNode
    /\ \A n \in d.live \ R : d.parent[n] \in d.live \cap Containers
    /\ \A S \in SUBSET d.live : R \subseteq S /\ Closed(d, S) => S = d.live
    /\ \A p \in d.live : ArrayOf(d.pos, Kids(d, p))

(* A subtree is the least closed set its root is in. *)
LEMMA BelowLeast ==
    ASSUME NEW d, NEW n \in d.live
    PROVE  /\ n \in Below(d, n) /\ Below(d, n) \subseteq d.live
           /\ Closed(d, Below(d, n))
           /\ \A S \in SUBSET d.live : n \in S /\ Closed(d, S) => Below(d, n) \subseteq S
BY DEF Below, Closed

(* The parent of a node of a subtree is in it, but for its root's. *)
LEMMA BelowParent ==
    ASSUME NEW d, NEW n \in d.live, NEW m \in Below(d, n), m # n
    PROVE  d.parent[m] \in Below(d, n)
<1> SUFFICES ASSUME d.parent[m] \notin Below(d, n) PROVE FALSE
  OBVIOUS
<1> DEFINE S == Below(d, n) \ {m}
<1>1. S \in SUBSET d.live /\ n \in S
  BY BelowLeast
<1>2. Closed(d, S)
  BY BelowLeast DEF Closed
<1>3. Below(d, n) \subseteq S
  <2> HIDE DEF S
  <2> QED BY <1>1, <1>2, BelowLeast
<1> QED BY <1>3

(* No node is below itself, and no root below another node. *)
LEMMA NotBelowItself ==
    ASSUME NEW d \in Document, NEW R, Forest(d, R), NEW n \in d.live \ R
    PROVE  d.parent[n] \notin Below(d, n) /\ R \cap Below(d, n) = {}
<1> DEFINE S == d.live \ Below(d, n)
<1>0. NoNode \notin d.live
  BY NodeAssumption DEF Document
<1>1. ASSUME NEW r \in R, r \in Below(d, n) PROVE FALSE
  <2>1. r # n /\ d.parent[r] = NoNode
    BY <1>1 DEF Forest
  <2>2. d.parent[r] \in Below(d, n)
    BY <1>1, <2>1, BelowParent
  <2> QED BY <1>0, <2>1, <2>2, BelowLeast
<1>2. ASSUME d.parent[n] \in Below(d, n) PROVE FALSE
  <2>1. Closed(d, S)
    BY <1>2, BelowParent DEF Closed
  <2>2. R \subseteq S /\ S \in SUBSET d.live /\ S # d.live
    BY <1>1, BelowLeast DEF Forest
  <2> HIDE DEF S
  <2> QED BY <2>1, <2>2 DEF Forest
<1> QED BY <1>1, <1>2

(* What Shaped says. *)
LEMMA ShapedForest ==
    ASSUME NEW d \in Document, Rooted(d)
    PROVE  Shaped(d) <=> Forest(d, Roots)
<1> DEFINE reached == UNION {Below(d, r) : r \in Roots}
<1>1. ASSUME NEW p PROVE ArrayOf(d.pos, Kids(d, p))
                         <=> {d.pos[n] : n \in Kids(d, p)} = 0 .. Width(d, p) - 1
  <2>1. IsFiniteSet(Kids(d, p))
    BY KidsType, NodeCount
  <2> QED BY <2>1, ArrayImage DEF Width
<1>2. /\ Roots \subseteq d.live /\ Roots \subseteq reached /\ reached \in SUBSET d.live
      /\ Closed(d, reached)
  <2>1. Roots \subseteq d.live
    BY DEF Rooted
  <2>2. \A r \in Roots : /\ r \in Below(d, r) /\ Below(d, r) \subseteq d.live
                         /\ Closed(d, Below(d, r))
    BY <2>1, BelowLeast
  <2> QED BY <2>1, <2>2 DEF Closed
<1>3. ASSUME d.live = reached, NEW S \in SUBSET d.live, Roots \subseteq S, Closed(d, S)
      PROVE  S = d.live
  <2>1. \A r \in Roots : Below(d, r) \subseteq S
    BY <1>2, <1>3, BelowLeast
  <2> QED BY <1>3, <2>1
<1>4. (\A S \in SUBSET d.live : Roots \subseteq S /\ Closed(d, S) => S = d.live)
      <=> d.live = reached
  <2> HIDE DEF reached
  <2> QED BY <1>2, <1>3
<1> HIDE DEF reached
<1> QED BY <1>1, <1>2, <1>4 DEF Shaped, Forest, Rooted, reached

(* The nodes and the parents of a forest, and the indices of its siblings,  *)
(* are all that makes it one.                                               *)
LEMMA ForestAgrees ==
    ASSUME NEW d, NEW e, NEW R, Forest(d, R), e.live = d.live, e.parent = d.parent,
           e.pos = d.pos
    PROVE  Forest(e, R)
BY DEF Forest, Closed, Kids

(* The payload that takes a subtree out of a document is a tree. *)
LEMMA SubtreeForest ==
    ASSUME NEW d \in Document, NEW R, Forest(d, R), NEW n \in d.live \ R
    PROVE  Forest(Subtree(d, n), {n})
<1> DEFINE e == Subtree(d, n)
           B == Below(d, n)
<1>0. d.live \subseteq Node /\ NoNode \notin Node
  BY NodeAssumption DEF Document
<1>1. /\ n \in B /\ B \subseteq d.live /\ B \subseteq Node /\ Closed(d, B)
      /\ d.parent[n] \notin B /\ B \cap R = {}
  BY <1>0, BelowLeast, NotBelowItself
<1>2. /\ e.live = B /\ e.parent[n] = NoNode /\ e.pos[n] = 0
      /\ \A m \in B \ {n} : e.parent[m] = d.parent[m] /\ e.pos[m] = d.pos[m]
  BY <1>0, <1>1 DEF Subtree, Only
<1>3. \A m \in B \ {n} : e.parent[m] \in B \cap Containers
  <2> TAKE m \in B \ {n}
  <2>1. d.parent[m] \in B
    BY BelowParent
  <2>2. d.parent[m] \in Containers
    BY <1>1 DEF Forest
  <2> QED BY <1>2, <2>1, <2>2
<1>4. ASSUME NEW S \in SUBSET e.live, n \in S, Closed(e, S) PROVE S = e.live
  <2>1. S \in SUBSET d.live /\ Closed(d, S)
    <3> HIDE DEF e, B
    <3> QED BY <1>1, <1>2, <1>4 DEF Closed
  <2>2. B \subseteq S
    BY <1>4, <2>1, BelowLeast
  <2> QED BY <1>2, <1>4, <2>2
<1>5. ASSUME NEW p \in e.live PROVE ArrayOf(e.pos, Kids(e, p))
  <2>1. p \in B /\ p # NoNode
    BY <1>0, <1>1, <1>2
  <2> HIDE DEF e, B
  <2>2. Kids(e, p) = Kids(d, p) /\ n \notin Kids(d, p) /\ Kids(d, p) \subseteq B
    BY <1>0, <1>1, <1>2, <2>1 DEF Kids, Closed
  <2>3. ArrayOf(d.pos, Kids(d, p))
    BY <1>1, <2>1 DEF Forest
  <2> QED BY <1>2, <2>2, <2>3, ArrayAgrees
<1> HIDE DEF e
<1> QED BY <1>1, <1>2, <1>3, <1>4, <1>5 DEF Forest, e

-----------------------------------------------------------------------------
(* The commands. *)

(* The children of a node are a finite set, and nothing is a child twice.   *)
LEMMA KidsFinite ==
    ASSUME NEW d \in Document, NEW p
    PROVE  IsFiniteSet(Kids(d, p)) /\ Kids(d, p) \subseteq d.live /\ Kids(d, p) \subseteq Node
BY KidsType, NodeCount

LEMMA CreateForest ==
    ASSUME NEW d \in Document, NEW R, Forest(d, R), NEW c \in CreateCommand,
           Forest(c.sub, {c.node}), c.sub.live \cap d.live = {},
           c.parent \in d.live \cap Containers, c.at \in 0 .. Width(d, c.parent)
    PROVE  Forest(Created(d, c), R)
<1> DEFINE e == Created(d, c)
           new == c.sub.live
           gap == WithGap(d, c.parent, c.at)
<1>0. /\ d.live \subseteq Node /\ new \subseteq Node /\ NoNode \notin Node /\ c.sub \in Document
      /\ c.node \in new
  BY NodeAssumption DEF Document, CreateCommand, Forest
<1>1. /\ e.live = d.live \cup new
      /\ e.parent[c.node] = c.parent /\ e.pos[c.node] = c.at
      /\ \A n \in new \ {c.node} : e.parent[n] = c.sub.parent[n] /\ e.pos[n] = c.sub.pos[n]
      /\ \A n \in d.live : e.parent[n] = d.parent[n] /\ e.pos[n] = gap[n]
  BY <1>0 DEF Created
<1>2. \A n \in d.live : gap[n] = IF n \in Kids(d, c.parent) /\ d.pos[n] >= c.at
                                 THEN d.pos[n] + 1 ELSE d.pos[n]
  BY <1>0 DEF WithGap
<1>3. /\ \A n \in new \ {c.node} : c.sub.parent[n] \in new \cap Containers
      /\ c.sub.parent[c.node] = NoNode
      /\ \A n \in d.live \ R : d.parent[n] \in d.live \cap Containers
      /\ R \subseteq d.live /\ \A r \in R : d.parent[r] = NoNode
  BY DEF Forest
<1> HIDE DEF e, gap
<1>4. \A n \in e.live \ R : e.parent[n] \in e.live \cap Containers
  BY <1>0, <1>1, <1>3
<1>5. ASSUME NEW S \in SUBSET e.live, R \subseteq S, Closed(e, S) PROVE S = e.live
  <2>1. Closed(d, S \cap d.live)
    BY <1>0, <1>1, <1>5 DEF Closed
  <2>2. S \cap d.live = d.live
    BY <1>3, <1>5, <2>1 DEF Forest
  <2>3. c.node \in S
    BY <1>0, <1>1, <1>5, <2>2 DEF Closed
  <2>4. Closed(c.sub, S \cap new)
    BY <1>0, <1>1, <1>5, <2>3 DEF Closed
  <2>5. S \cap new = new
    BY <1>0, <2>3, <2>4 DEF Forest
  <2> QED BY <1>1, <1>5, <2>2, <2>5
<1>6. ASSUME NEW p \in e.live PROVE ArrayOf(e.pos, Kids(e, p))
  <2>1. CASE p = c.parent
    <3>1. Kids(e, p) = Kids(d, p) \cup {c.node} /\ c.node \notin Kids(d, p)
      BY <1>0, <1>1, <1>3, <2>1 DEF Kids
    <3>2. ArrayOf(d.pos, Kids(d, p)) /\ IsFiniteSet(Kids(d, p))
      BY <2>1, KidsFinite DEF Forest
    <3>3. /\ c.at \in 0 .. Cardinality(Kids(d, p))
          /\ \A n \in Kids(d, p) : e.pos[n] = IF d.pos[n] >= c.at THEN d.pos[n] + 1 ELSE d.pos[n]
      BY <1>1, <1>2, <2>1 DEF Width, Kids
    <3>4. e.pos[c.node] = c.at /\ c.node \notin Kids(d, p)
      BY <1>1, <3>1
    <3>5. ArrayOf(e.pos, Kids(d, p) \cup {c.node})
      <4> DEFINE K == Kids(d, p)
                 f == d.pos
                 g == e.pos
                 at == c.at
                 n == c.node
      <4>1. /\ IsFiniteSet(K) /\ ArrayOf(f, K) /\ n \notin K
            /\ at \in 0 .. Cardinality(K) /\ g[n] = at
            /\ \A m \in K : g[m] = IF f[m] >= at THEN f[m] + 1 ELSE f[m]
        BY <3>2, <3>3, <3>4
      <4> HIDE DEF K, f, g, at, n
      <4>2. ArrayOf(g, K \cup {n})
        BY <4>1, ArrayInsert
      <4> QED BY <4>2 DEF K, g, n
    <3> QED BY <3>1, <3>5
  <2>2. CASE p \in d.live \ {c.parent}
    <3>1. Kids(e, p) = Kids(d, p)
      BY <1>0, <1>1, <1>3, <2>2 DEF Kids
    <3>2. \A n \in Kids(d, p) : e.pos[n] = d.pos[n]
      BY <1>1, <1>2, <2>2 DEF Kids
    <3> QED BY <2>2, <3>1, <3>2, ArrayAgrees DEF Forest
  <2>3. CASE p \in new
    <3>1. Kids(e, p) = Kids(c.sub, p)
      BY <1>0, <1>1, <1>3, <2>3 DEF Kids
    <3>2. \A n \in Kids(c.sub, p) : e.pos[n] = c.sub.pos[n]
      BY <1>0, <1>1, <1>3, <2>3 DEF Kids
    <3> QED BY <2>3, <3>1, <3>2, ArrayAgrees DEF Forest
  <2> QED BY <1>1, <2>1, <2>2, <2>3
<1>7. R \subseteq e.live /\ \A r \in R : e.parent[r] = NoNode
  BY <1>1, <1>3
<1> QED BY <1>4, <1>5, <1>6, <1>7 DEF Forest, e

LEMMA DeleteForest ==
    ASSUME NEW d \in Document, NEW R, Forest(d, R), NEW c \in DeleteCommand,
           c.node \in d.live \ R
    PROVE  Forest(Deleted(d, c), R)
<1> DEFINE e == Deleted(d, c)
           n == c.node
           gone == Below(d, n)
           cut == WithoutSlot(d, n)
<1>0. /\ d.live \subseteq Node /\ NoNode \notin Node
      /\ n \in gone /\ gone \subseteq d.live /\ Closed(d, gone)
      /\ d.parent[n] \notin gone /\ gone \cap R = {}
  BY NodeAssumption, BelowLeast, NotBelowItself DEF Document
<1>1. /\ e.live = d.live \ gone
      /\ \A m \in d.live \ gone : e.parent[m] = d.parent[m] /\ e.pos[m] = cut[m]
  <2> HIDE DEF gone
  <2> QED BY <1>0 DEF Deleted, Only, Document, gone
<1>2. \A m \in d.live : cut[m] = IF m \in Kids(d, d.parent[n]) /\ d.pos[m] > d.pos[n]
                                 THEN d.pos[m] - 1 ELSE d.pos[m]
  BY <1>0 DEF WithoutSlot
<1>3. /\ \A m \in d.live \ R : d.parent[m] \in d.live \cap Containers
      /\ R \subseteq d.live /\ \A r \in R : d.parent[r] = NoNode
  BY DEF Forest
<1>4. \A m \in gone \ {n} : d.parent[m] \in gone
  BY BelowParent
<1> HIDE DEF e, gone, cut
<1>5. R \subseteq e.live /\ \A r \in R : e.parent[r] = NoNode
  BY <1>0, <1>1, <1>3
<1>6. \A m \in e.live \ R : e.parent[m] \in e.live \cap Containers
  BY <1>0, <1>1, <1>3 DEF Closed
<1>7. ASSUME NEW S \in SUBSET e.live, R \subseteq S, Closed(e, S) PROVE S = e.live
  <2>1. Closed(d, S \cup gone)
    BY <1>0, <1>1, <1>7 DEF Closed
  <2>2. S \cup gone = d.live
    BY <1>0, <1>1, <1>7, <2>1 DEF Forest
  <2> QED BY <1>1, <1>7, <2>2
<1>8. ASSUME NEW p \in e.live PROVE ArrayOf(e.pos, Kids(e, p))
  <2>1. p \in d.live /\ p \notin gone
    BY <1>1
  <2>2. ArrayOf(d.pos, Kids(d, p)) /\ IsFiniteSet(Kids(d, p))
    BY <2>1, KidsFinite DEF Forest
  <2>3. CASE p = d.parent[n]
    <3>1. Kids(e, p) = Kids(d, p) \ {n} /\ n \in Kids(d, p)
      BY <1>0, <1>1, <1>4, <2>1, <2>3 DEF Kids
    <3>2. \A m \in Kids(d, p) \ {n} :
            e.pos[m] = IF d.pos[m] > d.pos[n] THEN d.pos[m] - 1 ELSE d.pos[m]
      BY <1>1, <1>2, <2>3, <3>1 DEF Kids
    <3> QED BY <2>2, <3>1, <3>2, ArrayRemove
  <2>4. CASE p # d.parent[n]
    <3>1. Kids(e, p) = Kids(d, p)
      BY <1>0, <1>1, <1>4, <2>1, <2>4 DEF Kids
    <3>2. \A m \in Kids(d, p) : e.pos[m] = d.pos[m]
      BY <1>1, <1>2, <2>4, <3>1 DEF Kids
    <3> QED BY <2>2, <3>1, <3>2, ArrayAgrees
  <2> QED BY <2>3, <2>4
<1> QED BY <1>5, <1>6, <1>7, <1>8 DEF Forest, e

(* node.reorder and node.reparent: the node is spliced out of an array ...  *)
Out(d, n) == [d EXCEPT !.pos = WithoutSlot(d, n), !.live = @ \ {n}]

LEMMA OutArrays ==
    ASSUME NEW d \in Document, NEW R, Forest(d, R), NEW n \in d.live \ R
    PROVE  /\ Out(d, n) \in Document
           /\ \A p \in d.live : /\ Kids(Out(d, n), p) = Kids(d, p) \ {n}
                                /\ ArrayOf(Out(d, n).pos, Kids(d, p) \ {n})
<1> DEFINE e == Out(d, n)
           cut == WithoutSlot(d, n)
<1>0. d.live \subseteq Node /\ cut \in [Node -> Int]
  BY ShiftType DEF Document
<1>1. e \in Document /\ e.live = d.live \ {n} /\ e.parent = d.parent /\ e.pos = cut
  <2> HIDE DEF cut
  <2> QED BY <1>0 DEF Out, Document, cut
<1>2. \A m \in d.live : cut[m] = IF m \in Kids(d, d.parent[n]) /\ d.pos[m] > d.pos[n]
                                 THEN d.pos[m] - 1 ELSE d.pos[m]
  BY <1>0 DEF WithoutSlot
<1> HIDE DEF e, cut
<1>3. ASSUME NEW p \in d.live
      PROVE  Kids(e, p) = Kids(d, p) \ {n} /\ ArrayOf(e.pos, Kids(d, p) \ {n})
  <2>1. Kids(e, p) = Kids(d, p) \ {n}
    BY <1>1 DEF Kids
  <2>2. ArrayOf(d.pos, Kids(d, p)) /\ IsFiniteSet(Kids(d, p))
    BY KidsFinite DEF Forest
  <2>3. CASE p = d.parent[n]
    <3>1. n \in Kids(d, p)
      BY <2>3 DEF Kids
    <3>2. \A m \in Kids(d, p) \ {n} :
            e.pos[m] = IF d.pos[m] > d.pos[n] THEN d.pos[m] - 1 ELSE d.pos[m]
      BY <1>1, <1>2, <2>3 DEF Kids
    <3> QED BY <2>1, <2>2, <3>1, <3>2, ArrayRemove
  <2>4. CASE p # d.parent[n]
    <3>1. Kids(d, p) \ {n} = Kids(d, p)
      BY <2>4 DEF Kids
    <3>2. \A m \in Kids(d, p) : e.pos[m] = d.pos[m]
      BY <1>1, <1>2, <2>4 DEF Kids
    <3>3. ArrayOf(e.pos, Kids(d, p))
      BY <2>2, <3>2, ArrayAgrees
    <3> QED BY <2>1, <3>1, <3>3
  <2> QED BY <2>3, <2>4
<1> QED BY <1>1, <1>3 DEF e

(* ... and into one.                                                        *)
LEMMA PutArrays ==
    ASSUME NEW d \in Document, NEW R, Forest(d, R), NEW n \in d.live \ R, NEW p \in d.live,
           NEW to \in 0 .. Width(Out(d, n), p), NEW e,
           e.live = d.live, e.parent = [d.parent EXCEPT ![n] = p],
           e.pos = [WithGap(Out(d, n), p, to) EXCEPT ![n] = to]
    PROVE  \A q \in d.live : ArrayOf(e.pos, Kids(e, q))
<1> DEFINE o == Out(d, n)
           gap == WithGap(o, p, to)
<1>0. d.live \subseteq Node /\ n \in Node
  BY DEF Document
<1>1. /\ o \in Document
      /\ \A q \in d.live : Kids(o, q) = Kids(d, q) \ {n} /\ ArrayOf(o.pos, Kids(d, q) \ {n})
  BY OutArrays
<1>2. to \in Int /\ gap \in [Node -> Int]
  <2>1. Width(o, p) \in Nat
    BY <1>1, KidsType
  <2>2. to \in Int
    BY <2>1
  <2> QED BY <1>1, <2>2, ShiftType
<1>3. \A m \in Node : gap[m] = IF m \in Kids(o, p) /\ o.pos[m] >= to THEN o.pos[m] + 1 ELSE o.pos[m]
  BY DEF WithGap
<1>4. /\ e.pos[n] = to /\ \A m \in Node \ {n} : e.pos[m] = gap[m]
      /\ e.parent[n] = p /\ \A m \in Node \ {n} : e.parent[m] = d.parent[m]
  <2> HIDE DEF gap
  <2>1. d.parent \in [Node -> Node \cup {NoNode}] /\ e.pos = [gap EXCEPT ![n] = to]
    BY DEF Document, gap
  <2> QED BY <1>0, <1>2, <2>1
<1> HIDE DEF o, gap
<1>5. ASSUME NEW q \in d.live PROVE ArrayOf(e.pos, Kids(e, q))
  <2> DEFINE K == Kids(d, q) \ {n}
  <2>1. Kids(o, q) = K /\ ArrayOf(o.pos, K) /\ n \notin K /\ K \subseteq Node
    BY <1>1, KidsFinite
  <2>2. IsFiniteSet(K)
    BY <2>1, NodeCount
  <2>3. Kids(e, q) = IF q = p THEN K \cup {n} ELSE K
    BY <1>0, <1>4 DEF Kids
  <2> HIDE DEF K
  <2>4. CASE q = p
    <3> DEFINE f == o.pos
               g == e.pos
    <3>1. /\ to \in 0 .. Cardinality(K) /\ ArrayOf(f, K) /\ g[n] = to
          /\ \A m \in K : g[m] = IF f[m] >= to THEN f[m] + 1 ELSE f[m]
      BY <1>3, <1>4, <2>1, <2>4 DEF Width, o
    <3> HIDE DEF f, g
    <3>2. ArrayOf(g, K \cup {n})
      BY <2>1, <2>2, <3>1, ArrayInsert
    <3> QED BY <2>3, <2>4, <3>2 DEF g
  <2>5. CASE q # p
    <3>1. \A m \in K : m \notin Kids(o, p)
      BY <2>1, <2>5 DEF Kids
    <3>2. \A m \in K : e.pos[m] = o.pos[m]
      BY <1>3, <1>4, <2>1, <3>1
    <3>3. ArrayOf(e.pos, K)
      BY <2>1, <3>2, ArrayAgrees
    <3> QED BY <2>3, <2>5, <3>3
  <2> QED BY <2>4, <2>5
<1> QED BY <1>5

LEMMA ReorderForest ==
    ASSUME NEW d \in Document, NEW R, Forest(d, R), NEW c \in ReorderCommand,
           c.node \in d.live \ R
    PROVE  Forest(Reordered(d, c), R)
<1> DEFINE e == Reordered(d, c)
           n == c.node
           p == d.parent[n]
           to == Clamp(c.at, Width(d, p) - 1)
<1>1. /\ p \in d.live /\ n \in Kids(d, p) /\ c.at \in Int
      /\ IsFiniteSet(Kids(d, p)) /\ Kids(Out(d, n), p) = Kids(d, p) \ {n}
  BY ZenonT(40), OutArrays, KidsFinite DEF Forest, Kids, ReorderCommand
<1>2. to \in 0 .. Width(Out(d, n), p)
  <2> HIDE DEF p
  <2>1. Width(d, p) \in Nat /\ Width(Out(d, n), p) \in Nat
    BY OutArrays, KidsType
  <2>2. Width(Out(d, n), p) = Width(d, p) - 1
    BY <1>1, FS_RemoveElement DEF Width
  <2> QED BY <1>1, <2>1, <2>2 DEF Clamp, Smaller
<1>3. /\ e.live = d.live /\ e.parent = d.parent
      /\ e.pos = [WithGap(Out(d, n), p, to) EXCEPT ![n] = to]
  <2> HIDE DEF p, to
  <2> QED BY DEF Reordered, Out, Document, p, to
<1>4. e.parent = [d.parent EXCEPT ![n] = p]
  BY <1>3 DEF Document
<1> HIDE DEF e, to, p
<1>5. \A q \in d.live : ArrayOf(e.pos, Kids(e, q))
  BY <1>1, <1>2, <1>3, <1>4, PutArrays
<1> QED BY <1>3, <1>5 DEF Forest, Closed, e

LEMMA ReparentForest ==
    ASSUME NEW d \in Document, NEW R, Forest(d, R), NEW c \in ReparentCommand,
           c.node \in d.live \ R, c.parent \in d.live \cap Containers,
           c.parent \notin Below(d, c.node)
    PROVE  Forest(Reparented(d, c), R)
<1> DEFINE e == Reparented(d, c)
           n == c.node
           p == c.parent
           to == Clamp(c.at, Width(Out(d, n), p))
<1>0. d.live \subseteq Node /\ c.at \in Int
  BY DEF Document, ReparentCommand
<1>1. to \in 0 .. Width(Out(d, n), p)
  <2>1. Width(Out(d, n), p) \in Nat
    BY OutArrays, KidsType
  <2> QED BY <1>0, <2>1 DEF Clamp, Smaller
<1>2. /\ e.live = d.live /\ e.parent = [d.parent EXCEPT ![n] = p]
      /\ e.pos = [WithGap(Out(d, n), p, to) EXCEPT ![n] = to]
  <2> HIDE DEF to
  <2> QED BY DEF Reparented, Out, Document, to
<1>3. e.parent[n] = p /\ \A m \in d.live \ {n} : e.parent[m] = d.parent[m]
  BY <1>0, <1>2 DEF Document
<1> HIDE DEF e, to
<1>4. \A q \in d.live : ArrayOf(e.pos, Kids(e, q))
  BY <1>1, <1>2, PutArrays
<1>5. ASSUME NEW S \in SUBSET e.live, R \subseteq S, Closed(e, S) PROVE S = e.live
  <2>1. Closed(d, S \cup Below(d, n)) /\ Below(d, n) \subseteq d.live
    BY <1>2, <1>3, <1>5, BelowLeast DEF Closed
  <2>2. S \cup Below(d, n) = d.live
    BY <1>2, <1>5, <2>1 DEF Forest
  <2>3. n \in S
    BY <1>2, <1>3, <1>5, <2>2 DEF Closed
  <2>4. Closed(d, S)
    BY <1>2, <1>3, <1>5, <2>3 DEF Closed
  <2> QED BY <1>2, <1>5, <2>4 DEF Forest
<1>6. \A m \in e.live \ R : e.parent[m] \in e.live \cap Containers
  BY <1>2, <1>3 DEF Forest
<1>7. R \subseteq e.live /\ \A r \in R : e.parent[r] = NoNode
  BY <1>2, <1>3 DEF Forest
<1> QED BY <1>2, <1>4, <1>5, <1>6, <1>7 DEF Forest, e

(* What makes grouping one splice: the siblings that stay close the gaps,   *)
(* and the group takes the slot of the topmost.                             *)
LEMMA GroupForest ==
    ASSUME NEW d \in Document, NEW R, Forest(d, R), NEW c \in GroupCommand,
           c.group \in Containers \ d.live, c.kids # {}, c.kids \subseteq d.live \ R,
           \A m, n \in c.kids : d.parent[m] = d.parent[n]
    PROVE  Forest(Grouped(d, c), R)
<1> DEFINE e == Grouped(d, c)
           g == c.group
           G == c.kids
           p == d.parent[CHOOSE n \in G : TRUE]
           K == Kids(d, p)
           top == GroupSlot(d, p, G)
           stay(n) == d.pos[n] - Before(d, G, d.pos[n])
<1>0. /\ d.live \subseteq Node /\ NoNode \notin Node /\ g \in Node /\ g # NoNode
      /\ G \subseteq d.live /\ G \cap R = {} /\ g \notin d.live /\ G # {}
  BY NodeAssumption DEF Document, GroupCommand
<1>1. \A n \in G : d.parent[n] = p
  OBVIOUS
<1>2. /\ p \in d.live \cap Containers /\ G \in SUBSET K
      /\ IsFiniteSet(K) /\ K \subseteq d.live /\ ArrayOf(d.pos, K)
  <2>1. p \in d.live \cap Containers
    BY <1>0, <1>1 DEF Forest
  <2> HIDE DEF p
  <2>2. G \in SUBSET K
    BY <1>0, <1>1 DEF Kids
  <2> QED BY <2>1, <2>2, KidsFinite DEF Forest
<1>3. /\ e.live = d.live \cup {g}
      /\ e.parent[g] = p /\ e.pos[g] = top
      /\ \A n \in G : e.parent[n] = g /\ e.pos[n] = Before(d, G, d.pos[n])
      /\ \A n \in d.live \ G : e.parent[n] = d.parent[n]
      /\ \A n \in K \ G : e.pos[n] = stay(n) + (IF stay(n) >= top THEN 1 ELSE 0)
      /\ \A n \in d.live \ K : e.pos[n] = d.pos[n]
  <2> HIDE DEF p, top
  <2> QED BY <1>0, <1>2 DEF Grouped, p, top
<1>4. \A n : Before(d, G, d.pos[n]) = Rank(d.pos, G, n)
  BY DEF Before, Rank
<1>6. /\ \A m \in d.live \ R : d.parent[m] \in d.live \cap Containers
      /\ R \subseteq d.live /\ \A r \in R : d.parent[r] = NoNode
  BY DEF Forest
<1> HIDE DEF e, p
<1>7. ArrayOf(e.pos, (K \ G) \cup {g})
  <2> DEFINE f == [n \in K |-> stay(n)]
             h == e.pos
             J == K \ G
  <2>1. ArrayOf(f, J) /\ IsFiniteSet(J)
    <3>1. \A n \in J : f[n] = d.pos[n] - Rank(d.pos, G, n)
      BY <1>4
    <3>2. IsFiniteSet(J)
      BY <1>2, FS_Difference
    <3> HIDE DEF f, J
    <3>3. ArrayOf(f, K \ G)
      BY <1>2, <3>1, ArrayFilter DEF J
    <3> QED BY <3>2, <3>3 DEF J
  <2>2. top \in 0 .. Cardinality(J)
    <3> DEFINE A == {m \in K : \A n \in G : d.pos[m] < d.pos[n]}
    <3>1. \A m \in K : d.pos[m] \in Int
      BY <1>2 DEF ArrayOf
    <3>2. A \in SUBSET J
      BY <1>0, <1>2, <3>1
    <3> HIDE DEF A, J
    <3>3. IsFiniteSet(A) /\ Cardinality(A) <= Cardinality(J)
      BY <2>1, <3>2, FS_Subset
    <3>4. Cardinality(A) \in Nat /\ Cardinality(J) \in Nat
      BY <2>1, <3>3, FS_CardinalityType
    <3>5. top = Cardinality(A)
      BY DEF GroupSlot, A
    <3> QED BY <3>3, <3>4, <3>5
  <2>3. \A n \in J : f[n] \in Int
    BY <2>1 DEF ArrayOf
  <2>4. \A n \in J : h[n] = IF f[n] >= top THEN f[n] + 1 ELSE f[n]
    <3>1. \A n \in J : h[n] = f[n] + (IF f[n] >= top THEN 1 ELSE 0)
      BY <1>3
    <3> HIDE DEF f, h, J, top
    <3> QED BY <2>3, <3>1
  <2>5. h[g] = top /\ g \notin J
    BY <1>0, <1>2, <1>3
  <2> HIDE DEF f, h, J, top
  <2>6. ArrayOf(h, J \cup {g})
    BY <2>1, <2>2, <2>4, <2>5, ArrayInsert
  <2> QED BY <2>6 DEF h, J
<1>8. ArrayOf(e.pos, G)
  <2>1. IsFiniteSet(G) /\ \A n \in G : d.pos[n] \in Int
    BY <1>2, FS_Subset DEF ArrayOf
  <2>2. \A m, n \in G : d.pos[m] = d.pos[n] => m = n
    BY <1>2 DEF ArrayOf
  <2>3. /\ \A n \in G : e.pos[n] = Rank(d.pos, G, n)
        /\ \A n \in G : Rank(d.pos, G, n) \in 0 .. Cardinality(G) - 1
        /\ \A m, n \in G : d.pos[m] < d.pos[n] => Rank(d.pos, G, m) < Rank(d.pos, G, n)
    BY <1>3, <1>4, <2>1, <2>2, RankArray
  <2>4. ASSUME NEW m \in G, NEW n \in G, e.pos[m] = e.pos[n] PROVE m = n
    <3>1. ~(d.pos[m] < d.pos[n]) /\ ~(d.pos[n] < d.pos[m])
      BY <2>3, <2>4
    <3> QED BY <2>1, <2>2, <3>1
  <2> QED BY <2>3, <2>4 DEF ArrayOf
<1>9. ASSUME NEW q \in e.live PROVE ArrayOf(e.pos, Kids(e, q))
  <2>1. CASE q = g
    <3>1. Kids(e, q) = G
      BY <1>0, <1>1, <1>2, <1>3, <1>6, <2>1 DEF Kids
    <3> QED BY <1>8, <3>1
  <2>2. CASE q = p
    <3>1. Kids(e, q) = (K \ G) \cup {g}
      BY <1>0, <1>1, <1>2, <1>3, <1>6, <2>2 DEF Kids
    <3> QED BY <1>7, <3>1
  <2>3. CASE q # g /\ q # p
    <3>1. q \in d.live
      BY <1>3, <2>3
    <3>2. Kids(e, q) = Kids(d, q) /\ \A n \in Kids(d, q) : e.pos[n] = d.pos[n]
      BY <1>0, <1>1, <1>2, <1>3, <1>6, <2>3 DEF Kids
    <3> QED BY <3>1, <3>2, ArrayAgrees DEF Forest
  <2> QED BY <2>1, <2>2, <2>3
<1>10. ASSUME NEW S \in SUBSET e.live, R \subseteq S, Closed(e, S) PROVE S = e.live
  <2>1. Closed(d, S \cap d.live)
    BY <1>0, <1>1, <1>2, <1>3, <1>10 DEF Closed
  <2>2. S \cap d.live = d.live
    BY <1>6, <1>10, <2>1 DEF Forest
  <2>3. g \in S
    BY <1>2, <1>3, <1>10, <2>2 DEF Closed
  <2> QED BY <1>3, <1>10, <2>2, <2>3
<1>11. \A m \in e.live \ R : e.parent[m] \in e.live \cap Containers
  BY <1>2, <1>3, <1>6
<1>12. R \subseteq e.live /\ \A r \in R : e.parent[r] = NoNode
  BY <1>0, <1>3, <1>6
<1> QED BY <1>9, <1>10, <1>11, <1>12 DEF Forest, e

(* A restore plan is a list of distinct indices. *)
Plan(c) ==
    /\ \A n \in c.restore : c.index[n] \in Nat
    /\ \A m, n \in c.restore : c.index[m] = c.index[n] => m = n

LEMMA UngroupForest ==
    ASSUME NEW d \in Document, NEW R, Forest(d, R), NEW c \in UngroupCommand,
           c.group \in d.live \ R, c.restore \subseteq Kids(d, c.group), Plan(c)
    PROVE  Forest(Ungrouped(d, c), R)
<1> DEFINE e == Ungrouped(d, c)
           g == c.group
           p == d.parent[g]
           K == Kids(d, g)
           L == Lifted(d, c)
           T == Kids(d, p) \ {g}
           dropped == UNION {Below(d, n) : n \in K \ L}
           at == IF c.restore = {} THEN SpilledPos(d, c) ELSE RestoredPos(d, c)
<1>0. /\ d.live \subseteq Node /\ NoNode \notin Node /\ g \in d.live /\ g \in Node
      /\ p \in d.live \cap Containers /\ L \subseteq K /\ K \subseteq d.live
      /\ g \in Kids(d, p)
  BY NodeAssumption DEF Document, Forest, Lifted, Kids
<1>1. /\ \A m \in d.live \ R : d.parent[m] \in d.live \cap Containers
      /\ R \subseteq d.live /\ \A r \in R : d.parent[r] = NoNode
  BY DEF Forest
<1>2. K \cap R = {} /\ g \notin R /\ \A n \in K : d.parent[n] = g
  BY <1>0, <1>1 DEF Kids
<1>3. \A n \in K : /\ n \in Below(d, n) /\ Below(d, n) \subseteq d.live
                   /\ Closed(d, Below(d, n)) /\ Below(d, n) \cap R = {}
                   /\ g \notin Below(d, n) /\ p \notin Below(d, n)
                   /\ \A m \in Below(d, n) : m # n => d.parent[m] \in Below(d, n)
  <2> TAKE n \in K
  <2>1. n \in d.live \ R /\ d.parent[n] = g
    BY <1>0, <1>2
  <2>2. /\ n \in Below(d, n) /\ Below(d, n) \subseteq d.live /\ Closed(d, Below(d, n))
        /\ g \notin Below(d, n) /\ R \cap Below(d, n) = {}
    BY <2>1, BelowLeast, NotBelowItself
  <2>3. p \notin Below(d, n)
    BY <1>0, <2>2 DEF Closed
  <2>4. \A m \in Below(d, n) : m # n => d.parent[m] \in Below(d, n)
    BY <2>1, BelowParent
  <2> QED BY <2>2, <2>3, <2>4
<1>4. p # g
  <2>1. g \in Below(d, g) /\ p \notin Below(d, g)
    BY <1>0, BelowLeast, NotBelowItself
  <2> QED BY <2>1
<1>5. /\ dropped \subseteq d.live /\ Closed(d, dropped) /\ dropped \cap R = {}
      /\ g \notin dropped /\ p \notin dropped /\ K \ L \subseteq dropped
      /\ \A m \in dropped : m \in K \ L \/ d.parent[m] \in dropped
  <2>1. \A m \in dropped : \E n \in K \ L : m \in Below(d, n)
    OBVIOUS
  <2>2. \A n \in K \ L : Below(d, n) \subseteq dropped
    OBVIOUS
  <2> HIDE DEF dropped, L, K, p
  <2> QED BY <1>0, <1>3, <2>1, <2>2 DEF Closed
<1>6. L \cap dropped = {}
  <2>1. \A m \in L : m \in K /\ d.parent[m] = g
    BY <1>0, <1>2
  <2> HIDE DEF dropped, L
  <2> QED BY <1>5, <2>1
<1>7. /\ e.live = (d.live \ {g}) \ dropped
      /\ \A m \in e.live : /\ e.parent[m] = IF m \in K THEN p ELSE d.parent[m]
                           /\ e.pos[m] = at[m]
  <2> HIDE DEF dropped, at
  <2> QED BY <1>0 DEF Ungrouped, Only, Document, dropped, at
<1>8. \A m \in d.live : m \notin K \cup T => at[m] = d.pos[m]
  <2>1. \A m \in d.live : m \notin K \cup T => SpilledPos(d, c)[m] = d.pos[m]
    BY <1>0 DEF SpilledPos
  <2>2. \A m \in d.live : m \notin K \cup T => RestoredPos(d, c)[m] = d.pos[m]
    BY <1>0 DEF RestoredPos
  <2> QED BY <2>1, <2>2
<1> HIDE DEF dropped, e, at
<1>9. ArrayOf(at, T \cup L)
  <2> DEFINE U == Kids(d, p)
             f == d.pos
  <2>1. /\ IsFiniteSet(U) /\ ArrayOf(f, U) /\ IsFiniteSet(K) /\ ArrayOf(f, K)
        /\ U \cap K = {} /\ g \in U /\ T = U \ {g} /\ U \subseteq Node /\ K \subseteq Node
    BY ZenonT(40), <1>0, <1>4, KidsFinite DEF Forest, Kids
  <2>2. CASE c.restore = {}
    <3>1. L = K
      BY <2>2 DEF Lifted
    <3>2. /\ \A n \in K : at[n] = f[g] + f[n]
          /\ \A n \in U \ {g} : at[n] = IF f[n] > f[g] THEN f[n] - 1 + Cardinality(K) ELSE f[n]
      <4>1. at = SpilledPos(d, c)
        BY <2>2 DEF at
      <4>2. \A n \in U \ {g} : f[n] \in Int
        BY <2>1 DEF ArrayOf
      <4>3. Cardinality(K) \in Nat
        BY <2>1, FS_CardinalityType
      <4> QED BY <2>1, <4>1, <4>2, <4>3 DEF SpilledPos, Width
    <3> HIDE DEF U, f, K, L, T
    <3>3. ArrayOf(at, (U \ {g}) \cup K)
      BY <2>1, <3>2, ArraySpill
    <3> QED BY <2>1, <3>1, <3>3
  <2>3. CASE c.restore # {}
    <3> DEFINE b == [n \in U |-> IF f[n] > f[g] THEN f[n] - 1 ELSE f[n]]
               i == c.index
               Q == c.restore
    <3>1. L = Q /\ Q \subseteq K
      BY <2>3 DEF Lifted
    <3>2. ArrayOf(b, U \ {g}) /\ IsFiniteSet(U \ {g})
      <4>1. \A n \in U \ {g} : b[n] = IF f[n] > f[g] THEN f[n] - 1 ELSE f[n]
        OBVIOUS
      <4> HIDE DEF U, f, b
      <4> QED BY <2>1, <4>1, ArrayRemove, FS_RemoveElement
    <3>3. IsFiniteSet(Q) /\ (U \ {g}) \cap Q = {}
      BY <2>1, <3>1, FS_Subset
    <3>4. at = RestoredPos(d, c)
      BY <2>3 DEF at
    <3>5. \A n \in Q : at[n] = Smaller(i[n], Cardinality(U \ {g}) + Rank(i, Q, n))
      BY <2>1, <3>1, <3>4 DEF RestoredPos, Rank
    <3>6. \A n \in U \ {g} :
            at[n] = b[n] + Cardinality({m \in Q : i[m] - Rank(i, Q, m) <= b[n]})
      BY <2>1, <3>3, <3>4 DEF RestoredPos, Rank
    <3>7. /\ \A n \in Q : i[n] \in Nat
          /\ \A m, n \in Q : i[m] = i[n] => m = n
      BY DEF Plan
    <3> DEFINE V == U \ {g}
    <3>8. /\ ArrayOf(b, V) /\ IsFiniteSet(V) /\ V \cap Q = {}
          /\ \A n \in Q : at[n] = Smaller(i[n], Cardinality(V) + Rank(i, Q, n))
          /\ \A n \in V : at[n] = b[n] + Cardinality({m \in Q : i[m] - Rank(i, Q, m) <= b[n]})
      BY <3>2, <3>3, <3>5, <3>6
    <3> HIDE DEF U, f, b, i, Q, K, L, T, V
    <3>9. ArrayOf(at, V \cup Q)
      BY <3>3, <3>7, <3>8, ArrayWeave
    <3> QED BY <2>1, <3>1, <3>9 DEF V
  <2> QED BY <2>2, <2>3
<1> HIDE DEF L
<1>10. ASSUME NEW q \in e.live PROVE ArrayOf(e.pos, Kids(e, q))
  <2>1. CASE q = p
    <3>1. Kids(e, q) = T \cup L
      <4>1. \A m \in Kids(d, p) : m \notin dropped /\ m \notin K
        BY <1>0, <1>2, <1>4, <1>5 DEF Kids
      <4>2. \A m \in L : m \in e.live /\ m \in K
        BY <1>0, <1>2, <1>4, <1>6, <1>7
      <4>3. \A m \in K \cap e.live : m \in L
        BY <1>5, <1>7
      <4>4. \A m \in T : m \in e.live
        BY <1>7, <4>1, KidsFinite
      <4>5. \A m \in e.live : m \in Kids(e, q) <=> m \in K \/ m \in Kids(d, p) \ {g}
        BY <1>7, <2>1 DEF Kids
      <4>6. Kids(e, q) \subseteq e.live
        BY DEF Kids
      <4> HIDE DEF K
      <4> QED BY <4>1, <4>2, <4>3, <4>4, <4>5, <4>6
    <3>2. \A m \in T \cup L : e.pos[m] = at[m]
      BY <1>7, <3>1 DEF Kids
    <3> QED BY <1>9, <3>1, <3>2, ArrayAgrees
  <2>2. CASE q # p
    <3>1. q \in d.live /\ q # g /\ q \notin dropped
      BY <1>7
    <3>2. Kids(e, q) = Kids(d, q)
      <4>1. \A m \in Kids(d, q) : m \in e.live /\ m \notin K
        BY <1>0, <1>2, <1>4, <1>5, <1>7, <2>2, <3>1 DEF Kids
      <4> QED BY <1>7, <2>2, <4>1 DEF Kids
    <3>3. \A m \in Kids(d, q) : m \in d.live /\ m \in e.live /\ m \notin K \cup T
      BY <2>2, <3>1, <3>2 DEF Kids
    <3>4. \A m \in Kids(d, q) : e.pos[m] = d.pos[m]
      BY <1>7, <1>8, <3>3
    <3> QED BY <3>1, <3>2, <3>4, ArrayAgrees DEF Forest
  <2> QED BY <2>1, <2>2
<1>11. ASSUME NEW S \in SUBSET e.live, R \subseteq S, Closed(e, S) PROVE S = e.live
  <2> DEFINE W == S \cup dropped \cup (IF p \in S THEN {g} ELSE {})
  <2>1. W \in SUBSET d.live /\ R \subseteq W
    BY <1>0, <1>5, <1>7, <1>11
  <2>2. ASSUME NEW m \in d.live, d.parent[m] \in W PROVE m \in W
    <3>1. CASE d.parent[m] \in dropped
      BY <1>5, <3>1 DEF Closed
    <3>2. CASE d.parent[m] = g /\ p \in S
      <4>1. m \in K
        BY <3>2 DEF Kids
      <4>2. m \in e.live => m \in S
        BY <1>7, <1>11, <3>2, <4>1 DEF Closed
      <4> QED BY <1>7, <3>2, <4>2
    <3>3. CASE d.parent[m] \in S
      <4>1. d.parent[m] # g
        BY <1>7, <1>11, <3>3
      <4>2. m \in e.live => m \in S
        BY <1>2, <1>7, <1>11, <3>3, <4>1 DEF Closed
      <4>3. m = g => p \in S
        BY <3>3
      <4> QED BY <1>7, <4>2, <4>3
    <3> QED BY <2>2, <3>1, <3>2, <3>3
  <2>3. W = d.live
    <3> HIDE DEF W
    <3> QED BY <2>1, <2>2 DEF Forest, Closed
  <2> QED BY <1>7, <1>11, <2>3
<1>12. ASSUME NEW m \in e.live \ R PROVE e.parent[m] \in e.live \cap Containers
  <2>1. CASE m \in K
    BY <1>0, <1>4, <1>5, <1>7, <2>1
  <2>2. CASE m \notin K
    <3>1. e.parent[m] = d.parent[m] /\ d.parent[m] \in d.live \cap Containers
      BY <1>1, <1>7, <2>2
    <3>2. d.parent[m] # g /\ d.parent[m] \notin dropped
      BY <1>5, <1>7, <2>2 DEF Kids, Closed
    <3> QED BY <1>7, <3>1, <3>2
  <2> QED BY <2>1, <2>2
<1>13. R \subseteq e.live /\ \A r \in R : e.parent[r] = NoNode
  BY <1>1, <1>2, <1>5, <1>7
<1> QED BY <1>10, <1>11, <1>12, <1>13 DEF Forest, e

-----------------------------------------------------------------------------
(* The steps of the machine. *)

(* A pending creation brings a tree, a pending grouping a group, and a      *)
(* pending ungrouping has a restore plan.                                   *)
WellShaped(c) ==
    /\ c.type = "node.create" => Forest(c.sub, {c.node})
    /\ c.type = "node.group" => c.group \in Groups
    /\ c.type = "node.ungroup" => Plan(c)

Formed == {c \in Entry : WellShaped(c)}

ShapeInv ==
    /\ Forest(doc, Roots)
    /\ undo \in [Host -> Seq(Formed)]
    /\ redo \in [Host -> Seq(Formed)]

(* Every command keeps the forest, and so will its inverse.                 *)
LEMMA StepForest ==
    ASSUME NEW d \in Document, Forest(d, Roots), NEW c \in Formed, NEW e, Accepts(e, d, c),
           Brings(c) \cap d.live = {}
    PROVE  Forest(After(d, c), Roots) /\ InverseOf(d, c) \in Formed
<1>0. c \in Entry /\ c \in Command /\ WellShaped(c) /\ InverseOf(d, c) \in Entry
  BY Handover DEF Formed, Entry
<1>1. CASE c \in CreateCommand
  <2>1. c.type = "node.create"
    BY <1>1 DEF CreateCommand
  <2>2. /\ c.parent \in d.live \cap Containers /\ c.at \in 0 .. Width(d, c.parent)
        /\ Forest(c.sub, {c.node}) /\ c.sub.live \cap d.live = {}
    BY <1>0, <2>1 DEF Accepts, CreateAccepts, WellShaped, Brings
  <2>3. Forest(Created(d, c), Roots)
    BY <1>1, <2>2, CreateForest
  <2>4. WellShaped(CreateInverse(d, c))
    BY DEF WellShaped, CreateInverse
  <2> QED BY <1>0, <2>1, <2>3, <2>4 DEF After, InverseOf, Formed
<1>2. CASE c \in DeleteCommand
  <2>1. c.type = "node.delete"
    BY <1>2 DEF DeleteCommand
  <2>2. c.node \in d.live \ Roots
    BY <2>1 DEF Accepts, DeleteAccepts, Movable
  <2>3. Forest(Deleted(d, c), Roots) /\ Forest(Subtree(d, c.node), {c.node})
    BY <1>2, <2>2, DeleteForest, SubtreeForest
  <2>4. WellShaped(DeleteInverse(d, c))
    BY <2>3 DEF WellShaped, DeleteInverse
  <2> QED BY <1>0, <2>1, <2>3, <2>4 DEF After, InverseOf, Formed
<1>3. CASE c \in MoveCommand
  <2>1. c.type = "node.move"
    BY <1>3 DEF MoveCommand
  <2>2. LET m == Moved(d, c) IN m.live = d.live /\ m.parent = d.parent /\ m.pos = d.pos
    BY DEF Moved, Document
  <2>3. Forest(Moved(d, c), Roots)
    BY <2>2, ForestAgrees
  <2>4. WellShaped(MoveInverse(d, c))
    BY DEF WellShaped, MoveInverse
  <2> QED BY <1>0, <2>1, <2>3, <2>4 DEF After, InverseOf, Formed
<1>4. CASE c \in UpdateCommand
  <2>1. c.type = "node.update"
    BY <1>4 DEF UpdateCommand
  <2>2. LET m == Updated(d, c) IN m.live = d.live /\ m.parent = d.parent /\ m.pos = d.pos
    BY DEF Updated, Document
  <2>3. Forest(Updated(d, c), Roots)
    BY <2>2, ForestAgrees
  <2>4. WellShaped(UpdateInverse(d, c))
    BY DEF WellShaped, UpdateInverse
  <2> QED BY <1>0, <2>1, <2>3, <2>4 DEF After, InverseOf, Formed
<1>5. CASE c \in ReorderCommand
  <2>1. c.type = "node.reorder"
    BY <1>5 DEF ReorderCommand
  <2>2. c.node \in d.live \ Roots
    BY <2>1 DEF Accepts, ReorderAccepts, Movable
  <2>3. Forest(Reordered(d, c), Roots)
    BY <1>5, <2>2, ReorderForest
  <2>4. WellShaped(ReorderInverse(d, c))
    BY DEF WellShaped, ReorderInverse
  <2> QED BY <1>0, <2>1, <2>3, <2>4 DEF After, InverseOf, Formed
<1>6. CASE c \in ReparentCommand
  <2>1. c.type = "node.reparent"
    BY <1>6 DEF ReparentCommand
  <2>2. /\ c.node \in d.live \ Roots /\ c.parent \in d.live \cap Containers
        /\ c.parent \notin Below(d, c.node)
    BY <2>1 DEF Accepts, ReparentAccepts, Movable
  <2>3. Forest(Reparented(d, c), Roots)
    BY <1>6, <2>2, ReparentForest
  <2>4. WellShaped(ReparentInverse(d, c))
    BY DEF WellShaped, ReparentInverse
  <2> QED BY <1>0, <2>1, <2>3, <2>4 DEF After, InverseOf, Formed
<1>7. CASE c \in GroupCommand
  <2>1. c.type = "node.group"
    BY <1>7 DEF GroupCommand
  <2>2. /\ c.kids # {} /\ c.kids \subseteq d.live \ Roots
        /\ \A m, n \in c.kids : d.parent[m] = d.parent[n]
        /\ c.group \in Containers \ d.live
    BY <1>0, <2>1 DEF Accepts, GroupAccepts, Movable, WellShaped, Containers
  <2>3. Forest(Grouped(d, c), Roots)
    BY <1>7, <2>2, GroupForest
  <2>4. \A n \in c.kids : d.pos[n] \in Nat /\ n \in Node
    <3> TAKE n \in c.kids
    <3>1. d.parent[n] \in d.live /\ n \in Kids(d, d.parent[n])
      BY <2>2 DEF Forest, Kids
    <3>2. d.pos[n] \in 0 .. Cardinality(Kids(d, d.parent[n])) - 1
      BY <3>1 DEF Forest, ArrayOf
    <3> QED BY <3>1, <3>2, KidsFinite
  <2>5. ASSUME NEW m \in c.kids, NEW n \in c.kids, d.pos[m] = d.pos[n] PROVE m = n
    <3>1. d.parent[n] \in d.live /\ m \in Kids(d, d.parent[n]) /\ n \in Kids(d, d.parent[n])
      BY <2>2 DEF Forest, Kids
    <3> QED BY <2>5, <3>1 DEF Forest, ArrayOf
  <2>6. /\ GroupInverse(d, c).type = "node.ungroup" /\ GroupInverse(d, c).restore = c.kids
        /\ \A n \in c.kids : GroupInverse(d, c).index[n] = d.pos[n]
    BY <2>4 DEF GroupInverse
  <2>7. WellShaped(GroupInverse(d, c))
    BY <2>4, <2>5, <2>6 DEF WellShaped, Plan
  <2> QED BY <1>0, <2>1, <2>3, <2>7 DEF After, InverseOf, Formed
<1>8. CASE c \in UngroupCommand
  <2>1. c.type = "node.ungroup"
    BY <1>8 DEF UngroupCommand
  <2>2. /\ c.group \in d.live \ Roots /\ c.group \in Groups /\ Plan(c)
        /\ c.restore \subseteq Kids(d, c.group)
    BY <1>0, <2>1 DEF Accepts, UngroupAccepts, WellShaped
  <2>3. Forest(Ungrouped(d, c), Roots)
    BY <1>8, <2>2, UngroupForest
  <2>4. WellShaped(UngroupInverse(d, c))
    BY <2>2 DEF WellShaped, UngroupInverse
  <2> QED BY <1>0, <2>1, <2>3, <2>4 DEF After, InverseOf, Formed
<1> QED BY <1>0, <1>1, <1>2, <1>3, <1>4, <1>5, <1>6, <1>7, <1>8 DEF Command

(* What hosts hand to node.create is a tree. *)
LEMMA PayloadForest ==
    ASSUME NEW n \in Node, NEW m \in Node, m = n \/ n \in Containers
    PROVE  Forest(Payload(n, m), {n})
<1> DEFINE d == Payload(n, m)
<1>0. /\ NoNode \notin Node /\ d.live = {n, m} /\ d.parent[n] = NoNode
      /\ m # n => d.parent[m] = n
      /\ d.pos[n] = 0 /\ d.pos[m] = 0
  BY NodeAssumption DEF Payload
<1> HIDE DEF d
<1>1. ASSUME NEW p \in d.live PROVE ArrayOf(d.pos, Kids(d, p))
  <2>1. CASE m # n /\ p = n
    <3>1. Kids(d, p) = {m} /\ Cardinality({m}) = 1
      BY <1>0, <2>1, FS_Singleton DEF Kids
    <3> QED BY <1>0, <3>1 DEF ArrayOf
  <2>2. CASE ~(m # n /\ p = n)
    <3>1. Kids(d, p) = {}
      BY <1>0, <2>2 DEF Kids
    <3> QED BY <3>1 DEF ArrayOf
  <2> QED BY <2>1, <2>2
<1> QED BY <1>0, <1>1 DEF Forest, Closed, d

LEMMA OfferedFormed ==
    ASSUME NEW c \in Entry, AsOffered(c)
    PROVE  c \in Formed
<1>1. c.type = "node.create" => Forest(c.sub, {c.node})
  BY PayloadForest DEF AsOffered
<1>2. c.type = "node.ungroup" => Plan(c)
  BY DEF AsOffered, Plan
<1> QED BY <1>1, <1>2 DEF AsOffered, WellShaped, Formed

LEMMA InitShape == Init => ShapeInv
<1> SUFFICES ASSUME Init PROVE ShapeInv
  OBVIOUS
<1>1. doc \in Document /\ Rooted(doc) /\ Shaped(doc)
  BY HistoryAssumption DEF Init
<1>2. undo \in [Host -> Seq(Formed)] /\ redo \in [Host -> Seq(Formed)]
  BY EmptySeq DEF Init
<1> QED BY <1>1, <1>2, ShapedForest DEF ShapeInv

(* No step breaks a tree or pushes an inverse that would. *)
LEMMA StepShape == TypeOK /\ OwnerInv /\ ShapeInv /\ [Next]_vars => ShapeInv'
<1> SUFFICES ASSUME TypeOK, OwnerInv, ShapeInv, [Next]_vars PROVE ShapeInv'
  OBVIOUS
<1>1. ASSUME NEW h \in Host, SubmitsFresh(h) PROVE ShapeInv'
  <2>1. PICK c \in Entry : Submit(h, c) /\ AsOffered(c) /\ Brings(c) \cap minted = {}
    BY <1>1 DEF SubmitsFresh
  <2>2. c \in Formed /\ Brings(c) \cap doc.live = {} /\ doc \in Document
    BY <2>1, OfferedFormed DEF OwnerInv, TypeOK
  <2>3. Forest(After(doc, c), Roots) /\ InverseOf(doc, c) \in Formed
    BY <2>1, <2>2, StepForest DEF Submit, ShapeInv
  <2>4. <<InverseOf(doc, c)>> \o undo[h] \in Seq(Formed) /\ <<>> \in Seq(Formed)
    BY <2>3, ConcatProperties, EmptySeq DEF ShapeInv
  <2> QED BY <2>1, <2>3, <2>4 DEF Submit, ShapeInv
<1>2. ASSUME NEW h \in Host, NEW o \in {"undo", "redo"}, NEW t \in {"undo", "redo"} \ {o},
             Replay(h, o, t)
      PROVE  ShapeInv'
  <2> DEFINE s == Side(undo, redo, o)[h]
             z == Side(undo, redo, t)[h]
             c == Head(s)
  <2>1. s \in Seq(Formed) /\ s # <<>> /\ z \in Seq(Formed)
    BY <1>2 DEF ShapeInv, Side, Replay
  <2>2. c \in Formed /\ Tail(s) \in Seq(Formed)
    <3> HIDE DEF s
    <3> QED BY <2>1, HeadTailProperties
  <2>3. Forest(After(doc, c), Roots) /\ InverseOf(doc, c) \in Formed
    <3>1. Brings(c) \cap doc.live = {} /\ doc \in Document /\ Accepts(EnforceOnReplay, doc, c)
      BY <1>2, ReplayBrings DEF TypeOK, Replay
    <3> HIDE DEF c
    <3> QED BY <2>2, <3>1, StepForest DEF ShapeInv
  <2>4. <<InverseOf(doc, c)>> \o z \in Seq(Formed)
    <3> HIDE DEF c, z
    <3> QED BY <2>1, <2>3, ConcatProperties
  <2>5. /\ Side(undo', redo', o) = [Side(undo, redo, o) EXCEPT ![h] = Tail(s)]
        /\ Side(undo', redo', t) = [Side(undo, redo, t) EXCEPT ![h] = <<InverseOf(doc, c)>> \o z]
        /\ doc' = After(doc, c)
    BY <1>2 DEF Replay
  <2>6. /\ Side(undo, redo, o) \in [Host -> Seq(Formed)]
        /\ Side(undo, redo, t) \in [Host -> Seq(Formed)]
    BY DEF ShapeInv, Side
  <2> HIDE DEF s, z, c
  <2>7. /\ Side(undo', redo', o) \in [Host -> Seq(Formed)]
        /\ Side(undo', redo', t) \in [Host -> Seq(Formed)]
    BY <2>2, <2>4, <2>5, <2>6
  <2>8. undo' \in [Host -> Seq(Formed)] /\ redo' \in [Host -> Seq(Formed)]
    <3>1. CASE o = "undo" /\ t = "redo"
      BY <2>7, <3>1 DEF Side
    <3>2. CASE o = "redo" /\ t = "undo"
      BY <2>7, <3>2 DEF Side
    <3> QED BY <3>1, <3>2
  <2> QED BY <2>3, <2>5, <2>8 DEF ShapeInv
<1>3. CASE UNCHANGED vars
  BY <1>3 DEF vars, ShapeInv
<1> QED BY <1>1, <1>2, <1>3, StepApplies DEF Applies

-----------------------------------------------------------------------------
(* Whatever any number of hosts submit, undo and redo, in any order: every  *)
(* node keeps a container as its parent, every node stays reachable from a  *)
(* page root, and the children of a container stay an array.                *)
THEOREM TreesStayTrees == Spec => []TreeShape
<1>1. Init => TypeOK /\ RootsInv /\ OwnerInv /\ ShapeInv
  BY InitInv, InitOwner, InitShape
<1>2. TypeOK /\ RootsInv /\ OwnerInv /\ ShapeInv /\ [Next]_vars
      => (TypeOK /\ RootsInv /\ OwnerInv /\ ShapeInv)'
  BY StepInv, StepOwner, StepShape
<1>3. TypeOK /\ RootsInv /\ OwnerInv /\ ShapeInv => TreeShape
  BY ShapedForest DEF TypeOK, RootsInv, ShapeInv, TreeShape
<1> QED BY <1>1, <1>2, <1>3, PTL DEF Spec

-----------------------------------------------------------------------------
(* Undo: for every command, the document it returns accepts the inverse it  *)
(* returns, which gives back the document the command was given; and so     *)
(* does every entry of the stacks of a host that edits alone.               *)

(* Two documents are the same when the nodes they have are.                 *)
LEMMA SameDocument ==
    ASSUME NEW d \in Document, NEW e \in Document, Blank(d), Blank(e), e.live = d.live,
           \A n \in d.live : /\ e.parent[n] = d.parent[n] /\ e.pos[n] = d.pos[n]
                             /\ e.x[n] = d.x[n] /\ e.lock[n] = d.lock[n]
    PROVE  e = d
<1>1. Only(d, d.live) = Only(e, d.live)
  BY DEF Only
<1> QED BY <1>1 DEF Blank

(* What Blank says of the ids a document does not have. *)
LEMMA BlankIds ==
    ASSUME NEW d \in Document
    PROVE  Blank(d) <=> \A n \in Node \ d.live : /\ d.parent[n] = NoNode /\ d.pos[n] = 0
                                                 /\ d.x[n] = 0 /\ d.lock[n] = "absent"
<1> DEFINE o == Only(d, d.live)
<1>1. o.live = d.live /\ o \in Document
  <2>1. d.live \in SUBSET Node
    BY DEF Document
  <2> QED BY <2>1, OnlyType DEF Only
<1>2. \A n \in Node : /\ o.parent[n] = IF n \in d.live THEN d.parent[n] ELSE NoNode
                      /\ o.pos[n] = IF n \in d.live THEN d.pos[n] ELSE 0
                      /\ o.x[n] = IF n \in d.live THEN d.x[n] ELSE 0
                      /\ o.lock[n] = IF n \in d.live THEN d.lock[n] ELSE "absent"
  BY DEF Only
<1> HIDE DEF o
<1>3. (\A n \in Node : /\ o.parent[n] = d.parent[n] /\ o.pos[n] = d.pos[n]
                       /\ o.x[n] = d.x[n] /\ o.lock[n] = d.lock[n]) => d = o
  BY <1>1 DEF Document
<1>4. d = o => \A n \in Node \ d.live : /\ d.parent[n] = NoNode /\ d.pos[n] = 0
                                        /\ d.x[n] = 0 /\ d.lock[n] = "absent"
  BY <1>2
<1> QED BY <1>2, <1>3, <1>4 DEF Blank, o

(* No command writes to an id outside the document it returns.              *)
LEMMA StepBlank ==
    ASSUME NEW d \in Document, NEW c \in Entry, NEW e, Accepts(e, d, c), Blank(d)
    PROVE  Blank(After(d, c))
<1> DEFINE f == After(d, c)
           Bare(n) == f.parent[n] = NoNode /\ f.pos[n] = 0 /\ f.x[n] = 0 /\ f.lock[n] = "absent"
<1>0. f \in Document /\ d.live \subseteq Node
  BY StepType DEF Document, Entry
<1>bare. \A n \in Node \ d.live : /\ d.parent[n] = NoNode /\ d.pos[n] = 0
                                  /\ d.x[n] = 0 /\ d.lock[n] = "absent"
  BY BlankIds
<1>1. ASSUME c \in CreateCommand, NEW n \in Node \ f.live PROVE Bare(n)
  <2>1. c.type = "node.create" /\ c.node \in Node
    BY <1>1 DEF CreateCommand
  <2>2. f = Created(d, c)
    BY <2>1 DEF After
  <2>3. n \notin d.live /\ n \notin c.sub.live
    BY <1>1, <2>2 DEF Created
  <2>4. n # c.node
    BY <2>1, <2>3 DEF Entry, Sound
  <2> QED BY <1>1, <1>bare, <2>2, <2>3, <2>4 DEF Created, WithGap, Kids
<1>2. ASSUME c \in DeleteCommand, NEW n \in Node \ f.live PROVE Bare(n)
  <2>1. c.type = "node.delete"
    BY <1>2 DEF DeleteCommand
  <2>2. f = Deleted(d, c)
    BY <2>1 DEF After
  <2> QED BY <1>2, <2>2 DEF Deleted, Only
<1>3. ASSUME c \in MoveCommand, NEW n \in Node \ f.live PROVE Bare(n)
  <2>1. c.type = "node.move"
    BY <1>3 DEF MoveCommand
  <2>2. f = Moved(d, c) /\ c.node \in d.live
    BY <2>1 DEF After, Accepts, MoveAccepts
  <2>3. n \notin d.live /\ n # c.node
    BY <1>3, <2>2 DEF Moved, Document
  <2> QED BY <1>0, <1>3, <1>bare, <2>2, <2>3 DEF Moved, Document
<1>4. ASSUME c \in UpdateCommand, NEW n \in Node \ f.live PROVE Bare(n)
  <2>1. c.type = "node.update"
    BY <1>4 DEF UpdateCommand
  <2>2. f = Updated(d, c) /\ c.node \in d.live
    BY <2>1 DEF After, Accepts, UpdateAccepts
  <2>3. n \notin d.live /\ n # c.node
    BY <1>4, <2>2 DEF Updated, Document
  <2> QED BY <1>0, <1>4, <1>bare, <2>2, <2>3 DEF Updated, Document
<1>5. ASSUME c \in ReorderCommand, NEW n \in Node \ f.live PROVE Bare(n)
  <2>1. c.type = "node.reorder"
    BY <1>5 DEF ReorderCommand
  <2>2. f = Reordered(d, c) /\ c.node \in d.live
    BY <2>1 DEF After, Accepts, ReorderAccepts, Movable
  <2>3. n \notin d.live /\ n # c.node
    BY <1>5, <2>2 DEF Reordered, Document
  <2>4. f.parent = d.parent /\ f.x = d.x /\ f.lock = d.lock
    BY <2>2 DEF Reordered, Document
  <2>5. f.pos[n] = d.pos[n]
    BY <1>5, <2>2, <2>3 DEF Reordered, Document, WithGap, WithoutSlot, Kids
  <2> QED BY <1>5, <1>bare, <2>3, <2>4, <2>5
<1>6. ASSUME c \in ReparentCommand, NEW n \in Node \ f.live PROVE Bare(n)
  <2>1. c.type = "node.reparent"
    BY <1>6 DEF ReparentCommand
  <2>2. f = Reparented(d, c) /\ c.node \in d.live
    BY <2>1 DEF After, Accepts, ReparentAccepts, Movable
  <2>3. n \notin d.live /\ n # c.node
    BY <1>6, <2>2 DEF Reparented, Document
  <2>4. f.parent[n] = d.parent[n] /\ f.x = d.x /\ f.lock = d.lock
    BY SMTT(30), <1>6, <2>2, <2>3 DEF Reparented, Document
  <2>5. f.pos[n] = d.pos[n]
    BY <1>6, <2>2, <2>3 DEF Reparented, Document, WithGap, WithoutSlot, Kids
  <2> QED BY <1>6, <1>bare, <2>3, <2>4, <2>5
<1>7. ASSUME c \in GroupCommand, NEW n \in Node \ f.live PROVE Bare(n)
  <2>1. c.type = "node.group" /\ c.group \in Node
    BY <1>7 DEF GroupCommand
  <2>2. f = Grouped(d, c) /\ c.kids \subseteq d.live
    BY <2>1 DEF After, Accepts, GroupAccepts, Movable
  <2>3. n \notin d.live /\ n # c.group /\ n \notin c.kids
    BY <1>7, <2>2 DEF Grouped
  <2> QED BY <1>0, <1>7, <1>bare, <2>1, <2>2, <2>3 DEF Grouped, Document, Kids
<1>8. ASSUME c \in UngroupCommand, NEW n \in Node \ f.live PROVE Bare(n)
  <2>1. c.type = "node.ungroup"
    BY <1>8 DEF UngroupCommand
  <2>2. f = Ungrouped(d, c)
    BY <2>1 DEF After
  <2> QED BY <1>8, <2>2 DEF Ungrouped, Only
<1>9. ASSUME NEW n \in Node \ f.live PROVE Bare(n)
  BY <1>1, <1>2, <1>3, <1>4, <1>5, <1>6, <1>7, <1>8, <1>9 DEF Command, Entry
<1> HIDE DEF f
<1> QED BY <1>0, <1>9, BlankIds DEF f

-----------------------------------------------------------------------------
(* Each command and its inverse.                                            *)

(* The documents have the same nodes, with the same fields. *)
Same(d, e) ==
    /\ e.live = d.live
    /\ \A n \in d.live : /\ e.parent[n] = d.parent[n] /\ e.pos[n] = d.pos[n]
                         /\ e.x[n] = d.x[n] /\ e.lock[n] = d.lock[n]

(* What node.create put under its node is the payload, so node.delete takes *)
(* out what it put in and closes the gap it made.                           *)
LEMMA CreateUndo ==
    ASSUME NEW d \in Document, Forest(d, Roots), NEW c \in CreateCommand,
           Forest(c.sub, {c.node}), c.sub.live \cap d.live = {},
           c.parent \in d.live \cap Containers, c.at \in 0 .. Width(d, c.parent)
    PROVE  /\ DeleteAccepts(FALSE, Created(d, c), CreateInverse(d, c))
           /\ Same(d, Deleted(Created(d, c), CreateInverse(d, c)))
<1> DEFINE e == Created(d, c)
           i == CreateInverse(d, c)
           n == c.node
           new == c.sub.live
           gap == WithGap(d, c.parent, c.at)
           back == Deleted(e, i)
<1>0. /\ d.live \subseteq Node /\ new \subseteq Node /\ NoNode \notin Node
      /\ n \in new /\ i.node = n /\ e \in Document
      /\ Roots \subseteq d.live /\ c.at \in Int /\ \A m \in d.live : d.pos[m] \in Int
  BY NodeAssumption, CreateType DEF Document, CreateCommand, Forest, CreateInverse
<1>1. /\ e.live = d.live \cup new
      /\ e.parent[n] = c.parent /\ e.pos[n] = c.at
      /\ \A m \in new \ {n} : e.parent[m] = c.sub.parent[m]
      /\ \A m \in d.live : /\ e.parent[m] = d.parent[m] /\ e.pos[m] = gap[m]
                           /\ e.x[m] = d.x[m] /\ e.lock[m] = d.lock[m]
  BY <1>0 DEF Created
<1>2. \A m \in d.live : gap[m] = IF m \in Kids(d, c.parent) /\ d.pos[m] >= c.at
                                 THEN d.pos[m] + 1 ELSE d.pos[m]
  BY <1>0 DEF WithGap
<1>3. /\ \A m \in new \ {n} : c.sub.parent[m] \in new
      /\ c.sub.parent[n] = NoNode
      /\ \A m \in d.live : d.parent[m] \in d.live \cup {NoNode}
  BY DEF Forest
<1> HIDE DEF e, i, gap
<1>4. Below(e, n) = new
  <2>1. /\ n \in e.live /\ new \in SUBSET e.live /\ Closed(e, new)
    BY <1>0, <1>1, <1>3 DEF Closed
  <2>2. Below(e, n) \subseteq new
    BY <1>0, <2>1, BelowLeast
  <2>3. Closed(c.sub, Below(e, n)) /\ n \in Below(e, n)
    <3>1. Closed(e, Below(e, n)) /\ n \in Below(e, n)
      BY <2>1, BelowLeast
    <3>2. \A m \in new : c.sub.parent[m] \in Below(e, n) => m # n
      BY <1>0, <1>3, <2>2
    <3> QED BY <1>0, <1>1, <3>1, <3>2 DEF Closed
  <2> QED BY <2>2, <2>3 DEF Forest
<1>5. DeleteAccepts(FALSE, e, i)
  BY <1>0, <1>1 DEF DeleteAccepts, Movable, LockedOut
<1>6. /\ back.live = d.live
      /\ \A m \in d.live : /\ back.parent[m] = e.parent[m] /\ back.x[m] = e.x[m]
                           /\ back.lock[m] = e.lock[m]
                           /\ back.pos[m] = WithoutSlot(e, n)[m]
  BY <1>0, <1>1, <1>4 DEF Deleted, Only, Document
<1>7. ASSUME NEW m \in d.live PROVE WithoutSlot(e, n)[m] = d.pos[m]
  <2>1. WithoutSlot(e, n)[m] = IF m \in Kids(e, c.parent) /\ e.pos[m] > c.at
                               THEN e.pos[m] - 1 ELSE e.pos[m]
    BY <1>0, <1>1 DEF WithoutSlot
  <2>2. m \in Kids(e, c.parent) <=> m \in Kids(d, c.parent)
    BY <1>1 DEF Kids
  <2>3. d.pos[m] \in Int /\ c.at \in Int
    BY <1>0
  <2> QED BY <1>1, <1>2, <2>1, <2>2, <2>3
<1> HIDE DEF back
<1>8. Same(d, back)
  BY <1>1, <1>6, <1>7 DEF Same
<1> QED BY <1>5, <1>8 DEF back, e, i

(* The nodes above m in d, of the part that stays, and above m within the   *)
(* part that goes, when the subtree of n is taken out: no node is in both,  *)
(* so the subtree fits where it was.                                        *)
LEMMA DepthAdds ==
    ASSUME NEW d \in Document, Forest(d, Roots), NEW c \in DeleteCommand,
           c.node \in d.live \ Roots, ~TooDeep(d)
    PROVE  FitsUnder(Deleted(d, c), Subtree(d, c.node), d.parent[c.node])
<1> DEFINE e == Deleted(d, c)
           n == c.node
           p == d.parent[n]
           gone == Below(d, n)
           sub == Subtree(d, n)
<1>0. /\ d.live \subseteq Node /\ NoNode \notin Node
      /\ n \in gone /\ gone \subseteq d.live /\ Closed(d, gone) /\ p \notin gone
      /\ p \in d.live
  <2>1. /\ n \in gone /\ gone \subseteq d.live /\ Closed(d, gone) /\ p \notin gone
    BY BelowLeast, NotBelowItself
  <2> QED BY <2>1, NodeAssumption DEF Document, Forest
<1>1. e.live = d.live \ gone /\ \A m \in d.live \ gone : e.parent[m] = d.parent[m]
  <2> HIDE DEF gone
  <2> QED BY <1>0 DEF Deleted, Only, Document, gone
<1>2. sub.live = gone /\ sub.parent[n] = NoNode /\ \A m \in gone \ {n} : sub.parent[m] = d.parent[m]
  <2> HIDE DEF gone
  <2> QED BY <1>0 DEF Subtree, Only, Document, gone
<1> HIDE DEF e, gone, sub
<1>3. ASSUME NEW k \in e.live PROVE Below(e, k) \subseteq Below(d, k)
  <2>1. k \in d.live
    BY <1>1, <1>3
  <2>2. /\ k \in Below(d, k) \cap e.live /\ Below(d, k) \cap e.live \in SUBSET e.live
        /\ Closed(e, Below(d, k) \cap e.live)
    BY <1>1, <1>3, <2>1, BelowLeast DEF Closed
  <2>3. Below(e, k) \subseteq Below(d, k) \cap e.live
    BY <1>3, <2>2, BelowLeast
  <2> QED BY <2>3
<1>4. ASSUME NEW k \in gone PROVE Below(sub, k) \subseteq Below(d, k)
  <2>1. k \in d.live
    BY <1>0, <1>4
  <2>2. /\ k \in Below(d, k) \cap gone /\ Below(d, k) \cap gone \in SUBSET sub.live
    BY <1>2, <1>4, <2>1, BelowLeast
  <2>3. Closed(sub, Below(d, k) \cap gone)
    BY <1>0, <1>2, <2>1, BelowLeast DEF Closed
  <2>4. Below(sub, k) \subseteq Below(d, k) \cap gone
    BY <1>2, <1>4, <2>2, <2>3, BelowLeast
  <2> QED BY <2>4
<1>5. ASSUME NEW m \in gone
      PROVE  /\ Above(e, p) \subseteq Above(d, m) /\ Above(sub, m) \subseteq Above(d, m)
             /\ Above(e, p) \cap Above(sub, m) = {}
             /\ Above(d, m) \subseteq d.live
  <2>1. ASSUME NEW k \in Above(e, p) PROVE k \in Above(d, m)
    <3>1. k \in e.live /\ k \in d.live /\ p \in Below(e, k)
      BY <1>1, <2>1 DEF Above
    <3>2. p \in Below(d, k)
      BY <1>3, <3>1
    <3>3. n \in Below(d, k)
      BY <1>0, <3>1, <3>2, BelowLeast DEF Closed
    <3>4. gone \subseteq Below(d, k)
      BY <1>0, <3>1, <3>3, BelowLeast DEF gone
    <3> QED BY <1>5, <3>1, <3>4 DEF Above
  <2>2. ASSUME NEW k \in Above(sub, m) PROVE k \in Above(d, m)
    BY <1>0, <1>2, <1>4, <2>2 DEF Above
  <2>3. Above(e, p) \subseteq d.live \ gone /\ Above(sub, m) \subseteq gone
    BY <1>1, <1>2 DEF Above
  <2> QED BY <2>1, <2>2, <2>3 DEF Above
<1>6. ASSUME NEW m \in gone
      PROVE  /\ Cardinality(Above(e, p)) \in Nat /\ Cardinality(Above(sub, m)) \in Nat
             /\ Cardinality(Above(d, m)) \in Nat
             /\ Cardinality(Above(e, p)) + Cardinality(Above(sub, m)) <= Cardinality(Above(d, m))
  <2> DEFINE A == Above(e, p)
             B == Above(sub, m)
             C == Above(d, m)
  <2>1. A \in SUBSET C /\ B \in SUBSET C /\ A \cap B = {} /\ C \subseteq Node
    BY <1>0, <1>5
  <2> HIDE DEF A, B, C
  <2>2. IsFiniteSet(C) /\ Cardinality(C) \in Nat
    BY <2>1, NodeCount
  <2>3. IsFiniteSet(A) /\ IsFiniteSet(B) /\ A \cup B \in SUBSET C
    BY <2>1, <2>2, FS_Subset
  <2>4. Cardinality(A) \in Nat /\ Cardinality(B) \in Nat /\ Cardinality(A \cap B) = 0
    BY <2>1, <2>3, FS_CardinalityType, FS_EmptySet
  <2>5. Cardinality(A \cup B) = Cardinality(A) + Cardinality(B) - Cardinality(A \cap B)
    BY <2>3, FS_Union
  <2>6. Cardinality(A \cup B) <= Cardinality(C)
    BY <2>2, <2>3, FS_Subset
  <2>7. Cardinality(A) + Cardinality(B) <= Cardinality(C)
    BY <2>4, <2>5, <2>6
  <2> QED BY <2>2, <2>4, <2>7 DEF A, B, C
<1>7. ASSUME NEW m \in gone PROVE Cardinality(Above(d, m)) - 1 <= MaxTreeDepth
  <2>1. CASE Cardinality(d.live) > MaxTreeDepth + 1
    <3>1. ~(Depth(d, m) > MaxTreeDepth)
      BY <1>0, <1>7, <2>1 DEF TooDeep
    <3> QED BY <1>6, <1>7, <3>1, NodeAssumption DEF Depth
  <2>2. CASE ~(Cardinality(d.live) > MaxTreeDepth + 1)
    <3>1. Above(d, m) \in SUBSET d.live /\ IsFiniteSet(d.live) /\ Cardinality(d.live) \in Nat
      BY <1>0, <1>5, <1>7, NodeCount
    <3>2. Cardinality(Above(d, m)) <= Cardinality(d.live)
      BY <3>1, FS_Subset
    <3> QED BY <1>6, <1>7, <2>2, <3>1, <3>2, NodeAssumption
  <2> QED BY <2>1, <2>2
<1>8. ASSUME NEW m \in sub.live PROVE Depth(e, p) + 1 + Depth(sub, m) <= MaxTreeDepth
  <2>1. m \in gone
    BY <1>2, <1>8
  <2>2. /\ Depth(e, p) = Cardinality(Above(e, p)) - 1
        /\ Depth(sub, m) = Cardinality(Above(sub, m)) - 1
    BY DEF Depth
  <2> QED BY <1>6, <1>7, <2>1, <2>2, NodeAssumption
<1> QED BY <1>8 DEF FitsUnder, e, sub

(* What node.delete took out is the payload of its inverse, which puts it   *)
(* back at its slot.                                                        *)
LEMMA DeleteUndo ==
    ASSUME NEW d \in Document, Forest(d, Roots), NEW c \in DeleteCommand,
           c.node \in d.live \ Roots, ~TooDeep(d)
    PROVE  /\ CreateAccepts(FALSE, Deleted(d, c), DeleteInverse(d, c))
           /\ Same(d, Created(Deleted(d, c), DeleteInverse(d, c)))
<1> DEFINE e == Deleted(d, c)
           i == DeleteInverse(d, c)
           n == c.node
           p == d.parent[n]
           gone == Below(d, n)
           back == Created(e, i)
<1>0. /\ d.live \subseteq Node /\ NoNode \notin Node
      /\ n \in gone /\ gone \subseteq d.live /\ Closed(d, gone) /\ p \notin gone
      /\ p \in d.live \cap Containers /\ n \in Kids(d, p)
      /\ \A m \in d.live : d.pos[m] \in Int
  <2>1. /\ n \in gone /\ gone \subseteq d.live /\ Closed(d, gone) /\ p \notin gone
    BY BelowLeast, NotBelowItself
  <2> QED BY <2>1, NodeAssumption DEF Document, Forest, Kids
<1>1. /\ e.live = d.live \ gone
      /\ \A m \in d.live \ gone : /\ e.parent[m] = d.parent[m] /\ e.pos[m] = WithoutSlot(d, n)[m]
                                  /\ e.x[m] = d.x[m] /\ e.lock[m] = d.lock[m]
  <2> HIDE DEF gone
  <2> QED BY <1>0 DEF Deleted, Only, Document, gone
<1>2. /\ i.sub.live = gone /\ i.node = n /\ i.parent = p /\ i.at = d.pos[n]
      /\ \A m \in gone : /\ m # n => i.sub.parent[m] = d.parent[m] /\ i.sub.pos[m] = d.pos[m]
                         /\ i.sub.x[m] = d.x[m] /\ i.sub.lock[m] = d.lock[m]
      /\ i.sub = Subtree(d, n)
  <2> HIDE DEF gone
  <2> QED BY <1>0 DEF DeleteInverse, Subtree, Only, Document, gone
<1>3. FitsUnder(e, i.sub, p)
  BY <1>2, DepthAdds
<1>4. \A m \in d.live : WithoutSlot(d, n)[m] = IF m \in Kids(d, p) /\ d.pos[m] > d.pos[n]
                                               THEN d.pos[m] - 1 ELSE d.pos[m]
  BY <1>0 DEF WithoutSlot
<1> HIDE DEF e, i, gone
<1>5. Kids(e, p) = Kids(d, p) \ {n}
  <2>1. \A m \in gone \ {n} : d.parent[m] \in gone
    BY BelowParent DEF gone
  <2> QED BY <1>0, <1>1, <2>1 DEF Kids
<1>6. ArrayOf(d.pos, Kids(d, p)) /\ IsFiniteSet(Kids(d, p))
  BY <1>0, KidsFinite DEF Forest
<1>7. i.at \in 0 .. Width(e, p)
  <2>1. Width(e, p) = Width(d, p) - 1
    <3> HIDE DEF p
    <3>1. Cardinality(Kids(d, p) \ {n}) = Cardinality(Kids(d, p)) - 1
      BY <1>0, <1>6, FS_RemoveElement
    <3> QED BY <1>5, <3>1 DEF Width
  <2>3. Width(d, p) \in Nat
    BY KidsType
  <2>2. d.pos[n] \in 0 .. Width(d, p) - 1
    BY <1>0, <1>6 DEF ArrayOf, Width
  <2> QED BY <1>2, <2>1, <2>2, <2>3
<1>8. CreateAccepts(FALSE, e, i)
  BY <1>0, <1>1, <1>2, <1>3, <1>7 DEF CreateAccepts
<1>9. /\ back.live = d.live
      /\ back.parent[n] = p /\ back.pos[n] = d.pos[n]
      /\ \A m \in gone : /\ m # n => back.parent[m] = d.parent[m] /\ back.pos[m] = d.pos[m]
                         /\ back.x[m] = d.x[m] /\ back.lock[m] = d.lock[m]
      /\ \A m \in d.live \ gone :
            /\ back.parent[m] = d.parent[m] /\ back.x[m] = d.x[m] /\ back.lock[m] = d.lock[m]
            /\ back.pos[m] = WithGap(e, p, d.pos[n])[m]
  BY <1>0, <1>1, <1>2 DEF Created
<1> HIDE DEF back
<1>10. ASSUME NEW m \in d.live \ gone PROVE back.pos[m] = d.pos[m]
  <2>1. WithGap(e, p, d.pos[n])[m] = IF m \in Kids(d, p) \ {n} /\ e.pos[m] >= d.pos[n]
                                     THEN e.pos[m] + 1 ELSE e.pos[m]
    BY <1>0, <1>5 DEF WithGap
  <2>2. d.pos[m] \in Int /\ d.pos[n] \in Int /\ m # n
    BY <1>0
  <2>3. m \in Kids(d, p) => d.pos[m] # d.pos[n]
    BY <1>0, <1>6, <2>2 DEF ArrayOf
  <2>4. e.pos[m] = IF m \in Kids(d, p) /\ d.pos[m] > d.pos[n] THEN d.pos[m] - 1 ELSE d.pos[m]
    BY <1>1, <1>4
  <2> QED BY <1>9, <2>1, <2>2, <2>3, <2>4
<1>11. Same(d, back)
  BY <1>9, <1>10 DEF Same
<1> QED BY <1>8, <1>11 DEF back, e, i

LEMMA MoveUndo ==
    ASSUME NEW d \in Document, NEW c \in MoveCommand, c.node \in d.live
    PROVE  /\ MoveAccepts(FALSE, Moved(d, c), MoveInverse(d, c))
           /\ Same(d, Moved(Moved(d, c), MoveInverse(d, c)))
<1> DEFINE e == Moved(d, c)
           i == MoveInverse(d, c)
<1>1. /\ e.live = d.live /\ e.parent = d.parent /\ e.pos = d.pos /\ e.lock = d.lock
      /\ e.x = [d.x EXCEPT ![c.node] = c.to]
      /\ i.node = c.node /\ i.to = d.x[c.node]
  BY DEF Moved, MoveInverse, Document
<1>2. LET back == Moved(e, i)
      IN  /\ back.live = d.live /\ back.parent = d.parent /\ back.pos = d.pos
          /\ back.lock = d.lock
          /\ back.x = [e.x EXCEPT ![c.node] = d.x[c.node]]
  BY <1>1 DEF Moved, Document
<1> HIDE DEF e, i
<1>3. MoveAccepts(FALSE, e, i)
  BY <1>1 DEF MoveAccepts, LockedOut
<1>4. \A n \in d.live : Moved(e, i).x[n] = d.x[n]
  BY <1>1, <1>2 DEF Document
<1> QED BY <1>2, <1>3, <1>4 DEF Same, e, i

LEMMA UpdateUndo ==
    ASSUME NEW d \in Document, NEW c \in UpdateCommand, c.node \in d.live
    PROVE  /\ UpdateAccepts(FALSE, Updated(d, c), UpdateInverse(d, c))
           /\ Same(d, Updated(Updated(d, c), UpdateInverse(d, c)))
<1> DEFINE e == Updated(d, c)
           i == UpdateInverse(d, c)
           n == c.node
<1>1. /\ e.live = d.live /\ e.parent = d.parent /\ e.pos = d.pos
      /\ e.lock = [d.lock EXCEPT ![n] = IF "locked" \in c.keys THEN c.lock ELSE d.lock[n]]
      /\ e.x = [d.x EXCEPT ![n] = IF "transform" \in c.keys THEN c.to ELSE d.x[n]]
      /\ i.node = n /\ i.keys = c.keys
      /\ "locked" \in c.keys => i.lock = d.lock[n]
      /\ "transform" \in c.keys => i.to = d.x[n]
  BY DEF Updated, UpdateInverse, Document
<1>2. LET back == Updated(e, i)
      IN  /\ back.live = d.live /\ back.parent = d.parent /\ back.pos = d.pos
          /\ back.lock = [e.lock EXCEPT ![n] = IF "locked" \in c.keys THEN d.lock[n] ELSE e.lock[n]]
          /\ back.x = [e.x EXCEPT ![n] = IF "transform" \in c.keys THEN d.x[n] ELSE e.x[n]]
  BY <1>1 DEF Updated, Document
<1> HIDE DEF e, i
<1>3. UpdateAccepts(FALSE, e, i)
  BY <1>1 DEF UpdateAccepts, LockedOut
<1>4. \A m \in d.live : Updated(e, i).x[m] = d.x[m] /\ Updated(e, i).lock[m] = d.lock[m]
  BY <1>1, <1>2 DEF Document
<1> QED BY <1>2, <1>3, <1>4 DEF Same, e, i

(* node.reorder and node.reparent: e is d with n spliced out of its array   *)
(* and into that of p.  Splicing it back at its old slot undoes both.       *)
LEMMA PutBack ==
    ASSUME NEW d \in Document, NEW R, Forest(d, R), NEW n \in d.live \ R, NEW p \in d.live,
           NEW to \in 0 .. Width(Out(d, n), p), NEW e \in Document,
           e.live = d.live, e.parent = [d.parent EXCEPT ![n] = p],
           e.pos = [WithGap(Out(d, n), p, to) EXCEPT ![n] = to]
    PROVE  LET q == d.parent[n]
           IN  /\ Width(Out(e, n), q) = Width(d, q) - 1
               /\ Width(d, q) \in Nat
               /\ d.pos[n] \in 0 .. Width(d, q) - 1
               /\ \A m \in d.live \ {n} : WithGap(Out(e, n), q, d.pos[n])[m] = d.pos[m]
<1> DEFINE o == Out(d, n)
           u == Out(e, n)
           q == d.parent[n]
<1>0. d.live \subseteq Node /\ n \in Node /\ \A m \in d.live : d.pos[m] \in Int
  BY DEF Document
<1>1. q \in d.live /\ n \in Kids(d, q) /\ ArrayOf(d.pos, Kids(d, q))
  BY DEF Forest, Kids
<1>2. /\ o \in Document /\ o.live = d.live \ {n} /\ o.parent = d.parent
      /\ \A r \in d.live : Kids(o, r) = Kids(d, r) \ {n}
  <2>1. o.live = d.live \ {n} /\ o.parent = d.parent
    BY DEF Out, Document
  <2>2. o \in Document /\ \A r \in d.live : Kids(o, r) = Kids(d, r) \ {n}
    BY OutArrays
  <2> QED BY <2>1, <2>2
<1>3. \A m \in d.live : o.pos[m] = IF m \in Kids(d, q) /\ d.pos[m] > d.pos[n]
                                   THEN d.pos[m] - 1 ELSE d.pos[m]
  BY <1>0 DEF Out, WithoutSlot, Document
<1> HIDE DEF o
<1>4. /\ to \in Int /\ e.parent[n] = p /\ \A m \in d.live \ {n} : e.parent[m] = d.parent[m]
      /\ e.pos[n] = to
      /\ \A m \in d.live \ {n} :
           e.pos[m] = IF m \in Kids(o, p) /\ o.pos[m] >= to THEN o.pos[m] + 1 ELSE o.pos[m]
  <2>1. Width(Out(d, n), p) \in Nat
    BY <1>2, KidsType DEF o
  <2>2. to \in Int
    BY <2>1
  <2>3. WithGap(o, p, to) \in [Node -> Int] /\ e.pos = [WithGap(o, p, to) EXCEPT ![n] = to]
    BY <1>2, <2>2, ShiftType DEF o
  <2>4. \A m \in Node : WithGap(o, p, to)[m]
                        = IF m \in Kids(o, p) /\ o.pos[m] >= to THEN o.pos[m] + 1 ELSE o.pos[m]
    BY DEF WithGap
  <2> HIDE DEF q
  <2> QED BY <1>0, <2>2, <2>3, <2>4 DEF Document
<1>5. \A m \in d.live \ {n} : m \in Kids(e, p) <=> m \in Kids(o, p)
  BY SMTT(30), <1>2, <1>4 DEF Kids
<1>6. /\ u.live = d.live \ {n} /\ u.parent = e.parent
      /\ \A m \in d.live \ {n} : u.pos[m] = IF m \in Kids(e, p) /\ e.pos[m] > to
                                          THEN e.pos[m] - 1 ELSE e.pos[m]
  BY <1>0, <1>4 DEF Out, WithoutSlot, Document
<1>7. \A m \in d.live \ {n} : u.pos[m] = o.pos[m]
  <2> TAKE m \in d.live \ {n}
  <2>1. o.pos[m] \in Int
    BY <1>0, <1>2 DEF Document
  <2> QED BY <1>4, <1>5, <1>6, <2>1
<1> HIDE DEF u
<1>8. Kids(u, q) = Kids(d, q) \ {n}
  BY <1>4, <1>6 DEF Kids
<1>9. Width(u, q) = Width(d, q) - 1 /\ Width(d, q) \in Nat
  <2> HIDE DEF q
  <2>1. Cardinality(Kids(d, q) \ {n}) = Cardinality(Kids(d, q)) - 1
    BY <1>1, KidsFinite, FS_RemoveElement
  <2> QED BY <1>8, <2>1, KidsType DEF Width
<1>10. d.pos[n] \in 0 .. Width(d, q) - 1
  BY <1>1 DEF ArrayOf, Width
<1>11. ASSUME NEW m \in d.live \ {n} PROVE WithGap(u, q, d.pos[n])[m] = d.pos[m]
  <2>1. WithGap(u, q, d.pos[n])[m] = IF m \in Kids(d, q) /\ u.pos[m] >= d.pos[n]
                                     THEN u.pos[m] + 1 ELSE u.pos[m]
    BY <1>0, <1>8 DEF WithGap
  <2>2. m \in Kids(d, q) => d.pos[m] # d.pos[n]
    BY <1>1 DEF ArrayOf
  <2>3. d.pos[m] \in Int /\ d.pos[n] \in Int
    BY <1>0
  <2> QED BY <1>3, <1>7, <2>1, <2>2, <2>3
<1> QED BY <1>9, <1>10, <1>11 DEF u

LEMMA ReorderUndo ==
    ASSUME NEW d \in Document, Forest(d, Roots), NEW c \in ReorderCommand,
           c.node \in d.live \ Roots
    PROVE  /\ ReorderAccepts(FALSE, Reordered(d, c), ReorderInverse(d, c))
           /\ Same(d, Reordered(Reordered(d, c), ReorderInverse(d, c)))
<1> DEFINE e == Reordered(d, c)
           i == ReorderInverse(d, c)
           n == c.node
           p == d.parent[n]
           to == Clamp(c.at, Width(d, p) - 1)
<1>0. d.live \subseteq Node /\ n \in Node /\ i.node = n /\ i.at = d.pos[n] /\ c.at \in Int
  BY DEF Document, ReorderInverse, ReorderCommand
<1>1. /\ p \in d.live /\ n \in Kids(d, p)
      /\ IsFiniteSet(Kids(d, p)) /\ Kids(Out(d, n), p) = Kids(d, p) \ {n}
  <2>1. p \in d.live /\ n \in Kids(d, p)
    BY DEF Forest, Kids
  <2> QED BY <2>1, OutArrays, KidsFinite
<1>2. to \in 0 .. Width(Out(d, n), p)
  <2> HIDE DEF p
  <2>1. Width(d, p) \in Nat /\ Width(Out(d, n), p) \in Nat
    BY OutArrays, KidsType
  <2>2. Width(Out(d, n), p) = Width(d, p) - 1
    BY <1>1, FS_RemoveElement DEF Width
  <2> QED BY <1>0, <2>1, <2>2 DEF Clamp, Smaller
<1>3. /\ e.live = d.live /\ e.parent = d.parent /\ e.x = d.x /\ e.lock = d.lock
      /\ e.pos = [WithGap(Out(d, n), p, to) EXCEPT ![n] = to]
      /\ e \in Document
  <2>1. e \in Document
    BY ReorderType
  <2> HIDE DEF p, to
  <2> QED BY <2>1 DEF Reordered, Out, Document, p, to
<1>4. e.parent = [d.parent EXCEPT ![n] = p]
  BY <1>3 DEF Document
<1>5. /\ Width(Out(e, n), p) = Width(d, p) - 1 /\ Width(d, p) \in Nat
      /\ d.pos[n] \in 0 .. Width(d, p) - 1
      /\ \A m \in d.live \ {n} : WithGap(Out(e, n), p, d.pos[n])[m] = d.pos[m]
  <2> HIDE DEF e, to
  <2> QED BY <1>1, <1>2, <1>3, <1>4, PutBack
<1> HIDE DEF e, i, to
<1>6. Width(e, p) = Width(d, p)
  BY <1>3 DEF Width, Kids
<1>7. Clamp(i.at, Width(e, p) - 1) = d.pos[n]
  BY <1>0, <1>5, <1>6 DEF Clamp, Smaller
<1> DEFINE back == Reordered(e, i)
<1>8. /\ back.live = d.live /\ back.parent = d.parent /\ back.x = d.x /\ back.lock = d.lock
      /\ back.pos = [WithGap(Out(e, n), p, d.pos[n]) EXCEPT ![n] = d.pos[n]]
  <2> DEFINE at == Clamp(i.at, Width(e, p) - 1)
  <2>1. back = [e EXCEPT !.pos = [WithGap(Out(e, n), p, at) EXCEPT ![n] = at]]
    BY <1>0, <1>3 DEF Reordered, Out
  <2> HIDE DEF at, back
  <2>2. back = [e EXCEPT !.pos = [WithGap(Out(e, n), p, d.pos[n]) EXCEPT ![n] = d.pos[n]]]
    BY <1>7, <2>1 DEF at
  <2> QED BY <1>3, <2>2 DEF Document
<1> HIDE DEF back
<1>9. \A m \in d.live : back.pos[m] = d.pos[m]
  <2>1. DOMAIN WithGap(Out(e, n), p, d.pos[n]) = Node
    BY DEF WithGap
  <2> QED BY <1>0, <1>5, <1>8, <2>1
<1>10. ReorderAccepts(FALSE, e, i)
  BY <1>0, <1>3 DEF ReorderAccepts, Movable, LockedOut
<1> QED BY <1>8, <1>9, <1>10 DEF Same, e, i, back

(* A node that was moved under another parent may be moved back: what is    *)
(* below it is what was, and its old parent is still in the same tree.      *)
LEMMA ReparentUndo ==
    ASSUME NEW d \in Document, Forest(d, Roots), NEW c \in ReparentCommand,
           ReparentAccepts(FALSE, d, c)
    PROVE  /\ ReparentAccepts(FALSE, Reparented(d, c), ReparentInverse(d, c))
           /\ Same(d, Reparented(Reparented(d, c), ReparentInverse(d, c)))
<1> DEFINE e == Reparented(d, c)
           i == ReparentInverse(d, c)
           n == c.node
           p == c.parent
           q == d.parent[n]
           to == Clamp(c.at, Width(Out(d, n), p))
<1>0. /\ d.live \subseteq Node /\ n \in Node /\ n \in d.live \ Roots
      /\ p \in d.live \cap Containers /\ p \notin Below(d, n)
      /\ i.node = n /\ i.at = d.pos[n] /\ i.parent = q /\ c.at \in Int
      /\ q \in d.live \cap Containers /\ Roots \subseteq d.live
  BY DEF Document, ReparentInverse, ReparentCommand, ReparentAccepts, Movable, Forest
<1>1. PICK r \in Roots : n \in Below(d, r) /\ p \in Below(d, r)
  BY DEF ReparentAccepts
<1>2. to \in 0 .. Width(Out(d, n), p)
  <2>1. Width(Out(d, n), p) \in Nat
    BY <1>0, OutArrays, KidsType
  <2> QED BY <1>0, <2>1 DEF Clamp, Smaller
<1>3. /\ e.live = d.live /\ e.parent = [d.parent EXCEPT ![n] = p] /\ e.x = d.x
      /\ e.lock = d.lock
      /\ e.pos = [WithGap(Out(d, n), p, to) EXCEPT ![n] = to]
      /\ e \in Document
  <2>1. e \in Document
    BY ReparentType
  <2> HIDE DEF to
  <2> QED BY <2>1 DEF Reparented, Out, Document, to
<1>4. e.parent[n] = p /\ \A m \in d.live \ {n} : e.parent[m] = d.parent[m]
  BY <1>0, <1>3 DEF Document
<1>5. /\ Width(Out(e, n), q) = Width(d, q) - 1 /\ Width(d, q) \in Nat
      /\ d.pos[n] \in 0 .. Width(d, q) - 1
      /\ \A m \in d.live \ {n} : WithGap(Out(e, n), q, d.pos[n])[m] = d.pos[m]
  <2> HIDE DEF e, to
  <2> QED BY <1>0, <1>2, <1>3, PutBack
<1> HIDE DEF e, i, to
<1>6. q \notin Below(e, n)
  <2>1. Below(d, n) \in SUBSET e.live /\ n \in Below(d, n) /\ Closed(d, Below(d, n))
    BY <1>0, <1>3, BelowLeast
  <2>2. Closed(e, Below(d, n))
    BY <1>3, <1>4, <2>1 DEF Closed
  <2>3. Below(e, n) \subseteq Below(d, n)
    BY <1>0, <1>3, <2>1, <2>2, BelowLeast
  <2> QED BY <1>0, <2>3, NotBelowItself
<1>7. n \in Below(e, r) /\ q \in Below(e, r)
  <2> DEFINE T == Below(e, r)
             S == T \cup Below(d, n)
  <2>1. r \in d.live /\ r # n
    BY <1>0
  <2>2. T \in SUBSET d.live /\ r \in T /\ Closed(e, T)
    BY <1>3, <2>1, BelowLeast
  <2>3. Below(d, n) \subseteq d.live /\ Closed(d, Below(d, n)) /\ n \in Below(d, n)
    BY <1>0, BelowLeast
  <2> HIDE DEF T
  <2>4. S \in SUBSET d.live /\ r \in S /\ Closed(d, S)
    BY <1>3, <1>4, <2>2, <2>3 DEF Closed
  <2> HIDE DEF S
  <2>5. Below(d, r) \subseteq S
    BY <2>1, <2>4, BelowLeast
  <2>6. n \in T
    BY <1>0, <1>1, <1>3, <1>4, <2>2, <2>5 DEF S, Closed
  <2>7. q \in Below(d, r)
    BY <1>0, <1>1, <2>1, BelowParent
  <2>8. q \notin Below(d, n)
    BY <1>0, NotBelowItself
  <2> QED BY <2>5, <2>6, <2>7, <2>8 DEF S, T
<1>8. ReparentAccepts(FALSE, e, i)
  BY <1>0, <1>3, <1>6, <1>7 DEF ReparentAccepts, Movable, LockedOut
<1>9. Clamp(i.at, Width(Out(e, n), q)) = d.pos[n]
  BY <1>0, <1>5 DEF Clamp, Smaller
<1> DEFINE back == Reparented(e, i)
<1>10. /\ back.live = d.live /\ back.parent = [e.parent EXCEPT ![n] = q] /\ back.x = d.x
       /\ back.lock = d.lock
       /\ back.pos = [WithGap(Out(e, n), q, d.pos[n]) EXCEPT ![n] = d.pos[n]]
  <2> DEFINE at == Clamp(i.at, Width(Out(e, n), q))
  <2>1. back = [e EXCEPT !.pos = [WithGap(Out(e, n), q, at) EXCEPT ![n] = at],
                         !.parent[n] = q]
    BY <1>0 DEF Reparented, Out
  <2> HIDE DEF at, back
  <2>2. back = [e EXCEPT !.pos = [WithGap(Out(e, n), q, d.pos[n]) EXCEPT ![n] = d.pos[n]],
                         !.parent[n] = q]
    BY <1>9, <2>1 DEF at
  <2> QED BY <1>3, <2>2 DEF Document
<1> HIDE DEF back
<1>11. \A m \in d.live : back.pos[m] = d.pos[m]
  <2>1. DOMAIN WithGap(Out(e, n), q, d.pos[n]) = Node
    BY DEF WithGap
  <2> QED BY <1>0, <1>5, <1>10, <2>1
<1>12. \A m \in d.live : back.parent[m] = d.parent[m]
  BY <1>0, <1>3, <1>4, <1>10 DEF Document
<1> QED BY <1>8, <1>10, <1>11, <1>12 DEF Same, e, i, back

(* How many members of G, spliced back by ascending index, go before the    *)
(* member at index t of an array without them.                              *)
Spliced(f, G, t) == Cardinality({m \in G : f[m] - Rank(f, G, m) <= t})

(* Elements G filtered out of an array K and spliced back at their indices, *)
(* by ascending index, are where they were, and so are the others.          *)
LEMMA WeaveBack ==
    ASSUME NEW K, IsFiniteSet(K), NEW f, ArrayOf(f, K), NEW G \in SUBSET K, NEW s,
           \A n \in K \ G : s[n] = f[n] - Rank(f, G, n)
    PROVE  /\ \A n \in G : Smaller(f[n], Cardinality(K \ G) + Rank(f, G, n)) = f[n]
           /\ \A n \in K \ G : s[n] + Spliced(f, G, s[n]) = f[n]
<1> DEFINE r(n) == Rank(f, K \ G, n)
<1>1. \A n \in K : /\ f[n] = Rank(f, G, n) + r(n) /\ Rank(f, G, n) \in Nat /\ r(n) \in Nat
                   /\ f[n] \in Int
  BY RankSplit DEF ArrayOf
<1>2. IsFiniteSet(K \ G) /\ Cardinality(K \ G) \in Nat
  BY FS_Difference, FS_CardinalityType
<1>3. ASSUME NEW n \in K PROVE r(n) <= Cardinality(K \ G)
  <2> DEFINE B == {m \in K \ G : f[m] < f[n]}
  <2>1. B \in SUBSET (K \ G)
    OBVIOUS
  <2> HIDE DEF B
  <2>2. Cardinality(B) <= Cardinality(K \ G)
    BY <1>2, <2>1, FS_Subset
  <2> QED BY <2>2 DEF Rank, B
<1>4. ASSUME NEW n \in G PROVE Smaller(f[n], Cardinality(K \ G) + Rank(f, G, n)) = f[n]
  <2>1. /\ f[n] = Rank(f, G, n) + r(n) /\ Rank(f, G, n) \in Nat /\ r(n) \in Nat
        /\ r(n) <= Cardinality(K \ G)
    BY <1>1, <1>3
  <2> HIDE DEF r
  <2> QED BY <1>2, <2>1 DEF Smaller
<1>5. ASSUME NEW m \in G, NEW n \in K \ G
      PROVE  r(m) <= r(n) <=> f[m] < f[n]
  <2> DEFINE A == {k \in K \ G : f[k] < f[m]}
             B == {k \in K \ G : f[k] < f[n]}
  <2>1. f[m] # f[n] /\ f[m] \in Int /\ f[n] \in Int /\ \A k \in K \ G : f[k] \in Int
    BY <1>1 DEF ArrayOf
  <2>2. A \in SUBSET (K \ G) /\ B \in SUBSET (K \ G) /\ n \in K \ G /\ n \notin B
    BY <2>1
  <2>3. f[m] < f[n] => A \in SUBSET B
    BY <2>1
  <2>4. f[n] < f[m] => B \cup {n} \in SUBSET A
    BY <2>1
  <2> HIDE DEF A, B
  <2>5. IsFiniteSet(A) /\ IsFiniteSet(B)
    BY <1>2, <2>2, FS_Subset
  <2>6. /\ Cardinality(A) \in Nat /\ Cardinality(B) \in Nat
        /\ Cardinality(B \cup {n}) = Cardinality(B) + 1
    BY <2>2, <2>5, FS_CardinalityType, FS_AddElement
  <2>7. f[m] < f[n] => Cardinality(A) <= Cardinality(B)
    BY <2>3, <2>5, FS_Subset
  <2>8. f[n] < f[m] => Cardinality(B \cup {n}) <= Cardinality(A)
    BY <2>4, <2>5, FS_Subset
  <2>9. Cardinality(A) <= Cardinality(B) <=> f[m] < f[n]
    BY <2>1, <2>6, <2>7, <2>8
  <2> QED BY <2>9 DEF Rank, A, B
<1>6. ASSUME NEW n \in K \ G
      PROVE  s[n] + Spliced(f, G, s[n]) = f[n]
  <2>1. s[n] = r(n)
    <3>1. f[n] = Rank(f, G, n) + r(n) /\ Rank(f, G, n) \in Nat /\ r(n) \in Nat
      BY <1>1
    <3> HIDE DEF r
    <3> QED BY <3>1
  <2>2. \A m \in G : f[m] - Rank(f, G, m) = r(m)
    <3> TAKE m \in G
    <3>1. f[m] = Rank(f, G, m) + r(m) /\ Rank(f, G, m) \in Nat /\ r(m) \in Nat
      BY <1>1
    <3> HIDE DEF r
    <3> QED BY <3>1
  <2>3. {m \in G : f[m] - Rank(f, G, m) <= s[n]} = {m \in G : f[m] < f[n]}
    <3>1. \A m \in G : f[m] - Rank(f, G, m) <= s[n] <=> f[m] < f[n]
      <4> HIDE DEF r
      <4> QED BY <1>5, <2>1, <2>2
    <3> QED BY <3>1
  <2>4. f[n] = Rank(f, G, n) + r(n) /\ Rank(f, G, n) \in Nat /\ r(n) \in Nat
    BY <1>1
  <2>5. Spliced(f, G, s[n]) = Rank(f, G, n)
    BY <2>3 DEF Rank, Spliced
  <2> HIDE DEF r
  <2> QED BY <2>1, <2>4, <2>5
<1> QED BY <1>4, <1>6

(* The restore plan node.group returns puts every grouped child back at its *)
(* slot; and grouping once more gives the group back as it was.             *)
LEMMA GroupUndo ==
    ASSUME NEW d \in Document, Forest(d, Roots), NEW c \in GroupCommand, c.type = "node.group",
           c.group \in Groups \ d.live, c.kids # {}, c.kids \subseteq d.live \ Roots,
           \A m, n \in c.kids : d.parent[m] = d.parent[n]
    PROVE  /\ UngroupAccepts(FALSE, Grouped(d, c), GroupInverse(d, c))
           /\ Same(d, Ungrouped(Grouped(d, c), GroupInverse(d, c)))
           /\ GroupInverse(d, c).restore = Kids(Grouped(d, c), c.group)
           /\ UngroupInverse(Grouped(d, c), GroupInverse(d, c)) = c
<1> DEFINE e == Grouped(d, c)
           i == GroupInverse(d, c)
           g == c.group
           G == c.kids
           p == d.parent[CHOOSE n \in G : TRUE]
           K == Kids(d, p)
           top == GroupSlot(d, p, G)
           s == [n \in K |-> d.pos[n] - Rank(d.pos, G, n)]
           back == Ungrouped(e, i)
<1>0. /\ d.live \subseteq Node /\ NoNode \notin Node /\ g \in Node /\ g # NoNode
      /\ G \subseteq d.live /\ G \cap Roots = {} /\ g \notin d.live /\ G # {} /\ g \in Groups
      /\ Roots \subseteq d.live /\ \A m \in d.live : d.pos[m] \in Int /\ d.x[m] \in Int
      /\ c.shift \in Int
      /\ \A m \in d.live : d.parent[m] \in d.live \cup {NoNode}
  BY NodeAssumption DEF Document, GroupCommand, Forest
<1>1. \A n \in G : d.parent[n] = p
  OBVIOUS
<1>2. /\ p \in d.live \cap Containers /\ G \in SUBSET K
      /\ IsFiniteSet(K) /\ K \subseteq d.live /\ ArrayOf(d.pos, K)
  <2>1. p \in d.live \cap Containers
    BY <1>0, <1>1 DEF Forest
  <2> HIDE DEF p
  <2>2. G \in SUBSET K
    BY <1>0, <1>1 DEF Kids
  <2> QED BY <2>1, <2>2, KidsFinite DEF Forest
<1>3. \A n : Before(d, G, d.pos[n]) = Rank(d.pos, G, n)
  BY DEF Before, Rank
<1>4. /\ e.live = d.live \cup {g}
      /\ e.parent[g] = p /\ e.pos[g] = top /\ e.x[g] = c.shift /\ e.lock[g] = c.lock
      /\ \A n \in G : e.parent[n] = g /\ e.x[n] = d.x[n] - c.shift
      /\ \A n \in d.live \ G : e.parent[n] = d.parent[n] /\ e.x[n] = d.x[n]
      /\ \A n \in d.live : e.lock[n] = d.lock[n]
      /\ \A n \in K \ G : e.pos[n] = s[n] + (IF s[n] >= top THEN 1 ELSE 0)
      /\ \A n \in d.live \ K : e.pos[n] = d.pos[n]
  <2>1. \A n \in K : s[n] = d.pos[n] - Before(d, G, d.pos[n])
    BY <1>3
  <2> HIDE DEF p, top, s
  <2> QED BY ZenonT(40), <1>0, <1>2, <2>1 DEF Grouped, Document, p, top
<1>5. top \in Int /\ \A n \in K : s[n] \in Int /\ Rank(d.pos, G, n) \in Int
  <2>1. \A n \in K : Rank(d.pos, G, n) \in Nat /\ d.pos[n] \in Int
    BY <1>0, <1>2, RankSplit
  <2>2. top \in Nat
    <3> DEFINE A == {m \in K : \A n \in G : d.pos[m] < d.pos[n]}
    <3>1. A \in SUBSET K
      OBVIOUS
    <3> HIDE DEF A
    <3>2. Cardinality(A) \in Nat
      BY <1>2, <3>1, FS_Subset, FS_CardinalityType
    <3> QED BY <3>2 DEF GroupSlot, A
  <2> QED BY <2>1, <2>2
<1>6. /\ i.group = g /\ i.restore = G /\ G # {}
      /\ \A n \in G : i.index[n] = d.pos[n]
  BY <1>0 DEF GroupInverse
<1> HIDE DEF e, i, p, top
<1>7. Kids(e, g) = G /\ Kids(e, p) \ {g} = K \ G
  BY <1>0, <1>1, <1>2, <1>4 DEF Kids
<1>8. UngroupAccepts(FALSE, e, i)
  BY <1>0, <1>4, <1>6, <1>7 DEF UngroupAccepts, LockedOut
<1>9. UngroupInverse(e, i) = c
  BY <1>4, <1>6, <1>7 DEF UngroupInverse, GroupCommand
<1>10. /\ back.live = d.live
       /\ \A m \in d.live : /\ back.parent[m] = IF m \in G THEN p ELSE e.parent[m]
                            /\ back.pos[m] = RestoredPos(e, i)[m]
                            /\ back.x[m] = IF m \in G THEN e.x[m] + e.x[g] ELSE e.x[m]
                            /\ back.lock[m] = e.lock[m]
  <2>1. Lifted(e, i) = G /\ Kids(e, g) \ Lifted(e, i) = {}
    BY <1>6, <1>7 DEF Lifted
  <2>2. UNION {Below(e, n) : n \in Kids(e, g) \ Lifted(e, i)} = {}
    BY <2>1
  <2> DEFINE flat == [e EXCEPT
                        !.parent = [n \in Node |-> IF n \in G THEN p ELSE e.parent[n]],
                        !.pos = RestoredPos(e, i), !.x = Reprojected(e, g)]
  <2>3. back = Only(flat, d.live)
    <3>1. (e.live \ {g}) \ {} = d.live
      BY <1>0, <1>4
    <3>2. i.restore # {} /\ Kids(e, i.group) = G /\ e.parent[i.group] = p
      BY <1>4, <1>6, <1>7
    <3> DEFINE dropped == UNION {Below(e, n) : n \in Kids(e, i.group) \ Lifted(e, i)}
               wide == [e EXCEPT
                          !.parent = [n \in Node |-> IF n \in Kids(e, i.group) THEN e.parent[i.group]
                                                    ELSE e.parent[n]],
                          !.pos = IF i.restore = {} THEN SpilledPos(e, i) ELSE RestoredPos(e, i),
                          !.x = Reprojected(e, i.group)]
    <3>3. back = Only(wide, (e.live \ {i.group}) \ dropped)
      BY DEF Ungrouped
    <3>4. dropped = {}
      BY <1>6, <2>2
    <3>5. wide = flat
      BY ZenonT(40), <1>6, <3>2
    <3> HIDE DEF wide, flat, dropped, back
    <3> QED BY <1>6, <3>1, <3>3, <3>4, <3>5
  <2>4. e \in Document
    BY GroupType DEF e
  <2>5. /\ flat.parent = [n \in Node |-> IF n \in G THEN p ELSE e.parent[n]]
        /\ flat.pos = RestoredPos(e, i) /\ flat.x = Reprojected(e, g) /\ flat.lock = e.lock
    BY <2>4 DEF Document
  <2> HIDE DEF flat, back
  <2> QED BY <1>0, <1>7, <2>3, <2>5 DEF Only, Reprojected
<1>11. /\ \A n \in G : RestoredPos(e, i)[n]
                       = Smaller(d.pos[n], Cardinality(K \ G) + Rank(d.pos, G, n))
       /\ \A n \in K \ G : RestoredPos(e, i)[n] = s[n] + Spliced(d.pos, G, s[n])
       /\ \A n \in d.live \ K : RestoredPos(e, i)[n] = e.pos[n]
  <2>1. \A n \in G : Cardinality({m \in G : i.index[m] < i.index[n]}) = Rank(d.pos, G, n)
    <3> TAKE n \in G
    <3>1. {m \in G : i.index[m] < i.index[n]} = {m \in G : d.pos[m] < d.pos[n]}
      BY <1>6
    <3> QED BY <3>1 DEF Rank
  <2>2. \A n \in K \ G : (IF e.pos[n] > e.pos[g] THEN e.pos[n] - 1 ELSE e.pos[n]) = s[n]
    <3> TAKE n \in K \ G
    <3>1. s[n] \in Int
      BY <1>5
    <3> HIDE DEF s
    <3> QED BY <1>4, <1>5, <3>1
  <2> HIDE DEF s
  <2>3. ASSUME NEW n \in G
        PROVE  RestoredPos(e, i)[n] = Smaller(d.pos[n], Cardinality(K \ G) + Rank(d.pos, G, n))
    BY ZenonT(40), <1>0, <1>4, <1>6, <1>7, <2>1 DEF RestoredPos
  <2>4. ASSUME NEW n \in K \ G
        PROVE  RestoredPos(e, i)[n] = s[n] + Spliced(d.pos, G, s[n])
    <3>1. RestoredPos(e, i)[n]
            = (IF e.pos[n] > e.pos[g] THEN e.pos[n] - 1 ELSE e.pos[n])
              + Cardinality({m \in G : i.index[m] - Cardinality({k \in G : i.index[k] < i.index[m]})
                                       <= (IF e.pos[n] > e.pos[g] THEN e.pos[n] - 1 ELSE e.pos[n])})
      BY ZenonT(40), <1>0, <1>2, <1>4, <1>6, <1>7 DEF RestoredPos
    <3>2. {m \in G : i.index[m] - Cardinality({k \in G : i.index[k] < i.index[m]}) <= s[n]}
          = {m \in G : d.pos[m] - Rank(d.pos, G, m) <= s[n]}
      BY <1>6, <2>1
    <3> QED BY ZenonT(40), <2>2, <3>1, <3>2 DEF Spliced
  <2>5. ASSUME NEW n \in d.live \ K PROVE RestoredPos(e, i)[n] = e.pos[n]
    BY <1>0, <1>2, <1>4, <1>6, <1>7 DEF RestoredPos
  <2> QED BY <2>3, <2>4, <2>5
<1>12. \A n \in d.live : RestoredPos(e, i)[n] = d.pos[n]
  <2> DEFINE f == d.pos
  <2>1. \A n \in K \ G : s[n] = f[n] - Rank(f, G, n)
    OBVIOUS
  <2>2. IsFiniteSet(K) /\ ArrayOf(f, K) /\ G \in SUBSET K
    BY <1>2
  <2> HIDE DEF f, s, K, G
  <2>3. /\ \A n \in G : Smaller(f[n], Cardinality(K \ G) + Rank(f, G, n)) = f[n]
        /\ \A n \in K \ G : s[n] + Spliced(f, G, s[n]) = f[n]
    BY <2>1, <2>2, WeaveBack
  <2>4. \A n \in d.live \ K : RestoredPos(e, i)[n] = f[n]
    BY <1>4, <1>11 DEF f
  <2> QED BY <1>11, <2>3, <2>4 DEF f
<1> HIDE DEF back, s
<1>13. \A n \in d.live : back.x[n] = d.x[n] /\ back.parent[n] = d.parent[n]
  BY <1>0, <1>1, <1>4, <1>10
<1>14. Same(d, back)
  BY <1>4, <1>10, <1>12, <1>13 DEF Same
<1> QED BY <1>6, <1>7, <1>8, <1>9, <1>14 DEF e, i, back

(* Elements K spilled into an array U at the slot of g, and taken together  *)
(* again: they keep their order, the slot is that of the topmost, and the   *)
(* others close up.                                                         *)
LEMMA SpillBack ==
    ASSUME NEW U, IsFiniteSet(U), NEW K, IsFiniteSet(K), U \cap K = {}, K # {}, NEW f,
           ArrayOf(f, U), ArrayOf(f, K), NEW g \in U, NEW h,
           \A n \in K : h[n] = f[g] + f[n],
           \A n \in U \ {g} : h[n] = IF f[n] > f[g] THEN f[n] - 1 + Cardinality(K) ELSE f[n]
    PROVE  /\ Cardinality({m \in (U \ {g}) \cup K : \A n \in K : h[m] < h[n]}) = f[g]
           /\ \A n \in K : Rank(h, K, n) = f[n]
           /\ \A n \in U \ {g} :
                h[n] - Rank(h, K, n) = IF f[n] > f[g] THEN f[n] - 1 ELSE f[n]
<1>0. Cardinality(K) \in Nat /\ Cardinality(U) \in Nat
  BY FS_CardinalityType
<1>1. /\ \A n \in U : f[n] \in Nat
      /\ \A n \in K : f[n] \in Nat /\ f[n] <= Cardinality(K) - 1
      /\ \A m, n \in U : f[m] = f[n] => m = n
  BY <1>0 DEF ArrayOf
<1>2. \A n \in U \ {g} : f[n] # f[g]
  BY <1>1
<1>3. Cardinality({m \in (U \ {g}) \cup K : \A n \in K : h[m] < h[n]}) = f[g]
  <2>1. ASSUME NEW m \in K PROVE ~ \A n \in K : h[m] < h[n]
    BY <1>1, <2>1
  <2>2. ASSUME NEW m \in U \ {g} PROVE (\A n \in K : h[m] < h[n]) <=> f[m] < f[g]
    <3>1. CASE f[m] < f[g]
      BY <1>1, <2>2, <3>1
    <3>2. CASE f[m] > f[g]
      <4>1. \A n \in K : ~(h[m] < h[n])
        BY <1>0, <1>1, <2>2, <3>2
      <4> QED BY <1>1, <2>2, <3>2, <4>1
    <3> QED BY <1>1, <1>2, <2>2, <3>1, <3>2
  <2>3. ~(f[g] < f[g])
    BY <1>1
  <2>4. {m \in (U \ {g}) \cup K : \A n \in K : h[m] < h[n]} = {m \in U : f[m] < f[g]}
    BY <2>1, <2>2, <2>3
  <2>5. f[g] = Rank(f, U, g)
    BY ArrayRank
  <2> QED BY <2>4, <2>5 DEF Rank
<1>4. ASSUME NEW n \in K PROVE Rank(h, K, n) = f[n]
  <2>1. {m \in K : h[m] < h[n]} = {m \in K : f[m] < f[n]}
    <3>1. \A m \in K : h[m] < h[n] <=> f[m] < f[n]
      BY <1>1
    <3> QED BY <3>1
  <2>2. f[n] = Rank(f, K, n)
    BY ArrayRank
  <2> QED BY <2>1, <2>2 DEF Rank
<1>5. ASSUME NEW n \in U \ {g}
      PROVE  h[n] - Rank(h, K, n) = IF f[n] > f[g] THEN f[n] - 1 ELSE f[n]
  <2>1. CASE f[n] > f[g]
    <3>1. \A m \in K : h[m] < h[n]
      BY <1>0, <1>1, <2>1
    <3>2. {m \in K : h[m] < h[n]} = K
      BY <3>1
    <3>3. Rank(h, K, n) = Cardinality(K)
      BY <3>2 DEF Rank
    <3> QED BY <1>0, <1>1, <2>1, <3>3
  <2>2. CASE ~(f[n] > f[g])
    <3>1. \A m \in K : ~(h[m] < h[n])
      BY <1>0, <1>1, <2>2
    <3>2. {m \in K : h[m] < h[n]} = {}
      BY <3>1
    <3>3. Rank(h, K, n) = 0
      BY <3>2, FS_EmptySet DEF Rank
    <3> QED BY <1>0, <1>1, <2>2, <3>3
  <2> QED BY <2>1, <2>2
<1> QED BY <1>3, <1>4, <1>5

(* node.ungroup of a group with children, without a restore plan or with    *)
(* one that lists all of them: its inverse is accepted, and without a plan  *)
(* it gives the group back at its slot.                                     *)
LEMMA UngroupUndo ==
    ASSUME NEW d \in Document, Forest(d, Roots), NEW c \in UngroupCommand,
           c.group \in d.live \ Roots, Kids(d, c.group) # {},
           c.restore = {} \/ c.restore = Kids(d, c.group)
    PROVE  /\ GroupAccepts(FALSE, Ungrouped(d, c), UngroupInverse(d, c))
           /\ d.live \ Ungrouped(d, c).live = {c.group}
           /\ c.restore = {} => Same(d, Grouped(Ungrouped(d, c), UngroupInverse(d, c)))
<1> DEFINE e == Ungrouped(d, c)
           i == UngroupInverse(d, c)
           g == c.group
           p == d.parent[g]
           K == Kids(d, g)
           U == Kids(d, p)
           at == IF c.restore = {} THEN SpilledPos(d, c) ELSE RestoredPos(d, c)
           back == Grouped(e, i)
<1>0. /\ d.live \subseteq Node /\ NoNode \notin Node /\ g \in d.live /\ g \in Node
      /\ p \in d.live /\ K \subseteq d.live /\ g \in U /\ K \cap Roots = {} /\ K # {}
      /\ \A m \in K : d.parent[m] = g
      /\ \A m \in d.live : d.x[m] \in Int /\ d.pos[m] \in Int
      /\ Roots \subseteq d.live
  BY NodeAssumption DEF Document, Forest, Kids
<1>1. p # g /\ U \cap K = {}
  <2>1. g \in Below(d, g) /\ p \notin Below(d, g)
    BY BelowLeast, NotBelowItself
  <2>2. p # g
    BY <2>1
  <2> QED BY <2>2 DEF Kids
<1>2. /\ e.live = d.live \ {g}
      /\ \A m \in e.live : /\ e.parent[m] = IF m \in K THEN p ELSE d.parent[m]
                           /\ e.pos[m] = at[m] /\ e.lock[m] = d.lock[m]
                           /\ e.x[m] = IF m \in K THEN d.x[m] + d.x[g] ELSE d.x[m]
  <2>1. Kids(d, g) \ Lifted(d, c) = {}
    BY DEF Lifted
  <2>2. UNION {Below(d, n) : n \in Kids(d, g) \ Lifted(d, c)} = {}
    BY <2>1
  <2> DEFINE flat == [d EXCEPT
                        !.parent = [n \in Node |-> IF n \in Kids(d, g) THEN d.parent[g]
                                                  ELSE d.parent[n]],
                        !.pos = IF c.restore = {} THEN SpilledPos(d, c) ELSE RestoredPos(d, c),
                        !.x = Reprojected(d, g)]
             dropped == UNION {Below(d, n) : n \in Kids(d, g) \ Lifted(d, c)}
  <2>3. e = Only(flat, (d.live \ {g}) \ dropped)
    BY DEF Ungrouped
  <2>4. /\ flat.parent = [n \in Node |-> IF n \in K THEN p ELSE d.parent[n]]
        /\ flat.pos = at /\ flat.x = Reprojected(d, g) /\ flat.lock = d.lock
    BY DEF Document
  <2>5. e = Only(flat, d.live \ {g})
    <3> HIDE DEF flat, e
    <3> QED BY <2>2, <2>3
  <2> HIDE DEF flat, e, at, p
  <2> QED BY <1>0, <2>4, <2>5 DEF Only, Reprojected
<1>3. i.group = g /\ i.kids = K /\ i.shift = d.x[g] /\ i.lock = d.lock[g]
  BY DEF UngroupInverse
<1>4. /\ IsFiniteSet(U) /\ ArrayOf(d.pos, U) /\ IsFiniteSet(K) /\ ArrayOf(d.pos, K)
      /\ U \subseteq d.live
  BY <1>0, KidsFinite DEF Forest
<1>5. e \in Document
  BY UngroupType
<1> HIDE DEF e, i, at, p
<1>6. GroupAccepts(FALSE, e, i)
  BY <1>0, <1>1, <1>2, <1>3, <1>4 DEF GroupAccepts, Movable, LockedOut, Kids
<1>7. ASSUME c.restore = {} PROVE Same(d, back)
  <2>1. e.parent[CHOOSE n \in i.kids : TRUE] = p
    <3>1. (CHOOSE n \in i.kids : TRUE) \in K
      BY <1>0, <1>3
    <3>2. \A n \in K : n \in e.live /\ e.parent[n] = p
      BY <1>0, <1>1, <1>2, <1>4 DEF Kids
    <3> QED BY <3>1, <3>2
  <2>2. Kids(e, p) = (U \ {g}) \cup K
    <3>1. \A m \in K : m # g
      BY <1>0, <1>1
    <3> QED BY <1>0, <1>1, <1>2, <3>1 DEF Kids
  <2>3. /\ \A n \in K : e.pos[n] = d.pos[g] + d.pos[n]
        /\ \A n \in U \ {g} : e.pos[n] = IF d.pos[n] > d.pos[g]
                                       THEN d.pos[n] - 1 + Cardinality(K) ELSE d.pos[n]
        /\ \A n \in d.live \ (U \cup K) : e.pos[n] = d.pos[n]
    <3>1. \A m \in e.live : e.pos[m] = SpilledPos(d, c)[m]
      BY <1>2, <1>7 DEF at
    <3>2. \A m \in K : m \in e.live /\ m \in Node
      BY <1>0, <1>1, <1>2
    <3>3. /\ \A m \in U \ {g} : m \in e.live /\ m \in Node /\ m \notin K
          /\ \A m \in d.live \ (U \cup K) : m \in e.live /\ m \in Node
      BY <1>0, <1>1, <1>2, <1>4
    <3>4. Cardinality(K) \in Nat
      BY <1>4, FS_CardinalityType
    <3> QED BY <1>0, <3>1, <3>2, <3>3, <3>4 DEF SpilledPos, Width, p
  <2>4. /\ Cardinality({m \in (U \ {g}) \cup K : \A n \in K : e.pos[m] < e.pos[n]}) = d.pos[g]
        /\ \A n \in K : Rank(e.pos, K, n) = d.pos[n]
        /\ \A n \in U \ {g} :
             e.pos[n] - Rank(e.pos, K, n) = IF d.pos[n] > d.pos[g] THEN d.pos[n] - 1 ELSE d.pos[n]
    <3> DEFINE f == d.pos
               h == e.pos
    <3>1. /\ ArrayOf(f, U) /\ ArrayOf(f, K) /\ IsFiniteSet(U) /\ IsFiniteSet(K)
          /\ U \cap K = {} /\ K # {} /\ g \in U
          /\ \A n \in K : h[n] = f[g] + f[n]
          /\ \A n \in U \ {g} : h[n] = IF f[n] > f[g] THEN f[n] - 1 + Cardinality(K) ELSE f[n]
      BY <1>0, <1>1, <1>4, <2>3
    <3>2. ASSUME NEW X, X = Cardinality({m \in (U \ {g}) \cup K : \A n \in K : h[m] < h[n]})
          PROVE  /\ X = f[g]
                 /\ \A n \in K : Rank(h, K, n) = f[n]
                 /\ \A n \in U \ {g} :
                      h[n] - Rank(h, K, n) = IF f[n] > f[g] THEN f[n] - 1 ELSE f[n]
      <4> HIDE DEF f, h, U, K, g
      <4> QED BY <3>1, <3>2, SpillBack
    <3> QED BY <3>2
  <2>5. GroupSlot(e, p, K) = d.pos[g]
    BY <2>2, <2>4 DEF GroupSlot
  <2>6. \A n : Before(e, K, e.pos[n]) = Rank(e.pos, K, n)
    BY DEF Before, Rank
  <2>7. /\ back.live = d.live
        /\ back.parent[g] = p /\ back.pos[g] = d.pos[g] /\ back.x[g] = d.x[g]
        /\ back.lock[g] = d.lock[g]
        /\ \A n \in K : back.parent[n] = g /\ back.pos[n] = d.pos[n] /\ back.x[n] = e.x[n] - d.x[g]
        /\ \A n \in e.live \ K : back.parent[n] = e.parent[n] /\ back.x[n] = e.x[n]
        /\ \A n \in e.live : back.lock[n] = e.lock[n]
        /\ \A n \in U \ {g} : back.pos[n] = (e.pos[n] - Rank(e.pos, K, n))
                                       + (IF e.pos[n] - Rank(e.pos, K, n) >= d.pos[g] THEN 1 ELSE 0)
        /\ \A n \in d.live \ (U \cup K) : back.pos[n] = e.pos[n]
    <3>1. back = [live   |-> e.live \cup {g},
                  parent |-> [n \in Node |-> IF n = g THEN p ELSE IF n \in K THEN g ELSE e.parent[n]],
                  pos    |-> [n \in Node |->
                                IF n = g THEN GroupSlot(e, p, K)
                                ELSE IF n \in K THEN Before(e, K, e.pos[n])
                                ELSE IF n \in Kids(e, p)
                                THEN (e.pos[n] - Before(e, K, e.pos[n]))
                                     + (IF e.pos[n] - Before(e, K, e.pos[n]) >= GroupSlot(e, p, K)
                                        THEN 1 ELSE 0)
                                ELSE e.pos[n]],
                  x      |-> [n \in Node |-> IF n = g THEN d.x[g]
                                            ELSE IF n \in K THEN e.x[n] - d.x[g] ELSE e.x[n]],
                  lock   |-> [e.lock EXCEPT ![g] = d.lock[g]]]
      BY <1>3, <2>1 DEF Grouped
    <3>2. g \notin K /\ e.live \subseteq Node /\ U \subseteq Node /\ K \subseteq Node
      BY <1>0, <1>1, <1>2, <1>4
    <3> HIDE DEF back, K, U, g
    <3> QED BY <1>0, <1>1, <1>2, <1>5, <2>2, <2>4, <2>5, <2>6, <3>1, <3>2 DEF Document
  <2> HIDE DEF back
  <2>8. \A n \in U \ {g} : back.pos[n] = d.pos[n]
    <3> TAKE n \in U \ {g}
    <3>1. d.pos[n] \in Int /\ d.pos[g] \in Int /\ d.pos[n] # d.pos[g]
      BY <1>0, <1>4 DEF ArrayOf
    <3> QED BY <2>4, <2>7, <3>1
  <2>9. \A n \in K : back.x[n] = d.x[n] /\ back.parent[n] = d.parent[n] /\ n \in e.live
    <3> TAKE n \in K
    <3>1. n \in e.live /\ d.x[n] \in Int /\ d.x[g] \in Int
      BY <1>0, <1>1, <1>2
    <3> QED BY <1>0, <1>2, <2>7, <3>1
  <2>10. \A n \in d.live \ (K \cup {g}) : /\ back.x[n] = d.x[n] /\ back.parent[n] = d.parent[n]
                                          /\ back.pos[n] = d.pos[n]
    <3> TAKE n \in d.live \ (K \cup {g})
    <3>1. back.x[n] = d.x[n] /\ back.parent[n] = d.parent[n]
      BY <1>2, <2>7
    <3> QED BY <2>3, <2>7, <2>8, <3>1
  <2>11. \A n \in d.live : back.lock[n] = d.lock[n]
    BY <1>2, <2>7
  <2>12. back.parent[g] = d.parent[g]
    BY <2>7 DEF p
  <2> QED BY <2>7, <2>9, <2>10, <2>11, <2>12 DEF Same
<1>8. d.live \ e.live = {g}
  BY <1>0, <1>2
<1> QED BY <1>6, <1>7, <1>8 DEF e, i

-----------------------------------------------------------------------------
(* Every command and its inverse.                                           *)

(* What is left to say of a restore plan: it is that of the grouping which  *)
(* made the group of just these children.                                   *)
PlanFits(d, c) ==
    c.type = "node.ungroup" /\ c.restore # {}
    => /\ c.restore = Kids(d, c.group)
       /\ Grouped(Ungrouped(d, c), UngroupInverse(d, c)) = d

(* A command a host that edits alone applies to the document, or will.      *)
Good(d, c) ==
    /\ d \in Document /\ Forest(d, Roots) /\ Blank(d)
    /\ c \in Formed
    /\ Accepts(FALSE, d, c)
    /\ Brings(c) \cap d.live = {}
    /\ PlanFits(d, c)

(* A command that is accepted with enforceLocked is accepted without.       *)
LEMMA AcceptsUnlocked ==
    ASSUME NEW d, NEW c \in Command, NEW e, Accepts(e, d, c)
    PROVE  Accepts(FALSE, d, c)
<1>1. CASE c.type = "node.create"
  BY <1>1 DEF Accepts, CreateAccepts
<1>2. CASE c.type = "node.delete"
  BY <1>2 DEF Accepts, DeleteAccepts, LockedOut
<1>3. CASE c.type = "node.move"
  BY <1>3 DEF Accepts, MoveAccepts, LockedOut
<1>4. CASE c.type = "node.update"
  BY <1>4 DEF Accepts, UpdateAccepts, LockedOut
<1>5. CASE c.type = "node.reorder"
  BY <1>5 DEF Accepts, ReorderAccepts, LockedOut
<1>6. CASE c.type = "node.reparent"
  BY <1>6 DEF Accepts, ReparentAccepts, LockedOut
<1>7. CASE c.type = "node.group"
  BY <1>7 DEF Accepts, GroupAccepts, LockedOut
<1>8. CASE c.type = "node.ungroup"
  BY <1>8 DEF Accepts, UngroupAccepts, LockedOut
<1>9. c.type \in {"node.create", "node.delete", "node.move", "node.update", "node.reorder",
                 "node.reparent", "node.group", "node.ungroup"}
  BY DEF Command, CreateCommand, DeleteCommand, MoveCommand, UpdateCommand, ReorderCommand,
         ReparentCommand, GroupCommand, UngroupCommand
<1> QED BY <1>1, <1>2, <1>3, <1>4, <1>5, <1>6, <1>7, <1>8, <1>9

(* The document a command returns accepts its inverse, which gives back the *)
(* document the command was given - but for the grouping of nothing that    *)
(* ungrouping an empty group returns; and the inverse of that inverse does  *)
(* the same.  What left the document is in the inverse.                     *)
LEMMA Invertible ==
    ASSUME NEW d, NEW c, Good(d, c), ~TooDeep(d), ~TooDeep(After(d, c)),
           NEW i, i = InverseOf(d, c), NEW e, e = After(d, c)
    PROVE  /\ d.live \ e.live \subseteq Brings(i)
           /\ EmptyGroup(i) \/ (Good(e, i) /\ After(e, i) = d)
<1>0. /\ d \in Document /\ Forest(d, Roots) /\ Blank(d) /\ c \in Formed /\ c \in Entry
      /\ c \in Command /\ WellShaped(c) /\ Accepts(FALSE, d, c) /\ Brings(c) \cap d.live = {}
      /\ Roots \subseteq d.live
  BY DEF Good, Formed, Entry, Forest
<1>1. /\ e \in Document /\ Forest(e, Roots) /\ Blank(e) /\ i \in Formed /\ i \in Entry
      /\ Brings(i) \cap e.live = {}
  <2>1. e \in Document
    BY <1>0, StepType
  <2>2. Forest(e, Roots) /\ i \in Formed
    BY <1>0, StepForest
  <2>3. Blank(e)
    BY <1>0, StepBlank
  <2>4. Brings(i) \cap e.live = {}
    BY <1>0, Handover
  <2> QED BY <2>1, <2>2, <2>3, <2>4 DEF Formed
(* It remains to see that the inverse applies, and that it is exact. *)
<1>suffices. ASSUME Accepts(FALSE, e, i), Same(d, After(e, i)), PlanFits(e, i)
             PROVE  Good(e, i) /\ After(e, i) = d
  <2>1. After(e, i) \in Document
    BY <1>1, <1>suffices, StepType DEF Entry
  <2>2. Blank(After(e, i))
    BY <1>1, <1>suffices, StepBlank
  <2>3. After(e, i) = d
    BY <1>0, <1>suffices, <2>1, <2>2, SameDocument DEF Same
  <2> QED BY <1>1, <1>suffices, <2>3 DEF Good
<1>2. CASE c \in CreateCommand
  <2>1. c.type = "node.create"
    BY <1>2 DEF CreateCommand
  <2>2. /\ c.parent \in d.live \cap Containers /\ c.at \in 0 .. Width(d, c.parent)
        /\ Forest(c.sub, {c.node}) /\ c.sub.live \cap d.live = {}
    BY <1>0, <2>1 DEF Accepts, CreateAccepts, WellShaped, Brings
  <2>3. /\ e = Created(d, c) /\ i = CreateInverse(d, c) /\ i.type = "node.delete"
        /\ d.live \subseteq e.live
    BY <2>1 DEF After, InverseOf, CreateInverse, Created
  <2>4. DeleteAccepts(FALSE, e, i) /\ Same(d, Deleted(e, i))
    BY <1>0, <1>2, <2>2, <2>3, CreateUndo
  <2>5. Accepts(FALSE, e, i) /\ After(e, i) = Deleted(e, i)
    BY <2>3, <2>4 DEF Accepts, After
  <2> QED BY <1>suffices, <2>3, <2>4, <2>5 DEF PlanFits
<1>3. CASE c \in DeleteCommand
  <2>1. c.type = "node.delete"
    BY <1>3 DEF DeleteCommand
  <2>2. c.node \in d.live \ Roots
    BY <1>0, <2>1 DEF Accepts, DeleteAccepts, Movable
  <2>3. e = Deleted(d, c) /\ i = DeleteInverse(d, c) /\ i.type = "node.create"
    BY <2>1 DEF After, InverseOf, DeleteInverse
  <2>4. CreateAccepts(FALSE, e, i) /\ Same(d, Created(e, i))
    BY <1>0, <1>3, <2>2, <2>3, DeleteUndo
  <2>5. Accepts(FALSE, e, i) /\ After(e, i) = Created(e, i)
    BY <2>3, <2>4 DEF Accepts, After
  <2>6. d.live \ e.live \subseteq Brings(i)
    <3>1. e.live = d.live \ Below(d, c.node) /\ i.sub.live = Below(d, c.node)
      <4>1. Subtree(d, c.node).live = Below(d, c.node)
        BY DEF Subtree, Only
      <4> QED BY <2>3, <4>1 DEF Deleted, Only, DeleteInverse
    <3> QED BY <2>3, <3>1 DEF Brings
  <2> QED BY <1>suffices, <2>3, <2>4, <2>5, <2>6 DEF PlanFits
<1>4. CASE c \in MoveCommand
  <2>1. c.type = "node.move"
    BY <1>4 DEF MoveCommand
  <2>2. c.node \in d.live
    BY <1>0, <2>1 DEF Accepts, MoveAccepts
  <2>3. e = Moved(d, c) /\ i = MoveInverse(d, c) /\ i.type = "node.move" /\ e.live = d.live
    BY <1>0, <2>1 DEF After, InverseOf, MoveInverse, Moved, Document
  <2>4. MoveAccepts(FALSE, e, i) /\ Same(d, Moved(e, i))
    BY <1>0, <1>4, <2>2, <2>3, MoveUndo
  <2>5. Accepts(FALSE, e, i) /\ After(e, i) = Moved(e, i)
    BY <2>3, <2>4 DEF Accepts, After
  <2> QED BY <1>suffices, <2>3, <2>4, <2>5 DEF PlanFits
<1>5. CASE c \in UpdateCommand
  <2>1. c.type = "node.update"
    BY <1>5 DEF UpdateCommand
  <2>2. c.node \in d.live
    BY <1>0, <2>1 DEF Accepts, UpdateAccepts
  <2>3. e = Updated(d, c) /\ i = UpdateInverse(d, c) /\ i.type = "node.update" /\ e.live = d.live
    BY <1>0, <2>1 DEF After, InverseOf, UpdateInverse, Updated, Document
  <2>4. UpdateAccepts(FALSE, e, i) /\ Same(d, Updated(e, i))
    BY <1>0, <1>5, <2>2, <2>3, UpdateUndo
  <2>5. Accepts(FALSE, e, i) /\ After(e, i) = Updated(e, i)
    BY <2>3, <2>4 DEF Accepts, After
  <2> QED BY <1>suffices, <2>3, <2>4, <2>5 DEF PlanFits
<1>6. CASE c \in ReorderCommand
  <2>1. c.type = "node.reorder"
    BY <1>6 DEF ReorderCommand
  <2>2. c.node \in d.live \ Roots
    BY <1>0, <2>1 DEF Accepts, ReorderAccepts, Movable
  <2>3. e = Reordered(d, c) /\ i = ReorderInverse(d, c) /\ i.type = "node.reorder"
        /\ e.live = d.live
    BY <1>0, <2>1 DEF After, InverseOf, ReorderInverse, Reordered, Document
  <2>4. ReorderAccepts(FALSE, e, i) /\ Same(d, Reordered(e, i))
    BY <1>0, <1>6, <2>2, <2>3, ReorderUndo
  <2>5. Accepts(FALSE, e, i) /\ After(e, i) = Reordered(e, i)
    BY <2>3, <2>4 DEF Accepts, After
  <2> QED BY <1>suffices, <2>3, <2>4, <2>5 DEF PlanFits
<1>7. CASE c \in ReparentCommand
  <2>1. c.type = "node.reparent"
    BY <1>7 DEF ReparentCommand
  <2>2. ReparentAccepts(FALSE, d, c)
    BY <1>0, <2>1 DEF Accepts
  <2>3. e = Reparented(d, c) /\ i = ReparentInverse(d, c) /\ i.type = "node.reparent"
        /\ e.live = d.live
    BY <1>0, <2>1 DEF After, InverseOf, ReparentInverse, Reparented, Document
  <2>4. ReparentAccepts(FALSE, e, i) /\ Same(d, Reparented(e, i))
    BY <1>0, <1>7, <2>2, <2>3, ReparentUndo
  <2>5. Accepts(FALSE, e, i) /\ After(e, i) = Reparented(e, i)
    BY <2>3, <2>4 DEF Accepts, After
  <2> QED BY <1>suffices, <2>3, <2>4, <2>5 DEF PlanFits
<1>8. CASE c \in GroupCommand
  <2>1. c.type = "node.group"
    BY <1>8 DEF GroupCommand
  <2>2. /\ c.kids # {} /\ c.kids \subseteq d.live \ Roots
        /\ \A m, n \in c.kids : d.parent[m] = d.parent[n]
        /\ c.group \in Groups \ d.live
    BY <1>0, <2>1 DEF Accepts, GroupAccepts, Movable, WellShaped
  <2>3. /\ e = Grouped(d, c) /\ i = GroupInverse(d, c) /\ i.type = "node.ungroup"
        /\ i.group = c.group /\ d.live \subseteq e.live
    BY <2>1 DEF After, InverseOf, GroupInverse, Grouped
  <2>4. /\ UngroupAccepts(FALSE, e, i) /\ Same(d, Ungrouped(e, i))
        /\ i.restore = Kids(e, c.group) /\ UngroupInverse(e, i) = c
    <3>1. /\ UngroupAccepts(FALSE, Grouped(d, c), GroupInverse(d, c))
          /\ Same(d, Ungrouped(Grouped(d, c), GroupInverse(d, c)))
          /\ GroupInverse(d, c).restore = Kids(Grouped(d, c), c.group)
          /\ UngroupInverse(Grouped(d, c), GroupInverse(d, c)) = c
      BY <1>0, <1>8, <2>1, <2>2, GroupUndo
    <3> QED BY <2>3, <3>1
  <2>5. Accepts(FALSE, e, i) /\ After(e, i) = Ungrouped(e, i)
    BY <2>3, <2>4 DEF Accepts, After
  <2>6. PlanFits(e, i)
    <3>1. Ungrouped(e, i) = d
      <4>1. Ungrouped(e, i) \in Document /\ Blank(Ungrouped(e, i))
        BY <1>1, <2>5, StepType, StepBlank DEF Entry
      <4> QED BY <1>0, <2>4, <4>1, SameDocument DEF Same
    <3> QED BY <2>3, <2>4, <3>1 DEF PlanFits
  <2> QED BY <1>suffices, <2>3, <2>4, <2>5, <2>6
<1>9. CASE c \in UngroupCommand
  <2>1. c.type = "node.ungroup"
    BY <1>9 DEF UngroupCommand
  <2>2. c.group \in d.live \ Roots
    BY <1>0, <2>1 DEF Accepts, UngroupAccepts
  <2>3. /\ e = Ungrouped(d, c) /\ i = UngroupInverse(d, c) /\ i.type = "node.group"
        /\ i.group = c.group /\ i.kids = Kids(d, c.group)
    BY <2>1 DEF After, InverseOf, UngroupInverse
  <2>4. c.restore = {} \/ (c.restore = Kids(d, c.group) /\ Grouped(e, i) = d)
    BY <2>1, <2>3 DEF Good, PlanFits
  <2>5. CASE Kids(d, c.group) = {}
    <3>1. EmptyGroup(i)
      BY <2>3, <2>5 DEF EmptyGroup
    <3>2. d.live \ e.live \subseteq {c.group}
      <4>1. UNION {Below(d, n) : n \in Kids(d, c.group) \ Lifted(d, c)} = {}
        BY <2>5
      <4>2. e.live = (d.live \ {c.group}) \ UNION {Below(d, n) : n \in Kids(d, c.group) \ Lifted(d, c)}
        BY <2>3 DEF Ungrouped, Only
      <4> QED BY <4>1, <4>2
    <3> QED BY <2>3, <3>1, <3>2 DEF Brings
  <2>6. CASE Kids(d, c.group) # {}
    <3>1. /\ GroupAccepts(FALSE, e, i) /\ d.live \ e.live = {c.group}
          /\ c.restore = {} => Same(d, Grouped(e, i))
      BY <1>0, <1>9, <2>2, <2>3, <2>4, <2>6, UngroupUndo
    <3>2. Accepts(FALSE, e, i) /\ After(e, i) = Grouped(e, i)
      BY <2>3, <3>1 DEF Accepts, After
    <3>3. Same(d, Grouped(e, i))
      BY <2>4, <3>1 DEF Same
    <3> QED BY <1>suffices, <2>3, <3>1, <3>2, <3>3 DEF PlanFits, Brings
  <2> QED BY <2>5, <2>6
<1> QED BY <1>0, <1>2, <1>3, <1>4, <1>5, <1>6, <1>7, <1>8, <1>9 DEF Command

-----------------------------------------------------------------------------
(* The stacks of a host that edits alone.                                   *)

(* The entries of stack s lead from d through earlier documents, each of    *)
(* them applicable to the one before: up to a grouping of nothing, at which *)
(* an undo is stuck.                                                        *)
Retraced(d, s) ==
    \E D \in [1 .. Len(s) + 1 -> Document] :
        /\ D[1] = d
        /\ \A k \in 1 .. Len(s) :
             EmptyGroup(s[k]) \/ (Good(D[k], s[k]) /\ D[k + 1] = After(D[k], s[k]))

LEMMA RetracedEmpty ==
    ASSUME NEW d \in Document
    PROVE  Retraced(d, <<>>)
<1> DEFINE D == [k \in 1 .. 1 |-> d]
<1>1. Len(<<>>) = 0
  OBVIOUS
<1>2. D \in [1 .. Len(<<>>) + 1 -> Document] /\ D[1] = d /\ 1 .. Len(<<>>) = {}
  BY <1>1
<1> HIDE DEF D
<1> QED BY <1>2 DEF Retraced

LEMMA RetracedPush ==
    ASSUME NEW d, NEW s \in Seq(Formed), Retraced(d, s), NEW i \in Formed, NEW e \in Document,
           EmptyGroup(i) \/ (Good(e, i) /\ After(e, i) = d)
    PROVE  Retraced(e, <<i>> \o s)
<1> DEFINE z == <<i>> \o s
           n == Len(s)
<1>1. PICK D \in [1 .. n + 1 -> Document] :
        /\ D[1] = d
        /\ \A k \in 1 .. n : EmptyGroup(s[k]) \/ (Good(D[k], s[k]) /\ D[k + 1] = After(D[k], s[k]))
  BY DEF Retraced
<1>2. /\ n \in Nat /\ Len(z) = n + 1 /\ z[1] = i
      /\ \A k \in 2 .. n + 1 : z[k] = s[k - 1]
  BY StackShift
<1> HIDE DEF z, n
<1> DEFINE E == [k \in 1 .. n + 2 |-> IF k = 1 THEN e ELSE D[k - 1]]
<1>3. E \in [1 .. Len(z) + 1 -> Document] /\ E[1] = e
  BY <1>1, <1>2
<1>4. ASSUME NEW k \in 1 .. Len(z)
      PROVE  EmptyGroup(z[k]) \/ (Good(E[k], z[k]) /\ E[k + 1] = After(E[k], z[k]))
  <2>1. CASE k = 1
    <3>1. E[1] = e /\ E[1 + 1] = d /\ z[1] = i
      BY <1>1, <1>2
    <3> HIDE DEF E
    <3> QED BY <2>1, <3>1
  <2>2. CASE k # 1
    <3>1. /\ k - 1 \in 1 .. n /\ k \in 2 .. n + 1 /\ (k - 1) + 1 = k
          /\ E[k] = D[k - 1] /\ E[k + 1] = D[k]
      BY <1>2, <1>4, <2>2
    <3>2. z[k] = s[k - 1]
      BY <1>2, <3>1
    <3> HIDE DEF E
    <3> QED BY <1>1, <3>1, <3>2
  <2> QED BY <2>1, <2>2
<1> HIDE DEF E
<1> QED BY <1>3, <1>4 DEF Retraced, z

LEMMA RetracedPop ==
    ASSUME NEW d, NEW s \in Seq(Formed), Retraced(d, s), s # <<>>, ~EmptyGroup(Head(s))
    PROVE  /\ Good(d, Head(s))
           /\ Retraced(After(d, Head(s)), Tail(s))
<1> DEFINE z == Tail(s)
           n == Len(s)
<1>1. PICK D \in [1 .. n + 1 -> Document] :
        /\ D[1] = d
        /\ \A k \in 1 .. n : EmptyGroup(s[k]) \/ (Good(D[k], s[k]) /\ D[k + 1] = After(D[k], s[k]))
  BY DEF Retraced
<1>2. /\ n \in Nat /\ n >= 1 /\ Head(s) = s[1] /\ Len(z) = n - 1
      /\ \A k \in 1 .. n - 1 : z[k] = s[k + 1]
  <2>1. n \in Nat
    BY LenProperties
  <2> QED BY <2>1, EmptySeq, HeadTailProperties
<1> HIDE DEF z, n
<1>3. Good(d, Head(s)) /\ D[2] = After(d, Head(s))
  <2>1. 1 \in 1 .. n /\ 1 + 1 = 2
    BY <1>2
  <2> QED BY <1>1, <1>2, <2>1
<1> DEFINE E == [k \in 1 .. n |-> D[k + 1]]
<1>4. E \in [1 .. Len(z) + 1 -> Document] /\ E[1] = After(d, Head(s))
  BY <1>1, <1>2, <1>3
<1>5. ASSUME NEW k \in 1 .. Len(z)
      PROVE  EmptyGroup(z[k]) \/ (Good(E[k], z[k]) /\ E[k + 1] = After(E[k], z[k]))
  <2>1. k + 1 \in 1 .. n /\ k \in 1 .. n - 1 /\ E[k] = D[k + 1] /\ E[k + 1] = D[(k + 1) + 1]
    BY <1>2, <1>5
  <2>2. z[k] = s[k + 1]
    BY <1>2, <2>1
  <2> HIDE DEF E
  <2> QED BY <1>1, <2>1, <2>2
<1> HIDE DEF E
<1> QED BY <1>3, <1>4, <1>5 DEF Retraced, z

(* The inductive invariant: what either stack holds leads back from the     *)
(* present document.                                                        *)
ExactInv ==
    /\ Blank(doc)
    /\ \A h \in Host : Retraced(doc, undo[h]) /\ Retraced(doc, redo[h])

LEMMA InitExact == Init => ExactInv
<1> SUFFICES ASSUME Init PROVE ExactInv
  OBVIOUS
<1>1. doc \in Document /\ Blank(doc)
  BY HistoryAssumption DEF Init
<1>2. \A h \in Host : undo[h] = <<>> /\ redo[h] = <<>>
  BY DEF Init
<1> QED BY <1>1, <1>2, RetracedEmpty DEF ExactInv

(* The only host applies a command to the document, and pushes its inverse. *)
Steps(c) ==
    /\ Good(doc, c) /\ doc' = After(doc, c)
    /\ \A h \in Host : Acted(h) /\ Pushed(h) = InverseOf(doc, c)

LEMMA StepExact ==
    ASSUME ~EnforceOnReplay, \A g, h \in Host : g = h,
           TypeOK, OwnerInv, ShapeInv, ExactInv, DepthBounded, DepthBounded', Next
    PROVE  ExactInv' /\ \E c : Steps(c)
<1>0. /\ doc \in Document /\ Forest(doc, Roots) /\ Blank(doc) /\ EnforceOnReplay = FALSE
      /\ undo \in [Host -> Seq(Formed)] /\ redo \in [Host -> Seq(Formed)]
      /\ ~TooDeep(doc) /\ ~TooDeep(doc')
  BY HistoryAssumption DEF TypeOK, ShapeInv, ExactInv, DepthBounded
<1>1. ASSUME NEW c, Good(doc, c), doc' = After(doc, c)
      PROVE  /\ Blank(doc') /\ doc' \in Document /\ InverseOf(doc, c) \in Formed
             /\ EmptyGroup(InverseOf(doc, c))
                \/ (Good(doc', InverseOf(doc, c)) /\ After(doc', InverseOf(doc, c)) = doc)
  <2>1. c \in Formed /\ c \in Entry /\ c \in Command /\ Accepts(FALSE, doc, c)
    BY <1>1 DEF Good, Formed, Entry
  <2>2. Blank(doc') /\ doc' \in Document
    BY <1>0, <1>1, <2>1, StepBlank, StepType
  <2>3. InverseOf(doc, c) \in Formed
    BY <1>0, <1>1, <2>1, StepForest DEF Good
  <2> QED BY <1>0, <1>1, <2>2, <2>3, Invertible
<1>2. ASSUME NEW h \in Host, SubmitsFresh(h) PROVE ExactInv' /\ \E c : Steps(c)
  <2>1. PICK c \in Entry : Submit(h, c) /\ AsOffered(c) /\ Brings(c) \cap minted = {}
    BY <1>2 DEF SubmitsFresh
  <2>2. c \in Formed /\ Brings(c) \cap doc.live = {}
    BY <2>1, OfferedFormed DEF OwnerInv
  <2>3. Accepts(FALSE, doc, c) /\ doc' = After(doc, c)
    BY <2>1, AcceptsUnlocked DEF Submit, Entry
  <2>4. PlanFits(doc, c)
    BY <2>1 DEF AsOffered, PlanFits
  <2>5. Good(doc, c)
    BY <1>0, <2>2, <2>3, <2>4 DEF Good
  <2> DEFINE i == InverseOf(doc, c)
  <2>6. undo' = [undo EXCEPT ![h] = <<i>> \o undo[h]] /\ redo' = [redo EXCEPT ![h] = <<>>]
    BY <2>1 DEF Submit
  <2>7. /\ Blank(doc') /\ doc' \in Document /\ i \in Formed
        /\ EmptyGroup(i) \/ (Good(doc', i) /\ After(doc', i) = doc)
    BY <1>1, <2>3, <2>5
  <2>8. undo[h] \in Seq(Formed) /\ Retraced(doc, undo[h])
    BY <1>0 DEF ExactInv
  <2> HIDE DEF i
  <2>9. Retraced(doc', <<i>> \o undo[h]) /\ Retraced(doc', <<>>)
    BY <2>7, <2>8, RetracedPush, RetracedEmpty
  <2>10. undo'[h] = <<i>> \o undo[h] /\ redo'[h] = <<>>
    BY <1>0, <2>6
  <2>11. ExactInv'
    BY <2>7, <2>9, <2>10 DEF ExactInv
  <2>12. Acted(h) /\ Pushed(h) = i
    <3>1. /\ <<i>> \o undo[h] \in Seq(Formed) /\ Len(undo[h]) \in Nat
          /\ Len(<<i>> \o undo[h]) = Len(undo[h]) + 1 /\ (<<i>> \o undo[h])[1] = i
      BY <2>7, <2>8, StackShift
    <3>2. Head(<<i>> \o undo[h]) = i
      BY <3>1, EmptySeq, HeadTailProperties
    <3> QED BY <2>10, <3>1, <3>2 DEF Acted, Pushed, PushedUndo
  <2> QED BY <2>3, <2>5, <2>11, <2>12 DEF Steps, i
<1>3. ASSUME NEW h \in Host, NEW o \in {"undo", "redo"}, NEW t \in {"undo", "redo"} \ {o},
             Replay(h, o, t)
      PROVE  ExactInv' /\ \E c : Steps(c)
  <2> DEFINE s == Side(undo, redo, o)[h]
             z == Side(undo, redo, t)[h]
             c == Head(s)
             i == InverseOf(doc, c)
  <2>1. /\ s \in Seq(Formed) /\ s # <<>> /\ z \in Seq(Formed)
        /\ Retraced(doc, s) /\ Retraced(doc, z)
    BY <1>0, <1>3 DEF ExactInv, Side, Replay
  <2>2. Accepts(FALSE, doc, c) /\ doc' = After(doc, c)
    BY <1>0, <1>3 DEF Replay
  <2>3. /\ Side(undo', redo', o) = [Side(undo, redo, o) EXCEPT ![h] = Tail(s)]
        /\ Side(undo', redo', t) = [Side(undo, redo, t) EXCEPT ![h] = <<i>> \o z]
    BY <1>3 DEF Replay
  <2>4. /\ Side(undo, redo, o) \in [Host -> Seq(Formed)]
        /\ Side(undo, redo, t) \in [Host -> Seq(Formed)]
    BY <1>0 DEF Side
  <2> HIDE DEF i, s, z
  <2>5. ~EmptyGroup(c)
    BY <2>2 DEF EmptyGroup, Accepts, GroupAccepts
  <2>6. Good(doc, c) /\ Retraced(doc', Tail(s))
    BY <2>1, <2>2, <2>5, RetracedPop
  <2>7. /\ Blank(doc') /\ doc' \in Document /\ i \in Formed
        /\ EmptyGroup(i) \/ (Good(doc', i) /\ After(doc', i) = doc)
    BY <1>1, <2>2, <2>6 DEF i
  <2>8. Retraced(doc', <<i>> \o z)
    BY <2>1, <2>7, RetracedPush
  <2>9. Side(undo', redo', o)[h] = Tail(s) /\ Side(undo', redo', t)[h] = <<i>> \o z
    BY <2>3, <2>4
  <2>10. Retraced(doc', undo'[h]) /\ Retraced(doc', redo'[h])
    <3>1. CASE o = "undo" /\ t = "redo"
      BY <2>6, <2>8, <2>9, <3>1 DEF Side
    <3>2. CASE o = "redo" /\ t = "undo"
      BY <2>6, <2>8, <2>9, <3>2 DEF Side
    <3> QED BY <3>1, <3>2
  <2>11. ExactInv'
    BY <2>7, <2>10 DEF ExactInv
  <2>12. Acted(h) /\ Pushed(h) = i
    <3>1. /\ <<i>> \o z \in Seq(Formed) /\ Len(z) \in Nat
          /\ Len(<<i>> \o z) = Len(z) + 1 /\ (<<i>> \o z)[1] = i
      BY <2>1, <2>7, StackShift
    <3>2. Head(<<i>> \o z) = i
      BY <3>1, EmptySeq, HeadTailProperties
    <3>3. Len(s) \in Nat /\ Len(Tail(s)) = Len(s) - 1
      BY <2>1, LenProperties, HeadTailProperties
    <3>4. CASE o = "undo" /\ t = "redo"
      <4>1. undo'[h] = Tail(s) /\ undo[h] = s /\ redo'[h] = <<i>> \o z /\ redo[h] = z
        BY <2>9, <3>4 DEF Side, s, z
      <4> QED BY <3>1, <3>2, <3>3, <4>1 DEF Acted, Pushed, PushedUndo, PushedRedo
    <3>5. CASE o = "redo" /\ t = "undo"
      <4>1. undo'[h] = <<i>> \o z /\ undo[h] = z
        BY <2>9, <3>5 DEF Side, z
      <4> QED BY <3>1, <3>2, <4>1 DEF Acted, Pushed, PushedUndo
    <3> QED BY <3>4, <3>5
  <2> HIDE DEF c
  <2> QED BY <2>2, <2>6, <2>11, <2>12 DEF Steps, i
<1> QED BY <1>2, <1>3, StepApplies DEF Applies

(* What the invariants of this module are, and that every step of the only   *)
(* host keeps them while no tree passes MAX_TREE_DEPTH.                      *)
AloneInv == TypeOK /\ RootsInv /\ OwnerInv /\ ShapeInv /\ ExactInv

LEMMA AloneStep ==
    ASSUME ~EnforceOnReplay, \A g, h \in Host : g = h,
           AloneInv, DepthBounded, DepthBounded', [Next]_vars
    PROVE  AloneInv'
<1>1. CASE Next
  BY <1>1, StepInv, StepOwner, StepShape, StepExact DEF AloneInv
<1>2. CASE UNCHANGED vars
  <2>1. UNCHANGED vars => (ExactInv => ExactInv')
    BY DEF vars, ExactInv
  <2> QED BY <1>2, <2>1, StepInv, StepOwner, StepShape DEF AloneInv
<1> QED BY <1>1, <1>2

(* The inverse a step pushes applies and leads back.                         *)
LEMMA AloneExact ==
    ASSUME ~EnforceOnReplay, \A g, h \in Host : g = h,
           AloneInv, DepthBounded, DepthBounded', Next
    PROVE  \A h \in Host :
             Acted(h) /\ ~EmptyGroup(Pushed(h))
             => Accepts(EnforceOnReplay, doc', Pushed(h)) /\ After(doc', Pushed(h)) = doc
<1>1. PICK c : Steps(c)
  BY StepExact DEF AloneInv
<1>2. EmptyGroup(InverseOf(doc, c))
      \/ (Good(doc', InverseOf(doc, c)) /\ After(doc', InverseOf(doc, c)) = doc)
  BY <1>1, Invertible DEF Steps, DepthBounded
<1>3. EnforceOnReplay = FALSE
  BY HistoryAssumption
<1> QED BY <1>1, <1>2, <1>3 DEF Steps, Good

-----------------------------------------------------------------------------
(* Undo of a host that edits alone, while no tree passes MAX_TREE_DEPTH.    *)

(* The document a step of the machine returned accepts the inverse it       *)
(* pushed, and becomes the document the step was given: for a command, an   *)
(* undo and a redo, after any number of them.                               *)
THEOREM UndoIsExact ==
    ASSUME ~EnforceOnReplay, \A g, h \in Host : g = h
    PROVE  Spec /\ []DepthBounded => InverseExact
<1> DEFINE Exact == \A h \in Host :
                      Acted(h) /\ ~EmptyGroup(Pushed(h))
                      => Accepts(EnforceOnReplay, doc', Pushed(h)) /\ After(doc', Pushed(h)) = doc
<1>1. Init => AloneInv
  BY InitInv, InitOwner, InitShape, InitExact DEF AloneInv
<1>2. AloneInv /\ DepthBounded /\ DepthBounded' /\ [Next]_vars => AloneInv'
  BY AloneStep
<1>3. AloneInv /\ DepthBounded /\ DepthBounded' /\ [Next]_vars => [Exact]_vars
  BY AloneExact
<1> QED BY <1>1, <1>2, <1>3, PTL DEF Spec, InverseExact

(* What leaves the document with a step is in the inverse the step pushed.  *)
THEOREM NothingIsLost ==
    ASSUME ~EnforceOnReplay, \A g, h \in Host : g = h
    PROVE  Spec /\ []DepthBounded => NothingLost
<1> DEFINE Kept == \A n \in doc.live \ doc'.live : \E h \in Host : Acted(h) /\ n \in Brings(Pushed(h))
<1>1. Init => AloneInv
  BY InitInv, InitOwner, InitShape, InitExact DEF AloneInv
<1>2. AloneInv /\ DepthBounded /\ DepthBounded' /\ [Next]_vars => AloneInv'
  BY AloneStep
<1>3. AloneInv /\ DepthBounded /\ DepthBounded' /\ [Next]_vars => [Kept]_vars
  <2> SUFFICES ASSUME AloneInv, DepthBounded, DepthBounded', Next PROVE Kept
    OBVIOUS
  <2>1. PICK c : Steps(c)
    BY StepExact DEF AloneInv
  <2>2. doc.live \ doc'.live \subseteq Brings(InverseOf(doc, c))
    BY <2>1, Invertible DEF Steps, DepthBounded
  <2>3. PICK h \in Host : TRUE
    BY DEF Next
  <2> QED BY <2>1, <2>2, <2>3 DEF Steps
<1> QED BY <1>1, <1>2, <1>3, PTL DEF Spec, NothingLost

(* A document of no more nodes than a path may have is never too deep.      *)
LEMMA FewNodes ==
    ASSUME Cardinality(Node) <= MaxTreeDepth + 1
    PROVE  Spec => []DepthBounded
<1>1. Init => TypeOK /\ RootsInv
  BY InitInv
<1>2. TypeOK /\ RootsInv /\ [Next]_vars => (TypeOK /\ RootsInv)'
  BY StepInv
<1>3. TypeOK => DepthBounded
  <2> SUFFICES ASSUME TypeOK PROVE DepthBounded
    OBVIOUS
  <2>1. doc.live \in SUBSET Node
    BY DEF TypeOK, Document
  <2>2. Cardinality(doc.live) <= Cardinality(Node)
    BY <2>1, NodeAssumption, FS_Subset
  <2>3. Cardinality(doc.live) \in Nat /\ Cardinality(Node) \in Nat /\ MaxTreeDepth \in Nat
    BY <2>1, NodeCount, NodeAssumption
  <2> QED BY <2>2, <2>3 DEF DepthBounded, TooDeep
<1> QED BY <1>1, <1>2, <1>3, PTL DEF Spec

(* With no more nodes than that, both hold without further condition.       *)
THEOREM SmallDocumentsUndo ==
    ASSUME ~EnforceOnReplay, \A g, h \in Host : g = h, Cardinality(Node) <= MaxTreeDepth + 1
    PROVE  Spec => InverseExact /\ NothingLost
BY UndoIsExact, NothingIsLost, FewNodes, PTL

-----------------------------------------------------------------------------
(* Undo and redo as a line of versions.                                      *)

(* V[k]: the document k entries of the stack s lead back to from d.          *)
Trails(d, s, V) ==
    V = [k \in 0 .. Len(s) |-> IF k = 0 THEN d ELSE After(V[k - 1], s[k])]

(* The versions a stack stands for, nearest first.                           *)
Trail(d, s) == CHOOSE V : Trails(d, s, V)

Versions(d, s) == [k \in 1 .. Len(s) |-> Trail(d, s)[k]]

LEMMA TrailExists ==
    ASSUME NEW d, NEW T, NEW s \in Seq(T)
    PROVE  \E V : Trails(d, s, V)
<1> DEFINE N == Len(s)
           Run(f, n) == f = [k \in 0 .. n |-> IF k = 0 THEN d ELSE After(f[k - 1], s[k])]
           S == {n \in 0 .. N : \E f : Run(f, n)}
<1>1. N \in Nat
  BY LenProperties
<1> HIDE DEF N
<1>2. 0 \in S
  <2> DEFINE g == [k \in 0 .. 0 |-> d]
  <2>1. Run(g, 0)
    BY \A k \in 0 .. 0 : k = 0
  <2> HIDE DEF Run, g
  <2> QED BY <1>1, <2>1
<1>3. ASSUME NEW k \in 1 .. N, k - 1 \in S
      PROVE  k \in S
  <2>1. PICK f : Run(f, k - 1)
    BY <1>3
  <2> DEFINE g == [j \in 0 .. k |-> IF j < k THEN f[j] ELSE After(f[k - 1], s[k])]
  <2>2. \A j \in 0 .. k : g[j] = IF j = 0 THEN d ELSE After(g[j - 1], s[j])
    <3> TAKE j \in 0 .. k
    <3>1. CASE j = k
      BY <1>1, <3>1
    <3>2. CASE j # k
      BY <1>1, <2>1, <3>2
    <3> QED BY <3>1, <3>2
  <2>3. Run(g, k)
    BY <2>2
  <2> HIDE DEF Run, g
  <2> QED BY <1>1, <2>3
<1>4. N \in S
  <2> HIDE DEF S
  <2>1. 0 .. N \subseteq S
    BY <1>1, <1>2, <1>3, Induction, Zenon
  <2> QED BY <1>1, <2>1
<1> QED BY <1>4 DEF Trails, N

LEMMA TrailUnique ==
    ASSUME NEW d, NEW T, NEW s \in Seq(T), NEW V, NEW W, Trails(d, s, V), Trails(d, s, W)
    PROVE  V = W
<1> DEFINE N == Len(s)
           S == {n \in 0 .. N : V[n] = W[n]}
<1>1. N \in Nat
  BY LenProperties
<1>2. /\ V = [k \in 0 .. N |-> V[k]] /\ V[0] = d /\ \A k \in 1 .. N : V[k] = After(V[k - 1], s[k])
      /\ W = [k \in 0 .. N |-> W[k]] /\ W[0] = d /\ \A k \in 1 .. N : W[k] = After(W[k - 1], s[k])
  BY <1>1 DEF Trails
<1> HIDE DEF N
<1>3. 0 \in S
  BY <1>1, <1>2
<1>4. ASSUME NEW k \in 1 .. N, k - 1 \in S
      PROVE  k \in S
  <2>1. V[k - 1] = W[k - 1] /\ k \in 0 .. N
    BY <1>1, <1>4
  <2>2. V[k] = W[k]
    BY <1>2, <2>1
  <2> QED BY <2>1, <2>2
<1>5. 0 .. N \subseteq S
  <2> HIDE DEF S
  <2> QED BY <1>1, <1>3, <1>4, Induction, Zenon
<1> QED BY <1>2, <1>5

(* The versions of a stack with an entry more.                               *)
LEMMA VersionsPush ==
    ASSUME NEW e, NEW i \in Formed, NEW s \in Seq(Formed)
    PROVE  Versions(e, <<i>> \o s) = <<After(e, i)>> \o Versions(After(e, i), s)
<1> DEFINE z == <<i>> \o s
           n == Len(s)
           d == After(e, i)
<1>1. /\ n \in Nat /\ z \in Seq(Formed) /\ Len(z) = n + 1 /\ z[1] = i
      /\ \A k \in 2 .. n + 1 : z[k] = s[k - 1]
  BY StackShift
<1>2. PICK W : Trails(d, s, W)
  BY TrailExists
<1>3. Versions(d, s) = [k \in 1 .. n |-> W[k]]
  <2>1. Trails(d, s, Trail(d, s))
    BY <1>2 DEF Trail
  <2>2. Trail(d, s) = W
    BY <1>2, <2>1, TrailUnique
  <2> QED BY <2>2 DEF Versions
<1>4. W[0] = d /\ \A k \in 1 .. n : W[k] = After(W[k - 1], s[k])
  BY <1>1, <1>2 DEF Trails
<1> DEFINE V == [k \in 0 .. n + 1 |-> IF k = 0 THEN e ELSE W[k - 1]]
<1> HIDE DEF z, n, d
<1>5. Trails(e, z, V)
  <2>1. \A k \in 0 .. n + 1 : V[k] = IF k = 0 THEN e ELSE After(V[k - 1], z[k])
    <3> TAKE k \in 0 .. n + 1
    <3>1. CASE k = 0
      BY <3>1
    <3>2. CASE k = 1
      <4>1. V[1] = W[0] /\ V[0] = e /\ 1 - 1 = 0
        BY <1>1
      <4> HIDE DEF V
      <4> QED BY <1>1, <1>4, <3>2, <4>1 DEF d
    <3>3. CASE k # 0 /\ k # 1
      <4>1. k \in 2 .. n + 1 /\ k - 1 \in 1 .. n /\ k - 1 # 0 /\ k - 1 \in 0 .. n + 1
        BY <1>1, <3>3
      <4>2. V[k] = W[k - 1] /\ V[k - 1] = W[(k - 1) - 1]
        BY <3>3, <4>1
      <4> HIDE DEF V
      <4> QED BY <1>1, <1>4, <3>3, <4>1, <4>2
    <3> QED BY <3>1, <3>2, <3>3
  <2>2. V = [k \in 0 .. n + 1 |-> V[k]]
    OBVIOUS
  <2> HIDE DEF V
  <2>3. V = [k \in 0 .. Len(z) |-> IF k = 0 THEN e ELSE After(V[k - 1], z[k])]
    BY <1>1, <2>1, <2>2
  <2> QED BY <2>3 DEF Trails
<1>6. Versions(e, z) = [k \in 1 .. n + 1 |-> V[k]]
  <2> HIDE DEF V
  <2>1. Trails(e, z, Trail(e, z))
    BY <1>5 DEF Trail
  <2>2. Trail(e, z) = V
    BY <1>1, <1>5, <2>1, TrailUnique
  <2> QED BY <1>1, <2>2 DEF Versions
<1>7. [k \in 1 .. n + 1 |-> V[k]] = [k \in 1 .. n + 1 |-> W[k - 1]]
  BY <1>1
<1>8. [k \in 1 .. n + 1 |-> W[k - 1]] = <<W[0]>> \o [k \in 1 .. n |-> W[k]]
  <2> DEFINE R == {W[k] : k \in 0 .. n}
             q == [k \in 1 .. n |-> W[k]]
             p == [k \in 1 .. n + 1 |-> W[k - 1]]
  <2>0. \A k \in 0 .. n : W[k] \in R
    OBVIOUS
  <2>1. q \in Seq(R) /\ Len(q) = n /\ W[0] \in R
    <3> HIDE DEF R
    <3> QED BY <1>1, <2>0
  <2>2. \A k \in 1 .. n : q[k] = W[k]
    OBVIOUS
  <2>3. p \in Seq(R) /\ Len(p) = n + 1 /\ \A k \in 1 .. n + 1 : p[k] = W[k - 1]
    <3> HIDE DEF R
    <3> QED BY <1>1, <2>0
  <2> HIDE DEF R, q, p
  <2>4. /\ <<W[0]>> \o q \in Seq(R) /\ Len(<<W[0]>> \o q) = n + 1
        /\ (<<W[0]>> \o q)[1] = W[0] /\ \A k \in 2 .. n + 1 : (<<W[0]>> \o q)[k] = q[k - 1]
    BY <2>1, StackShift
  <2>5. \A k \in 1 .. n + 1 : p[k] = (<<W[0]>> \o q)[k]
    <3> TAKE k \in 1 .. n + 1
    <3>1. CASE k = 1
      BY <1>1, <2>3, <2>4, <3>1
    <3>2. CASE k # 1
      <4>1. k \in 2 .. n + 1 /\ k - 1 \in 1 .. n
        BY <1>1, <3>2
      <4> QED BY <2>2, <2>3, <2>4, <4>1
    <3> QED BY <3>1, <3>2
  <2>6. p = <<W[0]>> \o q
    BY <1>1, <2>3, <2>4, <2>5, SeqEqual
  <2> QED BY <2>6 DEF p, q
<1> HIDE DEF V
<1> QED BY <1>3, <1>4, <1>6, <1>7, <1>8 DEF z, d

(* The versions of a stack, by its newest entry.                             *)
LEMMA VersionsPop ==
    ASSUME NEW d, NEW s \in Seq(Formed), s # <<>>
    PROVE  LET p == Versions(d, s)
               a == After(d, Head(s))
           IN  p # <<>> /\ Head(p) = a /\ Tail(p) = Versions(a, Tail(s))
<1> DEFINE a == After(d, Head(s))
           q == Versions(a, Tail(s))
           R == {a} \cup {q[k] : k \in DOMAIN q}
<1>1. Head(s) \in Formed /\ Tail(s) \in Seq(Formed) /\ s = <<Head(s)>> \o Tail(s)
  BY HeadTailProperties, EmptySeq
<1>2. Versions(d, s) = <<a>> \o q
  <2> DEFINE h == Head(s)
             t == Tail(s)
  <2>1. h \in Formed /\ t \in Seq(Formed) /\ s = <<h>> \o t
    BY <1>1
  <2> HIDE DEF h, t
  <2>2. Versions(d, <<h>> \o t) = <<After(d, h)>> \o Versions(After(d, h), t)
    BY <2>1, VersionsPush
  <2>3. Versions(d, s) = Versions(d, <<h>> \o t)
    BY <2>1
  <2> QED BY <2>2, <2>3 DEF h, t
<1>3. q = [k \in 1 .. Len(Tail(s)) |-> q[k]] /\ Len(Tail(s)) \in Nat
  BY <1>1, LenProperties DEF Versions
<1> HIDE DEF q
<1>4. q \in Seq(R) /\ a \in R
  BY <1>3
<1> HIDE DEF a, R
<1>5. <<a>> \o q # <<>> /\ Head(<<a>> \o q) = a /\ Tail(<<a>> \o q) = q
  BY <1>4
<1> QED BY <1>2, <1>5 DEF a, q

(* What the only host has, and how its stacks stand for the versions of      *)
(* LinearHistory.                                                            *)
Alone == CHOOSE h : h \in Host

Line == INSTANCE LinearHistory WITH past <- Versions(doc, undo[Alone]), present <- doc,
                                    future <- Versions(doc, redo[Alone])

(* The host ungroups no group without children.                              *)
NoEmptyGroup ==
    \A h \in Host : /\ \A k \in 1 .. Len(undo[h]) : ~EmptyGroup(undo[h][k])
                    /\ \A k \in 1 .. Len(redo[h]) : ~EmptyGroup(redo[h][k])

LEMMA StepMovesAlong ==
    ASSUME \E h : Host = {h}, NoEmptyGroup', Next,
           TypeOK, OwnerInv, ShapeInv,
           \A h \in Host : Acted(h) /\ ~EmptyGroup(Pushed(h)) => After(doc', Pushed(h)) = doc
    PROVE  Line!Next
<1> DEFINE h == Alone
           u == undo[h]
           r == redo[h]
<1>0. h \in Host /\ \A g \in Host : g = h
  BY DEF Alone
<1>1. undo \in [Host -> Seq(Formed)] /\ redo \in [Host -> Seq(Formed)]
  BY DEF ShapeInv
<1>2. u \in Seq(Formed) /\ r \in Seq(Formed)
  BY <1>0, <1>1
<1>3. ASSUME NEW i \in Formed, NEW s \in Seq(Formed), Pushed(h) = i, Acted(h), ~EmptyGroup(i)
      PROVE  Versions(doc', <<i>> \o s) = <<doc>> \o Versions(doc, s)
  <2>1. After(doc', i) = doc
    BY <1>0, <1>3
  <2> QED BY <2>1, VersionsPush
<1>4. ASSUME NEW i \in Formed, NEW s \in Seq(Formed)
      PROVE  /\ Head(<<i>> \o s) = i /\ Len(s) \in Nat /\ Len(<<i>> \o s) = Len(s) + 1
             /\ (<<i>> \o s)[1] = i /\ 1 \in 1 .. Len(<<i>> \o s)
  <2>1. /\ <<i>> \o s \in Seq(Formed) /\ Len(s) \in Nat
        /\ Len(<<i>> \o s) = Len(s) + 1 /\ (<<i>> \o s)[1] = i
    BY StackShift
  <2>2. Head(<<i>> \o s) = i
    BY <2>1, EmptySeq, HeadTailProperties
  <2> QED BY <2>1, <2>2
<1>5. \A d : Versions(d, <<>>) = <<>>
  BY DEF Versions
<1>6. CASE SubmitsFresh(h)
  <2>1. PICK c \in Entry : Submit(h, c) /\ AsOffered(c) /\ Brings(c) \cap minted = {}
    BY <1>6 DEF SubmitsFresh
  <2> DEFINE i == InverseOf(doc, c)
  <2>2. c \in Formed /\ Brings(c) \cap doc.live = {} /\ doc \in Document /\ Forest(doc, Roots)
    BY <2>1, OfferedFormed DEF OwnerInv, ShapeInv, TypeOK
  <2>3. Accepts(EnforceOnSubmit, doc, c)
    BY <2>1 DEF Submit
  <2>4. i \in Formed
    BY <2>2, <2>3, StepForest
  <2>5. undo' = [undo EXCEPT ![h] = <<i>> \o u] /\ redo' = [redo EXCEPT ![h] = <<>>]
    BY <2>1 DEF Submit
  <2> HIDE DEF i, u, r, h
  <2>6. undo'[h] = <<i>> \o u /\ redo'[h] = <<>>
    BY <1>0, <1>1, <2>5
  <2>7. PushedUndo(h) /\ Pushed(h) = i
    BY <1>2, <1>4, <2>4, <2>6 DEF PushedUndo, Pushed, u
  <2>8. ~EmptyGroup(i)
    BY <1>0, <1>2, <1>4, <2>4, <2>6 DEF NoEmptyGroup
  <2>9. Versions(doc', undo'[h]) = <<doc>> \o Versions(doc, u)
    BY <1>2, <1>3, <2>4, <2>6, <2>7, <2>8 DEF Acted
  <2>10. Versions(doc', redo'[h]) = <<>>
    BY <1>5, <2>6
  <2> QED BY <2>9, <2>10 DEF Line!Next, Line!Change, u, h
<1>7. ASSUME NEW o \in {"undo", "redo"}, NEW t \in {"undo", "redo"} \ {o}, Replay(h, o, t)
      PROVE  LET s == Side(undo, redo, o)[h]
                 z == Side(undo, redo, t)[h]
             IN  /\ Versions(doc, s) # <<>> /\ doc' = Head(Versions(doc, s))
                 /\ Versions(doc', Side(undo', redo', o)[h]) = Tail(Versions(doc, s))
                 /\ Versions(doc', Side(undo', redo', t)[h]) = <<doc>> \o Versions(doc, z)
  <2> DEFINE s == Side(undo, redo, o)[h]
             z == Side(undo, redo, t)[h]
             c == Head(s)
             i == InverseOf(doc, c)
  <2>1. s \in Seq(Formed) /\ s # <<>> /\ z \in Seq(Formed)
    BY <1>2, <1>7 DEF Side, Replay
  <2>2. Accepts(EnforceOnReplay, doc, c) /\ doc' = After(doc, c)
    BY <1>7 DEF Replay
  <2>3. /\ Side(undo', redo', o) = [Side(undo, redo, o) EXCEPT ![h] = Tail(s)]
        /\ Side(undo', redo', t) = [Side(undo, redo, t) EXCEPT ![h] = <<i>> \o z]
    BY <1>7 DEF Replay
  <2>4. /\ Side(undo, redo, o) \in [Host -> Seq(Formed)]
        /\ Side(undo, redo, t) \in [Host -> Seq(Formed)]
    BY <1>1 DEF Side
  <2>5. c \in Formed /\ Brings(c) \cap doc.live = {}
    <3>1. c \in Formed
      BY <2>1, HeadTailProperties
    <3> QED BY <1>0, <1>7, <3>1, ReplayBrings
  <2>6. i \in Formed
    BY <2>2, <2>5, StepForest DEF ShapeInv, TypeOK
  <2> HIDE DEF i, s, z, c, h
  <2>7. Side(undo', redo', o)[h] = Tail(s) /\ Side(undo', redo', t)[h] = <<i>> \o z
    BY <1>0, <2>3, <2>4
  <2>8. Acted(h) /\ Pushed(h) = i
    <3>1. /\ Len(z) \in Nat /\ Len(<<i>> \o z) = Len(z) + 1 /\ Head(<<i>> \o z) = i
      BY <1>4, <2>1, <2>6
    <3>2. Len(s) \in Nat /\ Len(Tail(s)) = Len(s) - 1
      BY <2>1, LenProperties, HeadTailProperties
    <3>3. CASE o = "undo" /\ t = "redo"
      <4>1. undo'[h] = Tail(s) /\ undo[h] = s /\ redo'[h] = <<i>> \o z /\ redo[h] = z
        BY <2>7, <3>3 DEF Side, s, z
      <4> QED BY <3>1, <3>2, <4>1 DEF Acted, Pushed, PushedUndo, PushedRedo
    <3>4. CASE o = "redo" /\ t = "undo"
      <4>1. undo'[h] = <<i>> \o z /\ undo[h] = z
        BY <2>7, <3>4 DEF Side, z
      <4> QED BY <3>1, <4>1 DEF Acted, Pushed, PushedUndo
    <3> QED BY <3>3, <3>4
  <2>9. ~EmptyGroup(i)
    <3>1. (<<i>> \o z)[1] = i /\ 1 \in 1 .. Len(<<i>> \o z)
      BY <1>4, <2>1, <2>6
    <3>2. \A k \in 1 .. Len(Side(undo', redo', t)[h]) : ~EmptyGroup(Side(undo', redo', t)[h][k])
      BY <1>0 DEF NoEmptyGroup, Side
    <3> QED BY <2>7, <3>1, <3>2
  <2>10. Versions(doc', <<i>> \o z) = <<doc>> \o Versions(doc, z)
    BY <1>3, <2>1, <2>6, <2>8, <2>9
  <2>11. /\ Versions(doc, s) # <<>> /\ Head(Versions(doc, s)) = doc'
         /\ Tail(Versions(doc, s)) = Versions(doc', Tail(s))
    BY <2>1, <2>2, VersionsPop DEF c
  <2> QED BY <2>7, <2>10, <2>11 DEF s, z
<1>8. CASE Replay(h, "undo", "redo")
  <2>1. /\ Versions(doc, undo[h]) # <<>> /\ doc' = Head(Versions(doc, undo[h]))
        /\ Versions(doc', undo'[h]) = Tail(Versions(doc, undo[h]))
        /\ Versions(doc', redo'[h]) = <<doc>> \o Versions(doc, redo[h])
    BY <1>7, <1>8 DEF Side
  <2> QED BY <2>1 DEF Line!Next, Line!Undo, h
<1>9. CASE Replay(h, "redo", "undo")
  <2>1. /\ Versions(doc, redo[h]) # <<>> /\ doc' = Head(Versions(doc, redo[h]))
        /\ Versions(doc', redo'[h]) = Tail(Versions(doc, redo[h]))
        /\ Versions(doc', undo'[h]) = <<doc>> \o Versions(doc, undo[h])
    BY <1>7, <1>9 DEF Side
  <2> QED BY <2>1 DEF Line!Next, Line!Redo, h
<1> QED
  <2>1. SubmitsFresh(h) \/ Replay(h, "undo", "redo") \/ Replay(h, "redo", "undo")
    <3>1. \E g \in Host : Applies(g)
      BY StepApplies
    <3>2. \A g \in Host : g = h
      BY <1>0
    <3> HIDE DEF h
    <3> QED BY <3>1, <3>2 DEF Applies
  <2> QED BY <1>6, <1>8, <1>9, <2>1

(* CommandHistory implements LinearHistory: for a host that edits alone, and *)
(* whatever it submits, undoes and redoes in whatever order, the entries of  *)
(* its stacks are worth the versions before and after the present one, and   *)
(* every undo and redo shows the very version the line has there.            *)
THEOREM UndoKeepsALine ==
    ASSUME ~EnforceOnReplay, \E h : Host = {h}
    PROVE  Spec /\ []DepthBounded /\ []NoEmptyGroup => Line!Spec
<1>0. \A g, h \in Host : g = h
  OBVIOUS
<1>1. Init => AloneInv /\ Line!Init
  <2>1. Init => AloneInv
    BY InitInv, InitOwner, InitShape, InitExact DEF AloneInv
  <2>2. Alone \in Host
    BY DEF Alone
  <2>3. Init => undo[Alone] = <<>> /\ redo[Alone] = <<>>
    BY <2>2 DEF Init
  <2>4. \A d : Versions(d, <<>>) = <<>>
    BY DEF Versions
  <2> QED BY <2>1, <2>3, <2>4 DEF Line!Init
<1>2. AloneInv /\ DepthBounded /\ DepthBounded' /\ [Next]_vars => AloneInv'
  BY <1>0, AloneStep
<1>3. AloneInv /\ DepthBounded /\ DepthBounded' /\ NoEmptyGroup' /\ [Next]_vars
      => [Line!Next]_(Line!line)
  <2>1. CASE UNCHANGED vars
    BY <2>1 DEF vars, Line!line
  <2>2. ASSUME AloneInv, DepthBounded, DepthBounded', NoEmptyGroup', Next
        PROVE  Line!Next
    <3>1. \A h \in Host : Acted(h) /\ ~EmptyGroup(Pushed(h)) => After(doc', Pushed(h)) = doc
      BY <1>0, <2>2, AloneExact
    <3> QED BY <2>2, <3>1, StepMovesAlong DEF AloneInv
  <2> QED BY <2>1, <2>2
<1> QED BY <1>1, <1>2, <1>3, PTL DEF Spec, Line!Spec

=============================================================================
