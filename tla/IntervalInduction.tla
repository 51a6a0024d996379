-------------------------- MODULE IntervalInduction --------------------------
(***************************************************************************)
(* Induction along an interval, for the recursive functions and the folds  *)
(* of the other modules.  It is obtained from the fact that inclusion of   *)
(* finite sets is well founded.                                            *)
(***************************************************************************)
EXTENDS Integers, FiniteSetTheorems, TLAPS

(* A set of numbers that is not empty has a least one: the intervals below   *)
(* its members are finite sets, and inclusion among those is well founded.   *)
LEMMA LeastNat ==
  ASSUME NEW T \in SUBSET Nat, T # {}
  PROVE  \E x \in T : \A y \in T : x <= y
<1> DEFINE I == {0 .. t : t \in T}
<1>1. \A t \in I : t \subseteq Nat /\ IsFiniteSet(t)
  <2> TAKE u \in I
  <2>1. PICK t \in T : u = 0 .. t
    OBVIOUS
  <2>2. t \in Nat /\ 0 \in Int /\ t \in Int
    OBVIOUS
  <2> QED
    BY <2>1, <2>2, FS_Interval
<1>2. I # {}
  OBVIOUS
<1>3. IsWellFoundedOn(StrictSubsetOrdering(Nat), FiniteSubsetsOf(Nat))
  BY FS_StrictSubsetOrderingWellFounded, Zenon
<1>4. I \subseteq FiniteSubsetsOf(Nat)
  BY <1>1 DEF FiniteSubsetsOf
<1> HIDE DEF I
<1>5. PICK x \in I : \A y \in I : ~(<<y, x>> \in StrictSubsetOrdering(Nat))
  BY <1>2, <1>3, <1>4, WFMin, Zenon
<1>6. PICK t \in T : x = 0 .. t
  BY DEF I
<1>7. ASSUME NEW y \in T, y < t
      PROVE  FALSE
  <2>1. 0 .. y \in I
    BY DEF I
  <2>2. 0 .. y \subseteq 0 .. t
    BY <1>7
  <2>3. 0 .. y = 0 .. t
    BY <1>1, <1>5, <1>6, <2>1, <2>2 DEF StrictSubsetOrdering
  <2>4. t \in 0 .. t
    OBVIOUS
  <2> QED
    BY <1>7, <2>3, <2>4
<1> QED
  BY <1>7

(* Induction along an interval.                                              *)
LEMMA Induction ==
  ASSUME NEW n \in Nat, NEW S, 0 \in S, \A k \in 1 .. n : k - 1 \in S => k \in S
  PROVE  0 .. n \subseteq S
<1>1. SUFFICES ASSUME (0 .. n) \ S # {}
               PROVE  FALSE
  OBVIOUS
<1>2. PICK x \in (0 .. n) \ S : \A y \in (0 .. n) \ S : x <= y
  <2> DEFINE T == (0 .. n) \ S
  <2>1. T \in SUBSET Nat /\ T # {}
    BY <1>1
  <2> HIDE DEF T
  <2>2. \E x \in T : \A y \in T : x <= y
    BY <2>1, LeastNat
  <2> QED
    BY <2>2 DEF T
<1>3. x # 0 /\ x \in 1 .. n /\ x - 1 \in 0 .. n
  BY <1>2
<1> QED
  BY <1>2, <1>3

=============================================================================
