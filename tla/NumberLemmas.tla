---------------------------- MODULE NumberLemmas -----------------------------
(***************************************************************************)
(* Natural numbers: induction over a set of them, the least, the greatest, *)
(* and what get_next_experiment_id and its like compute of them, which is  *)
(* one more than the greatest there is.                                    *)
(***************************************************************************)
EXTENDS Integers, FiniteSetsExt, WellFoundedInduction, FiniteSetTheorems, TLAPS

LEMMA LeastExists ==
    ASSUME NEW S, S \subseteq Nat, S # {}
    PROVE  \E x \in S : \A y \in S : x <= y
<1> DEFINE R == OpToRel(<, Nat)
<1>1. IsWellFoundedOn(R, Nat)
  BY NatLessThanWellFounded
<1>2. \E x \in S : \A y \in S : ~(<<y, x>> \in R)
  <2> HIDE DEF R
  <2>1. QED
    BY <1>1, WFMin
<1>3. PICK x \in S : \A y \in S : ~(<<y, x>> \in R)
  BY <1>2
<1>4. \A y \in S : ~(y < x)
  BY <1>3 DEF OpToRel
<1>5. \A y \in S : x <= y
  <2> SUFFICES ASSUME NEW y \in S PROVE x <= y
    OBVIOUS
  <2>1. x \in Nat /\ y \in Nat /\ ~(y < x)
    BY <1>4
  <2>2. QED
    BY <2>1
<1>6. QED
  BY <1>5

LEMMA MinExists ==
    ASSUME NEW S, S \subseteq Nat, S # {}
    PROVE  Min(S) \in S /\ \A y \in S : Min(S) <= y
BY LeastExists DEF Min

(* Induction over the naturals, for a set instead of a predicate: a set is  *)
(* a first-order value, so the provers can instantiate it.                  *)
LEMMA SetInduction ==
    ASSUME NEW S, 0 \in S, \A n \in Nat : n \in S => n + 1 \in S
    PROVE  Nat \subseteq S
<1> DEFINE T == Nat \ S
<1> SUFFICES ASSUME T # {} PROVE FALSE
  OBVIOUS
<1>1. T \subseteq Nat
  OBVIOUS
<1>2. PICK x \in T : \A y \in T : x <= y
  <2> HIDE DEF T
  <2>1. QED
    BY <1>1, LeastExists
<1>3. x \in Nat /\ x # 0
  OBVIOUS
<1>4. x - 1 \in Nat /\ x - 1 \notin T
  <2>1. x - 1 \in Nat /\ ~(x <= x - 1)
    BY <1>3
  <2>2. QED
    BY <1>2, <2>1
<1>5. (x - 1) + 1 \in S
  BY <1>4
<1>6. QED
  BY <1>3, <1>5

(* Numbers that have a bound have a greatest one.                           *)
LEMMA MaxExists ==
    ASSUME NEW N \in Nat, NEW S, S \subseteq 0 .. N, S # {}
    PROVE  Max(S) \in S /\ \A y \in S : Max(S) >= y
<1> DEFINE T == {N - x : x \in S}
<1>1. T \subseteq Nat /\ T # {}
  <2>1. \A x \in S : N - x \in Nat
    OBVIOUS
  <2>2. QED
    BY <2>1
<1>2. PICK t \in T : \A u \in T : t <= u
  <2> HIDE DEF T
  <2>1. QED
    BY <1>1, LeastExists
<1>3. PICK x \in S : t = N - x
  BY <1>2
<1>4. \A y \in S : x >= y
  <2> SUFFICES ASSUME NEW y \in S PROVE x >= y
    OBVIOUS
  <2>1. N - x <= N - y
    BY <1>2, <1>3
  <2>2. x \in Nat /\ y \in Nat
    OBVIOUS
  <2>3. QED
    BY <2>1, <2>2
<1>5. QED
  BY <1>4 DEF Max

(* A finite set of numbers has a bound, and so a greatest one.              *)
LEMMA FiniteBound ==
    ASSUME NEW S, S \subseteq Nat, IsFiniteSet(S)
    PROVE  \E N \in Nat : S \subseteq 0 .. N
<1> DEFINE Bounded(T) == \E N \in Nat : T \subseteq 0 .. N
           K == {k \in Nat : \A T \in SUBSET Nat :
                              IsFiniteSet(T) /\ Cardinality(T) = k => Bounded(T)}
<1>1. 0 \in K
  <2> SUFFICES ASSUME NEW T \in SUBSET Nat, IsFiniteSet(T), Cardinality(T) = 0
               PROVE  Bounded(T)
    OBVIOUS
  <2>1. T = {}
    BY FS_EmptySet
  <2>2. T \subseteq 0 .. 0
    BY <2>1
  <2>3. QED
    BY <2>2
<1>2. ASSUME NEW k \in Nat, k \in K PROVE k + 1 \in K
  <2> SUFFICES ASSUME NEW T \in SUBSET Nat, IsFiniteSet(T), Cardinality(T) = k + 1
               PROVE  Bounded(T)
    OBVIOUS
  <2>1. T # {}
    BY FS_EmptySet
  <2>2. PICK x \in T : TRUE
    BY <2>1
  <2>3. IsFiniteSet(T \ {x}) /\ Cardinality(T \ {x}) = k
    <3>1. IsFiniteSet(T \ {x}) /\ Cardinality(T \ {x}) = Cardinality(T) - 1
      <4> HIDE DEF K, Bounded
      <4>1. QED
        BY FS_RemoveElement
    <3>2. QED
      BY <3>1
  <2>4. PICK N \in Nat : T \ {x} \subseteq 0 .. N
    BY <1>2, <2>3
  <2>5. T \subseteq 0 .. N + x
    BY <2>2, <2>4
  <2>6. N + x \in Nat
    OBVIOUS
  <2>7. QED
    BY <2>5, <2>6
<1>3. Nat \subseteq K
  <2> HIDE DEF K
  <2>1. QED
    BY <1>1, <1>2, SetInduction
<1>4. Cardinality(S) \in Nat
  BY FS_CardinalityType
<1>5. QED
  BY <1>3, <1>4

LEMMA FiniteMax ==
    ASSUME NEW S, S \subseteq Nat, IsFiniteSet(S), S # {}
    PROVE  Max(S) \in S /\ \A y \in S : Max(S) >= y
<1>1. PICK N \in Nat : S \subseteq 0 .. N
  BY FiniteBound
<1>2. QED
  BY <1>1, MaxExists

(* The next id is new: it is beyond every id that has a row.                *)
LEMMA NextIsFresh ==
    ASSUME NEW N \in Nat, NEW S, S \subseteq 1 .. N
    PROVE  /\ Max({0} \cup S) + 1 \in 1 .. N + 1
           /\ \A y \in S : y < Max({0} \cup S) + 1
<1> DEFINE U == {0} \cup S
<1>1. U \subseteq 0 .. N /\ U # {}
  OBVIOUS
<1>2. Max(U) \in U /\ \A y \in U : Max(U) >= y
  <2> HIDE DEF U
  <2>1. QED
    BY <1>1, MaxExists
<1>3. Max(U) \in 0 .. N /\ \A y \in S : Max(U) >= y
  BY <1>1, <1>2
<1> HIDE DEF U
<1>4. Max(U) + 1 \in 1 .. N + 1 /\ \A y \in S : y < Max(U) + 1
  BY <1>3
<1>5. QED
  BY <1>4 DEF U
=============================================================================
