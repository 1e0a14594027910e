-------------------------- MODULE IntervalInduction --------------------------
(***************************************************************************)
(* Induction stated with sets instead of operators, in the form the proofs *)
(* about recursive functions over 0 .. N need it: that the function exists *)
(* and what its values have in common.                                     *)
(***************************************************************************)
EXTENDS Integers, FiniteSetTheorems, TLAPS

(* A set of naturals that is not empty has a least element.                *)
LEMMA LeastNatural ==
  ASSUME NEW T \in SUBSET Nat, T # {}
  PROVE  \E m \in T : \A k \in T : m <= k
<1> DEFINE Below == {0 .. k : k \in T}
<1>1. Below \subseteq FiniteSubsetsOf(Nat)
  <2> SUFFICES ASSUME NEW k \in T PROVE 0 .. k \in FiniteSubsetsOf(Nat)
    OBVIOUS
  <2>1. IsFiniteSet(0 .. k) /\ 0 .. k \in SUBSET Nat
    BY FS_Interval
  <2>. QED BY <2>1 DEF FiniteSubsetsOf
<1>2. Below # {}
  OBVIOUS
<1>3. PICK b \in Below : \A a \in Below : ~(<<a, b>> \in StrictSubsetOrdering(Nat))
  <2>. HIDE DEF Below
  <2>. QED BY <1>1, <1>2, FS_StrictSubsetOrderingWellFounded, WFMin
<1>4. PICK m \in T : b = 0 .. m
  OBVIOUS
<1>5. ASSUME NEW k \in T PROVE m <= k
  <2> SUFFICES ASSUME k < m PROVE FALSE
    OBVIOUS
  <2>1. 0 .. k \in Below /\ 0 .. k \subseteq 0 .. m /\ m \in 0 .. m /\ m \notin 0 .. k
    OBVIOUS
  <2>2. <<0 .. k, b>> \in StrictSubsetOrdering(Nat)
    BY <2>1, <1>4 DEF StrictSubsetOrdering
  <2>. QED BY <1>3, <2>1, <2>2
<1>. QED BY <1>5

(* A bounded set of naturals that is not empty has a greatest element.     *)
LEMMA GreatestNatural ==
  ASSUME NEW N \in Nat, NEW T \in SUBSET (0 .. N), T # {}
  PROVE  \E m \in T : \A k \in T : k <= m
<1> DEFINE D == {N - k : k \in T}
<1>1. D \in SUBSET Nat /\ D # {}
  <2>1. \A k \in T : N - k \in Nat
    OBVIOUS
  <2>. QED BY <2>1
<1>2. PICK d \in D : \A e \in D : d <= e
  <2>. HIDE DEF D
  <2>. QED BY <1>1, LeastNatural
<1>3. PICK m \in T : d = N - m
  OBVIOUS
<1>4. ASSUME NEW k \in T PROVE k <= m
  <2>1. N - k \in D
    OBVIOUS
  <2>2. d <= N - k
    BY <1>2, <2>1
  <2>. QED BY <1>3, <2>2
<1>. QED BY <1>4

(* Induction over 0 .. N: the set T takes the place of the predicate.      *)
LEMMA UpTo ==
  ASSUME NEW N \in Nat, NEW T, 0 \in T, \A n \in 0 .. N - 1 : n \in T => n + 1 \in T
  PROVE  \A n \in 0 .. N : n \in T
<1> SUFFICES ASSUME NEW x \in 0 .. N, x \notin T PROVE FALSE
  OBVIOUS
<1> DEFINE B == {n \in 0 .. N : n \notin T}
<1>1. PICK m \in B : \A k \in B : m <= k
  <2>1. x \in B /\ B \in SUBSET Nat
    OBVIOUS
  <2>. HIDE DEF B
  <2>. QED BY <2>1, LeastNatural
<1>2. m - 1 \in 0 .. N - 1 /\ m - 1 \in T
  BY <1>1
<1>. QED BY <1>1, <1>2

(* The same from any number up to another.                                 *)
LEMMA FromTo ==
  ASSUME NEW a \in Int, NEW b \in Int, NEW T, a \in T,
         \A n \in a .. b - 1 : n \in T => n + 1 \in T
  PROVE  \A n \in a .. b : n \in T
<1>1. CASE b < a
  BY <1>1
<1>2. CASE a <= b
  <2> DEFINE N == b - a
             U == {k \in 0 .. N : a + k \in T}
  <2>1. N \in Nat /\ 0 \in U
    BY <1>2
  <2>2. ASSUME NEW k \in 0 .. N - 1, k \in U PROVE k + 1 \in U
    <3>1. a + k \in a .. b - 1 /\ a + k \in T /\ a + (k + 1) = (a + k) + 1
      BY <2>2
    <3>2. a + (k + 1) \in T /\ k + 1 \in 0 .. N
      BY <3>1
    <3>. QED BY <3>2
  <2> HIDE DEF U
  <2>3. \A k \in 0 .. N : k \in U
    <3> HIDE DEF N
    <3>. QED BY <2>1, <2>2, UpTo
  <2> SUFFICES ASSUME NEW n \in a .. b PROVE n \in T
    OBVIOUS
  <2>4. n - a \in 0 .. N /\ a + (n - a) = n
    BY <1>2
  <2>5. n - a \in U
    BY <2>3, <2>4
  <2>. QED BY <2>4, <2>5 DEF U
<1>. QED BY <1>1, <1>2
=============================================================================
