---------------------------- MODULE NumberFacts ----------------------------
(***************************************************************************)
(* Two facts about sets of natural numbers, from the library's facts about *)
(* finite sets: the least number principle, because the library's          *)
(* induction over the natural numbers takes an operator, and counting.     *)
(***************************************************************************)
EXTENDS FiniteSetTheorems, TLAPS

\* Every set of natural numbers has a least element: the initial segments up
\* to its members are finite, and strict inclusion of finite sets is founded.
LEMMA NatMinimum ==
    ASSUME NEW T \in SUBSET Nat, T # {}
    PROVE  \E x \in T : \A y \in T : x <= y
<1> DEFINE Segments == {0 .. x : x \in T}
<1>1. Segments \subseteq FiniteSubsetsOf(Nat) /\ Segments # {}
  <2> SUFFICES ASSUME NEW x \in T PROVE 0 .. x \in FiniteSubsetsOf(Nat)
    OBVIOUS
  <2>1. x \in Nat /\ 0 .. x \in SUBSET Nat
    OBVIOUS
  <2>2. IsFiniteSet(0 .. x)
    BY <2>1, FS_Interval
  <2> QED BY <2>1, <2>2 DEF FiniteSubsetsOf
<1>2. IsWellFoundedOn(StrictSubsetOrdering(Nat), FiniteSubsetsOf(Nat))
  BY FS_StrictSubsetOrderingWellFounded
<1>3. PICK s \in Segments :
         \A t \in Segments : ~(<<t, s>> \in StrictSubsetOrdering(Nat))
  <2> HIDE DEF Segments
  <2> QED BY <1>1, <1>2, WFMin
<1>4. PICK x \in T : s = 0 .. x
  OBVIOUS
<1>5. ASSUME NEW y \in T, y < x PROVE FALSE
  <2>1. 0 .. y \subseteq 0 .. x /\ 0 .. y # 0 .. x
    BY <1>5
  <2>2. <<0 .. y, 0 .. x>> \in StrictSubsetOrdering(Nat)
    BY <2>1 DEF StrictSubsetOrdering
  <2> QED BY <1>3, <1>4, <2>2
<1>6. \A y \in T : x <= y
  BY <1>5
<1> QED BY <1>6

\* What lies before k counts one less than the same with k.
LEMMA OneMoreCounted ==
    ASSUME NEW k \in Nat, NEW T \in SUBSET (1 .. k - 1)
    PROVE  /\ Cardinality(T) \in Nat
           /\ Cardinality(T \cup {k}) = Cardinality(T) + 1
<1>1. IsFiniteSet(1 .. k - 1)
  BY FS_Interval
<1>2. IsFiniteSet(T) /\ Cardinality(T) \in Nat
  BY <1>1, FS_Subset, FS_CardinalityType
<1>3. k \notin T
  OBVIOUS
<1> QED BY <1>2, <1>3, FS_AddElement

LEMMA NothingCounted == Cardinality({}) = 0
BY FS_EmptySet
=============================================================================
