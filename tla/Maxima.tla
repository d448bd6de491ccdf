-------------------------------- MODULE Maxima -------------------------------
(***************************************************************************)
(* A finite set has an element that none of its elements exceeds: what     *)
(* Python's max() and the last item of sorted() rely on, and what a CHOOSE *)
(* that models them needs in order to choose.                              *)
(***************************************************************************)
EXTENDS FiniteSetTheorems, WellFoundedInduction, TLAPS

(* exceeds has <<x, y>> when y exceeds x.                                  *)
LEMMA MaximalElement ==
  ASSUME NEW S, IsFiniteSet(S), S # {}, NEW exceeds,
         \A x \in S : <<x, x>> \notin exceeds,
         \A x, y, z \in S : <<x, y>> \in exceeds /\ <<y, z>> \in exceeds
                              => <<x, z>> \in exceeds
  PROVE  \E x \in S : \A y \in S : <<x, y>> \notin exceeds
<1> DEFINE Above(x) == {y \in S : <<x, y>> \in exceeds}
           T == {Above(x) : x \in S}
<1>1. IsWellFoundedOn(StrictSubsetOrdering(S), FiniteSubsetsOf(S))
  BY FS_StrictSubsetOrderingWellFounded
<1>2. T \subseteq FiniteSubsetsOf(S) /\ T # {}
  <2>1. FiniteSubsetsOf(S) = SUBSET S
    BY FS_FiniteSubsetsOfFinite
  <2>2. \A x \in S : Above(x) \subseteq S
    OBVIOUS
  <2> HIDE DEF Above
  <2>3. T \subseteq SUBSET S
    BY <2>2
  <2>4. PICK x \in S : TRUE
    OBVIOUS
  <2>5. Above(x) \in T
    OBVIOUS
  <2> QED
    BY <2>1, <2>3, <2>5
<1>3. PICK A \in T : \A B \in T : <<B, A>> \notin StrictSubsetOrdering(S)
  <2> HIDE DEF T
  <2> QED
    BY <1>1, <1>2, WFMin
<1>4. PICK x \in S : A = Above(x)
  BY <1>3
<1>5. ASSUME NEW y \in S, <<x, y>> \in exceeds
      PROVE  FALSE
  <2>1. Above(y) \subseteq Above(x) /\ y \in Above(x) /\ y \notin Above(y)
    BY <1>5
  <2>2. <<Above(y), A>> \in StrictSubsetOrdering(S)
    BY <1>4, <2>1 DEF StrictSubsetOrdering
  <2> QED
    BY <1>3, <2>2
<1> QED
  BY <1>5
=============================================================================
