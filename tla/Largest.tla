------------------------------ MODULE Largest ------------------------------
(***************************************************************************)
(* The largest element of a set of ids or places, which SQLite's           *)
(* max(rowid) + 1 and MAX(seq) are models of in several modules, and the   *)
(* smallest one, which is what comes first.                                *)
(***************************************************************************)
EXTENDS Integers, FiniteSetsExt, FiniteSetTheorems, WellFoundedInduction, TLAPS

\* A non-empty set of numbers up to a bound has the maximum that Max chooses.
LEMMA MaxOfBounded ==
    ASSUME NEW N \in Nat, NEW S \in SUBSET (0..N), S # {}
    PROVE  Max(S) \in S /\ \A y \in S : Max(S) >= y
<1> DEFINE T == {N - x : x \in S}
<1>1. T \subseteq Nat /\ T # {}
  OBVIOUS
<1>2. PICK t \in T : \A y \in T : ~(<<y, t>> \in OpToRel(<, Nat))
  BY <1>1, NatLessThanWellFounded, WFMin
<1>3. PICK m \in S : t = N - m
  OBVIOUS
<1>4. ASSUME NEW y \in S
      PROVE  m >= y
  <2>1. N - y \in T /\ N - y \in Nat /\ t \in Nat
    BY <1>1
  <2>2. ~(N - y < t)
    BY <2>1, <1>2 DEF OpToRel
  <2> QED BY <2>1, <2>2, <1>3
<1>5. \E x \in S : \A y \in S : x >= y
  BY <1>4
<1> QED BY <1>5 DEF Max

\* A finite set of numbers has the maximum that Max chooses: of its elements, the one
\* that is above the most others.
LEMMA MaxOfFinite ==
    ASSUME NEW S \in SUBSET Nat, S # {}, IsFiniteSet(S)
    PROVE  Max(S) \in S /\ \A y \in S : Max(S) >= y
<1> DEFINE below(x) == {y \in S : y < x}
<1> DEFINE ranks == {Cardinality(below(x)) : x \in S}
<1>1. Cardinality(S) \in Nat
  BY FS_CardinalityType
<1>2. ASSUME NEW x \in S
      PROVE  IsFiniteSet(below(x)) /\ Cardinality(below(x)) \in 0..Cardinality(S)
  <2>1. below(x) \in SUBSET S
    OBVIOUS
  <2>2. IsFiniteSet(below(x)) /\ Cardinality(below(x)) <= Cardinality(S)
    BY <2>1, FS_Subset
  <2>3. Cardinality(below(x)) \in Nat
    BY <2>2, FS_CardinalityType
  <2> QED BY <1>1, <2>2, <2>3
<1>3. ranks \in SUBSET (0..Cardinality(S)) /\ ranks # {}
  BY <1>2
<1>4. Max(ranks) \in ranks /\ \A n \in ranks : Max(ranks) >= n
  BY <1>1, <1>3, MaxOfBounded
<1>5. PICK m \in S : Max(ranks) = Cardinality(below(m))
  BY <1>4
<1>6. ASSUME NEW y \in S, y > m
      PROVE  FALSE
  <2>1. below(m) \in SUBSET below(y) /\ m \in below(y) /\ m \notin below(m)
    <3>1. \A z \in S : z \in Nat
      OBVIOUS
    <3>2. \A z \in S : z < m => z < y
      BY <3>1, <1>6
    <3>3. m < y /\ ~(m < m)
      BY <3>1, <1>6
    <3> QED BY <3>2, <3>3
  <2>2. Cardinality(below(m)) <= Cardinality(below(y)) /\ Cardinality(below(m)) # Cardinality(below(y))
    BY <2>1, <1>2, FS_Subset
  <2>3. Cardinality(below(m)) >= Cardinality(below(y))
    BY <1>4, <1>5
  <2>4. Cardinality(below(m)) \in Nat /\ Cardinality(below(y)) \in Nat
    BY <1>1, <1>2
  <2> QED BY <2>2, <2>3, <2>4
<1>7. \A y \in S : m >= y
  <2> TAKE y \in S
  <2>1. m \in Nat /\ y \in Nat /\ ~(y > m)
    BY <1>6
  <2> QED BY <2>1
<1>8. \E x \in S : \A y \in S : x >= y
  BY <1>7
<1> QED BY <1>8 DEF Max

\* A non-empty set of numbers has the minimum that Min chooses.
LEMMA MinOfNumbers ==
    ASSUME NEW S \in SUBSET Nat, S # {}
    PROVE  Min(S) \in S /\ \A y \in S : Min(S) <= y
<1>1. PICK m \in S : \A y \in S : ~(<<y, m>> \in OpToRel(<, Nat))
  BY NatLessThanWellFounded, WFMin
<1>2. \A y \in S : m <= y
  <2> TAKE y \in S
  <2>1. y \in Nat /\ m \in Nat /\ ~(y < m)
    BY <1>1 DEF OpToRel
  <2> QED BY <2>1
<1>3. \E x \in S : \A y \in S : x <= y
  BY <1>2
<1> QED BY <1>3 DEF Min
=============================================================================
