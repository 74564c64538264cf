------------------------------ MODULE SetExtrema ------------------------------
(***************************************************************************)
(* Least and greatest elements of finite sets of naturals, and what a      *)
(* rotation that removes the lowest elements leaves.                       *)
(***************************************************************************)
EXTENDS Integers, FiniteSets, FiniteSetsExt, FiniteSetTheorems, WellFoundedInduction, TLAPS

\* A set of naturals has a least element.
LEMMA HasLeast ==
    ASSUME NEW S, S \subseteq Nat, S # {}
    PROVE  \E x \in S : \A y \in S : x <= y
<1> DEFINE Less == {ss \in Nat \X Nat : ss[1] < ss[2]}
<1>1. IsWellFoundedOn(Less, Nat)
  BY NatLessThanWellFounded, Zenon DEF OpToRel
<1> HIDE DEF Less
<1>2. PICK x \in S : \A y \in S : ~ <<y, x>> \in Less
  BY <1>1, WFMin
<1>3. ASSUME NEW y \in S PROVE x <= y
  <2>1. x \in Nat /\ y \in Nat /\ <<y, x>> \notin Less
    BY <1>2
  <2>2. ~ y < x
    BY <2>1 DEF Less
  <2> QED BY <2>1, <2>2
<1> QED BY <1>3

\* A finite one has a greatest element.
LEMMA HasGreatest ==
    ASSUME NEW S, S \subseteq Nat, S # {}, IsFiniteSet(S)
    PROVE  \E x \in S : \A y \in S : x >= y
<1> DEFINE Above(x) == {y \in S : y > x}
           Sets == {Above(x) : x \in S}
<1>1. IsWellFoundedOn(StrictSubsetOrdering(S), FiniteSubsetsOf(S))
  BY FS_StrictSubsetOrderingWellFounded
<1>2. Sets \subseteq FiniteSubsetsOf(S) /\ Sets # {}
  <2>1. ASSUME NEW x \in S PROVE Above(x) \in SUBSET S /\ IsFiniteSet(Above(x))
    <3>1. Above(x) \in SUBSET S
      OBVIOUS
    <3> HIDE DEF Above
    <3> QED BY <3>1, FS_Subset
  <2> HIDE DEF Above
  <2> QED BY <2>1 DEF FiniteSubsetsOf
<1>3. PICK U \in Sets : \A V \in Sets : <<V, U>> \notin StrictSubsetOrdering(S)
  <2> HIDE DEF Sets
  <2> QED BY <1>1, <1>2, WFMin
<1>4. PICK x \in S : U = Above(x)
  BY <1>3
<1>5. ASSUME NEW y \in S PROVE x >= y
  <2>1. SUFFICES ASSUME y > x PROVE FALSE
    OBVIOUS
  <2>2. Above(y) \subseteq Above(x) /\ y \in Above(x) /\ y \notin Above(y)
    <3>1. x \in Nat /\ y \in Nat /\ y > x /\ ~ y > y
      BY <2>1
    <3>2. ASSUME NEW z \in S, z > y PROVE z > x
      <4>1. z \in Nat
        OBVIOUS
      <4> QED BY <3>1, <3>2, <4>1
    <3> QED BY <3>1, <3>2
  <2>3. Above(y) \in SUBSET S /\ Above(x) \in SUBSET S /\ Above(y) \in Sets
    OBVIOUS
  <2> HIDE DEF Above, Sets
  <2>4. <<Above(y), U>> \in StrictSubsetOrdering(S)
    BY <1>4, <2>2, <2>3 DEF StrictSubsetOrdering
  <2> QED BY <1>3, <2>3, <2>4
<1> QED BY <1>5

\* Max chooses it.
LEMMA MaxIs ==
    ASSUME NEW S, S \subseteq Int, NEW x \in S, \A y \in S : x >= y
    PROVE  Max(S) = x
<1>1. \A z \in S : (\A y \in S : z >= y) => z = x
  <2> SUFFICES ASSUME NEW z \in S, \A y \in S : z >= y PROVE z = x
    OBVIOUS
  <2>1. z \in Int /\ x \in Int /\ z >= x /\ x >= z
    OBVIOUS
  <2> QED BY <2>1
<1>2. (CHOOSE z \in S : \A y \in S : z >= y) = x
  BY <1>1
<1> QED BY <1>2 DEF Max

LEMMA MaxIn ==
    ASSUME NEW S, S \subseteq Nat, S # {}, IsFiniteSet(S)
    PROVE  Max(S) \in S /\ \A y \in S : Max(S) >= y
  BY HasGreatest DEF Max

LEMMA MaxOfTwo ==
    ASSUME NEW a \in Nat, NEW b \in Nat
    PROVE  Max({a, b}) \in Nat /\ Max({a, b}) >= a /\ Max({a, b}) >= b
<1>1. IsFiniteSet({a, b})
  <2>1. IsFiniteSet({a}) /\ {a, b} = {a} \cup {b}
    BY FS_Singleton
  <2> QED BY <2>1, FS_AddElement
<1> QED BY <1>1, MaxIn

\* When the lowest of the elements of c that are not protected go, as many as c has too
\* many, no more than keep of them are left.
LEMMA LowestGo ==
    ASSUME NEW c, c \subseteq Nat, IsFiniteSet(c), NEW protected, NEW keep \in Nat,
           IsFiniteSet(protected), Cardinality(protected) <= keep
    PROVE  LET rest == c \ protected
               gone == {s \in rest : Cardinality({t \in rest : t < s}) < Cardinality(c) - keep}
           IN  Cardinality(c \ gone) <= keep
<1> DEFINE rest == c \ protected
           below(s) == {t \in rest : t < s}
           gone == {s \in rest : Cardinality(below(s)) < Cardinality(c) - keep}
<1>1. IsFiniteSet(rest) /\ Cardinality(c) \in Nat /\ Cardinality(protected) \in Nat
  BY FS_Difference, FS_CardinalityType
<1>2. CASE gone = rest
  <2>1. c \ gone \in SUBSET protected
    BY <1>2
  <2>2. Cardinality(c \ gone) <= Cardinality(protected) /\ IsFiniteSet(c \ gone)
    BY <2>1, FS_Subset
  <2>3. Cardinality(c \ gone) \in Nat
    BY <2>2, FS_CardinalityType
  <2> QED BY <1>1, <2>2, <2>3
<1>3. CASE gone # rest
  <2>1. rest \ gone # {} /\ rest \ gone \subseteq Nat
    BY <1>3
  <2>2. PICK s \in rest \ gone : \A t \in rest \ gone : s <= t
    BY <2>1, HasLeast
  <2>3. below(s) \in SUBSET gone
    <3> SUFFICES ASSUME NEW t \in rest, t < s PROVE t \in gone
      OBVIOUS
    <3>1. s \in Nat /\ t \in Nat /\ ~ s <= t
      OBVIOUS
    <3> QED BY <2>2, <3>1
  <2>4. gone \in SUBSET rest /\ gone \in SUBSET c
    OBVIOUS
  <2>5. IsFiniteSet(gone)
    BY <1>1, <2>4, FS_Subset
  <2>6. Cardinality(below(s)) <= Cardinality(gone) /\ IsFiniteSet(below(s))
    BY <2>3, <2>5, FS_Subset
  <2>7. Cardinality(below(s)) \in Nat /\ Cardinality(gone) \in Nat
    BY <2>5, <2>6, FS_CardinalityType
  <2>8. ~ Cardinality(below(s)) < Cardinality(c) - keep
    BY <2>2
  <2>9. c \cap gone = gone
    BY <2>4
  <2>10. Cardinality(c \ gone) = Cardinality(c) - Cardinality(gone)
    BY <2>9, FS_Difference
  <2>11. Cardinality(c \ gone) <= keep
    <3> HIDE DEF gone, below, rest
    <3> QED BY <1>1, <2>6, <2>7, <2>8, <2>10
  <2> QED BY <2>11
<1>4. Cardinality(c \ gone) <= keep
  BY <1>2, <1>3
<1> QED BY <1>4
=============================================================================
