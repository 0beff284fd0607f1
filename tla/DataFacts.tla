----------------------------- MODULE DataFacts ------------------------------
(***************************************************************************)
(* Least and greatest elements of sets of naturals: what the definitions   *)
(* by CHOOSE (the last record of a group, the highest version of a page)   *)
(* stand on, and the way an induction over the naturals is done here: the  *)
(* least counterexample has no predecessor.  Then facts about sequences.    *)
(***************************************************************************)
EXTENDS Integers, Sequences, WellFoundedInduction, TLAPS

\* A set of naturals that is not empty has a least element.
LEMMA LeastNat ==
  ASSUME NEW T \in SUBSET Nat, T # {}
  PROVE  \E x \in T : \A y \in T : x <= y
<1>1. IsWellFoundedOn(OpToRel(<, Nat), Nat)
  BY NatLessThanWellFounded, Zenon
<1>2. PICK x \in T : \A y \in T : ~ (<<y, x>> \in OpToRel(<, Nat))
  BY <1>1, WFMin, Zenon
<1>3. \A y \in T : ~(y < x)
  BY <1>2, Zenon DEF OpToRel
<1> QED BY <1>3

\* A bounded set of naturals that is not empty has a greatest element.
LEMMA GreatestNat ==
  ASSUME NEW T \in SUBSET Nat, T # {}, NEW bound \in Nat, \A y \in T : y <= bound
  PROVE  \E x \in T : \A y \in T : y <= x
<1> DEFINE Bounds == {n \in Nat : \A y \in T : y <= n}
<1>1. PICK least \in Bounds : \A n \in Bounds : least <= n
  BY LeastNat, Zenon
<1>2. ASSUME least \notin T PROVE FALSE
  <2>1. \A y \in T : y <= least - 1
    BY <1>1, <1>2
  <2>2. PICK y \in T : TRUE
    BY Zenon
  <2>3. least - 1 \in Bounds
    BY <2>1, <2>2, <1>1
  <2> QED BY <2>3, <1>1
<1> QED BY <1>1, <1>2

\* A sequence whose elements are those of another from its start is a prefix of it.
LEMMA PrefixByElements ==
  ASSUME NEW S, NEW a \in Seq(S), NEW l \in Seq(S), Len(a) <= Len(l),
         \A i \in 1..Len(a) : a[i] = l[i]
  PROVE  SubSeq(l, 1, Len(a)) = a /\ SubSeq(a, 1, Len(a)) = a
  OBVIOUS

\* Sequences over a set are sequences over a larger one.
LEMMA SeqMonotone ==
  ASSUME NEW S, NEW T, S \subseteq T, NEW s \in Seq(S)
  PROVE  s \in Seq(T)
<1>1. Len(s) \in Nat /\ s \in [1..Len(s) -> T]
  OBVIOUS
<1> QED BY <1>1
=============================================================================
