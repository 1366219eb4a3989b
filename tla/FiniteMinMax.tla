---------------------------- MODULE FiniteMinMax ----------------------------
(***************************************************************************)
(* Facts about Min and Max of FiniteSetsExt on sets of natural numbers,    *)
(* which the proofs about the queues cite.  The least-number principle is  *)
(* taken from the well-founded order of the naturals, not from an          *)
(* induction theorem.                                                      *)
(***************************************************************************)
EXTENDS Naturals, FiniteSets, FiniteSetsExt, FiniteSetTheorems, WellFoundedInduction, TLAPS

(* Every set of natural numbers that is not empty has a least element. *)
LEMMA NatHasLeast ==
    ASSUME NEW S \in SUBSET Nat, S # {}
    PROVE  \E x \in S : \A y \in S : x <= y
<1> DEFINE R == {p \in Nat \X Nat : p[1] < p[2]}
<1>1. IsWellFoundedOn(R, Nat)
  BY NatLessThanWellFounded DEF OpToRel
<1>2. PICK x \in S : \A y \in S : ~(<<y, x>> \in R)
  BY <1>1, WFMin
<1>3. ASSUME NEW y \in S PROVE x <= y
  <2>1. x \in Nat /\ y \in Nat
    OBVIOUS
  <2>2. y < x => <<y, x>> \in R
    BY <2>1
  <2> QED
    BY <1>2, <2>1, <2>2
<1> QED
  BY <1>3

(* One that is bounded has a greatest element too. *)
LEMMA NatHasGreatest ==
    ASSUME NEW S \in SUBSET Nat, S # {}, NEW b \in Nat, \A y \in S : y <= b
    PROVE  \E x \in S : \A y \in S : y <= x
<1> DEFINE D == {b - y : y \in S}
<1>1. D \in SUBSET Nat
  <2> SUFFICES ASSUME NEW y \in S PROVE b - y \in Nat
    OBVIOUS
  <2> QED
    OBVIOUS
<1>2. D # {}
  OBVIOUS
<1> HIDE DEF D
<1>3. PICK x \in D : \A y \in D : x <= y
  BY <1>1, <1>2, NatHasLeast
<1>4. PICK z \in S : x = b - z
  BY DEF D
<1>5. ASSUME NEW y \in S PROVE y <= z
  <2>1. b - y \in D
    BY DEF D
  <2> QED
    BY <2>1, <1>3, <1>4
<1> QED
  BY <1>5

(* Min is the least element. *)
LEMMA MinOfNats ==
    ASSUME NEW S \in SUBSET Nat, S # {}
    PROVE  Min(S) \in S /\ Min(S) \in Nat /\ \A y \in S : Min(S) <= y
BY NatHasLeast DEF Min

(* Max of a bounded set is the greatest element. *)
LEMMA MaxOfNats ==
    ASSUME NEW S \in SUBSET Nat, S # {}, NEW b \in Nat, \A y \in S : y <= b
    PROVE  Max(S) \in S /\ Max(S) \in Nat /\ \A y \in S : y <= Max(S)
<1>1. PICK x \in S : \A y \in S : y <= x
  BY NatHasGreatest
<1>2. \A y \in S : x >= y
  BY <1>1
<1> QED
  BY <1>2 DEF Max

(* Max of two numbers. *)
LEMMA MaxOfTwo ==
    ASSUME NEW a \in Nat, NEW b \in Nat
    PROVE  /\ Max({a, b}) \in {a, b} /\ Max({a, b}) \in Nat
           /\ a <= Max({a, b}) /\ b <= Max({a, b})
<1>1. \A y \in {a, b} : y <= a + b
  OBVIOUS
<1> QED
  BY <1>1, MaxOfNats
=============================================================================
