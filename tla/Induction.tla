------------------------------ MODULE Induction ------------------------------
(* Induction as a fact about sets of numbers, which needs no operator for  *)
(* the induction hypothesis: a proof by induction takes the smallest       *)
(* counterexample and finds a smaller one.                                 *)
EXTENDS Integers, WellFoundedInduction, TLAPS

(* A set of numbers that is not empty has a smallest number.               *)
LEMMA LeastNat ==
    ASSUME NEW T, T \subseteq Nat, T # {}
    PROVE  \E x \in T : \A y \in T : x <= y
<1>1. IsWellFoundedOn(OpToRel(<, Nat), Nat)
  BY NatLessThanWellFounded
<1>2. PICK x \in T : \A y \in T : ~ (<<y, x>> \in OpToRel(<, Nat))
  BY <1>1, WFMin
<1>3. ASSUME NEW y \in T, y < x
      PROVE  <<y, x>> \in OpToRel(<, Nat)
  <2>1. <<y, x>> \in Nat \X Nat
    OBVIOUS
  <2>2. QED
    BY <1>3, <2>1 DEF OpToRel
<1>4. \A y \in T : ~ (y < x)
  BY <1>2, <1>3, Zenon
<1>5. QED
  BY <1>4

(* The same for integers that are not below a given one.                   *)
LEMMA LeastInt ==
    ASSUME NEW T, T \subseteq Int, T # {}, NEW low \in Int, \A x \in T : low <= x
    PROVE  \E x \in T : \A y \in T : x <= y
<1> DEFINE D == {n \in Nat : n + low \in T}
<1>1. \A x \in T : x - low \in D
  OBVIOUS
<1>2. D \subseteq Nat /\ D # {}
  BY <1>1
<1>3. PICK n \in D : \A k \in D : n <= k
  BY <1>2, LeastNat
<1>4. \A y \in T : n + low <= y
  <2> SUFFICES ASSUME NEW y \in T
               PROVE  n + low <= y
    OBVIOUS
  <2>1. y - low \in D
    BY <1>1
  <2>2. n <= y - low /\ n \in Int /\ y \in Int
    BY <1>3, <2>1
  <2>3. QED
    BY <2>2
<1>5. QED
  BY <1>4
=============================================================================
