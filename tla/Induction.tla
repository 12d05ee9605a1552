------------------------------ MODULE Induction -------------------------------
(***************************************************************************)
(* Induction over the naturals for the sets of numbers that have a         *)
(* property, and the functions defined by recursion on a number.           *)
(***************************************************************************)
EXTENDS Integers, WellFoundedInduction, TLAPS

(* A set with 0 that has the successor of each of its numbers holds them    *)
(* all.                                                                     *)
LEMMA NatSetInduction ==
  ASSUME NEW S, 0 \in S, \A n \in Nat : n \in S => n + 1 \in S
  PROVE  Nat \subseteq S
<1> DEFINE T == Nat \ S
           R == OpToRel(<, Nat)
<1> SUFFICES ASSUME T # {} PROVE FALSE
  OBVIOUS
<1>1. IsWellFoundedOn(R, Nat)
  BY NatLessThanWellFounded
<1>2. T \subseteq Nat
  OBVIOUS
<1>3. \A x, y \in Nat : x < y => <<x, y>> \in R
  BY DEF OpToRel
<1> HIDE DEF R
<1>4. PICK x \in T : \A y \in T : ~ (<<y, x>> \in R)
  <2> HIDE DEF T
  <2> QED BY <1>1, <1>2, WFMin
<1>5. x \in Nat /\ x # 0 /\ x - 1 \in Nat /\ x - 1 < x /\ (x - 1) + 1 = x
  OBVIOUS
<1>6. x - 1 \in T
  BY <1>5
<1> QED BY <1>3, <1>4, <1>5, <1>6

(* f is the function on 0..m that starts with a and goes on by F. *)
Recursion(f, m, a, F) == f = [k \in 0..m |-> IF k = 0 THEN a ELSE F[<<k, f[k - 1]>>]]

(* It exists, and its values are of the type that F keeps. *)
LEMMA RecursionExists ==
  ASSUME NEW V, NEW a \in V, NEW F \in [Nat \X V -> V], NEW m \in Nat
  PROVE  \E f \in [0..m -> V] : Recursion(f, m, a, F)
<1> DEFINE T == { n \in Nat : \E f \in [0..n -> V] : Recursion(f, n, a, F) }
<1>1. 0 \in T
  <2>1. [k \in 0..0 |-> a] \in [0..0 -> V] /\ Recursion([k \in 0..0 |-> a], 0, a, F)
    BY DEF Recursion
  <2> QED BY <2>1
<1>2. ASSUME NEW n \in Nat, n \in T PROVE n + 1 \in T
  <2>1. PICK f \in [0..n -> V] : Recursion(f, n, a, F)
    BY <1>2
  <2> DEFINE g == [k \in 0..n + 1 |-> IF k = 0 THEN a ELSE F[<<k, f[k - 1]>>]]
  <2>2. \A k \in 0..n : g[k] = f[k]
    BY <2>1 DEF Recursion
  <2>3. \A k \in 0..n + 1 : k # 0 => k - 1 \in 0..n /\ k \in Nat
    OBVIOUS
  <2>4. \A k \in 0..n + 1 : k # 0 => F[<<k, f[k - 1]>>] \in V /\ F[<<k, f[k - 1]>>] = F[<<k, g[k - 1]>>]
    BY <2>2, <2>3
  <2>5. g = [k \in 0..n + 1 |-> IF k = 0 THEN a ELSE F[<<k, g[k - 1]>>]]
    <3> HIDE DEF T
    <3> QED BY <2>4
  <2>6. g \in [0..n + 1 -> V]
    BY <2>4
  <2> HIDE DEF g
  <2>7. Recursion(g, n + 1, a, F)
    BY <2>5 DEF Recursion
  <2> QED BY <2>6, <2>7
<1> HIDE DEF T
<1>3. Nat \subseteq T
  BY <1>1, <1>2, NatSetInduction
<1> QED BY <1>3 DEF T
=============================================================================
