------------------------------ MODULE Induction ------------------------------
(***************************************************************************)
(* Induction over the natural numbers, and the functions it defines.  The  *)
(* statements speak of sets where those of NaturalsInduction speak of      *)
(* operators, so that the provers can apply them.                          *)
(***************************************************************************)
EXTENDS Integers, WellFoundedInduction, TLAPS

(* Some numbers have a least one among them. *)
LEMMA LeastElement ==
  ASSUME NEW T, T \subseteq Nat, T # {}
  PROVE  \E x \in T : \A y \in T : x <= y
<1> DEFINE R == {ss \in Nat \X Nat : ss[1] < ss[2]}
<1>1. IsWellFoundedOn(R, Nat)
  BY NatLessThanWellFounded DEF OpToRel
<1>2. \A y, x \in Nat : <<y, x>> \in R <=> y < x
  OBVIOUS
<1> HIDE DEF R
<1>3. PICK x \in T : \A y \in T : ~ (<<y, x>> \in R)
  BY <1>1, WFMin
<1>4. ASSUME NEW y \in T PROVE x <= y
  <2>1. x \in Nat /\ y \in Nat
    OBVIOUS
  <2>2. ~ (y < x)
    BY <2>1, <1>2, <1>3
  <2> QED
    BY <2>1, <2>2
<1> QED
  BY <1>4

(* What holds of 0, and of i + 1 whenever it holds of i, holds up to n. *)
LEMMA UpTo ==
  ASSUME NEW n \in Nat, NEW T, 0 \in T, \A i \in 0..n - 1 : i \in T => i + 1 \in T
  PROVE  0..n \subseteq T
<1> DEFINE U == (0..n) \ T
<1> SUFFICES ASSUME U # {} PROVE FALSE
  OBVIOUS
<1>1. U \subseteq Nat /\ U # {}
  OBVIOUS
<1>2. PICK x \in U : \A y \in U : x <= y
  <2> HIDE DEF U
  <2> QED BY <1>1, LeastElement
<1>3. x \in 1..n /\ x \notin T
  OBVIOUS
<1>4. x - 1 \in 0..n - 1
  BY <1>3
<1>5. x - 1 \notin U
  BY <1>2, <1>4
<1>6. x - 1 \in T
  BY <1>4, <1>5
<1> QED
  BY <1>3, <1>4, <1>6

(* f starts with a, and H makes each other value from the one before. *)
Iterates(f, n, a, H) == f[0] = a /\ \A i \in 1..n : f[i] = H[<<i, f[i - 1]>>]

(* A function on 0..n is defined by its value at 0 and, for each other     *)
(* number, a value that depends on the one before.                         *)
LEMMA FunctionUpTo ==
  ASSUME NEW n \in Nat, NEW S, NEW a \in S, NEW H \in [(1..n) \X S -> S]
  PROVE  \E f \in [0..n -> S] : Iterates(f, n, a, H)
<1> DEFINE T == {m \in 0..n : \E f \in [0..m -> S] : Iterates(f, m, a, H)}
<1>1. 0 \in T
  <2> DEFINE f == [i \in 0..0 |-> a]
  <2>1. f \in [0..0 -> S] /\ f[0] = a /\ 0 \in 0..n
    OBVIOUS
  <2> HIDE DEF f
  <2>2. Iterates(f, 0, a, H)
    BY <2>1 DEF Iterates
  <2> QED BY <2>1, <2>2
<1>2. ASSUME NEW m \in 0..n - 1, m \in T PROVE m + 1 \in T
  <2>1. PICK f \in [0..m -> S] : Iterates(f, m, a, H)
    BY <1>2
  <2> DEFINE b == H[<<m + 1, f[m]>>]
             g == [i \in 0..m + 1 |-> IF i = m + 1 THEN b ELSE f[i]]
  <2>2. f[m] \in S /\ b \in S
    OBVIOUS
  <2>3. g \in [0..m + 1 -> S]
    BY <2>2
  <2>4. \A i \in 0..m : g[i] = f[i]
    OBVIOUS
  <2>5. g[m + 1] = b
    OBVIOUS
  <2>6. g[0] = a
    BY <2>1, <2>4 DEF Iterates
  <2>7. ASSUME NEW i \in 1..m + 1 PROVE g[i] = H[<<i, g[i - 1]>>]
    <3>1. CASE i = m + 1
      <4>1. g[i - 1] = f[m]
        BY <3>1, <2>4
      <4> QED BY <3>1, <4>1, <2>5
    <3>2. CASE i \in 1..m
      <4>1. i \in 0..m /\ i - 1 \in 0..m
        BY <3>2
      <4>2. g[i] = f[i] /\ g[i - 1] = f[i - 1]
        BY <4>1, <2>4
      <4> HIDE DEF g
      <4> QED BY <3>2, <4>2, <2>1 DEF Iterates
    <3> QED BY <3>1, <3>2
  <2>8. m + 1 \in 0..n
    OBVIOUS
  <2> HIDE DEF g
  <2>9. Iterates(g, m + 1, a, H)
    BY <2>6, <2>7 DEF Iterates
  <2> QED BY <2>3, <2>8, <2>9
<1>3. 0..n \subseteq T
  <2> HIDE DEF T
  <2> QED BY <1>1, <1>2, UpTo
<1>4. n \in T
  BY <1>3
<1> QED
  BY <1>4
=============================================================================
