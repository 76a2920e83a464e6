----------------------------- MODULE OrderLemmas -----------------------------
(***************************************************************************)
(* What the proofs need of the order of the naturals: a set of positions   *)
(* has a first one, and a bounded one a last one.                          *)
(***************************************************************************)
EXTENDS Integers, TLAPS, WellFoundedInduction

\* The order, as a set of pairs, is well-founded.
LEMMA NatOrder ==
    \E R : IsWellFoundedOn(R, Nat) /\ \A x, y \in Nat : y < x => <<y, x>> \in R
<1> DEFINE R == OpToRel(<, Nat)
<1>1. IsWellFoundedOn(R, Nat)
    BY NatLessThanWellFounded
<1>2. \A x, y \in Nat : y < x => <<y, x>> \in R
    BY DEF OpToRel
<1> HIDE DEF R
<1> QED
    BY <1>1, <1>2

\* The first of some positions.
LEMMA LeastElement ==
    ASSUME NEW T \in SUBSET Nat, T # {}
    PROVE  \E x \in T : \A y \in T : x <= y
<1>1. PICK R : IsWellFoundedOn(R, Nat) /\ \A x, y \in Nat : y < x => <<y, x>> \in R
    BY NatOrder
<1>2. PICK x \in T : \A y \in T : <<y, x>> \notin R
    BY <1>1, WFMin
<1>3. \A y \in T : ~ (y < x)
    BY <1>1, <1>2
<1> QED
    BY <1>3

\* The last of some positions, when none is beyond n.
LEMMA GreatestElement ==
    ASSUME NEW n \in Nat, NEW T \in SUBSET (0..n), T # {}
    PROVE  \E x \in T : \A y \in T : y <= x
<1> DEFINE M == {k \in 0..n : n - k \in T}
<1>1. M \in SUBSET Nat
    OBVIOUS
<1>2. PICK t \in T : TRUE
    OBVIOUS
<1>3. n - t \in M
    OBVIOUS
<1>4. PICK m \in M : \A k \in M : m <= k
    BY <1>1, <1>3, LeastElement
<1>5. ASSUME NEW y \in T PROVE y <= n - m
    <2>1. n - y \in M
        OBVIOUS
    <2>2. m <= n - y /\ m \in Nat /\ y \in Nat
        BY <1>1, <1>4, <2>1
    <2> HIDE DEF M
    <2> QED
        BY <2>2
<1> QED
    BY <1>4, <1>5

\* What holds at 0 and is carried from each position to the next holds at all.
LEMMA UpTo ==
    ASSUME NEW n \in Nat, NEW T \in SUBSET (0..n), 0 \in T,
           \A i \in 1..n : i - 1 \in T => i \in T
    PROVE  T = 0..n
<1> DEFINE U == (0..n) \ T
<1> SUFFICES ASSUME U # {} PROVE FALSE
    OBVIOUS
<1>0. U \in SUBSET Nat
    OBVIOUS
<1>1. PICK x \in U : \A y \in U : x <= y
    BY <1>0, LeastElement
<1>2. x \in 1..n /\ x \notin T
    OBVIOUS
<1>3. x - 1 \in T
    <2>1. x - 1 \in 0..n /\ ~ (x <= x - 1)
        BY <1>2
    <2> QED
        BY <1>1, <2>1
<1> QED
    BY <1>2, <1>3
==============================================================================
