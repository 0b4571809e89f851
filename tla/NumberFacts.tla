---------------------------- MODULE NumberFacts ----------------------------
(***************************************************************************)
(* Facts about natural numbers that the proofs about several components    *)
(* need: places in a ring buffer, multiples of a fragment size, and the    *)
(* least number of a set.                                                  *)
(***************************************************************************)
EXTENDS Integers, WellFoundedInduction, TLAPS

\* A natural number is its quotient and its remainder.
LEMMA DivMod ==
  ASSUME NEW a \in Nat, NEW n \in Nat \ {0}
  PROVE  /\ a = n * (a \div n) + (a % n)
         /\ a % n \in 0 .. n - 1
         /\ a \div n \in Nat
  OBVIOUS

\* Multiples of n are at least n apart.
LEMMA Multiples ==
  ASSUME NEW n \in Nat, NEW p \in Int, NEW q \in Int, p < q
  PROVE  n * q >= n * p + n
<1>1. PICK d \in Nat : q = p + 1 + d
  <2>1. q - p - 1 \in Nat OBVIOUS
  <2> QED BY <2>1
<1>2. n * q = n * p + n + n * d BY <1>1
<1>3. n * d >= 0 BY <1>1
<1> QED BY <1>2, <1>3

\* Two numbers of a stretch no longer than the ring have different places.
LEMMA PlacesDiffer ==
  ASSUME NEW n \in Nat \ {0}, NEW i \in Nat, NEW j \in Nat, i < j, j < i + n
  PROVE  i % n # j % n
<1> SUFFICES ASSUME i % n = j % n PROVE FALSE OBVIOUS
<1> DEFINE p == i \div n
<1> DEFINE q == j \div n
<1> DEFINE r == i % n
<1>1. /\ i = n * p + r /\ j = n * q + r
      /\ p \in Int /\ q \in Int /\ r \in Int
  BY DivMod
<1>2. n * q >= n * p + 1 /\ n * q < n * p + n BY <1>1
<1> HIDE DEF p, q, r
<1>3. n * q \in Int /\ n * p \in Int BY <1>1
<1>4. CASE q <= p
  <2>1. CASE q = p BY <2>1, <1>2, <1>3
  <2>2. CASE q < p
    <3>1. n * p >= n * q + n BY <2>2, Multiples, <1>1
    <3> QED BY <3>1, <1>2, <1>3
  <2> QED BY <2>1, <2>2, <1>4, <1>1
<1>5. CASE p < q
  <2>1. n * q >= n * p + n BY <1>5, Multiples, <1>1
  <2> QED BY <2>1, <1>2, <1>3
<1> QED BY <1>4, <1>5, <1>1

\* The same, as it is used: equal places in a stretch are the same number.
LEMMA SamePlace ==
  ASSUME NEW n \in Nat \ {0}, NEW i \in Nat, NEW j \in Nat, NEW lo \in Nat,
         lo <= i, lo <= j, i < lo + n, j < lo + n, i % n = j % n
  PROVE  i = j
<1>1. CASE i < j
  <2>1. j < i + n OBVIOUS
  <2> QED BY <2>1, <1>1, PlacesDiffer
<1>2. CASE j < i
  <2>1. i < j + n OBVIOUS
  <2> QED BY <2>1, <1>2, PlacesDiffer
<1> QED BY <1>1, <1>2

\* A set of natural numbers that is not empty has a least element.  (Induction is
\* used in this form: no counterexample is the least one.)
LEMMA LeastNumber ==
  ASSUME NEW S, S \subseteq Nat, S # {}
  PROVE  \E n \in S : \A k \in S : n <= k
<1>1. PICK n \in S : \A k \in S : ~(<<k, n>> \in OpToRel(<, Nat))
  BY NatLessThanWellFounded, WFMin
<1>2. ASSUME NEW k \in S PROVE n <= k
  <2>1. k \in Nat /\ n \in Nat OBVIOUS
  <2>2. ~(k < n) BY <1>1, <2>1 DEF OpToRel
  <2> QED BY <2>1, <2>2
<1> QED BY <1>2

\* And a greatest one, if it has a bound.
LEMMA GreatestNumber ==
  ASSUME NEW S, S \subseteq Nat, S # {}, NEW N \in Nat, \A k \in S : k <= N
  PROVE  \E n \in S : \A k \in S : k <= n
<1> DEFINE Mirror == {m \in Nat : N - m \in S}
<1>1. ASSUME NEW k \in S PROVE N - k \in Mirror
  <2>1. k \in Nat /\ k <= N OBVIOUS
  <2>2. N - k \in Nat /\ N - (N - k) = k BY <2>1
  <2> QED BY <2>2
<1>2. Mirror \subseteq Nat /\ Mirror # {} BY <1>1
<1>3. PICK m \in Mirror : \A l \in Mirror : m <= l
  <2> HIDE DEF Mirror
  <2> QED BY <1>2, LeastNumber
<1>4. m \in Nat /\ N - m \in S OBVIOUS
<1>5. ASSUME NEW k \in S PROVE k <= N - m
  <2>1. m <= N - k
    <3> HIDE DEF Mirror
    <3> QED BY <1>1, <1>3
  <2>2. k \in Nat OBVIOUS
  <2> QED BY <2>1, <2>2, <1>4
<1> QED BY <1>4, <1>5

\* What holds of 0, and of each number after one it holds of, holds up to n.
LEMMA UpTo ==
  ASSUME NEW n \in Nat, NEW S, 0 \in S, \A k \in 1 .. n : k - 1 \in S => k \in S
  PROVE  0 .. n \subseteq S
<1> DEFINE Outside == 0 .. n \ S
<1> SUFFICES ASSUME Outside # {} PROVE FALSE
  OBVIOUS
<1>1. PICK k \in Outside : \A l \in Outside : k <= l
  <2>1. Outside \subseteq Nat
    OBVIOUS
  <2> HIDE DEF Outside
  <2> QED BY <2>1, LeastNumber
<1>2. k \in 1 .. n /\ k - 1 \in 0 .. n /\ ~(k <= k - 1)
  OBVIOUS
<1>3. k - 1 \in S
  BY <1>1, <1>2
<1> QED BY <1>2, <1>3
=============================================================================
