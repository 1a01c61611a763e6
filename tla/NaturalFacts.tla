---------------------------- MODULE NaturalFacts ----------------------------
(***************************************************************************)
(* Facts about natural numbers that the proofs of several components need:  *)
(* the least element of a set, and division with remainder.                 *)
(***************************************************************************)
EXTENDS Integers, WellFoundedInduction, TLAPS

\* A nonempty set of naturals has a least element.
LEMMA LeastNatural ==
    ASSUME NEW S \in SUBSET Nat, S # {}
    PROVE  \E n \in S : \A m \in S : n <= m
PROOF
<1> DEFINE R == OpToRel(<, Nat)
<1>1. IsWellFoundedOn(R, Nat) BY NatLessThanWellFounded
<1>2. \A m, n \in Nat : m < n => <<m, n>> \in R
      BY DEF OpToRel
<1> HIDE DEF R
<1>3. PICK n \in S : \A m \in S : ~ (<<m, n>> \in R)
      BY <1>1, WFMin
<1>4. \A m \in S : ~ (m < n) BY <1>2, <1>3
<1>5. \A m \in S : n <= m BY <1>4
<1> QED BY <1>5

\* Division with remainder.
LEMMA Division ==
    ASSUME NEW n \in Nat \ {0}, NEW k \in Nat
    PROVE  /\ k \div n \in Nat /\ k % n \in Nat /\ k % n < n
           /\ k = n * (k \div n) + (k % n)
PROOF
<1> DEFINE q == k \div n
           r == k % n
<1>1. q \in Nat /\ r \in Nat /\ r < n /\ k = n * q + r BY SMT
<1> QED BY <1>1

\* Two numbers in one stride with the same remainder are the same.
LEMMA SameRemainder ==
    ASSUME NEW n \in Nat \ {0}, NEW k \in Nat, NEW t \in Nat,
           k <= t, t < k + n, t % n = k % n
    PROVE  t = k
PROOF
<1> DEFINE qt == t \div n
           qk == k \div n
           r  == k % n
<1>1. /\ qt \in Nat /\ qk \in Nat /\ r \in Nat
      /\ t = n * qt + r /\ k = n * qk + r
      BY Division
<1> HIDE DEF qt, qk, r
<1>2. ~ (qt < qk)
  <2> SUFFICES ASSUME qt + 1 <= qk PROVE FALSE BY <1>1
  <2>1. n * (qt + 1) <= n * qk BY <1>1
  <2>2. n * (qt + 1) = n * qt + n BY <1>1
  <2> QED BY <1>1, <2>1, <2>2
<1>3. ~ (qt > qk)
  <2> SUFFICES ASSUME qk + 1 <= qt PROVE FALSE BY <1>1
  <2>1. n * (qk + 1) <= n * qt BY <1>1
  <2>2. n * (qk + 1) = n * qk + n BY <1>1
  <2> QED BY <1>1, <2>1, <2>2
<1> QED BY <1>1, <1>2, <1>3

\* Quotient and remainder are determined by the equation.
LEMMA QuotientIs ==
    ASSUME NEW n \in Nat \ {0}, NEW q \in Nat, NEW r \in Nat, r < n
    PROVE  (n * q + r) \div n = q /\ (n * q + r) % n = r
PROOF
<1> DEFINE k == n * q + r
           Q == k \div n
           R == k % n
<1>1. k \in Nat /\ n * q \in Nat OBVIOUS
<1>2. Q \in Nat /\ R \in Nat /\ R < n /\ k = n * Q + R BY <1>1, Division
<1> HIDE DEF Q, R
<1>3. n * Q \in Nat BY <1>2
<1>4. ~ (q < Q)
  <2> SUFFICES ASSUME q + 1 <= Q PROVE FALSE BY <1>2
  <2>1. n * (q + 1) <= n * Q BY <1>2
  <2>2. n * (q + 1) = n * q + n OBVIOUS
  <2> QED BY <1>1, <1>2, <1>3, <2>1, <2>2
<1>5. ~ (Q < q)
  <2> SUFFICES ASSUME Q + 1 <= q PROVE FALSE BY <1>2
  <2>1. n * (Q + 1) <= n * q BY <1>2
  <2>2. n * (Q + 1) = n * Q + n BY <1>2
  <2> QED BY <1>1, <1>2, <1>3, <2>1, <2>2
<1>6. Q = q BY <1>2, <1>4, <1>5
<1>7. R = r BY <1>1, <1>2, <1>3, <1>6
<1> QED BY <1>6, <1>7 DEF Q, R

\* A stride does not change the remainder.
LEMMA RemainderOfStep ==
    ASSUME NEW n \in Nat \ {0}, NEW k \in Nat
    PROVE  (k + n) % n = k % n
PROOF
<1> DEFINE q == k \div n
           r == k % n
<1>1. q \in Nat /\ r \in Nat /\ r < n /\ k = n * q + r BY Division
<1> HIDE DEF q, r
<1>2. k + n = n * (q + 1) + r BY <1>1
<1>3. (n * (q + 1) + r) % n = r BY <1>1, QuotientIs
<1> QED BY <1>2, <1>3 DEF r

\* A quotient compared with a number is a product compared with it.
LEMMA QuotientBounds ==
    ASSUME NEW n \in Nat \ {0}, NEW k \in Nat, NEW q \in Nat
    PROVE  /\ n * q <= k <=> q <= k \div n
           /\ k < n * q <=> k \div n < q
PROOF
<1> DEFINE Q == k \div n
           R == k % n
<1>1. Q \in Nat /\ R \in Nat /\ R < n /\ k = n * Q + R BY Division
<1> HIDE DEF Q, R
<1>2. n * q \in Nat /\ n * Q \in Nat BY <1>1
<1>3. ASSUME q <= Q PROVE n * q <= k
  <2>1. n * q <= n * Q BY <1>1, <1>3
  <2> QED BY <1>1, <1>2, <2>1
<1>4. ASSUME Q + 1 <= q PROVE k < n * q
  <2>1. n * (Q + 1) <= n * q BY <1>1, <1>4
  <2>2. n * (Q + 1) = n * Q + n BY <1>1
  <2> QED BY <1>1, <1>2, <2>1, <2>2
<1>5. (n * q <= k <=> q <= Q) /\ (k < n * q <=> Q < q)
      BY <1>1, <1>2, <1>3, <1>4
<1> QED BY <1>5 DEF Q


\* A nonempty set of naturals with a bound has a greatest element.
LEMMA GreatestNatural ==
    ASSUME NEW S \in SUBSET Nat, S # {}, NEW b \in Nat, \A m \in S : m <= b
    PROVE  \E n \in S : \A m \in S : m <= n
PROOF
<1> DEFINE Bounds == {n \in Nat : \A m \in S : m <= n}
<1>1. Bounds \in SUBSET Nat /\ Bounds # {}
  <2>1. b \in Bounds OBVIOUS
  <2> QED BY <2>1
<1>2. PICK n \in Bounds : \A k \in Bounds : n <= k
  BY <1>1, LeastNatural
<1>3. n \in S
  <2> SUFFICES ASSUME n \notin S PROVE FALSE OBVIOUS
  <2>1. \A m \in S : m < n OBVIOUS
  <2>2. n # 0
    <3>1. PICK m \in S : TRUE OBVIOUS
    <3> QED BY <2>1, <3>1
  <2>3. n - 1 \in Bounds BY <2>1, <2>2
  <2> QED BY <1>2, <2>3
<1> QED BY <1>3

\* An increasing map between segments of the same length is the shift.
LEMMA IncreasingIsShift ==
    ASSUME NEW n \in Nat, NEW h \in [1 .. n -> 0 .. n - 1],
           \A i, j \in 1 .. n : i < j => h[i] < h[j]
    PROVE  \A i \in 1 .. n : h[i] = i - 1
PROOF
<1>1. \A i \in 1 .. n : h[i] >= i - 1
  <2> DEFINE Low == {i \in 1 .. n : h[i] < i - 1}
  <2>1. \A i \in 1 .. n : h[i] \in Nat /\ i \in Nat OBVIOUS
  <2>2. ASSUME Low # {} PROVE FALSE
    <3>1. PICK i \in Low : \A j \in Low : i <= j
      <4>1. Low \in SUBSET Nat BY <2>1
      <4> HIDE DEF Low
      <4> QED BY <2>2, <4>1, LeastNatural
    <3>2. i \in 1 .. n /\ i > 1 /\ i - 1 \in 1 .. n OBVIOUS
    <3>3. h[i - 1] >= i - 2 BY <3>1, <3>2
    <3>4. h[i - 1] < h[i] BY <3>2
    <3> QED BY <3>1, <3>2, <3>3, <3>4
  <2>3. ASSUME NEW i \in 1 .. n PROVE h[i] >= i - 1
    <3>1. ~(h[i] < i - 1)
      <4>1. i \notin Low BY <2>2
      <4> QED BY <4>1
    <3>2. h[i] \in Nat /\ i \in Nat BY <2>1
    <3> QED BY <3>1, <3>2
  <2> QED BY <2>3
<1>2. \A i \in 1 .. n : h[i] <= i - 1
  <2> DEFINE High == {i \in 1 .. n : h[i] > i - 1}
  <2> SUFFICES ASSUME High # {} PROVE FALSE OBVIOUS
  <2>1. PICK i \in High : \A j \in High : j <= i
    <3>1. High \in SUBSET Nat /\ \A j \in High : j <= n OBVIOUS
    <3> HIDE DEF High
    <3> QED BY <3>1, GreatestNatural
  <2>2. i \in 1 .. n /\ i < n /\ i + 1 \in 1 .. n OBVIOUS
  <2>3. h[i + 1] <= i BY <2>1, <2>2
  <2>4. h[i] < h[i + 1] BY <2>2
  <2> QED BY <2>1, <2>2, <2>3, <2>4
<1> QED BY <1>1, <1>2
=============================================================================
