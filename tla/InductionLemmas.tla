-------------------------- MODULE InductionLemmas --------------------------
(***************************************************************************)
(* Induction on the natural numbers stated with sets, so that no operator  *)
(* has to be instantiated, and the recursive functions it justifies.  The  *)
(* folds of the other modules rest on FoldExists.                          *)
(***************************************************************************)
EXTENDS Naturals, WellFoundedInduction, TLAPS

\* Every non-empty set of naturals has a least element (Current, Oldest and
\* every other "first of" in the models).
LEMMA LeastNatural ==
  ASSUME NEW S \in SUBSET Nat, S # {}
  PROVE  \E n \in S : \A m \in S : n <= m
<1> DEFINE R == {p \in Nat \X Nat : p[1] < p[2]}
<1>1. OpToRel(<, Nat) = R
  BY Zenon DEF OpToRel
<1>2. IsWellFoundedOn(R, Nat)
  BY <1>1, NatLessThanWellFounded, Zenon
<1>3. \A a, b \in Nat : a < b => <<a, b>> \in R
  OBVIOUS
<1> HIDE DEF R
<1>4. PICK n \in S : \A m \in S : ~ (<<m, n>> \in R)
  BY <1>2, WFMin, Zenon
<1>5. \A m \in S : ~ (m < n)
  BY <1>3, <1>4
<1>6. QED
  BY <1>5

\* A set that holds 0 and the successor of each natural it holds, holds all.
LEMMA SetInduction ==
  ASSUME NEW S, 0 \in S, \A n \in Nat : n \in S => n + 1 \in S
  PROVE  \A n \in Nat : n \in S
<1> SUFFICES ASSUME Nat \ S # {} PROVE FALSE
  OBVIOUS
<1>1. PICK n \in Nat \ S : \A m \in Nat \ S : n <= m
  BY LeastNatural
<1>2. n # 0 /\ n - 1 \in Nat
  BY <1>1
<1>3. n - 1 \in S
  BY <1>1, <1>2
<1>4. QED
  BY <1>1, <1>2, <1>3

\* The same from any starting point.
LEMMA SetInductionFrom ==
  ASSUME NEW S, NEW lo \in Nat, lo \in S,
         \A n \in Nat : n >= lo /\ n \in S => n + 1 \in S
  PROVE  \A n \in Nat : n >= lo => n \in S
<1> DEFINE T == {n \in Nat : n >= lo => n \in S}
<1>1. 0 \in T
  OBVIOUS
<1>2. ASSUME NEW n \in Nat, n \in T PROVE n + 1 \in T
  BY <1>2
<1> HIDE DEF T
<1>3. \A n \in Nat : n \in T
  BY <1>1, <1>2, SetInduction
<1>4. QED
  BY <1>3 DEF T

\* A non-empty set of naturals that has an upper bound has a greatest element
\* (the newest checkpoint).
LEMMA GreatestNatural ==
  ASSUME NEW S \in SUBSET Nat, S # {}, NEW b \in Nat, \A m \in S : m <= b
  PROVE  \E n \in S : \A m \in S : m <= n
<1> DEFINE T == {b - m : m \in S}
<1>1. T \in SUBSET Nat /\ T # {}
  <2>1. \A m \in S : b - m \in Nat
    OBVIOUS
  <2>2. QED
    BY <2>1
<1>2. PICK k \in T : \A j \in T : k <= j
  BY <1>1, LeastNatural
<1>3. PICK n \in S : k = b - n
  BY <1>2
<1>4. \A m \in S : b - n <= b - m
  BY <1>2, <1>3
<1>5. \A m \in S : m <= n
  BY <1>4
<1>6. QED
  BY <1>5

\* g holds s0 up to index lo, and after it what the steps make of it.
IsFold(g, s0, n, lo, step) ==
  \A i \in 0..n : g[i] = IF i <= lo THEN s0 ELSE step[<<i, g[i - 1]>>]

\* A fold over the indices 1..n from a typed step is a function: it exists.
LEMMA FoldExists ==
  ASSUME NEW S, NEW s0 \in S, NEW n \in Nat, NEW lo \in Nat,
         NEW step \in [(1..n) \X S -> S]
  PROVE  \E g \in [0..n -> S] : IsFold(g, s0, n, lo, step)
<1> DEFINE Good(k, g) ==
             \A i \in 0..k : g[i] = IF i <= lo THEN s0
                                    ELSE step[<<i, g[i - 1]>>]
           T == {k \in Nat : k <= n => \E g \in [0..n -> S] : Good(k, g)}
<1>1. 0 \in T
  <2> DEFINE h == [i \in 0..n |-> s0]
  <2>1. h \in [0..n -> S] /\ Good(0, h)
    OBVIOUS
  <2> HIDE DEF h, Good
  <2>2. QED
    BY <2>1
<1>2. ASSUME NEW k \in Nat, k \in T PROVE k + 1 \in T
  <2> SUFFICES ASSUME k + 1 <= n PROVE \E g \in [0..n -> S] : Good(k + 1, g)
    OBVIOUS
  <2>1. PICK g \in [0..n -> S] : Good(k, g)
    BY <1>2
  <2> DEFINE next == IF k + 1 <= lo THEN s0 ELSE step[<<k + 1, g[k]>>]
             h == [i \in 0..n |-> IF i = k + 1 THEN next ELSE g[i]]
  <2>2. next \in S
    OBVIOUS
  <2>3. h \in [0..n -> S]
    BY <2>2
  <2>4. /\ \A i \in 0..k : h[i] = g[i]
        /\ h[k + 1] = next
    BY <2>2
  <2> HIDE DEF h
  <2>5. ASSUME NEW i \in 0..k
        PROVE  h[i] = IF i <= lo THEN s0 ELSE step[<<i, h[i - 1]>>]
    <3>1. g[i] = IF i <= lo THEN s0 ELSE step[<<i, g[i - 1]>>]
      BY <2>1
    <3>2. CASE i <= lo
      BY <2>4, <3>1, <3>2
    <3>3. CASE ~ (i <= lo)
      <4>1. i - 1 \in 0..k
        BY <3>3
      <4>2. QED
        BY <2>4, <3>1, <3>3, <4>1
    <3>4. QED
      BY <3>2, <3>3
  <2>6. h[k + 1] = IF k + 1 <= lo THEN s0 ELSE step[<<k + 1, h[(k + 1) - 1]>>]
    <3>1. (k + 1) - 1 = k /\ k \in 0..k
      OBVIOUS
    <3>2. h[(k + 1) - 1] = g[k]
      BY <2>4, <3>1
    <3>3. QED
      BY <2>4, <3>2
  <2>7. ASSUME NEW i \in 0..(k + 1)
        PROVE  h[i] = IF i <= lo THEN s0 ELSE step[<<i, h[i - 1]>>]
    <3>1. i \in 0..k \/ i = k + 1
      OBVIOUS
    <3>2. QED
      BY <2>5, <2>6, <3>1
  <2>8. Good(k + 1, h)
    BY <2>7
  <2> HIDE DEF Good
  <2>9. QED
    BY <2>3, <2>8
<1> HIDE DEF T
<1>3. n \in T
  BY <1>1, <1>2, SetInduction
<1>4. QED
  BY <1>3 DEF T, IsFold

=============================================================================
