---------------------------- MODULE MerkleProofs ----------------------------
(***************************************************************************)
(* Proofs about Merkle, for every number of leaves: the recorder's tree    *)
(* has the root of RFC 6962, and the verifiers accept the proofs.          *)
(*                                                                         *)
(* The code counts in bits: the subtrees are the bits of the number of     *)
(* leaves, and the verifiers shift.  The proofs count in powers of two: a  *)
(* slice is lo .. hi, its first part a power of two, and what a verifier   *)
(* shifts away is the power that divides its position.                     *)
(***************************************************************************)
EXTENDS Merkle, Integers, SequenceTheorems, WellFoundedInduction, TLAPS

(***************************************************************************)
(* Induction over numbers.  The library states it for a predicate; here    *)
(* the predicate is a set.                                                 *)
(***************************************************************************)

\* Every set of natural numbers that has a member has a least one.
LEMMA LeastNumber ==
    ASSUME NEW T \in SUBSET Nat, T # {}
    PROVE  \E n \in T : \A m \in T : n <= m
  <1> DEFINE Less == OpToRel(<, Nat)
  <1>1. IsWellFoundedOn(Less, Nat)
    BY NatLessThanWellFounded
  <1>2. \A m, n \in Nat : m < n => <<m, n>> \in Less
    BY DEF OpToRel
  <1> HIDE DEF Less
  <1>3. PICK n \in T : \A m \in T : ~(<<m, n>> \in Less)
    BY <1>1, WFMin
  <1>4. \A m \in T : m \in Nat /\ n \in Nat /\ ~(m < n)
    BY <1>2, <1>3
  <1>5. \A m \in T : n <= m
    BY <1>4
  <1> QED BY <1>5

\* A set that has a number and passes it on has every later one up to N.
LEMMA Induction ==
    ASSUME NEW M \in Nat, NEW N \in Nat, NEW T, M \in T,
           \A n \in M .. N - 1 : n \in T => n + 1 \in T
    PROVE  \A n \in M .. N : n \in T
  <1> DEFINE Bad == {n \in M .. N : n \notin T}
  <1>1. SUFFICES ASSUME Bad # {} PROVE FALSE
    OBVIOUS
  <1>2. Bad \in SUBSET Nat
    OBVIOUS
  <1>3. PICK n \in Bad : \A m \in Bad : n <= m
    <2> HIDE DEF Bad
    <2> QED BY <1>1, <1>2, LeastNumber
  <1>4. n # M /\ n \in M .. N /\ n \notin T
    OBVIOUS
  <1>5. n - 1 \in M .. N - 1 /\ n - 1 \notin Bad
    BY <1>3, <1>4
  <1>6. n - 1 \in T
    BY <1>5
  <1>7. (n - 1) + 1 \in T
    BY <1>5, <1>6
  <1> QED BY <1>4, <1>7

(***************************************************************************)
(* Powers of two.  The set is the least one that holds 1 and the double of *)
(* each member, which is what an induction over it needs.                  *)
(***************************************************************************)

Doubling(S) == 1 \in S /\ \A k \in S : 2 * k \in S

Powers == {p \in Nat : \A S \in SUBSET Nat : Doubling(S) => p \in S}

\* The powers are closed, and an induction reaches all of them.
LEMMA PowersDouble ==
    /\ 1 \in Powers
    /\ \A p \in Powers : 2 * p \in Powers
    /\ \A p \in Powers : p \in Nat
    /\ \A S \in SUBSET Nat : Doubling(S) => \A p \in Powers : p \in S
  BY DEF Powers, Doubling

\* A power is one or the double of a power.
LEMMA PowerIs ==
    ASSUME NEW p \in Powers
    PROVE  /\ p \in Nat /\ p >= 1
           /\ p = 1 \/ \E r \in Powers : p = 2 * r
  <1> DEFINE T == {k \in Nat : /\ k >= 1 /\ k \in Powers
                               /\ k = 1 \/ \E r \in Powers : k = 2 * r}
  <1>1. 1 \in T
    BY PowersDouble
  <1>2. ASSUME NEW k \in T PROVE 2 * k \in T
    BY PowersDouble
  <1>3. Doubling(T) /\ T \in SUBSET Nat
    BY <1>1, <1>2 DEF Doubling
  <1>4. p \in T
    <2> HIDE DEF T
    <2> QED BY <1>3, PowersDouble
  <1> QED BY <1>4

\* The lesser of two powers divides the greater.
LEMMA PowerDivides ==
    ASSUME NEW p \in Powers, NEW s \in Powers, s <= p
    PROVE  \E c \in Powers : p = c * s
  <1> DEFINE T == {k \in Powers : \A r \in Powers :
                      r <= k => \E c \in Powers : k = c * r}
  <1>1. 1 \in T
    <2> SUFFICES ASSUME NEW r \in Powers, r <= 1
                 PROVE  \E c \in Powers : 1 = c * r
      BY PowersDouble
    <2>1. r = 1
      BY PowerIs
    <2> QED BY <2>1, PowersDouble
  <1>2. ASSUME NEW k \in T PROVE 2 * k \in T
    <2> SUFFICES ASSUME NEW r \in Powers, r <= 2 * k
                 PROVE  \E c \in Powers : 2 * k = c * r
      BY PowersDouble
    <2>0. k \in Nat /\ r \in Nat /\ 2 * k \in Powers
      BY PowersDouble
    <2>1. CASE r = 1
      BY <2>0, <2>1
    <2>2. CASE r # 1
      <3>1. PICK q \in Powers : r = 2 * q
        BY <2>2, PowerIs
      <3>2. q \in Nat /\ q <= k
        BY <2>0, <3>1, PowersDouble
      <3>3. PICK c \in Powers : k = c * q
        BY <3>2
      <3>4. c \in Nat
        BY PowersDouble
      <3>5. 2 * k = c * r
        BY <3>1, <3>2, <3>3, <3>4
      <3> QED BY <3>5
    <2> QED BY <2>1, <2>2
  <1>3. Doubling(T) /\ T \in SUBSET Nat
    BY <1>1, <1>2, PowersDouble DEF Doubling
  <1>4. p \in T
    <2> HIDE DEF T
    <2> QED BY <1>3, PowersDouble
  <1> QED BY <1>4

\* Above a power, the next one is its double.
LEMMA PowerAbove ==
    ASSUME NEW p \in Powers, NEW s \in Powers, s < p
    PROVE  \E c \in Powers : p = c * (2 * s)
  <1>0. p \in Nat /\ s \in Nat /\ s >= 1
    BY PowerIs
  <1>1. PICK c \in Powers : p = c * s
    BY <1>0, PowerDivides
  <1>2. c \in Nat /\ c # 1
    BY <1>0, <1>1, PowersDouble
  <1>3. PICK d \in Powers : c = 2 * d
    BY <1>2, PowerIs
  <1>4. d \in Nat
    BY PowersDouble
  <1>5. p = d * (2 * s)
    BY <1>0, <1>1, <1>3, <1>4
  <1> QED BY <1>5

\* An odd multiple of a power is no multiple of a greater one.
LEMMA OddMultiple ==
    ASSUME NEW p \in Powers, NEW r \in Powers, NEW q \in Nat, NEW k \in Nat,
           (2 * q + 1) * p = k * r
    PROVE  r <= p
  <1>0. p \in Nat /\ r \in Nat /\ p >= 1
    BY PowerIs
  <1>1. SUFFICES ASSUME p < r PROVE FALSE
    BY <1>0
  <1>2. PICK c \in Powers : r = c * (2 * p)
    BY <1>1, PowerAbove
  <1>3. c \in Nat
    BY PowersDouble
  <1>4. k * c \in Nat
    BY <1>3
  <1> DEFINE d == k * c
  <1>5. (2 * q + 1) * p = (2 * d) * p
    BY <1>0, <1>2, <1>3
  <1> HIDE DEF d
  <1>6. d \in Nat
    BY <1>4 DEF d
  <1>7. 2 * q + 1 = 2 * d
    <2> DEFINE a == 2 * q + 1
               b == 2 * d
    <2>1. a \in Nat /\ b \in Nat /\ a * p = b * p
      BY <1>5, <1>6
    <2> HIDE DEF a, b
    <2>2. (a - b) * p = 0
      BY <1>0, <2>1
    <2>3. a = b
      BY <1>0, <2>1, <2>2
    <2> QED BY <2>3 DEF a, b
  <1> QED BY <1>6, <1>7

(***************************************************************************)
(* The bit operations of the code, each a recursion to a lesser number.    *)
(***************************************************************************)

\* The first n + 1 values of the recursion
\*   f[k] == IF k \in Stop THEN c ELSE a[k] + b * f[h[k]].
Values(f, n, Stop, c, a, b, h) ==
    /\ f \in [0 .. n -> Nat]
    /\ \A k \in 0 .. n : f[k] = IF k \in Stop THEN c
                                ELSE a[k] + b * f[h[k]]

Descends(Stop, c, a, b, h) ==
    /\ c \in Nat /\ b \in Nat /\ a \in [Nat -> Nat] /\ h \in [Nat -> Nat]
    /\ \A k \in Nat : k \notin Stop => h[k] < k

\* Such a recursion defines a function.
LEMMA ValuesExist ==
    ASSUME NEW N \in Nat, NEW Stop, NEW c, NEW b, NEW a, NEW h,
           Descends(Stop, c, a, b, h)
    PROVE  \E f : Values(f, N, Stop, c, a, b, h)
  <1>d. /\ c \in Nat /\ b \in Nat /\ a \in [Nat -> Nat] /\ h \in [Nat -> Nat]
        /\ \A k \in Nat : k \notin Stop => h[k] < k
    BY DEF Descends
  <1> DEFINE T == {n \in Nat : \E f : Values(f, n, Stop, c, a, b, h)}
  <1>1. 0 \in T
    <2> DEFINE f == [k \in 0 .. 0 |-> c]
    <2>1. 0 \in Stop
      <3>1. h[0] \in Nat /\ (0 \notin Stop => h[0] < 0)
        BY <1>d
      <3> QED BY <3>1
    <2>2. f \in [0 .. 0 -> Nat] /\ \A k \in 0 .. 0 : k \in Stop /\ f[k] = c
      BY <1>d, <2>1
    <2> HIDE DEF f
    <2>3. Values(f, 0, Stop, c, a, b, h)
      BY <2>2 DEF Values
    <2> QED BY <2>3
  <1>2. ASSUME NEW n \in 0 .. N - 1, n \in T PROVE n + 1 \in T
    <2>1. PICK f : Values(f, n, Stop, c, a, b, h)
      BY <1>2
    <2> DEFINE last == IF n + 1 \in Stop THEN c ELSE a[n + 1] + b * f[h[n + 1]]
               g == [k \in 0 .. n + 1 |-> IF k <= n THEN f[k] ELSE last]
    <2>2. last \in Nat
      <3>1. CASE n + 1 \in Stop
        BY <1>d, <3>1
      <3>2. CASE n + 1 \notin Stop
        <4>1. h[n + 1] \in 0 .. n
          BY <1>d, <3>2
        <4>2. f[h[n + 1]] \in Nat /\ a[n + 1] \in Nat
          BY <1>d, <2>1, <3>2, <4>1 DEF Values
        <4>3. b * f[h[n + 1]] \in Nat
          BY <1>d, <4>2
        <4>4. a[n + 1] + b * f[h[n + 1]] \in Nat
          BY <4>2, <4>3
        <4> QED BY <3>2, <4>4
      <3> QED BY <3>1, <3>2
    <2>3. g \in [0 .. n + 1 -> Nat]
      <3> HIDE DEF last
      <3>1. f \in [0 .. n -> Nat]
        BY <2>1 DEF Values
      <3>2. ASSUME NEW k \in 0 .. n + 1 PROVE g[k] \in Nat
        <4>1. CASE k \in 0 .. n
          <5>1. g[k] = f[k]
            BY <4>1
          <5> HIDE DEF g
          <5> QED BY <3>1, <4>1, <5>1
        <4>2. CASE k = n + 1
          BY <2>2, <4>2
        <4> QED BY <4>1, <4>2
      <3>3. g = [k \in 0 .. n + 1 |-> g[k]]
        OBVIOUS
      <3> HIDE DEF g
      <3> QED BY <3>2, <3>3
    <2>4. ASSUME NEW k \in 0 .. n + 1
          PROVE  g[k] = IF k \in Stop THEN c ELSE a[k] + b * g[h[k]]
      <3>1. CASE k \in Stop /\ k <= n
        BY <2>1, <3>1 DEF Values
      <3>2. CASE k \in Stop /\ k = n + 1
        BY <1>d, <3>2
      <3>3. CASE k \notin Stop
        <4>1. h[k] \in 0 .. n
          BY <1>d, <3>3
        <4>2. g[h[k]] = f[h[k]]
          BY <4>1
        <4>3. g[k] = a[k] + b * f[h[k]]
          <5>1. CASE k <= n
            <6>1. k \in 0 .. n /\ g[k] = f[k]
              BY <5>1
            <6> QED BY <2>1, <3>3, <6>1 DEF Values
          <5>2. CASE k = n + 1
            BY <3>3, <5>2
          <5> QED BY <5>1, <5>2
        <4> QED BY <3>3, <4>2, <4>3
      <3> QED BY <3>1, <3>2, <3>3
    <2> HIDE DEF g
    <2>5. Values(g, n + 1, Stop, c, a, b, h)
      BY <2>3, <2>4 DEF Values
    <2>6. n + 1 \in Nat
      OBVIOUS
    <2> QED BY <2>5, <2>6
  <1>3. N \in T
    <2> HIDE DEF T
    <2>1. \A n \in 0 .. N : n \in T
      BY <1>1, <1>2, Induction
    <2> QED BY <2>1
  <1> QED BY <1>3

\* Its values do not depend on how far it is taken.
LEMMA ValuesAgree ==
    ASSUME NEW M \in Nat, NEW N \in Nat, NEW f, NEW g,
           NEW Stop, NEW c, NEW b, NEW a, NEW h,
           Descends(Stop, c, a, b, h),
           Values(f, M, Stop, c, a, b, h), Values(g, N, Stop, c, a, b, h),
           M <= N
    PROVE  \A k \in 0 .. M : f[k] = g[k]
  <1> DEFINE Bad == {k \in 0 .. M : f[k] # g[k]}
  <1>1. SUFFICES ASSUME Bad # {} PROVE FALSE
    OBVIOUS
  <1>2. Bad \in SUBSET Nat
    OBVIOUS
  <1>3. PICK k \in Bad : \A j \in Bad : k <= j
    <2> HIDE DEF Bad
    <2> QED BY <1>1, <1>2, LeastNumber
  <1>4. k \in 0 .. M /\ k \in 0 .. N /\ f[k] # g[k]
    OBVIOUS
  <1>5. k \notin Stop
    BY <1>4 DEF Values
  <1>6. h[k] \in 0 .. M /\ h[k] < k
    BY <1>4, <1>5 DEF Descends
  <1>7. f[h[k]] = g[h[k]]
    BY <1>3, <1>6
  <1> HIDE DEF Bad
  <1> QED BY <1>4, <1>5, <1>7 DEF Values

\* The recursion defines a function on all the numbers.
LEMMA Halving ==
    ASSUME NEW Stop, NEW c, NEW b, NEW a, NEW h,
           Descends(Stop, c, a, b, h)
    PROVE  \E F \in [Nat -> Nat] : \A k \in Nat :
              F[k] = IF k \in Stop THEN c ELSE a[k] + b * F[h[k]]
  <1>d. /\ c \in Nat /\ b \in Nat /\ a \in [Nat -> Nat] /\ h \in [Nat -> Nat]
        /\ \A k \in Nat : k \notin Stop => h[k] < k
    BY DEF Descends
  <1> DEFINE V(n) == CHOOSE f : Values(f, n, Stop, c, a, b, h)
             F == [n \in Nat |-> V(n)[n]]
  <1>1. \A n \in Nat : Values(V(n), n, Stop, c, a, b, h)
    BY ValuesExist
  <1> HIDE DEF V
  <1>2. \A n \in Nat : V(n)[n] \in Nat
    BY <1>1 DEF Values
  <1>3. F \in [Nat -> Nat]
    BY <1>2
  <1>4. ASSUME NEW k \in Nat
        PROVE  F[k] = IF k \in Stop THEN c ELSE a[k] + b * F[h[k]]
    <2>1. F[k] = IF k \in Stop THEN c ELSE a[k] + b * V(k)[h[k]]
      BY <1>1 DEF Values
    <2>2. CASE k \in Stop
      BY <2>1, <2>2
    <2>3. CASE k \notin Stop
      <3>1. h[k] \in Nat /\ h[k] <= k
        BY <1>d, <2>3
      <3>2. V(h[k])[h[k]] = V(k)[h[k]]
        <4> DEFINE m == h[k]
        <4>0. m \in Nat /\ m <= k
          BY <3>1
        <4> HIDE DEF m
        <4>1. Values(V(m), m, Stop, c, a, b, h) /\ Values(V(k), k, Stop, c, a, b, h)
          BY <1>1, <4>0
        <4>2. \A j \in 0 .. m : V(m)[j] = V(k)[j]
          <5>1. SUFFICES ASSUME NEW f, NEW g, f = V(m), g = V(k)
                         PROVE  \A j \in 0 .. m : f[j] = g[j]
            OBVIOUS
          <5>2. Values(f, m, Stop, c, a, b, h) /\ Values(g, k, Stop, c, a, b, h)
            BY <4>1, <5>1
          <5> QED BY <4>0, <5>2, ValuesAgree
        <4>3. V(m)[m] = V(k)[m]
          BY <4>0, <4>2
        <4> QED BY <4>3 DEF m
      <3>3. F[h[k]] = V(h[k])[h[k]]
        BY <3>1
      <3> QED BY <2>1, <2>3, <3>2, <3>3
    <2> QED BY <2>2, <2>3
  <1> HIDE DEF F
  <1> QED BY <1>3, <1>4

\* What a shift by one bit leaves.
LEMMA HalfIs ==
    ASSUME NEW k \in Nat
    PROVE  /\ k \div 2 \in Nat /\ k % 2 \in Nat
           /\ k = 2 * (k \div 2) \/ k = 2 * (k \div 2) + 1
           /\ k % 2 = k - 2 * (k \div 2)
  OBVIOUS

\* Both halves of a number are less than it.
LEMMA Halves ==
    ASSUME NEW k \in Nat
    PROVE  /\ k \div 2 \in Nat /\ k % 2 \in Nat /\ k % 2 \in {0, 1}
           /\ k = 2 * (k \div 2) + (k % 2)
           /\ k # 0 => k \div 2 < k
           /\ (k + 1) \div 2 \in Nat
           /\ k > 2 => (k + 1) \div 2 < k
           /\ k > 0 => (k + 1) \div 2 > 0
  <1> DEFINE d == k \div 2
             m == k % 2
             e == (k + 1) \div 2
  <1>1. d \in Nat /\ m \in Nat /\ (k = 2 * d \/ k = 2 * d + 1) /\ m = k - 2 * d
    BY HalfIs
  <1>2. e \in Nat /\ (k + 1 = 2 * e \/ k + 1 = 2 * e + 1)
    <2>1. k + 1 \in Nat
      OBVIOUS
    <2> QED BY <2>1, HalfIs
  <1> HIDE DEF d, m, e
  <1>3. /\ m \in {0, 1} /\ k = 2 * d + m /\ (k # 0 => d < k)
        /\ (k > 2 => e < k) /\ (k > 0 => e > 0)
    BY <1>1, <1>2
  <1> QED BY <1>1, <1>2, <1>3 DEF d, m, e

\* The recursion of OnesCount, as equations.
LEMMA OnesCountIs ==
    /\ OnesCount(0) = 0
    /\ \A n \in Nat : OnesCount(n) \in Nat
    /\ \A n \in Nat : n # 0 => OnesCount(n) = (n % 2) + OnesCount(n \div 2)
  <1> DEFINE Ones(f, n) == f = [k \in 0 .. n |->
                              IF k = 0 THEN 0 ELSE (k % 2) + f[k \div 2]]
  <1>1. PICK F \in [Nat -> Nat] :
           \A k \in Nat : F[k] = IF k = 0 THEN 0 ELSE (k % 2) + F[k \div 2]
    <2> DEFINE Stop == {0}
               a == [k \in Nat |-> k % 2]
               h == [k \in Nat |-> k \div 2]
    <2>1. PICK c, b : c = 0 /\ b = 1
      OBVIOUS
    <2>2. a \in [Nat -> Nat] /\ h \in [Nat -> Nat]
      BY Halves
    <2>3. \A k \in Nat : /\ a[k] = k % 2 /\ h[k] = k \div 2
                         /\ k \in Stop <=> k = 0
      OBVIOUS
    <2> HIDE DEF a, h, Stop
    <2>4. Descends(Stop, c, a, b, h)
      BY <2>1, <2>2, <2>3, Halves DEF Descends
    <2>5. PICK F \in [Nat -> Nat] : \A k \in Nat :
             F[k] = IF k \in Stop THEN c ELSE a[k] + b * F[h[k]]
      BY <2>4, Halving
    <2>6. ASSUME NEW k \in Nat
          PROVE  F[k] = IF k = 0 THEN 0 ELSE (k % 2) + F[k \div 2]
      <3>1. F[k \div 2] \in Nat /\ b * F[k \div 2] = F[k \div 2]
        BY <2>1, Halves
      <3>2. F[k] = IF k = 0 THEN c ELSE a[k] + b * F[k \div 2]
        BY <2>3, <2>5
      <3> QED BY <2>1, <2>3, <3>1, <3>2
    <2> QED BY <2>6
  <1>2. ASSUME NEW n \in Nat PROVE OnesCount(n) = F[n]
    <2>1. Ones([k \in 0 .. n |-> F[k]], n)
      <3> DEFINE g == [k \in 0 .. n |-> F[k]]
      <3>1. ASSUME NEW k \in 0 .. n
            PROVE  F[k] = IF k = 0 THEN 0 ELSE (k % 2) + g[k \div 2]
        <4>1. k # 0 => k \div 2 \in 0 .. n
          BY Halves
        <4> QED BY <1>1, <4>1
      <3> QED BY <3>1
    <2> DEFINE f == CHOOSE f : Ones(f, n)
               Bad == {k \in 0 .. n : f[k] # F[k]}
    <2>2. Ones(f, n)
      BY <2>1
    <2>3. OnesCount(n) = f[n]
      BY DEF OnesCount
    <2> HIDE DEF f
    <2>a. ASSUME NEW k \in 0 .. n
          PROVE  f[k] = IF k = 0 THEN 0 ELSE (k % 2) + f[k \div 2]
      BY <2>2
    <2>4. ASSUME Bad # {} PROVE FALSE
      <3>1. PICK k \in Bad : \A j \in Bad : k <= j
        <4>1. Bad \in SUBSET Nat
          OBVIOUS
        <4> HIDE DEF Bad
        <4> QED BY <2>4, <4>1, LeastNumber
      <3>2. k \in 0 .. n /\ f[k] # F[k]
        OBVIOUS
      <3>3. k = 0 \/ (k \div 2 \in 0 .. n /\ k \div 2 < k)
        BY <3>2, Halves
      <3>4. k # 0 => f[k \div 2] = F[k \div 2]
        BY <3>1, <3>3
      <3> HIDE DEF Bad
      <3>5. f[k] = IF k = 0 THEN 0 ELSE (k % 2) + f[k \div 2]
        BY <2>a, <3>2
      <3>6. F[k] = IF k = 0 THEN 0 ELSE (k % 2) + F[k \div 2]
        BY <1>1, <3>2
      <3> QED BY <3>2, <3>4, <3>5, <3>6
    <2> QED BY <2>3, <2>4
  <1> QED BY <1>1, <1>2, Halves

\* The recursion of splitPoint, as equations.
LEMMA SplitIs ==
    \A n \in Nat : n >= 2 =>
       /\ splitPoint(n) \in Nat
       /\ splitPoint(n) = IF n <= 2 THEN 1 ELSE 2 * splitPoint((n + 1) \div 2)
  <1> DEFINE Are(f, n) == f = [k \in 0 .. n |->
                              IF k <= 2 THEN 1 ELSE 2 * f[(k + 1) \div 2]]
  <1>1. PICK F \in [Nat -> Nat] :
           \A k \in Nat : F[k] = IF k <= 2 THEN 1 ELSE 2 * F[(k + 1) \div 2]
    <2> DEFINE Stop == {k \in Nat : k <= 2}
               a == [k \in Nat |-> 0]
               h == [k \in Nat |-> (k + 1) \div 2]
    <2>1. PICK c, b : c = 1 /\ b = 2
      OBVIOUS
    <2>2. a \in [Nat -> Nat] /\ h \in [Nat -> Nat]
      BY Halves
    <2>3. \A k \in Nat : /\ a[k] = 0 /\ h[k] = (k + 1) \div 2
                         /\ k \in Stop <=> (k <= 2)
      OBVIOUS
    <2> HIDE DEF a, h, Stop
    <2>4. Descends(Stop, c, a, b, h)
      BY <2>1, <2>2, <2>3, Halves DEF Descends
    <2>5. PICK F \in [Nat -> Nat] : \A k \in Nat :
             F[k] = IF k \in Stop THEN c ELSE a[k] + b * F[h[k]]
      BY <2>4, Halving
    <2>6. ASSUME NEW k \in Nat
          PROVE  F[k] = IF k <= 2 THEN 1 ELSE 2 * F[(k + 1) \div 2]
      <3>1. F[(k + 1) \div 2] \in Nat
        BY Halves
      <3>2. F[k] = IF k <= 2 THEN c ELSE a[k] + b * F[(k + 1) \div 2]
        BY <2>3, <2>5
      <3> QED BY <2>1, <2>3, <3>1, <3>2
    <2> QED BY <2>6
  <1>2. ASSUME NEW n \in Nat, n >= 2 PROVE splitPoint(n) = F[n]
    <2>1. Are([k \in 0 .. n |-> F[k]], n)
      <3> DEFINE g == [k \in 0 .. n |-> F[k]]
      <3>1. ASSUME NEW k \in 0 .. n
            PROVE  F[k] = IF k <= 2 THEN 1 ELSE 2 * g[(k + 1) \div 2]
        <4>1. ~(k <= 2) => (k + 1) \div 2 \in 0 .. n
          BY Halves
        <4>2. ~(k <= 2) => g[(k + 1) \div 2] = F[(k + 1) \div 2]
          BY <4>1
        <4> QED BY <1>1, <4>2
      <3> QED BY <3>1
    <2> DEFINE f == CHOOSE f : Are(f, n)
               Bad == {k \in 0 .. n : f[k] # F[k]}
    <2>2. Are(f, n)
      BY <2>1
    <2>3. splitPoint(n) = f[n]
      BY <1>2 DEF splitPoint
    <2> HIDE DEF f
    <2>4. ASSUME NEW k \in 0 .. n
          PROVE  f[k] = IF k <= 2 THEN 1 ELSE 2 * f[(k + 1) \div 2]
      BY <2>2
    <2>5. ASSUME Bad # {} PROVE FALSE
      <3>1. PICK k \in Bad : \A j \in Bad : k <= j
        <4>1. Bad \in SUBSET Nat
          OBVIOUS
        <4> HIDE DEF Bad
        <4> QED BY <2>5, <4>1, LeastNumber
      <3>2. k \in 0 .. n /\ f[k] # F[k]
        OBVIOUS
      <3>3. (k <= 2) \/ ((k + 1) \div 2 \in 0 .. n /\ (k + 1) \div 2 < k)
        BY <3>2, Halves
      <3>4. ~(k <= 2) => f[(k + 1) \div 2] = F[(k + 1) \div 2]
        BY <3>1, <3>3
      <3> HIDE DEF Bad
      <3>5. f[k] = IF k <= 2 THEN 1 ELSE 2 * f[(k + 1) \div 2]
        BY <2>4, <3>2
      <3>6. F[k] = IF k <= 2 THEN 1 ELSE 2 * F[(k + 1) \div 2]
        BY <1>1, <3>2
      <3> QED BY <3>2, <3>4, <3>5, <3>6
    <2> QED BY <2>3, <2>5
  <1> QED BY <1>1, <1>2, Halves

\* The recursion of EvenPart, as equations.
LEMMA EvenPartIs ==
    \A n \in Nat :
       /\ EvenPart(n) \in Nat
       /\ EvenPart(n) = IF n = 0 \/ n % 2 = 1 THEN 1
                        ELSE 2 * EvenPart(n \div 2)
  <1> DEFINE Are(f, n) == f = [k \in 0 .. n |->
                              IF k = 0 \/ k % 2 = 1 THEN 1 ELSE 2 * f[k \div 2]]
  <1>1. PICK F \in [Nat -> Nat] :
           \A k \in Nat : F[k] = IF k = 0 \/ k % 2 = 1 THEN 1 ELSE 2 * F[k \div 2]
    <2> DEFINE Stop == {k \in Nat : k = 0 \/ k % 2 = 1}
               a == [k \in Nat |-> 0]
               h == [k \in Nat |-> k \div 2]
    <2>1. PICK c, b : c = 1 /\ b = 2
      OBVIOUS
    <2>2. a \in [Nat -> Nat] /\ h \in [Nat -> Nat]
      BY Halves
    <2>3. \A k \in Nat : /\ a[k] = 0 /\ h[k] = k \div 2
                         /\ k \in Stop <=> (k = 0 \/ k % 2 = 1)
      OBVIOUS
    <2> HIDE DEF a, h, Stop
    <2>4. Descends(Stop, c, a, b, h)
      BY <2>1, <2>2, <2>3, Halves DEF Descends
    <2>5. PICK F \in [Nat -> Nat] : \A k \in Nat :
             F[k] = IF k \in Stop THEN c ELSE a[k] + b * F[h[k]]
      BY <2>4, Halving
    <2>6. ASSUME NEW k \in Nat
          PROVE  F[k] = IF k = 0 \/ k % 2 = 1 THEN 1 ELSE 2 * F[k \div 2]
      <3>1. F[k \div 2] \in Nat
        BY Halves
      <3>2. F[k] = IF k = 0 \/ k % 2 = 1 THEN c ELSE a[k] + b * F[k \div 2]
        BY <2>3, <2>5
      <3> QED BY <2>1, <2>3, <3>1, <3>2
    <2> QED BY <2>6
  <1>2. ASSUME NEW n \in Nat PROVE EvenPart(n) = F[n]
    <2>1. Are([k \in 0 .. n |-> F[k]], n)
      <3> DEFINE g == [k \in 0 .. n |-> F[k]]
      <3>1. ASSUME NEW k \in 0 .. n
            PROVE  F[k] = IF k = 0 \/ k % 2 = 1 THEN 1 ELSE 2 * g[k \div 2]
        <4>1. ~(k = 0 \/ k % 2 = 1) => k \div 2 \in 0 .. n
          BY Halves
        <4>2. ~(k = 0 \/ k % 2 = 1) => g[k \div 2] = F[k \div 2]
          BY <4>1
        <4> QED BY <1>1, <4>2
      <3> QED BY <3>1
    <2> DEFINE f == CHOOSE f : Are(f, n)
               Bad == {k \in 0 .. n : f[k] # F[k]}
    <2>2. Are(f, n)
      BY <2>1
    <2>3. EvenPart(n) = f[n]
      BY DEF EvenPart
    <2> HIDE DEF f
    <2>4. ASSUME NEW k \in 0 .. n
          PROVE  f[k] = IF k = 0 \/ k % 2 = 1 THEN 1 ELSE 2 * f[k \div 2]
      BY <2>2
    <2>5. ASSUME Bad # {} PROVE FALSE
      <3>1. PICK k \in Bad : \A j \in Bad : k <= j
        <4>1. Bad \in SUBSET Nat
          OBVIOUS
        <4> HIDE DEF Bad
        <4> QED BY <2>5, <4>1, LeastNumber
      <3>2. k \in 0 .. n /\ f[k] # F[k]
        OBVIOUS
      <3>3. (k = 0 \/ k % 2 = 1) \/ (k \div 2 \in 0 .. n /\ k \div 2 < k)
        BY <3>2, Halves
      <3>4. ~(k = 0 \/ k % 2 = 1) => f[k \div 2] = F[k \div 2]
        BY <3>1, <3>3
      <3> HIDE DEF Bad
      <3>5. f[k] = IF k = 0 \/ k % 2 = 1 THEN 1 ELSE 2 * f[k \div 2]
        BY <2>4, <3>2
      <3>6. F[k] = IF k = 0 \/ k % 2 = 1 THEN 1 ELSE 2 * F[k \div 2]
        BY <1>1, <3>2
      <3> QED BY <3>2, <3>4, <3>5, <3>6
    <2> QED BY <2>3, <2>5
  <1> QED BY <1>1, <1>2, Halves

\* The recursion of OddPart, as equations.
LEMMA OddPartIs ==
    \A n \in Nat :
       /\ OddPart(n) \in Nat
       /\ OddPart(n) = IF n % 2 = 0 THEN 1 ELSE 2 * OddPart(n \div 2)
  <1> DEFINE Are(f, n) == f = [k \in 0 .. n |->
                              IF k % 2 = 0 THEN 1 ELSE 2 * f[k \div 2]]
  <1>1. PICK F \in [Nat -> Nat] :
           \A k \in Nat : F[k] = IF k % 2 = 0 THEN 1 ELSE 2 * F[k \div 2]
    <2> DEFINE Stop == {k \in Nat : k % 2 = 0}
               a == [k \in Nat |-> 0]
               h == [k \in Nat |-> k \div 2]
    <2>1. PICK c, b : c = 1 /\ b = 2
      OBVIOUS
    <2>2. a \in [Nat -> Nat] /\ h \in [Nat -> Nat]
      BY Halves
    <2>3. \A k \in Nat : /\ a[k] = 0 /\ h[k] = k \div 2
                         /\ k \in Stop <=> (k % 2 = 0)
      OBVIOUS
    <2> HIDE DEF a, h, Stop
    <2>4. Descends(Stop, c, a, b, h)
      BY <2>1, <2>2, <2>3, Halves DEF Descends
    <2>5. PICK F \in [Nat -> Nat] : \A k \in Nat :
             F[k] = IF k \in Stop THEN c ELSE a[k] + b * F[h[k]]
      BY <2>4, Halving
    <2>6. ASSUME NEW k \in Nat
          PROVE  F[k] = IF k % 2 = 0 THEN 1 ELSE 2 * F[k \div 2]
      <3>1. F[k \div 2] \in Nat
        BY Halves
      <3>2. F[k] = IF k % 2 = 0 THEN c ELSE a[k] + b * F[k \div 2]
        BY <2>3, <2>5
      <3>3. CASE k % 2 = 0
        BY <2>1, <3>2, <3>3
      <3>4. CASE ~(k % 2 = 0)
        <4>1. F[k] = a[k] + b * F[k \div 2]
          BY <3>2, <3>4
        <4>2. a[k] = 0 /\ b = 2
          BY <2>1, <2>3
        <4> QED BY <3>1, <3>4, <4>1, <4>2
      <3> QED BY <3>3, <3>4
    <2> QED BY <2>6
  <1>2. ASSUME NEW n \in Nat PROVE OddPart(n) = F[n]
    <2>1. Are([k \in 0 .. n |-> F[k]], n)
      <3> DEFINE g == [k \in 0 .. n |-> F[k]]
      <3>1. ASSUME NEW k \in 0 .. n
            PROVE  F[k] = IF k % 2 = 0 THEN 1 ELSE 2 * g[k \div 2]
        <4>1. ~(k % 2 = 0) => k \div 2 \in 0 .. n
          BY Halves
        <4>2. ~(k % 2 = 0) => g[k \div 2] = F[k \div 2]
          BY <4>1
        <4>3. F[k] = IF k % 2 = 0 THEN 1 ELSE 2 * F[k \div 2]
          BY <1>1
        <4>4. CASE k % 2 = 0
          BY <4>3, <4>4
        <4>5. CASE ~(k % 2 = 0)
          BY <4>2, <4>3, <4>5
        <4> QED BY <4>4, <4>5
      <3> QED BY <3>1
    <2> DEFINE f == CHOOSE f : Are(f, n)
               Bad == {k \in 0 .. n : f[k] # F[k]}
    <2>2. Are(f, n)
      BY <2>1
    <2>3. OddPart(n) = f[n]
      BY DEF OddPart
    <2> HIDE DEF f
    <2>4. ASSUME NEW k \in 0 .. n
          PROVE  f[k] = IF k % 2 = 0 THEN 1 ELSE 2 * f[k \div 2]
      BY <2>2
    <2>5. ASSUME Bad # {} PROVE FALSE
      <3>1. PICK k \in Bad : \A j \in Bad : k <= j
        <4>1. Bad \in SUBSET Nat
          OBVIOUS
        <4> HIDE DEF Bad
        <4> QED BY <2>5, <4>1, LeastNumber
      <3>2. k \in 0 .. n /\ f[k] # F[k]
        OBVIOUS
      <3>3. (k % 2 = 0) \/ (k \div 2 \in 0 .. n /\ k \div 2 < k)
        BY <3>2, Halves
      <3>4. ~(k % 2 = 0) => f[k \div 2] = F[k \div 2]
        BY <3>1, <3>3
      <3> HIDE DEF Bad
      <3>5. f[k] = IF k % 2 = 0 THEN 1 ELSE 2 * f[k \div 2]
        BY <2>4, <3>2
      <3>6. F[k] = IF k % 2 = 0 THEN 1 ELSE 2 * F[k \div 2]
        BY <1>1, <3>2
      <3> QED BY <3>2, <3>4, <3>5, <3>6
    <2> QED BY <2>3, <2>5
  <1> QED BY <1>1, <1>2, Halves

(***************************************************************************)
(* What the bit operations compute, in terms of powers of two.             *)
(***************************************************************************)

\* The lowest bit.
LEMMA EvenOdd ==
    ASSUME NEW m \in Nat
    PROVE  /\ (2 * m) \div 2 = m /\ (2 * m) % 2 = 0
           /\ (2 * m + 1) \div 2 = m /\ (2 * m + 1) % 2 = 1
  OBVIOUS

\* The split of n leaves is the power of two below n that reaches half of it.
LEMMA SplitPower ==
    ASSUME NEW n \in Nat, n >= 2
    PROVE  /\ splitPoint(n) \in Powers
           /\ splitPoint(n) < n /\ n <= 2 * splitPoint(n)
  <1> DEFINE Good(k) == /\ splitPoint(k) \in Powers
                        /\ splitPoint(k) < k /\ k <= 2 * splitPoint(k)
             Bad == {k \in Nat : k >= 2 /\ ~Good(k)}
  <1>1. SUFFICES ASSUME Bad # {} PROVE FALSE
    OBVIOUS
  <1>2. PICK k \in Bad : \A j \in Bad : k <= j
    <2>1. Bad \in SUBSET Nat
      OBVIOUS
    <2> HIDE DEF Bad
    <2> QED BY <1>1, <2>1, LeastNumber
  <1>3. k \in Nat /\ k >= 2 /\ ~Good(k)
    OBVIOUS
  <1> HIDE DEF Good
  <1>4. k # 2
    <2>1. ASSUME k = 2 PROVE Good(k)
      <3>1. splitPoint(k) = 1
        BY <1>3, <2>1, SplitIs
      <3> QED BY <2>1, <3>1, PowersDouble DEF Good
    <2> QED BY <1>3, <2>1
  <1> DEFINE e == (k + 1) \div 2
  <1>5. e \in Nat /\ (k + 1 = 2 * e \/ k + 1 = 2 * e + 1)
    <2>1. k + 1 \in Nat
      BY <1>3
    <2> QED BY <2>1, HalfIs
  <1>6. splitPoint(k) = 2 * splitPoint(e)
    BY <1>3, <1>4, SplitIs
  <1> HIDE DEF e
  <1>7. e >= 2 /\ e < k
    BY <1>3, <1>4, <1>5
  <1>8. Good(e)
    BY <1>2, <1>5, <1>7
  <1>9. Good(k)
    <2>1. /\ splitPoint(e) \in Powers /\ splitPoint(e) \in Nat
          /\ splitPoint(e) < e /\ e <= 2 * splitPoint(e)
      BY <1>8, PowersDouble DEF Good
    <2>2. splitPoint(k) \in Powers
      BY <1>6, <2>1, PowersDouble
    <2>3. splitPoint(k) < k /\ k <= 2 * splitPoint(k)
      BY <1>3, <1>5, <1>6, <2>1
    <2> QED BY <2>2, <2>3 DEF Good
  <1> QED BY <1>3, <1>9

\* There is only one such power.
LEMMA SplitUnique ==
    ASSUME NEW n \in Nat, NEW p \in Powers, p < n, n <= 2 * p
    PROVE  splitPoint(n) = p
  <1> DEFINE s == splitPoint(n)
  <1>0. p \in Nat /\ p >= 1 /\ n >= 2
    BY PowerIs
  <1>1. s \in Powers /\ s < n /\ n <= 2 * s
    BY <1>0, SplitPower
  <1> HIDE DEF s
  <1>2. s \in Nat /\ s >= 1
    BY <1>1, PowerIs
  <1>3. ASSUME NEW x \in Powers, NEW y \in Powers, x < y, y < n, n <= 2 * x
        PROVE  FALSE
    <2>1. PICK c \in Powers : y = c * (2 * x)
      BY <1>3, PowerAbove
    <2>2. x \in Nat /\ c \in Nat /\ c >= 1 /\ y \in Nat
      BY PowerIs
    <2>3. y >= 2 * x
      BY <2>1, <2>2
    <2> QED BY <1>3, <2>2, <2>3
  <1>4. ~(s < p) /\ ~(p < s)
    BY <1>1, <1>3
  <1>5. s = p
    BY <1>0, <1>2, <1>4
  <1> QED BY <1>5 DEF s

\* A bit more at the low end.
LEMMA OnesCountDouble ==
    ASSUME NEW m \in Nat
    PROVE  /\ OnesCount(m) \in Nat
           /\ OnesCount(2 * m) = OnesCount(m)
           /\ OnesCount(2 * m + 1) = OnesCount(m) + 1
  <1>1. OnesCount(m) \in Nat
    BY OnesCountIs
  <1>2. OnesCount(2 * m) = OnesCount(m)
    <2>1. CASE m = 0
      BY <2>1, OnesCountIs
    <2>2. CASE m # 0
      <3>1. 2 * m \in Nat /\ 2 * m # 0
        BY <2>2
      <3>2. OnesCount(2 * m) = ((2 * m) % 2) + OnesCount((2 * m) \div 2)
        BY <3>1, OnesCountIs
      <3>3. OnesCount(2 * m) = 0 + OnesCount(m)
        BY <3>2, EvenOdd
      <3> QED BY <1>1, <3>3
    <2> QED BY <2>1, <2>2
  <1>3. OnesCount(2 * m + 1) = OnesCount(m) + 1
    <2>1. 2 * m + 1 \in Nat /\ 2 * m + 1 # 0
      OBVIOUS
    <2>2. OnesCount(2 * m + 1) = ((2 * m + 1) % 2) + OnesCount((2 * m + 1) \div 2)
      BY <2>1, OnesCountIs
    <2>3. OnesCount(2 * m + 1) = 1 + OnesCount(m)
      BY <2>2, EvenOdd
    <2> QED BY <1>1, <2>3
  <1> QED BY <1>1, <1>2, <1>3

\* A shift to the left adds no bits.
LEMMA OnesCountShift ==
    ASSUME NEW m \in Nat, NEW p \in Powers
    PROVE  OnesCount(m * p) = OnesCount(m)
  <1> DEFINE T == {k \in Powers : OnesCount(m * k) = OnesCount(m)}
  <1>1. 1 \in T
    BY PowersDouble
  <1>2. ASSUME NEW k \in T PROVE 2 * k \in T
    <2>1. k \in Nat /\ m * k \in Nat /\ m * (2 * k) = 2 * (m * k)
      BY PowersDouble
    <2>2. OnesCount(m * (2 * k)) = OnesCount(m * k)
      BY <2>1, OnesCountDouble
    <2> QED BY <2>2, PowersDouble
  <1>3. Doubling(T) /\ T \in SUBSET Nat
    BY <1>1, <1>2, PowersDouble DEF Doubling
  <1>4. p \in T
    <2> HIDE DEF T
    <2> QED BY <1>3, PowersDouble
  <1> QED BY <1>4

\* Only zero has no bits.
LEMMA OnesCountPositive ==
    ASSUME NEW n \in Nat, n > 0
    PROVE  OnesCount(n) > 0
  <1> DEFINE Bad == {k \in Nat : k > 0 /\ OnesCount(k) = 0}
  <1>1. SUFFICES ASSUME Bad # {} PROVE FALSE
    BY OnesCountIs
  <1>2. PICK k \in Bad : \A j \in Bad : k <= j
    <2>1. Bad \in SUBSET Nat
      OBVIOUS
    <2> HIDE DEF Bad
    <2> QED BY <1>1, <2>1, LeastNumber
  <1>3. k \in Nat /\ k > 0 /\ OnesCount(k) = 0
    OBVIOUS
  <1> DEFINE d == k \div 2
  <1>4. d \in Nat /\ (k = 2 * d \/ k = 2 * d + 1)
    BY <1>3, HalfIs
  <1> HIDE DEF d
  <1>5. CASE k = 2 * d
    <2>1. OnesCount(d) = 0 /\ d > 0 /\ d < k
      BY <1>3, <1>4, <1>5, OnesCountDouble
    <2> QED BY <1>2, <1>4, <2>1
  <1>6. CASE k = 2 * d + 1
    <2>1. OnesCount(k) = OnesCount(d) + 1 /\ OnesCount(d) \in Nat
      BY <1>4, <1>6, OnesCountDouble
    <2> QED BY <1>3, <2>1
  <1> QED BY <1>4, <1>5, <1>6

\* EvenPart is the lowest bit of a number.
LEMMA EvenPartOf ==
    ASSUME NEW q \in Nat, NEW p \in Powers
    PROVE  EvenPart((2 * q + 1) * p) = p
  <1> DEFINE o == 2 * q + 1
             T == {k \in Powers : EvenPart(o * k) = k}
  <1>0. o \in Nat /\ o % 2 = 1 /\ o > 0
    BY EvenOdd
  <1>1. 1 \in T
    <2>1. o * 1 = o
      BY <1>0
    <2>2. EvenPart(o) = 1
      BY <1>0, EvenPartIs
    <2> QED BY <2>1, <2>2, PowersDouble
  <1> HIDE DEF o
  <1>2. ASSUME NEW k \in T PROVE 2 * k \in T
    <2> DEFINE m == o * k
    <2>1. k \in Nat /\ k >= 1 /\ m \in Nat /\ o * (2 * k) = 2 * m /\ m > 0
      BY <1>0, PowerIs
    <2>2. EvenPart(m) = k
      OBVIOUS
    <2> HIDE DEF m
    <2>3. 2 * m \in Nat /\ 2 * m # 0 /\ (2 * m) % 2 = 0 /\ (2 * m) \div 2 = m
      BY <2>1, EvenOdd
    <2>4. EvenPart(2 * m) = 2 * EvenPart(m)
      BY <2>3, EvenPartIs
    <2>5. EvenPart(o * (2 * k)) = 2 * k
      BY <2>1, <2>2, <2>4
    <2> QED BY <2>5, PowersDouble
  <1>3. Doubling(T) /\ T \in SUBSET Nat
    BY <1>1, <1>2, PowersDouble DEF Doubling
  <1>4. p \in T
    <2> HIDE DEF T
    <2> QED BY <1>3, PowersDouble
  <1> QED BY <1>4 DEF o

\* OddPart of the number before it is the lowest bit of a number.
LEMMA OddPartOf ==
    ASSUME NEW q \in Nat, NEW p \in Powers
    PROVE  OddPart((2 * q + 1) * p - 1) = p
  <1> DEFINE o == 2 * q + 1
             T == {k \in Powers : OddPart(o * k - 1) = k}
  <1>0. o \in Nat /\ o > 0
    OBVIOUS
  <1>1. 1 \in T
    <2>1. o * 1 - 1 = 2 * q /\ 2 * q \in Nat /\ (2 * q) % 2 = 0
      BY EvenOdd
    <2>2. OddPart(2 * q) = 1
      BY <2>1, OddPartIs
    <2> QED BY <2>1, <2>2, PowersDouble
  <1> HIDE DEF o
  <1>2. ASSUME NEW k \in T PROVE 2 * k \in T
    <2> DEFINE m == o * k - 1
    <2>1. k \in Nat /\ k >= 1
      BY PowerIs
    <2>2. o * k \in Nat /\ o * k >= 1 /\ o * (2 * k) = 2 * (o * k)
      BY <1>0, <2>1
    <2>3. m \in Nat /\ o * (2 * k) - 1 = 2 * m + 1
      BY <2>2
    <2>4. OddPart(m) = k
      OBVIOUS
    <2> HIDE DEF m
    <2>5. 2 * m + 1 \in Nat /\ (2 * m + 1) % 2 = 1 /\ (2 * m + 1) \div 2 = m
      BY <2>3, EvenOdd
    <2>6. OddPart(2 * m + 1) = 2 * OddPart(m)
      BY <2>5, OddPartIs
    <2>7. OddPart(o * (2 * k) - 1) = 2 * k
      BY <2>3, <2>4, <2>6
    <2> QED BY <2>7, PowersDouble
  <1>3. Doubling(T) /\ T \in SUBSET Nat
    BY <1>1, <1>2, PowersDouble DEF Doubling
  <1>4. p \in T
    <2> HIDE DEF T
    <2> QED BY <1>3, PowersDouble
  <1> QED BY <1>4 DEF o

(***************************************************************************)
(* Heads of slices.                                                        *)
(***************************************************************************)

\* Where a slice is split.
Split(lo, hi) == splitPoint(hi - lo + 1)

\* The parts of a slice of at least two leaves.
LEMMA SplitIn ==
    ASSUME NEW lo \in Nat, NEW hi \in Nat, lo < hi
    PROVE  /\ Split(lo, hi) \in Powers /\ Split(lo, hi) \in Nat
           /\ Split(lo, hi) >= 1
           /\ Split(lo, hi) < hi - lo + 1 /\ hi - lo + 1 <= 2 * Split(lo, hi)
           /\ lo + Split(lo, hi) \in Nat /\ lo + Split(lo, hi) - 1 \in Nat
           /\ lo <= lo + Split(lo, hi) - 1 /\ lo + Split(lo, hi) - 1 < hi
           /\ lo < lo + Split(lo, hi) /\ lo + Split(lo, hi) <= hi
  <1>1. hi - lo + 1 \in Nat /\ hi - lo + 1 >= 2
    OBVIOUS
  <1>2. /\ Split(lo, hi) \in Powers
        /\ Split(lo, hi) < hi - lo + 1 /\ hi - lo + 1 <= 2 * Split(lo, hi)
    BY <1>1, SplitPower DEF Split
  <1>3. Split(lo, hi) \in Nat /\ Split(lo, hi) >= 1
    BY <1>2, PowerIs
  <1> QED BY <1>2, <1>3

\* The slices of at most n + 1 leaves.
Short(leaves, n) == {s \in Slices(leaves) : s[2] - s[1] <= n}

\* Slices by their ends.
LEMMA ShortIs ==
    ASSUME NEW leaves, Len(leaves) \in Nat, NEW n \in Nat,
           NEW lo \in Nat, NEW hi \in Nat
    PROVE  /\ <<lo, hi>> \in Slices(leaves)
                <=> 1 <= lo /\ lo <= hi /\ hi <= Len(leaves)
           /\ <<lo, hi>> \in Short(leaves, n)
                <=> 1 <= lo /\ lo <= hi /\ hi <= Len(leaves) /\ hi - lo <= n
  BY DEF Short, Slices

\* The ends of a slice.
LEMMA SliceIs ==
    ASSUME NEW leaves, Len(leaves) \in Nat, NEW s \in Slices(leaves)
    PROVE  /\ s = <<s[1], s[2]>> /\ s[1] \in Nat /\ s[2] \in Nat
           /\ 1 <= s[1] /\ s[1] <= s[2] /\ s[2] <= Len(leaves)
  BY DEF Slices

\* The step of the recursion of RootOf.
RootAt(f, leaves, s) ==
    IF s[1] = s[2] THEN leaves[s[1]]
    ELSE hashNode(f[<<s[1], s[1] + Split(s[1], s[2]) - 1>>],
                  f[<<s[1] + Split(s[1], s[2]), s[2]>>])

\* The recursion of RootOf defines a function: it descends to shorter slices.
LEMMA RootsExist ==
    ASSUME NEW leaves, Len(leaves) \in Nat
    PROVE  \E f : f = [s \in Slices(leaves) |-> RootAt(f, leaves, s)]
  <1> DEFINE Is(f, n) == f = [s \in Short(leaves, n) |-> RootAt(f, leaves, s)]
             T == {n \in Nat : \E f : Is(f, n)}
             N == Len(leaves)
  <1>1. 0 \in T
    <2> DEFINE f == [s \in Short(leaves, 0) |-> leaves[s[1]]]
    <2>1. \A s \in Short(leaves, 0) : s[1] = s[2]
      BY SliceIs DEF Short
    <2>2. \A s \in Short(leaves, 0) : RootAt(f, leaves, s) = leaves[s[1]]
      BY <2>1 DEF RootAt
    <2>3. Is(f, 0)
      BY <2>2
    <2> HIDE DEF f
    <2> QED BY <2>3
  <1>2. ASSUME NEW n \in 0 .. N - 1, n \in T PROVE n + 1 \in T
    <2>0. n \in Nat /\ n + 1 \in Nat
      OBVIOUS
    <2>1. PICK f : Is(f, n)
      BY <1>2
    <2> DEFINE g == [s \in Short(leaves, n + 1) |->
                       IF s \in Short(leaves, n) THEN f[s]
                       ELSE RootAt(f, leaves, s)]
    <2>2. \A s \in Short(leaves, n) : s \in Short(leaves, n + 1) /\ g[s] = f[s]
      BY <2>0, SliceIs DEF Short
    <2>3. \A s \in Short(leaves, n + 1) : g[s] = RootAt(f, leaves, s)
      BY <2>1
    <2>4. g = [s \in Short(leaves, n + 1) |-> g[s]]
      OBVIOUS
    <2> HIDE DEF g
    <2>5. ASSUME NEW s \in Short(leaves, n + 1)
          PROVE  RootAt(f, leaves, s) = RootAt(g, leaves, s)
      <3>1. PICK lo, hi : /\ lo = s[1] /\ hi = s[2] /\ lo \in Nat /\ hi \in Nat
                          /\ 1 <= lo /\ lo <= hi /\ hi <= N /\ hi - lo <= n + 1
        BY SliceIs DEF Short
      <3>2. CASE lo = hi
        BY <3>1, <3>2 DEF RootAt
      <3>3. CASE lo # hi
        <4>1. lo < hi
          BY <3>1, <3>3
        <4> DEFINE p == Split(lo, hi)
        <4>2. /\ lo + p - 1 \in Nat /\ lo + p \in Nat
              /\ lo <= lo + p - 1 /\ lo + p - 1 < hi
              /\ lo < lo + p /\ lo + p <= hi
          BY <3>1, <4>1, SplitIn
        <4> HIDE DEF p
        <4>3. /\ <<lo, lo + p - 1>> \in Short(leaves, n)
              /\ <<lo + p, hi>> \in Short(leaves, n)
          <5> DEFINE k == lo + p - 1
                     m == lo + p
          <5>a. /\ k \in Nat /\ m \in Nat /\ lo <= k /\ k < hi
                /\ lo < m /\ m <= hi
            BY <4>2
          <5>b. lo \in Nat /\ hi \in Nat /\ 1 <= lo /\ hi <= N /\ N \in Nat
                /\ hi - lo <= n + 1
            BY <3>1
          <5> HIDE DEF k, m, N
          <5>c. 1 <= m /\ k <= N
            BY <5>a, <5>b
          <5>d. k - lo <= n /\ hi - m <= n
            BY <2>0, <5>a, <5>b
          <5>1. /\ k \in Nat /\ m \in Nat /\ 1 <= m /\ lo <= k
                /\ k <= Len(leaves) /\ m <= hi /\ hi <= Len(leaves)
                /\ k - lo <= n /\ hi - m <= n
            BY <5>a, <5>b, <5>c, <5>d DEF N
          <5>2. <<lo, k>> \in Short(leaves, n)
            BY <2>0, <3>1, <5>1, ShortIs
          <5>3. <<m, hi>> \in Short(leaves, n)
            BY <2>0, <3>1, <5>1, ShortIs
          <5> QED BY <5>2, <5>3 DEF k, m
        <4>4. /\ g[<<lo, lo + p - 1>>] = f[<<lo, lo + p - 1>>]
              /\ g[<<lo + p, hi>>] = f[<<lo + p, hi>>]
          BY <2>2, <4>3
        <4> QED BY <3>1, <4>4 DEF RootAt, p
      <3> QED BY <3>2, <3>3
    <2>6. Is(g, n + 1)
      BY <2>3, <2>4, <2>5
    <2> QED BY <2>0, <2>6
  <1>3. N \in T
    <2>1. N \in Nat
      OBVIOUS
    <2> HIDE DEF T, N
    <2>2. \A n \in 0 .. N : n \in T
      BY <1>1, <1>2, <2>1, Induction
    <2> QED BY <2>1, <2>2
  <1>4. PICK f : Is(f, N)
    BY <1>3
  <1>5. Short(leaves, N) = Slices(leaves)
    BY SliceIs DEF Short
  <1> QED BY <1>4, <1>5

\* The recursion of RootOf, as an equation.
LEMMA RootIs ==
    ASSUME NEW leaves, Len(leaves) \in Nat, NEW lo \in Nat, NEW hi \in Nat,
           1 <= lo, lo <= hi, hi <= Len(leaves)
    PROVE  RootOf(leaves, lo, hi) =
              IF lo = hi THEN leaves[lo]
              ELSE hashNode(RootOf(leaves, lo, lo + Split(lo, hi) - 1),
                            RootOf(leaves, lo + Split(lo, hi), hi))
  <1> DEFINE Is(f) == f = [s \in Slices(leaves) |-> RootAt(f, leaves, s)]
             root == CHOOSE f : Is(f)
  <1>1. Is(root)
    <2>1. \E f : Is(f)
      BY RootsExist
    <2> HIDE DEF Is
    <2> QED BY <2>1
  <1>2. \A a, b : RootOf(leaves, a, b) = IF a > b THEN EmptyRoot ELSE root[<<a, b>>]
    BY DEF RootOf, RootAt, Split
  <1> HIDE DEF root
  <1>3. <<lo, hi>> \in Slices(leaves)
    <2>1. PICK n \in Nat : n = 0
      OBVIOUS
    <2> QED BY <2>1, ShortIs
  <1>4. root[<<lo, hi>>] = RootAt(root, leaves, <<lo, hi>>)
    BY <1>1, <1>3
  <1>5. RootOf(leaves, lo, hi) = root[<<lo, hi>>]
    BY <1>2
  <1>6. CASE lo = hi
    BY <1>4, <1>5, <1>6 DEF RootAt
  <1>7. CASE lo # hi
    <2> DEFINE p == Split(lo, hi)
    <2>0. lo < hi
      BY <1>7
    <2>1. /\ lo + p - 1 \in Nat /\ lo + p \in Nat
          /\ lo <= lo + p - 1 /\ lo + p <= hi
      BY <2>0, SplitIn
    <2>2. root[<<lo, hi>>] = hashNode(root[<<lo, lo + p - 1>>],
                                      root[<<lo + p, hi>>])
      BY <1>4, <1>7 DEF RootAt
    <2> HIDE DEF p
    <2>3. /\ RootOf(leaves, lo, lo + p - 1) = root[<<lo, lo + p - 1>>]
          /\ RootOf(leaves, lo + p, hi) = root[<<lo + p, hi>>]
      BY <1>2, <2>1
    <2> QED BY <1>5, <1>7, <2>2, <2>3 DEF p
  <1> QED BY <1>6, <1>7

\* The head of a slice does not depend on other leaves.
LEMMA RootLocal ==
    ASSUME NEW few, NEW many, Len(few) \in Nat, Len(many) \in Nat,
           Len(few) <= Len(many), \A i \in 1 .. Len(few) : few[i] = many[i]
    PROVE  \A lo, hi \in Nat : 1 <= lo /\ lo <= hi /\ hi <= Len(few)
              => RootOf(few, lo, hi) = RootOf(many, lo, hi)
  <1> DEFINE Same(lo, hi) == RootOf(few, lo, hi) = RootOf(many, lo, hi)
             Bad == {n \in Nat : \E lo, hi \in Nat :
                       /\ 1 <= lo /\ lo <= hi /\ hi <= Len(few)
                       /\ n = hi - lo /\ ~Same(lo, hi)}
  <1>1. SUFFICES ASSUME Bad # {} PROVE FALSE
    <2> SUFFICES ASSUME NEW lo \in Nat, NEW hi \in Nat,
                        1 <= lo, lo <= hi, hi <= Len(few), ~Same(lo, hi)
                 PROVE  Bad # {}
      OBVIOUS
    <2>1. hi - lo \in Bad
      <3> HIDE DEF Same
      <3>1. hi - lo \in Nat
        OBVIOUS
      <3> QED BY <3>1
    <2> QED BY <2>1
  <1>2. PICK n \in Bad : \A j \in Bad : n <= j
    <2>1. Bad \in SUBSET Nat
      OBVIOUS
    <2> HIDE DEF Bad
    <2> QED BY <1>1, <2>1, LeastNumber
  <1>3. PICK lo \in Nat, hi \in Nat :
           /\ 1 <= lo /\ lo <= hi /\ hi <= Len(few)
           /\ n = hi - lo /\ ~Same(lo, hi)
    OBVIOUS
  <1>4. ASSUME NEW a \in Nat, NEW b \in Nat,
               1 <= a, a <= b, b <= Len(few), b - a < n
        PROVE  Same(a, b)
    <2> HIDE DEF Same
    <2>1. b - a \in Nat
      BY <1>4
    <2>2. b - a \notin Bad
      <3> HIDE DEF Bad
      <3>1. n \in Nat /\ ~(n <= b - a)
        BY <1>3, <1>4, <2>1
      <3> QED BY <1>2, <3>1
    <2> QED BY <1>4, <2>1, <2>2
  <1> HIDE DEF Bad
  <1>5. hi <= Len(many)
    BY <1>3
  <1>6. CASE lo = hi
    <2>1. RootOf(few, lo, hi) = few[lo] /\ RootOf(many, lo, hi) = many[lo]
      BY <1>3, <1>5, <1>6, RootIs
    <2>2. few[lo] = many[lo]
      BY <1>3, <1>6
    <2> QED BY <1>3, <2>1, <2>2
  <1>7. CASE lo # hi
    <2> DEFINE p == Split(lo, hi)
    <2>1. /\ lo + p - 1 \in Nat /\ lo + p \in Nat /\ p >= 1 /\ p \in Nat
          /\ lo <= lo + p - 1 /\ lo + p - 1 < hi /\ lo + p <= hi
      BY <1>3, <1>7, SplitIn
    <2>2. /\ RootOf(few, lo, hi) = hashNode(RootOf(few, lo, lo + p - 1),
                                            RootOf(few, lo + p, hi))
          /\ RootOf(many, lo, hi) = hashNode(RootOf(many, lo, lo + p - 1),
                                             RootOf(many, lo + p, hi))
      BY <1>3, <1>5, <1>7, RootIs
    <2> HIDE DEF p, Same
    <2>3. Same(lo, lo + p - 1) /\ Same(lo + p, hi)
      BY <1>3, <1>4, <2>1
    <2> QED BY <1>3, <2>2, <2>3 DEF Same
  <1> QED BY <1>6, <1>7

(***************************************************************************)
(* The numbers of the verifiers.                                           *)
(***************************************************************************)

\* A quotient is known by its remainder.
LEMMA DivIs ==
    ASSUME NEW a \in Nat, NEW b \in Nat, b > 0, NEW q \in Nat, NEW r \in Nat,
           a = b * q + r, r < b
    PROVE  a \div b = q
  OBVIOUS

\* Slices of a tree of N leaves: a complete subtree, or one at the right edge.
Aligned(lo, hi, N) ==
    \E p \in Powers, q \in Nat :
        /\ q * p = lo - 1
        /\ \/ hi < N /\ hi = lo - 1 + p
           \/ hi = N /\ hi - lo + 1 <= p

\* Both parts of an aligned slice are aligned, and the slice begins at a
\* multiple of twice its split.
LEMMA PartsAligned ==
    ASSUME NEW lo \in Nat, NEW hi \in Nat, NEW N \in Nat, 1 <= lo, lo < hi,
           hi <= N, Aligned(lo, hi, N)
    PROVE  /\ Aligned(lo, lo + Split(lo, hi) - 1, N)
           /\ Aligned(lo + Split(lo, hi), hi, N)
           /\ \E q \in Nat : lo - 1 = q * (2 * Split(lo, hi))
           /\ hi < N => hi = lo - 1 + 2 * Split(lo, hi)
  <1> DEFINE s == Split(lo, hi)
  <1>0. /\ s \in Powers /\ s \in Nat /\ s >= 1
        /\ s < hi - lo + 1 /\ hi - lo + 1 <= 2 * s
    BY SplitIn
  <1> HIDE DEF s
  <1>1. PICK p \in Powers, q \in Nat :
           /\ q * p = lo - 1
           /\ \/ hi < N /\ hi = lo - 1 + p
              \/ hi = N /\ hi - lo + 1 <= p
    BY DEF Aligned
  <1>2. p \in Nat /\ s < p
    BY <1>0, <1>1, PowersDouble
  <1>3. PICK c \in Powers : p = c * (2 * s)
    BY <1>0, <1>2, PowerAbove
  <1>4. c \in Nat /\ c >= 1
    BY PowerIs
  <1> DEFINE k == q * c
  <1>5. k \in Nat /\ lo - 1 = k * (2 * s)
    BY <1>0, <1>1, <1>3, <1>4
  <1> HIDE DEF k
  <1>6. hi < N => hi = lo - 1 + 2 * s
    <2> SUFFICES ASSUME hi < N PROVE hi = lo - 1 + 2 * s
      OBVIOUS
    <2>1. hi = lo - 1 + p
      BY <1>1
    <2>2. p <= 2 * s
      BY <1>0, <1>2, <2>1
    <2>3. p >= 2 * s
      BY <1>0, <1>3, <1>4
    <2> QED BY <1>0, <1>2, <2>1, <2>2, <2>3
  <1>7. Aligned(lo, lo + s - 1, N)
    <2>1. (2 * k) * s = lo - 1 /\ 2 * k \in Nat
      BY <1>0, <1>5
    <2>2. lo + s - 1 < N /\ lo + s - 1 = lo - 1 + s
      BY <1>0
    <2> QED BY <1>0, <2>1, <2>2 DEF Aligned
  <1>8. Aligned(lo + s, hi, N)
    <2>1. (2 * k + 1) * s = (lo + s) - 1 /\ 2 * k + 1 \in Nat
      BY <1>0, <1>5
    <2>2. \/ hi < N /\ hi = (lo + s) - 1 + s
          \/ hi = N /\ hi - (lo + s) + 1 <= s
      BY <1>0, <1>6
    <2> QED BY <1>0, <2>1, <2>2 DEF Aligned
  <1> QED BY <1>5, <1>6, <1>7, <1>8 DEF s

\* Where the verifier stands once it has rebuilt the head of the slice: node
\* numbers the slice among those of its size, and last does the last leaf.  At
\* the right edge they are equal, possibly at a smaller size.
Stands(lo, hi, N, node, last) ==
    \/ /\ hi < N
       /\ \E p \in Powers : /\ node * p = lo - 1 /\ hi = lo - 1 + p
                            /\ last * p <= N - 1 /\ N - 1 < last * p + p
    \/ /\ hi = N /\ node = last
       /\ \E e \in Powers : node * e = lo - 1 /\ e < 2 * (hi - lo + 1)

\* A factor cancels in an equation.
LEMMA Cancel ==
    ASSUME NEW a \in Nat, NEW b \in Nat, NEW p \in Nat, p >= 1, a * p = b * p
    PROVE  a = b
  <1>1. (a - b) * p = 0
    OBVIOUS
  <1> QED BY <1>1

\* A factor cancels in an inequation.
LEMMA CancelLess ==
    ASSUME NEW a \in Nat, NEW b \in Nat, NEW p \in Nat, p >= 1, a * p < b * p
    PROVE  a < b
  <1>1. SUFFICES ASSUME b <= a PROVE FALSE
    OBVIOUS
  <1>2. PICK d \in Nat : a = b + d
    <2>1. a - b \in Nat /\ a = b + (a - b)
      BY <1>1
    <2> QED BY <2>1
  <1>3. a * p = b * p + d * p /\ d * p \in Nat /\ b * p \in Nat
    BY <1>2
  <1> QED BY <1>3

\* Half of the number of a slice numbers the slice of twice the size.
LEMMA LastHalves ==
    ASSUME NEW d \in Nat, NEW s \in Nat, s >= 1, NEW M \in Nat,
           d * s <= M, M < d * s + s
    PROVE  /\ d \div 2 \in Nat
           /\ (d \div 2) * (2 * s) <= M /\ M < (d \div 2) * (2 * s) + 2 * s
  <1> DEFINE e == d \div 2
  <1>1. e \in Nat /\ (d = 2 * e \/ d = 2 * e + 1)
    BY HalfIs
  <1> HIDE DEF e
  <1>2. e * (2 * s) = (2 * e) * s /\ (2 * e + 1) * s = (2 * e) * s + s
        /\ (2 * e) * s \in Nat
    BY <1>1
  <1>3. e * (2 * s) <= M /\ M < e * (2 * s) + 2 * s
    <2>1. CASE d = 2 * e
      BY <1>2, <2>1
    <2>2. CASE d = 2 * e + 1
      BY <1>2, <2>2
    <2> QED BY <1>1, <2>1, <2>2
  <1> QED BY <1>1, <1>3 DEF e

\* From the left part: the verifier takes the right part as the right sibling.
LEMMA ClimbLeft ==
    ASSUME NEW lo \in Nat, NEW hi \in Nat, NEW N \in Nat, 1 <= lo, lo < hi,
           hi <= N, Aligned(lo, hi, N), NEW n \in Nat, NEW d \in Nat,
           Stands(lo, lo + Split(lo, hi) - 1, N, n, d)
    PROVE  /\ d # 0 /\ n % 2 # 1 /\ n # d
           /\ n \div 2 \in Nat /\ d \div 2 \in Nat
           /\ Stands(lo, hi, N, n \div 2, d \div 2)
  <1> DEFINE s == Split(lo, hi)
  <1>0. /\ s \in Powers /\ s \in Nat /\ s >= 1
        /\ s < hi - lo + 1 /\ hi - lo + 1 <= 2 * s
    BY SplitIn
  <1>1. PICK q \in Nat : lo - 1 = q * (2 * s)
    BY PartsAligned
  <1>2. hi < N => hi = lo - 1 + 2 * s
    BY PartsAligned
  <1>3. Stands(lo, lo + s - 1, N, n, d)
    OBVIOUS
  <1>4. 2 * s \in Powers /\ 2 * s \in Nat
    BY <1>0, PowersDouble
  <1> HIDE DEF s
  <1>5. PICK p \in Powers : /\ n * p = lo - 1 /\ lo + s - 1 = lo - 1 + p
                            /\ d * p <= N - 1 /\ N - 1 < d * p + p
    BY <1>0, <1>3 DEF Stands
  <1>6. p = s
    BY <1>0, <1>5, PowersDouble
  <1>7. n = 2 * q
    <2>1. n * s = (2 * q) * s /\ 2 * q \in Nat
      BY <1>0, <1>1, <1>5, <1>6
    <2> QED BY <1>0, <2>1, Cancel
  <1>8. n % 2 # 1 /\ n \div 2 = q
    BY <1>7, EvenOdd
  <1>9. N - 1 \in Nat /\ d * s <= N - 1 /\ N - 1 < d * s + s
    BY <1>5, <1>6
  <1>10. /\ d \div 2 \in Nat /\ (d \div 2) * (2 * s) <= N - 1
         /\ N - 1 < (d \div 2) * (2 * s) + 2 * s
    BY <1>0, <1>9, LastHalves
  <1>11. n < d
    <2>1. n * s + s <= N - 1 /\ n * s \in Nat
      BY <1>0, <1>5, <1>6
    <2>2. n * s < d * s
      <3>1. d * s \in Nat
        BY <1>0
      <3> QED BY <1>0, <1>9, <2>1, <3>1
    <2> QED BY <1>0, <2>2, CancelLess
  <1>12. Stands(lo, hi, N, q, d \div 2)
    <2>1. CASE hi < N
      BY <1>1, <1>2, <1>4, <1>10, <2>1 DEF Stands
    <2>2. CASE hi = N
      <3> DEFINE e == d \div 2
      <3>1. e \in Nat /\ e * (2 * s) <= N - 1 /\ N - 1 < e * (2 * s) + 2 * s
        BY <1>10
      <3> HIDE DEF e
      <3>2. q * (2 * s) <= N - 1 /\ N - 1 < q * (2 * s) + 2 * s
        BY <1>0, <1>1, <2>2
      <3>3. (q + 1) * (2 * s) = q * (2 * s) + 2 * s /\ q * (2 * s) \in Nat
            /\ (e + 1) * (2 * s) = e * (2 * s) + 2 * s /\ e * (2 * s) \in Nat
        BY <1>4, <3>1
      <3>4. q * (2 * s) < (e + 1) * (2 * s) /\ e * (2 * s) < (q + 1) * (2 * s)
        BY <1>4, <3>1, <3>2, <3>3
      <3>5. q < e + 1 /\ e < q + 1
        <4>1. 2 * s >= 1 /\ q + 1 \in Nat /\ e + 1 \in Nat
          BY <1>0, <3>1
        <4> DEFINE t == 2 * s
        <4>2. t \in Nat /\ t >= 1 /\ q * t < (e + 1) * t /\ e * t < (q + 1) * t
          BY <1>4, <3>4, <4>1
        <4> HIDE DEF t
        <4> QED BY <3>1, <4>1, <4>2, CancelLess
      <3>6. e = q
        BY <3>1, <3>5
      <3>7. 2 * s < 2 * (hi - lo + 1)
        BY <1>0
      <3>8. Stands(lo, hi, N, q, e)
        BY <1>1, <1>4, <2>2, <3>6, <3>7 DEF Stands
      <3> QED BY <3>8 DEF e
    <2> QED BY <2>1, <2>2
  <1> QED BY <1>8, <1>10, <1>11, <1>12

\* From the right part: it takes the left part as the left sibling, and leaves
\* the sizes at which there is none.
LEMMA ClimbRight ==
    ASSUME NEW lo \in Nat, NEW hi \in Nat, NEW N \in Nat, 1 <= lo, lo < hi,
           hi <= N, Aligned(lo, hi, N), NEW n \in Nat, NEW d \in Nat,
           Stands(lo + Split(lo, hi), hi, N, n, d)
    PROVE  /\ d # 0 /\ (n % 2 = 1 \/ n = d)
           /\ n \div (2 * EvenPart(n)) \in Nat /\ d \div (2 * EvenPart(n)) \in Nat
           /\ Stands(lo, hi, N, n \div (2 * EvenPart(n)),
                     d \div (2 * EvenPart(n)))
  <1> DEFINE s == Split(lo, hi)
  <1>0. /\ s \in Powers /\ s \in Nat /\ s >= 1
        /\ s < hi - lo + 1 /\ hi - lo + 1 <= 2 * s
    BY SplitIn
  <1>1. PICK q \in Nat : lo - 1 = q * (2 * s)
    BY PartsAligned
  <1>2. hi < N => hi = lo - 1 + 2 * s
    BY PartsAligned
  <1>3. Stands(lo + s, hi, N, n, d)
    OBVIOUS
  <1>4. 2 * s \in Powers /\ 2 * s \in Nat
    BY <1>0, PowersDouble
  <1> HIDE DEF s
  <1>5. (2 * q + 1) * s = (lo + s) - 1 /\ 2 * q + 1 \in Nat
    BY <1>0, <1>1
  <1>6. CASE hi < N
    <2>1. PICK p \in Powers : /\ n * p = (lo + s) - 1 /\ hi = (lo + s) - 1 + p
                              /\ d * p <= N - 1 /\ N - 1 < d * p + p
      BY <1>3, <1>6 DEF Stands
    <2>2. p = s
      BY <1>0, <1>2, <1>6, <2>1, PowersDouble
    <2>3. n = 2 * q + 1
      BY <1>0, <1>5, <2>1, <2>2, Cancel
    <2>4. n % 2 = 1 /\ n \div 2 = q
      BY <2>3, EvenOdd
    <2>5. EvenPart(n) = 1
      BY <2>4, EvenPartIs
    <2>6. N - 1 \in Nat /\ d * s <= N - 1 /\ N - 1 < d * s + s
      BY <2>1, <2>2
    <2>7. /\ d \div 2 \in Nat /\ (d \div 2) * (2 * s) <= N - 1
          /\ N - 1 < (d \div 2) * (2 * s) + 2 * s
      BY <1>0, <2>6, LastHalves
    <2>8. d # 0
      <3>1. ASSUME d = 0 PROVE FALSE
        <4>1. N - 1 < s
          BY <1>0, <2>6, <3>1
        <4> QED BY <1>0, <1>6, <4>1
      <3> QED BY <3>1
    <2>9. Stands(lo, hi, N, q, d \div 2)
      BY <1>1, <1>2, <1>4, <1>6, <2>7 DEF Stands
    <2>10. 2 * EvenPart(n) = 2
      BY <2>5
    <2> QED BY <2>4, <2>7, <2>8, <2>9, <2>10
  <1>7. CASE hi = N
    <2>1. n = d /\ \E e \in Powers : n * e = (lo + s) - 1 /\ e < 2 * (hi - (lo + s) + 1)
      BY <1>3, <1>7 DEF Stands
    <2>2. PICK e \in Powers : n * e = (lo + s) - 1 /\ e < 2 * (hi - (lo + s) + 1)
      BY <2>1
    <2>3. e \in Nat /\ e >= 1
      BY PowerIs
    <2>4. e <= s
      <3>1. SUFFICES ASSUME s < e PROVE FALSE
        BY <1>0, <2>3
      <3>2. PICK c \in Powers : e = c * (2 * s)
        BY <1>0, <3>1, PowerAbove
      <3>3. c \in Nat /\ c >= 1
        BY PowerIs
      <3>4. e >= 2 * s
        BY <1>0, <3>2, <3>3
      <3> QED BY <1>0, <2>2, <2>3, <3>4
    <2>5. PICK c \in Powers : s = c * e
      BY <1>0, <2>4, PowerDivides
    <2>6. c \in Nat /\ c >= 1
      BY PowerIs
    <2>7. n = (2 * q + 1) * c
      <3>1. n * e = ((2 * q + 1) * c) * e /\ (2 * q + 1) * c \in Nat
        BY <1>5, <2>2, <2>3, <2>5, <2>6
      <3> QED BY <2>3, <3>1, Cancel
    <2>8. EvenPart(n) = c
      BY <2>7, EvenPartOf
    <2>9. n \div (2 * c) = q
      <3>1. n = (2 * c) * q + c /\ c < 2 * c /\ 2 * c \in Nat /\ 2 * c > 0
        BY <2>6, <2>7
      <3> QED BY <2>6, <3>1, DivIs
    <2>10. n # 0
      <3>1. (2 * c) * q \in Nat /\ n = (2 * c) * q + c
        BY <2>6, <2>7
      <3> QED BY <2>6, <3>1
    <2>11. 2 * s < 2 * (hi - lo + 1)
      BY <1>0
    <2>12. Stands(lo, hi, N, q, q)
      BY <1>1, <1>4, <1>7, <2>11 DEF Stands
    <2> QED BY <2>1, <2>8, <2>9, <2>10, <2>12
  <1> QED BY <1>6, <1>7

(***************************************************************************)
(* The loop of the verifiers.                                              *)
(***************************************************************************)

\* The state of the verifier after each sibling of the path.
Climbs(f, w, path) ==
    f = [k \in 0 .. Len(path) |->
            IF k = 0 THEN w ELSE Climb(f[k - 1], path[k])]

\* One more sibling is one more round.
LEMMA ClimbsAppend ==
    ASSUME NEW H, NEW path \in Seq(H), NEW x \in H, NEW w, NEW f,
           Climbs(f, w, path)
    PROVE  \E g : /\ Climbs(g, w, Append(path, x))
                  /\ g[Len(path) + 1] = Climb(f[Len(path)], x)
  <1> DEFINE n == Len(path)
             more == Append(path, x)
             g == [k \in 0 .. n + 1 |-> IF k <= n THEN f[k] ELSE Climb(f[n], x)]
  <1>1. n \in Nat /\ Len(more) = n + 1
    OBVIOUS
  <1>2. more[n + 1] = x /\ \A k \in 1 .. n : more[k] = path[k]
    OBVIOUS
  <1>3. \A k \in 0 .. n : f[k] = IF k = 0 THEN w ELSE Climb(f[k - 1], path[k])
    BY DEF Climbs
  <1> HIDE DEF n, more
  <1>4. ASSUME NEW k \in 0 .. n + 1
        PROVE  g[k] = IF k = 0 THEN w ELSE Climb(g[k - 1], more[k])
    <2>1. CASE k = 0
      BY <1>1, <1>3, <2>1
    <2>2. CASE k \in 1 .. n
      <3>1. g[k] = f[k] /\ g[k - 1] = f[k - 1] /\ k \in 0 .. n /\ k # 0
        BY <1>1, <2>2
      <3> HIDE DEF g
      <3> QED BY <1>2, <1>3, <2>2, <3>1
    <2>3. CASE k = n + 1
      <3>1. g[k] = Climb(f[n], x) /\ g[k - 1] = f[n] /\ k # 0
        BY <1>1, <2>3
      <3> HIDE DEF g
      <3> QED BY <1>2, <2>3, <3>1
    <2> QED BY <1>1, <2>1, <2>2, <2>3
  <1>5. g = [k \in 0 .. n + 1 |-> g[k]]
    OBVIOUS
  <1>6. g[n + 1] = Climb(f[n], x)
    BY <1>1
  <1> HIDE DEF g
  <1>7. Climbs(g, w, more)
    BY <1>1, <1>4, <1>5 DEF Climbs
  <1> QED BY <1>6, <1>7 DEF n, more

\* The loop of the verifiers over a path defines a function.
LEMMA ClimbsExist ==
    ASSUME NEW H, NEW path \in Seq(H), NEW w
    PROVE  \E f : Climbs(f, w, path)
  <1> DEFINE T == {n \in Nat : \A p \in Seq(H) :
                      Len(p) = n => \E f : Climbs(f, w, p)}
             N == Len(path)
  <1>1. 0 \in T
    <2> SUFFICES ASSUME NEW p \in Seq(H), Len(p) = 0
                 PROVE  \E f : Climbs(f, w, p)
      OBVIOUS
    <2> DEFINE f == [k \in 0 .. 0 |-> w]
    <2>1. f = [k \in 0 .. 0 |-> IF k = 0 THEN w ELSE Climb(f[k - 1], p[k])]
      OBVIOUS
    <2> HIDE DEF f
    <2>2. Climbs(f, w, p)
      BY <2>1 DEF Climbs
    <2> QED BY <2>2
  <1>2. ASSUME NEW n \in 0 .. N - 1, n \in T PROVE n + 1 \in T
    <2> SUFFICES ASSUME NEW p \in Seq(H), Len(p) = n + 1
                 PROVE  \E f : Climbs(f, w, p)
      OBVIOUS
    <2> DEFINE r == SubSeq(p, 1, n)
               x == p[n + 1]
    <2>1. r \in Seq(H) /\ Len(r) = n /\ x \in H /\ p = Append(r, x)
      OBVIOUS
    <2> HIDE DEF r, x
    <2>2. PICK f : Climbs(f, w, r)
      BY <1>2, <2>1
    <2>3. PICK g : Climbs(g, w, Append(r, x))
      BY <2>1, <2>2, ClimbsAppend
    <2> QED BY <2>1, <2>3
  <1>3. N \in T
    <2>1. N \in Nat
      OBVIOUS
    <2> HIDE DEF T, N
    <2>2. \A n \in 0 .. N : n \in T
      BY <1>1, <1>2, <2>1, Induction
    <2> QED BY <2>1, <2>2
  <1> QED BY <1>3

\* Its values are determined by the path.
LEMMA ClimbsUnique ==
    ASSUME NEW H, NEW path \in Seq(H), NEW w, NEW f, NEW g,
           Climbs(f, w, path), Climbs(g, w, path)
    PROVE  \A k \in 0 .. Len(path) : f[k] = g[k]
  <1> DEFINE T == {k \in Nat : f[k] = g[k]}
             N == Len(path)
  <1>0. N \in Nat
    OBVIOUS
  <1>1. 0 \in T
    BY <1>0 DEF Climbs
  <1>2. ASSUME NEW n \in 0 .. N - 1, n \in T PROVE n + 1 \in T
    <2>1. n + 1 \in 0 .. N /\ n + 1 # 0 /\ (n + 1) - 1 = n
      BY <1>0
    <2>2. /\ f[n + 1] = Climb(f[n], path[n + 1])
          /\ g[n + 1] = Climb(g[n], path[n + 1])
      BY <2>1 DEF Climbs
    <2> QED BY <1>2, <2>1, <2>2
  <1>3. \A k \in 0 .. N : k \in T
    <2> HIDE DEF T, N
    <2> QED BY <1>0, <1>1, <1>2, Induction
  <1> QED BY <1>3

\* The recursion of Climbed, as equations.
LEMMA ClimbedIs ==
    ASSUME NEW H, NEW path \in Seq(H), NEW w
    PROVE  /\ path = <<>> => Climbed(w, path) = w
           /\ \A x \in H : Climbed(w, Append(path, x)) =
                              Climb(Climbed(w, path), x)
  <1>1. ASSUME NEW p \in Seq(H)
        PROVE  \E f : Climbs(f, w, p) /\ Climbed(w, p) = f[Len(p)]
    <2> DEFINE f == CHOOSE f : Climbs(f, w, p)
    <2>1. Climbs(f, w, p)
      BY ClimbsExist
    <2>2. Climbed(w, p) = f[Len(p)]
      BY DEF Climbed, Climbs
    <2> HIDE DEF f
    <2> QED BY <2>1, <2>2
  <1>2. PICK f : Climbs(f, w, path) /\ Climbed(w, path) = f[Len(path)]
    BY <1>1
  <1>3. path = <<>> => Climbed(w, path) = w
    <2> SUFFICES ASSUME path = <<>> PROVE Climbed(w, path) = w
      OBVIOUS
    <2>1. Len(path) = 0
      OBVIOUS
    <2> QED BY <1>2, <2>1 DEF Climbs
  <1>4. ASSUME NEW x \in H
        PROVE  Climbed(w, Append(path, x)) = Climb(Climbed(w, path), x)
    <2> DEFINE more == Append(path, x)
    <2>1. more \in Seq(H) /\ Len(more) = Len(path) + 1 /\ Len(path) \in Nat
      OBVIOUS
    <2>2. PICK g : /\ Climbs(g, w, more)
                   /\ g[Len(path) + 1] = Climb(f[Len(path)], x)
      BY <1>2, ClimbsAppend
    <2> HIDE DEF more
    <2>3. PICK h : Climbs(h, w, more) /\ Climbed(w, more) = h[Len(more)]
      BY <1>1, <2>1
    <2>4. \A k \in 0 .. Len(more) : g[k] = h[k]
      BY <2>1, <2>2, <2>3, ClimbsUnique
    <2>5. Climbed(w, more) = g[Len(path) + 1]
      BY <2>1, <2>3, <2>4
    <2> QED BY <1>2, <2>2, <2>5 DEF more
  <1> QED BY <1>3, <1>4

(***************************************************************************)
(* Rebuilding the heads.                                                   *)
(***************************************************************************)

\* The verifier has rebuilt the head of the slice, and that of its leaves up
\* to position t.
Rebuilt(w, leaves, t, lo, hi) ==
    \E node, last \in Nat :
        /\ Stands(lo, hi, Len(leaves), node, last)
        /\ w = [node |-> node, last |-> last, ok |-> TRUE,
                first |-> RootOf(leaves, lo, t),
                second |-> RootOf(leaves, lo, hi)]

\* From the left part of a slice, one round rebuilds the slice.
LEMMA RebuildsLeft ==
    ASSUME NEW leaves, Len(leaves) \in Nat, NEW lo \in Nat, NEW hi \in Nat,
           1 <= lo, lo < hi, hi <= Len(leaves), Aligned(lo, hi, Len(leaves)),
           NEW t \in Nat, lo <= t, t <= lo + Split(lo, hi) - 1, NEW w,
           Rebuilt(w, leaves, t, lo, lo + Split(lo, hi) - 1)
    PROVE  Rebuilt(Climb(w, RootOf(leaves, lo + Split(lo, hi), hi)),
                   leaves, t, lo, hi)
  <1> DEFINE s == Split(lo, hi)
             N == Len(leaves)
             x == RootOf(leaves, lo + s, hi)
  <1>1. PICK n \in Nat, d \in Nat :
           /\ Stands(lo, lo + s - 1, N, n, d)
           /\ w = [node |-> n, last |-> d, ok |-> TRUE,
                   first |-> RootOf(leaves, lo, t),
                   second |-> RootOf(leaves, lo, lo + s - 1)]
    BY DEF Rebuilt
  <1>2. /\ d # 0 /\ n % 2 # 1 /\ n # d
        /\ n \div 2 \in Nat /\ d \div 2 \in Nat
        /\ Stands(lo, hi, N, n \div 2, d \div 2)
    BY <1>1, ClimbLeft
  <1>3. RootOf(leaves, lo, hi) = hashNode(RootOf(leaves, lo, lo + s - 1), x)
    BY RootIs
  <1> HIDE DEF s, x, N
  <1>4. w.last = d /\ w.node = n /\ w.ok
    BY <1>1
  <1>5. Climb(w, x) = [w EXCEPT !.node = @ \div 2, !.last = @ \div 2,
                                !.second = hashNode(@, x)]
    BY <1>2, <1>4 DEF Climb
  <1>6. Climb(w, x) = [node |-> n \div 2, last |-> d \div 2, ok |-> TRUE,
                       first |-> RootOf(leaves, lo, t),
                       second |-> hashNode(RootOf(leaves, lo, lo + s - 1), x)]
    BY <1>1, <1>5
  <1>7. Rebuilt(Climb(w, x), leaves, t, lo, hi)
    BY <1>2, <1>3, <1>6 DEF Rebuilt, N
  <1> QED BY <1>7 DEF s, x

\* From the right part of a slice, one round rebuilds the slice.
LEMMA RebuildsRight ==
    ASSUME NEW leaves, Len(leaves) \in Nat, NEW lo \in Nat, NEW hi \in Nat,
           1 <= lo, lo < hi, hi <= Len(leaves), Aligned(lo, hi, Len(leaves)),
           NEW t \in Nat, lo + Split(lo, hi) <= t, t <= hi, NEW w,
           Rebuilt(w, leaves, t, lo + Split(lo, hi), hi)
    PROVE  Rebuilt(Climb(w, RootOf(leaves, lo, lo + Split(lo, hi) - 1)),
                   leaves, t, lo, hi)
  <1> DEFINE s == Split(lo, hi)
             N == Len(leaves)
             x == RootOf(leaves, lo, lo + s - 1)
  <1>0. /\ s \in Powers /\ s \in Nat /\ s >= 1
        /\ s < hi - lo + 1 /\ hi - lo + 1 <= 2 * s
    BY SplitIn
  <1>1. PICK n \in Nat, d \in Nat :
           /\ Stands(lo + s, hi, N, n, d)
           /\ w = [node |-> n, last |-> d, ok |-> TRUE,
                   first |-> RootOf(leaves, lo + s, t),
                   second |-> RootOf(leaves, lo + s, hi)]
    BY DEF Rebuilt
  <1> DEFINE up == 2 * EvenPart(n)
  <1>2. /\ d # 0 /\ (n % 2 = 1 \/ n = d)
        /\ n \div up \in Nat /\ d \div up \in Nat
        /\ Stands(lo, hi, N, n \div up, d \div up)
    BY <1>1, ClimbRight
  <1>3. RootOf(leaves, lo, hi) = hashNode(x, RootOf(leaves, lo + s, hi))
    BY RootIs
  <1>4. RootOf(leaves, lo, t) = hashNode(x, RootOf(leaves, lo + s, t))
    <2>1. Split(lo, t) = s
      <3>1. t - lo + 1 \in Nat /\ s < t - lo + 1 /\ t - lo + 1 <= 2 * s
        BY <1>0
      <3> HIDE DEF s
      <3> QED BY <1>0, <3>1, SplitUnique DEF Split
    <2>2. lo < t /\ t <= Len(leaves)
      BY <1>0
    <2>3. RootOf(leaves, lo, t) = hashNode(RootOf(leaves, lo, lo + Split(lo, t) - 1),
                                           RootOf(leaves, lo + Split(lo, t), t))
      BY <2>2, RootIs
    <2> QED BY <2>1, <2>3
  <1> HIDE DEF s, x, N
  <1>5. w.last = d /\ w.node = n /\ w.ok
    BY <1>1
  <1>6. Climb(w, x) = [w EXCEPT !.node = @ \div up, !.last = @ \div up,
                                !.first = hashNode(x, @),
                                !.second = hashNode(x, @)]
    BY <1>2, <1>5 DEF Climb
  <1> HIDE DEF up
  <1>7. Climb(w, x) = [node |-> n \div up, last |-> d \div up, ok |-> TRUE,
                       first |-> hashNode(x, RootOf(leaves, lo + s, t)),
                       second |-> hashNode(x, RootOf(leaves, lo + s, hi))]
    BY <1>1, <1>6
  <1>8. Rebuilt(Climb(w, x), leaves, t, lo, hi)
    BY <1>2, <1>3, <1>4, <1>7 DEF Rebuilt, N
  <1> QED BY <1>8 DEF s, x

\* The roots that a path can hold.
Heads(leaves) == {RootOf(leaves, s[1], s[2]) : s \in Slices(leaves)}

\* The root of a slice is a head.
LEMMA HeadIn ==
    ASSUME NEW leaves, Len(leaves) \in Nat, NEW lo \in Nat, NEW hi \in Nat,
           1 <= lo, lo <= hi, hi <= Len(leaves)
    PROVE  RootOf(leaves, lo, hi) \in Heads(leaves)
  <1> DEFINE s == <<lo, hi>>
  <1>1. PICK n \in Nat : n = 0
    OBVIOUS
  <1>2. s \in Slices(leaves)
    BY <1>1, ShortIs
  <1>3. s[1] = lo /\ s[2] = hi
    OBVIOUS
  <1> HIDE DEF s
  <1> QED BY <1>2, <1>3 DEF Heads

\* The siblings st[s] that lead from a slice where the recursion of a proof
\* about position t stops up to the slice s, for the slices s in R, which the
\* recursion does not leave.
LeadsUp(st, leaves, t, R, Stop) ==
    \A lo, hi \in Nat : <<lo, hi>> \in R =>
        /\ 1 <= lo /\ lo <= t /\ t <= hi /\ hi <= Len(leaves)
        /\ Aligned(lo, hi, Len(leaves))
        /\ <<lo, hi>> \in Stop => st[<<lo, hi>>] = <<>>
        /\ <<lo, hi>> \notin Stop =>
             /\ lo < hi
             /\ t <= lo - 1 + Split(lo, hi) =>
                  /\ <<lo, lo + Split(lo, hi) - 1>> \in R
                  /\ st[<<lo, hi>>] = Append(st[<<lo, lo + Split(lo, hi) - 1>>],
                                             RootOf(leaves, lo + Split(lo, hi), hi))
             /\ ~(t <= lo - 1 + Split(lo, hi)) =>
                  /\ <<lo + Split(lo, hi), hi>> \in R
                  /\ st[<<lo, hi>>] = Append(st[<<lo + Split(lo, hi), hi>>],
                                             RootOf(leaves, lo, lo + Split(lo, hi) - 1))

\* The claim of the induction, for one slice.
Leads(st, leaves, t, w, lo, hi) ==
    /\ st[<<lo, hi>>] \in Seq(Heads(leaves))
    /\ Rebuilt(Climbed(w, st[<<lo, hi>>]), leaves, t, lo, hi)

\* A path that leads from the left part leads from the slice.
LEMMA LeadsLeft ==
    ASSUME NEW leaves, Len(leaves) \in Nat, NEW lo \in Nat, NEW hi \in Nat,
           1 <= lo, lo < hi, hi <= Len(leaves), Aligned(lo, hi, Len(leaves)),
           NEW t \in Nat, lo <= t, t <= lo + Split(lo, hi) - 1, NEW w, NEW st,
           Leads(st, leaves, t, w, lo, lo + Split(lo, hi) - 1),
           st[<<lo, hi>>] = Append(st[<<lo, lo + Split(lo, hi) - 1>>],
                                   RootOf(leaves, lo + Split(lo, hi), hi))
    PROVE  Leads(st, leaves, t, w, lo, hi)
  <1> DEFINE x == RootOf(leaves, lo + Split(lo, hi), hi)
             p == st[<<lo, lo + Split(lo, hi) - 1>>]
             H == Heads(leaves)
  <1>0. /\ lo + Split(lo, hi) \in Nat /\ lo + Split(lo, hi) - 1 \in Nat
        /\ lo <= lo + Split(lo, hi) - 1 /\ lo + Split(lo, hi) - 1 < hi
        /\ lo < lo + Split(lo, hi) /\ lo + Split(lo, hi) <= hi
    BY SplitIn
  <1>1. x \in H
    <2> DEFINE a == lo + Split(lo, hi)
    <2>1. a \in Nat /\ 1 <= a /\ a <= hi
      BY <1>0
    <2> HIDE DEF a
    <2>2. RootOf(leaves, a, hi) \in Heads(leaves)
      BY <2>1, HeadIn
    <2> QED BY <2>2 DEF a
  <1>2. p \in Seq(H)
    BY DEF Leads
  <1>3. Rebuilt(Climbed(w, p), leaves, t, lo, lo + Split(lo, hi) - 1)
    BY DEF Leads
  <1>4. Rebuilt(Climb(Climbed(w, p), x), leaves, t, lo, hi)
    BY <1>3, RebuildsLeft
  <1>5. st[<<lo, hi>>] = Append(p, x)
    OBVIOUS
  <1> HIDE DEF x, p, H
  <1>6. Climbed(w, Append(p, x)) = Climb(Climbed(w, p), x)
    BY <1>1, <1>2, ClimbedIs
  <1>7. Append(p, x) \in Seq(H)
    BY <1>1, <1>2
  <1> QED BY <1>4, <1>5, <1>6, <1>7 DEF Leads, H

\* A path that leads from the right part leads from the slice.
LEMMA LeadsRight ==
    ASSUME NEW leaves, Len(leaves) \in Nat, NEW lo \in Nat, NEW hi \in Nat,
           1 <= lo, lo < hi, hi <= Len(leaves), Aligned(lo, hi, Len(leaves)),
           NEW t \in Nat, lo + Split(lo, hi) <= t, t <= hi, NEW w, NEW st,
           Leads(st, leaves, t, w, lo + Split(lo, hi), hi),
           st[<<lo, hi>>] = Append(st[<<lo + Split(lo, hi), hi>>],
                                   RootOf(leaves, lo, lo + Split(lo, hi) - 1))
    PROVE  Leads(st, leaves, t, w, lo, hi)
  <1> DEFINE x == RootOf(leaves, lo, lo + Split(lo, hi) - 1)
             p == st[<<lo + Split(lo, hi), hi>>]
             H == Heads(leaves)
  <1>0. /\ lo + Split(lo, hi) \in Nat /\ lo + Split(lo, hi) - 1 \in Nat
        /\ lo <= lo + Split(lo, hi) - 1 /\ lo + Split(lo, hi) - 1 < hi
        /\ lo < lo + Split(lo, hi) /\ lo + Split(lo, hi) <= hi
    BY SplitIn
  <1>1. x \in H
    <2> DEFINE a == lo + Split(lo, hi) - 1
    <2>1. a \in Nat /\ lo <= a /\ a <= Len(leaves)
      BY <1>0
    <2> HIDE DEF a
    <2>2. RootOf(leaves, lo, a) \in Heads(leaves)
      BY <2>1, HeadIn
    <2> QED BY <2>2 DEF a
  <1>2. p \in Seq(H)
    BY DEF Leads
  <1>3. Rebuilt(Climbed(w, p), leaves, t, lo + Split(lo, hi), hi)
    BY DEF Leads
  <1>4. Rebuilt(Climb(Climbed(w, p), x), leaves, t, lo, hi)
    BY <1>3, RebuildsRight
  <1>5. st[<<lo, hi>>] = Append(p, x)
    OBVIOUS
  <1> HIDE DEF x, p, H
  <1>6. Climbed(w, Append(p, x)) = Climb(Climbed(w, p), x)
    BY <1>1, <1>2, ClimbedIs
  <1>7. Append(p, x) \in Seq(H)
    BY <1>1, <1>2
  <1> QED BY <1>4, <1>5, <1>6, <1>7 DEF Leads, H

\* The siblings of a slice lead the verifier to its head.
LEMMA Rebuilds ==
    ASSUME NEW leaves, Len(leaves) \in Nat, NEW t \in Nat, NEW w, NEW st,
           NEW R, NEW Stop, LeadsUp(st, leaves, t, R, Stop),
           \A lo, hi \in Nat : <<lo, hi>> \in R \cap Stop =>
              Rebuilt(w, leaves, t, lo, hi)
    PROVE  \A lo, hi \in Nat : <<lo, hi>> \in R => Leads(st, leaves, t, w, lo, hi)
  <1> DEFINE Bad == {n \in Nat : \E lo, hi \in Nat :
                       /\ <<lo, hi>> \in R /\ n = hi - lo
                       /\ ~Leads(st, leaves, t, w, lo, hi)}
  <1>1. SUFFICES ASSUME Bad # {} PROVE FALSE
    <2> SUFFICES ASSUME NEW lo \in Nat, NEW hi \in Nat, <<lo, hi>> \in R,
                        ~Leads(st, leaves, t, w, lo, hi)
                 PROVE  Bad # {}
      OBVIOUS
    <2>1. lo <= t /\ t <= hi
      BY DEF LeadsUp
    <2>2. hi - lo \in Nat
      BY <2>1
    <2>3. hi - lo \in Bad
      BY <2>2
    <2> QED BY <2>3
  <1>2. PICK n \in Bad : \A j \in Bad : n <= j
    <2>1. Bad \in SUBSET Nat
      OBVIOUS
    <2> HIDE DEF Bad
    <2> QED BY <1>1, <2>1, LeastNumber
  <1>3. PICK lo \in Nat, hi \in Nat :
           <<lo, hi>> \in R /\ n = hi - lo /\ ~Leads(st, leaves, t, w, lo, hi)
    OBVIOUS
  <1>4. ASSUME NEW a \in Nat, NEW b \in Nat, <<a, b>> \in R, b - a < n, a <= b
        PROVE  Leads(st, leaves, t, w, a, b)
    <2>1. b - a \in Nat
      BY <1>4
    <2>2. b - a \notin Bad
      <3> HIDE DEF Bad
      <3>1. n \in Nat /\ ~(n <= b - a)
        BY <1>2, <1>3, <1>4, <2>1 DEF Bad
      <3> QED BY <1>2, <3>1
    <2> QED BY <1>4, <2>1, <2>2
  <1> HIDE DEF Bad
  <1>5. /\ 1 <= lo /\ lo <= t /\ t <= hi /\ hi <= Len(leaves)
        /\ Aligned(lo, hi, Len(leaves))
    BY <1>3 DEF LeadsUp
  <1>6. CASE <<lo, hi>> \in Stop
    <2>1. st[<<lo, hi>>] = <<>>
      BY <1>3, <1>6 DEF LeadsUp
    <2> DEFINE H == Heads(leaves)
               e == st[<<lo, hi>>]
    <2>2. e \in Seq(H) /\ e = <<>>
      BY <2>1
    <2>3. Rebuilt(w, leaves, t, lo, hi)
      BY <1>3, <1>6
    <2> HIDE DEF H, e
    <2>4. Climbed(w, e) = w
      BY <2>2, ClimbedIs
    <2> QED BY <1>3, <2>2, <2>3, <2>4 DEF Leads, H, e
  <1>7. CASE <<lo, hi>> \notin Stop /\ t <= lo - 1 + Split(lo, hi)
    <2>1. /\ lo < hi /\ <<lo, lo + Split(lo, hi) - 1>> \in R
          /\ st[<<lo, hi>>] = Append(st[<<lo, lo + Split(lo, hi) - 1>>],
                                     RootOf(leaves, lo + Split(lo, hi), hi))
      BY <1>3, <1>7 DEF LeadsUp
    <2> DEFINE m == lo + Split(lo, hi) - 1
    <2>a. Split(lo, hi) \in Nat
      BY <2>1, SplitIn
    <2>b. m \in Nat /\ m < hi /\ lo <= m
      BY <2>1, SplitIn
    <2>2. m \in Nat /\ m < hi /\ lo <= m /\ t <= m
      BY <1>7, <2>a, <2>b
    <2>3. Leads(st, leaves, t, w, lo, m)
      <3>1. <<lo, m>> \in R
        BY <2>1
      <3> HIDE DEF m
      <3>2. m - lo < n
        BY <1>3, <2>2
      <3> QED BY <1>4, <2>2, <3>1, <3>2
    <2>4. Leads(st, leaves, t, w, lo, hi)
      BY <1>5, <2>1, <2>2, <2>3, LeadsLeft
    <2> QED BY <1>3, <2>4
  <1>8. CASE <<lo, hi>> \notin Stop /\ ~(t <= lo - 1 + Split(lo, hi))
    <2>1. /\ lo < hi /\ <<lo + Split(lo, hi), hi>> \in R
          /\ st[<<lo, hi>>] = Append(st[<<lo + Split(lo, hi), hi>>],
                                     RootOf(leaves, lo, lo + Split(lo, hi) - 1))
      BY <1>3, <1>8 DEF LeadsUp
    <2> DEFINE m == lo + Split(lo, hi)
    <2>a. Split(lo, hi) \in Nat
      BY <2>1, SplitIn
    <2>b. m \in Nat /\ m <= hi /\ lo < m
      BY <2>1, SplitIn
    <2>2. m \in Nat /\ m <= hi /\ lo < m /\ m <= t
      BY <1>8, <2>a, <2>b
    <2>3. Leads(st, leaves, t, w, m, hi)
      <3>1. <<m, hi>> \in R
        BY <2>1
      <3> HIDE DEF m
      <3>2. hi - m < n
        BY <1>3, <2>2
      <3> QED BY <1>4, <2>2, <3>1, <3>2
    <2>4. Leads(st, leaves, t, w, lo, hi)
      BY <1>5, <2>1, <2>2, <2>3, LeadsRight
    <2> QED BY <1>3, <2>4
  <1> QED BY <1>6, <1>7, <1>8

(***************************************************************************)
(* The recursion of both proofs: it stops in the slices of Stop, with the  *)
(* path start, and follows position t elsewhere.                           *)
(***************************************************************************)

PathAt(f, leaves, t, Stop, start, s) ==
    IF s \in Stop THEN start[s]
    ELSE IF t <= s[1] - 1 + Split(s[1], s[2])
         THEN Append(f[<<s[1], s[1] + Split(s[1], s[2]) - 1>>],
                     RootOf(leaves, s[1] + Split(s[1], s[2]), s[2]))
         ELSE Append(f[<<s[1] + Split(s[1], s[2]), s[2]>>],
                     RootOf(leaves, s[1], s[1] + Split(s[1], s[2]) - 1))

\* The slices around t with at most n + 1 leaves.
Near(leaves, t, n) == {s \in Around(leaves, t) : s[2] - s[1] <= n}

\* The slices around a position by their ends.
LEMMA NearIs ==
    ASSUME NEW leaves, Len(leaves) \in Nat, NEW n \in Nat, NEW t \in Nat,
           NEW lo \in Nat, NEW hi \in Nat
    PROVE  /\ <<lo, hi>> \in Around(leaves, t)
                <=> 1 <= lo /\ lo <= t /\ t <= hi /\ hi <= Len(leaves)
           /\ <<lo, hi>> \in Near(leaves, t, n)
                <=> 1 <= lo /\ lo <= t /\ t <= hi /\ hi <= Len(leaves)
                    /\ hi - lo <= n
  BY DEF Near, Around, Slices

\* The ends of a slice around a position.
LEMMA AroundIs ==
    ASSUME NEW leaves, Len(leaves) \in Nat, NEW t \in Nat,
           NEW s \in Around(leaves, t)
    PROVE  /\ s = <<s[1], s[2]>> /\ s[1] \in Nat /\ s[2] \in Nat
           /\ 1 <= s[1] /\ s[1] <= t /\ t <= s[2] /\ s[2] <= Len(leaves)
  BY SliceIs DEF Around

\* The recursion stops at the latest in a slice of one leaf.
PathStops(leaves, t, Stop) ==
    \A s \in Around(leaves, t) : s[1] = s[2] => s \in Stop

Paths(f, leaves, t, Stop, start) ==
    f = [s \in Around(leaves, t) |-> PathAt(f, leaves, t, Stop, start, s)]

\* The recursion of both proofs defines a function.
LEMMA PathsExist ==
    ASSUME NEW leaves, Len(leaves) \in Nat, NEW t \in Nat, NEW Stop, NEW start,
           PathStops(leaves, t, Stop)
    PROVE  \E f : Paths(f, leaves, t, Stop, start)
  <1> DEFINE At(f, s) == PathAt(f, leaves, t, Stop, start, s)
             Is(f, n) == f = [s \in Near(leaves, t, n) |-> At(f, s)]
             T == {n \in Nat : \E f : Is(f, n)}
             N == Len(leaves)
  <1>1. 0 \in T
    <2> DEFINE f == [s \in Near(leaves, t, 0) |-> start[s]]
    <2>1. \A s \in Near(leaves, t, 0) : s \in Stop
      BY AroundIs DEF Near, PathStops
    <2>2. \A s \in Near(leaves, t, 0) : At(f, s) = start[s]
      BY <2>1 DEF PathAt
    <2>3. Is(f, 0)
      BY <2>2
    <2> HIDE DEF f
    <2> QED BY <2>3
  <1>2. ASSUME NEW n \in 0 .. N - 1, n \in T PROVE n + 1 \in T
    <2>0. n \in Nat /\ n + 1 \in Nat
      OBVIOUS
    <2>1. PICK f : Is(f, n)
      BY <1>2
    <2> HIDE DEF At
    <2> DEFINE g == [s \in Near(leaves, t, n + 1) |->
                       IF s \in Near(leaves, t, n) THEN f[s] ELSE At(f, s)]
    <2>2. \A s \in Near(leaves, t, n) : s \in Near(leaves, t, n + 1) /\ g[s] = f[s]
      BY <2>0, AroundIs DEF Near
    <2>3. \A s \in Near(leaves, t, n + 1) : g[s] = At(f, s)
      BY <2>1
    <2>4. g = [s \in Near(leaves, t, n + 1) |-> g[s]]
      OBVIOUS
    <2> HIDE DEF g
    <2>5. ASSUME NEW s \in Near(leaves, t, n + 1)
          PROVE  At(f, s) = At(g, s)
      <3>1. PICK lo, hi : /\ lo = s[1] /\ hi = s[2] /\ lo \in Nat /\ hi \in Nat
                          /\ 1 <= lo /\ lo <= t /\ t <= hi /\ hi <= N
                          /\ hi - lo <= n + 1 /\ s \in Around(leaves, t)
        BY AroundIs DEF Near
      <3>2. CASE s \in Stop
        BY <3>2 DEF At, PathAt
      <3>3. CASE s \notin Stop
        <4>1. lo < hi
          BY <3>1, <3>3 DEF PathStops
        <4> DEFINE p == Split(lo, hi)
        <4>2. /\ lo + p - 1 \in Nat /\ lo + p \in Nat /\ p \in Nat
              /\ lo <= lo + p - 1 /\ lo + p - 1 < hi
              /\ lo < lo + p /\ lo + p <= hi
          BY <3>1, <4>1, SplitIn
        <4> HIDE DEF p
        <4>3. CASE t <= lo - 1 + p
          <5>1. <<lo, lo + p - 1>> \in Near(leaves, t, n)
            <6> DEFINE m == lo + p - 1
            <6>a. m \in Nat /\ m < hi /\ lo <= m
              BY <4>2
            <6>b. t <= m
              <7>0. lo \in Nat /\ p \in Nat
                BY <3>1, <4>2
              <7>1. lo + p - 1 = lo - 1 + p /\ lo - 1 + p \in Int
                BY ONLY <7>0
              <7> QED BY <4>3, <7>1
            <6>1. m \in Nat /\ t <= m /\ m <= Len(leaves) /\ m - lo <= n
              <7> HIDE DEF m
              <7> QED BY <2>0, <3>1, <6>a, <6>b
            <6> HIDE DEF m
            <6>2. <<lo, m>> \in Near(leaves, t, n)
              BY <2>0, <3>1, <6>1, NearIs
            <6> QED BY <6>2 DEF m
          <5>2. g[<<lo, lo + p - 1>>] = f[<<lo, lo + p - 1>>]
            BY <2>2, <5>1
          <5> QED BY <3>1, <3>3, <4>3, <5>2 DEF At, PathAt, p
        <4>4. CASE ~(t <= lo - 1 + p)
          <5>1. <<lo + p, hi>> \in Near(leaves, t, n)
            <6> DEFINE m == lo + p
            <6>a. m \in Nat /\ m <= hi /\ lo < m
              BY <4>2
            <6>b. m <= t
              BY <3>1, <4>2, <4>4
            <6>1. m \in Nat /\ 1 <= m /\ m <= t /\ hi <= Len(leaves) /\ hi - m <= n
              <7> HIDE DEF m
              <7> QED BY <2>0, <3>1, <6>a, <6>b
            <6> HIDE DEF m
            <6>2. <<m, hi>> \in Near(leaves, t, n)
              BY <2>0, <3>1, <6>1, NearIs
            <6> QED BY <6>2 DEF m
          <5>2. g[<<lo + p, hi>>] = f[<<lo + p, hi>>]
            BY <2>2, <5>1
          <5> QED BY <3>1, <3>3, <4>4, <5>2 DEF At, PathAt, p
        <4> QED BY <4>3, <4>4
      <3> QED BY <3>2, <3>3
    <2>6. Is(g, n + 1)
      BY <2>3, <2>4, <2>5
    <2> QED BY <2>0, <2>6
  <1>3. N \in T
    <2>1. N \in Nat
      OBVIOUS
    <2> HIDE DEF T, N
    <2>2. \A n \in 0 .. N : n \in T
      BY <1>1, <1>2, <2>1, Induction
    <2> QED BY <2>1, <2>2
  <1>4. PICK f : Is(f, N)
    BY <1>3
  <1>5. Near(leaves, t, N) = Around(leaves, t)
    BY AroundIs DEF Near
  <1> QED BY <1>4, <1>5 DEF Paths

\* The whole tree is aligned.
LEMMA WholeAligned ==
    ASSUME NEW N \in Nat, N >= 1
    PROVE  Aligned(1, N, N)
  <1>1. \E p \in Powers : N <= p
    <2>1. CASE N = 1
      BY <2>1, PowersDouble
    <2>2. CASE N >= 2
      BY <2>2, SplitPower, PowersDouble
    <2> QED BY <2>1, <2>2
  <1>2. PICK p \in Powers : N <= p
    BY <1>1
  <1>3. p \in Nat /\ 0 * p = 1 - 1 /\ N - 1 + 1 <= p
    BY <1>2, PowersDouble
  <1> QED BY <1>3 DEF Aligned

\* The end of the loop.
LEMMA RebuiltWhole ==
    ASSUME NEW leaves, Len(leaves) \in Nat, Len(leaves) >= 1, NEW t, NEW w,
           Rebuilt(w, leaves, t, 1, Len(leaves))
    PROVE  /\ w.ok /\ w.last = 0 /\ w.first = RootOf(leaves, 1, t)
           /\ w.second = Root(leaves)
  <1>1. PICK n \in Nat, d \in Nat :
           /\ Stands(1, Len(leaves), Len(leaves), n, d)
           /\ w = [node |-> n, last |-> d, ok |-> TRUE,
                   first |-> RootOf(leaves, 1, t),
                   second |-> RootOf(leaves, 1, Len(leaves))]
    BY DEF Rebuilt
  <1>2. n = d /\ \E e \in Powers : n * e = 1 - 1
    BY <1>1 DEF Stands
  <1>3. PICK e \in Powers : n * e = 0
    BY <1>2
  <1>4. e \in Nat /\ e >= 1
    BY PowerIs
  <1>5. n = 0
    BY <1>3, <1>4
  <1> QED BY <1>1, <1>2, <1>5 DEF Root

(***************************************************************************)
(* Inclusion.                                                              *)
(***************************************************************************)

\* The recursion of InclusionProof.
LEMMA InclusionPath ==
    ASSUME NEW leaves, Len(leaves) \in Nat, NEW index \in Nat
    PROVE  \E st : /\ InclusionProof(index, leaves) = st[<<1, Len(leaves)>>]
                   /\ \A lo, hi \in Nat :
                        <<lo, hi>> \in Around(leaves, index + 1) =>
                        st[<<lo, hi>>] =
                          IF lo = hi THEN <<>>
                          ELSE IF index + 1 <= lo - 1 + Split(lo, hi)
                          THEN Append(st[<<lo, lo + Split(lo, hi) - 1>>],
                                      RootOf(leaves, lo + Split(lo, hi), hi))
                          ELSE Append(st[<<lo + Split(lo, hi), hi>>],
                                      RootOf(leaves, lo, lo + Split(lo, hi) - 1))
  <1> DEFINE t == index + 1
             D == Around(leaves, t)
             Stop == {s \in D : s[1] = s[2]}
             start == [s \in D |-> <<>>]
             Is(f) == f = [s \in D |->
                LET lo == s[1]
                    hi == s[2]
                    split == splitPoint(hi - lo + 1)
                IN  IF lo = hi THEN <<>>
                    ELSE IF index < lo - 1 + split
                         THEN Append(f[<<lo, lo + split - 1>>],
                                     RootOf(leaves, lo + split, hi))
                         ELSE Append(f[<<lo + split, hi>>],
                                     RootOf(leaves, lo, lo + split - 1))]
             st == CHOOSE f : Is(f)
  <1>0. t \in Nat
    OBVIOUS
  <1>1. InclusionProof(index, leaves) = st[<<1, Len(leaves)>>]
    BY DEF InclusionProof
  <1>2. \E f : Paths(f, leaves, t, Stop, start)
    <2>1. PathStops(leaves, t, Stop)
      BY DEF PathStops
    <2> HIDE DEF Stop, start, t
    <2> QED BY <1>0, <2>1, PathsExist
  <1>3. PICK f : Paths(f, leaves, t, Stop, start)
    BY <1>2
  <1>4. ASSUME NEW s \in D, NEW g
        PROVE  PathAt(g, leaves, t, Stop, start, s) =
                 IF s[1] = s[2] THEN <<>>
                 ELSE IF index < s[1] - 1 + Split(s[1], s[2])
                 THEN Append(g[<<s[1], s[1] + Split(s[1], s[2]) - 1>>],
                             RootOf(leaves, s[1] + Split(s[1], s[2]), s[2]))
                 ELSE Append(g[<<s[1] + Split(s[1], s[2]), s[2]>>],
                             RootOf(leaves, s[1], s[1] + Split(s[1], s[2]) - 1))
    <2>1. CASE s[1] = s[2]
      BY <2>1 DEF PathAt
    <2>2. CASE s[1] # s[2]
      <3>1. /\ s[1] \in Nat /\ s[2] \in Nat /\ s[1] < s[2]
        BY <1>0, <2>2, AroundIs
      <3>2. Split(s[1], s[2]) \in Nat
        BY <3>1, SplitIn
      <3>3. (t <= s[1] - 1 + Split(s[1], s[2]))
              <=> (index < s[1] - 1 + Split(s[1], s[2]))
        BY <3>1, <3>2
      <3>4. s \notin Stop
        BY <2>2
      <3> HIDE DEF Stop, start, t
      <3> QED BY <2>2, <3>3, <3>4 DEF PathAt
    <2> QED BY <2>1, <2>2
  <1>5. Is(f)
    <2>1. f = [s \in D |-> PathAt(f, leaves, t, Stop, start, s)]
      BY <1>3 DEF Paths
    <2> HIDE DEF Stop, start, t, D
    <2> QED BY <1>4, <2>1 DEF Split
  <1>6. Is(st)
    <2> HIDE DEF Is
    <2> QED BY <1>5
  <1> HIDE DEF st
  <1>7. ASSUME NEW lo \in Nat, NEW hi \in Nat, <<lo, hi>> \in D
        PROVE  st[<<lo, hi>>] =
                 IF lo = hi THEN <<>>
                 ELSE IF t <= lo - 1 + Split(lo, hi)
                 THEN Append(st[<<lo, lo + Split(lo, hi) - 1>>],
                             RootOf(leaves, lo + Split(lo, hi), hi))
                 ELSE Append(st[<<lo + Split(lo, hi), hi>>],
                             RootOf(leaves, lo, lo + Split(lo, hi) - 1))
    <2> DEFINE s == <<lo, hi>>
    <2>1. s[1] = lo /\ s[2] = hi /\ s \in D
      BY <1>7
    <2>2. st[s] = PathAt(st, leaves, t, Stop, start, s)
      <3> HIDE DEF s, Stop, start, t, D
      <3>1. st[s] =
              IF s[1] = s[2] THEN <<>>
              ELSE IF index < s[1] - 1 + Split(s[1], s[2])
              THEN Append(st[<<s[1], s[1] + Split(s[1], s[2]) - 1>>],
                          RootOf(leaves, s[1] + Split(s[1], s[2]), s[2]))
              ELSE Append(st[<<s[1] + Split(s[1], s[2]), s[2]>>],
                          RootOf(leaves, s[1], s[1] + Split(s[1], s[2]) - 1))
        BY <1>6, <2>1 DEF Split
      <3> HIDE DEF Is
      <3> QED BY <1>4, <2>1, <3>1
    <2>3. CASE lo = hi
      BY <2>1, <2>2, <2>3 DEF PathAt
    <2>4. CASE lo # hi
      <3>1. s \notin Stop
        BY <2>1, <2>4
      <3> HIDE DEF Stop, start, t, D
      <3> QED BY <2>1, <2>2, <2>4, <3>1 DEF PathAt
    <2> QED BY <2>3, <2>4
  <1> QED BY <1>1, <1>7

\* Every leaf has an inclusion proof: VerifyInclusion accepts what
\* InclusionProof returns, for every tree and every index.
THEOREM InclusionComplete ==
    ASSUME NEW leaves, Len(leaves) \in Nat, NEW index \in Nat,
           index < Len(leaves)
    PROVE  VerifyInclusion(index, Len(leaves), leaves[index + 1],
                           Root(leaves), InclusionProof(index, leaves))
  <1> DEFINE t == index + 1
             N == Len(leaves)
             leaf == leaves[t]
             w == [node |-> index, last |-> N - 1, ok |-> TRUE,
                   first |-> leaf, second |-> leaf]
             D == Around(leaves, t)
             R == {s \in D : Aligned(s[1], s[2], N)}
             Stop == {s \in D : s[1] = s[2]}
  <1>0. t \in Nat /\ 1 <= t /\ t <= N /\ N \in Nat /\ N >= 1
    OBVIOUS
  <1>1. PICK st : /\ InclusionProof(index, leaves) = st[<<1, N>>]
                  /\ \A lo, hi \in Nat : <<lo, hi>> \in D =>
                       st[<<lo, hi>>] =
                         IF lo = hi THEN <<>>
                         ELSE IF t <= lo - 1 + Split(lo, hi)
                         THEN Append(st[<<lo, lo + Split(lo, hi) - 1>>],
                                     RootOf(leaves, lo + Split(lo, hi), hi))
                         ELSE Append(st[<<lo + Split(lo, hi), hi>>],
                                     RootOf(leaves, lo, lo + Split(lo, hi) - 1))
    BY InclusionPath
  <1>2. ASSUME NEW lo \in Nat, NEW hi \in Nat
        PROVE  /\ <<lo, hi>> \in D
                    <=> 1 <= lo /\ lo <= t /\ t <= hi /\ hi <= N
               /\ <<lo, hi>> \in R
                    <=> <<lo, hi>> \in D /\ Aligned(lo, hi, N)
               /\ <<lo, hi>> \in Stop <=> <<lo, hi>> \in D /\ lo = hi
    <2>1. PICK n \in Nat : n = 0
      OBVIOUS
    <2>2. <<lo, hi>> \in D <=> 1 <= lo /\ lo <= t /\ t <= hi /\ hi <= N
      BY <1>0, <2>1, NearIs
    <2> QED BY <2>2
  <1>3. Rebuilt(w, leaves, t, t, t)
    <2>1. RootOf(leaves, t, t) = leaf
      BY <1>0, RootIs
    <2>2. Stands(t, t, N, index, N - 1)
      <3>1. 1 \in Powers /\ index * 1 = t - 1 /\ (N - 1) * 1 = N - 1
            /\ 1 < 2 * (t - t + 1) /\ t = t - 1 + 1
        BY PowersDouble
      <3>2. CASE t < N
        BY <3>1, <3>2 DEF Stands
      <3>3. CASE t = N
        BY <3>1, <3>3 DEF Stands
      <3> QED BY <1>0, <3>2, <3>3
    <2>3. N - 1 \in Nat
      BY <1>0
    <2> QED BY <2>1, <2>2, <2>3 DEF Rebuilt
  <1> HIDE DEF t, N, leaf, D, R, Stop
  <1>4. LeadsUp(st, leaves, t, R, Stop)
    <2> SUFFICES ASSUME NEW lo \in Nat, NEW hi \in Nat, <<lo, hi>> \in R
                 PROVE  /\ 1 <= lo /\ lo <= t /\ t <= hi /\ hi <= N
                        /\ Aligned(lo, hi, N)
                        /\ <<lo, hi>> \in Stop => st[<<lo, hi>>] = <<>>
                        /\ <<lo, hi>> \notin Stop =>
                             /\ lo < hi
                             /\ t <= lo - 1 + Split(lo, hi) =>
                                  /\ <<lo, lo + Split(lo, hi) - 1>> \in R
                                  /\ st[<<lo, hi>>] = Append(st[<<lo, lo + Split(lo, hi) - 1>>],
                                           RootOf(leaves, lo + Split(lo, hi), hi))
                             /\ ~(t <= lo - 1 + Split(lo, hi)) =>
                                  /\ <<lo + Split(lo, hi), hi>> \in R
                                  /\ st[<<lo, hi>>] = Append(st[<<lo + Split(lo, hi), hi>>],
                                           RootOf(leaves, lo, lo + Split(lo, hi) - 1))
      BY DEF LeadsUp, N
    <2>1. /\ 1 <= lo /\ lo <= t /\ t <= hi /\ hi <= N /\ Aligned(lo, hi, N)
          /\ <<lo, hi>> \in D
      BY <1>2
    <2>2. CASE <<lo, hi>> \in Stop
      BY <1>1, <1>2, <2>1, <2>2
    <2>3. CASE <<lo, hi>> \notin Stop
      <3>1. lo < hi
        BY <1>0, <1>2, <2>1, <2>3
      <3> DEFINE p == Split(lo, hi)
                 m == lo + p - 1
                 k == lo + p
      <3>2. /\ p \in Nat /\ m \in Nat /\ k \in Nat /\ lo <= m /\ m < hi
            /\ lo < k /\ k <= hi
        BY <3>1, SplitIn
      <3>3. Aligned(lo, m, N) /\ Aligned(k, hi, N)
        BY <1>0, <2>1, <3>1, PartsAligned
      <3>4. st[<<lo, hi>>] = IF t <= lo - 1 + p
                             THEN Append(st[<<lo, m>>], RootOf(leaves, k, hi))
                             ELSE Append(st[<<k, hi>>], RootOf(leaves, lo, m))
        BY <1>1, <2>1, <3>1
      <3>5. t <= lo - 1 + p => t <= m
        BY <1>0, <3>2
      <3>6. ~(t <= lo - 1 + p) => k <= t
        BY <1>0, <3>2
      <3> HIDE DEF m, k
      <3>7. t <= lo - 1 + p => <<lo, m>> \in R
        <4> SUFFICES ASSUME t <= m PROVE <<lo, m>> \in R
          BY <3>5
        <4>1. m <= N
          BY <1>0, <2>1, <3>2
        <4> QED BY <1>2, <2>1, <3>2, <3>3, <4>1
      <3>8. ~(t <= lo - 1 + p) => <<k, hi>> \in R
        <4> SUFFICES ASSUME k <= t PROVE <<k, hi>> \in R
          BY <3>6
        <4>1. 1 <= k
          BY <2>1, <3>2
        <4> QED BY <1>2, <2>1, <3>2, <3>3, <4>1
      <3> QED BY <2>1, <2>3, <3>1, <3>4, <3>7, <3>8 DEF m, k
    <2> QED BY <2>1, <2>2, <2>3
  <1>5. ASSUME NEW lo \in Nat, NEW hi \in Nat, <<lo, hi>> \in R \cap Stop
        PROVE  Rebuilt(w, leaves, t, lo, hi)
    <2>1. lo = t /\ hi = t
      BY <1>0, <1>2, <1>5
    <2> HIDE DEF w
    <2> QED BY <1>3, <2>1
  <1>6. <<1, N>> \in R
    <2>1. Aligned(1, N, N)
      BY <1>0, WholeAligned
    <2>2. PICK one \in Nat : one = 1
      OBVIOUS
    <2>3. <<one, N>> \in R
      BY <1>0, <1>2, <2>1, <2>2
    <2> QED BY <2>2, <2>3
  <1> HIDE DEF w
  <1>7. Leads(st, leaves, t, w, 1, N)
    <2>1. \A lo, hi \in Nat : <<lo, hi>> \in R => Leads(st, leaves, t, w, lo, hi)
      BY <1>0, <1>4, <1>5, Rebuilds DEF N
    <2>2. PICK one \in Nat : one = 1
      OBVIOUS
    <2>3. Leads(st, leaves, t, w, one, N)
      BY <1>0, <1>6, <2>1, <2>2
    <2> QED BY <2>2, <2>3
  <1> DEFINE v == Climbed(w, st[<<1, N>>])
  <1>8. v.ok /\ v.last = 0 /\ v.second = Root(leaves)
    <2>1. Rebuilt(v, leaves, t, 1, N)
      BY <1>7 DEF Leads
    <2> HIDE DEF v
    <2> QED BY <1>0, <2>1, RebuiltWhole DEF N
  <1> QED BY <1>1, <1>8 DEF VerifyInclusion, w, leaf, t, N

(***************************************************************************)
(* Consistency.                                                            *)
(***************************************************************************)

\* The equations of the recursion, for one slice.
Consists(st, leaves, t, lo, hi) ==
    st[<<lo, hi>>] =
        IF t = hi THEN IF lo = 1 THEN <<>> ELSE <<RootOf(leaves, lo, hi)>>
        ELSE IF t <= lo - 1 + Split(lo, hi)
        THEN Append(st[<<lo, lo + Split(lo, hi) - 1>>],
                    RootOf(leaves, lo + Split(lo, hi), hi))
        ELSE Append(st[<<lo + Split(lo, hi), hi>>],
                    RootOf(leaves, lo, lo + Split(lo, hi) - 1))

\* The recursion of ConsistencyProof.
LEMMA ConsistencyPath ==
    ASSUME NEW leaves, Len(leaves) \in Nat, NEW t \in Nat
    PROVE  \E st : /\ ConsistencyProof(t, leaves) = st[<<1, Len(leaves)>>]
                   /\ \A lo, hi \in Nat : <<lo, hi>> \in Around(leaves, t) =>
                        Consists(st, leaves, t, lo, hi)
  <1> DEFINE D == Around(leaves, t)
             Stop == {s \in D : t = s[2]}
             start == [s \in D |-> IF s[1] = 1 THEN <<>>
                                   ELSE <<RootOf(leaves, s[1], s[2])>>]
             Is(f) == f = [s \in D |->
                LET lo == s[1]
                    hi == s[2]
                    split == splitPoint(hi - lo + 1)
                IN  IF t = hi
                    THEN IF lo = 1 THEN <<>> ELSE <<RootOf(leaves, lo, hi)>>
                    ELSE IF t <= lo - 1 + split
                         THEN Append(f[<<lo, lo + split - 1>>],
                                     RootOf(leaves, lo + split, hi))
                         ELSE Append(f[<<lo + split, hi>>],
                                     RootOf(leaves, lo, lo + split - 1))]
             st == CHOOSE f : Is(f)
  <1>1. ConsistencyProof(t, leaves) = st[<<1, Len(leaves)>>]
    BY DEF ConsistencyProof
  <1>2. \E f : Paths(f, leaves, t, Stop, start)
    <2>1. PathStops(leaves, t, Stop)
      BY AroundIs DEF PathStops
    <2> HIDE DEF Stop, start
    <2> QED BY <2>1, PathsExist
  <1>3. PICK f : Paths(f, leaves, t, Stop, start)
    BY <1>2
  <1>4. ASSUME NEW s \in D, NEW g
        PROVE  PathAt(g, leaves, t, Stop, start, s) =
                 IF t = s[2]
                 THEN IF s[1] = 1 THEN <<>> ELSE <<RootOf(leaves, s[1], s[2])>>
                 ELSE IF t <= s[1] - 1 + Split(s[1], s[2])
                 THEN Append(g[<<s[1], s[1] + Split(s[1], s[2]) - 1>>],
                             RootOf(leaves, s[1] + Split(s[1], s[2]), s[2]))
                 ELSE Append(g[<<s[1] + Split(s[1], s[2]), s[2]>>],
                             RootOf(leaves, s[1], s[1] + Split(s[1], s[2]) - 1))
    <2>1. CASE t = s[2]
      <3>1. s \in Stop /\ start[s] = IF s[1] = 1 THEN <<>>
                                     ELSE <<RootOf(leaves, s[1], s[2])>>
        BY <2>1
      <3> HIDE DEF Stop, start
      <3> QED BY <2>1, <3>1 DEF PathAt
    <2>2. CASE t # s[2]
      <3>1. s \notin Stop
        BY <2>2
      <3> HIDE DEF Stop, start
      <3> QED BY <2>2, <3>1 DEF PathAt
    <2> QED BY <2>1, <2>2
  <1>5. Is(f)
    <2>1. f = [s \in D |-> PathAt(f, leaves, t, Stop, start, s)]
      BY <1>3 DEF Paths
    <2> HIDE DEF Stop, start, D
    <2> QED BY <1>4, <2>1 DEF Split
  <1>6. Is(st)
    <2> HIDE DEF Is
    <2> QED BY <1>5
  <1> HIDE DEF st
  <1>7. ASSUME NEW lo \in Nat, NEW hi \in Nat, <<lo, hi>> \in D
        PROVE  Consists(st, leaves, t, lo, hi)
    <2> DEFINE s == <<lo, hi>>
    <2>1. s[1] = lo /\ s[2] = hi /\ s \in D
      BY <1>7
    <2> HIDE DEF s, Stop, start, D
    <2>2. st[s] =
            IF t = s[2]
            THEN IF s[1] = 1 THEN <<>> ELSE <<RootOf(leaves, s[1], s[2])>>
            ELSE IF t <= s[1] - 1 + Split(s[1], s[2])
            THEN Append(st[<<s[1], s[1] + Split(s[1], s[2]) - 1>>],
                        RootOf(leaves, s[1] + Split(s[1], s[2]), s[2]))
            ELSE Append(st[<<s[1] + Split(s[1], s[2]), s[2]>>],
                        RootOf(leaves, s[1], s[1] + Split(s[1], s[2]) - 1))
      BY <1>6, <2>1 DEF Split
    <2>3. st[<<lo, hi>>] = st[s]
      BY DEF s
    <2> HIDE DEF Is
    <2> QED BY <2>1, <2>2, <2>3 DEF Consists
  <1> QED BY <1>1, <1>7

\* Quotients by a number that need not be two.
LEMMA DivBounds ==
    ASSUME NEW a \in Nat, NEW b \in Nat, b >= 1
    PROVE  /\ a \div b \in Nat
           /\ (a \div b) * b <= a /\ a < (a \div b) * b + b
  OBVIOUS

\* A slice that ends with leaf t and begins where twice its size divides: the
\* largest complete subtree that ends there.
Ends(lo, t) ==
    \E p \in Powers, q \in Nat : lo - 1 = q * (2 * p) /\ t = lo - 1 + p

\* Where VerifyConsistency begins, before the loop.
Begins(t, N, x) ==
    [node |-> (t - 1) \div OddPart(t - 1), last |-> (N - 1) \div OddPart(t - 1),
     ok |-> TRUE, first |-> x, second |-> x]

\* Where VerifyConsistency starts: at the last complete subtree of the first t
\* leaves, which is all of them when t is a power of two.
LEMMA EndsIs ==
    ASSUME NEW lo \in Nat, NEW t \in Nat, NEW N \in Nat, 1 <= lo, lo <= t,
           t < N, Ends(lo, t)
    PROVE  /\ OddPart(t - 1) \in Powers
           /\ lo = t - OddPart(t - 1) + 1
           /\ (OnesCount(t) = 1) <=> (lo = 1)
           /\ \E node, last \in Nat :
                /\ node = (t - 1) \div OddPart(t - 1)
                /\ last = (N - 1) \div OddPart(t - 1)
                /\ Stands(lo, t, N, node, last)
  <1>1. PICK p \in Powers, q \in Nat : lo - 1 = q * (2 * p) /\ t = lo - 1 + p
    BY DEF Ends
  <1>2. p \in Nat /\ p >= 1
    BY PowerIs
  <1>3. t = (2 * q + 1) * p /\ 2 * q + 1 \in Nat /\ lo - 1 = (2 * q) * p
    BY <1>1, <1>2
  <1>4. OddPart(t - 1) = p
    BY <1>3, OddPartOf
  <1>5. lo = t - p + 1
    BY <1>1, <1>2
  <1>6. OnesCount(t) = OnesCount(q) + 1 /\ OnesCount(q) \in Nat
    <2>1. OnesCount(t) = OnesCount(2 * q + 1)
      BY <1>3, OnesCountShift
    <2> QED BY <2>1, OnesCountDouble
  <1>7. OnesCount(t) = 1 <=> lo = 1
    <2>1. CASE q = 0
      <3>1. lo = 1
        BY <1>2, <1>3, <2>1
      <3>2. OnesCount(q) = 0
        BY <2>1, OnesCountIs
      <3> QED BY <1>6, <3>1, <3>2
    <2>2. CASE q # 0
      <3>1. OnesCount(q) > 0
        BY <2>2, OnesCountPositive
      <3>2. lo # 1
        <4>1. ASSUME lo = 1 PROVE FALSE
          <5>1. (2 * q) * p = 0
            BY <1>3, <4>1
          <5> QED BY <1>2, <2>2, <5>1
        <4> QED BY <4>1
      <3> QED BY <1>6, <3>1, <3>2
    <2> QED BY <2>1, <2>2
  <1>8. (t - 1) \div p = 2 * q
    <2>1. t - 1 \in Nat /\ p - 1 \in Nat /\ p - 1 < p /\ 2 * q \in Nat
      BY <1>2
    <2>2. t - 1 = p * (2 * q) + (p - 1)
      BY <1>1, <1>2, <1>3
    <2> QED BY <1>2, <2>1, <2>2, DivIs
  <1> DEFINE d == (N - 1) \div p
  <1>9. d \in Nat /\ d * p <= N - 1 /\ N - 1 < d * p + p
    <2>1. N - 1 \in Nat
      OBVIOUS
    <2> QED BY <1>2, <2>1, DivBounds
  <1> HIDE DEF d
  <1>10. Stands(lo, t, N, 2 * q, d)
    <2>1. /\ (2 * q) * p = lo - 1 /\ t = lo - 1 + p
          /\ d * p <= N - 1 /\ N - 1 < d * p + p
      BY <1>1, <1>3, <1>9
    <2> QED BY <2>1 DEF Stands
  <1>11. 2 * q \in Nat
    OBVIOUS
  <1> QED BY <1>4, <1>5, <1>7, <1>8, <1>9, <1>10, <1>11 DEF d

\* The slices that the recursion of ConsistencyProof reaches from the whole.
Reaches(leaves, t, lo, hi) ==
    /\ 1 <= lo /\ lo <= t /\ t <= hi /\ hi <= Len(leaves)
    /\ Aligned(lo, hi, Len(leaves))
    /\ hi = t => Ends(lo, t)

\* The recursion of ConsistencyProof follows position t.
LEMMA ReachesOn ==
    ASSUME NEW leaves, Len(leaves) \in Nat, NEW t \in Nat,
           NEW lo \in Nat, NEW hi \in Nat, Reaches(leaves, t, lo, hi), hi # t
    PROVE  /\ lo < hi
           /\ t <= lo - 1 + Split(lo, hi) =>
                Reaches(leaves, t, lo, lo + Split(lo, hi) - 1)
           /\ ~(t <= lo - 1 + Split(lo, hi)) =>
                Reaches(leaves, t, lo + Split(lo, hi), hi)
  <1> DEFINE N == Len(leaves)
             s == Split(lo, hi)
             m == lo + s - 1
             k == lo + s
  <1>1. /\ 1 <= lo /\ lo <= t /\ t < hi /\ lo < hi /\ hi <= N
        /\ Aligned(lo, hi, N)
    BY DEF Reaches
  <1>2. /\ s \in Nat /\ s \in Powers /\ m \in Nat /\ k \in Nat /\ lo <= m
        /\ m < hi /\ lo < k /\ k <= hi
    BY <1>1, SplitIn
  <1>3. /\ Aligned(lo, m, N) /\ Aligned(k, hi, N)
        /\ \E q \in Nat : lo - 1 = q * (2 * s)
    BY <1>1, PartsAligned
  <1>4. m = lo - 1 + s
    BY <1>2
  <1>5. t <= lo - 1 + s => Reaches(leaves, t, lo, m)
    <2> HIDE DEF s, k
    <2>1. m = t => Ends(lo, t)
      BY <1>2, <1>3, <1>4 DEF Ends
    <2>2. t <= lo - 1 + s => t <= m
      BY <1>4
    <2> HIDE DEF m
    <2>3. m <= N
      BY <1>1, <1>2
    <2> QED BY <1>1, <1>2, <1>3, <2>1, <2>2, <2>3 DEF Reaches
  <1>6. ~(t <= lo - 1 + s) => Reaches(leaves, t, k, hi)
    <2>1. ~(t <= lo - 1 + s) => k <= t
      BY <1>2
    <2> HIDE DEF s, k, m
    <2>2. 1 <= k
      BY <1>1, <1>2
    <2> QED BY <1>1, <1>2, <1>3, <2>1, <2>2 DEF Reaches
  <1> QED BY <1>1, <1>5, <1>6 DEF s, m, k

\* A path with one more sibling, after the root that a caller puts first.
LEMMA SeqAppend ==
    ASSUME NEW H, NEW p \in Seq(H), NEW x \in H, NEW a \in H
    PROVE  /\ Append(p, x) \in Seq(H) /\ Append(p, x) # <<>>
           /\ <<a>> \o Append(p, x) = Append(<<a>> \o p, x)
           /\ <<a>> \o p \in Seq(H) /\ <<a>> \o p # <<>> /\ (<<a>> \o p)[1] = a
  <1>1. Append(p, x) \in Seq(H) /\ Append(p, x) # <<>>
    <2>1. Append(p, x) \in Seq(H) /\ Len(Append(p, x)) = Len(p) + 1 /\ Len(p) \in Nat
      OBVIOUS
    <2>2. Len(Append(p, x)) # 0
      BY <2>1
    <2> QED BY <2>1, <2>2
  <1>2. <<a>> \o p \in Seq(H) /\ <<a>> \o p # <<>> /\ (<<a>> \o p)[1] = a
    <2> DEFINE v == <<a>> \o p
    <2>1. v \in Seq(H) /\ Len(v) = 1 + Len(p) /\ Len(p) \in Nat /\ v[1] = a
      OBVIOUS
    <2> HIDE DEF v
    <2>2. Len(v) # 0
      BY <2>1
    <2>3. v # <<>>
      BY <2>2
    <2> QED BY <2>1, <2>3 DEF v
  <1>3. <<a>> \o Append(p, x) = Append(<<a>> \o p, x)
    <2> DEFINE n == Len(p)
               u == Append(p, x)
               v == <<a>> \o p
               l == <<a>> \o u
               r == Append(v, x)
    <2>1. /\ n \in Nat /\ u \in Seq(H) /\ Len(u) = n + 1 /\ u[n + 1] = x
          /\ \A i \in 1 .. n : u[i] = p[i]
      OBVIOUS
    <2>2. /\ v \in Seq(H) /\ Len(v) = n + 1 /\ v[1] = a
          /\ \A i \in 2 .. n + 1 : v[i] = p[i - 1]
      OBVIOUS
    <2> HIDE DEF u, v
    <2>3. /\ l \in Seq(H) /\ Len(l) = n + 2 /\ l[1] = a
          /\ \A i \in 2 .. n + 2 : l[i] = u[i - 1]
      BY <2>1
    <2>4. /\ r \in Seq(H) /\ Len(r) = n + 2 /\ r[n + 2] = x
          /\ \A i \in 1 .. n + 1 : r[i] = v[i]
      BY <2>1, <2>2
    <2> HIDE DEF l, r, n
    <2>5. ASSUME NEW i \in 1 .. n + 2 PROVE l[i] = r[i]
      <3>1. CASE i = 1
        BY <2>1, <2>2, <2>3, <2>4, <3>1
      <3>2. CASE i \in 2 .. n + 1
        <4>1. i - 1 \in 1 .. n /\ i \in 1 .. n + 1 /\ i \in 2 .. n + 2
          BY <2>1, <3>2
        <4> QED BY <2>1, <2>2, <2>3, <2>4, <3>2, <4>1
      <3>3. CASE i = n + 2
        <4>1. i - 1 = n + 1 /\ i \in 2 .. n + 2
          BY <2>1, <3>3
        <4> QED BY <2>1, <2>3, <2>4, <3>3, <4>1
      <3> QED BY <2>1, <3>1, <3>2, <3>3
    <2>6. l = r
      BY <2>1, <2>3, <2>4, <2>5, SeqEqual
    <2> QED BY <2>6 DEF l, r, u, v
  <1> QED BY <1>1, <1>2, <1>3

\* The first element stays when a sibling is added.
LEMMA TailAppend ==
    ASSUME NEW H, NEW p \in Seq(H), p # <<>>, NEW x \in H
    PROVE  /\ Append(p, x) \in Seq(H) /\ Append(p, x) # <<>>
           /\ Append(p, x)[1] = p[1]
           /\ Tail(Append(p, x)) = Append(Tail(p), x)
  <1>1. Append(p, x) \in Seq(H) /\ Append(p, x) # <<>>
    BY SeqAppend
  <1>2. Append(p, x)[1] = p[1]
    OBVIOUS
  <1>3. Tail(Append(p, x)) = Append(Tail(p), x)
    OBVIOUS
  <1> QED BY <1>1, <1>2, <1>3

\* The path that VerifyConsistency climbs: the prover omits the head of a
\* first tree that is a complete subtree.
Full(st, leaves, t, lo, hi) ==
    IF OnesCount(t) = 1 THEN <<RootOf(leaves, 1, t)>> \o st[<<lo, hi>>]
    ELSE st[<<lo, hi>>]

\* The first hash of the path is the head of the largest subtree that ends the
\* first tree.
Starts(st, leaves, t, lo, hi) ==
    /\ st[<<lo, hi>>] \in Seq(Heads(leaves))
    /\ Full(st, leaves, t, lo, hi) \in Seq(Heads(leaves))
    /\ Full(st, leaves, t, lo, hi) # <<>>
    /\ Full(st, leaves, t, lo, hi)[1]
         = RootOf(leaves, t - OddPart(t - 1) + 1, t)

Lengthens(st, leaves, t, lo, hi, a, b, x) ==
    Tail(Full(st, leaves, t, lo, hi))
        = Append(Tail(Full(st, leaves, t, a, b)), x)

Continues(st, lo, hi, a, b, x) == st[<<lo, hi>>] = Append(st[<<a, b>>], x)

\* One step of the recursion appends one sibling to it.
LEMMA StartsOn ==
    ASSUME NEW leaves, Len(leaves) \in Nat, NEW t \in Nat, 1 <= t,
           t <= Len(leaves), NEW st, NEW lo, NEW hi, NEW a, NEW b,
           NEW x \in Heads(leaves),
           Continues(st, lo, hi, a, b, x), Starts(st, leaves, t, a, b)
    PROVE  /\ Starts(st, leaves, t, lo, hi)
           /\ Lengthens(st, leaves, t, lo, hi, a, b, x)
  <1> DEFINE H == Heads(leaves)
             p == st[<<a, b>>]
             f == Full(st, leaves, t, a, b)
             g == Full(st, leaves, t, lo, hi)
             h == RootOf(leaves, 1, t)
  <1>1. h \in H
    <2>1. PICK one \in Nat : one = 1
      OBVIOUS
    <2>2. RootOf(leaves, one, t) \in H
      BY <2>1, HeadIn
    <2> QED BY <2>1, <2>2
  <1>2. p \in Seq(H) /\ f \in Seq(H) /\ f # <<>> /\ x \in H
        /\ f[1] = RootOf(leaves, t - OddPart(t - 1) + 1, t)
    BY DEF Starts
  <1>4. st[<<lo, hi>>] = Append(p, x)
    BY DEF Continues
  <1>3. g = Append(f, x)
    <2> HIDE DEF H
    <2>1. CASE OnesCount(t) = 1
      <3>1. g = <<h>> \o Append(p, x) /\ f = <<h>> \o p
        BY <1>4, <2>1 DEF Full
      <3> HIDE DEF g, f, h, p
      <3> QED BY <1>1, <1>2, <3>1, SeqAppend
    <2>2. CASE OnesCount(t) # 1
      BY <1>4, <2>2 DEF Full
    <2> QED BY <2>1, <2>2
  <1> HIDE DEF H, p, f, g, h
  <1>5. /\ g \in Seq(H) /\ g # <<>> /\ g[1] = f[1]
        /\ Tail(g) = Append(Tail(f), x)
    BY <1>2, <1>3, TailAppend
  <1>6. st[<<lo, hi>>] \in Seq(H)
    BY <1>2, <1>4
  <1>7. Starts(st, leaves, t, lo, hi)
    BY <1>2, <1>5, <1>6 DEF Starts, g, H
  <1> QED BY <1>5, <1>7 DEF f, g, Lengthens

\* Where the recursion stops, the path is that one head.
LEMMA StartsAt ==
    ASSUME NEW leaves, Len(leaves) \in Nat, NEW t \in Nat, t < Len(leaves),
           NEW st, NEW lo \in Nat, Reaches(leaves, t, lo, t),
           Consists(st, leaves, t, lo, t)
    PROVE  /\ Starts(st, leaves, t, lo, t)
           /\ Tail(Full(st, leaves, t, lo, t)) = <<>>
  <1> DEFINE H == Heads(leaves)
             h == RootOf(leaves, lo, t)
             N == Len(leaves)
  <1>1. 1 <= lo /\ lo <= t /\ t <= N /\ Ends(lo, t)
    BY DEF Reaches
  <1>2. h \in H
    BY <1>1, HeadIn
  <1>3. lo = t - OddPart(t - 1) + 1 /\ (OnesCount(t) = 1 <=> lo = 1)
    BY <1>1, EndsIs
  <1>4. st[<<lo, t>>] = IF lo = 1 THEN <<>> ELSE <<h>>
    BY DEF Consists
  <1>5. Full(st, leaves, t, lo, t) = <<h>>
    <2>1. CASE lo = 1
      <3>1. Full(st, leaves, t, lo, t) = <<h>> \o <<>>
        BY <1>3, <1>4, <2>1 DEF Full
      <3> QED BY <3>1
    <2>2. CASE lo # 1
      BY <1>3, <1>4, <2>2 DEF Full
    <2> QED BY <2>1, <2>2
  <1>6. st[<<lo, t>>] \in Seq(H)
    <2> HIDE DEF H, h
    <2> QED BY <1>2, <1>4
  <1>7. h = RootOf(leaves, t - OddPart(t - 1) + 1, t)
    BY <1>3
  <1> HIDE DEF H, h
  <1>8. <<h>> \in Seq(H) /\ <<h>> # <<>> /\ <<h>>[1] = h /\ Tail(<<h>>) = <<>>
    BY <1>2
  <1> QED BY <1>5, <1>6, <1>7, <1>8 DEF Starts, H

\* In every slice that the recursion reaches, the path starts where the
\* verifier does.
LEMMA StartsAlways ==
    ASSUME NEW leaves, Len(leaves) \in Nat, NEW t \in Nat, 1 <= t,
           t < Len(leaves), NEW st,
           \A lo, hi \in Nat : Reaches(leaves, t, lo, hi) =>
              Consists(st, leaves, t, lo, hi)
    PROVE  \A lo, hi \in Nat : Reaches(leaves, t, lo, hi) =>
              Starts(st, leaves, t, lo, hi)
  <1> DEFINE Bad == {n \in Nat : \E lo, hi \in Nat :
                       /\ Reaches(leaves, t, lo, hi) /\ n = hi - lo
                       /\ ~Starts(st, leaves, t, lo, hi)}
  <1>1. SUFFICES ASSUME Bad # {} PROVE FALSE
    <2> SUFFICES ASSUME NEW lo \in Nat, NEW hi \in Nat,
                        Reaches(leaves, t, lo, hi),
                        ~Starts(st, leaves, t, lo, hi)
                 PROVE  Bad # {}
      OBVIOUS
    <2>1. lo <= t /\ t <= hi
      BY DEF Reaches
    <2>2. hi - lo \in Nat
      BY <2>1
    <2>3. hi - lo \in Bad
      BY <2>2
    <2> QED BY <2>3
  <1>2. PICK n \in Bad : \A j \in Bad : n <= j
    <2>1. Bad \in SUBSET Nat
      OBVIOUS
    <2> HIDE DEF Bad
    <2> QED BY <1>1, <2>1, LeastNumber
  <1>3. PICK lo \in Nat, hi \in Nat :
           /\ Reaches(leaves, t, lo, hi) /\ n = hi - lo
           /\ ~Starts(st, leaves, t, lo, hi)
    OBVIOUS
  <1>4. ASSUME NEW a \in Nat, NEW b \in Nat, Reaches(leaves, t, a, b), b - a < n
        PROVE  Starts(st, leaves, t, a, b)
    <2>1. b - a \in Nat
      <3>1. a <= t /\ t <= b
        BY <1>4 DEF Reaches
      <3> QED BY <3>1
    <2>2. b - a \notin Bad
      <3>1. n \in Nat /\ ~(n <= b - a)
        BY <1>4, <2>1
      <3> HIDE DEF Bad
      <3> QED BY <1>2, <3>1
    <2> QED BY <1>4, <2>1, <2>2
  <1> HIDE DEF Bad
  <1>5. 1 <= lo /\ lo <= t /\ t <= hi /\ hi <= Len(leaves)
    BY <1>3 DEF Reaches
  <1>6. CASE hi = t
    <2>1. Reaches(leaves, t, lo, t) /\ Consists(st, leaves, t, lo, t)
      BY <1>3, <1>6
    <2>2. Starts(st, leaves, t, lo, t)
      BY <2>1, StartsAt
    <2> QED BY <1>3, <1>6, <2>2
  <1>7. CASE hi # t
    <2> DEFINE p == Split(lo, hi)
               m == lo + p - 1
               k == lo + p
    <2>1. lo < hi
      BY <1>3, <1>7, ReachesOn
    <2>2. /\ p \in Nat /\ m \in Nat /\ k \in Nat /\ lo <= m /\ m < hi
          /\ lo < k /\ k <= hi
      BY <2>1, SplitIn
    <2>3. /\ (t <= lo - 1 + p => Reaches(leaves, t, lo, m))
          /\ (~(t <= lo - 1 + p) => Reaches(leaves, t, k, hi))
      BY <1>3, <1>7, ReachesOn
    <2>4. st[<<lo, hi>>] = IF t <= lo - 1 + p
                           THEN Append(st[<<lo, m>>], RootOf(leaves, k, hi))
                           ELSE Append(st[<<k, hi>>], RootOf(leaves, lo, m))
      BY <1>3, <1>7 DEF Consists
    <2> HIDE DEF m, k
    <2>5. m <= Len(leaves) /\ 1 <= k /\ t <= Len(leaves)
      BY <1>5, <2>2
    <2>6. CASE t <= lo - 1 + p
      <3>1. Starts(st, leaves, t, lo, m)
        <4>1. m - lo < n
          BY <1>3, <2>2
        <4> QED BY <1>4, <2>2, <2>3, <2>6, <4>1
      <3>2. RootOf(leaves, k, hi) \in Heads(leaves)
        BY <1>5, <2>2, <2>5, HeadIn
      <3>3. Continues(st, lo, hi, lo, m, RootOf(leaves, k, hi))
        BY <2>4, <2>6 DEF Continues
      <3>4. Starts(st, leaves, t, lo, hi)
        BY <2>5, <3>1, <3>2, <3>3, StartsOn
      <3> QED BY <1>3, <3>4
    <2>7. CASE ~(t <= lo - 1 + p)
      <3>1. Starts(st, leaves, t, k, hi)
        <4>1. hi - k < n
          BY <1>3, <2>2
        <4> QED BY <1>4, <2>2, <2>3, <2>7, <4>1
      <3>2. RootOf(leaves, lo, m) \in Heads(leaves)
        BY <1>5, <2>2, <2>5, HeadIn
      <3>3. Continues(st, lo, hi, k, hi, RootOf(leaves, lo, m))
        BY <2>4, <2>7 DEF Continues
      <3>4. Starts(st, leaves, t, lo, hi)
        BY <2>5, <3>1, <3>2, <3>3, StartsOn
      <3> QED BY <1>3, <3>4
    <2> QED BY <2>6, <2>7
  <1> QED BY <1>6, <1>7

\* Every earlier tree has a consistency proof: VerifyConsistency accepts what
\* ConsistencyProof returns, for every tree and every earlier size.
THEOREM ConsistencyComplete ==
    ASSUME NEW leaves, Len(leaves) \in Nat, NEW t \in Nat, 1 <= t,
           t <= Len(leaves)
    PROVE  VerifyConsistency(t, Len(leaves), RootOf(leaves, 1, t),
                             Root(leaves), ConsistencyProof(t, leaves))
  <1> DEFINE N == Len(leaves)
             D == Around(leaves, t)
  <1>1. PICK st : /\ ConsistencyProof(t, leaves) = st[<<1, N>>]
                  /\ \A lo, hi \in Nat : <<lo, hi>> \in D =>
                       Consists(st, leaves, t, lo, hi)
    BY ConsistencyPath
  <1>2. ASSUME NEW lo \in Nat, NEW hi \in Nat
        PROVE  <<lo, hi>> \in D <=> 1 <= lo /\ lo <= t /\ t <= hi /\ hi <= N
    <2>1. PICK n \in Nat : n = 0
      OBVIOUS
    <2> QED BY <2>1, NearIs
  <1>3. \A lo, hi \in Nat : Reaches(leaves, t, lo, hi) =>
           Consists(st, leaves, t, lo, hi)
    BY <1>1, <1>2 DEF Reaches
  <1>4. CASE t = N
    <2>1. PICK one \in Nat : one = 1
      OBVIOUS
    <2>2. Consists(st, leaves, t, one, N)
      BY <1>1, <1>2, <1>4, <2>1
    <2>3. ConsistencyProof(t, leaves) = <<>>
      BY <1>1, <1>4, <2>1, <2>2 DEF Consists
    <2>4. RootOf(leaves, 1, t) = Root(leaves)
      BY <1>4 DEF Root
    <2> QED BY <1>4, <2>3, <2>4 DEF VerifyConsistency
  <1>5. CASE t < N
    <2> DEFINE R == {s \in D : Reaches(leaves, t, s[1], s[2])}
               Stop == {s \in D : s[2] = t}
               up == [s \in D |-> Tail(Full(st, leaves, t, s[1], s[2]))]
               x == RootOf(leaves, t - OddPart(t - 1) + 1, t)
               w == Begins(t, N, x)
    <2>1. ASSUME NEW lo \in Nat, NEW hi \in Nat
          PROVE  /\ <<lo, hi>> \in R <=> Reaches(leaves, t, lo, hi)
                 /\ <<lo, hi>> \in R => <<lo, hi>> \in D
                 /\ <<lo, hi>> \in R => (<<lo, hi>> \in Stop <=> hi = t)
                 /\ <<lo, hi>> \in R =>
                      up[<<lo, hi>>] = Tail(Full(st, leaves, t, lo, hi))
      <3>1. <<lo, hi>> \in R <=> <<lo, hi>> \in D /\ Reaches(leaves, t, lo, hi)
        OBVIOUS
      <3>2. Reaches(leaves, t, lo, hi) => <<lo, hi>> \in D
        BY <1>2 DEF Reaches
      <3>3. <<lo, hi>> \in D =>
               up[<<lo, hi>>] = Tail(Full(st, leaves, t, lo, hi))
        OBVIOUS
      <3>4. <<lo, hi>> \in D => (<<lo, hi>> \in Stop <=> hi = t)
        OBVIOUS
      <3> HIDE DEF R, Stop, up, D
      <3> QED BY <3>1, <3>2, <3>3, <3>4
    <2>2. \A lo, hi \in Nat : Reaches(leaves, t, lo, hi) =>
             Starts(st, leaves, t, lo, hi)
      BY <1>3, <1>5, StartsAlways
    <2> HIDE DEF R, Stop, up, D
    <2>3. LeadsUp(up, leaves, t, R, Stop)
      <3> SUFFICES ASSUME NEW lo \in Nat, NEW hi \in Nat, <<lo, hi>> \in R
                   PROVE  /\ 1 <= lo /\ lo <= t /\ t <= hi /\ hi <= N
                          /\ Aligned(lo, hi, N)
                          /\ <<lo, hi>> \in Stop => up[<<lo, hi>>] = <<>>
                          /\ <<lo, hi>> \notin Stop =>
                               /\ lo < hi
                               /\ t <= lo - 1 + Split(lo, hi) =>
                                    /\ <<lo, lo + Split(lo, hi) - 1>> \in R
                                    /\ up[<<lo, hi>>] = Append(up[<<lo, lo + Split(lo, hi) - 1>>],
                                             RootOf(leaves, lo + Split(lo, hi), hi))
                               /\ ~(t <= lo - 1 + Split(lo, hi)) =>
                                    /\ <<lo + Split(lo, hi), hi>> \in R
                                    /\ up[<<lo, hi>>] = Append(up[<<lo + Split(lo, hi), hi>>],
                                             RootOf(leaves, lo, lo + Split(lo, hi) - 1))
        BY DEF LeadsUp
      <3>1. /\ 1 <= lo /\ lo <= t /\ t <= hi /\ hi <= N /\ Aligned(lo, hi, N)
            /\ Reaches(leaves, t, lo, hi)
        BY <2>1 DEF Reaches
      <3>2. CASE <<lo, hi>> \in Stop
        <4>1. hi = t
          BY <2>1, <3>2
        <4>2. Tail(Full(st, leaves, t, lo, t)) = <<>>
          BY <1>3, <1>5, <3>1, <4>1, StartsAt
        <4> QED BY <2>1, <3>1, <3>2, <4>1, <4>2
      <3>3. CASE <<lo, hi>> \notin Stop
        <4>1. hi # t
          BY <2>1, <3>3
        <4> DEFINE p == Split(lo, hi)
                   m == lo + p - 1
                   k == lo + p
        <4>2. lo < hi
          BY <3>1, <4>1, ReachesOn
        <4>3. /\ p \in Nat /\ m \in Nat /\ k \in Nat /\ lo <= m /\ m < hi
              /\ lo < k /\ k <= hi
          BY <4>2, SplitIn
        <4>4. /\ (t <= lo - 1 + p => Reaches(leaves, t, lo, m))
              /\ (~(t <= lo - 1 + p) => Reaches(leaves, t, k, hi))
          BY <3>1, <4>1, ReachesOn
        <4>5. st[<<lo, hi>>] = IF t <= lo - 1 + p
                               THEN Append(st[<<lo, m>>], RootOf(leaves, k, hi))
                               ELSE Append(st[<<k, hi>>], RootOf(leaves, lo, m))
          BY <1>3, <3>1, <4>1 DEF Consists
        <4> HIDE DEF m, k
        <4>6. m <= Len(leaves) /\ 1 <= k /\ t <= Len(leaves)
          BY <3>1, <4>3
        <4>7. ASSUME t <= lo - 1 + p
              PROVE  /\ <<lo, m>> \in R
                     /\ up[<<lo, hi>>] = Append(up[<<lo, m>>],
                                                RootOf(leaves, k, hi))
          <5>1. Reaches(leaves, t, lo, m) /\ Starts(st, leaves, t, lo, m)
            BY <2>2, <4>3, <4>4, <4>7
          <5>2. RootOf(leaves, k, hi) \in Heads(leaves)
            BY <3>1, <4>3, <4>6, HeadIn
          <5>3. st[<<lo, hi>>] = Append(st[<<lo, m>>], RootOf(leaves, k, hi))
            BY <4>5, <4>7
          <5>4. Tail(Full(st, leaves, t, lo, hi))
                  = Append(Tail(Full(st, leaves, t, lo, m)), RootOf(leaves, k, hi))
            <6> DEFINE y == RootOf(leaves, k, hi)
            <6>1. y \in Heads(leaves) /\ Continues(st, lo, hi, lo, m, y)
              BY <5>2, <5>3 DEF Continues
            <6>0. Starts(st, leaves, t, lo, m)
              BY <5>1
            <6> HIDE DEF y, p
            <6>2. Lengthens(st, leaves, t, lo, hi, lo, m, y)
              BY <4>6, <6>0, <6>1, StartsOn
            <6> QED BY <6>2 DEF y, Lengthens
          <5> QED BY <2>1, <4>3, <5>1, <5>4
        <4>8. ASSUME ~(t <= lo - 1 + p)
              PROVE  /\ <<k, hi>> \in R
                     /\ up[<<lo, hi>>] = Append(up[<<k, hi>>],
                                                RootOf(leaves, lo, m))
          <5>1. Reaches(leaves, t, k, hi) /\ Starts(st, leaves, t, k, hi)
            BY <2>2, <4>3, <4>4, <4>8
          <5>2. RootOf(leaves, lo, m) \in Heads(leaves)
            BY <3>1, <4>3, <4>6, HeadIn
          <5>3. st[<<lo, hi>>] = Append(st[<<k, hi>>], RootOf(leaves, lo, m))
            BY <4>5, <4>8
          <5>4. Tail(Full(st, leaves, t, lo, hi))
                  = Append(Tail(Full(st, leaves, t, k, hi)), RootOf(leaves, lo, m))
            <6> DEFINE y == RootOf(leaves, lo, m)
            <6>1. y \in Heads(leaves) /\ Continues(st, lo, hi, k, hi, y)
              BY <5>2, <5>3 DEF Continues
            <6>0. Starts(st, leaves, t, k, hi)
              BY <5>1
            <6> HIDE DEF y, p
            <6>2. Lengthens(st, leaves, t, lo, hi, k, hi, y)
              BY <4>6, <6>0, <6>1, StartsOn
            <6> QED BY <6>2 DEF y, Lengthens
          <5> QED BY <2>1, <4>3, <5>1, <5>4
        <4> QED BY <3>1, <3>3, <4>2, <4>7, <4>8 DEF m, k
      <3> QED BY <3>1, <3>2, <3>3
    <2>4. ASSUME NEW lo \in Nat, NEW hi \in Nat, <<lo, hi>> \in R \cap Stop
          PROVE  Rebuilt(w, leaves, t, lo, hi)
      <3>1. hi = t /\ Reaches(leaves, t, lo, hi)
        BY <2>1, <2>4
      <3>2. 1 <= lo /\ lo <= t /\ Ends(lo, t)
        BY <3>1 DEF Reaches
      <3>3. lo = t - OddPart(t - 1) + 1
        BY <1>5, <3>2, EndsIs
      <3>4. PICK node \in Nat, last \in Nat :
               /\ node = (t - 1) \div OddPart(t - 1)
               /\ last = (N - 1) \div OddPart(t - 1)
               /\ Stands(lo, t, N, node, last)
        BY <1>5, <3>2, EndsIs
      <3>5. w = [node |-> node, last |-> last, ok |-> TRUE,
                 first |-> RootOf(leaves, lo, t), second |-> RootOf(leaves, lo, t)]
        BY <3>3, <3>4 DEF Begins
      <3> HIDE DEF w
      <3> QED BY <3>1, <3>4, <3>5 DEF Rebuilt
    <2>5. Reaches(leaves, t, 1, N)
      BY <1>5, WholeAligned DEF Reaches
    <2>6. PICK one \in Nat : one = 1
      OBVIOUS
    <2>7. <<one, N>> \in R
      BY <2>1, <2>5, <2>6
    <2> HIDE DEF w
    <2>8. \A lo, hi \in Nat : <<lo, hi>> \in R => Leads(up, leaves, t, w, lo, hi)
      BY <2>3, <2>4, Rebuilds
    <2>9. Leads(up, leaves, t, w, one, N)
      BY <2>7, <2>8
    <2> DEFINE path == Full(st, leaves, t, 1, N)
               v == Climbed(w, Tail(path))
    <2>10. v.ok /\ v.last = 0 /\ v.first = RootOf(leaves, 1, t)
           /\ v.second = Root(leaves)
      <3>1. Rebuilt(v, leaves, t, 1, N)
        BY <2>1, <2>6, <2>7, <2>9 DEF Leads
      <3> HIDE DEF v
      <3> QED BY <1>5, <3>1, RebuiltWhole
    <2>11. path # <<>> /\ path[1] = x
      BY <2>2, <2>5, <2>6 DEF Starts
    <2>12. path = IF OnesCount(t) = 1
                  THEN <<RootOf(leaves, 1, t)>> \o ConsistencyProof(t, leaves)
                  ELSE ConsistencyProof(t, leaves)
      BY <1>1 DEF Full
    <2> HIDE DEF path, x, v
    <2>13. w = [node |-> (t - 1) \div OddPart(t - 1),
                last |-> (N - 1) \div OddPart(t - 1), ok |-> TRUE,
                first |-> path[1], second |-> path[1]]
      BY <2>11 DEF w, Begins
    <2>14. 0 < t /\ t <= N /\ t # N
      BY <1>5
    <2>15. CASE OnesCount(t) = 1
      <3>1. path = <<RootOf(leaves, 1, t)>> \o ConsistencyProof(t, leaves)
        BY <2>12, <2>15
      <3> QED BY <2>10, <2>11, <2>13, <2>14, <2>15, <3>1
              DEF VerifyConsistency, v
    <2>16. CASE OnesCount(t) # 1
      <3>1. path = ConsistencyProof(t, leaves)
        BY <2>12, <2>16
      <3> QED BY <2>10, <2>11, <2>13, <2>14, <2>16, <3>1
              DEF VerifyConsistency, v
    <2> QED BY <2>15, <2>16
  <1> QED BY <1>4, <1>5

(***************************************************************************)
(* The incremental tree: the loop of Tree.Append.                          *)
(***************************************************************************)

\* One round of the loop.
JoinLast(s) ==
    Append(SubSeq(s, 1, Len(s) - 2), hashNode(s[Len(s) - 1], s[Len(s)]))

\* The rounds, one after another.
Joins(f, s, rounds) ==
    f = [k \in 0 .. rounds |-> IF k = 0 THEN s ELSE JoinLast(f[k - 1])]

\* The loop of Tree.Append defines a function.
LEMMA JoinsExist ==
    ASSUME NEW s, NEW rounds \in Nat
    PROVE  \E f : Joins(f, s, rounds)
  <1> DEFINE T == {n \in Nat : \E f : Joins(f, s, n)}
  <1>1. 0 \in T
    <2> DEFINE f == [k \in 0 .. 0 |-> s]
    <2>1. f = [k \in 0 .. 0 |-> IF k = 0 THEN s ELSE JoinLast(f[k - 1])]
      OBVIOUS
    <2> HIDE DEF f
    <2>2. Joins(f, s, 0)
      BY <2>1 DEF Joins
    <2> QED BY <2>2
  <1>2. ASSUME NEW n \in 0 .. rounds - 1, n \in T PROVE n + 1 \in T
    <2>1. PICK f : Joins(f, s, n)
      BY <1>2
    <2>2. \A k \in 0 .. n : f[k] = IF k = 0 THEN s ELSE JoinLast(f[k - 1])
      BY <2>1 DEF Joins
    <2> DEFINE g == [k \in 0 .. n + 1 |-> IF k <= n THEN f[k] ELSE JoinLast(f[n])]
    <2>3. ASSUME NEW k \in 0 .. n + 1
          PROVE  g[k] = IF k = 0 THEN s ELSE JoinLast(g[k - 1])
      <3>1. CASE k = 0
        BY <2>2, <3>1
      <3>2. CASE k \in 1 .. n
        <4>1. g[k] = f[k] /\ g[k - 1] = f[k - 1] /\ k \in 0 .. n /\ k # 0
          BY <3>2
        <4> HIDE DEF g
        <4> QED BY <2>2, <4>1
      <3>3. CASE k = n + 1
        <4>1. g[k] = JoinLast(f[n]) /\ g[k - 1] = f[n] /\ k # 0
          BY <3>3
        <4> HIDE DEF g
        <4> QED BY <4>1
      <3> QED BY <3>1, <3>2, <3>3
    <2>4. g = [k \in 0 .. n + 1 |-> g[k]]
      OBVIOUS
    <2> HIDE DEF g
    <2>5. Joins(g, s, n + 1)
      BY <2>3, <2>4 DEF Joins
    <2>6. n + 1 \in Nat
      OBVIOUS
    <2> QED BY <2>5, <2>6
  <1>3. rounds \in T
    <2> HIDE DEF T
    <2>1. \A n \in 0 .. rounds : n \in T
      BY <1>1, <1>2, Induction
    <2> QED BY <2>1
  <1> QED BY <1>3

\* Its values are determined by the subtrees.
LEMMA JoinsUnique ==
    ASSUME NEW s, NEW rounds \in Nat, NEW f, NEW g,
           Joins(f, s, rounds), Joins(g, s, rounds)
    PROVE  f[rounds] = g[rounds]
  <1> DEFINE T == {k \in Nat : f[k] = g[k]}
  <1>1. 0 \in T
    BY DEF Joins
  <1>2. ASSUME NEW n \in 0 .. rounds - 1, n \in T PROVE n + 1 \in T
    <2>1. n + 1 \in 0 .. rounds /\ n + 1 # 0 /\ (n + 1) - 1 = n
      OBVIOUS
    <2>2. f[n + 1] = JoinLast(f[n]) /\ g[n + 1] = JoinLast(g[n])
      BY <2>1 DEF Joins
    <2> QED BY <1>2, <2>1, <2>2
  <1>3. rounds \in T
    <2> HIDE DEF T
    <2>1. \A n \in 0 .. rounds : n \in T
      BY <1>1, <1>2, Induction
    <2> QED BY <2>1
  <1> QED BY <1>3

\* No round leaves the subtrees as they are; otherwise the first round joins
\* the last two and the others go on from there.
LEMMA JoinedIs ==
    ASSUME NEW s, NEW rounds \in Nat
    PROVE  /\ Joined(s, 0) = s
           /\ Joined(s, rounds + 1) = Joined(JoinLast(s), rounds)
  <1>1. ASSUME NEW u, NEW n \in Nat
        PROVE  \E f : Joins(f, u, n) /\ Joined(u, n) = f[n]
    <2> DEFINE f == CHOOSE f : Joins(f, u, n)
    <2>1. Joins(f, u, n)
      BY JoinsExist
    <2>2. Joined(u, n) = f[n]
      BY DEF Joined, Joins, JoinLast
    <2> HIDE DEF f
    <2> QED BY <2>1, <2>2
  <1>2. Joined(s, 0) = s
    <2>1. PICK z \in Nat : z = 0
      OBVIOUS
    <2>2. PICK f : Joins(f, s, z) /\ Joined(s, z) = f[z]
      BY <1>1
    <2>3. f[z] = s
      BY <2>1, <2>2 DEF Joins
    <2> QED BY <2>1, <2>2, <2>3
  <1>3. Joined(s, rounds + 1) = Joined(JoinLast(s), rounds)
    <2> DEFINE m == rounds + 1
    <2>0. m \in Nat
      OBVIOUS
    <2>1. PICK f : Joins(f, s, m) /\ Joined(s, m) = f[m]
      <3> HIDE DEF m
      <3> QED BY <1>1, <2>0
    <2>2. \A k \in 0 .. m : f[k] = IF k = 0 THEN s ELSE JoinLast(f[k - 1])
      BY <2>1 DEF Joins
    <2> DEFINE g == [k \in 0 .. rounds |-> f[k + 1]]
    <2>3. ASSUME NEW k \in 0 .. rounds
          PROVE  g[k] = IF k = 0 THEN JoinLast(s) ELSE JoinLast(g[k - 1])
      <3>1. g[k] = f[k + 1] /\ k + 1 \in 0 .. m /\ k + 1 # 0
        OBVIOUS
      <3>2. f[k + 1] = JoinLast(f[k])
        <4>1. (k + 1) - 1 = k
          OBVIOUS
        <4> QED BY <2>2, <3>1, <4>1
      <3>3. CASE k = 0
        <4>1. f[k] = s
          BY <2>2, <3>3
        <4> QED BY <3>1, <3>2, <3>3, <4>1
      <3>4. CASE k # 0
        <4>1. g[k - 1] = f[k]
          BY <3>4
        <4> QED BY <3>1, <3>2, <3>4, <4>1
      <3> QED BY <3>3, <3>4
    <2>4. g = [k \in 0 .. rounds |-> g[k]] /\ g[rounds] = f[m]
      OBVIOUS
    <2> HIDE DEF g, m
    <2>5. Joins(g, JoinLast(s), rounds)
      BY <2>3, <2>4 DEF Joins
    <2>6. PICK h : Joins(h, JoinLast(s), rounds)
                   /\ Joined(JoinLast(s), rounds) = h[rounds]
      BY <1>1
    <2>7. g[rounds] = h[rounds]
      BY <2>5, <2>6, JoinsUnique
    <2> QED BY <2>1, <2>4, <2>6, <2>7 DEF m
  <1> QED BY <1>2, <1>3

\* The subtrees of the first n leaves: b holds where each of them ends, each
\* the largest complete subtree that ends there.
Bounds(b, s, leaves, n) ==
    /\ b \in [0 .. Len(s) -> Nat] /\ b[0] = 0 /\ b[Len(s)] = n
    /\ \A i \in 1 .. Len(s) : /\ Ends(b[i - 1] + 1, b[i])
                              /\ s[i] = RootOf(leaves, b[i - 1] + 1, b[i])

IsTree(s, leaves, n) ==
    /\ s \in Seq(Heads(leaves)) /\ Len(s) = OnesCount(n)
    /\ \E b : Bounds(b, s, leaves, n)

\* The largest complete subtree that ends at n adds one bit.
LEMMA EndsCount ==
    ASSUME NEW l \in Nat, NEW n \in Nat, Ends(l + 1, n)
    PROVE  l < n /\ OnesCount(n) = OnesCount(l) + 1 /\ OnesCount(l) \in Nat
  <1>1. PICK p \in Powers, q \in Nat :
           (l + 1) - 1 = q * (2 * p) /\ n = (l + 1) - 1 + p
    BY DEF Ends
  <1>2. p \in Nat /\ p >= 1
    BY PowerIs
  <1>3. l = (2 * q) * p /\ n = (2 * q + 1) * p /\ n = l + p
        /\ 2 * q \in Nat /\ 2 * q + 1 \in Nat
    BY <1>1, <1>2
  <1>4. OnesCount(l) = OnesCount(2 * q) /\ OnesCount(n) = OnesCount(2 * q + 1)
    BY <1>3, OnesCountShift
  <1>5. OnesCount(2 * q) = OnesCount(q) /\ OnesCount(2 * q + 1) = OnesCount(q) + 1
        /\ OnesCount(q) \in Nat
    BY OnesCountDouble
  <1> QED BY <1>2, <1>3, <1>4, <1>5

\* A complete subtree after the others.
LEMMA TreePush ==
    ASSUME NEW leaves, Len(leaves) \in Nat, NEW l \in Nat, NEW n \in Nat,
           n <= Len(leaves), Ends(l + 1, n), NEW r, IsTree(r, leaves, l)
    PROVE  IsTree(Append(r, RootOf(leaves, l + 1, n)), leaves, n)
  <1> DEFINE H == Heads(leaves)
             x == RootOf(leaves, l + 1, n)
             s == Append(r, x)
             m == Len(r)
  <1>1. l < n /\ OnesCount(n) = OnesCount(l) + 1 /\ OnesCount(l) \in Nat
    BY EndsCount
  <1>2. x \in H
    <2> DEFINE a == l + 1
    <2>1. a \in Nat /\ 1 <= a /\ a <= n
      BY <1>1
    <2> HIDE DEF a
    <2>2. RootOf(leaves, a, n) \in Heads(leaves)
      BY <2>1, HeadIn
    <2> QED BY <2>2 DEF a
  <1>3. r \in Seq(H) /\ m = OnesCount(l) /\ m \in Nat
    BY <1>1 DEF IsTree
  <1>4. PICK b : Bounds(b, r, leaves, l)
    BY DEF IsTree
  <1>5. /\ b \in [0 .. m -> Nat] /\ b[0] = 0 /\ b[m] = l
        /\ \A i \in 1 .. m : /\ Ends(b[i - 1] + 1, b[i])
                             /\ r[i] = RootOf(leaves, b[i - 1] + 1, b[i])
    BY <1>4 DEF Bounds
  <1> HIDE DEF x, H
  <1>6. /\ s \in Seq(H) /\ Len(s) = m + 1 /\ s[m + 1] = x
        /\ \A i \in 1 .. m : s[i] = r[i]
    BY <1>2, <1>3
  <1> HIDE DEF s, m
  <1> DEFINE c == [i \in 0 .. m + 1 |-> IF i <= m THEN b[i] ELSE n]
  <1>7. /\ c[m + 1] = n /\ \A i \in 0 .. m : c[i] = b[i]
        /\ c = [i \in 0 .. m + 1 |-> c[i]]
    BY <1>3
  <1> HIDE DEF c
  <1>8. \A i \in 0 .. m + 1 : c[i] \in Nat
    <2> SUFFICES ASSUME NEW i \in 0 .. m + 1 PROVE c[i] \in Nat
      OBVIOUS
    <2>1. CASE i \in 0 .. m
      BY <1>5, <1>7, <2>1
    <2>2. CASE i = m + 1
      BY <1>7, <2>2
    <2> QED BY <1>3, <2>1, <2>2
  <1>9. ASSUME NEW i \in 1 .. m + 1
        PROVE  Ends(c[i - 1] + 1, c[i]) /\ s[i] = RootOf(leaves, c[i - 1] + 1, c[i])
    <2>1. CASE i \in 1 .. m
      <3>0. i - 1 \in 0 .. m /\ i \in 0 .. m
        BY <1>3, <2>1
      <3>1. c[i - 1] = b[i - 1] /\ c[i] = b[i]
        BY <1>7, <3>0
      <3> QED BY <1>5, <1>6, <2>1, <3>1
    <2>2. CASE i = m + 1
      <3>0. i - 1 = m /\ m \in 0 .. m
        BY <1>3, <2>2
      <3>1. c[i - 1] = l /\ c[i] = n
        BY <1>5, <1>7, <2>2, <3>0
      <3> QED BY <1>6, <2>2, <3>1 DEF x
    <2> QED BY <1>3, <2>1, <2>2
  <1>10. Bounds(c, s, leaves, n)
    <2>1. c \in [0 .. m + 1 -> Nat]
      BY <1>7, <1>8
    <2>2. c[0] = 0
      <3>1. 0 \in 0 .. m
        BY <1>3
      <3> QED BY <1>5, <1>7, <3>1
    <2> QED BY <1>6, <1>7, <1>9, <2>1, <2>2 DEF Bounds
  <1>11. Len(s) = OnesCount(n)
    BY <1>1, <1>3, <1>6
  <1>12. IsTree(s, leaves, n)
    BY <1>6, <1>10, <1>11 DEF IsTree, H
  <1> QED BY <1>12 DEF s, x

\* The last of the subtrees.
LEMMA TreePop ==
    ASSUME NEW leaves, Len(leaves) \in Nat, NEW n \in Nat, n > 0, NEW s,
           IsTree(s, leaves, n)
    PROVE  \E r, l : /\ l \in Nat /\ Ends(l + 1, n) /\ IsTree(r, leaves, l)
                     /\ s = Append(r, RootOf(leaves, l + 1, n))
  <1> DEFINE H == Heads(leaves)
             m == Len(s) - 1
             r == SubSeq(s, 1, m)
  <1>1. s \in Seq(H) /\ Len(s) = OnesCount(n)
    BY DEF IsTree
  <1>2. OnesCount(n) > 0 /\ OnesCount(n) \in Nat
    BY OnesCountPositive, OnesCountIs
  <1>3. m \in Nat /\ Len(s) = m + 1
    BY <1>1, <1>2
  <1>4. PICK b : Bounds(b, s, leaves, n)
    BY DEF IsTree
  <1> HIDE DEF H, m
  <1>5. /\ b \in [0 .. m + 1 -> Nat] /\ b[0] = 0 /\ b[m + 1] = n
        /\ \A i \in 1 .. m + 1 : /\ Ends(b[i - 1] + 1, b[i])
                                 /\ s[i] = RootOf(leaves, b[i - 1] + 1, b[i])
    BY <1>3, <1>4 DEF Bounds
  <1>6. /\ r \in Seq(H) /\ Len(r) = m /\ s = Append(r, s[m + 1])
        /\ \A i \in 1 .. m : r[i] = s[i]
    BY <1>1, <1>3
  <1> HIDE DEF r
  <1> DEFINE l == b[m]
  <1>7. l \in Nat /\ Ends(l + 1, n) /\ s[m + 1] = RootOf(leaves, l + 1, n)
    <2>1. m \in 0 .. m + 1 /\ m + 1 \in 1 .. m + 1 /\ (m + 1) - 1 = m
      BY <1>3
    <2> QED BY <1>5, <2>1
  <1> DEFINE c == [i \in 0 .. m |-> b[i]]
  <1>8. /\ c \in [0 .. m -> Nat] /\ \A i \in 0 .. m : c[i] = b[i]
    <2>1. \A i \in 0 .. m : b[i] \in Nat
      BY <1>3, <1>5
    <2> QED BY <2>1
  <1> HIDE DEF c
  <1>9. Bounds(c, r, leaves, l)
    <2>1. c[0] = 0 /\ c[m] = l
      BY <1>3, <1>5, <1>8
    <2>2. ASSUME NEW i \in 1 .. m
          PROVE  Ends(c[i - 1] + 1, c[i]) /\ r[i] = RootOf(leaves, c[i - 1] + 1, c[i])
      <3>1. c[i - 1] = b[i - 1] /\ c[i] = b[i] /\ i \in 1 .. m + 1
        BY <1>3, <1>8
      <3> QED BY <1>5, <1>6, <3>1
    <2> HIDE DEF l
    <2> QED BY <1>6, <1>8, <2>1, <2>2 DEF Bounds
  <1>10. OnesCount(n) = OnesCount(l) + 1 /\ OnesCount(l) \in Nat
    <2> HIDE DEF l
    <2> QED BY <1>7, EndsCount
  <1>11. Len(r) = OnesCount(l)
    <2>1. m + 1 = OnesCount(l) + 1
      BY <1>1, <1>3, <1>10
    <2> HIDE DEF l
    <2>2. m = OnesCount(l)
      BY <1>3, <1>10, <2>1
    <2> QED BY <1>6, <2>2
  <1> HIDE DEF l
  <1>12. IsTree(r, leaves, l)
    BY <1>6, <1>9, <1>11 DEF IsTree, H
  <1> QED BY <1>6, <1>7, <1>12

\* What Tree.Append leaves of the subtrees of l leaves and one more complete
\* subtree after them.
Merged(r, leaves, l, n) ==
    LET s == Append(r, RootOf(leaves, l + 1, n))
        k == Len(s) - OnesCount(n)
    IN  k \in Nat /\ IsTree(Joined(s, k), leaves, n)

\* Nothing to join: the new subtree is smaller than the last one.
LEMMA MergeNone ==
    ASSUME NEW leaves, Len(leaves) \in Nat, NEW l \in Nat, NEW n \in Nat,
           n <= Len(leaves), Ends(l + 1, n), NEW r, IsTree(r, leaves, l)
    PROVE  Merged(r, leaves, l, n)
  <1> DEFINE s == Append(r, RootOf(leaves, l + 1, n))
             k == Len(s) - OnesCount(n)
  <1>1. IsTree(s, leaves, n)
    BY TreePush
  <1> HIDE DEF s
  <1>2. k = 0
    <2>1. Len(s) = OnesCount(n) /\ OnesCount(n) \in Nat
      BY <1>1, OnesCountIs DEF IsTree
    <2> QED BY <2>1
  <1>3. Joined(s, 0) = s
    <2>1. PICK z \in Nat : z = 0
      OBVIOUS
    <2>2. Joined(s, 0) = s
      BY <2>1, JoinedIs
    <2> QED BY <2>2
  <1>4. k \in Nat /\ IsTree(Joined(s, k), leaves, n)
    BY <1>1, <1>2, <1>3
  <1> QED BY <1>4 DEF Merged, s

\* The same for all trees of l leaves.
MergesInto(leaves, l, n) ==
    \A r : IsTree(r, leaves, l) => Merged(r, leaves, l, n)

\* The new subtree is as large as the last one: they are joined, and the loop
\* goes on with a subtree of twice the size.
LEMMA MergeOne ==
    ASSUME NEW leaves, Len(leaves) \in Nat, NEW q \in Nat, NEW p \in Powers,
           NEW l \in Nat, NEW n \in Nat, l = (2 * q + 1) * p, n = l + p,
           n <= Len(leaves), NEW r, IsTree(r, leaves, l),
           NEW o \in Nat, o = q * (2 * p),
           MergesInto(leaves, o, n)
    PROVE  Merged(r, leaves, l, n)
  <1>1. p \in Nat /\ p >= 1 /\ l = o + p /\ l > 0
    BY PowerIs
  <1>2. PICK t, m : /\ m \in Nat /\ Ends(m + 1, l) /\ IsTree(t, leaves, m)
                    /\ r = Append(t, RootOf(leaves, m + 1, l))
    BY <1>1, TreePop
  <1>3. m = o
    <2>1. PICK c \in Powers, d \in Nat :
             (m + 1) - 1 = d * (2 * c) /\ l = (m + 1) - 1 + c
      BY <1>2 DEF Ends
    <2>2. c \in Nat /\ c >= 1
      BY PowerIs
    <2>3. m = d * (2 * c) /\ l = m + c /\ l = (2 * d + 1) * c
      BY <1>2, <2>1, <2>2
    <2>4. p <= c
      <3>1. 2 * q + 1 \in Nat /\ (2 * d + 1) * c = (2 * q + 1) * p
        BY <2>3
      <3> DEFINE k == 2 * q + 1
      <3> HIDE DEF k
      <3> QED BY <3>1, OddMultiple DEF k
    <2>5. c <= p
      <3>1. 2 * d + 1 \in Nat /\ (2 * q + 1) * p = (2 * d + 1) * c
        BY <2>3
      <3> DEFINE k == 2 * d + 1
      <3> HIDE DEF k
      <3> QED BY <3>1, OddMultiple DEF k
    <2> QED BY <1>1, <1>2, <2>2, <2>3, <2>4, <2>5
  <1> DEFINE A == RootOf(leaves, o + 1, l)
             B == RootOf(leaves, l + 1, n)
             C == RootOf(leaves, o + 1, n)
             s == Append(r, B)
             u == Append(t, C)
             k == Len(u) - OnesCount(n)
  <1>4. C = hashNode(A, B)
    <2> DEFINE a == o + 1
    <2>1. a \in Nat /\ 1 <= a /\ a < n /\ a <= n /\ a # n /\ n - a + 1 = 2 * p
          /\ a + p - 1 = l /\ a + p = l + 1
      BY <1>1
    <2>2. Split(a, n) = p
      <3> DEFINE w == n - a + 1
      <3>1. w \in Nat /\ p < w /\ w <= 2 * p
        BY <1>1, <2>1
      <3> HIDE DEF w, a
      <3>2. splitPoint(w) = p
        BY <3>1, SplitUnique
      <3> QED BY <3>2 DEF w, Split
    <2> HIDE DEF a
    <2>3. RootOf(leaves, a, n) = hashNode(RootOf(leaves, a, a + p - 1),
                                          RootOf(leaves, a + p, n))
      BY <2>1, <2>2, RootIs
    <2> QED BY <2>1, <2>3 DEF a
  <1>5. Merged(t, leaves, o, n)
    BY <1>2, <1>3 DEF MergesInto
  <1>6. k \in Nat /\ IsTree(Joined(u, k), leaves, n)
    BY <1>5 DEF Merged
  <1>7. A \in Heads(leaves) /\ B \in Heads(leaves) /\ C \in Heads(leaves)
        /\ t \in Seq(Heads(leaves))
    <2>0. t \in Seq(Heads(leaves))
      BY <1>2 DEF IsTree
    <2> DEFINE a == o + 1
               b == l + 1
    <2>1. a \in Nat /\ 1 <= a /\ a <= l /\ a <= n /\ l <= Len(leaves)
          /\ b \in Nat /\ 1 <= b /\ b <= n
      BY <1>1
    <2> HIDE DEF a, b
    <2>2. RootOf(leaves, a, l) \in Heads(leaves)
          /\ RootOf(leaves, a, n) \in Heads(leaves)
      BY <2>1, HeadIn
    <2>3. RootOf(leaves, b, n) \in Heads(leaves)
      BY <2>1, HeadIn
    <2> QED BY <2>0, <2>2, <2>3 DEF a, b
  <1>8. r = Append(t, A)
    BY <1>2, <1>3
  <1> HIDE DEF A, B, C
  <1>9. Len(t) \in Nat /\ Len(u) = Len(t) + 1 /\ Len(s) = Len(t) + 2
    BY <1>7, <1>8
  <1>10. JoinLast(s) = u
    <2>1. /\ SubSeq(s, 1, Len(t)) = t
          /\ s[Len(t) + 1] = A /\ s[Len(t) + 2] = B
      BY <1>7, <1>8
    <2>2. Len(s) - 2 = Len(t) /\ Len(s) - 1 = Len(t) + 1
      BY <1>9
    <2> QED BY <1>4, <1>9, <2>1, <2>2 DEF JoinLast
  <1>11. Joined(s, k + 1) = Joined(u, k)
    <2> HIDE DEF k, s, u
    <2> QED BY <1>6, <1>10, JoinedIs
  <1>12. Len(s) - OnesCount(n) = k + 1
    <2>1. OnesCount(n) \in Nat
      BY OnesCountIs
    <2> QED BY <1>9, <2>1
  <1> HIDE DEF k, u
  <1>13. k + 1 \in Nat /\ IsTree(Joined(s, k + 1), leaves, n)
    BY <1>6, <1>11
  <1> QED BY <1>12, <1>13 DEF Merged, B, s

\* The loop leaves the subtrees of the leaves, for every number of carries.
LEMMA MergesAll ==
    ASSUME NEW leaves, Len(leaves) \in Nat, NEW j \in Nat, NEW p \in Powers,
           NEW l \in Nat, NEW n \in Nat, l = j * p, n = l + p,
           n <= Len(leaves), NEW r, IsTree(r, leaves, l)
    PROVE  Merged(r, leaves, l, n)
  <1> DEFINE Good(i) == \A c \in Powers, o \in Nat, m \in Nat :
                 o = i * c /\ m = o + c /\ m <= Len(leaves) =>
                    MergesInto(leaves, o, m)
             Bad == {i \in Nat : ~Good(i)}
  <1>1. SUFFICES ASSUME Bad # {} PROVE FALSE
    <2>1. Good(j)
      <3> HIDE DEF Good
      <3> QED BY <1>1
    <2> QED BY <2>1 DEF MergesInto
  <1>2. PICK i \in Bad : \A k \in Bad : i <= k
    <2>1. Bad \in SUBSET Nat
      OBVIOUS
    <2> HIDE DEF Bad
    <2> QED BY <1>1, <2>1, LeastNumber
  <1>3. i \in Nat /\ \A k \in Nat : k < i => Good(k)
    <2> HIDE DEF Good
    <2> QED BY <1>2
  <1>4. Good(i)
    <2> SUFFICES ASSUME NEW c \in Powers, NEW o \in Nat, NEW m \in Nat,
                        o = i * c, m = o + c, m <= Len(leaves),
                        NEW t, IsTree(t, leaves, o)
                 PROVE  Merged(t, leaves, o, m)
      BY DEF MergesInto
    <2>1. c \in Nat /\ c >= 1
      BY PowerIs
    <2>2. PICK q \in Nat : i = 2 * q \/ i = 2 * q + 1
      <3>1. i \div 2 \in Nat /\ (i = 2 * (i \div 2) \/ i = 2 * (i \div 2) + 1)
        BY <1>3
      <3> QED BY <3>1
    <2>3. CASE i = 2 * q
      <3>1. (o + 1) - 1 = q * (2 * c) /\ m = (o + 1) - 1 + c
        BY <2>1, <2>3
      <3>2. Ends(o + 1, m)
        BY <3>1 DEF Ends
      <3> HIDE DEF Good, Bad
      <3> QED BY <3>2, MergeNone
    <2>4. CASE i = 2 * q + 1
      <3> DEFINE d == 2 * c
                 e == q * d
      <3>1. d \in Powers /\ d \in Nat /\ e \in Nat /\ m = e + d /\ q < i
            /\ o = (2 * q + 1) * c
        <4>1. d \in Powers
          BY PowersDouble
        <4> QED BY <2>1, <2>4, <4>1
      <3>2. MergesInto(leaves, e, m)
        <4>1. Good(q)
          <5> HIDE DEF Good, Bad
          <5> QED BY <1>3, <3>1
        <4> HIDE DEF d
        <4> QED BY <3>1, <4>1
      <3>3. e = q * (2 * c)
        OBVIOUS
      <3> HIDE DEF Good, Bad, e, d
      <3> QED BY <3>1, <3>2, <3>3, MergeOne
    <2> QED BY <2>2, <2>3, <2>4
  <1> QED BY <1>2, <1>4

\* The tree that the recorder keeps of the first n leaves.
TreeOf(t, leaves, n) == t.size = n /\ IsTree(t.subtrees, leaves, n)

\* The empty tree.
LEMMA NoLeaves ==
    ASSUME NEW leaves
    PROVE  TreeOf(EmptyTree, leaves, 0)
  <1> DEFINE s == EmptyTree.subtrees
             b == [i \in 0 .. 0 |-> 0]
  <1>1. s = <<>> /\ Len(s) = 0 /\ s \in Seq(Heads(leaves)) /\ EmptyTree.size = 0
    BY DEF EmptyTree
  <1> HIDE DEF s
  <1>2. b \in [0 .. 0 -> Nat] /\ b[0] = 0
    OBVIOUS
  <1> HIDE DEF b
  <1>3. Bounds(b, s, leaves, 0)
    BY <1>1, <1>2 DEF Bounds
  <1>4. OnesCount(0) = 0
    BY OnesCountIs
  <1> QED BY <1>1, <1>3, <1>4 DEF TreeOf, IsTree, s

\* Tree.Append keeps the tree of the leaves.
LEMMA AppendKeeps ==
    ASSUME NEW leaves, Len(leaves) \in Nat, NEW n \in Nat, n + 1 <= Len(leaves),
           NEW t, TreeOf(t, leaves, n)
    PROVE  TreeOf(TreeAppend(t, leaves[n + 1]), leaves, n + 1)
  <1> DEFINE m == n + 1
             r == t.subtrees
             s == Append(r, leaves[m])
             k == Len(s) - OnesCount(m)
  <1>1. PICK p \in Powers : p = 1
    BY PowersDouble
  <1>2. m \in Nat /\ 1 <= m /\ m <= Len(leaves) /\ n = n * p /\ m = n + p
    BY <1>1
  <1>3. t.size = n /\ IsTree(r, leaves, n)
    BY DEF TreeOf
  <1>4. RootOf(leaves, n + 1, m) = leaves[m]
    <2> HIDE DEF m
    <2>1. RootOf(leaves, m, m) = leaves[m]
      BY <1>2, RootIs
    <2> QED BY <2>1 DEF m
  <1>5. Merged(r, leaves, n, m)
    <2> HIDE DEF m, r
    <2> QED BY <1>2, <1>3, MergesAll
  <1>6. k \in Nat /\ IsTree(Joined(s, k), leaves, m)
    BY <1>4, <1>5 DEF Merged
  <1>7. TreeAppend(t, leaves[n + 1]) = [size |-> m, subtrees |-> Joined(s, k)]
    BY <1>3 DEF TreeAppend
  <1> HIDE DEF m, s, k
  <1>8. TreeOf([size |-> m, subtrees |-> Joined(s, k)], leaves, m)
    BY <1>6 DEF TreeOf
  <1> QED BY <1>7, <1>8 DEF m

\* TreeRoot folds the subtrees from the right.
Folds(f, s) ==
    f = [i \in 1 .. Len(s) |-> IF i = Len(s) THEN s[Len(s)]
                               ELSE hashNode(s[i], f[i + 1])]

\* The fold of the subtrees from the right is determined by them.
LEMMA FoldsUnique ==
    ASSUME NEW s, Len(s) \in Nat, Len(s) > 0, NEW f, NEW g,
           Folds(f, s), Folds(g, s)
    PROVE  f[1] = g[1]
  <1> DEFINE m == Len(s)
             T == {k \in Nat : f[m - k] = g[m - k]}
  <1>0. /\ \A i \in 1 .. m : f[i] = IF i = m THEN s[m] ELSE hashNode(s[i], f[i + 1])
        /\ \A i \in 1 .. m : g[i] = IF i = m THEN s[m] ELSE hashNode(s[i], g[i + 1])
    BY DEF Folds
  <1>m. m \in Nat /\ m > 0
    OBVIOUS
  <1> HIDE DEF m
  <1>1. 0 \in T
    <2>1. m - 0 = m /\ m \in 1 .. m
      BY <1>m
    <2> QED BY <1>0, <2>1
  <1>2. ASSUME NEW n \in 0 .. (m - 1) - 1, n \in T PROVE n + 1 \in T
    <2> DEFINE i == m - (n + 1)
    <2>1. i \in 1 .. m /\ i # m /\ i + 1 = m - n
      BY <1>m
    <2>2. f[i + 1] = g[i + 1]
      BY <1>2, <2>1
    <2>3. f[i] = g[i]
      <3> HIDE DEF i
      <3> QED BY <1>0, <2>1, <2>2
    <2> QED BY <2>3
  <1>3. m - 1 \in T
    <2> HIDE DEF T
    <2> DEFINE M == m - 1
    <2>1. M \in Nat
      BY <1>m
    <2>2. \A n \in 0 .. M - 1 : n \in T => n + 1 \in T
      BY <1>2
    <2> HIDE DEF M
    <2>3. PICK z \in Nat : z = 0
      OBVIOUS
    <2>4. \A n \in 0 .. M : n \in T
      BY <1>1, <2>1, <2>2, <2>3, Induction
    <2> QED BY <2>1, <2>4 DEF M
  <1>4. m - (m - 1) = 1
    BY <1>m
  <1> QED BY <1>3, <1>4

\* Each subtree is larger than all the leaves after it.
Outweighs(b, n, i) ==
    \E p \in Powers : b[i] = b[i - 1] + p /\ n < b[i] + p /\ b[i] <= n

\* Every subtree outweighs what follows it.
LEMMA AllOutweigh ==
    ASSUME NEW leaves, NEW n \in Nat, NEW s, Len(s) \in Nat, NEW b,
           Bounds(b, s, leaves, n), NEW j \in 1 .. Len(s)
    PROVE  Outweighs(b, n, j)
  <1> DEFINE m == Len(s)
             T == {k \in Nat : Outweighs(b, n, m - k)}
  <1>0. /\ b \in [0 .. m -> Nat] /\ b[m] = n
        /\ \A i \in 1 .. m : Ends(b[i - 1] + 1, b[i])
    BY DEF Bounds
  <1>m. m \in Nat /\ m > 0 /\ j \in 1 .. m
    OBVIOUS
  <1> HIDE DEF m
  <1>e. ASSUME NEW i \in 1 .. m
        PROVE  \E p \in Powers, q \in Nat :
                  /\ b[i - 1] = q * (2 * p) /\ b[i] = b[i - 1] + p
                  /\ b[i - 1] \in Nat /\ b[i] \in Nat
    <2>1. i - 1 \in 0 .. m /\ i \in 0 .. m
      BY <1>m
    <2>2. b[i - 1] \in Nat /\ b[i] \in Nat
      BY <1>0, <2>1
    <2>3. PICK p \in Powers, q \in Nat : (b[i - 1] + 1) - 1 = q * (2 * p)
                                         /\ b[i] = (b[i - 1] + 1) - 1 + p
      BY <1>0 DEF Ends
    <2>4. (b[i - 1] + 1) - 1 = b[i - 1]
      BY <2>2
    <2> QED BY <2>2, <2>3, <2>4
  <1>1. 0 \in T
    <2>1. m - 0 = m /\ m \in 1 .. m
      BY <1>m
    <2>2. PICK p \in Powers, q \in Nat : b[m] = b[m - 1] + p
      BY <1>e, <2>1
    <2>3. p \in Nat /\ p >= 1
      BY PowerIs
    <2>4. n < b[m] + p /\ b[m] <= n
      BY <1>0, <2>3
    <2> QED BY <2>1, <2>2, <2>4 DEF Outweighs
  <1>2. ASSUME NEW k \in 0 .. (m - 1) - 1, k \in T PROVE k + 1 \in T
    <2> DEFINE i == m - (k + 1)
    <2>1. i \in 1 .. m /\ i + 1 \in 1 .. m /\ (i + 1) - 1 = i /\ i + 1 = m - k
      BY <1>m
    <2>2. Outweighs(b, n, i + 1)
      BY <1>2, <2>1
    <2> HIDE DEF i
    <2>3. PICK p \in Powers, q \in Nat :
             /\ b[i - 1] = q * (2 * p) /\ b[i] = b[i - 1] + p
             /\ b[i - 1] \in Nat /\ b[i] \in Nat
      BY <1>e, <2>1
    <2>4. PICK c \in Powers, d \in Nat :
             /\ b[i] = d * (2 * c) /\ b[i + 1] = b[i] + c /\ b[i + 1] \in Nat
      BY <1>e, <2>1
    <2>5. PICK e \in Powers : b[i + 1] = b[i] + e /\ n < b[i + 1] + e /\ b[i + 1] <= n
      BY <2>1, <2>2 DEF Outweighs
    <2>6. p \in Nat /\ c \in Nat /\ e \in Nat /\ c >= 1
      BY PowerIs
    <2>7. e = c /\ n < b[i] + 2 * c /\ b[i] <= n
      BY <2>3, <2>4, <2>5, <2>6
    <2>8. 2 * c <= p
      <3> DEFINE f == 2 * c
      <3>1. f \in Powers /\ (2 * q + 1) * p = d * f
        <4>1. f \in Powers
          BY PowersDouble
        <4>2. (2 * q + 1) * p = d * f
          BY <2>3, <2>4, <2>6
        <4> QED BY <4>1, <4>2
      <3> HIDE DEF f
      <3>2. f <= p
        BY <3>1, OddMultiple
      <3> QED BY <3>2 DEF f
    <2>9. n < b[i] + p
      BY <2>3, <2>6, <2>7, <2>8
    <2>10. Outweighs(b, n, i)
      BY <2>3, <2>7, <2>9 DEF Outweighs
    <2> QED BY <2>10 DEF i
  <1>3. \A k \in 0 .. m - 1 : k \in T
    <2> HIDE DEF T
    <2> DEFINE M == m - 1
    <2>1. M \in Nat
      BY <1>m
    <2>2. \A k \in 0 .. M - 1 : k \in T => k + 1 \in T
      BY <1>2
    <2> HIDE DEF M
    <2>3. PICK z \in Nat : z = 0
      OBVIOUS
    <2>4. \A k \in 0 .. M : k \in T
      BY <1>1, <2>1, <2>2, <2>3, Induction
    <2> QED BY <2>4 DEF M
  <1>4. m - j \in 0 .. m - 1 /\ m - (m - j) = j
    BY <1>m
  <1> QED BY <1>3, <1>4

\* The head the recorder signs, folded from the subtrees, is the head of all
\* the leaves, split as splitPoint splits them.
THEOREM TreeRootIs ==
    ASSUME NEW leaves, Len(leaves) \in Nat, NEW n \in Nat, n > 0,
           n <= Len(leaves), NEW t, TreeOf(t, leaves, n)
    PROVE  TreeRoot(t) = RootOf(leaves, 1, n)
  <1> DEFINE s == t.subtrees
             m == Len(s)
  <1>1. t.size = n /\ m = OnesCount(n) /\ s \in Seq(Heads(leaves))
    BY DEF TreeOf, IsTree
  <1>2. m \in Nat /\ m > 0
    <2>1. OnesCount(n) > 0 /\ OnesCount(n) \in Nat
      BY OnesCountPositive, OnesCountIs
    <2> HIDE DEF m
    <2> QED BY <1>1, <2>1
  <1>3. PICK b : Bounds(b, s, leaves, n)
    BY DEF TreeOf, IsTree
  <1>4. /\ b \in [0 .. m -> Nat] /\ b[0] = 0 /\ b[m] = n
        /\ \A i \in 1 .. m : s[i] = RootOf(leaves, b[i - 1] + 1, b[i])
    BY <1>3 DEF Bounds
  <1>5. \A i \in 1 .. m : Outweighs(b, n, i)
    BY <1>2, <1>3, AllOutweigh
  <1> DEFINE f == [i \in 1 .. m |-> RootOf(leaves, b[i - 1] + 1, n)]
  <1>6. ASSUME NEW i \in 1 .. m
        PROVE  f[i] = IF i = m THEN s[m] ELSE hashNode(s[i], f[i + 1])
    <2> HIDE DEF m, s
    <2>1. CASE i = m
      <3>1. f[i] = RootOf(leaves, b[m - 1] + 1, n)
        BY <2>1
      <3>2. s[m] = RootOf(leaves, b[m - 1] + 1, n)
        BY <1>4, <2>1
      <3> QED BY <2>1, <3>1, <3>2
    <2>2. CASE i # m
      <3>1. i + 1 \in 1 .. m /\ (i + 1) - 1 = i /\ i - 1 \in 0 .. m /\ i \in 0 .. m
        BY <1>2, <2>2
      <3>2. b[i - 1] \in Nat /\ b[i] \in Nat
        BY <1>4, <3>1
      <3>3. PICK p \in Powers : b[i] = b[i - 1] + p /\ n < b[i] + p /\ b[i] <= n
        BY <1>5 DEF Outweighs
      <3>4. PICK e \in Powers : b[i + 1] = b[i] + e /\ b[i + 1] <= n
        BY <1>5, <3>1 DEF Outweighs
      <3>5. p \in Nat /\ p >= 1 /\ e \in Nat /\ e >= 1
        BY PowerIs
      <3>6. b[i] < n
        BY <3>2, <3>4, <3>5
      <3> DEFINE x == b[i - 1]
                 y == b[i]
                 a == x + 1
      <3>x. /\ x \in Nat /\ y \in Nat /\ y = x + p /\ n < y + p /\ y < n
        BY <3>2, <3>3, <3>6
      <3> HIDE DEF x, y
      <3>7. a \in Nat /\ 1 <= a /\ a <= n /\ a # n
            /\ a + p - 1 = y /\ a + p = y + 1
        BY <3>x, <3>5
      <3>8. Split(a, n) = p
        <4> DEFINE w == n - a + 1
        <4>1. w \in Nat /\ p < w /\ w <= 2 * p
          BY <3>x, <3>5
        <4> HIDE DEF w, a
        <4>2. splitPoint(w) = p
          BY <4>1, SplitUnique
        <4> QED BY <4>2 DEF w, Split
      <3>9. f[i] = RootOf(leaves, a, n) /\ f[i + 1] = RootOf(leaves, y + 1, n)
        BY <3>1 DEF x, y
      <3>10. s[i] = RootOf(leaves, a, y)
        BY <1>4 DEF x, y
      <3> HIDE DEF a, f
      <3>11. RootOf(leaves, a, n) = hashNode(RootOf(leaves, a, a + p - 1),
                                             RootOf(leaves, a + p, n))
        BY <3>7, <3>8, RootIs
      <3>12. f[i] = hashNode(s[i], f[i + 1])
        BY <3>7, <3>9, <3>10, <3>11
      <3> QED BY <2>2, <3>12
    <2> QED BY <2>1, <2>2
  <1>7. f = [i \in 1 .. m |-> f[i]]
    OBVIOUS
  <1>8. f[1] = RootOf(leaves, 1, n)
    <2>1. 1 \in 1 .. m /\ b[1 - 1] + 1 = 1
      <3>1. b[1 - 1] = b[0]
        OBVIOUS
      <3> HIDE DEF m
      <3> QED BY <1>2, <1>4, <3>1
    <2> HIDE DEF m
    <2> QED BY <2>1
  <1> HIDE DEF f
  <1>9. Folds(f, s)
    BY <1>6, <1>7 DEF Folds
  <1> DEFINE g == CHOOSE h : Folds(h, s)
  <1>10. Folds(g, s)
    BY <1>9
  <1>11. TreeRoot(t) = g[1]
    <2>1. t.size # 0
      BY <1>1
    <2> QED BY <2>1 DEF TreeRoot, Folds
  <1> HIDE DEF g
  <1>12. g[1] = f[1]
    BY <1>2, <1>9, <1>10, FoldsUnique
  <1> QED BY <1>8, <1>11, <1>12
=============================================================================
