----------------------------- MODULE SumsProofs -----------------------------
(***************************************************************************)
(* What the proofs about Assignment need of sums.  Each is proved by       *)
(* induction on the number of terms: the set of the numbers for which the  *)
(* statement holds has 0 and the successor of each of its members.         *)
(***************************************************************************)
EXTENDS Sums, WellFoundedInduction, TLAPS

LEMMA LeastNatural ==
  ASSUME NEW T \in SUBSET Nat, T # {}
  PROVE  \E m \in T : \A k \in T : m <= k
<1>1. IsWellFoundedOn(OpToRel(<, Nat), Nat)
  BY NatLessThanWellFounded, Zenon
<1>2. PICK m \in T : \A k \in T : <<k, m>> \notin OpToRel(<, Nat)
  BY <1>1, WFMin, Zenon
<1>3. ASSUME NEW k \in T PROVE m <= k
  <2>1. <<k, m>> \notin {ss \in Nat \X Nat : ss[1] < ss[2]}
    BY <1>2, Zenon DEF OpToRel
  <2> QED
    BY <2>1
<1> QED
  BY <1>2, <1>3

LEMMA Induction ==
  ASSUME NEW S, 0 \in S, \A n \in Nat : n \in S => n + 1 \in S
  PROVE  \A n \in Nat : n \in S
<1> SUFFICES ASSUME Nat \ S # {} PROVE FALSE
  OBVIOUS
<1>1. PICK m \in Nat \ S : \A k \in Nat \ S : m <= k
  BY LeastNatural
<1>2. m - 1 \in Nat /\ m - 1 \notin Nat \ S
  BY <1>1
<1>3. (m - 1) + 1 \in S
  BY <1>2
<1> QED
  BY <1>1, <1>3

-----------------------------------------------------------------------------
(* The recursive function in Sum is there, and two of them agree.           *)

IsUpTo(f, n, g) == g = [k \in 0 .. n |-> IF k = 0 THEN 0 ELSE g[k - 1] + f[k]]

LEMMA UpToExists ==
  ASSUME NEW f, NEW n \in Nat
  PROVE  \E g : IsUpTo(f, n, g)
<1> DEFINE S == {m \in Nat : \E g : IsUpTo(f, m, g)}
<1>1. 0 \in S
  <2> DEFINE g == [k \in 0 .. 0 |-> 0]
  <2>1. g = [k \in 0 .. 0 |-> IF k = 0 THEN 0 ELSE g[k - 1] + f[k]]
    OBVIOUS
  <2> QED
    BY <2>1 DEF IsUpTo
<1>2. ASSUME NEW m \in Nat, m \in S PROVE m + 1 \in S
  <2>1. PICK g : g = [k \in 0 .. m |-> IF k = 0 THEN 0 ELSE g[k - 1] + f[k]]
    BY <1>2 DEF IsUpTo
  <2> DEFINE h == [k \in 0 .. m + 1 |-> IF k = m + 1 THEN g[m] + f[m + 1] ELSE g[k]]
  <2>2. ASSUME NEW k \in 0 .. m + 1
        PROVE  h[k] = IF k = 0 THEN 0 ELSE h[k - 1] + f[k]
    <3>1. CASE k = m + 1
      BY <3>1
    <3>2. CASE k \in 1 .. m
      <4>1. g[k] = g[k - 1] + f[k]
        BY <2>1, <3>2
      <4>2. h[k] = g[k] /\ h[k - 1] = g[k - 1]
        BY <3>2
      <4> QED
        BY <3>2, <4>1, <4>2
    <3>3. CASE k = 0
      BY <2>1, <3>3
    <3> QED
      BY <3>1, <3>2, <3>3
  <2>3. h = [k \in 0 .. m + 1 |-> IF k = 0 THEN 0 ELSE h[k - 1] + f[k]]
    BY <2>2
  <2> HIDE DEF h
  <2> QED
    BY <2>3 DEF IsUpTo
<1> HIDE DEF S
<1>3. n \in S
  BY <1>1, <1>2, Induction
<1> QED
  BY <1>3 DEF S

LEMMA UpToAgree ==
  ASSUME NEW f, NEW n \in Nat, NEW g, NEW h, IsUpTo(f, n, g), IsUpTo(f, n + 1, h)
  PROVE  g[n] = h[n]
<1> DEFINE S == {k \in Nat : k <= n => g[k] = h[k]}
<1>1. 0 \in S
  BY DEF IsUpTo
<1>2. ASSUME NEW k \in Nat, k \in S PROVE k + 1 \in S
  <2>1. CASE k + 1 <= n
    <3>1. g[k + 1] = g[(k + 1) - 1] + f[k + 1] /\ h[k + 1] = h[(k + 1) - 1] + f[k + 1]
      BY <2>1 DEF IsUpTo
    <3>2. (k + 1) - 1 = k /\ g[k] = h[k]
      BY <1>2, <2>1
    <3> QED
      BY <3>1, <3>2
  <2> QED
    BY <2>1
<1> HIDE DEF S
<1>3. n \in S
  BY <1>1, <1>2, Induction
<1> QED
  BY <1>3 DEF S

LEMMA SumIsUpTo ==
  ASSUME NEW f, NEW n \in Nat
  PROVE  \E g : IsUpTo(f, n, g) /\ Sum(f, n) = g[n]
<1> DEFINE g == CHOOSE g : g = [k \in 0 .. n |-> IF k = 0 THEN 0 ELSE g[k - 1] + f[k]]
<1>1. IsUpTo(f, n, g)
  BY UpToExists DEF IsUpTo
<1>2. Sum(f, n) = g[n]
  BY DEF Sum
<1> QED
  BY <1>1, <1>2

LEMMA SumZero ==
  ASSUME NEW f
  PROVE  Sum(f, 0) = 0
<1>1. PICK g : IsUpTo(f, 0, g) /\ Sum(f, 0) = g[0]
  BY SumIsUpTo
<1> QED
  BY <1>1 DEF IsUpTo

LEMMA SumNext ==
  ASSUME NEW f, NEW n \in Nat
  PROVE  Sum(f, n + 1) = Sum(f, n) + f[n + 1]
<1>1. PICK g : IsUpTo(f, n, g) /\ Sum(f, n) = g[n]
  BY SumIsUpTo
<1>2. PICK h : IsUpTo(f, n + 1, h) /\ Sum(f, n + 1) = h[n + 1]
  BY SumIsUpTo
<1>3. g[n] = h[n]
  BY <1>1, <1>2, UpToAgree
<1>4. h[n + 1] = h[(n + 1) - 1] + f[n + 1] /\ (n + 1) - 1 = n
  BY <1>2 DEF IsUpTo
<1> QED
  BY <1>1, <1>2, <1>3, <1>4

-----------------------------------------------------------------------------
(* Sums of integers.                                                        *)

Integers1(f, n) == \A k \in 1 .. n : f[k] \in Int

LEMMA SumInt ==
  ASSUME NEW f, NEW n \in Nat, Integers1(f, n)
  PROVE  Sum(f, n) \in Int
<1> DEFINE S == {m \in Nat : m <= n => Sum(f, m) \in Int}
<1>1. 0 \in S
  BY SumZero
<1>2. ASSUME NEW m \in Nat, m \in S PROVE m + 1 \in S
  <2>1. Sum(f, m + 1) = Sum(f, m) + f[m + 1]
    BY SumNext
  <2>2. m + 1 <= n => Sum(f, m) \in Int /\ f[m + 1] \in Int
    BY <1>2 DEF Integers1
  <2> QED
    BY <2>1, <2>2
<1> HIDE DEF S
<1>3. n \in S
  BY <1>1, <1>2, Induction
<1> QED
  BY <1>3 DEF S

\* Smaller terms, smaller sum.
LEMMA SumLeq ==
  ASSUME NEW f, NEW g, NEW n \in Nat, Integers1(f, n), Integers1(g, n),
         \A k \in 1 .. n : f[k] <= g[k]
  PROVE  Sum(f, n) <= Sum(g, n)
<1> DEFINE S == {m \in Nat : m <= n => Sum(f, m) <= Sum(g, m)}
<1>1. 0 \in S
  BY SumZero
<1>2. ASSUME NEW m \in Nat, m \in S PROVE m + 1 \in S
  <2>1. Sum(f, m + 1) = Sum(f, m) + f[m + 1] /\ Sum(g, m + 1) = Sum(g, m) + g[m + 1]
    BY SumNext
  <2> SUFFICES ASSUME m + 1 <= n PROVE Sum(f, m + 1) <= Sum(g, m + 1)
    OBVIOUS
  <2>2. Sum(f, m) \in Int /\ Sum(g, m) \in Int
    BY SumInt DEF Integers1
  <2>3. f[m + 1] \in Int /\ g[m + 1] \in Int /\ f[m + 1] <= g[m + 1]
    BY DEF Integers1
  <2>4. Sum(f, m) <= Sum(g, m)
    BY <1>2
  <2> QED
    BY <2>1, <2>2, <2>3, <2>4
<1> HIDE DEF S
<1>3. n \in S
  BY <1>1, <1>2, Induction
<1> QED
  BY <1>3 DEF S

\* The sum of sums.
LEMMA SumPlus ==
  ASSUME NEW f, NEW g, NEW h, NEW n \in Nat, Integers1(f, n), Integers1(g, n),
         \A k \in 1 .. n : h[k] = f[k] + g[k]
  PROVE  Sum(h, n) = Sum(f, n) + Sum(g, n)
<1> DEFINE S == {m \in Nat : m <= n => Sum(h, m) = Sum(f, m) + Sum(g, m)}
<1>1. 0 \in S
  BY SumZero
<1>2. ASSUME NEW m \in Nat, m \in S PROVE m + 1 \in S
  <2>1. /\ Sum(f, m + 1) = Sum(f, m) + f[m + 1]
        /\ Sum(g, m + 1) = Sum(g, m) + g[m + 1]
        /\ Sum(h, m + 1) = Sum(h, m) + h[m + 1]
    BY SumNext
  <2> SUFFICES ASSUME m + 1 <= n PROVE Sum(h, m + 1) = Sum(f, m + 1) + Sum(g, m + 1)
    OBVIOUS
  <2>2. Sum(f, m) \in Int /\ Sum(g, m) \in Int
    BY SumInt DEF Integers1
  <2>3. f[m + 1] \in Int /\ g[m + 1] \in Int /\ h[m + 1] = f[m + 1] + g[m + 1]
    BY DEF Integers1
  <2>4. Sum(h, m) = Sum(f, m) + Sum(g, m)
    BY <1>2
  <2> QED
    BY <2>1, <2>2, <2>3, <2>4
<1> HIDE DEF S
<1>3. n \in S
  BY <1>1, <1>2, Induction
<1> QED
  BY <1>3 DEF S

\* One term that changes.
LEMMA SumAt ==
  ASSUME NEW f, NEW g, NEW n \in Nat, NEW c \in 1 .. n, NEW a \in Int, Integers1(f, n),
         \A k \in 1 .. n : g[k] = IF k = c THEN f[k] + a ELSE f[k]
  PROVE  Sum(g, n) = Sum(f, n) + a
<1> DEFINE S == {m \in Nat : m <= n =>
                   Sum(g, m) = IF c <= m THEN Sum(f, m) + a ELSE Sum(f, m)}
<1>1. 0 \in S
  BY SumZero
<1>2. ASSUME NEW m \in Nat, m \in S PROVE m + 1 \in S
  <2>1. Sum(f, m + 1) = Sum(f, m) + f[m + 1] /\ Sum(g, m + 1) = Sum(g, m) + g[m + 1]
    BY SumNext
  <2> SUFFICES ASSUME m + 1 <= n
               PROVE  Sum(g, m + 1) = IF c <= m + 1 THEN Sum(f, m + 1) + a ELSE Sum(f, m + 1)
    OBVIOUS
  <2>2. Sum(f, m) \in Int
    BY SumInt DEF Integers1
  <2>3. f[m + 1] \in Int /\ g[m + 1] = IF m + 1 = c THEN f[m + 1] + a ELSE f[m + 1]
    BY DEF Integers1
  <2>4. Sum(g, m) = IF c <= m THEN Sum(f, m) + a ELSE Sum(f, m)
    BY <1>2
  <2>5. CASE c <= m
    BY <2>1, <2>2, <2>3, <2>4, <2>5
  <2>6. CASE c = m + 1
    BY <2>1, <2>2, <2>3, <2>4, <2>6
  <2>7. CASE c > m + 1
    BY <2>1, <2>2, <2>3, <2>4, <2>7
  <2> QED
    BY <2>5, <2>6, <2>7
<1> HIDE DEF S
<1>3. n \in S
  BY <1>1, <1>2, Induction
<1> QED
  BY <1>3 DEF S

\* Terms that are all zero.
LEMMA SumOfZeros ==
  ASSUME NEW f, NEW n \in Nat, \A k \in 1 .. n : f[k] = 0
  PROVE  Sum(f, n) = 0
<1> DEFINE S == {m \in Nat : m <= n => Sum(f, m) = 0}
<1>1. 0 \in S
  BY SumZero
<1>2. ASSUME NEW m \in Nat, m \in S PROVE m + 1 \in S
  <2>1. Sum(f, m + 1) = Sum(f, m) + f[m + 1]
    BY SumNext
  <2> QED
    BY <1>2, <2>1
<1> HIDE DEF S
<1>3. n \in S
  BY <1>1, <1>2, Induction
<1> QED
  BY <1>3 DEF S

\* Terms that are taken from other places, none twice.
LEMMA SumMoved ==
  ASSUME NEW m \in Nat, NEW n \in Nat, NEW d \in [1 .. m -> 1 .. n], NEW v \in [1 .. n -> Int],
         \A j, k \in 1 .. m : d[j] = d[k] => j = k
  PROVE  Sum([k \in 1 .. m |-> v[d[k]]], m)
           = Sum([c \in 1 .. n |-> IF \E k \in 1 .. m : d[k] = c THEN v[c] ELSE 0], n)
<1> DEFINE moved == [k \in 1 .. m |-> v[d[k]]]
           Taken(i) == [c \in 1 .. n |-> IF \E k \in 1 .. i : d[k] = c THEN v[c] ELSE 0]
           S == {i \in Nat : i <= m => Sum(moved, i) = Sum(Taken(i), n)}
<1>1. 0 \in S
  <2>1. Sum(Taken(0), n) = 0
    <3>1. \A c \in 1 .. n : Taken(0)[c] = 0
      OBVIOUS
    <3> HIDE DEF Taken
    <3> QED
      BY <3>1, SumOfZeros
  <2> QED
    BY <2>1, SumZero
<1>2. ASSUME NEW i \in Nat, i \in S PROVE i + 1 \in S
  <2> SUFFICES ASSUME i + 1 <= m PROVE Sum(moved, i + 1) = Sum(Taken(i + 1), n)
    OBVIOUS
  <2>1. Sum(moved, i + 1) = Sum(moved, i) + moved[i + 1]
    BY SumNext
  <2>2. moved[i + 1] = v[d[i + 1]] /\ d[i + 1] \in 1 .. n /\ v[d[i + 1]] \in Int
    OBVIOUS
  <2>3. \A c \in 1 .. n :
          Taken(i + 1)[c] = IF c = d[i + 1] THEN Taken(i)[c] + v[d[i + 1]] ELSE Taken(i)[c]
    <3> SUFFICES ASSUME NEW c \in 1 .. n
                 PROVE  Taken(i + 1)[c] = IF c = d[i + 1] THEN Taken(i)[c] + v[d[i + 1]]
                                                          ELSE Taken(i)[c]
      OBVIOUS
    <3>1. 1 .. i + 1 = (1 .. i) \union {i + 1}
      OBVIOUS
    <3>2. CASE c = d[i + 1]
      <4>1. ~\E k \in 1 .. i : d[k] = c
        BY <3>2
      <4> QED
        BY <2>2, <3>1, <3>2, <4>1
    <3>3. CASE c # d[i + 1]
      BY <3>1, <3>3
    <3> QED
      BY <3>2, <3>3
  <2>4. Integers1(Taken(i), n)
    BY DEF Integers1
  <2>5. Sum(Taken(i + 1), n) = Sum(Taken(i), n) + v[d[i + 1]]
    <3> DEFINE before == Taken(i)
               after == Taken(i + 1)
               at == d[i + 1]
    <3>1. /\ at \in 1 .. n /\ v[at] \in Int /\ Integers1(before, n)
          /\ \A c \in 1 .. n : after[c] = IF c = at THEN before[c] + v[at] ELSE before[c]
      BY <2>2, <2>3, <2>4
    <3> HIDE DEF before, after, at
    <3>2. Sum(after, n) = Sum(before, n) + v[at]
      BY <3>1, SumAt
    <3> QED
      BY <3>2 DEF before, after, at
  <2>6. Sum(moved, i) = Sum(Taken(i), n)
    BY <1>2
  <2> HIDE DEF moved, Taken
  <2> QED
    BY <2>1, <2>2, <2>5, <2>6
<1> HIDE DEF S
<1>3. m \in S
  BY <1>1, <1>2, Induction
<1> QED
  BY <1>3 DEF S
=============================================================================
