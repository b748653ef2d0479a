----------------------------- MODULE SequenceFacts -----------------------------
(***************************************************************************)
(* Facts about numbers and sequences on which the proofs of several        *)
(* modules rest: induction, blocks of bytes, functions defined by          *)
(* recursion, sums, and FlattenSeq                                         *)
(***************************************************************************)
EXTENDS Integers, SequencesExt, WellFoundedInduction, TLAPS

-----------------------------------------------------------------------------
(* Induction                                                                *)

Below == {p \in Nat \X Nat : p[1] < p[2]}

\* A set of numbers that is not empty has a least one.
LEMMA LeastNumber ==
  ASSUME NEW T, T \subseteq Nat, T # {}
  PROVE  \E x \in T : \A y \in T : x <= y
<1>1. IsWellFoundedOn(Below, Nat)
  BY NatLessThanWellFounded DEF OpToRel, Below
<1>2. PICK x \in T : \A y \in T : <<y, x>> \notin Below
  BY <1>1, WFMin
<1>3. ASSUME NEW y \in T PROVE x <= y
  <2>1. x \in Nat /\ y \in Nat
    OBVIOUS
  <2>2. y < x => <<y, x>> \in Below
    BY <2>1 DEF Below
  <2>3. QED
    BY <1>2, <2>1, <2>2
<1>4. QED
  BY <1>2, <1>3

\* What holds of 0, and of n + 1 when it does of n, holds of every number.
LEMMA SetInduction ==
  ASSUME NEW S, 0 \in S, \A n \in Nat : n \in S => n + 1 \in S
  PROVE  Nat \subseteq S
<1> SUFFICES ASSUME Nat \ S # {} PROVE FALSE
  OBVIOUS
<1>1. PICK x \in Nat \ S : \A y \in Nat \ S : x <= y
  BY LeastNumber
<1>2. x # 0 /\ x - 1 \in Nat /\ x - 1 < x /\ (x - 1) + 1 = x
  OBVIOUS
<1>3. x - 1 \in S
  BY <1>1, <1>2
<1>4. QED
  BY <1>1, <1>2, <1>3

\* The same from a first number to a last one.
LEMMA RangeInduction ==
  ASSUME NEW m \in Int, NEW n \in Int, NEW S,
         m <= n => m \in S,
         \A i \in m .. n - 1 : i \in S => i + 1 \in S
  PROVE  m .. n \subseteq S
<1> SUFFICES ASSUME NEW i \in m .. n PROVE i \in S
  OBVIOUS
<1> DEFINE T == {k \in Nat : m + k > n \/ m + k \in S}
<1>1. 0 \in T
  OBVIOUS
<1>2. ASSUME NEW k \in Nat, k \in T PROVE k + 1 \in T
  <2>1. CASE m + (k + 1) > n
    BY <2>1
  <2>2. CASE m + (k + 1) <= n
    <3>1. m + k \in m .. n - 1 /\ m + k \in S /\ (m + k) + 1 = m + (k + 1)
      BY <1>2, <2>2
    <3>2. m + (k + 1) \in S
      BY <3>1
    <3>3. QED
      BY <3>2
  <2>3. QED
    BY <2>1, <2>2
<1>3. Nat \subseteq T
  <2> HIDE DEF T
  <2>1. QED
    BY <1>1, <1>2, SetInduction
<1>4. i - m \in Nat /\ m + (i - m) = i /\ i <= n
  OBVIOUS
<1>5. i - m \in T
  BY <1>3, <1>4
<1>6. QED
  BY <1>4, <1>5

-----------------------------------------------------------------------------
(* Blocks                                                                   *)

\* The block of n bytes that byte o is in.
LEMMA ChunkBounds ==
  ASSUME NEW o \in Nat, NEW n \in Nat \ {0}
  PROVE  /\ o \div n \in Nat
         /\ (o \div n) * n \in Nat
         /\ (o \div n) * n <= o
         /\ o < (o \div n) * n + n
         /\ ((o \div n) + 1) * n = (o \div n) * n + n
<1>1. o \div n \in Nat
  OBVIOUS
<1>2. o = n * (o \div n) + (o % n) /\ o % n \in 0 .. n - 1
  OBVIOUS
<1>3. n * (o \div n) = (o \div n) * n
  BY <1>1
<1>4. ((o \div n) + 1) * n = (o \div n) * n + n
  BY <1>1
<1>5. (o \div n) * n \in Nat
  BY <1>1
<1>6. QED
  BY <1>1, <1>2, <1>3, <1>4, <1>5

\* The blocks of s bytes of a file of l bytes.
LEMMA BlockArithmetic ==
  ASSUME NEW l \in Nat, NEW b \in Nat, NEW s \in Nat \ {0}
  PROVE  /\ (l + s - 1) \div s \in Nat
         /\ b * s \in Nat
         /\ s * (b + 1) = b * s + s
         /\ l % s \in 0 .. s - 1
         /\ b < (l + s - 1) \div s <=> b * s < l
         /\ b * s <= l /\ b * s + s > l => b * s + (l % s) = l
         /\ b * s = l => l % s = 0
<1> DEFINE n == (l + s - 1) \div s
<1>1. b * s \in Nat /\ s * (b + 1) = b * s + s /\ s * b = b * s
  OBVIOUS
<1>2. n \in Nat /\ l + s - 1 = s * n + ((l + s - 1) % s) /\ (l + s - 1) % s \in 0 .. s - 1
  OBVIOUS
<1>3. l % s \in 0 .. s - 1 /\ l = s * (l \div s) + (l % s) /\ l \div s \in Nat
  OBVIOUS
<1> HIDE DEF n
<1>4. b < n <=> s * b < l
  <2>1. ASSUME b < n PROVE s * b < l
    <3>1. s * (b + 1) <= s * n
      <4>1. PICK e \in Nat : n = (b + 1) + e
        BY <1>2, <2>1
      <4>2. s * n = s * (b + 1) + s * e /\ s * e \in Nat
        BY <4>1
      <4>3. QED
        BY <4>2
    <3>2. s * b + s <= s * n
      BY <1>1, <3>1
    <3>3. s * n \in Nat /\ s * b \in Nat
      BY <1>2
    <3>4. QED
      BY <1>2, <3>2, <3>3
  <2>2. ASSUME ~(b < n) PROVE ~(s * b < l)
    <3>1. s * n <= s * b
      <4>1. PICK e \in Nat : b = n + e
        BY <1>2, <2>2
      <4>2. s * b = s * n + s * e /\ s * e \in Nat
        BY <1>2, <4>1
      <4>3. QED
        BY <1>2, <4>2
    <3>2. s * n \in Nat /\ s * b \in Nat
      BY <1>2
    <3>3. QED
      BY <1>2, <3>1, <3>2
  <2>3. QED
    BY <2>1, <2>2
<1>5. ASSUME b * s <= l, b * s + s > l PROVE b * s + (l % s) = l
  <2> DEFINE q == l \div s
  <2>0. q \in Nat /\ l = s * q + (l % s)
    BY <1>3
  <2> HIDE DEF q
  <2>1. q = b
    <3>1. q < b => FALSE
      <4>1. ASSUME q < b PROVE FALSE
        <5> b - (q + 1) \in Nat /\ b = (q + 1) + (b - (q + 1))
          BY <2>0, <4>1
        <5>1. PICK e \in Nat : b = (q + 1) + e
          OBVIOUS
        <5>2. s * b = s * q + s + s * e /\ s * e \in Nat /\ s * q \in Nat
          BY <2>0, <5>1
        <5>3. QED
          BY <1>1, <1>3, <2>0, <1>5, <5>2
      <4>2. QED
        BY <4>1
    <3>2. q > b => FALSE
      <4>1. ASSUME q > b PROVE FALSE
        <5> q - (b + 1) \in Nat /\ q = (b + 1) + (q - (b + 1))
          BY <2>0, <4>1
        <5>1. PICK e \in Nat : q = (b + 1) + e
          OBVIOUS
        <5>2. s * q = s * b + s + s * e /\ s * e \in Nat
          BY <2>0, <5>1
        <5>3. QED
          BY <1>1, <1>3, <2>0, <1>5, <5>2
      <4>2. QED
        BY <4>1
    <3>3. QED
      BY <2>0, <3>1, <3>2
  <2>2. QED
    BY <1>1, <2>0, <2>1
<1>6. b * s = l => l % s = 0
  BY <1>1, <1>3, <1>5
<1>7. b < n <=> b * s < l
  BY <1>1, <1>4
<1>8. QED
  BY <1>1, <1>2, <1>3, <1>5, <1>6, <1>7 DEF n
-----------------------------------------------------------------------------
(* Functions defined by recursion                                           *)

\* The n values of g start with v and go on with step.
Recurs(g, V, n, v, step) ==
  g \in [1 .. n -> V] /\ \A i \in 1 .. n : g[i] = IF i = 1 THEN v ELSE step[i][g[i - 1]]

\* There is such a function.
LEMMA RecursionExists ==
  ASSUME NEW V, NEW n \in Nat, NEW v \in V, NEW step \in [1 .. n -> [V -> V]]
  PROVE  \E g : Recurs(g, V, n, v, step)
<1> DEFINE Good(m) == \E g \in [1 .. m -> V] : \A i \in 1 .. m : g[i] = IF i = 1 THEN v ELSE step[i][g[i - 1]]
           T == {m \in Nat : m > n \/ Good(m)}
<1>1. 0 \in T
  <2>1. [i \in 1 .. 0 |-> v] \in [1 .. 0 -> V] /\ \A i \in 1 .. 0 : FALSE
    OBVIOUS
  <2>2. QED
    BY <2>1
<1>2. ASSUME NEW m \in Nat, m \in T PROVE m + 1 \in T
  <2>1. CASE m + 1 > n
    BY <2>1
  <2>2. CASE m + 1 <= n
    <3>1. PICK g \in [1 .. m -> V] : \A i \in 1 .. m : g[i] = IF i = 1 THEN v ELSE step[i][g[i - 1]]
      BY <1>2, <2>2
    <3> DEFINE h == [i \in 1 .. m + 1 |-> IF i <= m THEN g[i] ELSE IF m = 0 THEN v ELSE step[m + 1][g[m]]]
    <3>2. m # 0 => m \in 1 .. m /\ m + 1 \in 1 .. n
      BY <2>2
    <3>3. m # 0 => step[m + 1][g[m]] \in V
      BY <3>2
    <3>4. h \in [1 .. m + 1 -> V]
      BY <3>3
    <3>5. ASSUME NEW i \in 1 .. m + 1 PROVE h[i] = IF i = 1 THEN v ELSE step[i][h[i - 1]]
      <4>1. CASE i <= m
        <5>1. i # 1 => i - 1 \in 1 .. m + 1 /\ i - 1 <= m
          BY <4>1
        <5>2. QED
          BY <3>1, <4>1, <5>1
      <4>2. CASE i = m + 1
        <5>1. m # 0 => h[m] = g[m]
          BY <3>2
        <5>2. ~(i <= m) /\ i - 1 = m
          BY <4>2
        <5>3. QED
          BY <4>2, <5>1, <5>2
      <4>3. QED
        BY <4>1, <4>2
    <3>6. Good(m + 1)
      <4> HIDE DEF h
      <4>1. QED
        BY <3>4, <3>5
    <3>7. QED
      <4> HIDE DEF Good
      <4>1. QED
        BY <3>6
  <2>3. QED
    BY <2>1, <2>2
<1>3. n \in T
  <2> HIDE DEF T
  <2>1. QED
    BY <1>1, <1>2, SetInduction
<1>4. QED
  BY <1>3 DEF Recurs

\* Its values are where its steps lead.
LEMMA RecursionType ==
  ASSUME NEW V, NEW n \in Nat, NEW f,
         n >= 1 => f[1] \in V,
         \A i \in 2 .. n : f[i - 1] \in V => f[i] \in V
  PROVE  \A i \in 1 .. n : f[i] \in V
<1> DEFINE T == {i \in Int : f[i] \in V}
<1>1. 1 <= n => 1 \in T
  OBVIOUS
<1>2. ASSUME NEW i \in 1 .. n - 1, i \in T PROVE i + 1 \in T
  <2>1. i + 1 \in 2 .. n /\ (i + 1) - 1 = i
    OBVIOUS
  <2>2. f[i + 1] \in V
    BY <1>2, <2>1
  <2>3. QED
    BY <2>2
<1>3. 1 .. n \subseteq T
  <2> HIDE DEF T
  <2>1. QED
    BY <1>1, <1>2, RangeInduction
<1>4. QED
  BY <1>3

\* The n values of f after its value v at 0 go on with step.
RecursFromZero(f, V, n, v, step) ==
  f \in [0 .. n -> V] /\ \A k \in 0 .. n : f[k] = IF k = 0 THEN v ELSE step[k][f[k - 1]]

LEMMA RecursionFromZero ==
  ASSUME NEW V, NEW n \in Nat, NEW v \in V, NEW step \in [1 .. n -> [V -> V]]
  PROVE  \E f : RecursFromZero(f, V, n, v, step)
<1> DEFINE late == [i \in 1 .. n + 1 |-> IF i = 1 THEN [x \in V |-> x] ELSE step[i - 1]]
<1>1. n + 1 \in Nat /\ late \in [1 .. n + 1 -> [V -> V]]
  <2>1. \A i \in 1 .. n + 1 : i # 1 => i - 1 \in 1 .. n
    OBVIOUS
  <2>2. \A i \in 1 .. n + 1 : (IF i = 1 THEN [x \in V |-> x] ELSE step[i - 1]) \in [V -> V]
    BY <2>1
  <2>3. QED
    BY <2>2
<1>2. PICK g : Recurs(g, V, n + 1, v, late)
  <2> HIDE DEF late
  <2>1. QED
    BY <1>1, RecursionExists
<1>3. g \in [1 .. n + 1 -> V] /\ \A i \in 1 .. n + 1 : g[i] = IF i = 1 THEN v ELSE late[i][g[i - 1]]
  <2> HIDE DEF late
  <2>1. QED
    BY <1>2 DEF Recurs
<1> DEFINE f == [k \in 0 .. n |-> g[k + 1]]
<1>4. \A k \in 0 .. n : k + 1 \in 1 .. n + 1
  OBVIOUS
<1>5. f \in [0 .. n -> V]
  BY <1>3, <1>4
<1>6. ASSUME NEW k \in 0 .. n PROVE f[k] = IF k = 0 THEN v ELSE step[k][f[k - 1]]
  <2>1. f[k] = g[k + 1] /\ k + 1 \in 1 .. n + 1
    OBVIOUS
  <2>2. CASE k = 0
    BY <1>3, <2>1, <2>2
  <2>3. CASE k # 0
    <3>1. k - 1 \in 0 .. n /\ (k - 1) + 1 = k /\ k + 1 # 1 /\ (k + 1) - 1 = k
      BY <2>3
    <3>2. f[k - 1] = g[k]
      BY <3>1
    <3>3. g[k + 1] = late[k + 1][g[k]]
      BY <1>3, <2>1, <3>1, Zenon
    <3>4. late[k + 1] = step[k]
      BY <2>1, <3>1, Zenon
    <3>5. QED
      BY <2>1, <2>3, <3>2, <3>3, <3>4, Zenon
  <2>4. QED
    BY <2>2, <2>3
<1>7. QED
  <2> HIDE DEF f
  <2>1. QED
    BY <1>5, <1>6 DEF RecursFromZero

-----------------------------------------------------------------------------
(* Sums                                                                     *)

\* g tabulates the sums of the first numbers of v: g[i + 1] of v[1] to v[i].
Sums(g, n, v) ==
  /\ n \in Nat
  /\ v \in [1 .. n -> Int]
  /\ g = [i \in 1 .. n + 1 |-> IF i = 1 THEN 0 ELSE g[i - 1] + v[i - 1]]

LEMMA SumsAre ==
  ASSUME NEW n, NEW v, NEW g, Sums(g, n, v)
  PROVE  /\ n \in Nat
         /\ v \in [1 .. n -> Int]
         /\ g[1] = 0
         /\ \A i \in 1 .. n : g[i + 1] = g[i] + v[i]
         /\ \A i \in 1 .. n + 1 : g[i] \in Int
<1>1. /\ n \in Nat /\ v \in [1 .. n -> Int]
      /\ \A i \in 1 .. n + 1 : g[i] = IF i = 1 THEN 0 ELSE g[i - 1] + v[i - 1]
  BY DEF Sums
<1>2. 1 \in 1 .. n + 1 /\ \A i \in 1 .. n : i + 1 \in 1 .. n + 1 /\ i + 1 # 1 /\ (i + 1) - 1 = i
  BY <1>1
<1>3. g[1] = 0 /\ \A i \in 1 .. n : g[i + 1] = g[i] + v[i]
  BY <1>1, <1>2
<1>4. \A i \in 2 .. n + 1 : g[i - 1] \in Int => g[i] \in Int
  <2>1. ASSUME NEW i \in 2 .. n + 1, g[i - 1] \in Int PROVE g[i] \in Int
    <3>1. i - 1 \in 1 .. n /\ (i - 1) + 1 = i
      BY <1>1
    <3>2. g[i] = g[i - 1] + v[i - 1] /\ v[i - 1] \in Int
      BY <1>1, <1>3, <3>1
    <3>3. QED
      BY <2>1, <3>2
  <2>2. QED
    BY <2>1
<1>5. n + 1 \in Nat /\ (n + 1 >= 1 => g[1] \in Int)
  BY <1>1, <1>3
<1>6. \A i \in 1 .. n + 1 : g[i] \in Int
  BY <1>4, <1>5, RecursionType
<1>7. QED
  BY <1>1, <1>3, <1>6

LEMMA SumsExist ==
  ASSUME NEW n \in Nat, NEW v \in [1 .. n -> Int]
  PROVE  \E g : Sums(g, n, v)
<1> DEFINE step == [i \in 1 .. n + 1 |-> [x \in Int |-> IF i = 1 THEN 0 ELSE x + v[i - 1]]]
<1>1. step \in [1 .. n + 1 -> [Int -> Int]]
  <2>1. \A i \in 1 .. n + 1, x \in Int : (IF i = 1 THEN 0 ELSE x + v[i - 1]) \in Int
    <3>1. \A i \in 1 .. n + 1 : i # 1 => i - 1 \in 1 .. n
      OBVIOUS
    <3>2. QED
      BY <3>1
  <2>2. QED
    BY <2>1
<1>2. n + 1 \in Nat /\ 0 \in Int
  OBVIOUS
<1>3. PICK g : Recurs(g, Int, n + 1, 0, step)
  <2> HIDE DEF step
  <2>1. QED
    BY <1>1, <1>2, RecursionExists
<1>4. /\ g = [i \in 1 .. n + 1 |-> g[i]]
      /\ \A i \in 1 .. n + 1 : g[i] \in Int /\ g[i] = IF i = 1 THEN 0 ELSE step[i][g[i - 1]]
  <2> HIDE DEF step
  <2>1. QED
    BY <1>3 DEF Recurs
<1>5. ASSUME NEW i \in 1 .. n + 1
      PROVE  g[i] = IF i = 1 THEN 0 ELSE g[i - 1] + v[i - 1]
  <2>1. CASE i = 1
    BY <1>4, <2>1
  <2>2. CASE i # 1
    <3>1. i - 1 \in 1 .. n + 1
      BY <2>2
    <3>2. g[i - 1] \in Int
      BY <1>4, <3>1
    <3>3. g[i] = step[i][g[i - 1]]
      BY <1>4, <2>2
    <3>4. QED
      BY <2>2, <3>2, <3>3
  <2>3. QED
    BY <2>1, <2>2
<1>6. Sums(g, n, v)
  <2> HIDE DEF step
  <2>1. QED
    BY <1>4, <1>5 DEF Sums
<1>7. QED
  BY <1>6

Adds(w, u, v, n) == \A i \in 1 .. n : w[i] = u[i] + v[i]

\* Two sums, term by term.
LEMMA SumsAdd ==
  ASSUME NEW n, NEW u, NEW v, NEW w, NEW f, NEW g, NEW h, Sums(f, n, u), Sums(g, n, v), Sums(h, n, w),
         Adds(w, u, v, n)
  PROVE  h[n + 1] = f[n + 1] + g[n + 1]
<1> DEFINE T == {i \in Int : h[i] = f[i] + g[i]}
<1>1. /\ n \in Nat /\ u \in [1 .. n -> Int] /\ v \in [1 .. n -> Int] /\ w \in [1 .. n -> Int]
      /\ f[1] = 0 /\ \A i \in 1 .. n : f[i + 1] = f[i] + u[i]
      /\ \A i \in 1 .. n + 1 : f[i] \in Int
  BY SumsAre
<1>2. /\ g[1] = 0 /\ \A i \in 1 .. n : g[i + 1] = g[i] + v[i]
      /\ \A i \in 1 .. n + 1 : g[i] \in Int
  BY SumsAre
<1>3. h[1] = 0 /\ \A i \in 1 .. n : h[i + 1] = h[i] + w[i]
  BY SumsAre
<1>4. 1 <= n + 1 => 1 \in T
  BY <1>1, <1>2, <1>3
<1>5. ASSUME NEW i \in 1 .. (n + 1) - 1, i \in T PROVE i + 1 \in T
  <2>1. i \in 1 .. n /\ i \in 1 .. n + 1 /\ u[i] \in Int /\ v[i] \in Int /\ w[i] = u[i] + v[i]
    BY <1>1 DEF Adds
  <2>2. f[i] \in Int /\ g[i] \in Int /\ h[i] = f[i] + g[i]
    BY <1>1, <1>5, <1>2, <2>1
  <2>3. f[i + 1] = f[i] + u[i] /\ g[i + 1] = g[i] + v[i] /\ h[i + 1] = h[i] + w[i]
    BY <1>1, <1>2, <1>3, <2>1
  <2>4. h[i + 1] = f[i + 1] + g[i + 1]
    BY <2>1, <2>2, <2>3
  <2>5. QED
    BY <2>4
<1>6. 1 .. n + 1 \subseteq T
  <2> HIDE DEF T
  <2>1. 1 \in Int /\ n + 1 \in Int /\ \A i \in 1 .. (n + 1) - 1 : i \in T => i + 1 \in T
    BY <1>1, <1>5
  <2>2. QED
    BY <1>4, <2>1, RangeInduction
<1>7. QED
  BY <1>1, <1>6

\* A sum of numbers that are not negative.
LEMMA SumsNat ==
  ASSUME NEW n \in Nat, NEW v \in [1 .. n -> Nat], NEW g, Sums(g, n, v)
  PROVE  g[n + 1] \in Nat
<1>1. v \in [1 .. n -> Int]
  OBVIOUS
<1>2. g[1] = 0 /\ \A i \in 1 .. n : g[i + 1] = g[i] + v[i]
  BY <1>1, SumsAre
<1>3. \A i \in 2 .. n + 1 : g[i - 1] \in Nat => g[i] \in Nat
  <2>1. ASSUME NEW i \in 2 .. n + 1, g[i - 1] \in Nat PROVE g[i] \in Nat
    <3>1. i - 1 \in 1 .. n /\ (i - 1) + 1 = i
      OBVIOUS
    <3>2. g[i] = g[i - 1] + v[i - 1] /\ v[i - 1] \in Nat
      BY <1>2, <3>1
    <3>3. QED
      BY <2>1, <3>2
  <2>2. QED
    BY <2>1
<1>4. n + 1 \in Nat /\ (n + 1 >= 1 => g[1] \in Nat)
  BY <1>2
<1>5. \A i \in 1 .. n + 1 : g[i] \in Nat
  BY <1>3, <1>4, RecursionType
<1>6. QED
  BY <1>5

\* A sum with one term.
LEMMA SumsSingle ==
  ASSUME NEW n \in Nat, NEW v \in [1 .. n -> Int], NEW g, Sums(g, n, v), NEW m \in 1 .. n,
         \A i \in 1 .. n : i # m => v[i] = 0
  PROVE  g[n + 1] = v[m]
<1> DEFINE T == {i \in Int : g[i] = IF i <= m THEN 0 ELSE v[m]}
<1>1. g[1] = 0 /\ \A i \in 1 .. n : g[i + 1] = g[i] + v[i] /\ v[i] \in Int
  BY SumsAre
<1>2. 1 <= n + 1 => 1 \in T
  BY <1>1
<1>3. ASSUME NEW i \in 1 .. (n + 1) - 1, i \in T PROVE i + 1 \in T
  <2>1. i \in 1 .. n /\ g[i + 1] = g[i] + v[i] /\ v[i] \in Int
    BY <1>1
  <2>2. CASE i < m
    BY <1>3, <2>1, <2>2
  <2>3. CASE i = m
    BY <1>3, <2>1, <2>3
  <2>4. CASE i > m
    BY <1>3, <2>1, <2>4, <1>1
  <2>5. QED
    BY <2>2, <2>3, <2>4
<1>4. 1 .. n + 1 \subseteq T
  <2> HIDE DEF T
  <2>1. QED
    BY <1>2, <1>3, RangeInduction, SMTT(60)
<1>5. QED
  BY <1>4

\* A sum of nothing.
LEMMA SumsNone ==
  ASSUME NEW n \in Nat, NEW v \in [1 .. n -> Int], NEW g, Sums(g, n, v), \A i \in 1 .. n : v[i] = 0
  PROVE  g[n + 1] = 0
<1> DEFINE T == {i \in Int : g[i] = 0}
<1>1. g[1] = 0 /\ \A i \in 1 .. n : g[i + 1] = g[i] + v[i]
  BY SumsAre
<1>2. 1 <= n + 1 => 1 \in T
  BY <1>1
<1>3. ASSUME NEW i \in 1 .. (n + 1) - 1, i \in T PROVE i + 1 \in T
  <2>1. i \in 1 .. n /\ g[i + 1] = g[i] + v[i] /\ v[i] = 0
    BY <1>1
  <2>2. QED
    BY <1>3, <2>1
<1>4. 1 .. n + 1 \subseteq T
  <2> HIDE DEF T
  <2>1. QED
    BY <1>2, <1>3, RangeInduction
<1>5. QED
  BY <1>4
-----------------------------------------------------------------------------
(* Putting two sequences one after the other                                *)

LEMMA ConcatFacts ==
  ASSUME NEW S, NEW s \in Seq(S), NEW t \in Seq(S)
  PROVE  /\ s \o t \in Seq(S)
         /\ Len(s \o t) = Len(s) + Len(t)
         /\ \A i \in 1 .. Len(s) : (s \o t)[i] = s[i]
         /\ \A i \in 1 .. Len(t) : (s \o t)[Len(s) + i] = t[i]
  OBVIOUS

LEMMA ConcatAssoc ==
  ASSUME NEW S, NEW s \in Seq(S), NEW t \in Seq(S), NEW u \in Seq(S)
  PROVE  (s \o t) \o u = s \o (t \o u)
  OBVIOUS

\* Sequences of the same elements are the same.
LEMMA SameSequence ==
  ASSUME NEW S, NEW s \in Seq(S), NEW t \in Seq(S), Len(s) = Len(t), \A i \in 1 .. Len(s) : s[i] = t[i]
  PROVE  s = t
  OBVIOUS

-----------------------------------------------------------------------------
(* FlattenSeq                                                               *)

\* The prefixes of a sequence of sequences, one put after the other.
Flattens(f, s) ==
  /\ f = [i \in 1 .. Len(s) |-> f[i]]
  /\ \A i \in 1 .. Len(s) : f[i] = IF i = 1 THEN s[i] ELSE f[i - 1] \o s[i]

\* That is what a definition by recursion says.
LEMMA FlattensIs ==
  ASSUME NEW s, NEW f
  PROVE  Flattens(f, s) <=> f = [i \in 1 .. Len(s) |-> IF i = 1 THEN s[i] ELSE f[i - 1] \o s[i]]
<1> DEFINE D == 1 .. Len(s)
           e(i) == IF i = 1 THEN s[i] ELSE f[i - 1] \o s[i]
<1> SUFFICES (f = [i \in D |-> f[i]] /\ \A i \in D : f[i] = e(i)) <=> f = [i \in D |-> e(i)]
  BY Zenon DEF Flattens
<1> HIDE DEF D, e
<1>1. ASSUME f = [i \in D |-> f[i]], \A i \in D : f[i] = e(i) PROVE f = [i \in D |-> e(i)]
  <2>1. [i \in D |-> f[i]] = [i \in D |-> e(i)]
    BY <1>1, Zenon
  <2>2. QED
    BY <1>1, <2>1, Zenon
<1>2. ASSUME NEW g, f = g, g = [i \in D |-> e(i)] PROVE f = [i \in D |-> f[i]] /\ \A i \in D : f[i] = e(i)
  <2>1. \A i \in D : g[i] = e(i)
    BY <1>2
  <2>2. g = [i \in D |-> g[i]]
    BY <1>2
  <2>3. QED
    BY <1>2, <2>1, <2>2, Zenon
<1>3. QED
  BY <1>1, <1>2, Zenon

LEMMA FlattenExists ==
  ASSUME NEW S, NEW s \in Seq(Seq(S))
  PROVE  \E f : Flattens(f, s)
<1> DEFINE step == [i \in 1 .. Len(s) |-> [t \in Seq(S) |-> t \o s[i]]]
           n == Len(s)
<1>1. n \in Nat /\ \A i \in 1 .. n : s[i] \in Seq(S)
  OBVIOUS
<1>2. CASE n = 0
  <2>1. 1 .. Len(s) = {}
    BY <1>2
  <2>2. [i \in {} |-> s] = [i \in {} |-> [j \in {} |-> s][i]]
    OBVIOUS
  <2>3. Flattens([i \in {} |-> s], s)
    BY <2>1, <2>2, Zenon DEF Flattens
  <2>4. QED
    BY <2>3
<1>3. CASE n # 0
  <2>1. step \in [1 .. n -> [Seq(S) -> Seq(S)]] /\ s[1] \in Seq(S)
    BY <1>1, <1>3
  <2>2. \A i \in 1 .. n, t \in Seq(S) : step[i][t] = t \o s[i]
    OBVIOUS
  <2>3. PICK g \in [1 .. n -> Seq(S)] : \A i \in 1 .. n : g[i] = IF i = 1 THEN s[1] ELSE step[i][g[i - 1]]
    <3>1. n \in Nat
      BY <1>1
    <3> DEFINE v == s[1]
               V == Seq(S)
    <3>2. v \in V /\ step \in [1 .. n -> [V -> V]]
      BY <2>1
    <3> HIDE DEF step, n, v, V
    <3>3. \E g : Recurs(g, V, n, v, step)
      BY <3>1, <3>2, RecursionExists
    <3>4. QED
      BY <3>3 DEF Recurs, v, V
  <2>4. \A i \in 1 .. n : g[i] = IF i = 1 THEN s[i] ELSE g[i - 1] \o s[i]
    <3> SUFFICES ASSUME NEW i \in 1 .. n, i # 1 PROVE g[i] = g[i - 1] \o s[i]
      BY <2>3
    <3>1. i - 1 \in 1 .. n
      BY <1>1
    <3>2. g[i - 1] \in Seq(S)
      BY <2>3, <3>1
    <3> HIDE DEF step
    <3>3. QED
      BY <2>2, <2>3, <3>2
  <2>5. g = [i \in 1 .. n |-> g[i]]
    BY <2>3
  <2>6. Flattens(g, s)
    BY <2>4, <2>5 DEF Flattens
  <2>7. QED
    BY <2>6
<1>4. QED
  BY <1>2, <1>3

LEMMA FlattensType ==
  ASSUME NEW S, NEW s \in Seq(Seq(S)), NEW f, Flattens(f, s)
  PROVE  \A i \in 1 .. Len(s) : f[i] \in Seq(S)
<1>1. \A i \in 1 .. Len(s) : f[i] = IF i = 1 THEN s[i] ELSE f[i - 1] \o s[i]
  BY Zenon DEF Flattens
<1>2. Len(s) \in Nat
  OBVIOUS
<1>3. Len(s) >= 1 => f[1] \in Seq(S)
  BY <1>1, <1>2
<1>4. ASSUME NEW i \in 2 .. Len(s), f[i - 1] \in Seq(S) PROVE f[i] \in Seq(S)
  <2>1. i \in 1 .. Len(s) /\ i # 1
    BY <1>2
  <2>2. f[i] = f[i - 1] \o s[i]
    BY <1>1, <2>1, Zenon
  <2>3. s[i] \in Seq(S)
    BY <2>1
  <2>4. QED
    BY <1>4, <2>2, <2>3
<1>5. QED
  BY <1>2, <1>3, <1>4, RecursionType

\* s goes on where t ends.
Continues(s, t) == Len(t) <= Len(s) /\ \A i \in 1 .. Len(t) : s[i] = t[i]

\* Shorter sequences have the same prefixes.
LEMMA FlattensSame ==
  ASSUME NEW S, NEW s \in Seq(Seq(S)), NEW t \in Seq(Seq(S)), NEW f, NEW g,
         Flattens(f, s), Flattens(g, t), Continues(s, t)
  PROVE  \A i \in 1 .. Len(t) : f[i] = g[i]
<1> DEFINE n == Len(t)
           T == {i \in Int : f[i] = g[i]}
<1>0. n \in Nat /\ n \in Int /\ 1 \in Int /\ 1 .. n \subseteq 1 .. Len(s)
  BY DEF Continues
<1>1. \A i \in 1 .. n : /\ f[i] = IF i = 1 THEN s[i] ELSE f[i - 1] \o s[i]
                       /\ g[i] = IF i = 1 THEN t[i] ELSE g[i - 1] \o t[i]
  BY <1>0, Zenon DEF Flattens
<1>2. 1 <= n => 1 \in T
  BY <1>0, <1>1 DEF Continues
<1>3. ASSUME NEW i \in 1 .. n - 1, i \in T PROVE i + 1 \in T
  <2>1. i + 1 \in 1 .. n /\ i + 1 # 1 /\ (i + 1) - 1 = i
    BY <1>0
  <2>2. f[i + 1] = f[i] \o s[i + 1] /\ g[i + 1] = g[i] \o t[i + 1]
    BY <1>1, <2>1, Zenon
  <2>3. s[i + 1] = t[i + 1] /\ i + 1 \in Int /\ f[i] = g[i]
    BY <1>3, <2>1 DEF Continues
  <2>4. QED
    BY <2>2, <2>3
<1>4. 1 .. n \subseteq T
  <2> HIDE DEF T, n
  <2>1. QED
    BY <1>0, <1>2, <1>3, RangeInduction, Zenon
<1>5. QED
  BY <1>4

LEMMA FlattenIs ==
  ASSUME NEW S, NEW s \in Seq(Seq(S))
  PROVE  \E f : Flattens(f, s) /\ FlattenSeq(s) = IF Len(s) = 0 THEN << >> ELSE f[Len(s)]
<1> DEFINE f == CHOOSE f : f = [i \in 1 .. Len(s) |-> IF i = 1 THEN s[i] ELSE f[i - 1] \o s[i]]
<1>1. Flattens(f, s)
  BY FlattenExists, FlattensIs, Zenon
<1>2. Len(s) = 0 => s = << >>
  OBVIOUS
<1>3. FlattenSeq(s) = IF Len(s) = 0 THEN s ELSE f[Len(s)]
  BY DEF FlattenSeq
<1>4. QED
  BY <1>1, <1>2, <1>3

LEMMA FlattenType ==
  ASSUME NEW S, NEW s \in Seq(Seq(S))
  PROVE  FlattenSeq(s) \in Seq(S)
<1>1. PICK f : Flattens(f, s) /\ FlattenSeq(s) = IF Len(s) = 0 THEN << >> ELSE f[Len(s)]
  BY FlattenIs
<1>2. Len(s) # 0 => Len(s) \in 1 .. Len(s)
  OBVIOUS
<1>3. QED
  BY <1>1, <1>2, FlattensType

LEMMA FlattenEmpty ==
  ASSUME NEW s, s \in [1 .. 0 -> {}]
  PROVE  FlattenSeq(s) = << >>
<1>1. s = << >>
  OBVIOUS
<1>2. QED
  BY <1>1 DEF FlattenSeq

\* What a last sequence adds.
LEMMA FlattenStep ==
  ASSUME NEW S, NEW n \in Nat, NEW s \in Seq(Seq(S)), NEW t \in Seq(Seq(S)),
         Len(s) = n + 1, Len(t) = n, \A i \in 1 .. n : s[i] = t[i]
  PROVE  FlattenSeq(s) = FlattenSeq(t) \o s[n + 1]
<1>1. PICK f : Flattens(f, s) /\ FlattenSeq(s) = f[n + 1]
  BY FlattenIs
<1>2. PICK g : Flattens(g, t) /\ FlattenSeq(t) = IF n = 0 THEN << >> ELSE g[n]
  BY FlattenIs
<1>3. \A i \in 1 .. n : f[i] = g[i]
  <2>1. Continues(s, t)
    BY DEF Continues
  <2>2. \A i \in 1 .. Len(t) : f[i] = g[i]
    BY <1>1, <1>2, <2>1, FlattensSame
  <2>3. QED
    BY <2>2
<1>4. n + 1 \in 1 .. Len(s) /\ (n + 1) - 1 = n
  OBVIOUS
<1>5. f[n + 1] = IF n + 1 = 1 THEN s[n + 1] ELSE f[n] \o s[n + 1]
  BY <1>1, <1>4 DEF Flattens
<1>6. s[n + 1] \in Seq(S)
  BY <1>4
<1>7. CASE n = 0
  BY <1>1, <1>2, <1>5, <1>6, <1>7
<1>8. CASE n # 0
  <2>1. n \in 1 .. n /\ n + 1 # 1
    BY <1>8
  <2>2. FlattenSeq(t) = f[n] /\ f[n + 1] = f[n] \o s[n + 1]
    BY <1>2, <1>3, <1>5, <1>8, <2>1, Zenon
  <2>3. QED
    BY <1>1, <2>2
<1>9. QED
  BY <1>7, <1>8

\* What the first k sequences of s flatten to.
Upto(s, k) == FlattenSeq([i \in 1 .. k |-> s[i]])

LEMMA UptoNone ==
  ASSUME NEW s
  PROVE  Upto(s, 0) = << >>
<1>1. [i \in 1 .. 0 |-> s[i]] \in [1 .. 0 -> {}]
  OBVIOUS
<1>2. QED
  BY <1>1, FlattenEmpty DEF Upto

LEMMA UptoAll ==
  ASSUME NEW S, NEW s \in Seq(Seq(S))
  PROVE  Upto(s, Len(s)) = FlattenSeq(s)
<1>1. [i \in 1 .. Len(s) |-> s[i]] = s
  OBVIOUS
<1>2. QED
  BY <1>1 DEF Upto

LEMMA UptoType ==
  ASSUME NEW S, NEW s \in Seq(Seq(S)), NEW k \in 0 .. Len(s)
  PROVE  Upto(s, k) \in Seq(S)
<1>1. [i \in 1 .. k |-> s[i]] \in Seq(Seq(S))
  OBVIOUS
<1>2. QED
  BY <1>1, FlattenType DEF Upto

LEMMA UptoStep ==
  ASSUME NEW S, NEW s \in Seq(Seq(S)), NEW k \in 0 .. Len(s) - 1
  PROVE  /\ Upto(s, k + 1) = Upto(s, k) \o s[k + 1]
         /\ Len(Upto(s, k + 1)) = Len(Upto(s, k)) + Len(s[k + 1])
<1> DEFINE t == [i \in 1 .. k + 1 |-> s[i]]
           u == [i \in 1 .. k |-> s[i]]
<1>1. t \in Seq(Seq(S)) /\ u \in Seq(Seq(S)) /\ Len(t) = k + 1 /\ Len(u) = k /\ k \in Nat
  OBVIOUS
<1>2. \A i \in 1 .. k : t[i] = u[i]
  OBVIOUS
<1>3. t[k + 1] = s[k + 1] /\ s[k + 1] \in Seq(S)
  OBVIOUS
<1>4. FlattenSeq(t) = FlattenSeq(u) \o t[k + 1]
  <2> HIDE DEF t, u
  <2>1. QED
    BY <1>1, <1>2, FlattenStep
<1>5. Upto(s, k) \in Seq(S)
  BY UptoType
<1>6. Upto(s, k + 1) = Upto(s, k) \o s[k + 1]
  BY <1>3, <1>4 DEF Upto
<1>7. QED
  <2> HIDE DEF t, u
  <2>1. QED
    BY <1>3, <1>5, <1>6

\* A sequence of sequences flattens to one that continues what its first ones
\* flatten to.
LEMMA UptoContinues ==
  ASSUME NEW S, NEW s \in Seq(Seq(S)), NEW k \in 0 .. Len(s), NEW m \in k .. Len(s)
  PROVE  Continues(Upto(s, m), Upto(s, k))
<1> DEFINE T == {j \in Int : Continues(Upto(s, j), Upto(s, k))}
<1>1. k <= Len(s) => k \in T
  <2>1. Upto(s, k) \in Seq(S)
    BY UptoType
  <2>2. QED
    BY <2>1 DEF Continues
<1>2. ASSUME NEW j \in k .. Len(s) - 1, j \in T PROVE j + 1 \in T
  <2>1. j \in 0 .. Len(s) - 1 /\ j \in 0 .. Len(s) /\ s[j + 1] \in Seq(S)
    OBVIOUS
  <2>2. Upto(s, j + 1) = Upto(s, j) \o s[j + 1] /\ Upto(s, j) \in Seq(S) /\ Upto(s, k) \in Seq(S)
    BY <2>1, UptoStep, UptoType
  <2>3. Len(Upto(s, k)) <= Len(Upto(s, j)) /\ \A i \in 1 .. Len(Upto(s, k)) : Upto(s, j)[i] = Upto(s, k)[i]
    BY <1>2 DEF Continues
  <2>4. Continues(Upto(s, j) \o s[j + 1], Upto(s, k))
    BY <2>1, <2>2, <2>3, SMTT(60) DEF Continues
  <2>5. Continues(Upto(s, j + 1), Upto(s, k))
    BY <2>2, <2>4, Zenon
  <2>6. QED
    BY <2>5
<1>3. k .. Len(s) \subseteq T
  <2>1. k \in Int /\ Len(s) \in Int
    OBVIOUS
  <2> HIDE DEF T
  <2>2. QED
    BY <1>1, <1>2, <2>1, RangeInduction
<1>4. QED
  BY <1>3

\* Where the elements of the k-th sequence are found.
LEMMA FlattenAt ==
  ASSUME NEW S, NEW s \in Seq(Seq(S)), NEW k \in 0 .. Len(s) - 1, NEW i \in 1 .. Len(s[k + 1])
  PROVE  /\ Len(Upto(s, k)) + i \in 1 .. Len(FlattenSeq(s))
         /\ FlattenSeq(s)[Len(Upto(s, k)) + i] = s[k + 1][i]
<1>1. k \in 0 .. Len(s) /\ k + 1 \in 0 .. Len(s) /\ Len(s) \in k + 1 .. Len(s) /\ s[k + 1] \in Seq(S)
  OBVIOUS
<1>2. Upto(s, k) \in Seq(S) /\ Upto(s, k + 1) = Upto(s, k) \o s[k + 1]
  BY <1>1, UptoType, UptoStep
<1>3. Continues(FlattenSeq(s), Upto(s, k + 1))
  BY <1>1, UptoContinues, UptoAll
<1>4. /\ Len(Upto(s, k)) + i \in 1 .. Len(Upto(s, k + 1))
      /\ Upto(s, k + 1)[Len(Upto(s, k)) + i] = s[k + 1][i]
  BY <1>1, <1>2, SMTT(60)
<1>5. FlattenSeq(s) \in Seq(S)
  BY FlattenType
<1>6. QED
  BY <1>2, <1>3, <1>4, <1>5 DEF Continues
=============================================================================
