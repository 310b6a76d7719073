---------------------------- MODULE BchFieldProofs ----------------------------
(***************************************************************************)
(* The tables of build_gf_tables make GF(2^M) a field, for every M and     *)
(* primitive polynomial that bch_init accepts, what sums in it obey, and   *)
(* the BCH bound: a nonzero polynomial over GF(2) that vanishes at a, a^2, *)
(* .. a^k has more than k terms.                                           *)
(***************************************************************************)
EXTENDS BchCode, FiniteSetTheorems, TLAPS

-----------------------------------------------------------------------------
\* Induction over a set of numbers, from the order of the intervals 0..k.
LEMMA Induction ==
  ASSUME NEW S, 0 \in S, NEW n \in Nat,
         \A k \in 0 .. n-1 : k \in S => k + 1 \in S
  PROVE  0..n \subseteq S
<1> SUFFICES ASSUME NEW m \in 0..n, m \notin S PROVE FALSE
  OBVIOUS
<1> DEFINE Bad == {x \in SUBSET (0..n) : \E k \in 0..n : x = 0..k /\ k \notin S}
           R == StrictSubsetOrdering(0..n)
<1>1. IsFiniteSet(0..n)
  BY FS_Interval
<1>2. IsWellFoundedOn(R, SUBSET (0..n))
  BY <1>1, FS_StrictSubsetOrderingWellFounded, FS_FiniteSubsetsOfFinite
<1>3. 0..m \in Bad
  OBVIOUS
<1>4. Bad \subseteq SUBSET (0..n) /\ Bad # {}
  BY <1>3
<1> HIDE DEF Bad, R
<1>5. PICK x \in Bad : \A y \in Bad : ~ (<<y, x>> \in R)
  BY <1>2, <1>4, WFMin
<1>6. PICK k \in 0..n : x = 0..k /\ k \notin S
  BY <1>5 DEF Bad
<1>7. k - 1 \in 0 .. n-1 /\ k - 1 \notin S
  BY <1>6
<1>8. 0 .. k-1 \in Bad
  BY <1>7 DEF Bad
<1>9. <<0 .. k-1, x>> \in R
  BY <1>6, <1>7, <1>8 DEF R, StrictSubsetOrdering, Bad
<1> QED
  BY <1>5, <1>8, <1>9

LEMMA Typed ==
  ASSUME NEW n \in Nat, NEW S, NEW h, h[0] \in S[0],
         \A i \in 1..n : h[i-1] \in S[i-1] => h[i] \in S[i]
  PROVE  \A i \in 0..n : h[i] \in S[i]
<1> DEFINE Good == {i \in 0..n : h[i] \in S[i]}
<1>1. 0 \in Good
  OBVIOUS
<1>2. \A k \in 0 .. n-1 : k \in Good => k + 1 \in Good
  <2> SUFFICES ASSUME NEW k \in 0 .. n-1, k \in Good PROVE k + 1 \in Good
    OBVIOUS
  <2>1. k + 1 \in 1..n /\ (k + 1) - 1 = k
    OBVIOUS
  <2> QED
    BY <2>1
<1> HIDE DEF Good
<1>3. 0..n \subseteq Good
  BY <1>1, <1>2, Induction
<1> QED
  BY <1>3 DEF Good

Recursive(g, n, S, b, step) ==
  /\ g = [i \in 0..n |-> IF i = 0 THEN b ELSE step[i][g[i-1]]]
  /\ \A i \in 0..n : g[i] \in S[i]

\* A function defined by recursion on 0..n exists when each step goes from its
\* set of values to the next one.
LEMMA Recursion ==
  ASSUME NEW n \in Nat, NEW S, NEW b \in S[0], NEW step,
         \A i \in 1..n : step[i] \in [S[i-1] -> S[i]]
  PROVE  \E g : Recursive(g, n, S, b, step)
<1> DEFINE Fits(g, k) == g = [i \in 0..k |-> IF i = 0 THEN b ELSE step[i][g[i-1]]]
           Good == {k \in 0..n : \E g : Fits(g, k) /\ \A i \in 0..k : g[i] \in S[i]}
<1>1. 0 \in Good
  <2> DEFINE g == [i \in 0..0 |-> b]
  <2>1. Fits(g, 0) /\ \A i \in 0..0 : g[i] \in S[i]
    OBVIOUS
  <2>2. \E x : Fits(x, 0) /\ \A i \in 0..0 : x[i] \in S[i]
    <3> HIDE DEF g, Fits
    <3> QED
      BY <2>1
  <2> HIDE DEF Fits
  <2> QED
    BY <2>2
<1>2. \A k \in 0 .. n-1 : k \in Good => k + 1 \in Good
  <2> SUFFICES ASSUME NEW k \in 0 .. n-1, k \in Good PROVE k + 1 \in Good
    OBVIOUS
  <2>1. PICK g : Fits(g, k) /\ \A i \in 0..k : g[i] \in S[i]
    OBVIOUS
  <2> DEFINE h == [i \in 0 .. k+1 |-> IF i \in 0..k THEN g[i] ELSE step[k+1][g[k]]]
  <2>2. \A i \in 0..k : h[i] = g[i] /\ g[i] = IF i = 0 THEN b ELSE step[i][g[i-1]]
    BY <2>1
  <2>3. h[k+1] = step[k+1][h[k]] /\ h[k+1] \in S[k+1]
    <3>1. k + 1 \in 1..n /\ (k + 1) - 1 = k
      OBVIOUS
    <3> QED
      BY <3>1, <2>1
  <2>4. h = [i \in 0 .. k+1 |-> IF i = 0 THEN b ELSE step[i][h[i-1]]]
    <3>1. \A i \in 0 .. k+1 : h[i] = IF i = 0 THEN b ELSE step[i][h[i-1]]
      <4> TAKE i \in 0 .. k+1
      <4>1. CASE i = k + 1
        <5>1. i # 0 /\ i - 1 = k
          BY <4>1
        <5> HIDE DEF h
        <5> QED
          BY <4>1, <5>1, <2>3
      <4>2. CASE i \in 0..k
        <5>1. i # 0 => i - 1 \in 0..k
          BY <4>2
        <5> HIDE DEF h
        <5> QED
          BY <4>2, <5>1, <2>2
      <4> QED
        BY <4>1, <4>2
    <3> QED
      BY <3>1
  <2>5. \A i \in 0 .. k+1 : h[i] \in S[i]
    <3> HIDE DEF h
    <3> QED
      BY <2>1, <2>2, <2>3
  <2>6. \E x : Fits(x, k + 1) /\ \A i \in 0 .. k+1 : x[i] \in S[i]
    <3> HIDE DEF h
    <3> QED
      BY <2>4, <2>5
  <2> HIDE DEF Fits
  <2> QED
    BY <2>6
<1> HIDE DEF Good
<1>3. n \in 0..n /\ n \in Good
  BY <1>1, <1>2, Induction
<1> QED
  BY <1>3 DEF Good, Recursive

-----------------------------------------------------------------------------
\* The field

LEMMA PowerOfTwo ==
  ASSUME NEW n \in Nat
  PROVE  2^n \in Nat
<1>1. IsFiniteSet(1..n) /\ Cardinality(1..n) = n
  BY FS_Interval
<1>2. IsFiniteSet(SUBSET (1..n)) /\ Cardinality(SUBSET (1..n)) = 2^n
  BY <1>1, FS_SUBSET
<1> QED
  BY <1>2, FS_CardinalityType

LEMMA Sizes ==
  /\ M \in Nat /\ M >= 5 /\ T \in Nat /\ T >= 1
  /\ N \in Nat /\ N > M
  /\ PrimPoly \subseteq 0..M /\ 0 \in PrimPoly /\ M \in PrimPoly
  /\ Bytes \in Nat
<1>1. M \in 5..15 /\ T \in 1..64 /\ M * T < N
  BY BchAssumption
<1>2. 2^M \in Nat
  BY <1>1, PowerOfTwo
<1>3. N \in Int
  BY <1>2 DEF N
<1>4. M * T >= M
  BY <1>1
<1> QED
  BY <1>1, <1>3, <1>4, BchAssumption

LEMMA ElementsFinite ==
  IsFiniteSet(Elements) /\ Cardinality(Elements) = N + 1
<1>1. IsFiniteSet(0 .. M-1) /\ Cardinality(0 .. M-1) = M
  BY Sizes, FS_Interval
<1>2. IsFiniteSet(SUBSET (0 .. M-1)) /\ Cardinality(SUBSET (0 .. M-1)) = 2^M
  BY <1>1, FS_SUBSET
<1>3. 2^M \in Nat
  BY PowerOfTwo, Sizes
<1> QED
  BY <1>2, <1>3 DEF Elements, N

\* The polynomials over GF(2) of a degree less than d, and those of degree d.
Below(d) == SUBSET (0 .. d-1)

Reducing(g, d) == d \in Nat /\ d > 0 /\ g \subseteq 0..d /\ d \in g

LEMMA TimesXBelow ==
  ASSUME NEW d, NEW g, Reducing(g, d), NEW p \in Below(d)
  PROVE  TimesX(p, g, d) \in Below(d)
<1> USE DEF Below, Reducing
<1> DEFINE x == {j + 1 : j \in p}
<1>1. x \subseteq 1..d
  OBVIOUS
<1> HIDE DEF x
<1>2. CASE d \in x
  <2>1. TimesX(p, g, d) = Plus(x, g)
    BY <1>2 DEF TimesX, x
  <2>2. \A j \in Plus(x, g) : j \in 0..d /\ j # d
    BY <1>1, <1>2 DEF Plus
  <2> QED
    BY <2>1, <2>2
<1>3. CASE d \notin x
  <2>1. TimesX(p, g, d) = x
    BY <1>3 DEF TimesX, x
  <2>2. \A j \in x : j \in 0 .. d-1
    BY <1>1, <1>3
  <2> QED
    BY <2>1, <2>2
<1> QED
  BY <1>2, <1>3

\* The table of Shifted.
Shifts(p, n, g, d) ==
  CHOOSE s : s = [i \in 0..n |-> IF i = 0 THEN p ELSE TimesX(s[i-1], g, d)]

LEMMA ShiftsDefined ==
  ASSUME NEW d, NEW g, Reducing(g, d), NEW p \in Below(d),
         NEW n \in Nat
  PROVE  /\ \A i \in 0..n : Shifts(p, n, g, d)[i] \in Below(d)
         /\ Shifts(p, n, g, d)[0] = p
         /\ \A i \in 1..n : Shifts(p, n, g, d)[i] = TimesX(Shifts(p, n, g, d)[i-1], g, d)
         /\ Shifted(p, n, g, d) = Shifts(p, n, g, d)[n]
<1> DEFINE V == Below(d)
           S == [i \in 0..n |-> V]
           step == [i \in 1..n |-> [x \in V |-> TimesX(x, g, d)]]
           Def(s) == s = [i \in 0..n |-> IF i = 0 THEN p ELSE TimesX(s[i-1], g, d)]
<1>1. \A x \in V : TimesX(x, g, d) \in V
  BY TimesXBelow
<1> HIDE DEF V
<1>2. \A i \in 1..n : step[i] \in [S[i-1] -> S[i]]
  BY <1>1
<1>3. p \in V
  BY DEF V
<1>4. p \in S[0]
  BY <1>3
<1> HIDE DEF step, S
<1>5. PICK s : Recursive(s, n, S, p, step)
  BY <1>2, <1>4, Recursion
<1>6. \A i \in 1..n : step[i][s[i-1]] = TimesX(s[i-1], g, d)
  BY SMTT(30), <1>5 DEF step, S, Recursive
<1>7. Def(s)
  BY <1>5, <1>6 DEF Recursive
<1>8. Def(Shifts(p, n, g, d))
  BY <1>7 DEF Shifts
<1> DEFINE t == Shifts(p, n, g, d)
<1>9. t[0] = p /\ \A i \in 1..n : t[i] = TimesX(t[i-1], g, d)
  BY <1>8
<1>10. \A i \in 1..n : t[i-1] \in S[i-1] => t[i] \in S[i]
  BY <1>9, <1>1 DEF S
<1> HIDE DEF t, Def
<1>11. t[0] \in S[0]
  BY <1>9, <1>4
<1>12. \A i \in 0..n : t[i] \in S[i]
  BY <1>10, <1>11, Typed
<1>13. \A i \in 0..n : t[i] \in V
  BY <1>12 DEF S
<1>14. Shifted(p, n, g, d) = t[n]
  BY DEF Shifted, t, Shifts
<1> QED
  BY <1>9, <1>13, <1>14 DEF V, t

LEMMA ShiftedStep ==
  ASSUME NEW d, NEW g, Reducing(g, d), NEW p \in Below(d),
         NEW n \in Nat
  PROVE  /\ Shifted(p, n, g, d) \in Below(d)
         /\ Shifted(p, 0, g, d) = p
         /\ Shifted(p, n + 1, g, d) = TimesX(Shifted(p, n, g, d), g, d)
<1> DEFINE s == Shifts(p, n, g, d)
           t == Shifts(p, n + 1, g, d)
           Good == {i \in 0..n : s[i] = t[i]}
<1>1. /\ s[0] = p /\ \A i \in 1..n : s[i] = TimesX(s[i-1], g, d)
      /\ \A i \in 0..n : s[i] \in Below(d)
      /\ Shifted(p, n, g, d) = s[n]
  BY ShiftsDefined
<1>2. /\ t[0] = p /\ \A i \in 1 .. n+1 : t[i] = TimesX(t[i-1], g, d)
      /\ Shifted(p, n + 1, g, d) = t[n+1]
  BY n + 1 \in Nat, ShiftsDefined
<1>3. Shifted(p, 0, g, d) = p
  BY 0 \in Nat, 0 \in 0..0, ShiftsDefined
<1> HIDE DEF s, t
<1>4. 0 \in Good
  BY <1>1, <1>2
<1>5. \A k \in 0 .. n-1 : k \in Good => k + 1 \in Good
  <2> SUFFICES ASSUME NEW k \in 0 .. n-1, k \in Good PROVE k + 1 \in Good
    OBVIOUS
  <2>1. k + 1 \in 1..n /\ k + 1 \in 1 .. n+1 /\ (k + 1) - 1 = k
    OBVIOUS
  <2>2. s[k+1] = TimesX(s[k], g, d) /\ t[k+1] = TimesX(t[k], g, d)
    BY <1>1, <1>2, <2>1
  <2> QED
    BY <2>2
<1> HIDE DEF Good
<1>6. n \in 0..n /\ n \in Good
  BY <1>4, <1>5, Induction
<1>7. s[n] = t[n]
  BY <1>6 DEF Good
<1>8. t[n+1] = TimesX(t[n], g, d)
  BY <1>2, n + 1 \in 1 .. n+1, (n + 1) - 1 = n
<1> QED
  BY <1>1, <1>2, <1>3, <1>7, <1>8

LEMMA DivMod ==
  ASSUME NEW m \in Nat, m > 0, NEW q \in Nat, NEW r \in 0 .. m-1
  PROVE  (m * q + r) \div m = q /\ (m * q + r) % m = r
<1> DEFINE i == m * q + r
           q1 == i \div m
           r1 == i % m
<1>1. i \in Nat
  OBVIOUS
<1> HIDE DEF i
<1>2. q1 \in Int /\ r1 \in 0 .. m-1 /\ i = m * q1 + r1
  BY <1>1
<1> HIDE DEF q1, r1
<1>3. m * q + r = m * q1 + r1
  BY <1>2 DEF i
<1>4. m * (q - q1) = r1 - r
  BY <1>2, <1>3
<1>5. ~ (q - q1 >= 1)
  <2> SUFFICES ASSUME q - q1 >= 1 PROVE FALSE
    OBVIOUS
  <2>1. m * (q - q1) >= m
    BY <1>2
  <2> QED
    BY <1>2, <1>4, <2>1
<1>6. ~ (q1 - q >= 1)
  <2> SUFFICES ASSUME q1 - q >= 1 PROVE FALSE
    OBVIOUS
  <2>1. m * (q1 - q) >= m
    BY <1>2
  <2>2. m * (q1 - q) = r - r1
    BY <1>2, <1>3
  <2> QED
    BY <1>2, <2>1, <2>2
<1>7. q = q1 /\ r = r1
  BY <1>2, <1>3, <1>5, <1>6
<1> QED
  BY <1>7 DEF i, q1, r1

LEMMA NextDivMod ==
  ASSUME NEW m \in Nat, m > 0, NEW i \in Nat, i > 0
  PROVE  /\ i \div m \in Nat /\ i % m \in 0 .. m-1
         /\ (i - 1) \div m \in Nat /\ (i - 1) % m \in 0 .. m-1
         /\ \/ i % m = ((i - 1) % m) + 1 /\ i \div m = (i - 1) \div m
            \/ i % m = 0 /\ (i - 1) % m = m - 1 /\ i \div m = ((i - 1) \div m) + 1
<1> DEFINE j == i - 1
           q == j \div m
           r == j % m
<1>1. j \in Nat /\ i = j + 1
  OBVIOUS
<1> HIDE DEF j
<1>2. q \in Nat /\ r \in 0 .. m-1 /\ j = m * q + r
  BY <1>1
<1> HIDE DEF q, r
<1>3. CASE r + 1 < m
  <2>1. i = m * q + (r + 1) /\ r + 1 \in 0 .. m-1
    BY <1>1, <1>2, <1>3
  <2>2. i \div m = q /\ i % m = r + 1
    BY <1>2, <2>1, DivMod
  <2> QED
    BY <1>2, <2>1, <2>2 DEF q, r, j
<1>4. CASE r + 1 = m
  <2>1. i = m * (q + 1) + 0 /\ 0 \in 0 .. m-1 /\ q + 1 \in Nat
    BY <1>1, <1>2, <1>4
  <2>2. i \div m = q + 1 /\ i % m = 0
    BY <2>1, DivMod
  <2>3. r = m - 1
    BY <1>4, <1>2
  <2> QED
    BY <1>2, <2>1, <2>2, <2>3 DEF q, r, j
<1> QED
  BY <1>2, <1>3, <1>4

LEMMA DivGrows ==
  ASSUME NEW m \in Nat, m > 0, NEW n \in Nat, NEW i \in 0..n
  PROVE  i \div m \in 0 .. n \div m /\ i % m \in Nat
<1> DEFINE q == i \div m
           r == i % m
           u == n \div m
           v == n % m
<1>1. q \in Int /\ r \in 0 .. m-1 /\ i = m * q + r
  OBVIOUS
<1>2. u \in Int /\ v \in 0 .. m-1 /\ n = m * u + v
  OBVIOUS
<1> HIDE DEF q, r, u, v
<1>3. ~ (q >= u + 1)
  <2> SUFFICES ASSUME q >= u + 1 PROVE FALSE
    OBVIOUS
  <2>1. m * (q - (u + 1)) >= 0
    BY <1>1, <1>2
  <2>2. m * (q - (u + 1)) = m * q - m * u - m
    BY <1>1, <1>2
  <2> QED
    BY <1>1, <1>2, <2>1, <2>2
<1>4. q >= 0
  <2> SUFFICES ASSUME q <= -1 PROVE FALSE
    BY <1>1
  <2>1. m * (-1 - q) >= 0
    BY <1>1
  <2>2. m * (-1 - q) = -m - m * q
    BY <1>1
  <2> QED
    BY <1>1, <2>1, <2>2
<1> QED
  BY <1>1, <1>2, <1>3, <1>4 DEF q, r, u, v

LEMMA PrimReducing ==
  Reducing(PrimPoly, M) /\ Elements = Below(M)
BY Sizes DEF Reducing, Elements, Below

\* X p(X) in the field.
X(p) == TimesX(p, PrimPoly, M)

LEMMA XElement ==
  ASSUME NEW p \in Elements
  PROVE  X(p) \in Elements
BY PrimReducing, TimesXBelow DEF X

LEMMA OneElement == One \in Elements /\ Zero \in Elements /\ One # Zero
BY Sizes DEF One, Zero, Elements

\* Each power is the one before times X.
LEMMA PowerStep ==
  /\ \A i \in 0..N : a_pow_tab[i] \in Elements
  /\ a_pow_tab[0] = One /\ a_pow_tab[N] = One
  /\ \A i \in 1 .. N-1 : a_pow_tab[i] = X(a_pow_tab[i-1])
<1> DEFINE n == N \div M
           leap == [p \in Elements |-> Shifted(p, M, PrimPoly, M)]
           row == CHOOSE g : g = [q \in 0..n |-> IF q = 0 THEN One ELSE leap[g[q-1]]]
           S == [q \in 0..n |-> Elements]
           step == [q \in 1..n |-> leap]
           Sh(p, k) == Shifted(p, k, PrimPoly, M)
<1>1. n \in Nat /\ M \in Nat /\ M > 0 /\ N \in Nat /\ N > 0
  <2>1. M \in Nat /\ M > 0 /\ N \in Nat /\ N > 0
    BY Sizes
  <2> QED
    BY <2>1, NextDivMod
<1>2. \A p \in Elements, k \in Nat :
        Sh(p, k) \in Elements /\ Sh(p, 0) = p /\ Sh(p, k + 1) = X(Sh(p, k))
  BY PrimReducing, ShiftedStep DEF X
<1> HIDE DEF n, Sh
<1>3. leap \in [Elements -> Elements] /\ \A p \in Elements : leap[p] = Sh(p, M)
  BY <1>1, <1>2 DEF Sh
<1> HIDE DEF leap
<1>4. \A q \in 1..n : step[q] \in [S[q-1] -> S[q]]
  BY <1>3, <1>1
<1>5. One \in S[0]
  BY <1>1, OneElement
<1> HIDE DEF step, S
<1>6. PICK g : Recursive(g, n, S, One, step)
  BY <1>1, <1>4, <1>5, Recursion
<1>7. g = [q \in 0..n |-> IF q = 0 THEN One ELSE leap[g[q-1]]]
  <2>1. \A q \in 0..n : q = 0 \/ step[q] = leap
    BY DEF step
  <2> QED
    BY <1>6, <2>1 DEF Recursive
<1>8. row = [q \in 0..n |-> IF q = 0 THEN One ELSE leap[row[q-1]]]
  BY <1>7
<1> HIDE DEF row
<1>9. row[0] = One /\ \A q \in 1..n : row[q] = leap[row[q-1]]
  BY <1>1, <1>8
<1>10. \A q \in 0..n : row[q] \in S[q]
  <2>1. row[0] \in S[0]
    BY <1>5, <1>9
  <2>2. \A q \in 1..n : row[q-1] \in S[q-1] => row[q] \in S[q]
    <3> TAKE q \in 1..n
    <3>1. S[q-1] = Elements /\ S[q] = Elements
      BY <1>1 DEF S
    <3>2. row[q] = leap[row[q-1]]
      BY <1>9
    <3> QED
      BY <1>3, <3>1, <3>2
  <2> QED
    BY <1>1, <2>1, <2>2, Typed
<1>11. \A q \in 0..n : row[q] \in Elements
  BY <1>10 DEF S
<1>12. a_pow_tab = [i \in 0..N |-> IF i = N THEN One ELSE Sh(row[i \div M], i % M)]
  BY DEF a_pow_tab, row, leap, Sh, n
<1>13. \A i \in 0..N : i \div M \in 0..n /\ i % M \in Nat
  BY <1>1, DivGrows DEF n
<1>14. \A i \in 0..N : a_pow_tab[i] \in Elements
  BY <1>2, <1>11, <1>12, <1>13, OneElement
<1>15. a_pow_tab[0] = One /\ a_pow_tab[N] = One
  <2>1. 0 \div M = 0 /\ 0 % M = 0
    BY <1>1
  <2> QED
    BY <1>1, <1>2, <1>9, <1>11, <1>12, <2>1
<1>16. \A i \in 1 .. N-1 : a_pow_tab[i] = X(a_pow_tab[i-1])
  <2> SUFFICES ASSUME NEW i \in 1 .. N-1 PROVE a_pow_tab[i] = X(a_pow_tab[i-1])
    OBVIOUS
  <2> DEFINE q == (i - 1) \div M
             r == (i - 1) % M
  <2>1. i \in 0..N /\ i # N /\ i - 1 \in 0..N /\ i - 1 # N /\ i \in Nat /\ i > 0
    BY <1>1
  <2>2. q \in 0..n /\ i \div M \in 0..n
    BY <1>13, <2>1
  <2>3. /\ r \in 0 .. M-1
        /\ \/ i % M = r + 1 /\ i \div M = q
           \/ i % M = 0 /\ r = M - 1 /\ i \div M = q + 1
    BY <1>1, <2>1, NextDivMod
  <2>4. a_pow_tab[i] = Sh(row[i \div M], i % M) /\ a_pow_tab[i-1] = Sh(row[q], r)
    BY <1>12, <2>1
  <2> HIDE DEF q, r
  <2>5. row[q] \in Elements
    BY <1>11, <2>2
  <2>6. Sh(row[q], r + 1) = X(Sh(row[q], r))
    BY <1>2, <2>3, <2>5
  <2>7. CASE i % M = r + 1 /\ i \div M = q
    BY <2>4, <2>6, <2>7
  <2>8. CASE i % M = 0 /\ r = M - 1 /\ i \div M = q + 1
    <3>1. q + 1 \in 1..n /\ (q + 1) - 1 = q
      BY <1>1, <2>2, <2>8
    <3>2. row[q+1] = leap[row[q]] /\ row[q+1] \in Elements
      BY <1>9, <1>11, <3>1
    <3>3. row[q+1] = Sh(row[q], M) /\ M = r + 1
      BY <1>1, <1>3, <2>5, <2>8, <3>2
    <3>4. Sh(row[q+1], 0) = row[q+1]
      BY <1>1, <1>2, <3>2
    <3> QED
      BY <2>4, <2>6, <2>8, <3>3, <3>4
  <2> QED
    BY <2>3, <2>7, <2>8
<1> QED
  BY <1>14, <1>15, <1>16

LEMMA PlusElement ==
  ASSUME NEW p \in Elements, NEW q \in Elements
  PROVE  Plus(p, q) \in Elements
BY DEF Plus, Elements

\* The bits of X p(X).
LEMMA XBits ==
  ASSUME NEW p \in Elements, NEW j \in 0 .. M-1
  PROVE  j \in X(p) <=> ~ (j - 1 \in p <=> M - 1 \in p /\ j \in PrimPoly)
<1> DEFINE x == {k + 1 : k \in p}
<1>1. p \subseteq 0 .. M-1 /\ M \in Nat /\ j \in Int
  BY Sizes DEF Elements
<1>2. (j \in x <=> j - 1 \in p) /\ (M \in x <=> M - 1 \in p)
  BY <1>1
<1>3. X(p) = IF M \in x THEN Plus(x, PrimPoly) ELSE x
  BY DEF X, TimesX
<1> HIDE DEF x
<1> QED
  BY <1>2, <1>3 DEF Plus

LEMMA XLinear ==
  ASSUME NEW p \in Elements, NEW q \in Elements
  PROVE  X(Plus(p, q)) = Plus(X(p), X(q))
<1> DEFINE s == Plus(p, q)
<1>1. s \in Elements
  BY PlusElement
<1>2. \A k : k \in s <=> ~ (k \in p <=> k \in q)
  BY DEF Plus
<1>3. X(s) \in Elements /\ X(p) \in Elements /\ X(q) \in Elements
  BY <1>1, XElement
<1> HIDE DEF s
<1>4. \A j \in 0 .. M-1 : j \in X(s) <=> ~ (j \in X(p) <=> j \in X(q))
  <2> TAKE j \in 0 .. M-1
  <2>1. j \in X(s) <=> ~ (j - 1 \in s <=> M - 1 \in s /\ j \in PrimPoly)
    BY <1>1, XBits
  <2>2. j \in X(p) <=> ~ (j - 1 \in p <=> M - 1 \in p /\ j \in PrimPoly)
    BY XBits
  <2>3. j \in X(q) <=> ~ (j - 1 \in q <=> M - 1 \in q /\ j \in PrimPoly)
    BY XBits
  <2> QED
    BY <1>2, <2>1, <2>2, <2>3
<1>5. X(s) = Plus(X(p), X(q))
  BY <1>3, <1>4 DEF Plus, Elements
<1> QED
  BY <1>5 DEF s

\* A primitive polynomial has a constant term, so X can be divided out.
LEMMA XInjective ==
  ASSUME NEW p \in Elements, NEW q \in Elements, X(p) = X(q)
  PROVE  p = q
<1>1. M \in Nat /\ M >= 5 /\ 0 \in PrimPoly
  BY Sizes
<1>2. p \subseteq 0 .. M-1 /\ q \subseteq 0 .. M-1
  BY DEF Elements
<1>3. M - 1 \in p <=> M - 1 \in q
  <2>1. 0 \in 0 .. M-1 /\ 0 - 1 \notin p /\ 0 - 1 \notin q
    BY <1>1, <1>2
  <2>2. 0 \in X(p) <=> ~ (0 - 1 \in p <=> M - 1 \in p /\ 0 \in PrimPoly)
    BY <2>1, XBits
  <2>3. 0 \in X(q) <=> ~ (0 - 1 \in q <=> M - 1 \in q /\ 0 \in PrimPoly)
    BY <2>1, XBits
  <2> QED
    BY <1>1, <2>1, <2>2, <2>3
<1>4. \A k \in 0 .. M-1 : k \in p <=> k \in q
  <2> TAKE k \in 0 .. M-1
  <2>1. CASE k = M - 1
    BY <1>3, <2>1
  <2>2. CASE k # M - 1
    <3>1. k + 1 \in 0 .. M-1 /\ (k + 1) - 1 = k
      BY <1>1, <2>2
    <3>2. k + 1 \in X(p) <=> ~ (k \in p <=> M - 1 \in p /\ k + 1 \in PrimPoly)
      BY <3>1, XBits
    <3>3. k + 1 \in X(q) <=> ~ (k \in q <=> M - 1 \in q /\ k + 1 \in PrimPoly)
      BY <3>1, XBits
    <3> QED
      BY <1>3, <3>2, <3>3
  <2> QED
    BY <2>1, <2>2
<1> QED
  BY <1>2, <1>4

LEMMA XOfZero == X(Zero) = Zero
BY Sizes DEF X, TimesX, Zero
\* The exponents of the nonzero elements, and the one after i.
Logs == 0 .. N-1
After(i) == IF i = N - 1 THEN 0 ELSE i + 1

LEMMA PowerNonzero ==
  \A i \in Logs : a_pow_tab[i] \in Elements \ {Zero}
<1> DEFINE Good == {i \in Logs : a_pow_tab[i] # Zero}
<1>1. N \in Nat /\ N > 0
  BY Sizes
<1>2. 0 \in Good
  BY <1>1, PowerStep, OneElement DEF Logs
<1>3. \A k \in 0 .. (N-1)-1 : k \in Good => k + 1 \in Good
  <2> SUFFICES ASSUME NEW k \in 0 .. (N-1)-1, k \in Good PROVE k + 1 \in Good
    OBVIOUS
  <2>1. k + 1 \in 1 .. N-1 /\ (k + 1) - 1 = k /\ k \in 0..N /\ k + 1 \in Logs
    BY <1>1 DEF Logs
  <2>2. a_pow_tab[k+1] = X(a_pow_tab[k]) /\ a_pow_tab[k] \in Elements
    BY PowerStep, <2>1
  <2>3. a_pow_tab[k+1] = Zero => a_pow_tab[k] = Zero
    BY <2>2, XInjective, XOfZero, OneElement
  <2> QED
    BY <2>1, <2>3
<1> HIDE DEF Good
<1>4. Logs \subseteq Good
  BY <1>1, <1>2, <1>3, N - 1 \in Nat, Induction DEF Logs
<1>5. \A i \in Logs : i \in 0..N
  BY <1>1 DEF Logs
<1> QED
  BY <1>4, <1>5, PowerStep DEF Good

\* build_gf_tables has checked that 1 does not come back early.
LEMMA PowerInjective ==
  ASSUME NEW i \in Logs, NEW j \in Logs, i < j
  PROVE  a_pow_tab[i] # a_pow_tab[j]
<1> SUFFICES ASSUME a_pow_tab[i] = a_pow_tab[j] PROVE FALSE
  OBVIOUS
<1> DEFINE Good == {k \in 0..i : a_pow_tab[i-k] = a_pow_tab[j-k]}
<1>1. N \in Nat /\ N > 0 /\ i \in Nat /\ j \in Nat /\ j < N
  BY Sizes DEF Logs
<1>2. 0 \in Good
  BY <1>1
<1>3. \A k \in 0 .. i-1 : k \in Good => k + 1 \in Good
  <2> SUFFICES ASSUME NEW k \in 0 .. i-1, k \in Good PROVE k + 1 \in Good
    OBVIOUS
  <2> DEFINE a == i - k
             b == j - k
  <2>1. /\ a \in 1 .. N-1 /\ b \in 1 .. N-1 /\ a - 1 \in 0..N /\ b - 1 \in 0..N
        /\ a - 1 = i - (k + 1) /\ b - 1 = j - (k + 1) /\ k + 1 \in 0..i
    BY <1>1
  <2>2. a_pow_tab[a] = a_pow_tab[b]
    OBVIOUS
  <2> HIDE DEF a, b
  <2>3. X(a_pow_tab[a-1]) = X(a_pow_tab[b-1])
    BY <2>1, <2>2, PowerStep
  <2>4. a_pow_tab[a-1] = a_pow_tab[b-1]
    BY <2>1, <2>3, PowerStep, XInjective
  <2> QED
    BY <2>1, <2>4
<1> HIDE DEF Good
<1>4. i \in 0..i /\ i \in Good
  BY <1>1, <1>2, <1>3, Induction
<1>5. a_pow_tab[i-i] = a_pow_tab[j-i]
  BY <1>4 DEF Good
<1>6. i - i = 0 /\ j - i \in 1 .. N-1
  BY <1>1
<1>7. a_pow_tab[j-i] = One
  BY <1>5, <1>6, PowerStep
<1> QED
  BY <1>6, <1>7, PrimitiveAssumption

\* Every nonzero element is a power: there are as many of both.
LEMMA PowerSurjective ==
  ASSUME NEW x \in Elements, x # Zero
  PROVE  \E i \in Logs : a_pow_tab[i] = x
<1> DEFINE Units == Elements \ {Zero}
           f == [i \in Logs |-> a_pow_tab[i]]
<1>1. N \in Nat /\ N > 0
  BY Sizes
<1>2. IsFiniteSet(Units) /\ Cardinality(Units) = N
  BY <1>1, ElementsFinite, OneElement, FS_RemoveElement
<1>3. IsFiniteSet(Logs) /\ Cardinality(Logs) = N
  BY <1>1, FS_Interval DEF Logs
<1>4. f \in [Logs -> Units]
  BY PowerNonzero
<1>5. \A i, j \in Logs : f[i] = f[j] => i = j
  <2> SUFFICES ASSUME NEW i \in Logs, NEW j \in Logs, f[i] = f[j], i # j PROVE FALSE
    OBVIOUS
  <2>1. i < j \/ j < i
    BY <1>1 DEF Logs
  <2> QED
    BY <2>1, PowerInjective
<1> HIDE DEF f
<1>6. f \in Injection(Logs, Units)
  BY <1>4, <1>5 DEF Injection, IsInjective
<1> HIDE DEF Units
<1>7. f \in Surjection(Logs, Units)
  BY <1>2, <1>3, <1>6, FS_Injection
<1>8. \E i \in Logs : f[i] = x
  BY <1>7 DEF Surjection, Units
<1> QED
  BY <1>8 DEF f

\* The powers come round: X times the last one is 1.
LEMMA PowerAfter ==
  ASSUME NEW i \in Logs
  PROVE  After(i) \in Logs /\ X(a_pow_tab[i]) = a_pow_tab[After(i)]
<1>1. N \in Nat /\ N > 0 /\ i \in Nat /\ i < N /\ i \in 0..N
  BY Sizes DEF Logs
<1>2. CASE i # N - 1
  <2>1. i + 1 \in 1 .. N-1 /\ (i + 1) - 1 = i
    BY <1>1, <1>2
  <2>2. i + 1 \in Logs
    BY <1>1, <1>2 DEF Logs
  <2> QED
    BY <1>2, <2>1, <2>2, PowerStep DEF After
<1>3. CASE i = N - 1
  <2> DEFINE y == X(a_pow_tab[i])
  <2>1. y \in Elements
    BY <1>1, PowerStep, XElement
  <2>2. y # Zero
    BY <1>1, PowerStep, PowerNonzero, XInjective, XOfZero, OneElement
  <2>3. PICK k \in Logs : a_pow_tab[k] = y
    BY <2>1, <2>2, PowerSurjective
  <2>4. CASE k = 0
    BY <1>1, <1>3, <2>3, <2>4 DEF After, Logs
  <2>5. CASE k # 0
    <3>1. k \in 1 .. N-1 /\ k - 1 \in 0..N /\ k - 1 \in Logs /\ k - 1 < i
      BY <1>1, <1>3, <2>5 DEF Logs
    <3>2. X(a_pow_tab[k-1]) = X(a_pow_tab[i])
      BY <2>3, <3>1, PowerStep
    <3>3. a_pow_tab[k-1] = a_pow_tab[i]
      BY <1>1, <3>1, <3>2, PowerStep, XInjective
    <3> QED
      BY <3>1, <3>3, PowerInjective
  <2> QED
    BY <2>4, <2>5
<1> QED
  BY <1>2, <1>3

LEMMA LogPower ==
  /\ \A x \in Elements : a_log(x) \in Logs
  /\ \A x \in Elements \ {Zero} : a_pow_tab[a_log(x)] = x
  /\ \A i \in Logs : a_log(a_pow_tab[i]) = i
<1>1. N \in Nat /\ N > 0 /\ 0 \in Logs
  BY Sizes DEF Logs
<1>2. \A x \in Elements :
        a_log(x) = IF x = Zero THEN 0 ELSE CHOOSE i \in Logs : a_pow_tab[i] = x
  BY DEF a_log, a_log_tab, Logs
<1>3. \A x \in Elements \ {Zero} : a_log(x) \in Logs /\ a_pow_tab[a_log(x)] = x
  <2> TAKE x \in Elements \ {Zero}
  <2>1. \E i \in Logs : a_pow_tab[i] = x
    BY PowerSurjective
  <2> QED
    BY <1>2, <2>1
<1>4. \A x \in Elements : a_log(x) \in Logs
  BY <1>1, <1>2, <1>3
<1>5. \A i \in Logs : a_log(a_pow_tab[i]) = i
  <2> SUFFICES ASSUME NEW i \in Logs PROVE a_log(a_pow_tab[i]) = i
    OBVIOUS
  <2> DEFINE j == a_log(a_pow_tab[i])
  <2>1. j \in Logs /\ a_pow_tab[j] = a_pow_tab[i]
    BY <1>3, PowerNonzero
  <2> HIDE DEF j
  <2>2. i < j \/ j < i \/ i = j
    BY <1>1, <2>1 DEF Logs
  <2>3. i = j
    BY <2>1, <2>2, PowerInjective
  <2> QED
    BY <2>3 DEF j
<1> QED
  BY <1>3, <1>4, <1>5
LEMMA ModS ==
  ASSUME NEW v \in 0 .. 2*N - 1
  PROVE  mod_s(v) \in Logs
BY Sizes DEF mod_s, Logs

\* The operations of the field stay within it.
LEMMA FieldOps ==
  ASSUME NEW a \in Elements, NEW b \in Elements
  PROVE  /\ gf_mul(a, b) \in Elements /\ gf_sqr(a) \in Elements
         /\ gf_div(a, b) \in Elements /\ gf_inv(a) \in Elements
         /\ a_ilog(a) \in Logs
<1>1. N \in Nat /\ N > 0
  BY Sizes
<1>2. a_log(a) \in 0 .. N-1 /\ a_log(b) \in 0 .. N-1
  BY LogPower DEF Logs
<1>3. /\ a_log(a) + a_log(b) \in 0 .. 2*N - 1
      /\ 2 * a_log(a) \in 0 .. 2*N - 1
      /\ a_log(a) + N - a_log(b) \in 0 .. 2*N - 1
      /\ N - a_log(a) \in 0 .. 2*N - 1
      /\ N - a_log(a) \in 0..N
  BY <1>1, <1>2
<1>4. \A i \in Logs : a_pow_tab[i] \in Elements
  BY PowerNonzero
<1>5. gf_mul(a, b) \in Elements
  BY <1>3, <1>4, ModS, OneElement DEF gf_mul
<1>6. gf_sqr(a) \in Elements
  BY <1>3, <1>4, ModS, OneElement DEF gf_sqr
<1>7. gf_div(a, b) \in Elements
  BY <1>3, <1>4, ModS, OneElement DEF gf_div
<1>8. gf_inv(a) \in Elements
  BY <1>3, PowerStep DEF gf_inv
<1>9. a_ilog(a) \in Logs
  BY <1>3, ModS DEF a_ilog
<1> QED
  BY <1>5, <1>6, <1>7, <1>8, <1>9

LEMMA PowElement ==
  ASSUME NEW i \in Int
  PROVE  i % N \in Logs /\ a_pow(i) \in Elements
<1>1. N \in Nat /\ N > 0
  BY Sizes
<1>2. i % N \in Logs
  BY <1>1 DEF Logs
<1> QED
  BY <1>2, PowerNonzero DEF a_pow

\* Multiplication is the one of a field: it commutes with X, so that what holds
\* of 1 and is kept by X holds of every nonzero element.
LEMMA FieldInduction ==
  ASSUME NEW S, Zero \in S, One \in S, \A p \in Elements : p \in S => X(p) \in S
  PROVE  Elements \subseteq S
<1> DEFINE Good == {i \in Logs : a_pow_tab[i] \in S}
<1>1. N \in Nat /\ N > 0
  BY Sizes
<1>2. 0 \in Good
  BY <1>1, PowerStep DEF Logs
<1>3. \A k \in 0 .. (N-1)-1 : k \in Good => k + 1 \in Good
  <2> SUFFICES ASSUME NEW k \in 0 .. (N-1)-1, k \in Good PROVE k + 1 \in Good
    OBVIOUS
  <2>1. k + 1 \in 1 .. N-1 /\ (k + 1) - 1 = k /\ k \in 0..N /\ k + 1 \in Logs
    BY <1>1 DEF Logs
  <2>2. a_pow_tab[k+1] = X(a_pow_tab[k]) /\ a_pow_tab[k] \in Elements
    BY PowerStep, <2>1
  <2> QED
    BY <2>1, <2>2
<1> HIDE DEF Good
<1>4. Logs \subseteq Good
  BY <1>1, <1>2, <1>3, N - 1 \in Nat, Induction DEF Logs
<1>5. \A x \in Elements \ {Zero} : \E i \in Logs : a_pow_tab[i] = x
  BY PowerSurjective
<1> QED
  BY <1>4, <1>5 DEF Good

LEMMA MulZeroOne ==
  ASSUME NEW y \in Elements
  PROVE  gf_mul(Zero, y) = Zero /\ gf_mul(y, Zero) = Zero /\ gf_mul(One, y) = y
<1>1. CASE y = Zero
  BY <1>1 DEF gf_mul
<1>2. CASE y # Zero
  <2>1. a_log(y) \in 0 .. N-1 /\ a_pow_tab[a_log(y)] = y /\ N \in Nat
    BY <1>2, LogPower, Sizes DEF Logs
  <2>2. a_log(One) = 0
    BY <2>1, LogPower, PowerStep DEF Logs
  <2>3. mod_s(a_log(One) + a_log(y)) = a_log(y)
    BY <2>1, <2>2 DEF mod_s
  <2> QED
    BY <1>2, <2>1, <2>3, OneElement DEF gf_mul
<1> QED
  BY <1>1, <1>2

LEMMA MulCommutes ==
  ASSUME NEW x \in Elements, NEW y \in Elements
  PROVE  gf_mul(x, y) = gf_mul(y, x)
<1>1. a_log(x) \in Int /\ a_log(y) \in Int
  BY LogPower, Sizes DEF Logs
<1>2. a_log(x) + a_log(y) = a_log(y) + a_log(x)
  BY <1>1
<1> QED
  BY <1>2 DEF gf_mul

LEMMA SquareIsMul ==
  ASSUME NEW x \in Elements
  PROVE  gf_sqr(x) = gf_mul(x, x)
<1>1. a_log(x) \in Int
  BY LogPower, Sizes DEF Logs
<1>2. 2 * a_log(x) = a_log(x) + a_log(x)
  BY <1>1
<1> QED
  BY <1>2 DEF gf_mul, gf_sqr

LEMMA MulX ==
  ASSUME NEW x \in Elements, NEW y \in Elements
  PROVE  gf_mul(X(x), y) = X(gf_mul(x, y))
<1>1. N \in Nat /\ N > 1
  BY Sizes
<1>2. CASE x = Zero \/ y = Zero
  <2>1. gf_mul(x, y) = Zero
    BY <1>2 DEF gf_mul
  <2>2. gf_mul(X(x), y) = Zero
    BY <1>2, XOfZero DEF gf_mul
  <2> QED
    BY <2>1, <2>2, XOfZero
<1>3. CASE x # Zero /\ y # Zero
  <2> DEFINE i == a_log(x)
             j == a_log(y)
             k == mod_s(i + j)
  <2>1. i \in Logs /\ j \in Logs /\ a_pow_tab[i] = x /\ a_pow_tab[j] = y
    BY <1>3, LogPower
  <2> HIDE DEF i, j
  <2>2. i \in 0 .. N-1 /\ j \in 0 .. N-1
    BY <2>1 DEF Logs
  <2>3. k \in Logs /\ gf_mul(x, y) = a_pow_tab[k]
    BY <1>1, <1>3, <2>2, ModS DEF gf_mul, i, j
  <2>4. After(i) \in Logs /\ X(x) = a_pow_tab[After(i)]
    BY <2>1, PowerAfter
  <2>5. a_log(X(x)) = After(i) /\ X(x) # Zero
    BY <2>4, LogPower, PowerNonzero
  <2>6. gf_mul(X(x), y) = a_pow_tab[mod_s(After(i) + j)]
    BY <1>3, <2>5 DEF gf_mul, j
  <2>7. mod_s(After(i) + j) = After(k)
    BY <1>1, <2>2 DEF mod_s, After
  <2>8. X(a_pow_tab[k]) = a_pow_tab[After(k)]
    BY <2>3, PowerAfter
  <2> QED
    BY <2>3, <2>6, <2>7, <2>8
<1> QED
  BY <1>2, <1>3

LEMMA MulDistributes ==
  ASSUME NEW x \in Elements, NEW y \in Elements, NEW z \in Elements
  PROVE  gf_mul(x, Plus(y, z)) = Plus(gf_mul(x, y), gf_mul(x, z))
<1> DEFINE Holds(p) == gf_mul(p, Plus(y, z)) = Plus(gf_mul(p, y), gf_mul(p, z))
           Good == {p \in Elements : Holds(p)}
<1>1. N \in Nat /\ N > 0 /\ Plus(y, z) \in Elements
  BY Sizes, PlusElement
<1>2. Holds(Zero)
  <2>1. Plus(Zero, Zero) = Zero
    BY DEF Plus, Zero
  <2> QED
    BY <1>1, <2>1, MulZeroOne
<1>3. Holds(One)
  BY <1>1, MulZeroOne
<1>4. \A p \in Elements : Holds(p) => Holds(X(p))
  <2> SUFFICES ASSUME NEW p \in Elements, Holds(p) PROVE Holds(X(p))
    OBVIOUS
  <2>1. gf_mul(X(p), Plus(y, z)) = X(gf_mul(p, Plus(y, z)))
    BY <1>1, MulX
  <2>2. gf_mul(X(p), y) = X(gf_mul(p, y)) /\ gf_mul(X(p), z) = X(gf_mul(p, z))
    BY MulX
  <2>3. X(Plus(gf_mul(p, y), gf_mul(p, z))) = Plus(X(gf_mul(p, y)), X(gf_mul(p, z)))
    BY FieldOps, XLinear
  <2> QED
    BY <2>1, <2>2, <2>3
<1> HIDE DEF Holds
<1>5. Elements \subseteq Good
  BY <1>2, <1>3, <1>4, XElement, OneElement, FieldInduction
<1>6. Holds(x)
  BY <1>5
<1> QED
  BY <1>6 DEF Holds

LEMMA MulAssociates ==
  ASSUME NEW x \in Elements, NEW y \in Elements, NEW z \in Elements
  PROVE  gf_mul(x, gf_mul(y, z)) = gf_mul(gf_mul(x, y), z)
<1> DEFINE Holds(p) == gf_mul(p, gf_mul(y, z)) = gf_mul(gf_mul(p, y), z)
           Good == {p \in Elements : Holds(p)}
<1>1. N \in Nat /\ N > 0 /\ gf_mul(y, z) \in Elements
  BY Sizes, FieldOps
<1>2. Holds(Zero)
  BY <1>1, MulZeroOne
<1>3. Holds(One)
  BY <1>1, MulZeroOne
<1>4. \A p \in Elements : Holds(p) => Holds(X(p))
  <2> SUFFICES ASSUME NEW p \in Elements, Holds(p) PROVE Holds(X(p))
    OBVIOUS
  <2>1. gf_mul(X(p), gf_mul(y, z)) = X(gf_mul(p, gf_mul(y, z)))
    BY <1>1, MulX
  <2>2. gf_mul(gf_mul(X(p), y), z) = gf_mul(X(gf_mul(p, y)), z)
    BY MulX
  <2>3. gf_mul(X(gf_mul(p, y)), z) = X(gf_mul(gf_mul(p, y), z))
    BY FieldOps, MulX
  <2> QED
    BY <2>1, <2>2, <2>3
<1> HIDE DEF Holds
<1>5. Elements \subseteq Good
  BY <1>2, <1>3, <1>4, XElement, OneElement, FieldInduction
<1>6. Holds(x)
  BY <1>5
<1> QED
  BY <1>6 DEF Holds

LEMMA DivUndoesMul ==
  ASSUME NEW a \in Elements, NEW b \in Elements, b # Zero
  PROVE  gf_mul(b, gf_div(a, b)) = a
<1>1. CASE a = Zero
  BY <1>1, MulZeroOne DEF gf_div
<1>2. CASE a # Zero
  <2> DEFINE i == a_log(a)
             j == a_log(b)
             k == mod_s(i + N - j)
  <2>1. i \in Logs /\ j \in Logs /\ a_pow_tab[i] = a /\ N \in Nat /\ N > 0
    BY <1>2, LogPower, Sizes
  <2>2. gf_div(a, b) = a_pow_tab[k]
    BY <1>2 DEF gf_div
  <2> HIDE DEF i, j
  <2>3. i \in 0 .. N-1 /\ j \in 0 .. N-1 /\ i + N - j \in 0 .. 2*N - 1
    BY <2>1 DEF Logs
  <2>4. k \in Logs
    BY <2>3, ModS
  <2>5. a_log(gf_div(a, b)) = k /\ gf_div(a, b) # Zero
    BY <2>2, <2>4, LogPower, PowerNonzero
  <2>6. gf_mul(b, gf_div(a, b)) = a_pow_tab[mod_s(j + k)]
    BY <2>5 DEF gf_mul, j
  <2>7. mod_s(j + k) = i
    BY <2>1, <2>3 DEF mod_s
  <2> QED
    BY <2>1, <2>6, <2>7
<1> QED
  BY <1>1, <1>2

-----------------------------------------------------------------------------
\* Sums over a set

\* Induction over the subsets of a finite set.
LEMMA SetInduction ==
  ASSUME NEW C, IsFiniteSet(C), NEW P, {} \in P,
         \A D \in SUBSET C : \A x \in C \ D : D \in P => D \cup {x} \in P
  PROVE  C \in P
<1> DEFINE n == Cardinality(C)
           Good == {k \in 0..n : \A D \in SUBSET C : Cardinality(D) = k => D \in P}
<1>1. n \in Nat /\ \A D \in SUBSET C : IsFiniteSet(D) /\ Cardinality(D) \in Nat
  BY FS_CardinalityType, FS_Subset
<1>2. 0 \in Good
  <2>1. \A D \in SUBSET C : Cardinality(D) = 0 => D = {}
    BY <1>1, FS_EmptySet
  <2>2. 0 \in 0..n
    BY <1>1
  <2>3. \A D \in SUBSET C : Cardinality(D) = 0 => D \in P
    BY <2>1
  <2> QED
    BY <2>2, <2>3
<1>3. \A k \in 0 .. n-1 : k \in Good => k + 1 \in Good
  <2> SUFFICES ASSUME NEW k \in 0 .. n-1, k \in Good,
                      NEW D \in SUBSET C, Cardinality(D) = k + 1
               PROVE  D \in P
    BY <1>1
  <2>1. D # {}
    BY FS_EmptySet, <1>1
  <2>2. PICK x : x \in D
    BY <2>1
  <2>3. Cardinality(D \ {x}) = k
    <3>1. IsFiniteSet(D)
      BY <1>1
    <3>2. Cardinality(D \ {x}) = Cardinality(D) - 1
      BY <2>2, <3>1, FS_RemoveElement
    <3> QED
      BY <3>2
  <2>4. D \ {x} \in P /\ x \in C \ (D \ {x}) /\ D \ {x} \in SUBSET C
    BY <2>2, <2>3
  <2>5. (D \ {x}) \cup {x} = D
    BY <2>2
  <2>6. (D \ {x}) \cup {x} \in P
    BY <2>4
  <2> QED
    BY <2>5, <2>6
<1> HIDE DEF Good
<1>4. n \in 0..n /\ n \in Good
  BY <1>1, <1>2, <1>3, Induction
<1> QED
  BY <1>4 DEF Good

OddSized(A) == Cardinality(A) % 2 = 1

LEMMA PlusBits == \A a, b, i : i \in Plus(a, b) <=> ~ (i \in a <=> i \in b)
BY DEF Plus

LEMMA OddPlus ==
  ASSUME NEW A, IsFiniteSet(A), NEW B, IsFiniteSet(B)
  PROVE  /\ IsFiniteSet(Plus(A, B))
         /\ OddSized(Plus(A, B)) <=> ~ (OddSized(A) <=> OddSized(B))
<1> DEFINE a == Cardinality(A \ B)
           b == Cardinality(B \ A)
           c == Cardinality(A \cap B)
<1>1. /\ IsFiniteSet(A \ B) /\ IsFiniteSet(B \ A) /\ IsFiniteSet(A \cap B)
      /\ a = Cardinality(A) - c
  BY FS_Difference, FS_Intersection
<1>2. b = Cardinality(B) - Cardinality(B \cap A) /\ B \cap A = A \cap B
  BY FS_Difference
<1>3. a \in Nat /\ b \in Nat /\ c \in Nat
  BY <1>1, FS_CardinalityType
<1>4. (A \ B) \cap (B \ A) = {}
  OBVIOUS
<1>5. /\ IsFiniteSet(Plus(A, B))
      /\ Cardinality(Plus(A, B)) = a + b - Cardinality({})
  BY <1>1, <1>4, FS_Union DEF Plus
<1>6. Cardinality({}) = 0
  BY FS_EmptySet
<1>7. Cardinality(A) \in Nat /\ Cardinality(B) \in Nat /\ Cardinality(B \cap A) = c
  BY FS_CardinalityType, <1>2
<1> HIDE DEF a, b, c
<1>8. /\ Cardinality(A) = a + c /\ Cardinality(B) = b + c
      /\ Cardinality(Plus(A, B)) = a + b
  BY <1>1, <1>2, <1>3, <1>5, <1>6, <1>7
<1>9. ((a + b) % 2 = 1) <=> ~ (((a + c) % 2 = 1) <=> ((b + c) % 2 = 1))
  BY <1>3
<1> QED
  BY <1>5, <1>8, <1>9 DEF OddSized

\* The sum of h[x] for x in S.
SumOf(S, h) == Total([x \in S |-> h[x]])

LEMMA SumBits ==
  ASSUME NEW S, IsFiniteSet(S), NEW h, NEW i
  PROVE  i \in SumOf(S, h) <=> OddSized({x \in S : i \in h[x]})
<1> DEFINE f == [x \in S |-> h[x]]
           A == {x \in S : i \in h[x]}
<1>1. {x \in DOMAIN f : i \in f[x]} = A
  OBVIOUS
<1>2. A # {} => i \in UNION {f[x] : x \in DOMAIN f}
  OBVIOUS
<1>3. A = {} => ~ OddSized(A)
  <2>1. Cardinality({}) = 0 /\ 0 % 2 = 0
    BY FS_EmptySet
  <2> HIDE DEF A
  <2> QED
    BY <2>1 DEF OddSized
<1>4. i \in Total(f) <=> i \in UNION {f[x] : x \in DOMAIN f} /\ OddSized({x \in DOMAIN f : i \in f[x]})
  BY DEF Total, OddSized
<1>5. SumOf(S, h) = Total(f)
  BY DEF SumOf
<1> DEFINE U == UNION {f[x] : x \in DOMAIN f}
           B == {x \in DOMAIN f : i \in f[x]}
<1>6. B = A /\ (A # {} => i \in U) /\ (i \in Total(f) <=> i \in U /\ OddSized(B))
  BY <1>1, <1>2, <1>4
<1> HIDE DEF A, f, U, B
<1>7. i \in SumOf(S, h) <=> OddSized(A)
  BY <1>3, <1>5, <1>6
<1> QED
  BY <1>7 DEF A

LEMMA SumSame ==
  ASSUME NEW S, NEW g, NEW h, \A x \in S : g[x] = h[x]
  PROVE  SumOf(S, g) = SumOf(S, h)
<1>1. [x \in S |-> g[x]] = [x \in S |-> h[x]]
  OBVIOUS
<1> QED
  BY <1>1 DEF SumOf

LEMMA SumOver ==
  ASSUME NEW A, IsFiniteSet(A), NEW B, IsFiniteSet(B), NEW h
  PROVE  SumOf(Plus(A, B), h) = Plus(SumOf(A, h), SumOf(B, h))
<1> SUFFICES ASSUME NEW i
             PROVE  i \in SumOf(Plus(A, B), h) <=> ~ (i \in SumOf(A, h) <=> i \in SumOf(B, h))
  BY PlusBits
<1> DEFINE On(S) == {x \in S : i \in h[x]}
<1>1. IsFiniteSet(On(A)) /\ IsFiniteSet(On(B)) /\ IsFiniteSet(Plus(A, B))
  BY FS_Subset, OddPlus
<1>2. On(Plus(A, B)) = Plus(On(A), On(B))
  BY DEF Plus
<1>3. /\ i \in SumOf(A, h) <=> OddSized(On(A))
      /\ i \in SumOf(B, h) <=> OddSized(On(B))
      /\ i \in SumOf(Plus(A, B), h) <=> OddSized(On(Plus(A, B)))
  BY <1>1, SumBits
<1> HIDE DEF On
<1> QED
  BY <1>1, <1>2, <1>3, OddPlus

LEMMA SumPlus ==
  ASSUME NEW S, IsFiniteSet(S), NEW f, NEW g
  PROVE  SumOf(S, [x \in S |-> Plus(f[x], g[x])]) = Plus(SumOf(S, f), SumOf(S, g))
<1> DEFINE h == [x \in S |-> Plus(f[x], g[x])]
<1> SUFFICES ASSUME NEW i
             PROVE  i \in SumOf(S, h) <=> ~ (i \in SumOf(S, f) <=> i \in SumOf(S, g))
  BY PlusBits
<1> DEFINE On(u) == {x \in S : i \in u[x]}
<1>1. IsFiniteSet(On(f)) /\ IsFiniteSet(On(g))
  BY FS_Subset
<1>2. On(h) = Plus(On(f), On(g))
  BY DEF Plus
<1>3. /\ i \in SumOf(S, f) <=> OddSized(On(f))
      /\ i \in SumOf(S, g) <=> OddSized(On(g))
  BY SumBits
<1> HIDE DEF h
<1>4. i \in SumOf(S, h) <=> OddSized(On(h))
  BY SumBits
<1> HIDE DEF On
<1> QED
  BY <1>1, <1>2, <1>3, <1>4, OddPlus

LEMMA SumEmpty == \A h : SumOf({}, h) = {}
BY DEF SumOf, Total

\* What the sum takes from outside S' is nothing.
LEMMA SumWithin ==
  ASSUME NEW C, IsFiniteSet(C), NEW S \in SUBSET C, NEW h, \A x \in C \ S : h[x] = {}
  PROVE  SumOf(C, h) = SumOf(S, h)
<1> SUFFICES ASSUME NEW i PROVE i \in SumOf(C, h) <=> i \in SumOf(S, h)
  OBVIOUS
<1> DEFINE A == {x \in C : i \in h[x]}
           B == {x \in S : i \in h[x]}
<1>1. IsFiniteSet(S)
  BY FS_Subset
<1>2. A = B
  OBVIOUS
<1>3. (i \in SumOf(C, h) <=> OddSized(A)) /\ (i \in SumOf(S, h) <=> OddSized(B))
  BY <1>1, SumBits
<1> HIDE DEF A, B
<1> QED
  BY <1>2, <1>3

LEMMA SumOne ==
  ASSUME NEW x, NEW h
  PROVE  SumOf({x}, h) = h[x]
<1> SUFFICES ASSUME NEW i PROVE i \in SumOf({x}, h) <=> i \in h[x]
  OBVIOUS
<1>1. IsFiniteSet({x}) /\ Cardinality({x}) = 1 /\ Cardinality({}) = 0
  BY FS_Singleton, FS_EmptySet
<1>2. i \in SumOf({x}, h) <=> OddSized({y \in {x} : i \in h[y]})
  BY <1>1, SumBits
<1>3. CASE i \in h[x]
  <2>1. {y \in {x} : i \in h[y]} = {x}
    BY <1>3
  <2>2. OddSized({x})
    BY <1>1 DEF OddSized
  <2> QED
    BY <1>2, <1>3, <2>1, <2>2
<1>4. CASE i \notin h[x]
  <2>1. {y \in {x} : i \in h[y]} = {}
    BY <1>4
  <2>2. ~ OddSized({})
    BY <1>1 DEF OddSized
  <2> QED
    BY <1>2, <1>4, <2>1, <2>2
<1> QED
  BY <1>3, <1>4

LEMMA SumAdd ==
  ASSUME NEW S, IsFiniteSet(S), NEW x, x \notin S, NEW h
  PROVE  SumOf(S \cup {x}, h) = Plus(SumOf(S, h), h[x])
<1>1. IsFiniteSet({x})
  BY FS_Singleton
<1>2. S \cup {x} = Plus(S, {x})
  BY DEF Plus
<1>3. SumOf(Plus(S, {x}), h) = Plus(SumOf(S, h), SumOf({x}, h))
  BY <1>1, SumOver
<1> QED
  BY <1>2, <1>3, SumOne

LEMMA SumBelow ==
  ASSUME NEW S, NEW d, NEW h, \A x \in S : h[x] \in Below(d)
  PROVE  SumOf(S, h) \in Below(d)
BY DEF SumOf, Total, Below

Linear(L, d) == \A a \in Below(d) : \A b \in Below(d) : L[Plus(a, b)] = Plus(L[a], L[b])

LEMMA BelowPlus ==
  ASSUME NEW d, NEW a \in Below(d), NEW b \in Below(d)
  PROVE  Plus(a, b) \in Below(d)
BY DEF Below, Plus

LEMMA SumLinear ==
  ASSUME NEW S, IsFiniteSet(S), NEW d, NEW h, \A x \in S : h[x] \in Below(d),
         NEW L, Linear(L, d)
  PROVE  L[SumOf(S, h)] = SumOf(S, [x \in S |-> L[h[x]]])
<1> DEFINE g == [x \in S |-> L[h[x]]]
           P == {D \in SUBSET S : L[SumOf(D, h)] = SumOf(D, g)}
<1>1. {} \in P
  <2>1. SumOf({}, h) = {} /\ SumOf({}, g) = {}
    BY SumEmpty
  <2>2. {} \in Below(d) /\ Plus({}, {}) = {} /\ Plus(L[{}], L[{}]) = {}
    BY DEF Below, Plus
  <2>3. L[{}] = {}
    BY <2>2 DEF Linear
  <2> QED
    BY <2>1, <2>3
<1>2. \A D \in SUBSET S : \A x \in S \ D : D \in P => D \cup {x} \in P
  <2> SUFFICES ASSUME NEW D \in SUBSET S, NEW x \in S \ D, D \in P
               PROVE  L[SumOf(D \cup {x}, h)] = SumOf(D \cup {x}, g)
    OBVIOUS
  <2>1. IsFiniteSet(D)
    BY FS_Subset
  <2>2. SumOf(D \cup {x}, h) = Plus(SumOf(D, h), h[x]) /\ SumOf(D \cup {x}, g) = Plus(SumOf(D, g), g[x])
    BY <2>1, SumAdd
  <2>3. SumOf(D, h) \in Below(d) /\ h[x] \in Below(d)
    BY SumBelow
  <2>4. L[Plus(SumOf(D, h), h[x])] = Plus(L[SumOf(D, h)], L[h[x]])
    BY <2>3 DEF Linear
  <2> QED
    BY <2>2, <2>4
<1> HIDE DEF P
<1>3. S \in P
  BY <1>1, <1>2, SetInduction
<1> QED
  BY <1>3 DEF P

\* The terms of a sum may be named otherwise.
LEMMA SumMapped ==
  ASSUME NEW S, IsFiniteSet(S), NEW m, \A x \in S : \A y \in S : m[x] = m[y] => x = y, NEW h,
         NEW g, \A x \in S : g[x] = h[m[x]], NEW w, w = {m[x] : x \in S}
  PROVE  IsFiniteSet(w) /\ Cardinality(w) = Cardinality(S) /\ SumOf(w, h) = SumOf(S, g)
<1> DEFINE Image(A) == {m[x] : x \in A}
<1>1. \A A \in SUBSET S : IsFiniteSet(A) /\ IsFiniteSet(Image(A)) /\ Cardinality(Image(A)) = Cardinality(A)
  <2> SUFFICES ASSUME NEW A \in SUBSET S
               PROVE  IsFiniteSet(A) /\ IsFiniteSet(Image(A)) /\ Cardinality(Image(A)) = Cardinality(A)
    OBVIOUS
  <2>1. IsFiniteSet(A)
    BY FS_Subset
  <2> DEFINE f == [x \in A |-> m[x]]
             I == Image(A)
  <2>2. f \in [A -> I] /\ (\A x, y \in A : f[x] = f[y] => x = y) /\ \A y \in I : \E x \in A : f[x] = y
    OBVIOUS
  <2> HIDE DEF f, I
  <2>3. f \in Bijection(A, I)
    BY <2>2 DEF Bijection, Injection, Surjection, IsInjective
  <2>4. ExistsBijection(A, I)
    BY <2>3 DEF ExistsBijection
  <2> QED
    BY <2>1, <2>4, FS_Bijection DEF I
<1>2. ASSUME NEW i PROVE i \in SumOf(Image(S), h) <=> i \in SumOf(S, g)
  <2> DEFINE A == {x \in S : i \in h[m[x]]}
  <2>1. {y \in Image(S) : i \in h[y]} = Image(A)
    OBVIOUS
  <2>2. {x \in S : i \in g[x]} = A
    OBVIOUS
  <2>3. OddSized(Image(A)) <=> OddSized(A)
    BY <1>1 DEF OddSized
  <2>4. i \in SumOf(Image(S), h) <=> OddSized({y \in Image(S) : i \in h[y]})
    <3>1. IsFiniteSet(Image(S))
      BY <1>1
    <3> HIDE DEF Image
    <3> QED
      BY <3>1, SumBits
  <2> HIDE DEF Image, A
  <2>5. i \in SumOf(S, g) <=> OddSized({x \in S : i \in g[x]})
    BY SumBits
  <2> QED
    BY <2>1, <2>2, <2>3, <2>4, <2>5
<1>3. w = Image(S) /\ IsFiniteSet(S)
  OBVIOUS
<1> HIDE DEF Image
<1>4. SumOf(w, h) = SumOf(S, g)
  BY <1>2, <1>3
<1> QED
  BY <1>1, <1>3, <1>4

-----------------------------------------------------------------------------
\* Polynomials over GF(2) at the powers of a

\* v(a^r)
Value(v, r) == SumOf(v, [i \in Nat |-> a_pow(r * i)])

LEMMA PowAdd ==
  ASSUME NEW i \in Nat, NEW j \in Nat
  PROVE  gf_mul(a_pow(i), a_pow(j)) = a_pow(i + j)
<1> DEFINE q1 == i \div N
           r1 == i % N
           q2 == j \div N
           r2 == j % N
           k == mod_s(r1 + r2)
<1>1. N \in Nat /\ N > 0
  BY Sizes
<1>2. /\ q1 \in 0..i /\ r1 \in 0 .. N-1 /\ i = N * q1 + r1
      /\ q2 \in 0..j /\ r2 \in 0 .. N-1 /\ j = N * q2 + r2
  <2>1. \A x \in Nat : x \div N \in Nat /\ x % N \in 0 .. N-1 /\ x = N * (x \div N) + (x % N)
    <3> TAKE x \in Nat
    <3>1. x % N \in 0 .. N-1 /\ x = N * (x \div N) + (x % N) /\ x \div N \in Int
      BY <1>1
    <3>2. x \div N \in 0 .. x \div N
      BY <1>1, x \in 0..x, DivGrows
    <3> QED
      BY <3>1, <3>2
  <2>2. \A x, y \in Nat : x <= N * x
    BY <1>1
  <2>3. q1 \in Nat /\ q2 \in Nat /\ r1 \in 0 .. N-1 /\ r2 \in 0 .. N-1 /\ i = N * q1 + r1 /\ j = N * q2 + r2
    BY <2>1
  <2> HIDE DEF q1, r1, q2, r2
  <2>4. q1 <= N * q1 /\ q2 <= N * q2
    BY <2>2, <2>3
  <2> QED
    BY <1>1, <2>3, <2>4
<1> HIDE DEF q1, r1, q2, r2
<1>3. k \in 0 .. N-1 /\ \E q \in Nat : i + j = N * q + k
  <2>1. r1 \in Nat /\ r2 \in Nat /\ r1 < N /\ r2 < N /\ q1 \in Nat /\ q2 \in Nat
    BY <1>1, <1>2
  <2>2. i + j = N * (q1 + q2) + (r1 + r2)
    BY <1>1, <1>2, <2>1
  <2>3. CASE r1 + r2 < N
    <3>1. k = r1 + r2
      BY <2>3 DEF mod_s
    <3> HIDE DEF k
    <3>2. i + j = N * (q1 + q2) + k /\ q1 + q2 \in Nat
      BY <2>1, <2>2, <3>1
    <3> QED
      BY <1>1, <2>1, <2>3, <3>1, <3>2
  <2>4. CASE ~ (r1 + r2 < N)
    <3>1. k = r1 + r2 - N
      BY <1>1, <2>1, <2>4 DEF mod_s
    <3> HIDE DEF k
    <3>2. N * ((q1 + q2) + 1) = N * (q1 + q2) + N
      BY <1>1, <2>1
    <3>3. i + j = N * ((q1 + q2) + 1) + k /\ (q1 + q2) + 1 \in Nat
      BY <1>1, <2>1, <2>2, <3>1, <3>2
    <3>4. k \in 0 .. N-1
      BY <1>1, <2>1, <2>4, <3>1
    <3> QED
      BY <3>3, <3>4
  <2> QED
    BY <2>3, <2>4
<1> HIDE DEF k
<1>4. (i + j) % N = k
  BY <1>1, <1>3, DivMod
<1>5. a_pow(i) = a_pow_tab[r1] /\ a_pow(j) = a_pow_tab[r2] /\ a_pow(i + j) = a_pow_tab[k]
  BY <1>4 DEF a_pow, r1, r2
<1>6. r1 \in Logs /\ r2 \in Logs
  BY <1>2 DEF Logs
<1>7. /\ a_log(a_pow_tab[r1]) = r1 /\ a_log(a_pow_tab[r2]) = r2
      /\ a_pow_tab[r1] # Zero /\ a_pow_tab[r2] # Zero
  BY <1>6, LogPower, PowerNonzero
<1> QED
  BY <1>5, <1>7 DEF gf_mul, k

LEMMA PowUnit ==
  ASSUME NEW i \in Nat
  PROVE  a_pow(i) \in Elements /\ a_pow(i) # Zero
<1>1. i % N \in Logs
  BY PowElement
<1> QED
  BY <1>1, PowerNonzero DEF a_pow

LEMMA PowOfLog ==
  ASSUME NEW i \in Logs
  PROVE  i \in Nat /\ a_pow(i) = a_pow_tab[i]
<1>1. i \in Nat /\ N \in Nat /\ i < N
  BY Sizes DEF Logs
<1>2. i % N = i
  BY <1>1
<1> QED
  BY <1>1, <1>2 DEF a_pow

\* A product is zero only if a factor is.
LEMMA MulNonzero ==
  ASSUME NEW x \in Elements \ {Zero}, NEW y \in Elements \ {Zero}
  PROVE  gf_mul(x, y) \in Elements \ {Zero}
<1>1. a_log(x) \in 0 .. N-1 /\ a_log(y) \in 0 .. N-1 /\ N \in Nat
  BY LogPower, Sizes DEF Logs
<1>2. mod_s(a_log(x) + a_log(y)) \in Logs
  BY <1>1, ModS
<1> QED
  BY <1>2, PowerNonzero DEF gf_mul

LEMMA PlusZero ==
  /\ \A x, y : Plus(x, y) = Zero <=> x = y
  /\ \A x : Plus(x, Zero) = x /\ Plus(Zero, x) = x
  /\ \A x, y : Plus(x, y) = Plus(y, x)
BY DEF Plus, Zero

LEMMA ScaledSum ==
  ASSUME NEW S, IsFiniteSet(S), NEW h, \A x \in S : h[x] \in Elements, NEW c \in Elements
  PROVE  gf_mul(c, SumOf(S, h)) = SumOf(S, [x \in S |-> gf_mul(c, h[x])])
<1> DEFINE L == [y \in Elements |-> gf_mul(c, y)]
           g == [x \in S |-> L[h[x]]]
<1>1. Elements = Below(M)
  BY PrimReducing
<1>2. \A a, b \in Elements : L[Plus(a, b)] = Plus(L[a], L[b])
  BY MulDistributes, PlusElement
<1>3. SumOf(S, h) \in Elements
  BY <1>1, SumBelow
<1>4. \A x \in S : g[x] = gf_mul(c, h[x])
  OBVIOUS
<1>5. L[SumOf(S, h)] = gf_mul(c, SumOf(S, h))
  BY <1>3
<1> HIDE DEF L
<1>6. Linear(L, M)
  BY <1>1, <1>2 DEF Linear
<1>7. L[SumOf(S, h)] = SumOf(S, g)
  BY <1>1, <1>6, SumLinear
<1> HIDE DEF g
<1>8. SumOf(S, g) = SumOf(S, [x \in S |-> gf_mul(c, h[x])])
  BY <1>4, SumSame
<1> QED
  BY <1>5, <1>7, <1>8

\* The bound: no K or fewer bits vanish at a, a^2, .. a^K together.  Weighted by
\* w, which is zero on D alone, the power sums still vanish, one less for each
\* element of D; when D lacks one element, its weight is one term that must.
Weighted(C, K, D, w) ==
  /\ w \in [C -> Elements]
  /\ \A i \in C : w[i] = Zero <=> i \in D
  /\ \A m \in 1 .. K - Cardinality(D) :
       SumOf(C, [i \in C |-> gf_mul(a_pow(m * i), w[i])]) = Zero

LEMMA WeightedFirst ==
  ASSUME NEW C \in SUBSET Logs, NEW K \in Nat, \A m \in 1..K : Value(C, m) = Zero
  PROVE  Weighted(C, K, {}, [i \in C |-> One])
<1> DEFINE w == [i \in C |-> One]
<1>1. w \in [C -> Elements] /\ \A i \in C : w[i] # Zero
  BY OneElement
<1>2. Cardinality({}) = 0
  BY FS_EmptySet
<1>3. ASSUME NEW m \in 1..K
      PROVE  SumOf(C, [i \in C |-> gf_mul(a_pow(m * i), w[i])]) = Zero
  <2> DEFINE g == [i \in C |-> gf_mul(a_pow(m * i), w[i])]
             h == [i \in Nat |-> a_pow(m * i)]
  <2>1. \A i \in C : g[i] = h[i]
    <3> TAKE i \in C
    <3>1. i \in Nat /\ m * i \in Nat
      BY PowOfLog
    <3>2. gf_mul(a_pow(m * i), One) = a_pow(m * i)
      BY <3>1, PowUnit, MulZeroOne, MulCommutes, OneElement
    <3> QED
      BY <3>1, <3>2
  <2> HIDE DEF g, h
  <2>2. SumOf(C, g) = SumOf(C, h)
    BY <2>1, SumSame
  <2>3. SumOf(C, h) = Zero
    BY DEF Value, h
  <2> QED
    BY <2>2, <2>3 DEF g
<1> HIDE DEF w
<1>4. Weighted(C, K, {}, w)
  BY <1>1, <1>2, <1>3 DEF Weighted
<1> QED
  BY <1>4 DEF w

LEMMA WeightedNext ==
  ASSUME NEW C \in SUBSET Logs, NEW K \in Nat, NEW D \in SUBSET C, NEW w, Weighted(C, K, D, w),
         NEW k \in C \ D
  PROVE  \E v : Weighted(C, K, D \cup {k}, v)
<1> DEFINE x(i) == a_pow(i)
           v == [i \in C |-> gf_mul(w[i], Plus(x(i), x(k)))]
<1>1. /\ w \in [C -> Elements] /\ \A i \in C : w[i] = Zero <=> i \in D
      /\ \A m \in 1 .. K - Cardinality(D) :
           SumOf(C, [i \in C |-> gf_mul(a_pow(m * i), w[i])]) = Zero
  BY DEF Weighted
<1>2. IsFiniteSet(C) /\ IsFiniteSet(D) /\ Cardinality(D) \in Nat
  <2>1. IsFiniteSet(Logs)
    BY Sizes, FS_Interval DEF Logs
  <2> QED
    BY <2>1, FS_Subset, FS_CardinalityType
<1>3. \A i \in C : i \in Nat /\ x(i) \in Elements \ {Zero}
  BY PowOfLog, PowUnit
<1>4. \A i \in C : Plus(x(i), x(k)) \in Elements /\ (Plus(x(i), x(k)) = Zero <=> i = k)
  <2> TAKE i \in C
  <2>1. x(i) = x(k) => i = k
    <3>1. x(i) = a_pow_tab[i] /\ x(k) = a_pow_tab[k] /\ i \in Nat /\ k \in Nat
      BY PowOfLog
    <3>2. i \in Logs /\ k \in Logs /\ (i < k \/ k < i \/ i = k)
      BY <3>1
    <3> QED
      BY <3>1, <3>2, PowerInjective
  <2> HIDE DEF x
  <2> QED
    BY <1>3, <2>1, PlusZero, PlusElement
<1> HIDE DEF x
<1>5. v \in [C -> Elements]
  BY <1>1, <1>4, FieldOps
<1>6. \A i \in C : v[i] = Zero <=> i \in D \cup {k}
  <2> TAKE i \in C
  <2>1. v[i] = gf_mul(w[i], Plus(x(i), x(k))) /\ w[i] \in Elements
    BY <1>1
  <2>2. CASE i \in D \cup {k}
    <3>1. w[i] = Zero \/ Plus(x(i), x(k)) = Zero
      BY <1>1, <1>4, <2>2
    <3> QED
      BY <1>4, <2>1, <2>2, <3>1, MulZeroOne
  <2>3. CASE i \notin D \cup {k}
    <3>1. w[i] \in Elements \ {Zero} /\ Plus(x(i), x(k)) \in Elements \ {Zero}
      BY <1>1, <1>4, <2>1, <2>3
    <3> QED
      BY <2>1, <2>3, <3>1, MulNonzero
  <2> QED
    BY <2>2, <2>3
<1>7. ASSUME NEW m \in 1 .. K - Cardinality(D \cup {k})
      PROVE  SumOf(C, [i \in C |-> gf_mul(a_pow(m * i), v[i])]) = Zero
  <2> DEFINE f == [i \in C |-> gf_mul(a_pow(m * i), w[i])]
             g == [i \in C |-> gf_mul(a_pow((m + 1) * i), w[i])]
             h == [i \in C |-> gf_mul(x(k), f[i])]
             u == [i \in C |-> Plus(g[i], h[i])]
  <2>1. Cardinality(D \cup {k}) = Cardinality(D) + 1
    BY <1>2, FS_AddElement
  <2>2. m \in Nat /\ m \in 1 .. K - Cardinality(D) /\ m + 1 \in 1 .. K - Cardinality(D)
    BY <1>2, <2>1
  <2>3. SumOf(C, f) = Zero /\ SumOf(C, g) = Zero
    BY <1>1, <2>2
  <2>4. \A i \in C : f[i] \in Elements
    <3> TAKE i \in C
    <3>1. m * i \in Nat
      BY <1>3, <2>2
    <3> QED
      BY <1>1, <3>1, PowUnit, FieldOps
  <2>5. \A i \in C : gf_mul(a_pow(m * i), v[i]) = u[i]
    <3> TAKE i \in C
    <3> DEFINE y == a_pow(m * i)
               z == a_pow((m + 1) * i)
               a == x(i)
               b == x(k)
               c == w[i]
    <3>1. m * i \in Nat /\ i \in Nat /\ m * i + i = (m + 1) * i
      BY <1>3, <2>2
    <3>2. gf_mul(y, a) = z
      BY <3>1, PowAdd DEF x
    <3>3. y \in Elements /\ a \in Elements /\ b \in Elements /\ c \in Elements
      BY <1>1, <1>3, <3>1, PowUnit
    <3>4. v[i] = gf_mul(c, Plus(a, b)) /\ u[i] = Plus(gf_mul(z, c), gf_mul(b, gf_mul(y, c)))
      OBVIOUS
    <3> HIDE DEF y, z, a, b, c, u, v
    <3>5. gf_mul(y, gf_mul(c, Plus(a, b))) = Plus(gf_mul(y, gf_mul(c, a)), gf_mul(y, gf_mul(c, b)))
      BY <3>3, MulDistributes, FieldOps
    <3>6. gf_mul(y, gf_mul(c, a)) = gf_mul(z, c)
      <4>1. gf_mul(y, gf_mul(c, a)) = gf_mul(y, gf_mul(a, c))
        BY <3>3, MulCommutes
      <4>2. gf_mul(y, gf_mul(a, c)) = gf_mul(gf_mul(y, a), c)
        BY <3>3, MulAssociates
      <4> QED
        BY <3>2, <4>1, <4>2
    <3>7. gf_mul(y, gf_mul(c, b)) = gf_mul(b, gf_mul(y, c))
      <4>1. gf_mul(y, gf_mul(c, b)) = gf_mul(gf_mul(y, c), b)
        BY <3>3, MulAssociates
      <4>2. gf_mul(gf_mul(y, c), b) = gf_mul(b, gf_mul(y, c))
        BY <3>3, FieldOps, MulCommutes
      <4> QED
        BY <4>1, <4>2
    <3> QED
      BY <3>4, <3>5, <3>6, <3>7 DEF y
  <2> DEFINE p == [i \in C |-> gf_mul(a_pow(m * i), v[i])]
  <2>6. \A i \in C : p[i] = u[i]
    BY <2>5
  <2> HIDE DEF v
  <2>7. SumOf(C, p) = SumOf(C, u)
    <3> HIDE DEF p, u
    <3> QED
      BY <2>6, SumSame
  <2> HIDE DEF f, g
  <2>8. SumOf(C, h) = gf_mul(x(k), SumOf(C, f))
    BY <1>2, <1>3, <2>4, ScaledSum
  <2> HIDE DEF h
  <2>9. SumOf(C, u) = Plus(SumOf(C, g), SumOf(C, h))
    BY <1>2, SumPlus
  <2>10. SumOf(C, h) = Zero
    BY <1>3, <2>3, <2>8, MulZeroOne
  <2>11. SumOf(C, u) = Zero
    BY <2>3, <2>9, <2>10, PlusZero
  <2> QED
    BY <2>7, <2>11
<1> HIDE DEF v
<1>8. Weighted(C, K, D \cup {k}, v)
  BY <1>5, <1>6, <1>7 DEF Weighted
<1> QED
  BY <1>8

\* As many equations as there are weights leave none of them.
LEMMA WeightsVanish ==
  ASSUME NEW C \in SUBSET Logs, NEW K \in Nat, Cardinality(C) <= K,
         NEW w \in [C -> Elements],
         \A m \in 1..K : SumOf(C, [i \in C |-> gf_mul(a_pow(m * i), w[i])]) = Zero
  PROVE  \A i \in C : w[i] = Zero
<1> SUFFICES ASSUME NEW c \in C, w[c] # Zero PROVE FALSE
  OBVIOUS
<1> DEFINE n == Cardinality(C) - 1
           F == {i \in C : w[i] = Zero}
           f == Cardinality(F)
           Fits(k) == \E D \in SUBSET C : Cardinality(D) = k /\ \E x : Weighted(C, K, D, x)
           Good == {k \in 0 .. n - f : Fits(f + k)}
<1>1. IsFiniteSet(C) /\ \A D \in SUBSET C : IsFiniteSet(D) /\ Cardinality(D) \in Nat
  <2>1. IsFiniteSet(Logs)
    BY Sizes, FS_Interval DEF Logs
  <2> QED
    BY <2>1, FS_Subset, FS_CardinalityType
<1>2. n \in Nat /\ f \in Nat /\ n - f \in Nat
  <2>1. F \in SUBSET C /\ F # C
    OBVIOUS
  <2> HIDE DEF F
  <2>2. Cardinality(F) < Cardinality(C)
    BY <1>1, <2>1, FS_Subset
  <2>3. Cardinality(C) \in Nat /\ f \in Nat
    BY <1>1, <2>1
  <2> QED
    BY <2>2, <2>3
<1>3. 0 \in Good
  <2>1. F \in SUBSET C /\ \A i \in C : w[i] = Zero <=> i \in F
    OBVIOUS
  <2>2. \A m \in 1 .. K - f : m \in 1..K
    BY <1>2
  <2>3. Weighted(C, K, F, w)
    BY <2>1, <2>2 DEF Weighted
  <2> HIDE DEF F
  <2>4. Fits(f + 0)
    BY <1>2, <2>1, <2>3
  <2> QED
    BY <1>2, <2>4
<1> HIDE DEF f
<1>4. \A k \in 0 .. n-f-1 : k \in Good => k + 1 \in Good
  <2> SUFFICES ASSUME NEW k \in 0 .. n-f-1, Fits(f + k) PROVE Fits(f + (k + 1))
    BY <1>2
  <2>1. PICK D \in SUBSET C : Cardinality(D) = f + k /\ \E x : Weighted(C, K, D, x)
    OBVIOUS
  <2>2. PICK x : Weighted(C, K, D, x)
    BY <2>1
  <2>3. D # C
    BY <1>2, <2>1
  <2>4. PICK j : j \in C \ D
    BY <2>3
  <2>5. \E v : Weighted(C, K, D \cup {j}, v)
    BY <2>2, <2>4, WeightedNext
  <2>6. Cardinality(D \cup {j}) = f + (k + 1)
    <3>1. IsFiniteSet(D)
      BY <1>1
    <3>2. Cardinality(D \cup {j}) = Cardinality(D) + 1
      BY <2>4, <3>1, FS_AddElement
    <3> QED
      BY <1>2, <2>1, <3>2
  <2>7. D \cup {j} \in SUBSET C
    BY <2>4
  <2> QED
    BY <2>5, <2>6, <2>7
<1>5. n - f \in 0 .. n-f /\ Fits(f + (n - f))
  <2> HIDE DEF Fits
  <2> DEFINE G == Good
             e == n - f
  <2>1. e \in Nat /\ 0 \in G /\ \A k \in 0 .. e-1 : k \in G => k + 1 \in G
    BY <1>2, <1>3, <1>4
  <2> HIDE DEF G, e
  <2>2. 0..e \subseteq G /\ e \in 0..e
    BY <2>1, Induction
  <2> QED
    BY <2>2 DEF G, e
<1>6. PICK D \in SUBSET C : Cardinality(D) = n /\ \E x : Weighted(C, K, D, x)
  <2>1. f + (n - f) = n
    BY <1>2
  <2>2. Fits(n)
    BY <1>5, <2>1
  <2> QED
    BY <2>2
<1>7. PICK x : Weighted(C, K, D, x)
  BY <1>6
<1>8. PICK j : C \ D = {j}
  <2>1. IsFiniteSet(C \ D) /\ Cardinality(C \ D) = Cardinality(C) - Cardinality(C \cap D)
    BY <1>1, FS_Difference
  <2>2. C \cap D = D
    OBVIOUS
  <2>3. Cardinality(C) \in Nat
    BY <1>1
  <2>4. Cardinality(C \ D) = 1
    <3>1. Cardinality(D) = Cardinality(C) - 1
      BY <1>6
    <3>2. Cardinality(C \ D) = Cardinality(C) - Cardinality(D)
      BY <2>1, <2>2
    <3> QED
      BY <2>3, <3>1, <3>2
  <2> QED
    BY <2>1, <2>4, FS_Singleton
<1> DEFINE h == [i \in C |-> gf_mul(a_pow(1 * i), x[i])]
<1>9. SumOf(C, h) = Zero
  <2>1. 1 \in 1 .. K - Cardinality(D)
    <3>1. Cardinality(C) \in Nat
      BY <1>1
    <3> QED
      BY <1>6, <3>1
  <2> QED
    BY <1>7, <2>1 DEF Weighted
<1>10. \A i \in C : i \in Nat /\ a_pow(1 * i) \in Elements \ {Zero} /\ x[i] \in Elements
  <2> TAKE i \in C
  <2>1. i \in Nat /\ 1 * i = i
    BY PowOfLog
  <2> QED
    BY <1>7, <2>1, PowUnit DEF Weighted
<1>11. \A i \in C \ {j} : h[i] = {}
  <2> TAKE i \in C \ {j}
  <2>1. x[i] = Zero
    BY <1>7, <1>8 DEF Weighted
  <2>2. gf_mul(a_pow(1 * i), Zero) = Zero
    BY <1>10, MulZeroOne
  <2> QED
    BY <2>1, <2>2 DEF Zero
<1>12. h[j] # Zero
  <2>1. j \in C /\ j \notin D
    BY <1>8
  <2>2. x[j] \in Elements \ {Zero}
    BY <1>7, <1>10, <2>1 DEF Weighted
  <2> QED
    BY <1>10, <2>1, <2>2, MulNonzero
<1> HIDE DEF h
<1>13. SumOf(C, h) = SumOf({j}, h)
  BY <1>1, <1>8, <1>11, SumWithin
<1> QED
  BY <1>9, <1>12, <1>13, SumOne

\* The bound: no K or fewer bits vanish at a, a^2, .. a^K together.
LEMMA BoundOfRoots ==
  ASSUME NEW C \in SUBSET Logs, NEW K \in Nat, \A m \in 1..K : Value(C, m) = Zero,
         Cardinality(C) <= K
  PROVE  C = {}
<1> DEFINE w == [i \in C |-> One]
<1>1. w \in [C -> Elements]
  BY OneElement
<1>2. Weighted(C, K, {}, w)
  BY WeightedFirst
<1>3. \A m \in 1..K : SumOf(C, [i \in C |-> gf_mul(a_pow(m * i), w[i])]) = Zero
  <2>1. \A m \in 1..K : m \in 1 .. K - 0
    OBVIOUS
  <2> HIDE DEF w
  <2> QED
    BY <1>2, <2>1, FS_EmptySet DEF Weighted
<1> HIDE DEF w
<1>4. \A i \in C : w[i] = Zero
  BY <1>1, <1>3, WeightsVanish
<1> QED
  BY <1>4, OneElement DEF w

-----------------------------------------------------------------------------
\* Double sums

RowSums(r, A, B, h) == \A x \in A : r[x] = SumOf(B, h[x])
Transposed(t, h, A, B) == \A x \in A : \A y \in B : t[y][x] = h[x][y]

\* They may be taken in either order.
LEMMA SumExchange ==
  ASSUME NEW A, IsFiniteSet(A), NEW B, IsFiniteSet(B), NEW h, NEW t, Transposed(t, h, A, B),
         NEW rows, RowSums(rows, A, B, h), NEW cols, RowSums(cols, B, A, t)
  PROVE  SumOf(A, rows) = SumOf(B, cols)
<1> USE DEF RowSums, Transposed
<1> DEFINE Cols(D) == [y \in B |-> SumOf(D, t[y])]
           P == {D \in SUBSET A : SumOf(D, rows) = SumOf(B, Cols(D))}
<1>1. {} \in P
  <2>1. \A y \in B : Cols({})[y] = {}
    BY SumEmpty
  <2> HIDE DEF Cols
  <2>2. SumOf(B, Cols({})) = SumOf({}, Cols({}))
    BY <2>1, SumWithin
  <2> QED
    BY <2>2, SumEmpty
<1>2. \A D \in SUBSET A : \A x \in A \ D : D \in P => D \cup {x} \in P
  <2> SUFFICES ASSUME NEW D \in SUBSET A, NEW x \in A \ D, SumOf(D, rows) = SumOf(B, Cols(D))
               PROVE  SumOf(D \cup {x}, rows) = SumOf(B, Cols(D \cup {x}))
    OBVIOUS
  <2> DEFINE r == h[x]
             s == [y \in B |-> Plus(Cols(D)[y], r[y])]
  <2>1. IsFiniteSet(D)
    BY FS_Subset
  <2>2. SumOf(D \cup {x}, rows) = Plus(SumOf(D, rows), rows[x])
    BY <2>1, SumAdd
  <2>3. \A y \in B : Cols(D \cup {x})[y] = s[y]
    <3> TAKE y \in B
    <3> DEFINE f == t[y]
    <3>1. f[x] = h[x][y]
      OBVIOUS
    <3>2. Cols(D)[y] = SumOf(D, f) /\ Cols(D \cup {x})[y] = SumOf(D \cup {x}, f)
      OBVIOUS
    <3>3. s[y] = Plus(Cols(D)[y], h[x][y])
      OBVIOUS
    <3> HIDE DEF f, Cols, s
    <3>4. x \notin D
      OBVIOUS
    <3>5. SumOf(D \cup {x}, f) = Plus(SumOf(D, f), f[x])
      BY <2>1, <3>4, SumAdd
    <3> QED
      BY <3>1, <3>2, <3>3, <3>5
  <2>4. rows[x] = SumOf(B, r)
    OBVIOUS
  <2> DEFINE c == Cols(D)
  <2> HIDE DEF r, c
  <2>5. SumOf(B, s) = Plus(SumOf(B, c), SumOf(B, r))
    <3>1. s = [y \in B |-> Plus(c[y], r[y])]
      BY DEF c
    <3> HIDE DEF s
    <3> QED
      BY <3>1, SumPlus
  <2> USE DEF c
  <2> HIDE DEF s, Cols
  <2>6. SumOf(B, Cols(D \cup {x})) = SumOf(B, s)
    <3> DEFINE q == Cols(D \cup {x})
    <3>1. \A y \in B : q[y] = s[y]
      BY <2>3
    <3> HIDE DEF q
    <3>2. SumOf(B, q) = SumOf(B, s)
      BY <3>1, SumSame
    <3> QED
      BY <3>2 DEF q
  <2> QED
    BY <2>2, <2>4, <2>5, <2>6
<1> HIDE DEF P
<1>3. A \in P
  BY <1>1, <1>2, SetInduction
<1>4. \A y \in B : cols[y] = Cols(A)[y]
  OBVIOUS
<1> HIDE DEF Cols
<1>5. SumOf(B, cols) = SumOf(B, Cols(A))
  BY <1>4, SumSame
<1> QED
  BY <1>3, <1>5 DEF P

\* When h is symmetric, only its diagonal counts.
LEMMA SumSymmetric ==
  ASSUME NEW A, IsFiniteSet(A), NEW h, \A x \in A : \A y \in A : h[x][y] = h[y][x],
         NEW rows, \A x \in A : rows[x] = SumOf(A, h[x]),
         NEW diag, \A x \in A : diag[x] = h[x][x]
  PROVE  SumOf(A, rows) = SumOf(A, diag)
<1> DEFINE Rows(D) == [x \in A |-> SumOf(D, h[x])]
           P == {D \in SUBSET A : SumOf(D, Rows(D)) = SumOf(D, diag)}
<1>1. {} \in P
  BY SumEmpty
<1>2. \A D \in SUBSET A : \A z \in A \ D : D \in P => D \cup {z} \in P
  <2> SUFFICES ASSUME NEW D \in SUBSET A, NEW z \in A \ D, SumOf(D, Rows(D)) = SumOf(D, diag)
               PROVE  SumOf(D \cup {z}, Rows(D \cup {z})) = SumOf(D \cup {z}, diag)
    OBVIOUS
  <2> DEFINE E == D \cup {z}
             r == h[z]
             s == [x \in D |-> Plus(Rows(D)[x], r[x])]
  <2>1. IsFiniteSet(D)
    BY FS_Subset
  <2>2. \A x \in A : Rows(E)[x] = Plus(Rows(D)[x], h[x][z])
    <3> TAKE x \in A
    <3> DEFINE f == h[x]
    <3>1. f[z] = h[x][z] /\ Rows(D)[x] = SumOf(D, f) /\ Rows(E)[x] = SumOf(E, f)
      OBVIOUS
    <3> HIDE DEF f, Rows
    <3>2. z \notin D
      OBVIOUS
    <3>3. SumOf(E, f) = Plus(SumOf(D, f), f[z])
      BY <2>1, <3>2, SumAdd
    <3> QED
      BY <3>1, <3>3
  <2>3. SumOf(E, Rows(E)) = Plus(SumOf(D, Rows(E)), Rows(E)[z])
    <3> DEFINE q == Rows(E)
    <3> HIDE DEF q
    <3>1. z \notin D
      OBVIOUS
    <3>2. SumOf(E, q) = Plus(SumOf(D, q), q[z])
      BY <2>1, <3>1, SumAdd
    <3> QED
      BY <3>2 DEF q
  <2>4. Rows(D)[z] = SumOf(D, r) /\ r[z] = h[z][z]
    OBVIOUS
  <2>5. \A x \in D : Rows(E)[x] = s[x]
    <3> TAKE x \in D
    <3>1. r[x] = h[x][z] /\ s[x] = Plus(Rows(D)[x], r[x])
      OBVIOUS
    <3> QED
      BY <2>2, <3>1
  <2> HIDE DEF r, Rows
  <2>6. SumOf(D, s) = Plus(SumOf(D, Rows(D)), SumOf(D, r))
    BY <2>1, SumPlus
  <2> HIDE DEF s
  <2>7. SumOf(D, Rows(E)) = SumOf(D, s)
    <3> DEFINE q == Rows(E)
    <3>1. \A x \in D : q[x] = s[x]
      BY <2>5
    <3> HIDE DEF q
    <3>2. SumOf(D, q) = SumOf(D, s)
      BY <3>1, SumSame
    <3> QED
      BY <3>2 DEF q
  <2>8. Rows(E)[z] = Plus(SumOf(D, r), diag[z])
    BY <2>2, <2>4
  <2>9. SumOf(E, diag) = Plus(SumOf(D, diag), diag[z])
    BY <2>1, SumAdd
  <2>10. \A a, b, c : Plus(Plus(a, b), Plus(b, c)) = Plus(a, c)
    BY ZenonT(30) DEF Plus
  <2> QED
    BY <2>3, <2>6, <2>7, <2>8, <2>9, <2>10
<1> HIDE DEF P
<1>3. A \in P
  BY <1>1, <1>2, SetInduction
<1>4. \A x \in A : rows[x] = Rows(A)[x]
  OBVIOUS
<1> HIDE DEF Rows
<1>5. SumOf(A, rows) = SumOf(A, Rows(A))
  BY <1>4, SumSame
<1> QED
  BY <1>3, <1>5 DEF P

================================================================================
