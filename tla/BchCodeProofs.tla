----------------------------- MODULE BchCodeProofs -----------------------------
(***************************************************************************)
(* What the steps of bch.c return: polynomials within their buffers,       *)
(* parities below the degree of the generator, and no more roots than the  *)
(* degree of the locator polynomial, which is at most T when it is used.   *)
(* Then what the encoder promises: the codewords of different data differ  *)
(* in at least 2T+1 bits.  Then the algorithm of Berlekamp and Massey: the *)
(* locator polynomial of up to T errors has them, and nothing else, as the *)
(* inverses of its roots.  Last, the formulas for the degrees 1 to 4 list  *)
(* all the roots of a polynomial that has as many as its degree.           *)
(***************************************************************************)
EXTENDS BchFieldProofs, SequenceTheorems

\* The polynomials of degree d.
OfDegree(d) == {p \in Polynomials : Deg(p) = d}

LEMMA PolynomialType ==
  ASSUME NEW p \in Polynomials
  PROVE  /\ Deg(p) \in Nat /\ Len(p) = Deg(p) + 1 /\ p \in Seq(Elements)
         /\ \A i \in 1 .. Len(p) : p[i] \in Elements
BY EmptySeq, LenProperties DEF Polynomials, Deg

LEMMA CoefElement ==
  ASSUME NEW p \in Polynomials, NEW j
  PROVE  Coef(p, j) \in Elements
<1>1. CASE j \in 0 .. Deg(p)
  <2>1. j + 1 \in 1 .. Len(p)
    BY <1>1, PolynomialType
  <2> QED
    BY <1>1, <2>1, PolynomialType DEF Coef
<1>2. CASE j \notin 0 .. Deg(p)
  BY <1>2, OneElement DEF Coef
<1> QED
  BY <1>1, <1>2

LEMMA PolyType ==
  ASSUME NEW d \in Nat, NEW c, \A j \in 0..d : c[j] \in Elements
  PROVE  /\ Poly(d, c) \in Polynomials /\ Deg(Poly(d, c)) = d
         /\ \A j \in 0..d : Coef(Poly(d, c), j) = c[j]
<1> DEFINE s == [i \in 1 .. d+1 |-> c[i-1]]
           p == SubSeq(s, 1, d + 1)
<1>1. \A i \in 1 .. d+1 : s[i] \in Elements /\ s[i] = c[i-1]
  OBVIOUS
<1>2. p = Poly(d, c)
  BY DEF Poly
<1> HIDE DEF s
<1>3. /\ p \in Seq(Elements) /\ Len(p) = d + 1
      /\ \A i \in 1 .. d+1 : p[i] = s[i]
  BY <1>1, SubSeqProperties
<1> HIDE DEF p
<1>4. p \in Polynomials /\ Deg(p) = d
  BY <1>3, EmptySeq DEF Polynomials, Deg
<1>5. \A j \in 0..d : Coef(p, j) = c[j]
  <2> TAKE j \in 0..d
  <2>1. j + 1 \in 1 .. d+1 /\ (j + 1) - 1 = j
    OBVIOUS
  <2>2. p[j+1] = s[j+1] /\ s[j+1] = c[j]
    BY <1>1, <1>3, <2>1
  <2> QED
    BY <1>4, <2>2 DEF Coef
<1> QED
  BY <1>2, <1>4, <1>5

LEMMA ConstantType ==
  ASSUME NEW c \in Elements
  PROVE  Constant(c) \in Polynomials /\ Deg(Constant(c)) = 0 /\ Coef(Constant(c), 0) = c
BY DEF Constant, Polynomials, Deg, Coef

LEMMA TotalElement ==
  ASSUME NEW d, NEW f, \A x \in DOMAIN f : f[x] \in Below(d)
  PROVE  Total(f) \in Below(d)
BY DEF Total, Below

\* The greatest of a nonempty set of numbers up to n.
LEMMA MaxType ==
  ASSUME NEW n \in Nat, NEW S \in SUBSET (0..n), S # {}
  PROVE  Max(S) \in S /\ \A y \in S : Max(S) >= y
<1> DEFINE Good == {k \in 0..n : (\E x \in S : x >= n - k) => \E x \in S : \A y \in S : x >= y}
<1>1. 0 \in Good
  OBVIOUS
<1>2. \A k \in 0 .. n-1 : k \in Good => k + 1 \in Good
  <2> SUFFICES ASSUME NEW k \in 0 .. n-1, k \in Good,
                      NEW x \in S, x >= n - (k + 1), ~ \E z \in S : z >= n - k
               PROVE  \A y \in S : x >= y
    OBVIOUS
  <2> QED
    OBVIOUS
<1> HIDE DEF Good
<1>3. n \in 0..n /\ n \in Good
  BY <1>1, <1>2, Induction
<1>4. \E x \in S : x >= n - n
  <2>1. PICK x : x \in S
    OBVIOUS
  <2>2. x \in 0..n
    BY <2>1
  <2> QED
    BY <2>1, <2>2
<1>5. \E x \in S : \A y \in S : x >= y
  BY <1>3, <1>4 DEF Good
<1> QED
  BY <1>5 DEF Max

LEMMA TrimmedType ==
  ASSUME NEW p \in Polynomials
  PROVE  Trimmed(p) \in Polynomials /\ Deg(Trimmed(p)) <= Deg(p)
<1> DEFINE S == {1} \cup {i \in DOMAIN p : p[i] # Zero}
           n == Len(p)
           m == Max(S)
           q == SubSeq(p, 1, m)
<1>1. n \in Nat /\ n >= 1 /\ DOMAIN p = 1..n /\ \A i \in 1..n : p[i] \in Elements
  BY PolynomialType, LenProperties
<1>2. S \subseteq 0..n /\ S \subseteq 1..n /\ S # {}
  BY <1>1
<1> HIDE DEF S, n
<1>3. m \in 1..n
  BY <1>1, <1>2, MaxType
<1>4. q = Trimmed(p)
  BY DEF Trimmed, S
<1> HIDE DEF m
<1>5. \A i \in 1..m : p[i] \in Elements
  BY <1>1, <1>3
<1>6. q \in Seq(Elements) /\ Len(q) = m
  BY <1>1, <1>3, <1>5, SubSeqProperties
<1> HIDE DEF q
<1>7. q \in Polynomials
  BY <1>1, <1>3, <1>6, EmptySeq DEF Polynomials
<1>8. Deg(q) <= Deg(p)
  BY <1>1, <1>3, <1>6 DEF Deg, n
<1> QED
  BY <1>4, <1>7, <1>8

-----------------------------------------------------------------------------
\* The generator

\* The tables that the recursions of Class and Product define.
Parts(i, g) ==
  CHOOSE part : part = [j \in 0..M |-> IF j = 0 THEN g
                                       ELSE IF Root(i, j-1) \in Before(i, j-1) THEN part[j-1]
                                       ELSE Factor(part[j-1], Root(i, j-1))]
Times(n) == [i \in 0 .. n-1 |-> [g \in Polynomials |-> Class(g, i)]]
Products(n) ==
  CHOOSE prod : prod = [i \in 0..n |-> IF i = 0 THEN Constant(One)
                                       ELSE Times(n)[i-1][prod[i-1]]]

LEMMA RootLog ==
  ASSUME NEW i \in Nat, NEW j \in Nat
  PROVE  Root(i, j) \in Logs
<1>1. 2^j \in Nat
  BY PowerOfTwo
<1>2. (2 * i + 1) * 2^j \in Int
  BY <1>1
<1> QED
  BY <1>2, PowElement DEF Root

\* Monic polynomials of degree k or more.
Monic(k) == {g \in Polynomials : Coef(g, Deg(g)) = One /\ Deg(g) >= k}

LEMMA FactorMonic ==
  ASSUME NEW g \in Polynomials, Coef(g, Deg(g)) = One, NEW r \in Logs
  PROVE  Factor(g, r) \in Monic(1)
<1> DEFINE d == Deg(g)
           c == [j \in 0 .. d+1 |-> Plus(gf_mul(Coef(g, j), a_pow_tab[r]), Coef(g, j - 1))]
<1>1. d \in Nat
  BY PolynomialType
<1>2. a_pow_tab[r] \in Elements
  BY PowerNonzero
<1>3. \A j \in 0 .. d+1 : c[j] \in Elements
  BY <1>2, CoefElement, FieldOps, PlusElement
<1>4. c[d+1] = One
  <2>1. Coef(g, d + 1) = Zero
    BY <1>1 DEF Coef
  <2>2. (d + 1) - 1 = d /\ d + 1 \in 0 .. d+1
    BY <1>1
  <2>3. c[d+1] = Plus(gf_mul(Coef(g, d + 1), a_pow_tab[r]), Coef(g, d))
    BY <2>2
  <2>4. c[d+1] = Plus(Zero, One)
    BY <1>2, <2>1, <2>3, MulZeroOne
  <2> QED
    BY <2>4 DEF Plus, Zero
<1>5. Factor(g, r) = Poly(d + 1, c)
  BY DEF Factor
<1> HIDE DEF c, d
<1>6. /\ Poly(d + 1, c) \in Polynomials /\ Deg(Poly(d + 1, c)) = d + 1
      /\ \A j \in 0 .. d+1 : Coef(Poly(d + 1, c), j) = c[j]
  BY <1>1, <1>3, PolyType
<1>7. d + 1 \in 0 .. d+1 /\ d + 1 >= 1
  BY <1>1
<1> QED
  BY <1>4, <1>5, <1>6, <1>7 DEF Monic

\* A class of conjugates keeps the polynomial monic; the first adds a factor.
LEMMA PartsMonic ==
  ASSUME NEW i \in Nat, NEW k \in {0, 1}, i = 0 \/ k = 1, NEW g \in Monic(k)
  PROVE  /\ Class(g, i) = Parts(i, g)[M] /\ Class(g, i) \in Monic(1)
         /\ Parts(i, g)[0] = g
         /\ \A j \in 1..M : /\ Parts(i, g)[j-1] \in Monic(k)
                            /\ Parts(i, g)[j] =
                                 IF Root(i, j-1) \in Before(i, j-1) THEN Parts(i, g)[j-1]
                                 ELSE Factor(Parts(i, g)[j-1], Root(i, j-1))
<1> DEFINE E(j, p) == IF Root(i, j-1) \in Before(i, j-1) THEN p ELSE Factor(p, Root(i, j-1))
           Table(s) == s = [j \in 0..M |-> IF j = 0 THEN g ELSE E(j, s[j-1])]
           S == [j \in 0..M |-> IF j = 0 THEN Monic(k) ELSE Monic(1)]
           step == [j \in 1..M |-> [p \in S[j-1] |-> E(j, p)]]
           t == Parts(i, g)
<1>1. M \in Nat /\ M >= 1
  BY Sizes
<1>2. \A j \in 1..M : Root(i, j-1) \in Logs
  <2> TAKE j \in 1..M
  <2>1. j - 1 \in Nat
    OBVIOUS
  <2> QED
    BY <2>1, RootLog
<1>3. \A j \in 1..M, p \in Monic(k) : Factor(p, Root(i, j-1)) \in Monic(1)
  <2> TAKE j \in 1..M, p \in Monic(k)
  <2>1. p \in Polynomials /\ Coef(p, Deg(p)) = One
    BY DEF Monic
  <2> QED
    BY <1>2, <2>1, FactorMonic
<1>4. Monic(1) \subseteq Monic(k)
  BY PolynomialType DEF Monic
<1>5. Root(i, 1-1) \in Before(i, 1-1) => i # 0
  BY DEF Before
<1>6. \A j \in 1..M : \A p \in S[j-1] : E(j, p) \in Monic(1)
  <2> SUFFICES ASSUME NEW j \in 1..M, NEW p \in S[j-1] PROVE E(j, p) \in Monic(1)
    OBVIOUS
  <2>1. p \in Monic(k)
    <3>1. j - 1 \in 0..M
      BY <1>1
    <3> QED
      BY <1>4, <3>1
  <2>2. Factor(p, Root(i, j-1)) \in Monic(1)
    BY <1>3, <2>1
  <2>3. CASE j # 1
    <3>1. p \in Monic(1)
      BY <1>1, <2>3
    <3> QED
      BY <2>2, <3>1
  <2>4. CASE j = 1 /\ Root(i, j-1) \in Before(i, j-1)
    <3>1. k = 1
      BY <1>5, <2>4
    <3> QED
      BY <2>1, <2>4, <3>1
  <2> QED
    BY <2>2, <2>3, <2>4
<1> HIDE DEF E
<1>7. \A j \in 1..M : S[j] = Monic(1)
  BY <1>1
<1>8. g \in S[0]
  BY <1>1
<1> HIDE DEF S
<1>9. \A j \in 1..M : step[j] \in [S[j-1] -> S[j]]
  BY <1>6, <1>7
<1> HIDE DEF step
<1>10. PICK s : Recursive(s, M, S, g, step)
  BY <1>1, <1>8, <1>9, Recursion
<1>11. \A j \in 1..M : step[j][s[j-1]] = E(j, s[j-1])
  <2> TAKE j \in 1..M
  <2>1. j - 1 \in 0..M
    BY <1>1
  <2> QED
    BY <1>10, <2>1 DEF step, Recursive
<1>12. Table(s)
  <2>1. s = [j \in 0..M |-> IF j = 0 THEN g ELSE step[j][s[j-1]]]
    BY <1>10 DEF Recursive
  <2>2. \A j \in 0..M :
          (IF j = 0 THEN g ELSE step[j][s[j-1]]) = (IF j = 0 THEN g ELSE E(j, s[j-1]))
    BY <1>1, <1>11
  <2> QED
    BY <2>1, <2>2
<1>13. Table(t)
  <2>1. t = CHOOSE part : Table(part)
    BY DEF Parts, E
  <2> HIDE DEF t, Table
  <2> QED
    BY <1>12, <2>1
<1> HIDE DEF t
<1>14. t[0] = g /\ \A j \in 1..M : t[j] = E(j, t[j-1])
  BY <1>1, <1>13
<1> HIDE DEF Table
<1>15. \A j \in 0..M : t[j] \in S[j]
  <2>1. t[0] \in S[0]
    BY <1>8, <1>14
  <2>2. \A j \in 1..M : t[j-1] \in S[j-1] => t[j] \in S[j]
    BY <1>6, <1>7, <1>14
  <2> QED
    BY <1>1, <2>1, <2>2, Typed
<1>16. t[M] \in Monic(1) /\ \A j \in 1..M : t[j-1] \in Monic(k)
  <2>1. \A j \in 0..M : t[j] \in Monic(k)
    BY <1>4, <1>7, <1>8, <1>15 DEF S
  <2> QED
    BY <1>1, <1>7, <1>15, <2>1
<1>17. Class(g, i) = t[M]
  BY DEF Class, Parts, t
<1> QED
  BY <1>14, <1>16, <1>17 DEF t, E

LEMMA ProductMonic ==
  ASSUME NEW n \in Nat, n >= 1
  PROVE  /\ Product(n) = Products(n)[n] /\ Product(n) \in Monic(1)
         /\ Products(n)[0] = Constant(One)
         /\ \A i \in 1..n : /\ Products(n)[i] = Class(Products(n)[i-1], i - 1)
                            /\ Products(n)[i] \in Monic(1)
<1> DEFINE E(i, p) == Class(p, i - 1)
           F(i, p) == Times(n)[i-1][p]
           Table(s) == s = [i \in 0..n |-> IF i = 0 THEN Constant(One) ELSE F(i, s[i-1])]
           S == [i \in 0..n |-> IF i = 0 THEN Monic(0) ELSE Monic(1)]
           step == [i \in 1..n |-> [p \in S[i-1] |-> E(i, p)]]
           t == Products(n)
<1>1. Constant(One) \in Monic(0)
  BY ConstantType, OneElement DEF Monic
<1>2. \A i \in 1..n : \A p \in S[i-1] : E(i, p) \in Monic(1)
  <2> SUFFICES ASSUME NEW i \in 1..n, NEW p \in S[i-1] PROVE E(i, p) \in Monic(1)
    OBVIOUS
  <2>1. i - 1 \in 0 .. n-1 /\ i - 1 \in 0..n /\ i - 1 \in Nat
    OBVIOUS
  <2>2. p \in Monic(IF i - 1 = 0 THEN 0 ELSE 1)
    BY <2>1
  <2> HIDE DEF S
  <2>3. CASE i - 1 = 0
    BY <2>1, <2>2, <2>3, PartsMonic
  <2>4. CASE i - 1 # 0
    BY <2>1, <2>2, <2>4, PartsMonic
  <2> QED
    BY <2>3, <2>4
<1> HIDE DEF E
<1>3. \A i \in 1..n : S[i] = Monic(1)
  OBVIOUS
<1>4. Constant(One) \in S[0]
  BY <1>1
<1> HIDE DEF S
<1>5. \A i \in 1..n : step[i] \in [S[i-1] -> S[i]]
  BY <1>2, <1>3
<1> HIDE DEF step
<1>6. PICK s : Recursive(s, n, S, Constant(One), step)
  BY <1>4, <1>5, Recursion
<1>7. \A i \in 1..n : \A p \in S[i-1] : F(i, p) = E(i, p)
  <2> SUFFICES ASSUME NEW i \in 1..n, NEW p \in S[i-1] PROVE F(i, p) = E(i, p)
    OBVIOUS
  <2>1. i - 1 \in 0 .. n-1
    OBVIOUS
  <2>2. p \in Polynomials
    BY DEF S, Monic
  <2> QED
    BY <2>1, <2>2 DEF Times, E
<1> HIDE DEF F
<1>8. \A i \in 1..n : step[i][s[i-1]] = F(i, s[i-1])
  <2> TAKE i \in 1..n
  <2>1. i - 1 \in 0..n
    OBVIOUS
  <2>2. s[i-1] \in S[i-1]
    BY <1>6, <2>1 DEF Recursive
  <2>3. step[i][s[i-1]] = E(i, s[i-1])
    BY <2>2 DEF step
  <2> QED
    BY <1>7, <2>2, <2>3
<1>9. Table(s)
  BY <1>6, <1>8 DEF Recursive
<1>10. Table(t)
  BY Zenon, <1>9 DEF Products, F
<1> HIDE DEF t
<1>11. t[0] = Constant(One) /\ \A i \in 1..n : t[i] = F(i, t[i-1])
  BY <1>10
<1> HIDE DEF Table
<1>12. \A i \in 0..n : t[i] \in S[i]
  <2>1. t[0] \in S[0]
    BY <1>4, <1>11
  <2>2. \A i \in 1..n : t[i-1] \in S[i-1] => t[i] \in S[i]
    BY <1>2, <1>3, <1>7, <1>11
  <2> QED
    BY <2>1, <2>2, Typed
<1>13. \A i \in 1..n : t[i] = E(i, t[i-1])
  <2> TAKE i \in 1..n
  <2>1. i - 1 \in 0..n
    OBVIOUS
  <2> QED
    BY <1>7, <1>11, <1>12, <2>1
<1>14. n \in 1..n /\ n \in 0..n
  OBVIOUS
<1>15. Product(n) = t[n]
  BY DEF Product, Products, Times, t
<1> QED
  BY <1>3, <1>11, <1>12, <1>13, <1>14, <1>15 DEF t, E

\* g(X) is a polynomial to divide by, of degree ecc_bits.
LEMMA GeneratorReducing == Reducing(genpoly, ecc_bits)
<1>1. generator \in Monic(1)
  BY Sizes, ProductMonic DEF generator
<1>2. /\ generator \in Polynomials /\ Deg(generator) >= 1
      /\ Coef(generator, Deg(generator)) = One
  BY <1>1 DEF Monic
<1>3. Deg(generator) \in Nat
  BY <1>2, PolynomialType
<1> QED
  BY <1>2, <1>3, OneElement DEF Reducing, genpoly, ecc_bits

-----------------------------------------------------------------------------
\* The encoder

\* One byte of bch_encode, and its table of parities.
Stays(r) == {j + 8 : j \in {j \in r : j < ecc_bits - 8}}
Encoded(data, r, n) ==
  Plus(Stays(r), Total([b \in Leaving(data, r, n) |-> mod8_tab[b]]))
ParityTable(data) ==
  CHOOSE p : p = [n \in 0..Bytes |-> IF n = 0 THEN Zero ELSE Encoded(data, p[n-1], n - 1)]

LEMMA EncodedBelow ==
  ASSUME NEW data, NEW r \in Below(ecc_bits), NEW n
  PROVE  Encoded(data, r, n) \in Below(ecc_bits)
<1> DEFINE d == ecc_bits
           L == Leaving(data, r, n)
           f == [b \in L |-> mod8_tab[b]]
<1>1. d \in Nat /\ d > 0 /\ r \subseteq 0 .. d-1
  BY GeneratorReducing DEF Reducing, Below
<1>2. L \subseteq 0..7
  <2> DEFINE A == {j - (d - 8) : j \in {j \in r : j >= d - 8}}
             B == {b \in 0..7 : 8 * n + b \in data}
  <2>1. A \subseteq 0..7
    BY <1>1
  <2>2. L = Plus(A, B)
    BY DEF Leaving
  <2> HIDE DEF A, L
  <2> QED
    BY <2>1, <2>2 DEF Plus
<1>3. \A b \in 0..7 : mod8_tab[b] \in Below(d)
  <2> TAKE b \in 0..7
  <2>1. {d - 1} \in Below(d)
    BY <1>1 DEF Below
  <2>2. b + 1 \in Nat
    OBVIOUS
  <2>3. mod8_tab[b] = Shifted({d - 1}, b + 1, genpoly, d)
    BY DEF mod8_tab
  <2> HIDE DEF d
  <2>4. Reducing(genpoly, d)
    BY GeneratorReducing DEF d
  <2> QED
    BY <2>1, <2>2, <2>3, <2>4, ShiftedStep
<1> HIDE DEF L
<1>4. \A b \in DOMAIN f : f[b] \in Below(d)
  BY <1>2, <1>3
<1> HIDE DEF f
<1>5. Total(f) \in Below(d)
  BY <1>4, TotalElement
<1>6. Stays(r) \in Below(d)
  BY <1>1 DEF Stays, Below
<1>7. Encoded(data, r, n) = Plus(Stays(r), Total(f))
  BY DEF Encoded, f, L
<1> QED
  BY <1>5, <1>6, <1>7 DEF Plus, Below

LEMMA ParityTableDefined ==
  ASSUME NEW data
  PROVE  /\ bch_encode(data) = ParityTable(data)[Bytes]
         /\ ParityTable(data)[0] = Zero
         /\ \A i \in 1..Bytes : ParityTable(data)[i] = Encoded(data, ParityTable(data)[i-1], i - 1)
         /\ \A i \in 0..Bytes : ParityTable(data)[i] \in Below(ecc_bits)
<1> DEFINE n == Bytes
           E(i, p) == Encoded(data, p, i - 1)
           Table(s) == s = [i \in 0..n |-> IF i = 0 THEN Zero ELSE E(i, s[i-1])]
           V == Below(ecc_bits)
           S == [i \in 0..n |-> V]
           step == [i \in 1..n |-> [p \in V |-> E(i, p)]]
           t == ParityTable(data)
<1>1. n \in Nat
  BY Sizes
<1>2. Zero \in V
  BY DEF Zero, Below
<1>3. \A i \in 1..n : \A p \in V : E(i, p) \in V
  BY EncodedBelow
<1>4. bch_encode(data) = t[n]
  BY DEF bch_encode, ParityTable, Encoded, Stays
<1> HIDE DEF n, E, V
<1>5. \A i \in 0..n : S[i] = V
  OBVIOUS
<1> HIDE DEF S
<1>6. \A i \in 1..n : step[i] \in [S[i-1] -> S[i]]
  BY <1>1, <1>3, <1>5
<1> HIDE DEF step
<1>7. Zero \in S[0]
  BY <1>1, <1>2, <1>5
<1>8. PICK s : Recursive(s, n, S, Zero, step)
  BY <1>1, <1>6, <1>7, Recursion
<1>9. \A i \in 1..n : step[i][s[i-1]] = E(i, s[i-1])
  <2> TAKE i \in 1..n
  <2>1. s[i-1] \in V
    BY <1>1, <1>5, <1>8 DEF Recursive
  <2> QED
    BY <2>1 DEF step
<1>10. Table(s)
  BY <1>1, <1>8, <1>9 DEF Recursive
<1>11. Table(t)
  BY <1>10 DEF ParityTable, E, n
<1> HIDE DEF t
<1>12. t[0] = Zero /\ \A i \in 1..n : t[i] = E(i, t[i-1])
  BY <1>1, <1>11
<1> HIDE DEF Table
<1>13. \A i \in 1..n : t[i-1] \in S[i-1] => t[i] \in S[i]
  BY <1>1, <1>3, <1>5, <1>12
<1>14. \A i \in 0..n : t[i] \in S[i]
  BY <1>1, <1>7, <1>12, <1>13, Typed
<1> QED
  BY <1>4, <1>5, <1>12, <1>14 DEF V, E, n, t

LEMMA EncodeType ==
  ASSUME NEW data
  PROVE  bch_encode(data) \in Below(ecc_bits)
<1>1. Bytes \in 0..Bytes
  BY Sizes
<1> QED
  BY <1>1, ParityTableDefined

-----------------------------------------------------------------------------
\* The syndromes

Odd(v, j) == Total([i \in v |-> a_pow(j * i)])
Syndromes(v) ==
  CHOOSE syn : syn = [j \in 1 .. 2 * T |-> IF j % 2 = 0 THEN gf_sqr(syn[j \div 2]) ELSE Odd(v, j)]

LEMMA OddElement ==
  ASSUME NEW v, v \subseteq Int, NEW j \in Int
  PROVE  Odd(v, j) \in Elements
<1> DEFINE f == [i \in v |-> a_pow(j * i)]
<1>1. \A i \in v : j * i \in Int
  OBVIOUS
<1>2. \A i \in DOMAIN f : f[i] \in Below(M)
  BY <1>1, PowElement, PrimReducing
<1> HIDE DEF f
<1>3. Total(f) \in Below(M)
  BY <1>2, TotalElement
<1> QED
  BY <1>3, PrimReducing DEF Odd, f

LEMMA SyndromeType ==
  ASSUME NEW v, v \subseteq Int
  PROVE  LET syn == compute_syndromes(v)
         IN  /\ \A j \in 1 .. 2 * T : syn[j] \in Elements
             /\ \A j \in 1 .. 2 * T :
                  syn[j] = IF j % 2 = 0 THEN gf_sqr(syn[j \div 2]) ELSE Odd(v, j)
<1> DEFINE n == 2 * T
           E(f, j) == IF j % 2 = 0 THEN gf_sqr(f[j \div 2]) ELSE Odd(v, j)
           Table(f, k) == f = [j \in 1..k |-> E(f, j)]
           Good == {k \in 0..n : \E f : f \in [1..k -> Elements] /\ Table(f, k)}
           t == Syndromes(v)
           Fine == {k \in 0..n : \A j \in 1..k : t[j] \in Elements}
<1>1. n \in Nat
  BY Sizes
<1>2. compute_syndromes(v) = SubSeq(t, 1, n)
  BY DEF compute_syndromes, Syndromes, Odd
<1> HIDE DEF n
<1>3. \A j \in 1..n : Odd(v, j) \in Elements
  <2> TAKE j \in 1..n
  <2>1. j \in Int
    BY <1>1
  <2> QED
    BY <2>1, OddElement
<1>4. \A k \in Nat : \A j \in 1..k : j % 2 = 0 => j \div 2 \in 1..k
  OBVIOUS
<1>5. \A k \in Nat : k > 0 /\ k % 2 = 0 => k \div 2 \in 1 .. k-1
  OBVIOUS
<1>6. \A x \in Elements : gf_sqr(x) \in Elements
  BY FieldOps
<1>7. 0 \in Good
  <2> DEFINE f == [j \in 1..0 |-> Zero]
  <2>1. f \in [1..0 -> Elements] /\ Table(f, 0)
    OBVIOUS
  <2>2. \E g : g \in [1..0 -> Elements] /\ Table(g, 0)
    <3> HIDE DEF f, Table
    <3> QED
      BY <2>1
  <2> HIDE DEF Table
  <2>3. 0 \in 0..n
    BY <1>1
  <2> QED
    BY <2>2, <2>3
<1>8. \A k \in 0 .. n-1 : k \in Good => k + 1 \in Good
  <2> SUFFICES ASSUME NEW k \in 0 .. n-1, k \in Good PROVE k + 1 \in Good
    OBVIOUS
  <2>1. PICK f : f \in [1..k -> Elements] /\ Table(f, k)
    OBVIOUS
  <2> DEFINE h == [j \in 1 .. k+1 |-> IF j \in 1..k THEN f[j] ELSE E(f, k + 1)]
  <2>2. k \in Nat /\ k + 1 \in 1..n /\ k + 1 \in 0..n
    BY <1>1
  <2>3. \A j \in 1 .. k+1 : j % 2 = 0 => h[j \div 2] = f[j \div 2]
    <3> TAKE j \in 1 .. k+1
    <3>1. j % 2 = 0 => j \div 2 \in 1..k
      BY <1>5, <2>2
    <3> QED
      BY <2>2, <3>1
  <2>4. \A j \in 1 .. k+1 : E(h, j) = E(f, j)
    <3> HIDE DEF h
    <3> QED
      BY <2>3
  <2>5. \A j \in 1..k : f[j] = E(f, j)
    BY <2>1
  <2>6. E(f, k + 1) \in Elements
    <3>1. (k + 1) % 2 = 0 => (k + 1) \div 2 \in 1..k
      BY <1>5, <2>2
    <3>2. Odd(v, k + 1) \in Elements
      BY <1>3, <2>2
    <3> QED
      BY <1>6, <2>1, <3>1, <3>2
  <2>7. h \in [1 .. k+1 -> Elements]
    <3> HIDE DEF E
    <3> QED
      BY <2>1, <2>6
  <2>8. h = [j \in 1 .. k+1 |-> E(h, j)]
    <3> HIDE DEF E
    <3>1. \A j \in 1 .. k+1 : h[j] = E(h, j)
      <4> TAKE j \in 1 .. k+1
      <4>1. h[j] = E(f, j)
        BY <2>2, <2>5
      <4> HIDE DEF h
      <4> QED
        BY <2>4, <4>1
    <3> QED
      BY <3>1
  <2>9. \E g : g \in [1 .. k+1 -> Elements] /\ Table(g, k + 1)
    <3> HIDE DEF h, E
    <3> QED
      BY <2>7, <2>8
  <2> HIDE DEF Table
  <2> QED
    BY <2>2, <2>9
<1> HIDE DEF Good
<1>9. n \in 0..n /\ n \in Good
  BY <1>1, <1>7, <1>8, Induction
<1>10. \E f : Table(f, n)
  BY <1>9 DEF Good
<1>11. Table(t, n)
  BY <1>10 DEF Syndromes, n
<1> HIDE DEF t
<1>12. \A j \in 1..n : t[j] = E(t, j)
  BY <1>11
<1> HIDE DEF Table
<1>13. 0 \in Fine
  BY <1>1
<1>14. \A k \in 0 .. n-1 : k \in Fine => k + 1 \in Fine
  <2> SUFFICES ASSUME NEW k \in 0 .. n-1, \A j \in 1..k : t[j] \in Elements
               PROVE  k + 1 \in Fine
    OBVIOUS
  <2>1. k + 1 \in 1..n /\ k + 1 \in 0..n /\ k \in Nat
    BY <1>1
  <2>2. (k + 1) % 2 = 0 => (k + 1) \div 2 \in 1..k
    BY <1>5, <2>1
  <2>3. t[k+1] \in Elements
    BY <1>3, <1>6, <1>12, <2>1, <2>2
  <2>4. \A j \in 1 .. k+1 : t[j] \in Elements
    BY <2>1, <2>3
  <2> QED
    BY <2>1, <2>4
<1> HIDE DEF Fine
<1>15. n \in Fine
  BY <1>1, <1>9, <1>13, <1>14, Induction
<1>16. \A j \in 1..n : t[j] \in Elements
  BY <1>15 DEF Fine
<1>17. \A j \in 1..n : SubSeq(t, 1, n)[j] = t[j]
  BY <1>1, <1>16, SubSeqProperties
<1>18. \A j \in 1..n : SubSeq(t, 1, n)[j]
                         = IF j % 2 = 0 THEN gf_sqr(SubSeq(t, 1, n)[j \div 2]) ELSE Odd(v, j)
  <2> TAKE j \in 1..n
  <2>1. j % 2 = 0 => j \div 2 \in 1..n
    BY <1>1, <1>4
  <2>2. t[j] = IF j % 2 = 0 THEN gf_sqr(t[j \div 2]) ELSE Odd(v, j)
    BY <1>12
  <2> QED
    BY <1>17, <2>1, <2>2
<1> QED
  BY <1>2, <1>16, <1>17, <1>18 DEF n

-----------------------------------------------------------------------------
\* The error locator polynomial

\* Before round i the locators have at most the degrees that the syndromes read
\* so far can give them, so that round i reads only syndromes that there are.
State(i) ==
  {s \in [elp : Polynomials, d : Elements, pelp : Polynomials, pd : Elements, pp : Int] :
     s.pp \in -1 .. 2*i - 1 /\ Deg(s.elp) <= 2 * i /\ Deg(s.pelp) <= s.pp + 1}

LEMMA RoundType ==
  ASSUME NEW syn, \A j \in 1 .. 2 * T : syn[j] \in Elements,
         NEW i \in 0 .. T-1, NEW s \in State(i)
  PROVE  Round(syn, s, i) \in State(i + 1)
<1> DEFINE k     == 2 * i - s.pp
           scale == gf_div(s.d, s.pd)
           grown == Deg(s.pelp) + k
           top   == IF grown > Deg(s.elp) THEN grown ELSE Deg(s.elp)
           c     == [j \in 0..top |-> Plus(Coef(s.elp, j), gf_mul(scale, Coef(s.pelp, j - k)))]
           elp   == IF s.d = Zero THEN s.elp ELSE Poly(top, c)
           f     == [j \in 0 .. Deg(elp) |-> gf_mul(Coef(elp, j), syn[2 * i + 3 - j])]
           d     == IF i = T - 1 THEN s.d ELSE Total(f)
<1>1. T \in Nat /\ i \in Nat /\ i + 1 \in Nat
  BY Sizes
<1>2. /\ s.elp \in Polynomials /\ s.pelp \in Polynomials /\ s.d \in Elements /\ s.pd \in Elements
      /\ s.pp \in -1 .. 2*i - 1 /\ Deg(s.elp) <= 2 * i /\ Deg(s.pelp) <= s.pp + 1
  BY DEF State
<1>3. Deg(s.elp) \in Nat /\ Deg(s.pelp) \in Nat
  BY <1>2, PolynomialType
<1>4. Round(syn, s, i) =
        IF Deg(s.elp) > T THEN s
        ELSE IF s.d # Zero /\ grown > Deg(s.elp)
          THEN [elp |-> elp, d |-> d, pelp |-> s.elp, pd |-> s.d, pp |-> 2 * i]
          ELSE [s EXCEPT !.elp = elp, !.d = d]
  BY DEF Round
<1>5. grown \in Int /\ grown <= 2 * i + 1 /\ top \in Nat /\ top <= 2 * i + 1
  BY <1>1, <1>2, <1>3
<1> HIDE DEF grown, top, k
<1>6. scale \in Elements
  BY <1>2, FieldOps
<1> HIDE DEF scale
<1>7. \A j \in 0..top : c[j] \in Elements
  BY <1>2, <1>6, CoefElement, FieldOps, PlusElement
<1> HIDE DEF c
<1>8. Poly(top, c) \in Polynomials /\ Deg(Poly(top, c)) = top
  BY <1>5, <1>7, PolyType
<1>9. elp \in Polynomials /\ Deg(elp) <= 2 * i + 1 /\ Deg(elp) \in Nat
  BY <1>1, <1>2, <1>3, <1>5, <1>8
<1> HIDE DEF elp
<1>10. d \in Elements
  <2>1. CASE i = T - 1
    BY <1>2, <2>1
  <2>2. CASE i # T - 1
    <3>1. \A j \in 0 .. Deg(elp) : 2 * i + 3 - j \in 1 .. 2 * T
      BY <1>1, <1>9, <2>2
    <3>2. \A j \in DOMAIN f : f[j] \in Below(M)
      <4> TAKE j \in 0 .. Deg(elp)
      <4>1. syn[2 * i + 3 - j] \in Elements
        BY <3>1
      <4>2. f[j] = gf_mul(Coef(elp, j), syn[2 * i + 3 - j])
        OBVIOUS
      <4> HIDE DEF f
      <4> QED
        <5>1. Coef(elp, j) \in Elements
          BY <1>9, CoefElement
        <5> QED
          BY <4>1, <4>2, <5>1, FieldOps, PrimReducing
    <3> HIDE DEF f
    <3> QED
      BY <2>2, <3>2, TotalElement, PrimReducing
  <2> QED
    BY <2>1, <2>2
<1> HIDE DEF d
<1>11. CASE Deg(s.elp) > T
  <2>1. s \in State(i + 1)
    BY <1>1, <1>2, <1>3 DEF State
  <2> QED
    BY <1>4, <1>11, <2>1
<1>12. CASE ~ (Deg(s.elp) > T) /\ s.d # Zero /\ grown > Deg(s.elp)
  <2> DEFINE r == [elp |-> elp, d |-> d, pelp |-> s.elp, pd |-> s.d, pp |-> 2 * i]
  <2>1. r \in [elp : Polynomials, d : Elements, pelp : Polynomials, pd : Elements, pp : Int]
    BY <1>1, <1>2, <1>9, <1>10
  <2>2. r.pp \in -1 .. 2*(i+1) - 1 /\ Deg(r.elp) <= 2 * (i + 1) /\ Deg(r.pelp) <= r.pp + 1
    BY <1>1, <1>2, <1>3, <1>9
  <2>3. r \in State(i + 1)
    BY <2>1, <2>2 DEF State
  <2> HIDE DEF r
  <2>4. Round(syn, s, i) = r
    BY <1>4, <1>12 DEF r
  <2> QED
    BY <2>3, <2>4
<1>13. CASE ~ (Deg(s.elp) > T) /\ ~ (s.d # Zero /\ grown > Deg(s.elp))
  <2> DEFINE r == [s EXCEPT !.elp = elp, !.d = d]
  <2>1. s \in [elp : Polynomials, d : Elements, pelp : Polynomials, pd : Elements, pp : Int]
    BY DEF State
  <2>2. /\ r \in [elp : Polynomials, d : Elements, pelp : Polynomials, pd : Elements, pp : Int]
        /\ r.pp = s.pp /\ r.elp = elp /\ r.pelp = s.pelp
    BY <1>9, <1>10, <2>1
  <2>3. Round(syn, s, i) = r
    BY <1>4, <1>13
  <2> HIDE DEF r
  <2>4. r.pp \in -1 .. 2*(i+1) - 1 /\ Deg(r.elp) <= 2 * (i + 1) /\ Deg(r.pelp) <= r.pp + 1
    BY <1>1, <1>2, <1>3, <1>9, <2>2
  <2>5. r \in State(i + 1)
    BY <2>2, <2>4 DEF State
  <2> QED
    BY <2>3, <2>5
<1> QED
  BY <1>11, <1>12, <1>13

FirstState(syn) ==
  [elp |-> Constant(One), d |-> syn[1], pelp |-> Constant(One), pd |-> One, pp |-> -1]
States(syn, n) ==
  CHOOSE s : s = [i \in 0..n |-> IF i = 0 THEN FirstState(syn) ELSE Round(syn, s[i-1], i - 1)]

\* The states between the rounds.
LEMMA RoundsTable ==
  ASSUME NEW syn, \A j \in 1 .. 2 * T : syn[j] \in Elements
  PROVE  LET t == States(syn, T)
         IN  /\ Rounds(syn, T) = t[T] /\ t[0] = FirstState(syn)
             /\ \A i \in 1..T : t[i] = Round(syn, t[i-1], i - 1)
             /\ \A i \in 0..T : t[i] \in State(i)
<1> DEFINE E(i, p) == Round(syn, p, i - 1)
           Table(s) == s = [i \in 0..T |-> IF i = 0 THEN FirstState(syn) ELSE E(i, s[i-1])]
           S == [i \in 0..T |-> State(i)]
           step == [i \in 1..T |-> [p \in S[i-1] |-> E(i, p)]]
           t == States(syn, T)
<1>1. T \in Nat /\ T >= 1
  BY Sizes
<1>2. FirstState(syn) \in S[0]
  <2> DEFINE r == FirstState(syn)
  <2>1. syn[1] \in Elements /\ One \in Elements
    BY <1>1, OneElement
  <2>2. Constant(One) \in Polynomials /\ Deg(Constant(One)) = 0
    BY ConstantType, OneElement
  <2>3. r \in [elp : Polynomials, d : Elements, pelp : Polynomials, pd : Elements, pp : Int]
    BY <2>1, <2>2 DEF FirstState
  <2>4. r.pp \in -1 .. 2*0 - 1 /\ Deg(r.elp) <= 2 * 0 /\ Deg(r.pelp) <= r.pp + 1
    BY <2>2 DEF FirstState
  <2> HIDE DEF r
  <2>5. r \in State(0)
    BY <2>3, <2>4 DEF State
  <2> QED
    BY <1>1, <2>5 DEF r
<1>3. \A i \in 1..T : \A p \in S[i-1] : E(i, p) \in S[i]
  <2> SUFFICES ASSUME NEW i \in 1..T, NEW p \in S[i-1] PROVE E(i, p) \in S[i]
    OBVIOUS
  <2>1. i - 1 \in 0 .. T-1 /\ i - 1 \in 0..T /\ (i - 1) + 1 = i
    BY <1>1
  <2>2. p \in State(i - 1)
    BY <2>1
  <2>3. Round(syn, p, i - 1) \in State(i)
    BY <2>1, <2>2, RoundType
  <2> QED
    BY <2>3
<1>4. Rounds(syn, T) = t[T]
  BY DEF Rounds, States, FirstState
<1> HIDE DEF E, S
<1>5. \A i \in 1..T : step[i] \in [S[i-1] -> S[i]]
  BY <1>3
<1> HIDE DEF step
<1>6. PICK s : Recursive(s, T, S, FirstState(syn), step)
  BY <1>1, <1>2, <1>5, Recursion
<1>7. \A i \in 1..T : step[i][s[i-1]] = E(i, s[i-1])
  <2> TAKE i \in 1..T
  <2>1. s[i-1] \in S[i-1]
    BY <1>1, <1>6 DEF Recursive
  <2> QED
    BY <2>1 DEF step
<1>8. Table(s)
  BY <1>1, <1>6, <1>7 DEF Recursive
<1>9. Table(t)
  BY <1>8 DEF States, E
<1> HIDE DEF t
<1>10. t[0] = FirstState(syn) /\ \A i \in 1..T : t[i] = E(i, t[i-1])
  BY <1>1, <1>9
<1> HIDE DEF Table
<1>11. \A i \in 1..T : t[i-1] \in S[i-1] => t[i] \in S[i]
  BY <1>3, <1>10
<1>12. \A i \in 0..T : t[i] \in S[i]
  BY <1>1, <1>2, <1>10, <1>11, Typed
<1>13. \A i \in 0..T : t[i] \in State(i)
  BY <1>1, <1>12 DEF S
<1>14. \A i \in 1..T : t[i] = Round(syn, t[i-1], i - 1)
  BY <1>10 DEF E
<1> QED
  BY <1>4, <1>10, <1>13, <1>14 DEF t

LEMMA RoundsType ==
  ASSUME NEW syn, \A j \in 1 .. 2 * T : syn[j] \in Elements
  PROVE  /\ compute_error_locator_polynomial(syn) \in Polynomials
         /\ Deg(compute_error_locator_polynomial(syn)) <= 2 * T
<1> DEFINE t == States(syn, T)
<1>1. T \in 0..T
  BY Sizes
<1>2. Rounds(syn, T) = t[T] /\ \A i \in 0..T : t[i] \in State(i)
  BY RoundsTable
<1> HIDE DEF t
<1>3. t[T].elp \in Polynomials /\ Deg(t[T].elp) <= 2 * T
  BY <1>1, <1>2 DEF State
<1> QED
  BY <1>2, <1>3 DEF compute_error_locator_polynomial

-----------------------------------------------------------------------------
\* Roots of polynomials of degree 1 to 4

\* Up to n logs: what a caller's array of n has room for.
UpTo(n) == {r \in Seq(Logs) : Len(r) <= n}

LEMMA ImageSize ==
  ASSUME NEW S, IsFiniteSet(S), NEW f, DOMAIN f = S
  PROVE  /\ IsFiniteSet({f[x] : x \in S})
         /\ Cardinality({f[x] : x \in S}) \in Nat
         /\ Cardinality({f[x] : x \in S}) <= Cardinality(S)
<1> DEFINE I == {f[x] : x \in S}
           g == [x \in S |-> f[x]]
<1>1. g \in Surjection(S, I)
  BY DEF Surjection
<1> HIDE DEF I, g
<1>2. IsFiniteSet(I) /\ Cardinality(I) <= Cardinality(S)
  BY <1>1, FS_Surjection
<1>3. Cardinality(I) \in Nat
  BY <1>2, FS_CardinalityType
<1> QED
  BY <1>2, <1>3 DEF I

LEMMA SetToSeqType ==
  ASSUME NEW S, IsFiniteSet(S)
  PROVE  SetToSeq(S) \in Seq(S) /\ Len(SetToSeq(S)) = Cardinality(S)
<1> DEFINE n == Cardinality(S)
           s == SetToSeq(S)
<1>1. n \in Nat /\ ExistsBijection(1..n, S)
  BY FS_CardinalityType
<1>2. \E f \in [1..n -> S] : IsInjective(f)
  BY <1>1 DEF ExistsBijection, Bijection, Injection
<1>3. s \in [1..n -> S]
  BY <1>2 DEF SetToSeq
<1> HIDE DEF n, s
<1>4. s \in Seq(S) /\ Len(s) = n
  BY <1>1, <1>3
<1> QED
  BY <1>4 DEF n, s

LEMMA LocationsType ==
  ASSUME NEW R, R \subseteq Elements, NEW n \in Nat, Cardinality(R) <= n
  PROVE  Locations(R) \in UpTo(n)
<1> DEFINE f == [x \in R |-> a_ilog(x)]
           S == {f[x] : x \in R}
<1>1. IsFiniteSet(R) /\ Cardinality(R) \in Nat
  BY ElementsFinite, FS_Subset, FS_CardinalityType
<1>2. S = {a_ilog(x) : x \in R} /\ S \subseteq Logs
  BY FieldOps
<1>3. DOMAIN f = R
  OBVIOUS
<1> HIDE DEF f
<1>4. IsFiniteSet(S) /\ Cardinality(S) \in Nat /\ Cardinality(S) <= Cardinality(R)
  BY <1>1, <1>3, ImageSize
<1>5. Locations(R) = SetToSeq(S)
  BY <1>2 DEF Locations
<1> HIDE DEF S
<1>6. SetToSeq(S) \in Seq(S) /\ Len(SetToSeq(S)) = Cardinality(S)
  BY <1>4, SetToSeqType
<1>7. SetToSeq(S) \in Seq(Logs)
  BY <1>2, <1>6, SeqMonotonic
<1>8. Len(SetToSeq(S)) <= n
  BY <1>1, <1>4, <1>6
<1> QED
  BY <1>5, <1>7, <1>8 DEF UpTo

LEMMA EmptyUpTo == ASSUME NEW n \in Nat PROVE <<>> \in UpTo(n)
BY EmptySeq DEF UpTo

LEMMA Deg1Type ==
  ASSUME NEW p \in Polynomials
  PROVE  find_poly_deg1_roots(p) \in UpTo(1)
<1> DEFINE v == N - a_log(Coef(p, 0)) + a_log(Coef(p, 1))
           l == mod_s(v)
<1>1. N \in Nat /\ a_log(Coef(p, 0)) \in 0 .. N-1 /\ a_log(Coef(p, 1)) \in 0 .. N-1
  BY Sizes, CoefElement, LogPower DEF Logs
<1>2. v \in 0 .. 2*N - 1
  BY <1>1
<1> HIDE DEF v
<1>3. l \in Logs
  BY <1>2, ModS
<1> HIDE DEF l
<1>4. <<l>> \in UpTo(1)
  BY <1>3 DEF UpTo
<1> QED
  BY <1>4, EmptyUpTo DEF find_poly_deg1_roots, l, v

LEMMA Deg2Type ==
  ASSUME NEW p \in Polynomials
  PROVE  find_poly_deg2_roots(p) \in UpTo(2)
<1> DEFINE l1 == a_log(Coef(p, 1))
           l2 == a_log(Coef(p, 2))
           u  == a_pow(a_log(Coef(p, 0)) + l2 + 2 * (N - l1))
           f  == [i \in u |-> xi_tab[i]]
           r  == Total(f)
           Loc(z) == (2 * N - l1 - a_log(z) + l2) % N
<1>1. N \in Nat /\ l1 \in Int /\ l2 \in Int /\ a_log(Coef(p, 0)) \in Int
  BY Sizes, CoefElement, LogPower DEF Logs
<1>2. u \in Elements
  BY <1>1, PowElement
<1>3. \A i \in 0 .. M-1 : xi_tab[i] \in Elements
  BY BaseAssumption DEF xi_tab, Base
<1> HIDE DEF l1, l2
<1>4. r \in Elements
  <2> HIDE DEF u
  <2>1. \A i \in DOMAIN f : f[i] \in Below(M)
    BY <1>2, <1>3, PrimReducing DEF Elements
  <2> HIDE DEF f
  <2> QED
    BY <2>1, TotalElement, PrimReducing
<1>5. \A z \in Elements : Loc(z) \in Logs
  <2> TAKE z \in Elements
  <2>1. a_log(z) \in Int
    BY <1>1, LogPower DEF Logs
  <2> QED
    BY <1>1, <2>1, PowElement
<1>6. find_poly_deg2_roots(p) \in {<<>>, <<Loc(r), Loc(Plus(r, One))>>}
  BY DEF find_poly_deg2_roots, l1, l2
<1> HIDE DEF r, Loc
<1>7. Plus(r, One) \in Elements
  BY <1>4, OneElement, PlusElement
<1>8. <<Loc(r), Loc(Plus(r, One))>> \in UpTo(2)
  BY <1>4, <1>5, <1>7 DEF UpTo
<1> QED
  BY <1>6, <1>8, EmptyUpTo

LEMMA AffineType ==
  \A a, b, c : LET R == find_affine4_roots(a, b, c)
               IN  R \subseteq Elements /\ IsFiniteSet(R) /\ Cardinality(R) <= 4
<1> TAKE a, b, c
<1> DEFINE R == find_affine4_roots(a, b, c)
<1>1. R \subseteq Elements /\ (R = {} \/ Cardinality(R) = 4)
  BY DEF find_affine4_roots
<1>2. IsFiniteSet(R) /\ Cardinality({}) = 0
  BY <1>1, ElementsFinite, FS_Subset, FS_EmptySet
<1> QED
  BY <1>1, <1>2

\* The factor X + a2 puts the root a2 into the affine polynomial, and the code
\* takes it out again.
LEMMA MultipliedRoot ==
  ASSUME NEW a2 \in Elements, NEW b2 \in Elements, NEW c2 \in Elements
  PROVE  Plus(gf_sqr(gf_sqr(a2)), gf_mul(Plus(gf_sqr(a2), b2), gf_sqr(a2)))
           = Plus(gf_mul(Plus(gf_mul(a2, b2), c2), a2), gf_mul(a2, c2))
<1> DEFINE s == gf_sqr(a2)
           u == gf_mul(a2, b2)
           v == gf_mul(a2, c2)
<1>1. s \in Elements /\ u \in Elements /\ v \in Elements
  BY FieldOps
<1>2. s = gf_mul(a2, a2)
  BY SquareIsMul
<1> HIDE DEF s, u, v
<1>3. gf_mul(Plus(s, b2), s) = Plus(gf_sqr(s), gf_mul(s, b2))
  <2>1. gf_mul(Plus(s, b2), s) = gf_mul(s, Plus(s, b2))
    BY <1>1, MulCommutes, PlusElement
  <2>2. gf_mul(s, Plus(s, b2)) = Plus(gf_mul(s, s), gf_mul(s, b2))
    BY <1>1, MulDistributes
  <2>3. gf_sqr(s) = gf_mul(s, s)
    BY <1>1, SquareIsMul
  <2> QED
    BY <2>1, <2>2, <2>3
<1>4. gf_mul(Plus(u, c2), a2) = Plus(gf_mul(a2, u), v)
  <2>1. gf_mul(Plus(u, c2), a2) = gf_mul(a2, Plus(u, c2))
    BY <1>1, MulCommutes, PlusElement
  <2>2. gf_mul(a2, Plus(u, c2)) = Plus(gf_mul(a2, u), gf_mul(a2, c2))
    BY <1>1, MulDistributes
  <2> QED
    BY <2>1, <2>2 DEF v
<1>5. gf_mul(a2, u) = gf_mul(s, b2)
  BY <1>2, MulAssociates DEF u
<1> DEFINE w == gf_mul(s, b2)
           q == gf_sqr(s)
<1>6. Plus(q, Plus(q, w)) = w /\ Plus(Plus(w, v), v) = w
  <2> HIDE DEF w, q
  <2> QED
    BY DEF Plus
<1>7. Plus(gf_sqr(s), gf_mul(Plus(s, b2), s)) = Plus(gf_mul(Plus(u, c2), a2), v)
  BY <1>3, <1>4, <1>5, <1>6
<1> QED
  BY <1>7 DEF s, u, v

LEMMA Deg3Type ==
  ASSUME NEW p \in Polynomials
  PROVE  find_poly_deg3_roots(p) \in UpTo(3)
<1> DEFINE c2 == gf_div(Coef(p, 0), Coef(p, 3))
           b2 == gf_div(Coef(p, 1), Coef(p, 3))
           a2 == gf_div(Coef(p, 2), Coef(p, 3))
           R == find_affine4_roots(Plus(gf_sqr(a2), b2), Plus(gf_mul(a2, b2), c2), gf_mul(a2, c2))
<1>1. a2 \in Elements /\ b2 \in Elements /\ c2 \in Elements
  BY CoefElement, FieldOps
<1>2. find_poly_deg3_roots(p) = IF Coef(p, 0) = Zero THEN <<>> ELSE Locations(R \ {a2})
  BY DEF find_poly_deg3_roots
<1> HIDE DEF a2, b2, c2
<1>3. R = {} \/ a2 \in R
  BY <1>1, MultipliedRoot DEF find_affine4_roots
<1>4. R \subseteq Elements /\ IsFiniteSet(R) /\ Cardinality(R) <= 4
  BY AffineType
<1> HIDE DEF R
<1>5. Cardinality(R) \in Nat
  BY <1>4, FS_CardinalityType
<1>6. Cardinality(R \ {a2}) <= 3
  <2>1. CASE R = {}
    BY <2>1, FS_EmptySet
  <2>2. CASE a2 \in R
    <3>1. Cardinality(R \ {a2}) = Cardinality(R) - 1
      BY <1>4, <2>2, FS_RemoveElement
    <3> QED
      BY <1>4, <1>5, <3>1
  <2> QED
    BY <1>3, <2>1, <2>2
<1>7. Locations(R \ {a2}) \in UpTo(3)
  BY <1>4, <1>6, LocationsType
<1> QED
  BY <1>2, <1>7, EmptyUpTo

LEMMA Deg4Type ==
  ASSUME NEW p \in Polynomials
  PROVE  find_poly_deg4_roots(p) \in UpTo(4)
<1> DEFINE d == gf_div(Coef(p, 0), Coef(p, 4))
           c == gf_div(Coef(p, 1), Coef(p, 4))
           b == gf_div(Coef(p, 2), Coef(p, 4))
           a == gf_div(Coef(p, 3), Coef(p, 4))
           f == gf_div(c, a)
           l == a_log(f)
           e == IF c = Zero THEN Zero ELSE a_pow((l + (l % 2) * N) \div 2)
           dz == Plus(gf_sqr(f), Plus(gf_mul(b, f), d))
           bz == Plus(gf_mul(a, e), b)
           ys == find_affine4_roots(gf_div(bz, dz), gf_div(a, dz), gf_inv(dz))
           R == find_affine4_roots(b, c, d)
           Z == {Plus(gf_inv(y), e) : y \in ys}
<1>1. c \in Elements /\ a \in Elements
  BY CoefElement, FieldOps
<1>2. find_poly_deg4_roots(p) \in {<<>>, Locations(R), Locations(Z)}
  BY DEF find_poly_deg4_roots
<1> HIDE DEF a, b, c, d
<1>3. e \in Elements
  <2>1. f \in Elements
    BY <1>1, FieldOps
  <2> HIDE DEF f
  <2>2. l \in Nat /\ N \in Nat
    BY <2>1, LogPower, Sizes DEF Logs
  <2> HIDE DEF l
  <2>3. l % 2 \in 0..1
    BY <2>2
  <2>4. l + (l % 2) * N \in Nat
    BY <2>2, <2>3
  <2>5. (l + (l % 2) * N) \div 2 \in Int
    BY <2>4
  <2>6. a_pow((l + (l % 2) * N) \div 2) \in Elements
    BY <2>5, PowElement
  <2> QED
    BY <2>6, OneElement
<1> HIDE DEF e
<1>4. ys \subseteq Elements /\ IsFiniteSet(ys) /\ Cardinality(ys) <= 4
  BY AffineType
<1> HIDE DEF ys, bz, dz, f, l
<1>5. Z \subseteq Elements
  BY <1>3, <1>4, FieldOps, PlusElement
<1>6. Cardinality(Z) <= 4
  <2> DEFINE g == [y \in ys |-> Plus(gf_inv(y), e)]
             I == {g[y] : y \in ys}
  <2>1. DOMAIN g = ys
    OBVIOUS
  <2>2. I = Z
    OBVIOUS
  <2> HIDE DEF g, Z
  <2>3. Cardinality(I) \in Nat /\ Cardinality(I) <= Cardinality(ys)
    BY <1>4, <2>1, ImageSize
  <2>4. Cardinality(ys) \in Nat
    BY <1>4, FS_CardinalityType
  <2> HIDE DEF I
  <2> QED
    BY <1>4, <2>2, <2>3, <2>4
<1> HIDE DEF Z
<1>7. Locations(Z) \in UpTo(4)
  BY <1>5, <1>6, LocationsType
<1>8. Locations(R) \in UpTo(4)
  BY AffineType, LocationsType
<1> QED
  BY <1>2, <1>7, <1>8, EmptyUpTo

-----------------------------------------------------------------------------
\* Polynomials of higher degree

\* One step of the long division, and its table.
Reduced(a, b, p, j) ==
  Poly(Deg(a), [i \in 0 .. Deg(a) |->
    IF i \in j - Deg(b) .. j - 1
      THEN Plus(Coef(p, i), gf_mul(Coef(p, j), gf_div(Coef(b, i - j + Deg(b)), Coef(b, Deg(b)))))
      ELSE Coef(p, i)])
Divisions(a, b) ==
  CHOOSE part : part = [n \in 0 .. Deg(a) - Deg(b) + 1 |->
    IF n = 0 THEN a ELSE Reduced(a, b, part[n-1], Deg(a) + 1 - n)]

LEMMA DividedTable ==
  ASSUME NEW a \in Polynomials, NEW b \in Polynomials, Deg(b) <= Deg(a)
  PROVE  LET n == Deg(a) - Deg(b) + 1
             t == Divisions(a, b)
         IN  /\ Divided(a, b) = t[n] /\ t[0] = a
             /\ \A i \in 1..n : t[i] = Reduced(a, b, t[i-1], Deg(a) + 1 - i)
             /\ \A i \in 0..n : t[i] \in OfDegree(Deg(a))
<1> DEFINE n == Deg(a) - Deg(b) + 1
           V == OfDegree(Deg(a))
           E(i, p) == Reduced(a, b, p, Deg(a) + 1 - i)
           Table(s) == s = [i \in 0..n |-> IF i = 0 THEN a ELSE E(i, s[i-1])]
           S == [i \in 0..n |-> V]
           step == [i \in 1..n |-> [p \in V |-> E(i, p)]]
           t == Divisions(a, b)
<1>1. n \in Nat /\ Deg(a) \in Nat
  BY PolynomialType
<1>2. a \in V
  BY DEF OfDegree
<1>3. \A i \in 1..n : \A p \in V : E(i, p) \in V
  <2> SUFFICES ASSUME NEW i \in 1..n, NEW p \in V PROVE E(i, p) \in V
    OBVIOUS
  <2> DEFINE j == Deg(a) + 1 - i
             c == [k \in 0 .. Deg(a) |->
                     IF k \in j - Deg(b) .. j - 1
                       THEN Plus(Coef(p, k), gf_mul(Coef(p, j), gf_div(Coef(b, k - j + Deg(b)), Coef(b, Deg(b)))))
                       ELSE Coef(p, k)]
  <2>1. p \in Polynomials
    BY DEF OfDegree
  <2>2. E(i, p) = Poly(Deg(a), c)
    BY DEF Reduced
  <2> HIDE DEF j
  <2>3. \A k \in 0 .. Deg(a) : c[k] \in Elements
    BY <2>1, CoefElement, FieldOps, PlusElement
  <2> HIDE DEF c
  <2>4. Poly(Deg(a), c) \in V
    BY <1>1, <2>3, PolyType DEF OfDegree
  <2> QED
    BY <2>2, <2>4
<1>4. Divided(a, b) = t[n]
  BY DEF Divided, Divisions, Reduced
<1> HIDE DEF n, E, V
<1>5. \A i \in 0..n : S[i] = V
  OBVIOUS
<1> HIDE DEF S
<1>6. \A i \in 1..n : step[i] \in [S[i-1] -> S[i]]
  BY <1>1, <1>3, <1>5
<1> HIDE DEF step
<1>7. a \in S[0]
  BY <1>1, <1>2, <1>5
<1>8. PICK s : Recursive(s, n, S, a, step)
  BY <1>1, <1>6, <1>7, Recursion
<1>9. \A i \in 1..n : step[i][s[i-1]] = E(i, s[i-1])
  <2> TAKE i \in 1..n
  <2>1. s[i-1] \in V
    BY <1>1, <1>5, <1>8 DEF Recursive
  <2> QED
    BY <2>1 DEF step
<1>10. Table(s)
  BY <1>1, <1>8, <1>9 DEF Recursive
<1>11. Table(t)
  BY <1>10 DEF Divisions, E, n
<1> HIDE DEF t
<1>12. t[0] = a /\ \A i \in 1..n : t[i] = E(i, t[i-1])
  BY <1>1, <1>11
<1> HIDE DEF Table
<1>13. \A i \in 1..n : t[i-1] \in S[i-1] => t[i] \in S[i]
  BY <1>1, <1>3, <1>5, <1>12
<1>14. \A i \in 0..n : t[i] \in S[i]
  BY <1>1, <1>7, <1>12, <1>13, Typed
<1>15. \A i \in 0..n : t[i] \in V
  BY <1>5, <1>14
<1> QED
  BY <1>4, <1>12, <1>15 DEF V, E, n, t

LEMMA DividedType ==
  ASSUME NEW a \in Polynomials, NEW b \in Polynomials, Deg(b) <= Deg(a)
  PROVE  Divided(a, b) \in OfDegree(Deg(a))
<1> DEFINE n == Deg(a) - Deg(b) + 1
           t == Divisions(a, b)
<1>1. n \in 0..n
  BY PolynomialType
<1>2. Divided(a, b) = t[n] /\ \A i \in 0..n : t[i] \in OfDegree(Deg(a))
  BY DividedTable
<1> HIDE DEF n, t
<1> QED
  BY <1>1, <1>2

\* A remainder has a degree below the divisor's, and a quotient what is left.
LEMMA ModType ==
  ASSUME NEW a \in Polynomials, NEW b \in Polynomials, Deg(b) >= 1
  PROVE  gf_poly_mod(a, b) \in Polynomials /\ Deg(gf_poly_mod(a, b)) < Deg(b)
<1> DEFINE q == Divided(a, b)
           r == SubSeq(q, 1, Deg(b))
<1>1. Deg(a) \in Nat /\ Deg(b) \in Nat
  BY PolynomialType
<1>2. CASE Deg(a) < Deg(b)
  BY <1>2 DEF gf_poly_mod
<1>3. CASE ~ (Deg(a) < Deg(b))
  <2>1. q \in Polynomials /\ Deg(q) = Deg(a)
    BY <1>1, <1>3, DividedType DEF OfDegree
  <2>2. gf_poly_mod(a, b) = Trimmed(r)
    BY <1>3 DEF gf_poly_mod
  <2> HIDE DEF q
  <2>3. \A i \in 1 .. Deg(b) : q[i] \in Elements
    <3>1. Len(q) = Deg(a) + 1 /\ \A i \in 1 .. Len(q) : q[i] \in Elements
      BY <2>1, PolynomialType
    <3> QED
      BY <1>1, <1>3, <3>1
  <2>4. r \in Seq(Elements) /\ Len(r) = Deg(b)
    BY <1>1, <2>3, SubSeqProperties
  <2> HIDE DEF r
  <2>5. r \in Polynomials /\ Deg(r) = Deg(b) - 1
    BY <1>1, <2>4, EmptySeq DEF Polynomials, Deg
  <2>6. Trimmed(r) \in Polynomials /\ Deg(Trimmed(r)) <= Deg(r)
    BY <2>5, TrimmedType
  <2>7. Deg(Trimmed(r)) \in Nat
    BY <2>6, PolynomialType
  <2> QED
    BY <1>1, <2>2, <2>5, <2>6, <2>7
<1> QED
  BY <1>2, <1>3

LEMMA DivType ==
  ASSUME NEW a \in Polynomials, NEW b \in Polynomials, Deg(b) <= Deg(a)
  PROVE  gf_poly_div(a, b) \in OfDegree(Deg(a) - Deg(b))
<1> DEFINE q == Divided(a, b)
           m == Deg(b) + 1
           n == Deg(a) + 1
           r == SubSeq(q, m, n)
<1>1. Deg(a) \in Nat /\ Deg(b) \in Nat
  BY PolynomialType
<1>2. q \in Polynomials /\ Deg(q) = Deg(a)
  BY DividedType DEF OfDegree
<1>3. gf_poly_div(a, b) = r
  BY DEF gf_poly_div
<1> HIDE DEF q
<1>4. m \in Nat /\ n \in Nat /\ m <= n /\ m >= 1 /\ n - m = Deg(a) - Deg(b) /\ n = Len(q)
  BY <1>1, <1>2, PolynomialType
<1> HIDE DEF m, n
<1>5. \A i \in m..n : q[i] \in Elements
  BY <1>2, <1>4, PolynomialType
<1>6. r \in Seq(Elements) /\ Len(r) = n - m + 1
  BY <1>4, <1>5, SubSeqProperties
<1> HIDE DEF r
<1>7. r \in Polynomials /\ Deg(r) = n - m
  BY <1>4, <1>6, EmptySeq DEF Polynomials, Deg
<1> QED
  BY <1>3, <1>4, <1>7 DEF OfDegree

NextPair(q) == IF Deg(q[2]) = 0 THEN q ELSE <<q[2], gf_poly_mod(q[1], q[2])>>
Dividends(hi, lo) ==
  CHOOSE pair : pair = [n \in 0 .. Deg(lo) |->
    IF n = 0 THEN <<hi, lo>> ELSE NextPair(pair[n-1])]

LEMMA GcdTable ==
  ASSUME NEW a \in Polynomials, NEW b \in Polynomials
  PROVE  LET hi == IF Deg(a) < Deg(b) THEN b ELSE a
             lo == IF Deg(a) < Deg(b) THEN a ELSE b
             n  == Deg(lo)
             t  == Dividends(hi, lo)
         IN  /\ gf_poly_gcd(a, b) = t[n][1] /\ t[0] = <<hi, lo>>
             /\ \A i \in 1..n : t[i] = NextPair(t[i-1])
             /\ \A i \in 0..n : t[i] \in Polynomials \X Polynomials
<1> DEFINE hi == IF Deg(a) < Deg(b) THEN b ELSE a
           lo == IF Deg(a) < Deg(b) THEN a ELSE b
           n == Deg(lo)
           first == <<hi, lo>>
           V == Polynomials \X Polynomials
           E(q) == NextPair(q)
           Table(s) == s = [i \in 0..n |-> IF i = 0 THEN first ELSE E(s[i-1])]
           S == [i \in 0..n |-> V]
           step == [i \in 1..n |-> [q \in V |-> E(q)]]
           t == Dividends(hi, lo)
<1>1. gf_poly_gcd(a, b) = t[n][1]
  BY DEF gf_poly_gcd, Dividends, NextPair
<1>2. hi \in Polynomials /\ lo \in Polynomials
  OBVIOUS
<1> HIDE DEF hi, lo
<1>3. n \in Nat
  BY <1>2, PolynomialType
<1>4. first \in V
  BY <1>2
<1>5. \A q \in V : E(q) \in V
  <2> SUFFICES ASSUME NEW q \in V PROVE E(q) \in V
    OBVIOUS
  <2>1. q[1] \in Polynomials /\ q[2] \in Polynomials
    OBVIOUS
  <2>2. CASE Deg(q[2]) = 0
    BY <2>2 DEF NextPair
  <2>3. CASE Deg(q[2]) # 0
    <3>1. Deg(q[2]) >= 1
      BY SMTT(30), <2>1, <2>3, PolynomialType
    <3>2. gf_poly_mod(q[1], q[2]) \in Polynomials
      BY <2>1, <3>1, ModType
    <3> QED
      BY <2>1, <2>3, <3>2 DEF NextPair
  <2> QED
    BY <2>2, <2>3
<1> HIDE DEF n, E, V, first
<1>6. \A i \in 0..n : S[i] = V
  OBVIOUS
<1> HIDE DEF S
<1>7. \A i \in 1..n : step[i] \in [S[i-1] -> S[i]]
  BY <1>3, <1>5, <1>6
<1> HIDE DEF step
<1>8. first \in S[0]
  BY <1>3, <1>4, <1>6
<1>9. PICK s : Recursive(s, n, S, first, step)
  BY <1>3, <1>7, <1>8, Recursion
<1>10. \A i \in 1..n : step[i][s[i-1]] = E(s[i-1])
  <2> TAKE i \in 1..n
  <2>1. s[i-1] \in V
    BY <1>3, <1>6, <1>9 DEF Recursive
  <2> QED
    BY <2>1 DEF step
<1>11. Table(s)
  BY <1>3, <1>9, <1>10 DEF Recursive
<1>12. Table(t)
  BY <1>11 DEF Dividends, E, n, first
<1> HIDE DEF t
<1>13. t[0] = first /\ \A i \in 1..n : t[i] = E(t[i-1])
  BY <1>3, <1>12
<1> HIDE DEF Table
<1>14. \A i \in 1..n : t[i-1] \in S[i-1] => t[i] \in S[i]
  BY <1>3, <1>5, <1>6, <1>13
<1>15. \A i \in 0..n : t[i] \in S[i]
  BY <1>3, <1>8, <1>13, <1>14, Typed
<1>16. \A i \in 0..n : t[i] \in V
  BY <1>6, <1>15
<1> QED
  BY <1>1, <1>13, <1>16 DEF V, E, first, n, t, hi, lo

LEMMA GcdType ==
  ASSUME NEW a \in Polynomials, NEW b \in Polynomials
  PROVE  gf_poly_gcd(a, b) \in Polynomials
<1> DEFINE hi == IF Deg(a) < Deg(b) THEN b ELSE a
           lo == IF Deg(a) < Deg(b) THEN a ELSE b
           n  == Deg(lo)
           t  == Dividends(hi, lo)
<1>1. gf_poly_gcd(a, b) = t[n][1] /\ \A i \in 0..n : t[i] \in Polynomials \X Polynomials
  BY GcdTable
<1>2. lo \in Polynomials
  OBVIOUS
<1> HIDE DEF lo
<1>3. n \in 0..n
  BY <1>2, PolynomialType
<1> HIDE DEF n, t
<1>4. t[n] \in Polynomials \X Polynomials
  BY <1>1, <1>3
<1> QED
  BY <1>1, <1>4

\* The conjugates of a^k X modulo f, and their sum.
Squared(z, f) ==
  gf_poly_mod(Poly(2 * Deg(z), [j \in 0 .. 2 * Deg(z) |->
                IF j % 2 = 0 THEN gf_sqr(Coef(z, j \div 2)) ELSE Zero]), f)
Added(p, q) ==
  LET top == IF Deg(p) > Deg(q) THEN Deg(p) ELSE Deg(q)
  IN  Poly(top, [j \in 0..top |-> Plus(Coef(p, j), Coef(q, j))])
Sums(k, f) ==
  CHOOSE sum : sum = [i \in 0..M |->
    IF i = 0 THEN [z |-> <<Zero, a_pow_tab[k]>>, out |-> Constant(Zero)]
    ELSE LET s == sum[i-1] IN [z |-> Squared(s.z, f), out |-> Added(s.out, s.z)]]

LEMMA SquaredType ==
  ASSUME NEW z \in Polynomials, NEW f \in Polynomials, Deg(f) >= 1
  PROVE  Squared(z, f) \in Polynomials
<1> DEFINE d == 2 * Deg(z)
           c == [j \in 0..d |-> IF j % 2 = 0 THEN gf_sqr(Coef(z, j \div 2)) ELSE Zero]
<1>1. d \in Nat
  BY PolynomialType
<1>2. \A j \in 0..d : c[j] \in Elements
  BY CoefElement, FieldOps, OneElement
<1>3. Squared(z, f) = gf_poly_mod(Poly(d, c), f)
  BY DEF Squared
<1> HIDE DEF d, c
<1>4. Poly(d, c) \in Polynomials
  BY <1>1, <1>2, PolyType
<1> QED
  BY <1>3, <1>4, ModType

LEMMA AddedType ==
  ASSUME NEW p \in Polynomials, NEW q \in Polynomials
  PROVE  Added(p, q) \in Polynomials
<1> DEFINE d == IF Deg(p) > Deg(q) THEN Deg(p) ELSE Deg(q)
           c == [j \in 0..d |-> Plus(Coef(p, j), Coef(q, j))]
<1>1. d \in Nat
  BY PolynomialType
<1>2. \A j \in 0..d : c[j] \in Elements
  BY CoefElement, PlusElement
<1>3. Added(p, q) = Poly(d, c)
  BY DEF Added
<1> HIDE DEF d, c
<1> QED
  BY <1>1, <1>2, <1>3, PolyType

LEMMA TraceTable ==
  ASSUME NEW k \in 0..N, NEW f \in Polynomials, Deg(f) >= 1
  PROVE  LET t == Sums(k, f)
         IN  /\ compute_trace_bk_mod(k, f) = Trimmed(t[M].out)
             /\ t[0] = [z |-> <<Zero, a_pow_tab[k]>>, out |-> Constant(Zero)]
             /\ \A i \in 1..M : t[i] = [z   |-> Squared(t[i-1].z, f),
                                       out |-> Added(t[i-1].out, t[i-1].z)]
             /\ \A i \in 0..M : t[i] \in [z : Polynomials, out : Polynomials]
<1> DEFINE first == [z |-> <<Zero, a_pow_tab[k]>>, out |-> Constant(Zero)]
           V == [z : Polynomials, out : Polynomials]
           E(s) == [z |-> Squared(s.z, f), out |-> Added(s.out, s.z)]
           Table(s) == s = [i \in 0..M |-> IF i = 0 THEN first ELSE E(s[i-1])]
           S == [i \in 0..M |-> V]
           step == [i \in 1..M |-> [q \in V |-> E(q)]]
           t == Sums(k, f)
<1>1. compute_trace_bk_mod(k, f) = Trimmed(t[M].out)
  BY DEF compute_trace_bk_mod, Sums, Squared, Added
<1>2. M \in Nat
  BY Sizes
<1>3. first \in V
  <2>1. a_pow_tab[k] \in Elements /\ Zero \in Elements
    BY PowerStep, OneElement
  <2>2. <<Zero, a_pow_tab[k]>> \in Polynomials
    BY <2>1 DEF Polynomials
  <2>3. Constant(Zero) \in Polynomials
    BY <2>1, ConstantType
  <2> QED
    BY <2>2, <2>3
<1>4. \A s \in V : E(s) \in V
  <2> SUFFICES ASSUME NEW s \in V PROVE E(s) \in V
    OBVIOUS
  <2>1. s.z \in Polynomials /\ s.out \in Polynomials
    OBVIOUS
  <2>2. Squared(s.z, f) \in Polynomials /\ Added(s.out, s.z) \in Polynomials
    BY <2>1, SquaredType, AddedType
  <2> QED
    BY <2>2
<1> HIDE DEF first, E
<1>5. \A i \in 0..M : S[i] = V
  OBVIOUS
<1> HIDE DEF S, V
<1>6. \A i \in 1..M : step[i] \in [S[i-1] -> S[i]]
  BY <1>2, <1>4, <1>5
<1> HIDE DEF step
<1>7. first \in S[0]
  BY <1>2, <1>3, <1>5
<1>8. PICK s : Recursive(s, M, S, first, step)
  BY <1>2, <1>6, <1>7, Recursion
<1>9. \A i \in 1..M : step[i][s[i-1]] = E(s[i-1])
  <2> TAKE i \in 1..M
  <2>1. s[i-1] \in V
    BY <1>2, <1>5, <1>8 DEF Recursive
  <2> QED
    BY <2>1 DEF step
<1>10. Table(s)
  BY <1>2, <1>8, <1>9 DEF Recursive
<1>11. Table(t)
  BY <1>10 DEF Sums, E, first
<1> HIDE DEF t
<1>12. t[0] = first /\ \A i \in 1..M : t[i] = E(t[i-1])
  BY <1>2, <1>11
<1> HIDE DEF Table
<1>13. \A i \in 1..M : t[i-1] \in S[i-1] => t[i] \in S[i]
  BY <1>2, <1>4, <1>5, <1>12
<1>14. \A i \in 0..M : t[i] \in S[i]
  BY <1>2, <1>7, <1>12, <1>13, Typed
<1>15. \A i \in 0..M : t[i] \in V
  BY <1>5, <1>14
<1> QED
  BY <1>1, <1>12, <1>15 DEF V, E, first, t

LEMMA TraceType ==
  ASSUME NEW k \in 0..N, NEW f \in Polynomials, Deg(f) >= 1
  PROVE  compute_trace_bk_mod(k, f) \in Polynomials
<1> DEFINE t == Sums(k, f)
<1>1. /\ compute_trace_bk_mod(k, f) = Trimmed(t[M].out)
      /\ \A i \in 0..M : t[i] \in [z : Polynomials, out : Polynomials]
  BY TraceTable
<1>2. M \in 0..M
  BY Sizes
<1> HIDE DEF t
<1>3. t[M].out \in Polynomials
  BY <1>1, <1>2
<1> QED
  BY <1>1, <1>3, TrimmedType

LEMMA FactorType ==
  ASSUME NEW k \in 0..N, NEW f \in Polynomials, Deg(f) >= 1
  PROVE  LET fs == factor_polynomial(k, f)
         IN  \/ fs = <<f>>
             \/ /\ Len(fs) = 2 /\ fs[1] \in Polynomials /\ fs[2] \in Polynomials
                /\ Deg(fs[1]) + Deg(fs[2]) = Deg(f)
<1> DEFINE tk == compute_trace_bk_mod(k, f)
           g == gf_poly_gcd(f, tk)
           h == gf_poly_div(f, g)
<1>1. factor_polynomial(k, f) = IF Deg(tk) > 0 /\ Deg(g) < Deg(f) THEN <<g, h>> ELSE <<f>>
  BY DEF factor_polynomial
<1>2. g \in Polynomials
  BY TraceType, GcdType
<1> HIDE DEF tk, g
<1>3. Deg(g) \in Nat /\ Deg(f) \in Nat
  BY <1>2, PolynomialType
<1>4. Deg(g) < Deg(f) => h \in Polynomials /\ Deg(h) = Deg(f) - Deg(g)
  BY <1>2, <1>3, DivType DEF OfDegree
<1> HIDE DEF h
<1> QED
  BY <1>1, <1>2, <1>3, <1>4

\* What finds no more roots than the degree.
Bounded == {h \in [Polynomials -> Seq(Logs)] : \A q \in Polynomials : Len(h[q]) <= Deg(q)}

LEMMA FoundDirectly ==
  ASSUME NEW n, NEW h, NEW q \in Polynomials, Deg(q) <= 4 \/ n = 0
  PROVE  Found(n, h, q) \in UpTo(Deg(q)) /\ \A g : Found(n, g, q) = Found(n, h, q)
<1>1. Deg(q) \in Nat
  BY PolynomialType
<1>2. CASE Deg(q) = 0
  BY <1>2, EmptyUpTo DEF Found
<1>3. CASE Deg(q) = 1
  BY <1>3, Deg1Type DEF Found
<1>4. CASE Deg(q) = 2
  BY <1>4, Deg2Type DEF Found
<1>5. CASE Deg(q) = 3
  BY <1>5, Deg3Type DEF Found
<1>6. CASE Deg(q) = 4
  BY <1>6, Deg4Type DEF Found
<1>7. CASE Deg(q) > 4
  BY <1>1, <1>7, EmptyUpTo DEF Found
<1> QED
  BY <1>1, <1>2, <1>3, <1>4, <1>5, <1>6, <1>7

LEMMA FoundType ==
  ASSUME NEW n \in 1..M, NEW h \in Bounded, NEW q \in Polynomials
  PROVE  Found(n, h, q) \in UpTo(Deg(q))
<1>1. CASE Deg(q) <= 4
  BY <1>1, FoundDirectly
<1>2. CASE ~ (Deg(q) <= 4)
  <2> DEFINE k == M + 1 - n
             fs == factor_polynomial(k, q)
             r1 == h[fs[1]]
             r2 == IF Len(fs) = 2 THEN h[fs[2]] ELSE <<>>
  <2>1. Deg(q) \in Nat /\ M \in Nat /\ N \in Nat /\ N > M
    BY PolynomialType, Sizes
  <2>2. Found(n, h, q) = r1 \o r2
    <3>1. /\ Deg(q) # 1 /\ Deg(q) # 2 /\ Deg(q) # 3 /\ Deg(q) # 4
          /\ ~ (Deg(q) = 0 \/ (Deg(q) > 4 /\ n = 0))
      BY <1>2, <2>1
    <3> QED
      BY <3>1, Zenon DEF Found
  <2>3. k \in 0..N /\ Deg(q) >= 1
    BY <1>2, <2>1
  <2> HIDE DEF k
  <2>4. \/ fs = <<q>>
        \/ /\ Len(fs) = 2 /\ fs[1] \in Polynomials /\ fs[2] \in Polynomials
           /\ Deg(fs[1]) + Deg(fs[2]) = Deg(q)
    BY <2>3, FactorType
  <2> HIDE DEF fs
  <2>5. \A p \in Polynomials : h[p] \in Seq(Logs) /\ Len(h[p]) <= Deg(p) /\ Deg(p) \in Nat
    BY PolynomialType DEF Bounded
  <2>6. \A p \in Polynomials : Len(h[p]) \in Nat
    BY <2>5, LenProperties
  <2>7. /\ r1 \in Seq(Logs) /\ r2 \in Seq(Logs)
        /\ Len(r1) \in Nat /\ Len(r2) \in Nat /\ Len(r1) + Len(r2) <= Deg(q)
    <3>1. CASE fs = <<q>>
      <4>1. Len(fs) # 2 /\ fs[1] = q
        BY <3>1
      <4>2. r2 = <<>> /\ r1 = h[q]
        BY <4>1
      <4>3. Len(<<>>) = 0 /\ <<>> \in Seq(Logs)
        BY EmptySeq
      <4> HIDE DEF r1, r2
      <4> QED
        BY <2>1, <2>5, <2>6, <4>2, <4>3
    <3>2. CASE /\ Len(fs) = 2 /\ fs[1] \in Polynomials /\ fs[2] \in Polynomials
               /\ Deg(fs[1]) + Deg(fs[2]) = Deg(q)
      <4>1. r1 = h[fs[1]] /\ r2 = h[fs[2]]
        BY <3>2
      <4> DEFINE p1 == fs[1]
                 p2 == fs[2]
                 l1 == Len(r1)
                 l2 == Len(r2)
      <4>2. p1 \in Polynomials /\ p2 \in Polynomials /\ Deg(p1) + Deg(p2) = Deg(q)
        BY <3>2
      <4>3. r1 = h[p1] /\ r2 = h[p2]
        BY <4>1
      <4> HIDE DEF r1, r2, p1, p2
      <4>4. r1 \in Seq(Logs) /\ l1 \in Nat /\ l1 <= Deg(p1) /\ Deg(p1) \in Nat
        BY <2>5, <2>6, <4>2, <4>3
      <4>5. r2 \in Seq(Logs) /\ l2 \in Nat /\ l2 <= Deg(p2) /\ Deg(p2) \in Nat
        BY <2>5, <2>6, <4>2, <4>3
      <4>6. l1 + l2 <= Deg(q)
        <5> HIDE DEF l1, l2
        <5> QED
          BY <2>1, <4>2, <4>4, <4>5
      <4> QED
        BY <4>4, <4>5, <4>6
    <3> QED
      BY <2>4, <3>1, <3>2
  <2> HIDE DEF r1, r2
  <2>8. r1 \o r2 \in Seq(Logs) /\ Len(r1 \o r2) = Len(r1) + Len(r2)
    BY <2>7, ConcatProperties
  <2> QED
    BY <2>2, <2>7, <2>8 DEF UpTo
<1> QED
  BY <1>1, <1>2

LEMMA RootsTable ==
  \A n \in 0..M : /\ Roots[n] \in Bounded
                  /\ \A q \in Polynomials : Roots[n][q] = Found(n, Roots[n-1], q)
<1> DEFINE none == [q \in Polynomials |-> <<>>]
           E(n, h) == [q \in Polynomials |-> Found(n, h, q)]
           Table(s) == s = [n \in 0..M |-> E(n, s[n-1])]
           S == [n \in 0..M |-> Bounded]
           step == [n \in 1..M |-> [h \in Bounded |-> E(n, h)]]
           t == Roots
<1>1. M \in Nat
  BY Sizes
<1>2. \A n, h : (\A q \in Polynomials : Found(n, h, q) \in UpTo(Deg(q))) => E(n, h) \in Bounded
  BY DEF Bounded, UpTo
<1>3. E(0, none) \in Bounded /\ \A h : E(0, h) = E(0, none)
  <2> HIDE DEF none
  <2>1. \A q \in Polynomials : /\ Found(0, none, q) \in UpTo(Deg(q))
                               /\ \A h : Found(0, h, q) = Found(0, none, q)
    BY FoundDirectly
  <2>2. \A h : E(0, h) = E(0, none)
    BY <2>1
  <2> QED
    BY <1>2, <2>1, <2>2
<1>4. \A n \in 1..M : \A h \in Bounded : E(n, h) \in Bounded
  BY <1>2, FoundType
<1> HIDE DEF E, none
<1>6. \A n \in 0..M : S[n] = Bounded
  OBVIOUS
<1> HIDE DEF S
<1>7. \A n \in 1..M : step[n] \in [S[n-1] -> S[n]]
  BY <1>1, <1>4, <1>6
<1> HIDE DEF step
<1>8. E(0, none) \in S[0]
  BY <1>1, <1>3, <1>6
<1>9. PICK s : Recursive(s, M, S, E(0, none), step)
  BY <1>1, <1>7, <1>8, Recursion
<1>10. \A n \in 1..M : step[n][s[n-1]] = E(n, s[n-1])
  <2> TAKE n \in 1..M
  <2>1. s[n-1] \in Bounded
    BY <1>1, <1>6, <1>9 DEF Recursive
  <2> QED
    BY <2>1 DEF step
<1>11. Table(s)
  <2>1. \A n \in 0..M : (IF n = 0 THEN E(0, none) ELSE step[n][s[n-1]]) = E(n, s[n-1])
    BY <1>1, <1>3, <1>10
  <2> QED
    BY <1>9, <2>1 DEF Recursive
<1>12. Table(t)
  BY <1>11 DEF Roots, E
<1> HIDE DEF t
<1>13. \A n \in 0..M : t[n] = E(n, t[n-1])
  BY <1>12
<1> HIDE DEF Table
<1>14. t[0] \in S[0]
  BY <1>1, <1>3, <1>6, <1>13
<1>15. \A n \in 1..M : t[n-1] \in S[n-1] => t[n] \in S[n]
  BY <1>1, <1>4, <1>6, <1>13
<1>16. \A n \in 0..M : t[n] \in S[n]
  BY <1>1, <1>14, <1>15, Typed
<1>17. \A n \in 0..M : t[n] \in Bounded
  BY <1>6, <1>16
<1>18. \A n \in 0..M : \A q \in Polynomials : t[n][q] = Found(n, t[n-1], q)
  BY <1>13 DEF E
<1> QED
  BY <1>17, <1>18 DEF t

\* find_poly_roots writes no more roots than the degree of its polynomial, so
\* that bch_decode stays within errloc.
LEMMA RootsType ==
  ASSUME NEW p \in Polynomials
  PROVE  find_poly_roots(p) \in UpTo(Deg(p))
<1> DEFINE t == Roots[M]
<1>1. M \in 0..M
  BY Sizes
<1>2. t \in Bounded
  BY <1>1, RootsTable
<1> HIDE DEF t
<1>3. t[p] \in Seq(Logs) /\ Len(t[p]) <= Deg(p)
  BY <1>2 DEF Bounded
<1> QED
  BY <1>3 DEF find_poly_roots, t, UpTo

-----------------------------------------------------------------------------
\* The decoder

LEMMA ReversedType ==
  ASSUME NEW p \in Nat
  PROVE  BitReversed(p) \in Nat
<1> DEFINE q == p \div 8
           r == p % 8
<1>1. r \in 0..7 /\ q \in Nat /\ p = 8 * q + r
  OBVIOUS
<1>2. BitReversed(p) = p - r + (7 - r)
  BY DEF BitReversed
<1> HIDE DEF q, r
<1> QED
  BY <1>1, <1>2

\* bch_decode returns at most T locations, refused words included.
LEMMA DecodeType ==
  ASSUME NEW data, NEW recv_ecc \in Below(ecc_bits)
  PROVE  LET res == bch_decode(data, recv_ecc)
         IN  /\ res.nerr \in -1 .. T
             /\ res.errloc \in Seq(Nat) /\ Len(res.errloc) \in 0..T
<1> DEFINE ecc   == Plus(bch_encode(data), recv_ecc)
           syn   == compute_syndromes(ecc)
           elp   == compute_error_locator_polynomial(syn)
           roots == find_poly_roots(elp)
           locs  == [j \in DOMAIN roots |-> Placed(roots, j)]
           out   == \E j \in DOMAIN roots : roots[j] >= nbits
           res   == bch_decode(data, recv_ecc)
           Legal(r) == /\ r.nerr \in -1 .. T
                       /\ r.errloc \in Seq(Nat) /\ Len(r.errloc) \in 0..T
<1>1. res = IF 8 * Bytes > N - ecc_bits THEN Refused(<<>>)
            ELSE IF ecc = Zero THEN [nerr |-> 0, errloc |-> <<>>]
            ELSE IF TooMany(elp) THEN Refused(<<>>)
            ELSE IF Len(roots) # Deg(elp) THEN Refused(roots)
            ELSE [nerr |-> IF out THEN -1 ELSE Len(roots), errloc |-> locs]
  BY DEF bch_decode, Sought, Located, Refused
<1>2. T \in Nat /\ N \in Nat /\ nbits \in Int
  BY Sizes, GeneratorReducing DEF Reducing, nbits
<1>3. ecc \subseteq Int
  <2>1. ecc_bits \in Nat
    BY GeneratorReducing DEF Reducing
  <2>2. bch_encode(data) \subseteq 0 .. ecc_bits - 1 /\ recv_ecc \subseteq 0 .. ecc_bits - 1
    BY EncodeType DEF Below
  <2>3. 0 .. ecc_bits - 1 \subseteq Int
    BY <2>1
  <2>4. bch_encode(data) \subseteq Int /\ recv_ecc \subseteq Int
    BY <2>2, <2>3
  <2> QED
    BY <2>4, Zenon DEF Plus
<1> HIDE DEF ecc
<1>4. \A j \in 1 .. 2 * T : syn[j] \in Elements
  BY <1>3, SyndromeType
<1> HIDE DEF syn
<1>5. elp \in Polynomials
  BY <1>4, RoundsType
<1> HIDE DEF elp
<1>6. roots \in Seq(Logs) /\ Len(roots) <= Deg(elp)
  BY <1>5, RootsType DEF UpTo
<1> HIDE DEF roots
<1>7. Len(roots) \in Nat /\ DOMAIN roots = 1 .. Len(roots) /\ \A j \in DOMAIN roots : roots[j] \in Nat
  BY <1>2, <1>6, LenProperties DEF Logs
<1>8. Legal(Refused(<<>>)) /\ Legal([nerr |-> 0, errloc |-> <<>>])
  <2>1. <<>> \in Seq(Nat) /\ Len(<<>>) = 0
    BY EmptySeq
  <2> QED
    BY <1>2, <2>1 DEF Refused
<1>9. ~ TooMany(elp) => Len(roots) \in 0..T
  BY <1>2, <1>5, <1>6, <1>7, PolynomialType DEF TooMany
<1>10. ~ TooMany(elp) => Legal(Refused(roots))
  <2>1. roots \in Seq(Nat)
    BY <1>2, <1>6, SeqMonotonic DEF Logs
  <2> QED
    BY <1>2, <1>9, <2>1 DEF Refused
<1>11. ~ TooMany(elp) => Legal([nerr |-> IF out THEN -1 ELSE Len(roots), errloc |-> locs])
  <2>1. \A j \in DOMAIN roots : Placed(roots, j) \in Nat
    <3> TAKE j \in DOMAIN roots
    <3>1. j \in 1..j
      BY <1>7
    <3>2. ~ (\E k \in 1..j : roots[k] >= nbits) => nbits - 1 - roots[j] \in Nat
      BY <1>2, <1>7, <3>1
    <3> QED
      BY <1>7, <3>2, ReversedType DEF Placed
  <2>2. locs \in Seq(Nat) /\ Len(locs) = Len(roots)
    <3> DEFINE n == Len(roots)
    <3>1. locs \in [1..n -> Nat] /\ n \in Nat
      BY <1>7, <2>1
    <3> HIDE DEF locs, n
    <3>2. locs \in Seq(Nat) /\ Len(locs) = n
      BY <3>1
    <3> QED
      BY <3>2 DEF n
  <2> HIDE DEF locs, out
  <2> QED
    BY <1>2, <1>9, <2>2
<1> HIDE DEF Legal, locs, out
<1>12. Legal(res)
  BY <1>1, <1>8, <1>10, <1>11
<1> QED
  BY <1>12 DEF Legal

-----------------------------------------------------------------------------
\* The values of a sum, and of the square of a polynomial

\* The same with a name for the function on the right.
LEMMA ScaledSumTo ==
  ASSUME NEW S, IsFiniteSet(S), NEW h, \A x \in S : h[x] \in Elements, NEW c \in Elements,
         NEW g, \A x \in S : g[x] = gf_mul(c, h[x])
  PROVE  gf_mul(c, SumOf(S, h)) = SumOf(S, g)
<1> DEFINE f == [x \in S |-> gf_mul(c, h[x])]
<1>1. \A x \in S : g[x] = f[x]
  OBVIOUS
<1>2. gf_mul(c, SumOf(S, h)) = SumOf(S, f)
  BY ScaledSum
<1> HIDE DEF f
<1>3. SumOf(S, g) = SumOf(S, f)
  BY <1>1, SumSame
<1> QED
  BY <1>2, <1>3

LEMMA SumLinearTo ==
  ASSUME NEW S, IsFiniteSet(S), NEW d, NEW h, \A x \in S : h[x] \in Below(d),
         NEW L, Linear(L, d), NEW g, \A x \in S : g[x] = L[h[x]]
  PROVE  L[SumOf(S, h)] = SumOf(S, g)
<1> DEFINE f == [x \in S |-> L[h[x]]]
<1>1. \A x \in S : g[x] = f[x]
  OBVIOUS
<1>2. L[SumOf(S, h)] = SumOf(S, f)
  BY SumLinear
<1> HIDE DEF f
<1>3. SumOf(S, g) = SumOf(S, f)
  BY <1>1, SumSame
<1> QED
  BY <1>2, <1>3

\* The polynomials over GF(2).
Binary(v) == IsFiniteSet(v) /\ v \subseteq Nat

LEMMA BelowFinite ==
  ASSUME NEW d \in Nat, NEW v \in Below(d)
  PROVE  Binary(v) /\ Cardinality(v) \in Nat
<1>1. IsFiniteSet(0 .. d-1)
  BY FS_Interval
<1>2. v \in SUBSET (0 .. d-1)
  BY DEF Below
<1>3. IsFiniteSet(v)
  BY <1>1, <1>2, FS_Subset
<1>4. v \subseteq Nat
  BY <1>2
<1> QED
  BY <1>3, <1>4, FS_CardinalityType DEF Binary

LEMMA ValueElement ==
  ASSUME NEW v, Binary(v), NEW r \in Nat
  PROVE  Value(v, r) \in Elements
<1> DEFINE h == [i \in Nat |-> a_pow(r * i)]
<1>1. \A i \in v : h[i] \in Below(M)
  <2> TAKE i \in v
  <2>1. i \in Nat /\ r * i \in Nat
    BY DEF Binary
  <2> QED
    BY <2>1, PowUnit, PrimReducing
<1> HIDE DEF h
<1>2. SumOf(v, h) \in Below(M)
  BY <1>1, SumBelow
<1> QED
  BY <1>2, PrimReducing DEF Value, h

LEMMA ValuePlus ==
  ASSUME NEW u, Binary(u), NEW v, Binary(v), NEW r
  PROVE  Value(Plus(u, v), r) = Plus(Value(u, r), Value(v, r)) /\ Binary(Plus(u, v))
<1>1. IsFiniteSet(u) /\ IsFiniteSet(v)
  BY DEF Binary
<1>2. Plus(u, v) \subseteq Nat
  BY DEF Binary, Plus
<1>3. IsFiniteSet(Plus(u, v))
  BY <1>1, OddPlus
<1> QED
  BY <1>1, <1>2, <1>3, SumOver DEF Value, Binary

LEMMA ValueTerm ==
  ASSUME NEW i \in Nat, NEW r
  PROVE  Value({i}, r) = a_pow(r * i)
<1> DEFINE h == [j \in Nat |-> a_pow(r * j)]
<1>1. h[i] = a_pow(r * i)
  OBVIOUS
<1> HIDE DEF h
<1>2. SumOf({i}, h) = h[i]
  BY SumOne
<1> QED
  BY <1>1, <1>2 DEF Value, h

\* Multiplied by X^k.
LEMMA ValueMoved ==
  ASSUME NEW v, Binary(v), NEW k \in Nat, NEW r \in Nat
  PROVE  /\ Value({j + k : j \in v}, r) = gf_mul(a_pow(r * k), Value(v, r))
         /\ Binary({j + k : j \in v})
<1> DEFINE m == [j \in v |-> j + k]
           h == [i \in Nat |-> a_pow(r * i)]
           g == [j \in v |-> h[m[j]]]
           f == [j \in v |-> gf_mul(a_pow(r * k), h[j])]
           w == {m[j] : j \in v}
<1>0. IsFiniteSet(v)
  BY DEF Binary
<1>1. w = {j + k : j \in v}
  OBVIOUS
<1>2. \A x \in v : \A y \in v : m[x] = m[y] => x = y
  BY DEF Binary
<1>3. \A j \in v : g[j] = f[j] /\ h[j] \in Elements
  <2> TAKE j \in v
  <2>1. /\ j \in Nat /\ j + k \in Nat /\ r * j \in Nat /\ r * k \in Nat
        /\ r * (j + k) = r * k + r * j
    BY DEF Binary
  <2>2. gf_mul(a_pow(r * k), a_pow(r * j)) = a_pow(r * (j + k))
    BY <2>1, PowAdd
  <2>3. h[j] = a_pow(r * j) /\ h[m[j]] = a_pow(r * (j + k))
    BY <2>1
  <2> QED
    BY <2>1, <2>2, <2>3, PowUnit
<1> HIDE DEF m, h
<1>4. IsFiniteSet(w) /\ SumOf(w, h) = SumOf(v, g)
  <2>1. \A j \in v : g[j] = h[m[j]]
    OBVIOUS
  <2>2. w = {m[x] : x \in v}
    OBVIOUS
  <2> HIDE DEF g, w
  <2> QED
    BY <1>0, <1>2, <2>1, <2>2, SumMapped
<1>5. SumOf(v, g) = SumOf(v, f)
  <2> HIDE DEF f, g
  <2> QED
    BY <1>3, SumSame
<1>6. a_pow(r * k) \in Elements
  BY PowUnit, r * k \in Nat
<1>7. gf_mul(a_pow(r * k), SumOf(v, h)) = SumOf(v, f)
  <2> DEFINE c == a_pow(r * k)
  <2>1. c \in Elements
    BY <1>6
  <2>2. \A x \in v : f[x] = gf_mul(c, h[x])
    OBVIOUS
  <2>3. \A j \in v : h[j] \in Elements
    BY <1>3
  <2> HIDE DEF c, f, g, w
  <2>4. gf_mul(c, SumOf(v, h)) = SumOf(v, f)
    BY <1>0, <2>1, <2>2, <2>3, ScaledSumTo
  <2> QED
    BY <2>4 DEF c
<1>8. Binary(w)
  BY <1>1, <1>4 DEF Binary
<1> QED
  BY <1>1, <1>4, <1>5, <1>7, <1>8 DEF Value, h

\* Squaring maps each term to the one at the square.
LEMMA SquarePlus ==
  ASSUME NEW a \in Elements, NEW b \in Elements
  PROVE  gf_sqr(Plus(a, b)) = Plus(gf_sqr(a), gf_sqr(b))
<1>1. Plus(a, b) \in Elements /\ gf_mul(a, b) \in Elements
  BY PlusElement, FieldOps
<1>2. /\ gf_sqr(Plus(a, b)) = gf_mul(Plus(a, b), Plus(a, b))
      /\ gf_sqr(a) = gf_mul(a, a) /\ gf_sqr(b) = gf_mul(b, b)
  BY <1>1, SquareIsMul
<1>3. gf_mul(Plus(a, b), Plus(a, b)) = Plus(gf_mul(Plus(a, b), a), gf_mul(Plus(a, b), b))
  BY <1>1, MulDistributes
<1>4. gf_mul(Plus(a, b), a) = gf_mul(a, Plus(a, b)) /\ gf_mul(Plus(a, b), b) = gf_mul(b, Plus(a, b))
  BY <1>1, MulCommutes
<1>5. /\ gf_mul(a, Plus(a, b)) = Plus(gf_mul(a, a), gf_mul(a, b))
      /\ gf_mul(b, Plus(a, b)) = Plus(gf_mul(b, a), gf_mul(b, b))
  BY MulDistributes
<1>6. gf_mul(b, a) = gf_mul(a, b)
  BY MulCommutes
<1>7. \A x, y, z : Plus(Plus(x, z), Plus(z, y)) = Plus(x, y)
  BY Zenon DEF Plus
<1> QED
  BY <1>2, <1>3, <1>4, <1>5, <1>6, <1>7

LEMMA ValueSquared ==
  ASSUME NEW v, Binary(v), NEW r \in Nat
  PROVE  Value(v, 2 * r) = gf_sqr(Value(v, r))
<1> DEFINE L == [x \in Elements |-> gf_sqr(x)]
           h == [i \in Nat |-> a_pow(r * i)]
           k == [i \in Nat |-> a_pow((2 * r) * i)]
           g == [i \in v |-> L[h[i]]]
<1>0. IsFiniteSet(v)
  BY DEF Binary
<1>1. \A i \in v : h[i] \in Elements /\ g[i] = k[i]
  <2> TAKE i \in v
  <2>1. i \in Nat /\ r * i \in Nat /\ r * i + r * i = (2 * r) * i
    BY DEF Binary
  <2>2. a_pow(r * i) \in Elements
    BY <2>1, PowUnit
  <2>3. gf_sqr(a_pow(r * i)) = a_pow((2 * r) * i)
    BY <2>1, <2>2, SquareIsMul, PowAdd
  <2> QED
    BY <2>1, <2>2, <2>3
<1>2. Linear(L, M)
  <2>1. \A a, b \in Elements : L[Plus(a, b)] = Plus(L[a], L[b])
    BY SquarePlus, PlusElement
  <2> HIDE DEF L
  <2> QED
    BY <2>1, PrimReducing DEF Linear
<1>3. L[SumOf(v, h)] = gf_sqr(SumOf(v, h))
  BY ValueElement DEF Value
<1> HIDE DEF L, h, k
<1>4. L[SumOf(v, h)] = SumOf(v, g)
  <2>1. \A i \in v : h[i] \in Below(M)
    BY <1>1, PrimReducing
  <2>2. \A i \in v : g[i] = L[h[i]]
    OBVIOUS
  <2> HIDE DEF g
  <2> QED
    BY <1>0, <1>2, <2>1, <2>2, SumLinearTo
<1>5. SumOf(v, g) = SumOf(v, k)
  <2> HIDE DEF g
  <2> QED
    BY <1>1, SumSame
<1> QED
  BY <1>3, <1>4, <1>5 DEF Value, h, k

-----------------------------------------------------------------------------
\* The encoder at a root of the generator

LEMMA TimesXValue ==
  ASSUME NEW d, NEW g, Reducing(g, d), NEW p \in Below(d), NEW r \in Nat, Value(g, r) = Zero
  PROVE  Value(TimesX(p, g, d), r) = gf_mul(a_pow(r), Value(p, r))
<1> DEFINE x == {j + 1 : j \in p}
<1>1. d \in Nat /\ g \in Below(d + 1)
  BY DEF Reducing, Below
<1>2. Binary(p) /\ Binary(g)
  BY <1>1, BelowFinite, d + 1 \in Nat
<1>3. Binary(x) /\ Value(x, r) = gf_mul(a_pow(r), Value(p, r))
  BY <1>2, ValueMoved, r * 1 = r
<1> HIDE DEF x
<1>4. TimesX(p, g, d) = IF d \in x THEN Plus(x, g) ELSE x
  BY DEF TimesX, x
<1>5. Value(Plus(x, g), r) = Value(x, r)
  BY <1>2, <1>3, ValuePlus, PlusZero
<1> QED
  BY <1>3, <1>4, <1>5

LEMMA ShiftedValue ==
  ASSUME NEW d, NEW g, Reducing(g, d), NEW p \in Below(d), NEW r \in Nat, Value(g, r) = Zero,
         NEW n \in Nat
  PROVE  Value(Shifted(p, n, g, d), r) = gf_mul(a_pow(r * n), Value(p, r))
<1> DEFINE Holds(k) == Value(Shifted(p, k, g, d), r) = gf_mul(a_pow(r * k), Value(p, r))
           Good == {k \in 0..n : Holds(k)}
<1>1. Binary(p)
  BY BelowFinite DEF Reducing
<1>2. Value(p, r) \in Elements
  BY <1>1, ValueElement
<1>3. 0 \in Good
  <2>1. Shifted(p, 0, g, d) = p
    BY ShiftedStep, 0 \in Nat
  <2>2. a_pow(r * 0) = One
    BY Sizes, PowerStep, r * 0 = 0 DEF a_pow
  <2>3. gf_mul(One, Value(p, r)) = Value(p, r)
    BY <1>2, MulZeroOne
  <2> QED
    BY <2>1, <2>2, <2>3
<1>4. \A k \in 0 .. n-1 : k \in Good => k + 1 \in Good
  <2> SUFFICES ASSUME NEW k \in 0 .. n-1, Holds(k) PROVE Holds(k + 1)
    OBVIOUS
  <2>1. k \in Nat /\ r * k \in Nat /\ r + r * k = r * (k + 1)
    OBVIOUS
  <2>2. /\ Shifted(p, k, g, d) \in Below(d)
        /\ Shifted(p, k + 1, g, d) = TimesX(Shifted(p, k, g, d), g, d)
    BY <2>1, ShiftedStep
  <2>3. Value(Shifted(p, k + 1, g, d), r) = gf_mul(a_pow(r), Value(Shifted(p, k, g, d), r))
    BY <2>2, TimesXValue
  <2>4. gf_mul(a_pow(r), gf_mul(a_pow(r * k), Value(p, r)))
          = gf_mul(gf_mul(a_pow(r), a_pow(r * k)), Value(p, r))
    BY <1>2, <2>1, PowUnit, MulAssociates
  <2>5. gf_mul(a_pow(r), a_pow(r * k)) = a_pow(r * (k + 1))
    BY <2>1, PowAdd
  <2> QED
    BY <2>3, <2>4, <2>5
<1> HIDE DEF Good
<1>5. n \in 0..n /\ n \in Good
  BY <1>3, <1>4, Induction
<1> QED
  BY <1>5 DEF Good

\* The parity at r, when it is a root of the generator.
RootOfG(r) == r \in Nat /\ Value(genpoly, r) = Zero

LEMMA TableValue ==
  ASSUME NEW r, RootOfG(r), NEW b \in 0..7
  PROVE  mod8_tab[b] \in Below(ecc_bits) /\ Value(mod8_tab[b], r) = a_pow(r * (b + ecc_bits))
<1> DEFINE d == ecc_bits
           top == {d - 1}
<1>1. Reducing(genpoly, d)
  BY GeneratorReducing
<1>2. mod8_tab[b] = Shifted(top, b + 1, genpoly, d)
  BY DEF mod8_tab
<1> HIDE DEF d
<1>3. d \in Nat /\ d - 1 \in Nat /\ b + 1 \in Nat /\ r \in Nat /\ Value(genpoly, r) = Zero
  BY <1>1 DEF Reducing, RootOfG
<1>4. top \in Below(d)
  BY <1>3 DEF Below
<1>5. Value(top, r) = a_pow(r * (d - 1))
  BY <1>3, ValueTerm
<1> HIDE DEF top
<1>6. Shifted(top, b + 1, genpoly, d) \in Below(d)
  BY <1>1, <1>3, <1>4, ShiftedStep
<1>7. Value(Shifted(top, b + 1, genpoly, d), r) = gf_mul(a_pow(r * (b + 1)), a_pow(r * (d - 1)))
  BY <1>1, <1>3, <1>4, <1>5, ShiftedValue
<1>8. /\ r * (b + 1) \in Nat /\ r * (d - 1) \in Nat
      /\ r * (b + 1) + r * (d - 1) = r * (b + d)
  BY <1>3
<1>9. gf_mul(a_pow(r * (b + 1)), a_pow(r * (d - 1))) = a_pow(r * (b + d))
  BY <1>8, PowAdd
<1> QED
  BY <1>2, <1>6, <1>7, <1>9 DEF d

\* What is looked up in the table stands for the same bits above the parity.
LEMMA LookupValue ==
  ASSUME NEW r, RootOfG(r), NEW L \in Below(8)
  PROVE  LET s == Total([b \in L |-> mod8_tab[b]])
         IN  s \in Below(ecc_bits) /\ Value(s, r) = Value({b + ecc_bits : b \in L}, r)
<1> DEFINE d == ecc_bits
           V == [v \in Below(d) |-> Value(v, r)]
           h == [i \in Nat |-> a_pow(r * i)]
           m == [b \in L |-> b + d]
           g == [b \in L |-> a_pow(r * (b + d))]
           w == {m[b] : b \in L}
           s == SumOf(L, mod8_tab)
<1>1. d \in Nat /\ r \in Nat
  BY GeneratorReducing DEF Reducing, RootOfG
<1>2. IsFiniteSet(L)
  BY BelowFinite, 8 \in Nat DEF Binary
<1>2a. \A b \in L : b \in 0..7
  BY DEF Below
<1>3. \A b \in L : mod8_tab[b] \in Below(d) /\ g[b] = V[mod8_tab[b]]
  BY <1>2a, TableValue
<1>4. Linear(V, d)
  <2> SUFFICES ASSUME NEW a \in Below(d), NEW b \in Below(d)
               PROVE  V[Plus(a, b)] = Plus(V[a], V[b])
    BY DEF Linear
  <2>1. Binary(a) /\ Binary(b) /\ Plus(a, b) \in Below(d)
    BY <1>1, BelowFinite, BelowPlus
  <2> QED
    BY <2>1, ValuePlus
<1>5. \A b \in L : g[b] = h[m[b]]
  <2> TAKE b \in L
  <2>1. b + d \in Nat
    BY <1>1, <1>2a
  <2> QED
    BY <2>1
<1>6. \A x \in L : \A y \in L : m[x] = m[y] => x = y
  BY <1>1, <1>2a
<1>7. w = {b + d : b \in L}
  OBVIOUS
<1>8. s = Total([b \in L |-> mod8_tab[b]])
  BY DEF SumOf
<1>9. s \in Below(d)
  BY <1>3, SumBelow
<1>10. V[s] = Value(s, r)
  BY <1>9
<1>11. w = {m[b] : b \in L}
  OBVIOUS
<1> HIDE DEF d, V, h, m, g, w
<1>12. V[s] = SumOf(L, g)
  BY <1>2, <1>3, <1>4, SumLinearTo
<1>13. SumOf(w, h) = SumOf(L, g)
  BY <1>2, <1>5, <1>6, <1>11, SumMapped
<1>14. Value(w, r) = SumOf(w, h)
  BY DEF Value, h
<1> HIDE DEF s
<1> QED
  BY <1>7, <1>8, <1>9, <1>10, <1>12, <1>13, <1>14 DEF d

\* One byte of the encoder: the parity moves up by 8 and the byte is added above it.
ByteAt(data, n) == {b \in 0..7 : 8 * n + b \in data}

LEMMA EncodedValue ==
  ASSUME NEW r, RootOfG(r), NEW data, NEW p \in Below(ecc_bits), NEW n
  PROVE  Value(Encoded(data, p, n), r)
           = Plus(Value({j + 8 : j \in p}, r), Value({b + ecc_bits : b \in ByteAt(data, n)}, r))
<1> DEFINE d == ecc_bits
           A == {j - (d - 8) : j \in {j \in p : j >= d - 8}}
           B == ByteAt(data, n)
           L == Leaving(data, p, n)
           s == Total([b \in L |-> mod8_tab[b]])
           up == {j + 8 : j \in p}
           hi == {j + 8 : j \in {j \in p : j >= d - 8}}
           lo == Stays(p)
           b8 == {b + d : b \in B}
           l8 == {b + d : b \in L}
<1>1. d \in Nat /\ p \subseteq 0 .. d-1 /\ p \subseteq Nat
  BY GeneratorReducing DEF Reducing, Below
<1>2. L = Plus(A, B)
  BY DEF Leaving, ByteAt
<1>3. A \subseteq 0..7 /\ B \subseteq 0..7
  <2>1. A \subseteq 0..7
    BY <1>1
  <2>2. B \subseteq 0..7
    BY DEF ByteAt
  <2> QED
    BY <2>1, <2>2
<1>4. L \subseteq 0..7
  BY <1>2, <1>3 DEF Plus
<1>5. \A x : x \in hi <=> \E a \in A : x = a + d
  <2> DEFINE P == {j \in p : j >= d - 8}
  <2>1. \A j \in P : (j - (d - 8)) + d = j + 8
    BY <1>1
  <2>2. hi = {j + 8 : j \in P} /\ A = {j - (d - 8) : j \in P}
    OBVIOUS
  <2> HIDE DEF P, hi, A
  <2> QED
    BY <2>1, <2>2
<1>6. lo \subseteq up /\ hi = up \ lo
  BY <1>1 DEF Stays
<1>7. up = Plus(lo, hi)
  BY <1>6, Zenon DEF Plus
<1>8. \A x : x \in l8 <=> ~ (x \in hi <=> x \in b8)
  <2> HIDE DEF A, B, hi
  <2>1. \A x : x \in L <=> ~ (x \in A <=> x \in B)
    BY <1>2, PlusBits
  <2> HIDE DEF L
  <2>2. A \subseteq Int /\ B \subseteq Int /\ L \subseteq Int
    BY <1>3, <1>4
  <2> QED
    BY <1>1, <1>5, <2>1, <2>2
<1>9. Encoded(data, p, n) = Plus(lo, s)
  BY DEF Encoded
<1>10. up \subseteq 0 .. d+7 /\ lo \subseteq 0 .. d+7 /\ hi \subseteq 0 .. d+7 /\ b8 \subseteq 0 .. d+7
  BY <1>1, <1>3, <1>6
<1>11. s \in Below(d) /\ Value(s, r) = Value(l8, r)
  <2>1. L \in Below(8)
    BY <1>4 DEF Below
  <2> QED
    BY <2>1, LookupValue
<1> HIDE DEF d, A, B, L, s, up, hi, lo, b8, l8
<1>12. l8 = Plus(hi, b8)
  <2>1. \A x : x \in l8 <=> x \in Plus(hi, b8)
    BY <1>8, PlusBits
  <2> QED
    BY <2>1
<1>13. Binary(lo) /\ Binary(hi) /\ Binary(b8) /\ Binary(s)
  <2>1. d + 8 \in Nat /\ (d + 8) - 1 = d + 7
    BY <1>1
  <2>2. lo \in Below(d + 8) /\ hi \in Below(d + 8) /\ b8 \in Below(d + 8)
    BY <1>10, <2>1 DEF Below
  <2> QED
    BY <1>1, <1>11, <2>1, <2>2, BelowFinite
<1>14. /\ Value(Plus(lo, s), r) = Plus(Value(lo, r), Value(s, r))
       /\ Value(l8, r) = Plus(Value(hi, r), Value(b8, r))
       /\ Value(up, r) = Plus(Value(lo, r), Value(hi, r))
  BY <1>7, <1>12, <1>13, ValuePlus
<1>15. \A x, y, z : Plus(x, Plus(y, z)) = Plus(Plus(x, y), z)
  BY ZenonT(30) DEF Plus
<1> QED
  BY <1>9, <1>11, <1>14, <1>15 DEF up, b8, B, d

-----------------------------------------------------------------------------
\* The encoder as a whole

\* The degrees of the bits of data in the codeword of n bytes, above the parity.
Position(n, p) == ecc_bits + 8 * (n - 1) - 8 * (p \div 8) + (p % 8)
Early(data, n) == {p \in data : p < 8 * n}
Places(data, n) == {Position(n, p) : p \in Early(data, n)}

LEMMA PositionType ==
  ASSUME NEW n \in Nat, NEW p \in Nat
  PROVE  /\ p < 8 * n => Position(n, p) \in ecc_bits .. ecc_bits + 8 * n - 1
         /\ \A q \in Nat : Position(n, p) = Position(n, q) => p = q
         /\ p < 8 * n => Position(n + 1, p) = Position(n, p) + 8
         /\ \A b \in 0..7 : p = 8 * n + b => Position(n + 1, p) = b + ecc_bits
<1>1. ecc_bits \in Nat
  BY GeneratorReducing DEF Reducing
<1>2. \A q \in Nat : q \div 8 \in Nat /\ q % 8 \in 0..7 /\ q = 8 * (q \div 8) + (q % 8)
  OBVIOUS
<1>3. p < 8 * n => Position(n, p) \in ecc_bits .. ecc_bits + 8 * n - 1
  <2> DEFINE u == p \div 8
             v == p % 8
  <2>1. u \in Nat /\ v \in 0..7 /\ p = 8 * u + v
    BY <1>2
  <2>2. Position(n, p) = ecc_bits + 8 * (n - 1) - 8 * u + v
    BY DEF Position
  <2> HIDE DEF u, v
  <2> QED
    BY <1>1, <2>1, <2>2
<1>4. \A q \in Nat : Position(n, p) = Position(n, q) => p = q
  <2> TAKE q \in Nat
  <2> DEFINE u == p \div 8
             v == p % 8
             x == q \div 8
             y == q % 8
  <2>1. u \in Nat /\ v \in 0..7 /\ p = 8 * u + v /\ x \in Nat /\ y \in 0..7 /\ q = 8 * x + y
    BY <1>2
  <2>2. /\ Position(n, p) = ecc_bits + 8 * (n - 1) - 8 * u + v
        /\ Position(n, q) = ecc_bits + 8 * (n - 1) - 8 * x + y
    BY DEF Position
  <2> HIDE DEF u, v, x, y
  <2> QED
    BY <1>1, <2>1, <2>2
<1>5. Position(n + 1, p) = Position(n, p) + 8
  <2> DEFINE u == p \div 8
             v == p % 8
  <2>1. u \in Nat /\ v \in 0..7
    BY <1>2
  <2>2. /\ Position(n, p) = ecc_bits + 8 * (n - 1) - 8 * u + v
        /\ Position(n + 1, p) = ecc_bits + 8 * ((n + 1) - 1) - 8 * u + v
    BY DEF Position
  <2> HIDE DEF u, v
  <2> QED
    BY <1>1, <2>1, <2>2
<1>6. \A b \in 0..7 : p = 8 * n + b => Position(n + 1, p) = b + ecc_bits
  <2> SUFFICES ASSUME NEW b \in 0..7, p = 8 * n + b PROVE Position(n + 1, p) = b + ecc_bits
    OBVIOUS
  <2> DEFINE u == p \div 8
             v == p % 8
  <2>1. u \in Nat /\ v \in 0..7 /\ p = 8 * u + v
    BY <1>2
  <2>2. Position(n + 1, p) = ecc_bits + 8 * ((n + 1) - 1) - 8 * u + v
    BY DEF Position
  <2> HIDE DEF u, v
  <2>3. u = n /\ v = b
    BY <2>1
  <2> QED
    BY <1>1, <2>2, <2>3
<1> QED
  BY <1>3, <1>4, <1>5, <1>6

LEMMA PlacesNext ==
  ASSUME NEW n \in Nat, NEW data, data \subseteq Nat
  PROVE  Places(data, n + 1)
           = Plus({j + 8 : j \in Places(data, n)}, {b + ecc_bits : b \in ByteAt(data, n)})
<1> DEFINE d == ecc_bits
           U == {j + 8 : j \in Places(data, n)}
           W == {b + d : b \in ByteAt(data, n)}
           Z == Places(data, n + 1)
<1>1. d \in Nat
  BY GeneratorReducing DEF Reducing
<1>2. \A x \in U : x \in Z /\ x >= d + 8
  <2> SUFFICES ASSUME NEW p \in Early(data, n)
               PROVE  Position(n, p) + 8 \in Z /\ Position(n, p) + 8 >= d + 8
    BY DEF Places
  <2>1. p \in Nat /\ p < 8 * n /\ p \in data
    BY DEF Early
  <2>2. Position(n, p) \in d .. d + 8 * n - 1 /\ Position(n + 1, p) = Position(n, p) + 8
    BY <2>1, PositionType
  <2>3. p \in Early(data, n + 1)
    BY <2>1 DEF Early
  <2>4. Position(n + 1, p) \in Z
    BY <2>3 DEF Places
  <2>5. Position(n, p) + 8 >= d + 8
    <3> DEFINE x == Position(n, p)
    <3>1. x \in d .. d + 8 * n - 1
      BY <2>2
    <3> HIDE DEF x
    <3>2. x + 8 >= d + 8
      BY <1>1, <3>1
    <3> QED
      BY <3>2 DEF x
  <2> QED
    BY <2>2, <2>4, <2>5
<1>3. \A x \in W : x \in Z /\ ~ (x >= d + 8)
  <2> SUFFICES ASSUME NEW b \in ByteAt(data, n)
               PROVE  b + d \in Z /\ ~ (b + d >= d + 8)
    OBVIOUS
  <2>1. b \in 0..7 /\ 8 * n + b \in data /\ 8 * n + b \in Nat /\ 8 * n + b < 8 * (n + 1)
    BY DEF ByteAt
  <2>2. Position(n + 1, 8 * n + b) = b + d
    BY <2>1, PositionType
  <2>3. 8 * n + b \in Early(data, n + 1)
    BY <2>1 DEF Early
  <2> QED
    BY <1>1, <2>1, <2>2, <2>3 DEF Places
<1>4. \A x \in Z : x \in U \/ x \in W
  <2> SUFFICES ASSUME NEW p \in Early(data, n + 1)
               PROVE  Position(n + 1, p) \in U \/ Position(n + 1, p) \in W
    BY DEF Places
  <2>1. p \in Nat /\ p < 8 * (n + 1) /\ p \in data
    BY DEF Early
  <2>2. CASE p < 8 * n
    <3>1. p \in Early(data, n)
      BY <2>1, <2>2 DEF Early
    <3>2. Position(n, p) \in Places(data, n)
      BY <3>1 DEF Places
    <3>3. Position(n + 1, p) = Position(n, p) + 8
      BY <2>1, <2>2, PositionType
    <3> QED
      BY <3>2, <3>3
  <2>3. CASE ~ (p < 8 * n)
    <3> DEFINE b == p - 8 * n
    <3>1. b \in 0..7 /\ p = 8 * n + b
      BY <2>1, <2>3
    <3> HIDE DEF b
    <3>2. Position(n + 1, p) = b + d
      BY <2>1, <3>1, PositionType
    <3>3. b \in ByteAt(data, n)
      BY <2>1, <3>1 DEF ByteAt
    <3> QED
      BY <3>2, <3>3
  <2> QED
    BY <2>2, <2>3
<1> HIDE DEF U, W, Z
<1>5. Z = Plus(U, W)
  BY <1>2, <1>3, <1>4 DEF Plus
<1> QED
  BY <1>5 DEF U, W, Z, d

\* What a bit of data contributes at r.
Terms(n, r) == [p \in Nat |-> a_pow(r * Position(n, p))]

LEMMA PlacesValue ==
  ASSUME NEW n \in Nat, NEW data, Binary(data), NEW r
  PROVE  /\ Binary(Places(data, n)) /\ Binary(Early(data, n))
         /\ Cardinality(Places(data, n)) = Cardinality(Early(data, n))
         /\ Value(Places(data, n), r) = SumOf(Early(data, n), Terms(n, r))
<1> DEFINE E == Early(data, n)
           m == [p \in E |-> Position(n, p)]
           h == [i \in Nat |-> a_pow(r * i)]
           t == Terms(n, r)
<1>1. E \subseteq Nat /\ E \subseteq data /\ \A p \in E : p < 8 * n
  BY DEF Early, Binary
<1>2. IsFiniteSet(data)
  BY DEF Binary
<1>3. IsFiniteSet(E)
  <2> HIDE DEF E
  <2> QED
    BY <1>1, <1>2, FS_Subset
<1>4. Places(data, n) = {m[p] : p \in E}
  BY DEF Places
<1>5. \A p \in E : Position(n, p) \in Nat
  <2> TAKE p \in E
  <2> HIDE DEF E
  <2>1. Position(n, p) \in ecc_bits .. ecc_bits + 8 * n - 1
    BY <1>1, PositionType
  <2>2. ecc_bits \in Nat
    BY GeneratorReducing DEF Reducing
  <2> QED
    BY <2>1, <2>2
<1>6. Places(data, n) \subseteq Nat
  BY <1>5 DEF Places
<1>7. \A p \in E : t[p] = h[m[p]]
  <2> TAKE p \in E
  <2>1. p \in Nat /\ Position(n, p) \in Nat
    BY <1>1, <1>5
  <2>2. t[p] = a_pow(r * Position(n, p))
    BY <2>1 DEF Terms
  <2> QED
    BY <2>1, <2>2
<1>8. Value(Places(data, n), r) = SumOf(Places(data, n), h)
  BY DEF Value
<1> HIDE DEF E
<1>9. \A x \in E : \A y \in E : m[x] = m[y] => x = y
  BY <1>1, PositionType
<1> DEFINE w == Places(data, n)
<1> HIDE DEF m, h, t
<1>10. w = {m[p] : p \in E}
  BY <1>4
<1> HIDE DEF w
<1>11. IsFiniteSet(w) /\ Cardinality(w) = Cardinality(E) /\ SumOf(w, h) = SumOf(E, t)
  BY <1>3, <1>7, <1>9, <1>10, SumMapped
<1> QED
  BY <1>1, <1>3, <1>6, <1>8, <1>11 DEF Binary, E, w, t

LEMMA ParityValue ==
  ASSUME NEW data, Binary(data), NEW r, RootOfG(r)
  PROVE  \A n \in 0..Bytes : Value(ParityTable(data)[n], r) = Value(Places(data, n), r)
<1> DEFINE P == ParityTable(data)
           Holds(n) == Value(P[n], r) = Value(Places(data, n), r)
           Good == {n \in 0..Bytes : Holds(n)}
<1>1. Bytes \in Nat /\ r \in Nat
  BY Sizes DEF RootOfG
<1>2. P[0] = Zero /\ \A i \in 1..Bytes : P[i] = Encoded(data, P[i-1], i - 1)
  BY ParityTableDefined
<1>3. \A i \in 0..Bytes : P[i] \in Below(ecc_bits)
  BY ParityTableDefined
<1> HIDE DEF P
<1>4. 0 \in Good
  <2>1. Early(data, 0) = {}
    <3>1. \A p \in data : ~ (p < 8 * 0)
      BY DEF Binary
    <3> QED
      BY <3>1 DEF Early
  <2>2. Places(data, 0) = {}
    BY <2>1 DEF Places
  <2> QED
    BY <1>1, <1>2, <2>2 DEF Zero
<1>5. \A k \in 0 .. Bytes-1 : k \in Good => k + 1 \in Good
  <2> SUFFICES ASSUME NEW k \in 0 .. Bytes-1, Holds(k) PROVE Holds(k + 1)
    BY <1>1
  <2> DEFINE d == ecc_bits
             p == P[k]
             q == Places(data, k)
             b == {b + d : b \in ByteAt(data, k)}
             p8 == {j + 8 : j \in p}
             q8 == {j + 8 : j \in q}
  <2>1. k \in Nat /\ k \in 0..Bytes /\ k + 1 \in 1..Bytes /\ (k + 1) - 1 = k /\ 8 \in Nat
    BY <1>1
  <2>2. d \in Nat
    BY GeneratorReducing DEF Reducing
  <2>3. p \in Below(d) /\ Binary(p)
    BY <1>3, <2>1, <2>2, BelowFinite
  <2>4. P[k+1] = Encoded(data, p, k)
    BY <1>2, <2>1
  <2>5. Value(P[k+1], r) = Plus(Value(p8, r), Value(b, r))
    BY <2>3, <2>4, EncodedValue
  <2>6. data \subseteq Nat
    BY DEF Binary
  <2>7. Places(data, k + 1) = Plus(q8, b)
    BY <2>1, <2>6, PlacesNext
  <2>8. Binary(q)
    BY <2>1, PlacesValue
  <2>9. b \in Below(d + 8) /\ d + 8 \in Nat
    BY <2>2 DEF ByteAt, Below
  <2>10. Binary(b)
    BY <2>9, BelowFinite
  <2> HIDE DEF p, q, p8, q8, b, d, Holds
  <2>11. Binary(q8) /\ Value(q8, r) = gf_mul(a_pow(r * 8), Value(q, r))
    BY <1>1, <2>1, <2>8, ValueMoved DEF q8
  <2>12. Value(p8, r) = gf_mul(a_pow(r * 8), Value(p, r))
    BY <1>1, <2>1, <2>3, ValueMoved DEF p8
  <2>13. Value(Plus(q8, b), r) = Plus(Value(q8, r), Value(b, r))
    BY <2>10, <2>11, ValuePlus
  <2>14. Value(p, r) = Value(q, r)
    BY DEF Holds, p, q
  <2> QED
    BY <2>5, <2>7, <2>11, <2>12, <2>13, <2>14 DEF Holds
<1> HIDE DEF Good
<1>6. 0..Bytes \subseteq Good
  BY <1>1, <1>4, <1>5, Induction
<1> QED
  BY <1>6 DEF Good, P

LEMMA EncodeValue ==
  ASSUME NEW data \in Below(8 * Bytes), NEW r, RootOfG(r)
  PROVE  /\ Binary(data) /\ Binary(bch_encode(data))
         /\ Early(data, Bytes) = data
         /\ Value(bch_encode(data), r) = SumOf(data, Terms(Bytes, r))
<1>1. Bytes \in Nat /\ 8 * Bytes \in Nat /\ Bytes \in 0..Bytes
  BY Sizes
<1>2. Binary(data)
  BY <1>1, BelowFinite
<1>3. Early(data, Bytes) = data
  <2>1. \A p \in data : p < 8 * Bytes
    BY <1>1 DEF Below
  <2> QED
    BY <2>1 DEF Early
<1>4. Value(bch_encode(data), r) = Value(Places(data, Bytes), r)
  BY <1>1, <1>2, ParityTableDefined, ParityValue
<1>5. Value(Places(data, Bytes), r) = SumOf(Early(data, Bytes), Terms(Bytes, r))
  BY <1>1, <1>2, PlacesValue
<1>6. bch_encode(data) \in Below(ecc_bits) /\ ecc_bits \in Nat
  BY EncodeType, GeneratorReducing DEF Reducing
<1>7. Binary(bch_encode(data))
  BY <1>6, BelowFinite
<1> QED
  BY <1>2, <1>3, <1>4, <1>5, <1>7

\* The bits in which two codewords differ, given their data.
Differing(u, w) == Plus(Plus(bch_encode(u), bch_encode(w)), Places(Plus(u, w), Bytes))

LEMMA DifferingValue ==
  ASSUME NEW u \in Below(8 * Bytes), NEW w \in Below(8 * Bytes), NEW r, RootOfG(r)
  PROVE  Value(Differing(u, w), r) = Zero
<1> DEFINE x == Plus(u, w)
           a == bch_encode(u)
           b == bch_encode(w)
           c == Places(x, Bytes)
           t == Terms(Bytes, r)
<1>1. x \in Below(8 * Bytes)
  BY BelowPlus
<1> HIDE DEF t
<1>2. /\ Binary(u) /\ Binary(a) /\ Value(a, r) = SumOf(u, t)
      /\ Binary(w) /\ Binary(b) /\ Value(b, r) = SumOf(w, t)
      /\ Binary(x) /\ Early(x, Bytes) = x
  BY <1>1, EncodeValue DEF t
<1>3. Binary(c) /\ Value(c, r) = SumOf(x, t)
  BY <1>2, Sizes, PlacesValue DEF t
<1>4. SumOf(x, t) = Plus(SumOf(u, t), SumOf(w, t))
  <2>1. IsFiniteSet(u) /\ IsFiniteSet(w)
    BY <1>2 DEF Binary
  <2> QED
    BY <2>1, SumOver
<1> HIDE DEF x, a, b, c
<1>5. Value(Plus(Plus(a, b), c), r) = Plus(Plus(Value(a, r), Value(b, r)), Value(c, r))
  <2>1. Binary(Plus(a, b)) /\ Value(Plus(a, b), r) = Plus(Value(a, r), Value(b, r))
    BY <1>2, ValuePlus
  <2> QED
    BY <1>3, <2>1, ValuePlus
<1>6. Value(Plus(Plus(a, b), c), r) = Zero
  BY <1>2, <1>3, <1>4, <1>5, PlusZero
<1> QED
  BY <1>6 DEF Differing, x, a, b, c

\* A word of the code, put together from its parity and its data.
Joined(p, x) == Plus(p, Places(x, Bytes))

\* Data and parity do not overlap in the codeword, and it fits.
LEMMA JoinedSize ==
  ASSUME NEW p \in Below(ecc_bits), NEW x \in Below(8 * Bytes), 8 * Bytes + ecc_bits <= N
  PROVE  LET c == Joined(p, x)
         IN  /\ c \in SUBSET Logs /\ Binary(c) /\ c = p \cup Places(x, Bytes)
             /\ Cardinality(c) = Cardinality(p) + Cardinality(x)
             /\ Cardinality(p) \in Nat /\ Cardinality(x) \in Nat
             /\ Early(x, Bytes) = x
             /\ Places(x, Bytes) \subseteq ecc_bits .. ecc_bits + 8 * Bytes - 1
<1> DEFINE q == Places(x, Bytes)
           d == ecc_bits
           n == 8 * Bytes
<1>1. d \in Nat /\ n \in Nat /\ Bytes \in Nat /\ N \in Nat
  BY Sizes, GeneratorReducing DEF Reducing
<1>2. Binary(p) /\ Cardinality(p) \in Nat /\ Binary(x) /\ Cardinality(x) \in Nat
  BY <1>1, BelowFinite
<1>3. Early(x, Bytes) = x /\ \A i \in x : i \in Nat /\ i < 8 * Bytes
  <2>1. \A i \in Below(n) : \A j \in i : j \in Nat /\ j < n
    <3> HIDE DEF n
    <3> QED
      BY <1>1 DEF Below
  <2>2. \A i \in x : i \in Nat /\ i < 8 * Bytes
    BY <2>1
  <2> QED
    BY <2>2 DEF Early
<1>4. Binary(q) /\ Cardinality(q) = Cardinality(x)
  BY <1>1, <1>2, <1>3, PlacesValue
<1>5. q \subseteq d .. d + n - 1
  <2> SUFFICES ASSUME NEW i \in Early(x, Bytes) PROVE Position(Bytes, i) \in d .. d + n - 1
    BY DEF Places
  <2>1. i \in Nat /\ i < 8 * Bytes
    BY <1>3
  <2> QED
    BY <1>1, <2>1, PositionType
<1>6. Joined(p, x) = Plus(p, q)
  BY DEF Joined
<1> HIDE DEF q
<1>7. p \cap q = {}
  BY <1>1, <1>5 DEF Below
<1>8. Plus(p, q) = p \cup q
  BY <1>7 DEF Plus
<1>9. IsFiniteSet(p) /\ IsFiniteSet(q)
  BY <1>2, <1>4 DEF Binary
<1>10. Cardinality(p \cup q) = Cardinality(p) + Cardinality(q)
  <2>1. Cardinality(p \cap q) = 0
    BY <1>7, FS_EmptySet
  <2>2. Cardinality(p \cup q) = Cardinality(p) + Cardinality(q) - Cardinality(p \cap q)
    BY <1>9, FS_Union
  <2>3. Cardinality(p) \in Nat /\ Cardinality(q) \in Nat
    BY <1>9, FS_CardinalityType
  <2> QED
    BY <2>1, <2>2, <2>3
<1>11. p \cup q \subseteq Logs
  BY <1>1, <1>5 DEF Below, Logs
<1>12. Binary(Plus(p, q))
  BY <1>2, <1>4, ValuePlus
<1> QED
  BY <1>2, <1>3, <1>4, <1>5, <1>6, <1>8, <1>10, <1>11, <1>12 DEF q

LEMMA DifferingSize ==
  ASSUME NEW u \in Below(8 * Bytes), NEW w \in Below(8 * Bytes), 8 * Bytes + ecc_bits <= N
  PROVE  LET c == Differing(u, w)
             p == Plus(bch_encode(u), bch_encode(w))
         IN  /\ c \in SUBSET Logs /\ Binary(c)
             /\ Cardinality(c) = Cardinality(p) + Cardinality(Plus(u, w))
             /\ Cardinality(p) \in Nat /\ Cardinality(Plus(u, w)) \in Nat
<1>1. Plus(bch_encode(u), bch_encode(w)) \in Below(ecc_bits) /\ Plus(u, w) \in Below(8 * Bytes)
  BY EncodeType, BelowPlus
<1>2. Differing(u, w) = Joined(Plus(bch_encode(u), bch_encode(w)), Plus(u, w))
  BY DEF Differing, Joined
<1> QED
  BY <1>1, <1>2, JoinedSize

-----------------------------------------------------------------------------
\* The generator at its roots

Span(i, j) == i..j

LEMMA FactorCoef ==
  ASSUME NEW g \in Polynomials, NEW s \in Logs
  PROVE  /\ Factor(g, s) \in Polynomials /\ Deg(Factor(g, s)) = Deg(g) + 1 /\ Deg(g) \in Nat
         /\ \A j \in Int : Coef(Factor(g, s), j)
                             = Plus(gf_mul(Coef(g, j), a_pow_tab[s]), Coef(g, j - 1))
<1> DEFINE d == Deg(g)
           a == a_pow_tab[s]
           c == [j \in 0 .. d+1 |-> Plus(gf_mul(Coef(g, j), a), Coef(g, j - 1))]
           p == Poly(d + 1, c)
<1>1. d \in Nat /\ d + 1 \in Nat
  BY PolynomialType
<1>2. a \in Elements
  BY PowerNonzero
<1>3. \A j \in 0 .. d+1 : c[j] \in Elements
  BY <1>2, CoefElement, FieldOps, PlusElement
<1>4. Factor(g, s) = p
  BY DEF Factor
<1>5. \A j \in Int : j \notin 0 .. d+1 =>
        Coef(p, j) = Plus(gf_mul(Coef(g, j), a), Coef(g, j - 1))
  <2> SUFFICES ASSUME NEW j \in Int, j \notin 0 .. d+1
               PROVE  Coef(p, j) = Plus(gf_mul(Coef(g, j), a), Coef(g, j - 1))
    OBVIOUS
  <2>1. Deg(p) = d + 1
    <3> HIDE DEF c, d
    <3> QED
      BY <1>1, <1>3, PolyType
  <2>2. j \notin 0 .. d /\ j - 1 \notin 0 .. d
    BY <1>1
  <2>3. Coef(p, j) = Zero /\ Coef(g, j) = Zero /\ Coef(g, j - 1) = Zero
    <3> HIDE DEF p
    <3> QED
      BY <2>1, <2>2 DEF Coef
  <2> QED
    BY <1>2, <2>3, MulZeroOne, PlusZero
<1> HIDE DEF c, d
<1>6. p \in Polynomials /\ Deg(p) = d + 1 /\ \A j \in 0 .. d+1 : Coef(p, j) = c[j]
  BY <1>1, <1>3, PolyType
<1>7. \A j \in 0 .. d+1 : c[j] = Plus(gf_mul(Coef(g, j), a), Coef(g, j - 1))
  BY DEF c
<1> HIDE DEF p, a
<1>8. \A j \in Int : Coef(p, j) = Plus(gf_mul(Coef(g, j), a), Coef(g, j - 1))
  BY <1>5, <1>6, <1>7
<1> QED
  BY <1>1, <1>4, <1>6, <1>8 DEF d, a

LEMMA MulSum ==
  ASSUME NEW x \in Elements, NEW y \in Elements, NEW z \in Elements
  PROVE  gf_mul(Plus(x, y), z) = Plus(gf_mul(x, z), gf_mul(y, z))
<1>1. Plus(x, y) \in Elements
  BY PlusElement
<1>2. gf_mul(Plus(x, y), z) = gf_mul(z, Plus(x, y))
  BY <1>1, MulCommutes
<1>3. gf_mul(z, Plus(x, y)) = Plus(gf_mul(z, x), gf_mul(z, y))
  BY MulDistributes
<1> QED
  BY <1>2, <1>3, MulCommutes

\* The value of p at a^r.
Summands(p, r) == [j \in Nat |-> gf_mul(Coef(p, j), a_pow(r * j))]
Eval(p, r) == SumOf(Span(0, Deg(p)), Summands(p, r))

LEMMA SummandElement ==
  ASSUME NEW p \in Polynomials, NEW r \in Nat, NEW j \in Nat
  PROVE  /\ Summands(p, r)[j] = gf_mul(Coef(p, j), a_pow(r * j))
         /\ Summands(p, r)[j] \in Elements
         /\ Coef(p, j) \in Elements /\ a_pow(r * j) \in Elements
<1>1. r * j \in Nat
  OBVIOUS
<1>2. a_pow(r * j) \in Elements
  BY <1>1, PowUnit
<1>3. Coef(p, j) \in Elements
  BY CoefElement
<1>4. Summands(p, r)[j] = gf_mul(Coef(p, j), a_pow(r * j))
  BY DEF Summands
<1> QED
  BY <1>2, <1>3, <1>4, FieldOps

LEMMA EvalElement ==
  ASSUME NEW p \in Polynomials, NEW r \in Nat
  PROVE  Eval(p, r) \in Elements
<1>1. Deg(p) \in Nat
  BY PolynomialType
<1>2. \A j \in Span(0, Deg(p)) : Summands(p, r)[j] \in Below(M)
  <2> TAKE j \in Span(0, Deg(p))
  <2>1. j \in Nat
    BY <1>1 DEF Span
  <2> QED
    BY <2>1, SummandElement, PrimReducing
<1> QED
  BY <1>2, SumBelow, PrimReducing DEF Eval

\* A factor takes its value out.
LEMMA FactorEval ==
  ASSUME NEW g \in Polynomials, NEW s \in Logs, NEW r \in Nat
  PROVE  Eval(Factor(g, s), r) = gf_mul(Plus(a_pow_tab[s], a_pow(r)), Eval(g, r))
<1> DEFINE d == Deg(g)
           p == Factor(g, s)
           a == a_pow_tab[s]
           x == a_pow(r)
           e == Summands(g, r)
           f == Summands(p, r)
           u == [j \in Nat |-> gf_mul(a, e[j])]
           v == [j \in Nat |-> gf_mul(Coef(g, j - 1), a_pow(r * j))]
           w == [j \in Nat |-> gf_mul(x, e[j])]
           m == [j \in Nat |-> j + 1]
           S == Span(0, d)
           S1 == Span(0, d + 1)
           S2 == Span(1, d + 1)
           sum == [j \in S1 |-> Plus(u[j], v[j])]
<1>1. d \in Nat /\ p \in Polynomials /\ Deg(p) = d + 1
  BY FactorCoef
<1>2. a \in Elements /\ x \in Elements
  BY PowerNonzero, PowUnit
<1>3. \A j \in Nat : e[j] \in Elements /\ e[j] = gf_mul(Coef(g, j), a_pow(r * j))
  BY SummandElement
<1>4. \A j \in Nat : f[j] = Plus(u[j], v[j])
  <2> TAKE j \in Nat
  <2> DEFINE c == Coef(g, j)
             b == Coef(g, j - 1)
             y == a_pow(r * j)
  <2>1. c \in Elements /\ b \in Elements /\ y \in Elements
    BY CoefElement, SummandElement
  <2>2. Coef(p, j) = Plus(gf_mul(c, a), b)
    BY FactorCoef
  <2>3. f[j] = gf_mul(Coef(p, j), y)
    BY <1>1, SummandElement
  <2>4. u[j] = gf_mul(a, gf_mul(c, y)) /\ v[j] = gf_mul(b, y)
    BY <1>3
  <2> HIDE DEF u, v, f, a, c, b, y, p, e
  <2>5. gf_mul(c, a) \in Elements /\ gf_mul(c, a) = gf_mul(a, c)
    BY <1>2, <2>1, FieldOps, MulCommutes
  <2>6. gf_mul(Plus(gf_mul(c, a), b), y) = Plus(gf_mul(gf_mul(c, a), y), gf_mul(b, y))
    BY <2>1, <2>5, MulSum
  <2>7. gf_mul(gf_mul(a, c), y) = gf_mul(a, gf_mul(c, y))
    BY <1>2, <2>1, MulAssociates
  <2> QED
    BY <2>2, <2>3, <2>4, <2>5, <2>6, <2>7
<1>5. \A j \in Nat : v[m[j]] = w[j]
  <2> TAKE j \in Nat
  <2> DEFINE c == Coef(g, j)
             y == a_pow(r * j)
  <2>1. (j + 1) - 1 = j /\ j + 1 \in Nat /\ r * j \in Nat /\ r + r * j = r * (j + 1)
    OBVIOUS
  <2>2. c \in Elements /\ y \in Elements
    BY CoefElement, SummandElement
  <2>3. gf_mul(x, y) = a_pow(r * (j + 1))
    BY <2>1, PowAdd
  <2>4. v[m[j]] = gf_mul(c, gf_mul(x, y))
    BY <2>1, <2>3
  <2>5. w[j] = gf_mul(x, gf_mul(c, y))
    BY <1>3
  <2> HIDE DEF v, m, w, c, x, y
  <2>6. gf_mul(c, gf_mul(x, y)) = gf_mul(gf_mul(c, x), y)
    BY <1>2, <2>2, MulAssociates
  <2>7. gf_mul(x, gf_mul(c, y)) = gf_mul(gf_mul(x, c), y)
    BY <1>2, <2>2, MulAssociates
  <2>8. gf_mul(c, x) = gf_mul(x, c)
    BY <1>2, <2>2, MulCommutes
  <2> QED
    BY <2>4, <2>5, <2>6, <2>7, <2>8
<1>6. IsFiniteSet(S) /\ IsFiniteSet(S1)
  <2>1. 0 \in Int /\ d \in Int /\ d + 1 \in Int
    BY <1>1
  <2> QED
    BY <2>1, FS_Interval DEF Span
<1>7. /\ S \subseteq Nat /\ S1 \subseteq Nat /\ S \subseteq S1 /\ S2 \subseteq S1
      /\ S2 = {m[j] : j \in S}
      /\ \A j \in S1 \ S : j = d + 1 /\ j \in Nat
      /\ \A j \in S1 \ S2 : j = 0
  BY <1>1 DEF Span
<1>8. \A j \in S1 \ S : u[j] = {}
  <2> SUFFICES ASSUME NEW j \in S1 \ S PROVE u[j] = {}
    OBVIOUS
  <2>1. j = d + 1 /\ j \in Nat
    BY <1>7
  <2>2. j \notin 0 .. d
    BY <1>1, <2>1
  <2>3. Coef(g, j) = Zero
    BY <2>2 DEF Coef
  <2>4. e[j] = Zero
    BY <1>3, <2>1, <2>3, SummandElement, MulZeroOne
  <2>5. u[j] = gf_mul(a, e[j])
    BY <2>1
  <2> QED
    BY <1>2, <2>4, <2>5, MulZeroOne DEF Zero
<1>9. \A j \in S1 \ S2 : v[j] = {}
  <2> SUFFICES ASSUME NEW j \in S1 \ S2 PROVE v[j] = {}
    OBVIOUS
  <2>1. j = 0 /\ j \in Nat /\ 0 - 1 \notin 0 .. d
    BY <1>1, <1>7
  <2>2. Coef(g, 0 - 1) = Zero
    BY <2>1 DEF Coef
  <2>3. v[j] = gf_mul(Zero, a_pow(r * j))
    BY <2>1, <2>2
  <2>4. a_pow(r * j) \in Elements
    BY <2>1, SummandElement
  <2> QED
    BY <2>3, <2>4, MulZeroOne DEF Zero
<1>10. \A j \in S1 : sum[j] = f[j]
  BY <1>4, <1>7
<1>11. Eval(p, r) = SumOf(S1, f) /\ Eval(g, r) = SumOf(S, e)
  BY <1>1 DEF Eval
<1>12. \A j \in S : u[j] = gf_mul(a, e[j]) /\ w[j] = gf_mul(x, e[j])
  BY <1>7
<1>13. \A j \in S : \A k \in S : m[j] = m[k] => j = k
  BY <1>7
<1>14. SumOf(S1, sum) = Plus(SumOf(S1, u), SumOf(S1, v))
  <2> HIDE DEF u, v, S1
  <2> QED
    BY <1>6, SumPlus
<1> HIDE DEF e, f, u, v, w, m, S, S1, S2, sum, a, x, p
<1>15. SumOf(S1, f) = SumOf(S1, sum)
  BY <1>10, SumSame
<1>16. SumOf(S1, u) = SumOf(S, u)
  BY <1>6, <1>7, <1>8, SumWithin
<1>17. SumOf(S1, v) = SumOf(S2, v)
  <2>1. S2 \in SUBSET S1
    BY <1>7
  <2> QED
    BY <1>6, <1>9, <2>1, SumWithin
<1>18. \A j \in S : e[j] \in Elements /\ w[j] = v[m[j]]
  BY <1>3, <1>5, <1>7
<1>19. gf_mul(a, SumOf(S, e)) = SumOf(S, u)
  BY <1>2, <1>6, <1>12, <1>18, ScaledSumTo
<1>20. gf_mul(x, SumOf(S, e)) = SumOf(S, w)
  BY <1>2, <1>6, <1>12, <1>18, ScaledSumTo
<1>21. S2 = {m[j] : j \in S}
  BY <1>7
<1>22. SumOf(S2, v) = SumOf(S, w)
  BY <1>6, <1>13, <1>18, <1>21, SumMapped
<1>23. SumOf(S, e) \in Elements
  BY <1>11, EvalElement
<1>24. gf_mul(Plus(a, x), SumOf(S, e)) = Plus(gf_mul(a, SumOf(S, e)), gf_mul(x, SumOf(S, e)))
  BY <1>2, <1>23, MulSum
<1> QED
  BY <1>11, <1>14, <1>15, <1>16, <1>17, <1>19, <1>20, <1>22, <1>24 DEF a, x, p

LEMMA PowerFirst == 2^0 = 1
<1>1. IsFiniteSet({}) /\ Cardinality({}) = 0
  BY FS_EmptySet
<1>2. Cardinality(SUBSET {}) = 2^0
  BY <1>1, FS_SUBSET
<1>3. SUBSET {} = {{}}
  OBVIOUS
<1>4. Cardinality({{}}) = 1
  BY FS_Singleton
<1> QED
  BY <1>2, <1>3, <1>4

LEMMA PowerNext ==
  ASSUME NEW n \in Nat
  PROVE  2^(n + 1) = 2 * 2^n
<1> DEFINE m == [s \in Below(n) |-> s \cup {n}]
           A == Below(n)
           B == {m[s] : s \in A}
           h == [s \in B |-> {}]
           g == [s \in A |-> h[m[s]]]
<1>0. /\ \A s : s \in A <=> s \subseteq 0 .. n-1
      /\ \A s : s \in Below(n + 1) <=> s \subseteq 0..n
      /\ \A i : i \in 0..n <=> i \in 0 .. n-1 \/ i = n
      /\ n \notin 0 .. n-1
  <2>1. (n + 1) - 1 = n
    OBVIOUS
  <2> QED
    BY <2>1 DEF Below
<1>1. A \cup B = Below(n + 1)
  <2>1. \A s \in Below(n + 1) : s \in A \/ s \in B
    <3> TAKE s \in Below(n + 1)
    <3>1. CASE n \notin s
      <4> HIDE DEF A
      <4> QED
        BY <1>0, <3>1
    <3>2. CASE n \in s
      <4>1. s \ {n} \in A
        <5> HIDE DEF A
        <5> QED
          BY <1>0
      <4>2. m[s \ {n}] = s
        BY <3>2, <4>1
      <4> QED
        BY <4>1, <4>2
    <3> QED
      BY <3>1, <3>2
  <2>2. A \subseteq Below(n + 1) /\ B \subseteq Below(n + 1)
    <3>1. \A s \in A : m[s] = s \cup {n}
      OBVIOUS
    <3>2. \A t \in B : \E s \in A : t = m[s]
      OBVIOUS
    <3> HIDE DEF A, B, m
    <3> QED
      BY <1>0, <3>1, <3>2
  <2> QED
    BY <2>1, <2>2
<1>2. A \cap B = {}
  <2>1. \A t \in B : n \in t
    OBVIOUS
  <2> HIDE DEF A, B
  <2> QED
    BY <1>0, <2>1
<1>3. IsFiniteSet(A) /\ Cardinality(A) = 2^n /\ Cardinality(Below(n + 1)) = 2^(n + 1)
  <2>1. \A k \in Nat : IsFiniteSet(Below(k)) /\ Cardinality(Below(k)) = 2^k
    <3> TAKE k \in Nat
    <3>1. IsFiniteSet(0 .. k-1) /\ Cardinality(0 .. k-1) = k
      BY FS_Interval
    <3> QED
      BY <3>1, FS_SUBSET DEF Below
  <2>2. n + 1 \in Nat
    OBVIOUS
  <2> QED
    BY <2>1, <2>2
<1>4. \A s \in A : \A t \in A : m[s] = m[t] => s = t
  <2> SUFFICES ASSUME NEW s \in A, NEW t \in A, m[s] = m[t] PROVE s = t
    OBVIOUS
  <2>1. n \notin s /\ n \notin t
    BY DEF Below
  <2>2. s \cup {n} = t \cup {n}
    OBVIOUS
  <2> QED
    BY <2>1, <2>2
<1>5. \A s \in A : g[s] = h[m[s]]
  OBVIOUS
<1>6. B = {m[s] : s \in A}
  OBVIOUS
<1> HIDE DEF m, A, B, h, g
<1>7. IsFiniteSet(B) /\ Cardinality(B) = Cardinality(A)
  BY <1>3, <1>4, <1>5, <1>6, SumMapped
<1>8. Cardinality(A \cup B) = Cardinality(A) + Cardinality(B)
  <2>1. Cardinality(A \cap B) = 0
    BY <1>2, FS_EmptySet
  <2>2. Cardinality(A \cup B) = Cardinality(A) + Cardinality(B) - Cardinality(A \cap B)
    BY <1>3, <1>7, FS_Union
  <2>3. Cardinality(A) \in Nat /\ Cardinality(B) \in Nat
    BY <1>3, <1>7, FS_CardinalityType
  <2> QED
    BY <2>1, <2>2, <2>3
<1>9. 2^n \in Nat
  BY PowerOfTwo
<1> DEFINE x == 2^n
           y == 2^(n + 1)
<1>10. y = x + x /\ x \in Nat
  BY <1>1, <1>3, <1>7, <1>8, <1>9
<1> HIDE DEF x, y
<1>11. y = 2 * x
  BY <1>10
<1> QED
  BY <1>11 DEF x, y

\* Each root is the square of the one before, and the last squares to the first.
Doubled(x) == (2 * x) % N

LEMMA RootSteps ==
  ASSUME NEW i \in Nat
  PROVE  /\ \A j \in Nat : Root(i, j) \in Logs /\ Root(i, j + 1) = Doubled(Root(i, j))
         /\ Root(i, M) = Root(i, 0)
         /\ Root(i, 0) = (2 * i + 1) % N
<1> DEFINE c == 2 * i + 1
<1>1. c \in Nat /\ N \in Nat /\ N > 0
  BY Sizes
<1>2. \A j \in Nat : Root(i, j) = (c * 2^j) % N
  BY DEF Root
<1> HIDE DEF c
<1>3. \A v \in Nat : /\ v \div N \in Nat /\ v % N \in 0 .. N-1
                     /\ v = N * (v \div N) + (v % N)
  BY <1>1
<1>4. \A j \in Nat : Root(i, j + 1) = Doubled(Root(i, j))
  <2> TAKE j \in Nat
  <2> DEFINE x == 2^j
             v == c * x
             q == v \div N
             r == v % N
             q2 == (2 * r) \div N
             r2 == (2 * r) % N
  <2>1. 2^(j + 1) = 2 * x /\ x \in Nat
    BY PowerNext, PowerOfTwo
  <2> HIDE DEF x
  <2>2. v \in Nat
    BY <1>1, <2>1
  <2>3. c * (2 * x) = 2 * v
    BY <1>1, <2>1
  <2>4. Root(i, j) = r
    BY <1>2 DEF x
  <2>5. Root(i, j + 1) = (2 * v) % N
    <3>1. j + 1 \in Nat
      OBVIOUS
    <3> QED
      BY <1>2, <2>1, <2>3, <3>1
  <2> HIDE DEF v
  <2>6. q \in Nat /\ r \in 0 .. N-1 /\ v = N * q + r
    BY <1>3, <2>2
  <2> HIDE DEF q, r
  <2>7. q2 \in Nat /\ r2 \in 0 .. N-1 /\ 2 * r = N * q2 + r2
    <3>1. 2 * r \in Nat
      BY <1>1, <2>6
    <3> QED
      BY <1>3, <3>1
  <2>8. Doubled(r) = r2
    BY DEF Doubled
  <2> HIDE DEF q2, r2
  <2>9. N * (2 * q + q2) = 2 * (N * q) + N * q2
    BY <1>1, <2>6, <2>7
  <2>10. 2 * v = N * (2 * q + q2) + r2 /\ 2 * q + q2 \in Nat
    BY <1>1, <2>6, <2>7, <2>9
  <2>11. (N * (2 * q + q2) + r2) % N = r2
    BY <1>1, <2>7, <2>10, DivMod
  <2> QED
    BY <2>4, <2>5, <2>8, <2>10, <2>11
<1>5. Root(i, 0) = c % N
  <2>1. Root(i, 0) = (c * 2^0) % N
    BY <1>2
  <2>2. c * 1 = c
    BY <1>1
  <2> QED
    BY <2>1, <2>2, PowerFirst
<1>6. Root(i, M) = Root(i, 0)
  <2> DEFINE x == 2^M
             q == c \div N
             r == c % N
  <2>1. x = N + 1
    <3>1. x \in Nat
      BY Sizes, PowerOfTwo
    <3> QED
      BY <3>1 DEF N
  <2>2. Root(i, M) = (c * x) % N
    BY <1>2, Sizes
  <2>3. q \in Nat /\ r \in 0 .. N-1 /\ c = N * q + r
    BY <1>1, <1>3
  <2>4. Root(i, 0) = r
    BY <1>5
  <2> HIDE DEF x, q, r
  <2>5. c * (N + 1) = N * c + c
    BY <1>1
  <2>6. N * (c + q) = N * c + N * q
    BY <1>1, <2>3
  <2>7. c * x = N * (c + q) + r /\ c + q \in Nat
    BY <1>1, <2>1, <2>3, <2>5, <2>6
  <2>8. (N * (c + q) + r) % N = r
    BY <1>1, <2>3, <2>7, DivMod
  <2> QED
    BY <2>2, <2>4, <2>7, <2>8
<1> QED
  BY <1>4, <1>5, <1>6, RootLog DEF c

LEMMA DoubledInjective ==
  ASSUME NEW x \in Logs, NEW y \in Logs, Doubled(x) = Doubled(y)
  PROVE  x = y
<1> DEFINE k == 2^(M - 1)
           q1 == (2 * x) \div N
           q2 == (2 * y) \div N
           r == (2 * x) % N
<1>1. N \in Nat /\ N > 0 /\ x \in 0 .. N-1 /\ y \in 0 .. N-1 /\ M \in Nat /\ M - 1 \in Nat
  BY Sizes DEF Logs
<1>2. k \in Nat
  BY <1>1, PowerOfTwo
<1>3. N = 2 * k - 1
  <2>1. 2^((M - 1) + 1) = 2 * k
    BY <1>1, PowerNext
  <2>2. (M - 1) + 1 = M
    BY <1>1
  <2> QED
    BY <2>1, <2>2 DEF N
<1>4. \A v \in Nat : /\ v \div N \in Nat /\ v % N \in 0 .. N-1
                     /\ v = N * (v \div N) + (v % N)
  BY <1>1
<1>5. 2 * x \in Nat /\ 2 * y \in Nat
  BY <1>1
<1>6. q1 \in Nat /\ r \in 0 .. N-1 /\ 2 * x = N * q1 + r
  BY <1>4, <1>5
<1>7. (2 * y) % N = r
  BY DEF Doubled
<1>8. q2 \in Nat /\ 2 * y = N * q2 + r
  BY <1>4, <1>5, <1>7
<1> HIDE DEF k, q1, q2, r
<1>9. \A q \in Nat : q >= 2 => N * q >= 2 * N
  BY <1>1
<1>10. q1 \in {0, 1} /\ q2 \in {0, 1}
  BY <1>1, <1>6, <1>8, <1>9
<1>11. CASE q1 = q2
  BY <1>1, <1>6, <1>8, <1>11
<1>12. CASE q1 # q2
  <2>1. 2 * x - 2 * y = N \/ 2 * y - 2 * x = N
    BY <1>1, <1>6, <1>8, <1>10, <1>12
  <2> QED
    BY <1>1, <1>2, <1>3, <2>1
<1> QED
  BY <1>11, <1>12

LEMMA BeforeSteps ==
  /\ Before(0, 0) = {}
  /\ \A i \in Nat : \A j \in Nat : Before(i, j) \subseteq Logs
  /\ \A i \in Nat : \A j \in Nat : Before(i, j + 1) = Before(i, j) \cup {Root(i, j)}
  /\ \A i \in Nat : Before(i + 1, 0) = Before(i, M)
<1>1. M \in Nat
  BY Sizes
<1>2. Before(0, 0) = {}
  BY DEF Before
<1>3. \A i \in Nat : \A j \in Nat : Before(i, j) \subseteq Logs
  <2> SUFFICES ASSUME NEW i \in Nat, NEW j \in Nat, NEW x \in Before(i, j) PROVE x \in Logs
    OBVIOUS
  <2>1. \E h \in Nat : \E l \in Nat : x = Root(h, l)
    BY <1>1 DEF Before
  <2> QED
    BY <2>1, RootSteps
<1>4. \A i \in Nat : \A j \in Nat : Before(i, j + 1) = Before(i, j) \cup {Root(i, j)}
  <2> TAKE i \in Nat, j \in Nat
  <2> DEFINE S == {Root(h, l) : h \in 0 .. i-1, l \in 0 .. M-1}
             A == {Root(i, l) : l \in 0 .. j-1}
             B == {Root(i, l) : l \in 0 .. (j+1)-1}
  <2>1. \A l : l \in 0 .. (j+1)-1 <=> l \in 0 .. j-1 \/ l = j
    OBVIOUS
  <2>2. B = A \cup {Root(i, j)}
    BY <2>1
  <2>3. Before(i, j) = S \cup A /\ Before(i, j + 1) = S \cup B
    BY DEF Before
  <2> HIDE DEF S, A, B
  <2> QED
    BY <2>2, <2>3
<1>5. \A i \in Nat : Before(i + 1, 0) = Before(i, M)
  <2> TAKE i \in Nat
  <2> DEFINE S == {Root(h, l) : h \in 0 .. i-1, l \in 0 .. M-1}
             U == {Root(h, l) : h \in 0 .. (i+1)-1, l \in 0 .. M-1}
             A == {Root(i, l) : l \in 0 .. M-1}
             E == {Root(i + 1, l) : l \in 0 .. 0-1}
  <2>1. \A h : h \in 0 .. (i+1)-1 <=> h \in 0 .. i-1 \/ h = i
    OBVIOUS
  <2>2. U = S \cup A
    BY <2>1
  <2>3. E = {}
    OBVIOUS
  <2>4. Before(i, M) = S \cup A /\ Before(i + 1, 0) = U \cup E
    BY DEF Before
  <2> HIDE DEF S, A, U, E
  <2> QED
    BY <2>2, <2>3, <2>4
<1> QED
  BY <1>2, <1>3, <1>4, <1>5

\* p is zero at a^r for every r in R.
Vanishes(p, R) == \A r \in R : Eval(p, r) = Zero

LEMMA FactorVanishes ==
  ASSUME NEW g \in Polynomials, NEW s \in Logs, NEW R \in SUBSET Logs, Vanishes(g, R)
  PROVE  Vanishes(Factor(g, s), R \cup {s})
<1> SUFFICES ASSUME NEW r \in R \cup {s} PROVE Eval(Factor(g, s), r) = Zero
  BY DEF Vanishes
<1> DEFINE c == Plus(a_pow_tab[s], a_pow(r))
<1>1. r \in Logs /\ r \in Nat
  BY PowOfLog
<1>2. c \in Elements
  BY <1>1, PowerNonzero, PowUnit, PlusElement
<1>3. Eval(Factor(g, s), r) = gf_mul(c, Eval(g, r))
  BY <1>1, FactorEval
<1>4. CASE r \in R
  <2>1. Eval(g, r) = Zero
    BY <1>4 DEF Vanishes
  <2> QED
    BY <1>2, <1>3, <2>1, MulZeroOne
<1>5. CASE r = s
  <2>1. c = Zero
    BY <1>5, PowOfLog, PlusZero
  <2> QED
    BY <1>1, <1>3, <2>1, EvalElement, MulZeroOne
<1> QED
  BY <1>4, <1>5

LEMMA ClassVanishes ==
  ASSUME NEW i \in Nat, NEW k \in {0, 1}, i = 0 \/ k = 1, NEW g \in Monic(k),
         Vanishes(g, Before(i, 0))
  PROVE  Vanishes(Class(g, i), Before(i + 1, 0))
<1> DEFINE t == Parts(i, g)
           Good == {j \in 0..M : Vanishes(t[j], Before(i, j))}
<1>1. M \in Nat
  BY Sizes
<1>2. /\ Class(g, i) = t[M] /\ t[0] = g
      /\ \A j \in 1..M : /\ t[j-1] \in Monic(k)
                         /\ t[j] = IF Root(i, j-1) \in Before(i, j-1) THEN t[j-1]
                                   ELSE Factor(t[j-1], Root(i, j-1))
  BY PartsMonic
<1> HIDE DEF t
<1>3. 0 \in Good
  BY <1>1, <1>2
<1>4. \A j \in 0 .. M-1 : j \in Good => j + 1 \in Good
  <2> SUFFICES ASSUME NEW j \in 0 .. M-1, Vanishes(t[j], Before(i, j))
               PROVE  Vanishes(t[j+1], Before(i, j + 1))
    BY <1>1
  <2> DEFINE r == Root(i, j)
  <2>1. j \in Nat /\ j + 1 \in 1..M /\ (j + 1) - 1 = j
    BY <1>1
  <2>2. /\ Before(i, j + 1) = Before(i, j) \cup {r} /\ Before(i, j) \in SUBSET Logs
        /\ r \in Logs
    BY <2>1, BeforeSteps, RootSteps
  <2>3. t[j] \in Polynomials /\ t[j+1] = IF r \in Before(i, j) THEN t[j] ELSE Factor(t[j], r)
    BY <1>2, <2>1 DEF Monic
  <2> HIDE DEF r
  <2>4. CASE r \in Before(i, j)
    <3>1. Before(i, j + 1) = Before(i, j)
      BY <2>2, <2>4
    <3> QED
      BY <2>3, <2>4, <3>1
  <2>5. CASE r \notin Before(i, j)
    BY <2>2, <2>3, <2>5, FactorVanishes
  <2> QED
    BY <2>4, <2>5
<1> HIDE DEF Good
<1>5. M \in 0..M /\ 0..M \subseteq Good
  BY <1>1, <1>3, <1>4, Induction
<1>6. Vanishes(t[M], Before(i, M))
  BY <1>5 DEF Good
<1> QED
  BY <1>2, <1>6, BeforeSteps

\* The generator is zero at the first T odd powers.
LEMMA GeneratorVanishes ==
  \A i \in 0 .. T-1 : Eval(generator, 2 * i + 1) = Zero
<1> DEFINE t == Products(T)
           Good == {i \in 0..T : Vanishes(t[i], Before(i, 0))}
<1>1. T \in Nat /\ T >= 1 /\ M \in Nat /\ M >= 1
  BY Sizes
<1>2. /\ generator = t[T] /\ t[0] = Constant(One)
      /\ \A i \in 1..T : t[i] = Class(t[i-1], i - 1) /\ t[i] \in Monic(1)
  BY <1>1, ProductMonic DEF generator
<1> HIDE DEF t
<1>3. 0 \in Good
  BY <1>1, BeforeSteps DEF Vanishes
<1>4. \A i \in 0 .. T-1 : i \in Good => i + 1 \in Good
  <2> SUFFICES ASSUME NEW i \in 0 .. T-1, Vanishes(t[i], Before(i, 0))
               PROVE  Vanishes(t[i+1], Before(i + 1, 0))
    BY <1>1
  <2>1. i \in Nat /\ i + 1 \in 1..T /\ (i + 1) - 1 = i
    BY <1>1
  <2>2. t[i+1] = Class(t[i], i)
    BY <1>2, <2>1
  <2>3. CASE i = 0
    <3>1. t[i] \in Monic(0)
      BY <1>2, <2>3, ConstantType, OneElement DEF Monic
    <3> QED
      BY <2>1, <2>2, <2>3, <3>1, ClassVanishes
  <2>4. CASE i # 0
    <3>1. i \in 1..T
      BY <1>1, <2>4
    <3>2. t[i] \in Monic(1)
      BY <1>2, <3>1
    <3> QED
      BY <2>1, <2>2, <3>2, ClassVanishes
  <2> QED
    BY <2>3, <2>4
<1> HIDE DEF Good
<1>5. T \in 0..T /\ 0..T \subseteq Good
  BY <1>1, <1>3, <1>4, Induction
<1>6. Vanishes(generator, Before(T, 0))
  BY <1>2, <1>5 DEF Good
<1> SUFFICES ASSUME NEW i \in 0 .. T-1 PROVE Eval(generator, 2 * i + 1) = Zero
  OBVIOUS
<1>7. Root(i, 0) = 2 * i + 1
  <2>1. T \in 1..64 /\ M * T < N /\ N \in Nat /\ M >= 5
    BY BchAssumption, Sizes
  <2>2. M * T >= 5 * T
    BY <1>1, <2>1
  <2>3. i \in Nat /\ 2 * i + 1 \in 0 .. N-1
    BY <1>1, <2>1, <2>2
  <2>4. (2 * i + 1) % N = 2 * i + 1
    BY <2>1, <2>3
  <2> QED
    BY <2>3, <2>4, RootSteps
<1>8. Root(i, 0) \in Before(T, 0)
  <2>1. 0 \in 0 .. M-1
    BY <1>1
  <2> QED
    BY <2>1 DEF Before
<1> QED
  BY <1>6, <1>7, <1>8 DEF Vanishes

-----------------------------------------------------------------------------
\* The coefficients of the generator

\* The polynomial whose coefficients are the squares of those of p.
Squares(p) == Poly(Deg(p), [j \in 0 .. Deg(p) |-> gf_sqr(Coef(p, j))])

LEMMA SquaresCoef ==
  ASSUME NEW p \in Polynomials
  PROVE  /\ Squares(p) \in Polynomials /\ Deg(Squares(p)) = Deg(p)
         /\ \A j \in Int : Coef(Squares(p), j) = gf_sqr(Coef(p, j))
<1> DEFINE d == Deg(p)
           c == [j \in 0..d |-> gf_sqr(Coef(p, j))]
           q == Poly(d, c)
<1>1. d \in Nat
  BY PolynomialType
<1>2. \A j \in 0..d : c[j] \in Elements
  BY CoefElement, FieldOps
<1>3. Squares(p) = q
  BY DEF Squares
<1>4. \A j \in 0..d : c[j] = gf_sqr(Coef(p, j))
  OBVIOUS
<1> HIDE DEF c
<1>5. q \in Polynomials /\ Deg(q) = d /\ \A j \in 0..d : Coef(q, j) = c[j]
  BY <1>1, <1>2, PolyType
<1> HIDE DEF q
<1>6. \A j \in Int : j \notin 0..d => Coef(q, j) = Zero /\ Coef(p, j) = Zero
  BY <1>5 DEF Coef
<1>7. gf_sqr(Zero) = Zero
  BY DEF gf_sqr
<1> QED
  BY <1>3, <1>4, <1>5, <1>6, <1>7

LEMMA PolyEqual ==
  ASSUME NEW p \in Polynomials, NEW q \in Polynomials, Deg(p) = Deg(q),
         \A j \in Int : Coef(p, j) = Coef(q, j)
  PROVE  p = q
<1> DEFINE n == Len(p)
<1>1. /\ n \in Nat /\ Len(q) = n /\ Deg(p) = n - 1 /\ Deg(q) = n - 1
      /\ p \in Seq(Elements) /\ q \in Seq(Elements)
  BY PolynomialType
<1>2. \A i \in 1..n : p[i] = q[i]
  <2> TAKE i \in 1..n
  <2>1. i - 1 \in 0 .. n-1 /\ i - 1 \in Int /\ (i - 1) + 1 = i
    BY <1>1
  <2>2. Coef(p, i - 1) = p[i] /\ Coef(q, i - 1) = q[i]
    BY <1>1, <2>1 DEF Coef
  <2> QED
    BY <2>1, <2>2
<1> HIDE DEF n
<1>3. p = [i \in 1..n |-> p[i]] /\ q = [i \in 1..n |-> q[i]]
  BY <1>1, SeqDef DEF n
<1> QED
  BY <1>2, <1>3

LEMMA FactorCommutes ==
  ASSUME NEW g \in Polynomials, NEW s \in Logs, NEW t \in Logs
  PROVE  Factor(Factor(g, s), t) = Factor(Factor(g, t), s)
<1> DEFINE a == a_pow_tab[s]
           b == a_pow_tab[t]
           u == Factor(g, s)
           v == Factor(g, t)
           p == Factor(u, t)
           q == Factor(v, s)
<1>1. /\ u \in Polynomials /\ v \in Polynomials /\ p \in Polynomials /\ q \in Polynomials
      /\ Deg(p) = Deg(q)
  BY FactorCoef
<1>2. a \in Elements /\ b \in Elements
  BY PowerNonzero
<1>3. \A j \in Int : /\ Coef(u, j) = Plus(gf_mul(Coef(g, j), a), Coef(g, j - 1))
                     /\ Coef(v, j) = Plus(gf_mul(Coef(g, j), b), Coef(g, j - 1))
                     /\ Coef(p, j) = Plus(gf_mul(Coef(u, j), b), Coef(u, j - 1))
                     /\ Coef(q, j) = Plus(gf_mul(Coef(v, j), a), Coef(v, j - 1))
  BY <1>1, FactorCoef
<1> HIDE DEF a, b, u, v, p, q
<1>4. \A j \in Int : Coef(p, j) = Coef(q, j)
  <2> TAKE j \in Int
  <2> DEFINE x == Coef(g, j)
             y == Coef(g, j - 1)
             z == Coef(g, (j - 1) - 1)
  <2>1. x \in Elements /\ y \in Elements /\ z \in Elements
    BY CoefElement
  <2>2. j - 1 \in Int
    OBVIOUS
  <2>3. /\ Coef(p, j) = Plus(gf_mul(Plus(gf_mul(x, a), y), b), Plus(gf_mul(y, a), z))
        /\ Coef(q, j) = Plus(gf_mul(Plus(gf_mul(x, b), y), a), Plus(gf_mul(y, b), z))
    BY <1>3, <2>2
  <2> HIDE DEF x, y, z
  <2>4. gf_mul(x, a) \in Elements /\ gf_mul(x, b) \in Elements
    BY <1>2, <2>1, FieldOps
  <2>5. /\ gf_mul(Plus(gf_mul(x, a), y), b) = Plus(gf_mul(gf_mul(x, a), b), gf_mul(y, b))
        /\ gf_mul(Plus(gf_mul(x, b), y), a) = Plus(gf_mul(gf_mul(x, b), a), gf_mul(y, a))
    BY <1>2, <2>1, <2>4, MulSum
  <2>6. gf_mul(gf_mul(x, a), b) = gf_mul(gf_mul(x, b), a)
    <3>1. gf_mul(gf_mul(x, a), b) = gf_mul(x, gf_mul(a, b))
      BY <1>2, <2>1, MulAssociates
    <3>2. gf_mul(gf_mul(x, b), a) = gf_mul(x, gf_mul(b, a))
      BY <1>2, <2>1, MulAssociates
    <3>3. gf_mul(a, b) = gf_mul(b, a)
      BY <1>2, MulCommutes
    <3> QED
      BY <3>1, <3>2, <3>3
  <2>7. \A c, d, e, f : Plus(Plus(c, d), Plus(e, f)) = Plus(Plus(c, e), Plus(d, f))
    <3> TAKE c, d, e, f
    <3> DEFINE l == Plus(Plus(c, d), Plus(e, f))
               r == Plus(Plus(c, e), Plus(d, f))
    <3>1. \A i : i \in l <=> i \in r
      BY PlusBits
    <3> HIDE DEF l, r
    <3>2. l = r
      BY <3>1
    <3> QED
      BY <3>2 DEF l, r
  <2> QED
    BY <2>3, <2>5, <2>6, <2>7
<1>5. p = q
  BY <1>1, <1>4, PolyEqual
<1> QED
  BY <1>5 DEF p, q, u, v

LEMMA FactorInjective ==
  ASSUME NEW g \in Polynomials, NEW h \in Polynomials, NEW s \in Logs,
         Factor(g, s) = Factor(h, s)
  PROVE  g = h
<1> DEFINE a == a_pow_tab[s]
           d == Deg(g)
           p == Factor(g, s)
           Good == {k \in 0 .. d+1 : Coef(g, d + 1 - k) = Coef(h, d + 1 - k)}
<1>1. d \in Nat /\ Deg(h) = d
  BY FactorCoef
<1>2. \A j \in Int : /\ Coef(p, j) = Plus(gf_mul(Coef(g, j), a), Coef(g, j - 1))
                     /\ Coef(p, j) = Plus(gf_mul(Coef(h, j), a), Coef(h, j - 1))
  BY FactorCoef
<1>3. \A j \in Int : j \notin 0..d => Coef(g, j) = Zero /\ Coef(h, j) = Zero
  BY <1>1 DEF Coef
<1> HIDE DEF a, d, p
<1>4. 0 \in Good
  <2>1. d + 1 - 0 \in Int /\ d + 1 - 0 \notin 0..d
    BY <1>1
  <2> QED
    BY <1>1, <1>3, <2>1
<1>5. \A k \in 0 .. (d + 1) - 1 : k \in Good => k + 1 \in Good
  <2> SUFFICES ASSUME NEW k \in 0 .. (d + 1) - 1, Coef(g, d + 1 - k) = Coef(h, d + 1 - k)
               PROVE  Coef(g, d + 1 - (k + 1)) = Coef(h, d + 1 - (k + 1))
    BY <1>1
  <2> DEFINE j == d + 1 - k
  <2>1. j \in Int /\ j - 1 = d + 1 - (k + 1)
    BY <1>1
  <2> HIDE DEF j
  <2>2. Coef(g, j) = Coef(h, j)
    BY DEF j
  <2>3. \A x, y, z : Plus(x, y) = Plus(x, z) => y = z
    BY DEF Plus
  <2>4. Coef(g, j - 1) = Coef(h, j - 1)
    BY <1>2, <2>1, <2>2, <2>3
  <2> QED
    BY <2>1, <2>4
<1>6. \A j \in Int : Coef(g, j) = Coef(h, j)
  <2>1. 0 .. d+1 \subseteq Good
    <3> HIDE DEF Good
    <3>1. d + 1 \in Nat
      BY <1>1
    <3> QED
      BY <1>4, <1>5, <3>1, Induction
  <2> SUFFICES ASSUME NEW j \in 0..d PROVE Coef(g, j) = Coef(h, j)
    BY <1>3
  <2>2. d + 1 - j \in 0 .. d+1 /\ d + 1 - (d + 1 - j) = j
    BY <1>1
  <2>3. d + 1 - j \in Good
    BY <2>1, <2>2
  <2> QED
    BY <2>2, <2>3
<1> QED
  BY <1>1, <1>6, PolyEqual DEF d

LEMMA FactorSquares ==
  ASSUME NEW g \in Polynomials, NEW s \in Logs
  PROVE  Squares(Factor(g, s)) = Factor(Squares(g), Doubled(s)) /\ Doubled(s) \in Logs
<1> DEFINE a == a_pow_tab[s]
           s2 == Doubled(s)
           b == a_pow_tab[s2]
           f == Factor(g, s)
           h == Squares(g)
           p == Squares(f)
           q == Factor(h, s2)
<1>1. s \in Nat /\ 2 * s \in Int /\ s \in 0 .. N-1 /\ N \in Nat
  BY Sizes DEF Logs
<1>2. s2 \in Logs
  BY <1>1, PowElement DEF Doubled
<1>3. a \in Elements /\ b \in Elements /\ b = gf_sqr(a)
  <2>1. a \in Elements /\ b \in Elements
    BY <1>2, PowerNonzero
  <2>2. a_pow(s) = a
    BY PowOfLog
  <2>3. gf_mul(a_pow(s), a_pow(s)) = a_pow(s + s)
    BY <1>1, PowAdd
  <2>4. a_pow(s + s) = b
    <3>1. s + s = 2 * s
      BY <1>1
    <3> QED
      BY <3>1 DEF a_pow, Doubled
  <2> QED
    BY <2>1, <2>2, <2>3, <2>4, SquareIsMul
<1>4. f \in Polynomials /\ Deg(f) = Deg(g) + 1
  BY FactorCoef
<1>5. h \in Polynomials /\ Deg(h) = Deg(g)
  BY SquaresCoef
<1>6. p \in Polynomials /\ Deg(p) = Deg(f)
  BY <1>4, SquaresCoef
<1>7. q \in Polynomials /\ Deg(q) = Deg(h) + 1
  BY <1>2, <1>5, FactorCoef
<1>8. \A j \in Int : /\ Coef(f, j) = Plus(gf_mul(Coef(g, j), a), Coef(g, j - 1))
                     /\ Coef(q, j) = Plus(gf_mul(Coef(h, j), b), Coef(h, j - 1))
                     /\ Coef(h, j) = gf_sqr(Coef(g, j))
                     /\ Coef(p, j) = gf_sqr(Coef(f, j))
  BY <1>2, <1>4, <1>5, FactorCoef, SquaresCoef
<1> HIDE DEF a, b, f, h, p, q, s2
<1>9. \A j \in Int : Coef(p, j) = Coef(q, j)
  <2> TAKE j \in Int
  <2> DEFINE x == Coef(g, j)
             y == Coef(g, j - 1)
             z == gf_mul(x, a)
  <2>1. x \in Elements /\ y \in Elements
    BY CoefElement
  <2>2. j - 1 \in Int
    OBVIOUS
  <2>3. Coef(p, j) = gf_sqr(Plus(z, y)) /\ Coef(q, j) = Plus(gf_mul(gf_sqr(x), b), gf_sqr(y))
    BY <1>8, <2>2
  <2> HIDE DEF x, y
  <2>4. z \in Elements
    BY <1>3, <2>1, FieldOps
  <2>5. gf_sqr(Plus(z, y)) = Plus(gf_sqr(z), gf_sqr(y))
    BY <2>1, <2>4, SquarePlus
  <2>6. gf_sqr(z) = gf_mul(gf_sqr(x), b)
    <3>1. gf_sqr(z) = gf_mul(z, gf_mul(x, a))
      BY <2>4, SquareIsMul
    <3>2. gf_mul(z, gf_mul(x, a)) = gf_mul(gf_mul(z, x), a)
      BY <1>3, <2>1, <2>4, MulAssociates
    <3>3. gf_mul(z, x) = gf_mul(x, gf_mul(x, a))
      BY <2>1, <2>4, MulCommutes
    <3>4. gf_mul(x, gf_mul(x, a)) = gf_mul(gf_mul(x, x), a)
      BY <1>3, <2>1, MulAssociates
    <3>5. gf_mul(x, x) \in Elements /\ gf_mul(x, x) = gf_sqr(x)
      BY <2>1, FieldOps, SquareIsMul
    <3>6. gf_mul(gf_mul(gf_sqr(x), a), a) = gf_mul(gf_sqr(x), gf_mul(a, a))
      BY <1>3, <3>5, MulAssociates
    <3>7. gf_mul(a, a) = b
      BY <1>3, SquareIsMul
    <3> QED
      BY <3>1, <3>2, <3>3, <3>4, <3>5, <3>6, <3>7
  <2> QED
    BY <2>3, <2>5, <2>6
<1>10. p = q
  BY <1>4, <1>5, <1>6, <1>7, <1>9, PolyEqual
<1> QED
  BY <1>2, <1>10 DEF p, q, f, h, s2

\* Conjugates that come before stay before, and the first to come again is the
\* first of its class.
LEMMA BeforeDoubled ==
  ASSUME NEW i \in Nat, NEW j \in Nat, Root(i, j) \in Before(i, j)
  PROVE  Root(i, j + 1) \in Before(i, j + 1)
<1>1. M \in Nat /\ M >= 1
  BY Sizes
<1>2. Root(i, j + 1) = Doubled(Root(i, j))
  BY RootSteps
<1>3. CASE \E h \in 0 .. i-1 : \E l \in 0 .. M-1 : Root(i, j) = Root(h, l)
  <2> PICK h \in 0 .. i-1, l \in 0 .. M-1 : Root(i, j) = Root(h, l)
    BY <1>3
  <2>1. h \in Nat /\ l \in Nat
    BY <1>1
  <2>2. Root(i, j + 1) = Root(h, l + 1)
    BY <1>2, <2>1, RootSteps
  <2>3. Root(h, M) = Root(h, 0)
    BY <2>1, RootSteps
  <2>4. \E k \in 0 .. M-1 : Root(i, j + 1) = Root(h, k)
    <3>1. CASE l = M - 1
      <4>1. l + 1 = M /\ 0 \in 0 .. M-1
        BY <1>1, <3>1
      <4> QED
        BY <2>2, <2>3, <4>1
    <3>2. CASE l # M - 1
      <4>1. l + 1 \in 0 .. M-1
        BY <1>1, <3>2
      <4> QED
        BY <2>2, <4>1
    <3> QED
      BY <3>1, <3>2
  <2> QED
    BY <2>4 DEF Before
<1>4. CASE \E l \in 0 .. j-1 : Root(i, j) = Root(i, l)
  <2> PICK l \in 0 .. j-1 : Root(i, j) = Root(i, l)
    BY <1>4
  <2>1. l \in Nat /\ l + 1 \in 0 .. (j+1)-1
    OBVIOUS
  <2>2. Root(i, j + 1) = Root(i, l + 1)
    BY <1>2, <2>1, RootSteps
  <2> QED
    BY <2>1, <2>2 DEF Before
<1> QED
  BY <1>3, <1>4 DEF Before

LEMMA FirstRepeated ==
  ASSUME NEW i \in Nat, NEW j \in Nat, Root(i, j + 1) \in Before(i, j + 1),
         Root(i, j) \notin Before(i, j)
  PROVE  Root(i, j + 1) = Root(i, 0)
<1> SUFFICES ASSUME Root(i, j + 1) # Root(i, 0) PROVE Root(i, j) \in Before(i, j)
  OBVIOUS
<1>1. M \in Nat /\ M >= 1
  BY Sizes
<1>2. Root(i, j + 1) = Doubled(Root(i, j)) /\ Root(i, j) \in Logs
  BY RootSteps
<1>3. CASE \E h \in 0 .. i-1 : \E l \in 0 .. M-1 : Root(i, j + 1) = Root(h, l)
  <2> PICK h \in 0 .. i-1, l \in 0 .. M-1 : Root(i, j + 1) = Root(h, l)
    BY <1>3
  <2>1. h \in Nat /\ Root(h, M) = Root(h, 0)
    BY RootSteps
  <2>2. \E k \in 0 .. M-1 : Root(i, j + 1) = Root(h, k + 1)
    <3>1. CASE l = 0
      <4>1. (M - 1) + 1 = M /\ M - 1 \in 0 .. M-1
        BY <1>1
      <4> QED
        BY <2>1, <3>1, <4>1
    <3>2. CASE l # 0
      <4>1. (l - 1) + 1 = l /\ l - 1 \in 0 .. M-1
        BY <1>1, <3>2
      <4> QED
        BY <4>1
    <3> QED
      BY <3>1, <3>2
  <2> PICK k \in 0 .. M-1 : Root(i, j + 1) = Root(h, k + 1)
    BY <2>2
  <2>3. k \in Nat
    BY <1>1
  <2>4. Root(h, k + 1) = Doubled(Root(h, k)) /\ Root(h, k) \in Logs
    BY <2>1, <2>3, RootSteps
  <2>5. Root(i, j) = Root(h, k)
    BY <1>2, <2>4, DoubledInjective
  <2> QED
    BY <2>5 DEF Before
<1>4. CASE \E l \in 0 .. (j+1)-1 : Root(i, j + 1) = Root(i, l)
  <2> PICK l \in 0 .. (j+1)-1 : Root(i, j + 1) = Root(i, l)
    BY <1>4
  <2>1. l # 0
    OBVIOUS
  <2>2. l - 1 \in 0 .. j-1 /\ l - 1 \in Nat /\ (l - 1) + 1 = l
    BY <2>1
  <2>3. Root(i, l) = Doubled(Root(i, l - 1)) /\ Root(i, l - 1) \in Logs
    BY <2>2, RootSteps
  <2>4. Root(i, j) = Root(i, l - 1)
    BY <1>2, <2>3, DoubledInjective
  <2> QED
    BY <2>2, <2>4 DEF Before
<1> QED
  BY <1>3, <1>4 DEF Before

\* Until the class is complete, squaring its product so far moves the factor
\* of the first root to that of the next one.
LEMMA ClassFixed ==
  ASSUME NEW i \in Nat, NEW k \in {0, 1}, i = 0 \/ k = 1, NEW g \in Monic(k), Squares(g) = g
  PROVE  Squares(Class(g, i)) = Class(g, i)
<1> DEFINE t == Parts(i, g)
           r0 == Root(i, 0)
           Closed(j) == Root(i, j) \in Before(i, j) /\ Squares(t[j]) = t[j]
           Open(j) == /\ j = 0 \/ Root(i, j - 1) \notin Before(i, j - 1)
                      /\ Factor(Squares(t[j]), r0) = Factor(t[j], Root(i, j))
           Good == {j \in 0..M : Closed(j) \/ Open(j)}
<1>1. M \in Nat /\ M >= 1
  BY Sizes
<1>2. /\ Class(g, i) = t[M] /\ Class(g, i) \in Monic(1) /\ t[0] = g
      /\ \A j \in 1..M : /\ t[j-1] \in Monic(k)
                         /\ t[j] = IF Root(i, j-1) \in Before(i, j-1) THEN t[j-1]
                                   ELSE Factor(t[j-1], Root(i, j-1))
  BY PartsMonic
<1> HIDE DEF t
<1>3. r0 \in Logs
  BY RootSteps
<1>4. 0 \in Good
  BY <1>1, <1>2
<1>5. \A j \in Nat : j > 0 /\ Open(j) /\ Root(i, j) \in Before(i, j) => Root(i, j) = r0
  <2> SUFFICES ASSUME NEW j \in Nat, j > 0, Open(j), Root(i, j) \in Before(i, j)
               PROVE  Root(i, j) = r0
    OBVIOUS
  <2>1. j - 1 \in Nat /\ (j - 1) + 1 = j /\ Root(i, j - 1) \notin Before(i, j - 1)
    OBVIOUS
  <2> QED
    BY <2>1, FirstRepeated
<1>6. \A j \in 0 .. M-1 : j \in Good => j + 1 \in Good
  <2> SUFFICES ASSUME NEW j \in 0 .. M-1, Closed(j) \/ Open(j)
               PROVE  Closed(j + 1) \/ Open(j + 1)
    BY <1>1
  <2> DEFINE r == Root(i, j)
             p == t[j]
             q == t[j+1]
             rn == Root(i, j + 1)
  <2>1. j \in Nat /\ j + 1 \in 1..M /\ (j + 1) - 1 = j
    BY <1>1
  <2>2. r \in Logs /\ rn = Doubled(r)
    BY <2>1, RootSteps
  <2>3. p \in Polynomials /\ q = IF r \in Before(i, j) THEN p ELSE Factor(p, r)
    BY <1>2, <2>1 DEF Monic
  <2>4. Squares(p) \in Polynomials
    BY <2>3, SquaresCoef
  <2>5. CASE r \in Before(i, j)
    <3>1. rn \in Before(i, j + 1)
      BY <2>1, <2>5, BeforeDoubled
    <3>2. Squares(p) = p
      <4>1. CASE Closed(j)
        BY <4>1
      <4>2. CASE Open(j) /\ j = 0
        BY <1>2, <4>2
      <4>3. CASE Open(j) /\ j > 0
        <5>1. r = r0
          BY <1>5, <2>1, <2>5, <4>3
        <5>2. Factor(Squares(p), r0) = Factor(p, r0)
          BY <4>3, <5>1
        <5> QED
          BY <1>3, <2>3, <2>4, <5>2, FactorInjective
      <4> QED
        BY <2>1, <4>1, <4>2, <4>3
    <3> QED
      BY <2>3, <2>5, <3>1, <3>2
  <2>6. CASE r \notin Before(i, j)
    <3>1. Factor(Squares(p), r0) = Factor(p, r)
      BY <2>6
    <3>2. q = Factor(p, r)
      BY <2>3, <2>6
    <3>3. Squares(q) = Factor(Squares(p), rn) /\ rn \in Logs
      BY <2>2, <2>3, <3>2, FactorSquares
    <3>4. Factor(Factor(Squares(p), rn), r0) = Factor(Factor(Squares(p), r0), rn)
      BY <1>3, <2>4, <3>3, FactorCommutes
    <3>5. Factor(Squares(q), r0) = Factor(q, rn)
      BY <3>1, <3>2, <3>3, <3>4
    <3>6. Root(i, (j + 1) - 1) \notin Before(i, (j + 1) - 1)
      BY <2>1, <2>6
    <3> QED
      BY <3>5, <3>6
  <2> QED
    BY <2>5, <2>6
<1> HIDE DEF Good
<1>7. M \in 0..M /\ 0..M \subseteq Good
  BY <1>1, <1>4, <1>6, Induction
<1>8. Closed(M) \/ Open(M)
  BY <1>7 DEF Good
<1>9. CASE Closed(M)
  BY <1>2, <1>9
<1>10. CASE Open(M)
  <2>1. Root(i, M) = r0
    BY RootSteps
  <2>2. Factor(Squares(t[M]), r0) = Factor(t[M], r0)
    BY <1>10, <2>1
  <2>3. t[M] \in Polynomials
    BY <1>2 DEF Monic
  <2>4. Squares(t[M]) \in Polynomials
    BY <2>3, SquaresCoef
  <2> QED
    BY <1>2, <1>3, <2>2, <2>3, <2>4, FactorInjective
<1> QED
  BY <1>8, <1>9, <1>10

LEMMA GeneratorFixed == Squares(generator) = generator /\ generator \in Monic(1)
<1> DEFINE t == Products(T)
           Good == {i \in 0..T : Squares(t[i]) = t[i]}
<1>1. T \in Nat /\ T >= 1
  BY Sizes
<1>2. /\ generator = t[T] /\ generator \in Monic(1) /\ t[0] = Constant(One)
      /\ \A i \in 1..T : t[i] = Class(t[i-1], i - 1) /\ t[i] \in Monic(1)
  BY <1>1, ProductMonic DEF generator
<1> HIDE DEF t
<1>3. Squares(Constant(One)) = Constant(One) /\ Constant(One) \in Monic(0)
  <2> DEFINE c == Constant(One)
             q == Squares(c)
  <2>1. c \in Polynomials /\ Deg(c) = 0 /\ Coef(c, 0) = One
    BY OneElement, ConstantType
  <2>2. c \in Monic(0)
    BY <2>1 DEF Monic
  <2> HIDE DEF c
  <2>3. q \in Polynomials /\ Deg(q) = 0 /\ \A j \in Int : Coef(q, j) = gf_sqr(Coef(c, j))
    BY <2>1, SquaresCoef
  <2>4. gf_sqr(One) = One /\ gf_sqr(Zero) = Zero
    <3>1. gf_sqr(One) = One
      BY OneElement, SquareIsMul, MulZeroOne
    <3> QED
      BY <3>1 DEF gf_sqr
  <2> HIDE DEF q
  <2>5. \A j \in Int : Coef(q, j) = Coef(c, j)
    <3> TAKE j \in Int
    <3>1. CASE j = 0
      BY <2>1, <2>3, <2>4, <3>1
    <3>2. CASE j # 0
      <4>1. j \notin 0..0
        BY <3>2
      <4>2. Coef(c, j) = Zero
        BY <2>1, <4>1 DEF Coef
      <4> QED
        BY <2>3, <2>4, <4>2
    <3> QED
      BY <3>1, <3>2
  <2>6. q = c
    BY <2>1, <2>3, <2>5, PolyEqual
  <2> QED
    BY <2>2, <2>6 DEF q, c
<1>4. 0 \in Good
  BY <1>1, <1>2, <1>3
<1>5. \A i \in 0 .. T-1 : i \in Good => i + 1 \in Good
  <2> SUFFICES ASSUME NEW i \in 0 .. T-1, Squares(t[i]) = t[i]
               PROVE  Squares(t[i+1]) = t[i+1]
    BY <1>1
  <2>1. i \in Nat /\ i + 1 \in 1..T /\ (i + 1) - 1 = i
    BY <1>1
  <2>2. t[i+1] = Class(t[i], i)
    BY <1>2, <2>1
  <2>3. CASE i = 0
    <3>1. t[i] \in Monic(0)
      BY <1>2, <1>3, <2>3
    <3> QED
      BY <2>1, <2>2, <2>3, <3>1, ClassFixed
  <2>4. CASE i # 0
    <3>1. i \in 1..T
      BY <1>1, <2>4
    <3>2. t[i] \in Monic(1)
      BY <1>2, <3>1
    <3> QED
      BY <2>1, <2>2, <3>2, ClassFixed
  <2> QED
    BY <2>3, <2>4
<1> HIDE DEF Good
<1>6. T \in 0..T /\ 0..T \subseteq Good
  BY <1>1, <1>4, <1>5, Induction
<1> QED
  BY <1>2, <1>6 DEF Good

\* So its coefficients, equal to their squares, are zero or one.
LEMMA GeneratorBinary ==
  \A j \in Int : Coef(generator, j) \in {Zero, One}
<1> SUFFICES ASSUME NEW j \in Int PROVE Coef(generator, j) \in {Zero, One}
  OBVIOUS
<1> DEFINE c == Coef(generator, j)
           x == Plus(c, One)
<1>1. generator \in Polynomials /\ Squares(generator) = generator
  BY GeneratorFixed DEF Monic
<1>2. gf_sqr(c) = c
  BY <1>1, SquaresCoef
<1>3. c \in Elements /\ One \in Elements
  BY <1>1, CoefElement, OneElement
<1> HIDE DEF c
<1>4. gf_mul(c, x) = Zero
  <2>1. gf_mul(c, x) = Plus(gf_mul(c, c), gf_mul(c, One))
    BY <1>3, MulDistributes
  <2>2. gf_mul(c, c) = c
    BY <1>2, <1>3, SquareIsMul
  <2>3. gf_mul(c, One) = c
    BY <1>3, MulCommutes, MulZeroOne
  <2> QED
    BY <2>1, <2>2, <2>3, PlusZero
<1>5. x \in Elements
  BY <1>3, PlusElement
<1>6. x = Zero => c = One
  BY PlusZero
<1> HIDE DEF x
<1>7. c = Zero \/ x = Zero
  BY <1>3, <1>4, <1>5, MulNonzero
<1> QED
  BY <1>6, <1>7 DEF c

\* genpoly is the generator.
LEMMA GenpolyValue ==
  ASSUME NEW r \in Nat
  PROVE  Value(genpoly, r) = Eval(generator, r)
<1> DEFINE d == ecc_bits
           S == Span(0, d)
           h == [i \in Nat |-> a_pow(r * i)]
           f == Summands(generator, r)
           g == genpoly
<1>1. generator \in Polynomials /\ Deg(generator) = d /\ d \in Nat
  BY GeneratorFixed, PolynomialType DEF Monic, ecc_bits
<1>2. g \in SUBSET S /\ S \subseteq Nat
  BY <1>1 DEF genpoly, Span
<1>3. \A j \in S \ g : f[j] = {}
  <2> SUFFICES ASSUME NEW j \in S \ g PROVE f[j] = {}
    OBVIOUS
  <2>1. j \in Nat /\ Coef(generator, j) = Zero
    BY <1>2 DEF genpoly, Span
  <2>2. f[j] = gf_mul(Zero, a_pow(r * j)) /\ a_pow(r * j) \in Elements
    BY <1>1, <2>1, SummandElement
  <2> QED
    BY <2>2, MulZeroOne DEF Zero
<1>4. \A j \in g : f[j] = h[j]
  <2> SUFFICES ASSUME NEW j \in g PROVE f[j] = h[j]
    OBVIOUS
  <2>1. j \in Nat /\ Coef(generator, j) # Zero
    BY <1>2 DEF genpoly
  <2>2. Coef(generator, j) = One
    BY <2>1, GeneratorBinary
  <2>3. f[j] = gf_mul(One, a_pow(r * j)) /\ a_pow(r * j) \in Elements
    BY <1>1, <2>1, <2>2, SummandElement
  <2>4. h[j] = a_pow(r * j)
    BY <2>1
  <2> QED
    BY <2>3, <2>4, MulZeroOne
<1>5. IsFiniteSet(S)
  <2>1. 0 \in Int /\ d \in Int
    BY <1>1
  <2> QED
    BY <2>1, FS_Interval DEF Span
<1>6. Eval(generator, r) = SumOf(S, f) /\ Value(g, r) = SumOf(g, h)
  BY <1>1 DEF Eval, Value
<1> HIDE DEF S, h, f, g
<1>7. SumOf(S, f) = SumOf(g, f)
  <2>1. g \in SUBSET S
    BY <1>2
  <2> QED
    BY <1>3, <1>5, <2>1, SumWithin
<1>8. SumOf(g, f) = SumOf(g, h)
  BY <1>4, SumSame
<1> QED
  BY <1>6, <1>7, <1>8 DEF g

\* Two codewords differ in nothing, or in more than 2T bits.
LEMMA CodewordDistance ==
  ASSUME NEW u \in Below(8 * Bytes), NEW w \in Below(8 * Bytes), 8 * Bytes + ecc_bits <= N,
         u # w
  PROVE  Cardinality(Plus(u, w)) + Cardinality(Plus(bch_encode(u), bch_encode(w))) >= 2 * T + 1
<1> DEFINE c == Differing(u, w)
           k == 2 * T
           p == Cardinality(Plus(bch_encode(u), bch_encode(w)))
           q == Cardinality(Plus(u, w))
           Good == {n \in 0..k : \A m \in 1..n : Value(c, m) = Zero}
<1>1. T \in Nat /\ k \in Nat
  BY Sizes
<1>2. c \in SUBSET Logs /\ Binary(c) /\ Cardinality(c) = p + q /\ p \in Nat /\ q \in Nat
  BY DifferingSize
<1>3. \A i \in 0 .. T-1 : Value(c, 2 * i + 1) = Zero
  <2> TAKE i \in 0 .. T-1
  <2>1. 2 * i + 1 \in Nat
    OBVIOUS
  <2>2. RootOfG(2 * i + 1)
    BY <2>1, GeneratorVanishes, GenpolyValue DEF RootOfG
  <2> QED
    BY <2>2, DifferingValue
<1> HIDE DEF c
<1>4. \A n \in 0 .. k-1 : n \in Good => n + 1 \in Good
  <2> SUFFICES ASSUME NEW n \in 0 .. k-1, \A m \in 1..n : Value(c, m) = Zero
               PROVE  \A m \in 1 .. n+1 : Value(c, m) = Zero
    BY <1>1
  <2> SUFFICES Value(c, n + 1) = Zero
    OBVIOUS
  <2> DEFINE j == (n + 1) \div 2
  <2>1. j \in Nat /\ (n + 1 = 2 * j \/ n + 1 = 2 * j + 1)
    OBVIOUS
  <2> HIDE DEF j
  <2>2. CASE n + 1 = 2 * j
    <3>1. j \in 1..n
      BY <2>1, <2>2
    <3>2. Value(c, j) = Zero
      BY <3>1
    <3>3. Value(c, 2 * j) = gf_sqr(Value(c, j))
      BY <1>2, <2>1, ValueSquared
    <3> QED
      BY <2>2, <3>2, <3>3 DEF gf_sqr
  <2>3. CASE n + 1 = 2 * j + 1
    <3>1. j \in 0 .. T-1
      BY <1>1, <2>1, <2>3
    <3> QED
      BY <1>3, <2>3, <3>1
  <2> QED
    BY <2>1, <2>2, <2>3
<1>5. 0 \in Good
  BY <1>1
<1> HIDE DEF Good, k
<1>6. k \in 0..k /\ 0..k \subseteq Good
  BY <1>1, <1>4, <1>5, Induction
<1>7. \A m \in 1..k : Value(c, m) = Zero
  BY <1>6 DEF Good
<1>8. Cardinality(c) <= k => c = {}
  BY <1>1, <1>2, <1>7, BoundOfRoots
<1>9. c # {}
  <2>1. IsFiniteSet(Plus(u, w)) /\ IsFiniteSet(c)
    <3>1. 8 * Bytes \in Nat
      BY Sizes
    <3>2. Plus(u, w) \in Below(8 * Bytes)
      BY BelowPlus
    <3> QED
      BY <1>2, <3>1, <3>2, BelowFinite DEF Binary
  <2>2. Plus(u, w) # {}
    BY PlusZero DEF Zero
  <2>3. q # 0
    BY <2>1, <2>2, FS_EmptySet
  <2> QED
    BY <1>2, <2>1, <2>3, FS_EmptySet
<1>10. ~ (p + q <= k)
  BY <1>2, <1>8, <1>9
<1> QED
  BY <1>1, <1>2, <1>10 DEF p, q, k

-----------------------------------------------------------------------------
\* The discrepancies

\* The coefficient of X^m in the product of p and the series u.
Disc(p, u, m) == SumOf(Span(0, m), [l \in Nat |-> gf_mul(u[l], Coef(p, m - l))])

\* 1 and the power sums: the square of the series keeps its even terms.
Series(u) ==
  /\ u \in [Nat -> Elements] /\ u[0] = One
  /\ \A i \in Nat : u[2 * i] = gf_sqr(u[i])

LEMMA SpanFinite ==
  ASSUME NEW m \in Int
  PROVE  /\ IsFiniteSet(Span(0, m))
         /\ \A i : i \in Span(0, m) <=> i \in Nat /\ i <= m
BY FS_Interval DEF Span

LEMMA CoefOutside ==
  ASSUME NEW p \in Polynomials, NEW j \in Int
  PROVE  /\ Deg(p) \in Nat /\ Coef(p, j) \in Elements
         /\ (j < 0 \/ j > Deg(p)) => Coef(p, j) = Zero
<1>1. Deg(p) \in Nat /\ Coef(p, j) \in Elements
  BY PolynomialType, CoefElement
<1> QED
  BY <1>1 DEF Coef

LEMMA DiscElement ==
  ASSUME NEW p \in Polynomials, NEW u, Series(u), NEW m \in Int
  PROVE  Disc(p, u, m) \in Elements
<1> DEFINE S == Span(0, m)
           h == [l \in Nat |-> gf_mul(u[l], Coef(p, m - l))]
<1>1. \A l \in S : h[l] \in Below(M)
  <2> TAKE l \in S
  <2>1. l \in Nat /\ m - l \in Int
    BY SpanFinite
  <2>2. u[l] \in Elements /\ Coef(p, m - l) \in Elements
    BY <2>1, CoefOutside DEF Series
  <2>3. gf_mul(u[l], Coef(p, m - l)) \in Below(M)
    BY <2>2, FieldOps, PrimReducing
  <2> QED
    BY <2>1, <2>3
<1> HIDE DEF S, h
<1>2. SumOf(S, h) \in Below(M)
  BY <1>1, SumBelow
<1> QED
  BY <1>2, PrimReducing DEF Disc, S, h

\* The square of the series times p, as a double sum.
LEMMA DiscTwice ==
  ASSUME NEW p \in Polynomials, NEW u, Series(u), NEW k \in Nat,
         NEW f, \A i \in Span(0, k) : f[i] = gf_mul(u[i], Disc(p, u, k - i)),
         NEW g, \A i \in Span(0, k) : g[i] = gf_mul(gf_sqr(u[i]), Coef(p, k - 2 * i))
  PROVE  SumOf(Span(0, k), f) = SumOf(Span(0, k), g)
<1> DEFINE A == Span(0, k)
           h == [i \in Nat |-> [l \in Nat |-> gf_mul(gf_mul(u[i], u[l]), Coef(p, k - i - l))]]
<1>1. IsFiniteSet(A) /\ \A i \in A : i \in Nat /\ i <= k
  BY SpanFinite
<1>2. \A i \in Nat : u[i] \in Elements
  BY DEF Series
<1>3. \A i \in A : \A l \in A : h[i][l] = h[l][i]
  <2> TAKE i \in A
  <2> TAKE l \in A
  <2>1. i \in Nat /\ l \in Nat /\ k - i - l = k - l - i
    BY <1>1
  <2>2. gf_mul(u[i], u[l]) = gf_mul(u[l], u[i])
    BY <1>2, <2>1, MulCommutes
  <2> QED
    BY <2>1, <2>2
<1>4. \A i \in A : g[i] = h[i][i]
  <2> TAKE i \in A
  <2>1. i \in Nat /\ k - i - i = k - 2 * i
    BY <1>1
  <2>2. gf_sqr(u[i]) = gf_mul(u[i], u[i])
    BY <1>2, <2>1, SquareIsMul
  <2> QED
    BY <2>1, <2>2
<1>5. \A i \in A : f[i] = SumOf(A, h[i])
  <2> TAKE i \in A
  <2> DEFINE m == k - i
             B == Span(0, m)
             q == [l \in Nat |-> gf_mul(u[l], Coef(p, m - l))]
             r == h[i]
  <2>1. i \in Nat /\ m \in Nat /\ m <= k /\ u[i] \in Elements
    BY <1>1, <1>2
  <2>2. IsFiniteSet(B) /\ B \in SUBSET A /\ \A l \in A : l \in Nat /\ (l \notin B => m - l < 0)
    BY <2>1, SpanFinite
  <2>3. \A l \in A : /\ r[l] = gf_mul(gf_mul(u[i], u[l]), Coef(p, m - l))
                     /\ q[l] = gf_mul(u[l], Coef(p, m - l))
    BY <2>1, <2>2
  <2>4. f[i] = gf_mul(u[i], SumOf(B, q))
    BY DEF Disc
  <2> HIDE DEF r, q, m, B, A
  <2>5. \A l \in A : /\ u[l] \in Elements /\ Coef(p, m - l) \in Elements
                     /\ l \notin B => Coef(p, m - l) = Zero
    <3> TAKE l \in A
    <3>0. l \in Nat
      BY <1>1
    <3>1. l \in Nat /\ m - l \in Int
      BY <2>1, <3>0
    <3>2. Coef(p, m - l) \in Elements /\ (m - l < 0 => Coef(p, m - l) = Zero)
      BY <3>1, CoefOutside
    <3> QED
      BY <1>2, <2>2, <3>1, <3>2
  <2>6. \A l \in B : q[l] \in Elements /\ r[l] = gf_mul(u[i], q[l])
    <3> TAKE l \in B
    <3>1. l \in A
      BY <2>2
    <3>2. u[i] \in Elements /\ u[l] \in Elements /\ Coef(p, m - l) \in Elements
      BY <2>1, <2>5, <3>1
    <3>3. /\ q[l] = gf_mul(u[l], Coef(p, m - l))
          /\ r[l] = gf_mul(gf_mul(u[i], u[l]), Coef(p, m - l))
      BY <2>3, <3>1
    <3> QED
      <4>1. gf_mul(u[l], Coef(p, m - l)) \in Elements
        BY <3>2, FieldOps
      <4>2. gf_mul(gf_mul(u[i], u[l]), Coef(p, m - l)) = gf_mul(u[i], gf_mul(u[l], Coef(p, m - l)))
        BY <3>2, MulAssociates
      <4> QED
        BY <3>3, <4>1, <4>2
  <2>7. gf_mul(u[i], SumOf(B, q)) = SumOf(B, r)
    <3>1. u[i] \in Elements /\ IsFiniteSet(B)
      BY <2>1, <2>2
    <3>2. \A l \in B : q[l] \in Elements
      BY <2>6
    <3>3. \A l \in B : r[l] = gf_mul(u[i], q[l])
      BY <2>6
    <3> DEFINE c == u[i]
    <3> HIDE DEF c
    <3>4. gf_mul(c, SumOf(B, q)) = SumOf(B, r)
      BY <3>1, <3>2, <3>3, ScaledSumTo DEF c
    <3> QED
      BY <3>4 DEF c
  <2>8. \A l \in A \ B : r[l] = {}
    <3> TAKE l \in A \ B
    <3>1. Coef(p, m - l) = Zero /\ gf_mul(u[i], u[l]) \in Elements
      BY <2>1, <2>5, FieldOps
    <3>2. gf_mul(gf_mul(u[i], u[l]), Zero) = Zero
      BY <3>1, MulZeroOne
    <3> QED
      BY <2>3, <3>1, <3>2 DEF Zero
  <2>9. SumOf(A, r) = SumOf(B, r)
    BY <1>1, <2>2, <2>8, SumWithin
  <2> QED
    BY <2>4, <2>7, <2>9 DEF r
<1> HIDE DEF A, h
<1>6. SumOf(A, f) = SumOf(A, g)
  BY <1>1, <1>3, <1>4, <1>5, SumSymmetric
<1> QED
  BY <1>6 DEF A

\* When no odd power is left in the product below X^(n+1), its even powers up to
\* there are those of p.
LEMMA EvenDisc ==
  ASSUME NEW p \in Polynomials, NEW u, Series(u), NEW n \in Nat,
         \A m \in 0..n : m % 2 = 1 => Disc(p, u, m) = Zero
  PROVE  \A m \in 0 .. n+1 : m % 2 = 0 => Disc(p, u, m) = Coef(p, m)
<1> DEFINE e == n + 1
           Even(m) == m % 2 = 0 => Disc(p, u, m) = Coef(p, m)
           Good == {k \in 0..e : \A m \in 0..k : Even(m)}
<1>1. \A k \in 0..e : (\A m \in 0 .. k-1 : Even(m)) => Even(k)
  <2> SUFFICES ASSUME NEW k \in 0..e, \A m \in 0 .. k-1 : Even(m), k % 2 = 0
               PROVE  Disc(p, u, k) = Coef(p, k)
    OBVIOUS
  <2> DEFINE A == Span(0, k)
             f == [i \in Nat |-> gf_mul(u[i], Disc(p, u, k - i))]
             d == [i \in Nat |-> gf_mul(gf_sqr(u[i]), Coef(p, k - 2 * i))]
             g == [i \in Nat |-> gf_mul(u[i], Coef(p, k - i))]
             H == {i \in A : 2 * i <= k}
             V == {2 * i : i \in H}
             dbl == [i \in Nat |-> 2 * i]
  <2>1. IsFiniteSet(A) /\ (\A i : i \in A <=> i \in Nat /\ i <= k) /\ k \in Nat
    BY SpanFinite
  <2>2. \A i \in A : i \in Nat
    BY <2>1
  <2>3. \A i \in Nat : u[i] \in Elements /\ u[2 * i] = gf_sqr(u[i])
    BY DEF Series
  <2>4. SumOf(A, f) = SumOf(A, d)
    <3>1. /\ \A i \in A : f[i] = gf_mul(u[i], Disc(p, u, k - i))
          /\ \A i \in A : d[i] = gf_mul(gf_sqr(u[i]), Coef(p, k - 2 * i))
      BY <2>2
    <3> HIDE DEF f, d
    <3> QED
      BY <2>1, <3>1, DiscTwice
  <2>5. SumOf(A, d) = SumOf(H, d)
    <3>1. \A i \in A \ H : d[i] = {}
      <4> TAKE i \in A \ H
      <4>1. i \in Nat /\ k - 2 * i \in Int /\ k - 2 * i < 0
        BY <2>1
      <4>2. Coef(p, k - 2 * i) = Zero
        BY <4>1, CoefOutside
      <4>3. gf_sqr(u[i]) \in Elements
        BY <2>3, <4>1, FieldOps
      <4>4. gf_mul(gf_sqr(u[i]), Zero) = Zero
        BY <4>3, MulZeroOne
      <4> QED
        BY <4>1, <4>2, <4>4 DEF Zero
    <3>2. H \in SUBSET A
      OBVIOUS
    <3> HIDE DEF d, H, A
    <3> QED
      BY <2>1, <3>1, <3>2, SumWithin
  <2>6. SumOf(V, g) = SumOf(H, d)
    <3>1. IsFiniteSet(H)
      BY <2>1, FS_Subset
    <3>2. \A i \in H : i \in Nat /\ dbl[i] = 2 * i
      BY <2>2
    <3>3. \A x \in H : \A y \in H : dbl[x] = dbl[y] => x = y
      BY <3>2
    <3>4. \A i \in H : d[i] = g[dbl[i]]
      <4> TAKE i \in H
      <4>0. i \in A
        OBVIOUS
      <4>1. i \in Nat /\ 2 * i \in Nat
        BY <2>2, <4>0
      <4>2. d[i] = gf_mul(gf_sqr(u[i]), Coef(p, k - 2 * i)) /\ g[2 * i] = gf_mul(u[2 * i], Coef(p, k - 2 * i))
        BY <4>1
      <4> QED
        BY <2>3, <3>2, <4>1, <4>2
    <3>5. V = {dbl[i] : i \in H}
      BY <3>2
    <3> HIDE DEF dbl, d, g, H, V
    <3> QED
      BY <3>1, <3>3, <3>4, <3>5, SumMapped
  <2>7. V \in SUBSET A /\ IsFiniteSet(V) /\ 0 \in V
    <3>1. V \subseteq A
      BY <2>1, <2>2
    <3>2. 0 \in H
      BY <2>1
    <3>3. 2 * 0 \in V
      BY <3>2
    <3> HIDE DEF V
    <3> QED
      BY <2>1, <3>1, <3>3, FS_Subset
  <2>8. \A i \in A \ V : f[i] = {}
    <3> TAKE i \in A \ V
    <3>1. i \in Nat /\ i <= k /\ i % 2 = 1
      <4>1. i \in Nat /\ i <= k
        BY <2>1
      <4>2. i % 2 = 0 => i = 2 * (i \div 2) /\ i \div 2 \in Nat /\ i \div 2 <= k
        BY <4>1
      <4>3. i % 2 = 0 => i \in V
        BY <2>1, <4>1, <4>2
      <4> QED
        BY <4>1, <4>3
    <3>2. (k - i) % 2 = 1 /\ k - i \in 0..n
      BY <2>1, <3>1
    <3>3. Disc(p, u, k - i) = Zero
      BY <3>2
    <3>4. gf_mul(u[i], Zero) = Zero
      BY <2>3, <3>1, MulZeroOne
    <3> QED
      BY <3>1, <3>3, <3>4 DEF Zero
  <2>9. \A i \in V \ {0} : f[i] = g[i]
    <3> TAKE i \in V \ {0}
    <3>1. i \in Nat /\ i <= k /\ i # 0
      BY <2>1, <2>7
    <3>2. i % 2 = 0
      <4>1. PICK h \in H : i = 2 * h
        OBVIOUS
      <4>2. h \in Nat
        BY <2>2
      <4> QED
        BY <4>1, <4>2
    <3>3. k - i \in 0 .. k-1 /\ (k - i) % 2 = 0
      BY <2>1, <3>1, <3>2
    <3>4. Disc(p, u, k - i) = Coef(p, k - i)
      BY <3>3
    <3> QED
      BY <3>1, <3>4
  <2>10. f[0] = Disc(p, u, k) /\ g[0] = Coef(p, k)
    <3>1. Disc(p, u, k) \in Elements /\ Coef(p, k) \in Elements /\ u[0] = One /\ k - 0 = k
      BY <2>1, DiscElement, CoefOutside DEF Series
    <3>2. f[0] = gf_mul(u[0], Disc(p, u, k - 0)) /\ g[0] = gf_mul(u[0], Coef(p, k - 0))
      OBVIOUS
    <3> QED
      BY <3>1, <3>2, MulZeroOne
  <2> HIDE DEF f, d, g, H, V, A
  <2>11. SumOf(A, f) = SumOf(V, f)
    BY <2>1, <2>7, <2>8, SumWithin
  <2> DEFINE W == V \ {0}
  <2>12. IsFiniteSet(W) /\ 0 \notin W /\ V = W \cup {0}
    BY <2>7, FS_Subset
  <2> HIDE DEF W
  <2>13. SumOf(V, f) = Plus(SumOf(W, f), f[0]) /\ SumOf(V, g) = Plus(SumOf(W, g), g[0])
    BY <2>12, SumAdd
  <2>14. SumOf(W, f) = SumOf(W, g)
    BY <2>9, SumSame DEF W
  <2>15. \A a, b, c : Plus(a, b) = Plus(a, c) => b = c
    BY Zenon DEF Plus
  <2> QED
    BY <2>4, <2>5, <2>6, <2>10, <2>11, <2>13, <2>14, <2>15
<1>2. e \in Nat
  OBVIOUS
<1> HIDE DEF e, Even
<1>3. 0 \in Good
  BY <1>1, <1>2
<1>4. \A k \in 0 .. e-1 : k \in Good => k + 1 \in Good
  <2> SUFFICES ASSUME NEW k \in 0 .. e-1, \A m \in 0..k : Even(m)
               PROVE  k + 1 \in Good
    OBVIOUS
  <2>1. k + 1 \in 0..e /\ (k + 1) - 1 = k
    BY <1>2
  <2>2. Even(k + 1)
    BY <1>1, <2>1
  <2>3. \A m \in 0 .. k+1 : Even(m)
    BY <1>2, <2>2
  <2> QED
    BY <2>1, <2>3
<1> HIDE DEF Good
<1>5. 0..e \subseteq Good /\ e \in 0..e
  BY <1>2, <1>3, <1>4, Induction
<1>6. \A m \in 0..e : Even(m)
  BY <1>5 DEF Good
<1> QED
  BY <1>6 DEF e, Even

\* A product's coefficient from the degree of p on, as the code sums it.
LEMMA DiscFrom ==
  ASSUME NEW p \in Polynomials, NEW u, Series(u), NEW m \in Nat, m >= Deg(p),
         NEW f, \A j \in Span(0, Deg(p)) : f[j] = gf_mul(Coef(p, j), u[m - j])
  PROVE  Disc(p, u, m) = SumOf(Span(0, Deg(p)), f)
<1> DEFINE B == Span(0, Deg(p))
           A == Span(0, m)
           g == [l \in Nat |-> gf_mul(u[l], Coef(p, m - l))]
           back == [j \in Nat |-> m - j]
           w == {back[j] : j \in B}
<1>1. Deg(p) \in Nat
  BY PolynomialType
<1>2. /\ IsFiniteSet(B) /\ (\A j : j \in B <=> j \in Nat /\ j <= Deg(p))
      /\ IsFiniteSet(A) /\ (\A l : l \in A <=> l \in Nat /\ l <= m)
  BY <1>1, SpanFinite
<1>3. \A j \in B : j \in Nat
  BY <1>2
<1>4. \A j \in B : back[j] = m - j /\ m - j \in Nat
  BY <1>1, <1>2, <1>3
<1>5. \A j \in B : f[j] = g[back[j]]
  <2> TAKE j \in B
  <2>1. j \in Nat
    BY <1>3
  <2>2. m - j \in Nat /\ back[j] = m - j
    BY <1>4
  <2>3. m - (m - j) = j
    BY <2>1
  <2>4. g[m - j] = gf_mul(u[m - j], Coef(p, m - (m - j)))
    BY <2>2
  <2>5. u[m - j] \in Elements /\ Coef(p, j) \in Elements
    BY <2>1, <2>2, CoefElement DEF Series
  <2>6. gf_mul(u[m - j], Coef(p, j)) = gf_mul(Coef(p, j), u[m - j])
    BY <2>5, MulCommutes
  <2>7. f[j] = gf_mul(Coef(p, j), u[m - j])
    OBVIOUS
  <2> QED
    BY <2>2, <2>3, <2>4, <2>6, <2>7
<1>6. \A x \in B : \A y \in B : back[x] = back[y] => x = y
  BY <1>3, <1>4
<1>7. w \in SUBSET A
  <2>1. \A j \in B : m - j \in A
    <3> TAKE j \in B
    <3>1. j \in Nat /\ m - j \in Nat
      BY <1>3, <1>4
    <3>2. m - j <= m
      BY <3>1
    <3> QED
      BY <1>2, <3>1, <3>2
  <2> QED
    BY <1>4, <2>1
<1>8. \A l \in A \ w : g[l] = {}
  <2> TAKE l \in A \ w
  <2>1. l \in Nat /\ l <= m
    BY <1>2
  <2>2. m - l > Deg(p)
    <3>1. SUFFICES ASSUME m - l <= Deg(p) PROVE FALSE
      BY <1>1, <2>1
    <3>2. m - l \in B
      BY <1>2, <2>1, <3>1
    <3>3. back[m - l] = m - (m - l) /\ m - (m - l) = l
      BY <1>4, <2>1, <3>2
    <3> QED
      BY <3>2, <3>3
  <2>3. Coef(p, m - l) = Zero
    BY <2>1, <2>2, CoefOutside
  <2>4. u[l] \in Elements
    BY <2>1 DEF Series
  <2> QED
    BY <2>1, <2>3, <2>4, MulZeroOne DEF Zero
<1> HIDE DEF A, B, g, w, back
<1>9. SumOf(A, g) = SumOf(w, g)
  BY <1>2, <1>7, <1>8, SumWithin
<1>10. SumOf(w, g) = SumOf(B, f)
  BY <1>2, <1>5, <1>6, SumMapped DEF w
<1> QED
  BY <1>9, <1>10 DEF Disc, A, B, g

\* The coefficients of a polynomial to which a multiple of X^k q is added.
LEMMA DiscLinear ==
  ASSUME NEW p \in Polynomials, NEW q \in Polynomials, NEW r \in Polynomials, NEW c \in Elements,
         NEW k \in Nat, \A j \in Int : Coef(r, j) = Plus(Coef(p, j), gf_mul(c, Coef(q, j - k))),
         NEW u, Series(u), NEW m \in Int
  PROVE  Disc(r, u, m) = Plus(Disc(p, u, m), gf_mul(c, Disc(q, u, m - k)))
<1> DEFINE A == Span(0, m)
           B == Span(0, m - k)
           e == [l \in Nat |-> gf_mul(u[l], Coef(r, m - l))]
           f == [l \in Nat |-> gf_mul(u[l], Coef(p, m - l))]
           g == [l \in Nat |-> gf_mul(u[l], Coef(q, m - k - l))]
           h == [l \in Nat |-> gf_mul(c, g[l])]
           s == [l \in A |-> Plus(f[l], h[l])]
<1>1. /\ IsFiniteSet(A) /\ (\A l : l \in A <=> l \in Nat /\ l <= m)
      /\ IsFiniteSet(B) /\ (\A l : l \in B <=> l \in Nat /\ l <= m - k)
  BY SpanFinite
<1>2. B \in SUBSET A
  BY <1>1
<1>3. \A l \in A : /\ l \in Nat /\ u[l] \in Elements /\ Coef(p, m - l) \in Elements
                   /\ Coef(q, m - k - l) \in Elements
                   /\ l \notin B => Coef(q, m - k - l) = Zero
  <2> TAKE l \in A
  <2>1. l \in Nat /\ m - l \in Int /\ m - k - l \in Int /\ (l \notin B => m - k - l < 0)
    BY <1>1
  <2> QED
    BY <2>1, CoefOutside DEF Series
<1>4. \A l \in A : e[l] = Plus(f[l], h[l])
  <2> TAKE l \in A
  <2> DEFINE x == Coef(p, m - l)
             y == Coef(q, m - k - l)
  <2>1. l \in Nat /\ u[l] \in Elements /\ x \in Elements /\ y \in Elements
    BY <1>3
  <2>2. /\ e[l] = gf_mul(u[l], Coef(r, m - l)) /\ f[l] = gf_mul(u[l], x)
        /\ h[l] = gf_mul(c, gf_mul(u[l], y))
    BY <2>1
  <2>3. Coef(r, m - l) = Plus(x, gf_mul(c, y))
    <3>1. m - l \in Int /\ (m - l) - k = m - k - l
      BY <2>1
    <3> QED
      BY <3>1
  <2> HIDE DEF x, y, e, f, h
  <2>4. gf_mul(u[l], Plus(x, gf_mul(c, y))) = Plus(gf_mul(u[l], x), gf_mul(u[l], gf_mul(c, y)))
    <3>1. gf_mul(c, y) \in Elements
      BY <2>1, FieldOps
    <3> QED
      BY <2>1, <3>1, MulDistributes
  <2>5. gf_mul(u[l], gf_mul(c, y)) = gf_mul(c, gf_mul(u[l], y))
    BY <2>1, MulAssociates, MulCommutes
  <2> QED
    BY <2>2, <2>3, <2>4, <2>5
<1>5. \A l \in A : g[l] \in Elements /\ (l \notin B => g[l] = {})
  <2> TAKE l \in A
  <2>1. g[l] = gf_mul(u[l], Coef(q, m - k - l))
    BY <1>3
  <2>2. u[l] \in Elements /\ Coef(q, m - k - l) \in Elements
    BY <1>3
  <2>3. l \notin B => gf_mul(u[l], Coef(q, m - k - l)) = Zero
    BY <1>3, <2>2, MulZeroOne
  <2> QED
    BY <2>1, <2>2, <2>3, FieldOps DEF Zero
<1>6. \A l \in A : h[l] = gf_mul(c, g[l])
  BY <1>3
<1>7. \A l \in A : e[l] = s[l]
  <2>1. \A l \in A : s[l] = Plus(f[l], h[l])
    OBVIOUS
  <2> HIDE DEF s
  <2> QED
    BY <1>4, <2>1
<1> HIDE DEF e, f, g, h, A, B
<1>8. SumOf(A, e) = SumOf(A, s)
  BY <1>7, SumSame
<1>9. SumOf(A, s) = Plus(SumOf(A, f), SumOf(A, h))
  BY <1>1, SumPlus
<1>10. gf_mul(c, SumOf(A, g)) = SumOf(A, h)
  BY <1>1, <1>5, <1>6, ScaledSumTo
<1>11. SumOf(A, g) = SumOf(B, g)
  BY <1>1, <1>2, <1>5, SumWithin
<1>12. Disc(r, u, m) = SumOf(A, e) /\ Disc(p, u, m) = SumOf(A, f) /\ Disc(q, u, m - k) = SumOf(B, g)
  BY DEF Disc, A, B, e, f, g
<1> QED
  BY <1>8, <1>9, <1>10, <1>11, <1>12

-----------------------------------------------------------------------------
\* The power sums of a set of errors

ErrorSums(c) == [m \in Nat |-> IF m = 0 THEN One ELSE Value(c, m)]

LEMMA ErrorsBinary ==
  ASSUME NEW c \in SUBSET Logs
  PROVE  Binary(c) /\ IsFiniteSet(c) /\ Cardinality(c) \in Nat /\ (\A i \in c : i \in Nat)
<1>1. IsFiniteSet(Logs) /\ Logs \subseteq Nat
  BY Sizes, FS_Interval DEF Logs
<1>2. IsFiniteSet(c)
  BY <1>1, FS_Subset
<1> QED
  BY <1>1, <1>2, FS_CardinalityType DEF Binary

LEMMA SumsSeries ==
  ASSUME NEW c \in SUBSET Logs
  PROVE  Series(ErrorSums(c)) /\ \A m \in Nat \ {0} : ErrorSums(c)[m] = Value(c, m)
<1> DEFINE u == ErrorSums(c)
<1>1. Binary(c)
  BY ErrorsBinary
<1>2. u[0] = One /\ \A m \in Nat \ {0} : u[m] = Value(c, m)
  BY DEF ErrorSums
<1>3. u \in [Nat -> Elements]
  <2>1. \A m \in Nat : (IF m = 0 THEN One ELSE Value(c, m)) \in Elements
    BY <1>1, OneElement, ValueElement
  <2> QED
    BY <2>1 DEF ErrorSums
<1>4. \A i \in Nat : u[2 * i] = gf_sqr(u[i])
  <2> TAKE i \in Nat
  <2>1. CASE i = 0
    <3>1. gf_sqr(One) = One
      BY OneElement, SquareIsMul, MulZeroOne
    <3> QED
      BY <1>2, <2>1, <3>1
  <2>2. CASE i # 0
    <3>1. 2 * i \in Nat \ {0}
      BY <2>2
    <3>2. Value(c, 2 * i) = gf_sqr(Value(c, i))
      BY <1>1, ValueSquared
    <3> QED
      BY <1>2, <2>2, <3>1, <3>2
  <2> QED
    BY <2>1, <2>2
<1> QED
  BY <1>2, <1>3, <1>4 DEF Series

\* X^Deg(p) p(1/X) at a^i.
MirrorTerms(p, i) == [j \in Nat |-> gf_mul(Coef(p, j), a_pow((Deg(p) - j) * i))]
Mirror(p, i) == SumOf(Span(0, Deg(p)), MirrorTerms(p, i))

LEMMA MirrorTerm ==
  ASSUME NEW p \in Polynomials, NEW i \in Nat, NEW j \in Span(0, Deg(p))
  PROVE  /\ j \in Nat /\ Deg(p) - j \in Nat /\ Coef(p, j) \in Elements
         /\ MirrorTerms(p, i)[j] = gf_mul(Coef(p, j), a_pow((Deg(p) - j) * i))
         /\ MirrorTerms(p, i)[j] \in Elements
         /\ a_pow((Deg(p) - j) * i) \in Elements
<1>1. Deg(p) \in Nat
  BY PolynomialType
<1>2. j \in Nat /\ Deg(p) - j \in Nat
  BY <1>1, SpanFinite
<1>3. (Deg(p) - j) * i \in Nat
  BY <1>2
<1>4. Coef(p, j) \in Elements /\ a_pow((Deg(p) - j) * i) \in Elements
  BY <1>2, <1>3, CoefElement, PowUnit
<1>5. MirrorTerms(p, i)[j] = gf_mul(Coef(p, j), a_pow((Deg(p) - j) * i))
  BY <1>2 DEF MirrorTerms
<1> QED
  BY <1>2, <1>4, <1>5, FieldOps

LEMMA MirrorElement ==
  ASSUME NEW p \in Polynomials, NEW i \in Nat
  PROVE  Mirror(p, i) \in Elements
<1>1. \A j \in Span(0, Deg(p)) : MirrorTerms(p, i)[j] \in Below(M)
  BY MirrorTerm, PrimReducing
<1> QED
  BY <1>1, SumBelow, PrimReducing DEF Mirror

\* Past the degree of p, the coefficients are sums over the errors.
LEMMA DiscOfErrors ==
  ASSUME NEW p \in Polynomials, NEW c \in SUBSET Logs, NEW m \in Nat, m > Deg(p),
         NEW f, \A i \in c : f[i] = gf_mul(a_pow((m - Deg(p)) * i), Mirror(p, i))
  PROVE  Disc(p, ErrorSums(c), m) = SumOf(c, f)
<1> DEFINE L == Deg(p)
           B == Span(0, L)
           u == ErrorSums(c)
           rows == [j \in Nat |-> gf_mul(Coef(p, j), u[m - j])]
           h == [j \in Nat |-> [i \in Nat |-> gf_mul(Coef(p, j), a_pow((m - j) * i))]]
           t == [i \in Nat |-> [j \in Nat |-> gf_mul(Coef(p, j), a_pow((m - j) * i))]]
<1>1. L \in Nat /\ IsFiniteSet(B) /\ \A j \in B : j \in Nat /\ L - j \in Nat /\ m - j \in Nat \ {0}
  <2>1. L \in Nat
    BY PolynomialType
  <2> QED
    BY <2>1, SpanFinite
<1>2. Binary(c) /\ IsFiniteSet(c) /\ \A i \in c : i \in Nat
  BY ErrorsBinary
<1>3. Series(u) /\ \A n \in Nat \ {0} : u[n] = Value(c, n)
  BY SumsSeries
<1>4. \A j \in B : rows[j] = gf_mul(Coef(p, j), u[m - j])
  BY <1>1
<1> HIDE DEF u
<1>5. Disc(p, u, m) = SumOf(B, rows)
  <2> HIDE DEF rows
  <2> QED
    BY <1>1, <1>3, <1>4, DiscFrom
<1>6. \A j \in B : rows[j] = SumOf(c, h[j])
  <2> TAKE j \in B
  <2> DEFINE d == Coef(p, j)
             n == m - j
             e == [i \in Nat |-> a_pow(n * i)]
             g == h[j]
  <2>1. j \in Nat /\ n \in Nat \ {0} /\ d \in Elements
    BY <1>1, CoefElement
  <2>2. rows[j] = gf_mul(d, u[n]) /\ u[n] = SumOf(c, e)
    BY <1>3, <1>4, <2>1 DEF Value
  <2>3. \A i \in c : i \in Nat /\ e[i] = a_pow(n * i) /\ g[i] = gf_mul(d, a_pow(n * i))
    BY <1>2, <2>1
  <2> HIDE DEF d, n, e, g, h, rows
  <2>4. \A i \in c : e[i] \in Elements /\ g[i] = gf_mul(d, e[i])
    <3> TAKE i \in c
    <3>1. n * i \in Nat
      BY <2>1, <2>3
    <3> QED
      BY <2>3, <3>1, PowUnit
  <2>5. gf_mul(d, SumOf(c, e)) = SumOf(c, g)
    BY <1>2, <2>1, <2>4, ScaledSumTo
  <2> QED
    BY <2>2, <2>5 DEF g
<1>7. \A i \in c : f[i] = SumOf(B, t[i])
  <2> TAKE i \in c
  <2> DEFINE x == a_pow((m - L) * i)
             e == MirrorTerms(p, i)
             g == t[i]
  <2>1. i \in Nat /\ m - L \in Nat
    BY <1>1, <1>2
  <2>2. x \in Elements
    <3>1. (m - L) * i \in Nat
      BY <2>1
    <3> QED
      BY <3>1, PowUnit
  <2>3. \A j \in B : e[j] \in Elements /\ g[j] = gf_mul(x, e[j])
    <3> TAKE j \in B
    <3> DEFINE y == a_pow((L - j) * i)
               d == Coef(p, j)
    <3>1. j \in Nat /\ L - j \in Nat /\ d \in Elements /\ y \in Elements /\ e[j] \in Elements
          /\ e[j] = gf_mul(d, y)
      BY <2>1, MirrorTerm
    <3>2. g[j] = gf_mul(d, a_pow((m - j) * i))
      BY <2>1, <3>1
    <3>3. (m - j) * i = (m - L) * i + (L - j) * i
      BY <1>1, <2>1, <3>1
    <3>4. gf_mul(x, y) = a_pow((m - j) * i)
      <4>1. (m - L) * i \in Nat /\ (L - j) * i \in Nat
        BY <2>1, <3>1
      <4> QED
        BY <3>3, <4>1, PowAdd
    <3> HIDE DEF x, y, d, e, g
    <3>5. gf_mul(x, gf_mul(d, y)) = gf_mul(d, gf_mul(x, y))
      BY <2>2, <3>1, MulAssociates, MulCommutes
    <3> QED
      BY <3>1, <3>2, <3>4, <3>5
  <2>4. f[i] = gf_mul(x, SumOf(B, e))
    BY DEF Mirror
  <2> HIDE DEF x, e, g, t
  <2>5. gf_mul(x, SumOf(B, e)) = SumOf(B, g)
    BY <1>1, <2>2, <2>3, ScaledSumTo
  <2> QED
    BY <2>4, <2>5 DEF g
<1>8. \A j \in B : \A i \in c : t[i][j] = h[j][i]
  BY <1>1, <1>2
<1> HIDE DEF B, rows, h, t
<1>9. SumOf(B, rows) = SumOf(c, f)
  <2>1. RowSums(rows, B, c, h) /\ RowSums(f, c, B, t) /\ Transposed(t, h, B, c)
    BY <1>6, <1>7, <1>8 DEF RowSums, Transposed
  <2> QED
    BY <1>1, <1>2, <2>1, SumExchange
<1> QED
  BY <1>5, <1>9 DEF u

\* When the coefficients vanish, past the degree of p, as often as there are
\* errors, the inverses of the errors are roots of p, and all of them vanish.
LEMMA RootsForced ==
  ASSUME NEW p \in Polynomials, NEW c \in SUBSET Logs, NEW K \in Nat,
         Deg(p) + Cardinality(c) <= K,
         \A m \in Deg(p) + 1 .. K : Disc(p, ErrorSums(c), m) = Zero
  PROVE  /\ \A i \in c : Mirror(p, i) = Zero
         /\ \A m \in Nat : m > Deg(p) => Disc(p, ErrorSums(c), m) = Zero
<1> DEFINE L == Deg(p)
           w == [i \in c |-> Mirror(p, i)]
<1>1. L \in Nat /\ IsFiniteSet(c) /\ Cardinality(c) \in Nat /\ \A i \in c : i \in Nat
  BY PolynomialType, ErrorsBinary
<1>2. w \in [c -> Elements]
  BY <1>1, MirrorElement
<1>3. \A m \in 1 .. K - L : SumOf(c, [i \in c |-> gf_mul(a_pow(m * i), w[i])]) = Zero
  <2> TAKE m \in 1 .. K - L
  <2> DEFINE n == m + L
             f == [i \in c |-> gf_mul(a_pow(m * i), w[i])]
  <2>1. n \in Nat /\ n > L /\ n \in L + 1 .. K /\ n - L = m
    BY <1>1
  <2>2. \A i \in c : f[i] = gf_mul(a_pow((n - L) * i), Mirror(p, i))
    BY <2>1
  <2> HIDE DEF f, n
  <2>3. Disc(p, ErrorSums(c), n) = SumOf(c, f)
    BY <2>1, <2>2, DiscOfErrors
  <2>4. SumOf(c, f) = Zero
    BY <2>1, <2>3
  <2> QED
    BY <2>4 DEF f
<1>4. \A i \in c : w[i] = Zero
  <2> DEFINE k == K - L
  <2>1. k \in Nat /\ Cardinality(c) <= k
    BY <1>1
  <2> HIDE DEF k, w
  <2> QED
    BY <1>2, <1>3, <2>1, WeightsVanish DEF k
<1>5. \A i \in c : Mirror(p, i) = Zero
  BY <1>4
<1>6. \A m \in Nat : m > L => Disc(p, ErrorSums(c), m) = Zero
  <2> SUFFICES ASSUME NEW m \in Nat, m > L PROVE Disc(p, ErrorSums(c), m) = Zero
    OBVIOUS
  <2> DEFINE f == [i \in c |-> gf_mul(a_pow((m - L) * i), Mirror(p, i))]
  <2>1. \A i \in c : f[i] = {}
    <3> TAKE i \in c
    <3>1. (m - L) * i \in Nat
      BY <1>1
    <3>2. gf_mul(a_pow((m - L) * i), Zero) = Zero
      BY <3>1, PowUnit, MulZeroOne
    <3> QED
      BY <1>5, <3>2 DEF Zero
  <2>2. \A i \in c : f[i] = gf_mul(a_pow((m - L) * i), Mirror(p, i))
    OBVIOUS
  <2> HIDE DEF f
  <2>3. Disc(p, ErrorSums(c), m) = SumOf(c, f)
    BY <2>2, DiscOfErrors
  <2>4. SumOf(c, f) = SumOf({}, f)
    BY <1>1, <2>1, SumWithin
  <2> QED
    BY <2>3, <2>4, SumEmpty DEF Zero
<1> QED
  BY <1>5, <1>6

-----------------------------------------------------------------------------
\* A polynomial has no more roots than its degree

LEMMA PowZero == a_pow(0) = One
<1>1. 0 \in Logs /\ 0 % N = 0
  BY Sizes DEF Logs
<1>2. a_pow_tab[0] = One
  BY PowerStep
<1> QED
  BY <1>1, <1>2 DEF a_pow

\* What is left of p above X^j, at a^r.
TailTerms(p, r, j) == [i \in Nat |-> gf_mul(Coef(p, i), a_pow(r * (i - j - 1)))]
TailSum(p, r, j) == SumOf(Span(j + 1, Deg(p)), TailTerms(p, r, j))

LEMMA TailElement ==
  ASSUME NEW p \in Polynomials, NEW r \in Nat, NEW j \in Int, j >= -1
  PROVE  TailSum(p, r, j) \in Elements
<1>1. Deg(p) \in Nat
  BY PolynomialType
<1>2. \A i \in Span(j + 1, Deg(p)) : TailTerms(p, r, j)[i] \in Below(M)
  <2> TAKE i \in Span(j + 1, Deg(p))
  <2>1. i \in Nat /\ i - j - 1 \in Nat
    BY <1>1 DEF Span
  <2>2. r * (i - j - 1) \in Nat
    BY <2>1
  <2>3. gf_mul(Coef(p, i), a_pow(r * (i - j - 1))) \in Elements
    BY <2>1, <2>2, CoefElement, PowUnit, FieldOps
  <2> QED
    BY <2>1, <2>3, PrimReducing DEF TailTerms
<1> QED
  BY <1>2, SumBelow, PrimReducing DEF TailSum

LEMMA TailFirst ==
  ASSUME NEW p \in Polynomials, NEW r \in Nat
  PROVE  TailSum(p, r, -1) = Eval(p, r) /\ TailSum(p, r, Deg(p)) = Zero
<1>1. Deg(p) \in Nat
  BY PolynomialType
<1>2. \A i \in Span(0, Deg(p)) : TailTerms(p, r, -1)[i] = Summands(p, r)[i]
  <2> TAKE i \in Span(0, Deg(p))
  <2>1. i \in Nat /\ i - (-1) - 1 = i
    BY <1>1 DEF Span
  <2> QED
    BY <2>1 DEF TailTerms, Summands
<1>3. SumOf(Span(0, Deg(p)), TailTerms(p, r, -1)) = Eval(p, r)
  BY <1>2, SumSame DEF Eval
<1>4. Span(Deg(p) + 1, Deg(p)) = {}
  BY <1>1 DEF Span
<1> QED
  BY <1>3, <1>4, SumEmpty DEF TailSum, Zero

LEMMA TailNext ==
  ASSUME NEW p \in Polynomials, NEW r \in Nat, NEW j \in 0 .. Deg(p)
  PROVE  TailSum(p, r, j - 1) = Plus(gf_mul(TailSum(p, r, j), a_pow(r)), Coef(p, j))
<1> DEFINE d == Deg(p)
           S == Span(j + 1, d)
           f == TailTerms(p, r, j)
           g == TailTerms(p, r, j - 1)
           x == a_pow(r)
<1>1. d \in Nat /\ j \in Nat
  BY PolynomialType
<1>2. /\ IsFiniteSet(S) /\ j \notin S /\ Span((j - 1) + 1, d) = S \cup {j}
      /\ \A i \in S : i \in Nat /\ i - j - 1 \in Nat
  <2>1. j + 1 \in Int /\ d \in Int /\ (j - 1) + 1 = j /\ j <= d
    BY <1>1
  <2>2. IsFiniteSet(j + 1 .. d)
    BY <2>1, FS_Interval
  <2>3. j..d = (j + 1 .. d) \cup {j}
    BY <1>1
  <2>4. \A i \in j + 1 .. d : i \in Nat /\ i - j - 1 \in Nat /\ i # j
    BY <1>1
  <2> QED
    BY <2>1, <2>2, <2>3, <2>4 DEF Span
<1>3. x \in Elements
  BY PowUnit
<1>4. \A i \in S : f[i] \in Elements /\ g[i] = gf_mul(x, f[i])
  <2> TAKE i \in S
  <2> DEFINE k == i - j - 1
             c == Coef(p, i)
             y == a_pow(r * k)
  <2>1. i \in Nat /\ k \in Nat
    BY <1>2
  <2>2. r * k \in Nat
    BY <2>1
  <2>3. c \in Elements /\ y \in Elements
    BY <2>1, <2>2, CoefElement, PowUnit
  <2>4. f[i] = gf_mul(c, y)
    BY <2>1 DEF TailTerms
  <2>5. g[i] = gf_mul(c, a_pow(r * (k + 1)))
    <3>1. i - (j - 1) - 1 = k + 1
      BY <1>1, <2>1
    <3>2. g[i] = gf_mul(c, a_pow(r * (i - (j - 1) - 1)))
      BY <2>1 DEF TailTerms
    <3> QED
      BY <3>1, <3>2
  <2>6. gf_mul(x, y) = a_pow(r * (k + 1))
    <3>1. r * (k + 1) = r + r * k
      BY <2>1
    <3> QED
      BY <2>2, <3>1, PowAdd
  <2> HIDE DEF k, c, y, x, f, g
  <2>7. gf_mul(x, gf_mul(c, y)) = gf_mul(c, gf_mul(x, y))
    <3>1. gf_mul(x, gf_mul(c, y)) = gf_mul(gf_mul(x, c), y)
      BY <1>3, <2>3, MulAssociates
    <3>2. gf_mul(x, c) = gf_mul(c, x)
      BY <1>3, <2>3, MulCommutes
    <3>3. gf_mul(c, gf_mul(x, y)) = gf_mul(gf_mul(c, x), y)
      BY <1>3, <2>3, MulAssociates
    <3> QED
      BY <3>1, <3>2, <3>3
  <2> QED
    BY <2>3, <2>4, <2>5, <2>6, <2>7, FieldOps
<1>5. g[j] = Coef(p, j)
  <2>1. j - (j - 1) - 1 = 0 /\ r * 0 = 0
    BY <1>1
  <2>2. g[j] = gf_mul(Coef(p, j), a_pow(r * (j - (j - 1) - 1)))
    BY <1>1 DEF TailTerms
  <2>3. a_pow(0) = One
    BY PowZero
  <2>4. Coef(p, j) \in Elements
    BY <1>1, CoefElement
  <2>5. gf_mul(Coef(p, j), One) = Coef(p, j)
    BY <2>4, OneElement, MulCommutes, MulZeroOne
  <2> QED
    BY <2>1, <2>2, <2>3, <2>5
<1>6. TailSum(p, r, j) \in Elements
  BY <1>1, TailElement
<1> HIDE DEF S, f, g, x
<1>7. SumOf(S \cup {j}, g) = Plus(SumOf(S, g), g[j])
  BY <1>2, SumAdd
<1>8. gf_mul(x, SumOf(S, f)) = SumOf(S, g)
  BY <1>2, <1>3, <1>4, ScaledSumTo
<1>9. TailSum(p, r, j) = SumOf(S, f) /\ TailSum(p, r, j - 1) = SumOf(S \cup {j}, g)
  BY <1>2 DEF TailSum, S, f, g
<1>10. gf_mul(x, TailSum(p, r, j)) = gf_mul(TailSum(p, r, j), x)
  BY <1>3, <1>6, MulCommutes
<1> QED
  BY <1>5, <1>7, <1>8, <1>9, <1>10 DEF x

\* p divided by X + a^r.
Without(p, r) == Poly(Deg(p) - 1, [j \in 0 .. Deg(p) - 1 |-> TailSum(p, r, j)])

LEMMA RootDivides ==
  ASSUME NEW p \in Polynomials, Deg(p) > 0, NEW r \in Logs, Eval(p, r) = Zero
  PROVE  /\ Without(p, r) \in Polynomials /\ Deg(Without(p, r)) = Deg(p) - 1
         /\ p = Factor(Without(p, r), r)
         /\ Coef(Without(p, r), Deg(p) - 1) = Coef(p, Deg(p))
<1> DEFINE d == Deg(p)
           q == Without(p, r)
           t == [j \in 0 .. d-1 |-> TailSum(p, r, j)]
<1>1. d \in Nat /\ d - 1 \in Nat /\ r \in Nat
  BY PolynomialType, PowOfLog
<1>2. \A j \in 0 .. d-1 : t[j] = TailSum(p, r, j) /\ t[j] \in Elements
  BY <1>1, TailElement
<1>3. q = Poly(d - 1, t)
  BY DEF Without
<1> HIDE DEF t
<1>4. q \in Polynomials /\ Deg(q) = d - 1 /\ \A j \in 0 .. d-1 : Coef(q, j) = t[j]
  BY <1>1, <1>2, <1>3, PolyType
<1> HIDE DEF q
<1>5. \A j \in -1 .. d : Coef(q, j) = TailSum(p, r, j)
  <2> TAKE j \in -1 .. d
  <2>1. CASE j \in 0 .. d-1
    BY <1>2, <1>4, <2>1
  <2>2. CASE j = -1
    <3>1. Coef(q, -1) = Zero
      BY <1>4, CoefOutside
    <3> QED
      BY <1>1, <2>2, <3>1, TailFirst
  <2>3. CASE j = d
    <3>1. Coef(q, d) = Zero
      BY <1>1, <1>4, CoefOutside
    <3> QED
      BY <1>1, <2>3, <3>1, TailFirst
  <2> QED
    BY <1>1, <2>1, <2>2, <2>3
<1> DEFINE x == a_pow_tab[r]
<1>6. x = a_pow(r) /\ x \in Elements
  BY PowOfLog, PowUnit
<1>7. /\ Factor(q, r) \in Polynomials /\ Deg(Factor(q, r)) = d
      /\ \A j \in Int : Coef(Factor(q, r), j) = Plus(gf_mul(Coef(q, j), x), Coef(q, j - 1))
  BY <1>1, <1>4, FactorCoef
<1> HIDE DEF x
<1>8. \A j \in Int : Coef(p, j) = Coef(Factor(q, r), j)
  <2> TAKE j \in Int
  <2>1. CASE j \in 0..d
    <3> DEFINE s == TailSum(p, r, j)
               c == Coef(p, j)
    <3>1. Coef(q, j) = s /\ Coef(q, j - 1) = TailSum(p, r, j - 1)
      <4>1. j \in -1 .. d /\ j - 1 \in -1 .. d
        BY <1>1, <2>1
      <4> QED
        BY <1>5, <4>1
    <3>2. TailSum(p, r, j - 1) = Plus(gf_mul(s, x), c)
      BY <1>1, <1>6, <2>1, TailNext
    <3> HIDE DEF s, c
    <3>3. \A a, b : Plus(a, Plus(a, b)) = b
      BY Zenon DEF Plus
    <3>4. Coef(Factor(q, r), j) = Plus(gf_mul(s, x), Plus(gf_mul(s, x), c))
      BY <1>7, <3>1, <3>2
    <3> QED
      BY <3>3, <3>4 DEF c
  <2>2. CASE j \notin 0..d
    <3>1. Coef(p, j) = Zero /\ Coef(Factor(q, r), j) = Zero
      BY <1>1, <1>7, <2>2, CoefOutside
    <3> QED
      BY <3>1
  <2> QED
    BY <2>1, <2>2
<1>9. p = Factor(q, r)
  BY <1>7, <1>8, PolyEqual
<1>10. Coef(q, d - 1) = Coef(p, d)
  <2>1. Coef(q, d) = Zero
    BY <1>1, <1>4, CoefOutside
  <2>2. Coef(p, d) = Plus(gf_mul(Coef(q, d), x), Coef(q, d - 1))
    BY <1>1, <1>7, <1>9
  <2> QED
    BY <1>6, <2>1, <2>2, MulZeroOne, PlusZero
<1> QED
  BY <1>4, <1>9, <1>10 DEF q

Nonzero(p) == \E j \in Int : Coef(p, j) # Zero

\* A polynomial of degree 0 has no root.
LEMMA ConstantEval ==
  ASSUME NEW p \in Polynomials, Deg(p) = 0, NEW r \in Nat
  PROVE  Eval(p, r) = Coef(p, 0)
<1>1. Span(0, 0) = {0}
  BY DEF Span
<1>2. Summands(p, r)[0] = Coef(p, 0)
  <2>1. Summands(p, r)[0] = gf_mul(Coef(p, 0), a_pow(r * 0)) /\ Coef(p, 0) \in Elements
    BY SummandElement
  <2>2. r * 0 = 0
    OBVIOUS
  <2> QED
    BY <2>1, <2>2, PowZero, OneElement, MulCommutes, MulZeroOne
<1>3. SumOf({0}, Summands(p, r)) = Summands(p, r)[0]
  BY SumOne
<1> QED
  BY <1>1, <1>2, <1>3 DEF Eval

LEMMA RootBound ==
  ASSUME NEW p \in Polynomials, Nonzero(p),
         NEW R \in SUBSET Logs, \A r \in R : Eval(p, r) = Zero
  PROVE  Cardinality(R) <= Deg(p)
<1> DEFINE n == Deg(p)
           Few(d) == \A f \in Polynomials : \A S \in SUBSET Logs :
             Deg(f) = d /\ Nonzero(f) /\ (\A r \in S : Eval(f, r) = Zero) => Cardinality(S) <= d
           Good == {d \in 0..n : Few(d)}
<1>1. n \in Nat
  BY PolynomialType
<1>2. Few(0)
  <2> SUFFICES ASSUME NEW f \in Polynomials, NEW S \in SUBSET Logs, Deg(f) = 0, Nonzero(f),
                      \A r \in S : Eval(f, r) = Zero
               PROVE  S = {}
    BY FS_EmptySet
  <2> SUFFICES ASSUME NEW r \in S PROVE FALSE
    OBVIOUS
  <2>1. r \in Nat
    BY PowOfLog
  <2>2. Coef(f, 0) = Zero
    BY <2>1, ConstantEval
  <2>3. \A j \in Int : Coef(f, j) = Zero
    <3> TAKE j \in Int
    <3>1. CASE j = 0
      BY <2>2, <3>1
    <3>2. CASE j # 0
      BY <3>2, CoefOutside
    <3> QED
      BY <3>1, <3>2
  <2> QED
    BY <2>3 DEF Nonzero
<1>3. \A d \in 0 .. n-1 : Few(d) => Few(d + 1)
  <2> SUFFICES ASSUME NEW d \in 0 .. n-1, Few(d), NEW f \in Polynomials, NEW S \in SUBSET Logs,
                      Deg(f) = d + 1, Nonzero(f), \A r \in S : Eval(f, r) = Zero
               PROVE  Cardinality(S) <= d + 1
    OBVIOUS
  <2>1. IsFiniteSet(S) /\ Cardinality(S) \in Nat /\ \A r \in S : r \in Nat /\ r \in Logs
    BY ErrorsBinary
  <2>2. CASE S = {}
    BY <2>2, FS_EmptySet
  <2>3. CASE S # {}
    <3>1. PICK r \in S : TRUE
      BY <2>3
    <3> DEFINE q == Without(f, r)
               R1 == S \ {r}
    <3>2. r \in Logs /\ Eval(f, r) = Zero /\ Deg(f) > 0
      BY <2>1, <3>1
    <3>3. q \in Polynomials /\ Deg(q) = d /\ f = Factor(q, r)
      <4>1. q \in Polynomials /\ Deg(q) = Deg(f) - 1 /\ f = Factor(q, r)
        BY <3>2, RootDivides
      <4> HIDE DEF q
      <4> QED
        BY <4>1
    <3> HIDE DEF q
    <3>4. Nonzero(q)
      <4>1. SUFFICES ASSUME ~ Nonzero(q) PROVE FALSE
        OBVIOUS
      <4>2. \A j \in Int : Coef(q, j) = Zero
        BY <4>1 DEF Nonzero
      <4>3. \A j \in Int : Coef(f, j) = Zero
        <5> TAKE j \in Int
        <5>1. Coef(f, j) = Plus(gf_mul(Coef(q, j), a_pow_tab[r]), Coef(q, j - 1))
          BY <3>2, <3>3, FactorCoef
        <5>2. Coef(q, j) = Zero /\ Coef(q, j - 1) = Zero
          BY <4>2
        <5>3. a_pow_tab[r] \in Elements
          BY <3>2, PowOfLog, PowUnit
        <5> QED
          BY <5>1, <5>2, <5>3, MulZeroOne, PlusZero
      <4> QED
        BY <4>3 DEF Nonzero
    <3>5. \A s \in R1 : Eval(q, s) = Zero
      <4> TAKE s \in R1
      <4>1. s \in Logs /\ s \in Nat /\ s # r /\ Eval(f, s) = Zero
        BY <2>1
      <4> DEFINE x == Plus(a_pow_tab[r], a_pow(s))
      <4>2. gf_mul(x, Eval(q, s)) = Zero
        BY <3>2, <3>3, <4>1, FactorEval
      <4>3. x \in Elements \ {Zero}
        <5>1. a_pow_tab[r] \in Elements /\ a_pow(s) \in Elements /\ a_pow(s) = a_pow_tab[s]
          BY <3>2, <4>1, PowOfLog, PowUnit
        <5>2. a_pow_tab[r] # a_pow_tab[s]
          <6>1. r < s \/ s < r
            BY <2>1, <3>1, <4>1
          <6> QED
            BY <3>2, <4>1, <6>1, PowerInjective
        <5> QED
          BY <5>1, <5>2, PlusElement, PlusZero
      <4>4. Eval(q, s) \in Elements
        BY <3>3, <4>1, EvalElement
      <4> HIDE DEF x
      <4> QED
        BY <4>2, <4>3, <4>4, MulNonzero
    <3>6. R1 \in SUBSET Logs
      BY <2>1
    <3> HIDE DEF R1
    <3>7. Cardinality(R1) <= d
      BY <3>3, <3>4, <3>5, <3>6
    <3>8. Cardinality(R1) = Cardinality(S) - 1
      BY <2>1, <3>1, FS_RemoveElement DEF R1
    <3> QED
      BY <2>1, <3>7, <3>8
  <2> QED
    BY <2>2, <2>3
<1> HIDE DEF Few
<1>4. 0 \in Good /\ \A d \in 0 .. n-1 : d \in Good => d + 1 \in Good
  BY <1>1, <1>2, <1>3
<1> HIDE DEF Good
<1>5. 0..n \subseteq Good /\ n \in 0..n
  <2> HIDE DEF n
  <2> QED
    BY <1>1, <1>4, Induction
<1>6. Few(n)
  BY <1>5 DEF Good
<1> QED
  BY <1>6 DEF Few

-----------------------------------------------------------------------------
\* The rounds of Berlekamp and Massey find the locator of the errors c

\* Before round i the odd powers up to X^(2i-1) are gone from the product of elp
\* and the sums, and d is the next; pelp lost the race in round pp/2, where its
\* first odd power was pd.  No shorter polynomial would do.
Progress(s, i, c) ==
  /\ s \in State(i)
  /\ Coef(s.elp, 0) = One
  /\ Deg(s.elp) + Deg(s.pelp) = s.pp + 1
  /\ Deg(s.elp) <= Cardinality(c)
  /\ s.pd # Zero /\ Disc(s.pelp, ErrorSums(c), s.pp + 1) = s.pd
  /\ \A x \in Int : x < s.pp + 1 /\ (s.pp + 1 - x) % 2 = 0 => Disc(s.pelp, ErrorSums(c), x) = Zero
  /\ \A m \in 0 .. 2*i : m % 2 = 1 => Disc(s.elp, ErrorSums(c), m) = Zero
  /\ i < T => s.d = Disc(s.elp, ErrorSums(c), 2 * i + 1)

\* The discrepancy as the code computes it, when the syndromes are those of c.
LEMMA NextDiscrepancy ==
  ASSUME NEW c \in SUBSET Logs, NEW syn, \A j \in 1 .. 2 * T : syn[j] = Value(c, j),
         NEW i \in 0 .. T-2, NEW p \in Polynomials, Deg(p) <= 2 * i + 1
  PROVE  Total([j \in 0 .. Deg(p) |-> gf_mul(Coef(p, j), syn[2 * i + 3 - j])])
           = Disc(p, ErrorSums(c), 2 * i + 3)
<1> DEFINE m == 2 * i + 3
           S == Span(0, Deg(p))
           f == [j \in Nat |-> gf_mul(Coef(p, j), syn[m - j])]
           u == ErrorSums(c)
<1>1. Deg(p) \in Nat /\ T \in Nat /\ i \in Nat /\ m \in Nat /\ m >= Deg(p)
  BY PolynomialType, Sizes
<1>2. Series(u) /\ \A n \in Nat \ {0} : u[n] = Value(c, n)
  BY SumsSeries
<1> HIDE DEF u
<1>3. \A j \in S : f[j] = gf_mul(Coef(p, j), u[m - j])
  <2> TAKE j \in S
  <2>1. j \in Nat /\ j <= Deg(p)
    BY <1>1, SpanFinite
  <2>2. m - j \in 1 .. 2 * T /\ m - j \in Nat \ {0}
    BY <1>1, <2>1
  <2>3. f[j] = gf_mul(Coef(p, j), syn[m - j])
    BY <2>1
  <2> QED
    BY <1>2, <2>2, <2>3
<1>4. Total([j \in 0 .. Deg(p) |-> gf_mul(Coef(p, j), syn[m - j])]) = SumOf(S, f)
  <2>1. \A j \in 0 .. Deg(p) : f[j] = gf_mul(Coef(p, j), syn[m - j])
    BY <1>1
  <2>2. S = 0 .. Deg(p)
    BY DEF Span
  <2> HIDE DEF f
  <2>3. [j \in 0 .. Deg(p) |-> gf_mul(Coef(p, j), syn[m - j])] = [j \in S |-> f[j]]
    BY <2>1, <2>2
  <2> QED
    BY <2>3 DEF SumOf
<1> HIDE DEF f, m, S
<1>5. Disc(p, u, m) = SumOf(S, f)
  BY <1>1, <1>2, <1>3, DiscFrom DEF S
<1> QED
  BY <1>4, <1>5 DEF m, u

LEMMA DiscNegative == \A p, u : \A x \in Int : x < 0 => Disc(p, u, x) = Zero
<1> TAKE p, u
<1> TAKE x \in Int
<1> SUFFICES ASSUME x < 0 PROVE Disc(p, u, x) = Zero
  OBVIOUS
<1>1. Span(0, x) = {}
  BY DEF Span
<1> QED
  BY <1>1, SumEmpty DEF Disc, Zero

\* A polynomial that fails in round i is too short to be followed by another
\* that is shorter than 2i+1 less its degree (Massey's bound).
LEMMA MasseyBound ==
  ASSUME NEW c \in SUBSET Logs, NEW i \in Nat, NEW p \in Polynomials, Deg(p) <= 2 * i,
         \A m \in 0 .. 2*i : m % 2 = 1 => Disc(p, ErrorSums(c), m) = Zero,
         Disc(p, ErrorSums(c), 2 * i + 1) # Zero
  PROVE  2 * i + 1 - Deg(p) <= Cardinality(c)
<1> DEFINE u == ErrorSums(c)
           n == 2 * i
<1>1. Deg(p) \in Nat /\ Cardinality(c) \in Nat /\ n \in Nat
  BY PolynomialType, ErrorsBinary
<1>2. Series(u)
  BY SumsSeries
<1> SUFFICES ASSUME Deg(p) + Cardinality(c) <= n PROVE FALSE
  BY <1>1
<1> HIDE DEF u
<1>3. \A m \in 0 .. n+1 : m % 2 = 0 => Disc(p, u, m) = Coef(p, m)
  <2>1. \A m \in 0..n : m % 2 = 1 => Disc(p, u, m) = Zero
    BY DEF u
  <2> HIDE DEF n
  <2> QED
    BY <1>1, <1>2, <2>1, EvenDisc
<1>4. \A m \in Deg(p) + 1 .. n : Disc(p, u, m) = Zero
  <2> TAKE m \in Deg(p) + 1 .. n
  <2>1. m \in 0..n /\ m \in 0 .. n+1 /\ m \in Int /\ m > Deg(p) /\ (m % 2 = 0 \/ m % 2 = 1)
    BY <1>1
  <2>2. CASE m % 2 = 1
    BY <2>1, <2>2 DEF u
  <2>3. CASE m % 2 = 0
    <3>1. Coef(p, m) = Zero
      BY <2>1, CoefOutside
    <3> QED
      BY <1>3, <2>1, <2>3, <3>1
  <2> QED
    BY <2>1, <2>2, <2>3
<1>5. \A m \in Nat : m > Deg(p) => Disc(p, u, m) = Zero
  <2> HIDE DEF n
  <2> QED
    BY <1>1, <1>4, RootsForced DEF u
<1>6. n + 1 \in Nat /\ n + 1 > Deg(p)
  BY <1>1
<1> QED
  BY <1>5, <1>6 DEF u

\* A round's new locator: what pelp had wrong, moved and scaled, takes away what
\* elp has wrong, and touches no odd power below.
LEMMA Corrected ==
  ASSUME NEW c \in SUBSET Logs, NEW i \in 0 .. T-1, NEW s, Progress(s, i, c), NEW top \in Nat,
         top >= Deg(s.elp), top >= Deg(s.pelp) + (2 * i - s.pp)
  PROVE  LET k   == 2 * i - s.pp
             f   == [j \in 0..top |-> Plus(Coef(s.elp, j),
                                           gf_mul(gf_div(s.d, s.pd), Coef(s.pelp, j - k)))]
             elp == Poly(top, f)
         IN  /\ elp \in Polynomials /\ Deg(elp) = top /\ Coef(elp, 0) = One
             /\ \A m \in 0 .. 2 * (i + 1) : m % 2 = 1 => Disc(elp, ErrorSums(c), m) = Zero
<1> DEFINE k == 2 * i - s.pp
           x == gf_div(s.d, s.pd)
           f == [j \in 0..top |-> Plus(Coef(s.elp, j), gf_mul(x, Coef(s.pelp, j - k)))]
           elp == Poly(top, f)
           p == s.elp
           q == s.pelp
           u == ErrorSums(c)
           pp == s.pp
<1>1. T \in Nat /\ i \in Nat /\ i < T
  BY Sizes
<1>2. /\ p \in Polynomials /\ q \in Polynomials /\ s.d \in Elements /\ s.pd \in Elements
      /\ pp \in -1 .. 2*i - 1 /\ s.pd # Zero
  BY DEF Progress, State
<1>3. /\ Coef(p, 0) = One
      /\ Disc(q, u, pp + 1) = s.pd
      /\ \A n \in Int : n < pp + 1 /\ (pp + 1 - n) % 2 = 0 => Disc(q, u, n) = Zero
      /\ \A m \in 0 .. 2*i : m % 2 = 1 => Disc(p, u, m) = Zero
      /\ s.d = Disc(p, u, 2 * i + 1)
  BY <1>1 DEF Progress
<1>4. Series(u)
  BY SumsSeries
<1>5. x \in Elements /\ gf_mul(x, s.pd) = s.d
  BY <1>2, FieldOps, DivUndoesMul, MulCommutes
<1>6. k \in Nat /\ k >= 1 /\ pp \in Int /\ Deg(p) \in Nat /\ Deg(q) \in Nat
  <2>1. Deg(p) \in Nat /\ Deg(q) \in Nat
    BY <1>2, PolynomialType
  <2>2. pp \in Int /\ pp <= 2 * i - 1
    BY <1>1, <1>2
  <2> HIDE DEF pp
  <2>3. 2 * i - pp \in Nat /\ 2 * i - pp >= 1
    BY <1>1, <2>2
  <2> QED
    BY <2>1, <2>2, <2>3 DEF pp
<1>7. \A j \in 0..top : f[j] = Plus(Coef(p, j), gf_mul(x, Coef(q, j - k))) /\ f[j] \in Elements
  BY <1>2, <1>5, CoefElement, FieldOps, PlusElement
<1> HIDE DEF f, x, u
<1>8. elp \in Polynomials /\ Deg(elp) = top /\ \A j \in 0..top : Coef(elp, j) = f[j]
  BY <1>7, PolyType
<1> HIDE DEF elp
<1>9. \A j \in Int : Coef(elp, j) = Plus(Coef(p, j), gf_mul(x, Coef(q, j - k)))
  <2> TAKE j \in Int
  <2>1. CASE j \in 0..top
    BY <1>7, <1>8, <2>1
  <2>2. CASE j \notin 0..top
    <3>1. j - k \in Int /\ (j < 0 \/ j > top) /\ (j - k < 0 \/ j - k > Deg(q)) /\ (j < 0 \/ j > Deg(p))
      BY <1>6, <2>2
    <3>2. Coef(elp, j) = Zero
      BY <1>8, <3>1, CoefOutside
    <3>3. Coef(p, j) = Zero
      BY <1>2, <3>1, CoefOutside
    <3>4. Coef(q, j - k) = Zero
      BY <1>2, <3>1, CoefOutside
    <3>5. Plus(Zero, gf_mul(x, Zero)) = Zero
      BY <1>5, MulZeroOne, PlusZero
    <3> QED
      BY <3>2, <3>3, <3>4, <3>5
  <2> QED
    BY <2>1, <2>2
<1>10. Coef(elp, 0) = One
  <2>1. 0 - k \in Int /\ 0 - k < 0
    BY <1>6
  <2>2. Coef(q, 0 - k) = Zero
    BY <1>2, <2>1, CoefOutside
  <2>3. Coef(elp, 0) = Plus(Coef(p, 0), gf_mul(x, Coef(q, 0 - k)))
    BY <1>9
  <2> QED
    BY <1>3, <1>5, <2>2, <2>3, MulZeroOne, PlusZero
<1>11. \A m \in Int : Disc(elp, u, m) = Plus(Disc(p, u, m), gf_mul(x, Disc(q, u, m - k)))
  <2> TAKE m \in Int
  <2> HIDE DEF p, q, k
  <2> QED
    BY SMTT(30), <1>2, <1>4, <1>5, <1>6, <1>8, <1>9, DiscLinear
<1>12. \A m \in 0 .. 2 * (i + 1) : m % 2 = 1 => Disc(elp, u, m) = Zero
  <2> SUFFICES ASSUME NEW m \in 0 .. 2 * (i + 1), m % 2 = 1 PROVE Disc(elp, u, m) = Zero
    OBVIOUS
  <2>1. m \in Int /\ (m = 2 * i + 1 \/ m \in 0 .. 2*i)
    BY <1>1
  <2>2. CASE m = 2 * i + 1
    <3>1. m - k = pp + 1
      BY <1>6, <2>2
    <3>2. gf_mul(x, Disc(q, u, m - k)) = s.d
      BY <1>3, <1>5, <3>1
    <3> QED
      BY <1>3, <1>11, <2>1, <2>2, <3>2, PlusZero
  <2>3. CASE m \in 0 .. 2*i
    <3>1. m - k \in Int /\ m - k < pp + 1 /\ pp + 1 - (m - k) = 2 * i + 1 - m
      BY <1>1, <1>6, <2>3
    <3>2. (2 * i + 1 - m) % 2 = 0
      BY <1>1, <2>3
    <3>3. Disc(q, u, m - k) = Zero
      BY <1>3, <3>1, <3>2
    <3>4. Disc(p, u, m) = Zero
      BY <1>3, <2>3
    <3> QED
      BY <1>5, <1>11, <2>1, <3>3, <3>4, MulZeroOne, PlusZero
  <2> QED
    BY <2>1, <2>2, <2>3
<1> QED
  BY <1>8, <1>10, <1>12 DEF u, elp, f, x

LEMMA RoundProgress ==
  ASSUME NEW c \in SUBSET Logs, Cardinality(c) <= T,
         NEW syn, \A j \in 1 .. 2 * T : syn[j] = Value(c, j) /\ syn[j] \in Elements,
         NEW i \in 0 .. T-1, NEW s, Progress(s, i, c)
  PROVE  Progress(Round(syn, s, i), i + 1, c)
<1> DEFINE k     == 2 * i - s.pp
           scale == gf_div(s.d, s.pd)
           grown == Deg(s.pelp) + k
           top   == IF grown > Deg(s.elp) THEN grown ELSE Deg(s.elp)
           f     == [j \in 0..top |-> Plus(Coef(s.elp, j), gf_mul(scale, Coef(s.pelp, j - k)))]
           elp   == IF s.d = Zero THEN s.elp ELSE Poly(top, f)
           d     == IF i = T - 1 THEN s.d
                    ELSE Total([j \in 0 .. Deg(elp) |-> gf_mul(Coef(elp, j), syn[2 * i + 3 - j])])
           r     == Round(syn, s, i)
           u     == ErrorSums(c)
           L     == Deg(s.elp)
<1>1. T \in Nat /\ i \in Nat /\ i < T /\ Cardinality(c) \in Nat
  BY Sizes, ErrorsBinary
<1>2. /\ s \in State(i)
      /\ s \in [elp : Polynomials, d : Elements, pelp : Polynomials, pd : Elements, pp : Int]
      /\ s.elp \in Polynomials /\ s.pelp \in Polynomials /\ s.d \in Elements /\ s.pd \in Elements
      /\ s.pp \in -1 .. 2*i - 1 /\ L <= 2 * i
  BY DEF Progress, State
<1>3. L \in Nat /\ Deg(s.pelp) \in Nat /\ grown \in Nat /\ grown <= 2 * i + 1
  <2>1. L \in Nat /\ Deg(s.pelp) \in Nat
    BY <1>2, PolynomialType
  <2>2. Deg(s.pelp) <= s.pp + 1
    BY DEF Progress, State
  <2> QED
    BY <1>1, <1>2, <2>1, <2>2
<1>4. /\ Coef(s.elp, 0) = One /\ L + Deg(s.pelp) = s.pp + 1 /\ L <= Cardinality(c) /\ s.pd # Zero
      /\ Disc(s.pelp, u, s.pp + 1) = s.pd
      /\ \A x \in Int : x < s.pp + 1 /\ (s.pp + 1 - x) % 2 = 0 => Disc(s.pelp, u, x) = Zero
      /\ \A m \in 0 .. 2*i : m % 2 = 1 => Disc(s.elp, u, m) = Zero
      /\ s.d = Disc(s.elp, u, 2 * i + 1)
  BY <1>1 DEF Progress
<1>5. r = IF Deg(s.elp) > T THEN s
          ELSE IF s.d # Zero /\ grown > Deg(s.elp)
            THEN [elp |-> elp, d |-> d, pelp |-> s.elp, pd |-> s.d, pp |-> 2 * i]
            ELSE [s EXCEPT !.elp = elp, !.d = d]
  BY DEF Round
<1>6. ~ (L > T)
  BY <1>1, <1>3, <1>4
<1>7. r \in State(i + 1)
  BY <1>2, RoundType
<1> SUFFICES Progress(r, i + 1, c)
  BY DEF r
<1> HIDE DEF r
<1>8. grown = 2 * i + 1 - L
  BY <1>1, <1>2, <1>3, <1>4
<1>9. top \in Nat /\ top >= L /\ top >= Deg(s.pelp) + (2 * i - s.pp) /\ top <= 2 * i + 1
  BY <1>1, <1>2, <1>3
<1>10. /\ elp \in Polynomials /\ Coef(elp, 0) = One
       /\ Deg(elp) = IF s.d = Zero THEN L ELSE top
       /\ \A m \in 0 .. 2 * (i + 1) : m % 2 = 1 => Disc(elp, u, m) = Zero
  <2>1. CASE s.d = Zero
    <3>1. elp = s.elp
      BY <2>1
    <3>2. \A m \in 0 .. 2 * (i + 1) : m % 2 = 1 => Disc(s.elp, u, m) = Zero
      <4> SUFFICES ASSUME NEW m \in 0 .. 2 * (i + 1), m % 2 = 1 PROVE Disc(s.elp, u, m) = Zero
        OBVIOUS
      <4>1. m = 2 * i + 1 \/ m \in 0 .. 2*i
        BY <1>1
      <4> QED
        BY <1>4, <2>1, <4>1
    <3> QED
      BY <1>2, <1>4, <2>1, <3>1, <3>2
  <2>2. CASE s.d # Zero
    <3> DEFINE e == Poly(top, f)
    <3>1. /\ e \in Polynomials /\ Deg(e) = top /\ Coef(e, 0) = One
          /\ \A m \in 0 .. 2 * (i + 1) : m % 2 = 1 => Disc(e, u, m) = Zero
      <4> HIDE DEF top
      <4> QED
        BY <1>9, Corrected
    <3>2. elp = e
      BY <2>2
    <3> HIDE DEF e, elp
    <3> QED
      BY <2>2, <3>1, <3>2
  <2> QED
    BY <2>1, <2>2
<1>11. Deg(elp) \in Nat /\ Deg(elp) <= 2 * i + 1
  BY <1>1, <1>2, <1>3, <1>9, <1>10
<1> HIDE DEF elp
<1>12. i + 1 < T => d = Disc(elp, u, 2 * (i + 1) + 1)
  <2> SUFFICES ASSUME i + 1 < T PROVE d = Disc(elp, u, 2 * (i + 1) + 1)
    OBVIOUS
  <2>1. i \in 0 .. T-2 /\ i # T - 1 /\ 2 * (i + 1) + 1 = 2 * i + 3
    BY <1>1
  <2>2. d = Total([j \in 0 .. Deg(elp) |-> gf_mul(Coef(elp, j), syn[2 * i + 3 - j])])
    BY <2>1
  <2> HIDE DEF d
  <2>3. Total([j \in 0 .. Deg(elp) |-> gf_mul(Coef(elp, j), syn[2 * i + 3 - j])])
          = Disc(elp, u, 2 * i + 3)
    BY <1>10, <1>11, <2>1, NextDiscrepancy
  <2> QED
    BY <2>1, <2>2, <2>3
<1> HIDE DEF d
<1>13. CASE s.d # Zero /\ grown > L
  <2>1. /\ r = [elp |-> elp, d |-> d, pelp |-> s.elp, pd |-> s.d, pp |-> 2 * i]
        /\ Deg(elp) = grown
    BY <1>5, <1>6, <1>10, <1>13
  <2>2. r.elp = elp /\ r.d = d /\ r.pelp = s.elp /\ r.pd = s.d /\ r.pp = 2 * i
    BY <2>1
  <2>3. grown <= Cardinality(c)
    <3>1. 2 * i + 1 - L <= Cardinality(c)
      BY <1>1, <1>2, <1>4, <1>13, MasseyBound
    <3> QED
      BY <1>8, <3>1
  <2>4. Deg(elp) + L = 2 * i + 1
    BY <1>1, <1>3, <1>8, <2>1
  <2>5. \A x \in Int : x < 2 * i + 1 /\ (2 * i + 1 - x) % 2 = 0 => Disc(s.elp, u, x) = Zero
    <3> SUFFICES ASSUME NEW x \in Int, x < 2 * i + 1, (2 * i + 1 - x) % 2 = 0
                 PROVE  Disc(s.elp, u, x) = Zero
      OBVIOUS
    <3>1. CASE x < 0
      BY <3>1, DiscNegative
    <3>2. CASE x >= 0
      <4>1. x \in 0 .. 2*i /\ x % 2 = 1
        BY <1>1, <3>2
      <4> QED
        BY <1>4, <4>1
    <3> QED
      BY <3>1, <3>2
  <2>6. Deg(r.elp) <= Cardinality(c) /\ Deg(r.elp) + Deg(r.pelp) = r.pp + 1
    BY <2>1, <2>2, <2>3, <2>4
  <2>7. /\ r.pd # Zero /\ Disc(r.pelp, u, r.pp + 1) = r.pd
        /\ \A x \in Int : x < r.pp + 1 /\ (r.pp + 1 - x) % 2 = 0 => Disc(r.pelp, u, x) = Zero
    BY <1>4, <1>13, <2>2, <2>5
  <2>8. /\ Coef(r.elp, 0) = One
        /\ \A m \in 0 .. 2 * (i + 1) : m % 2 = 1 => Disc(r.elp, u, m) = Zero
        /\ i + 1 < T => r.d = Disc(r.elp, u, 2 * (i + 1) + 1)
    BY <1>10, <1>12, <2>2
  <2> QED
    BY <1>7, <2>6, <2>7, <2>8 DEF Progress
<1>14. CASE ~ (s.d # Zero /\ grown > L)
  <2>1. r = [s EXCEPT !.elp = elp, !.d = d]
    BY <1>5, <1>6, <1>14
  <2>2. r.elp = elp /\ r.d = d /\ r.pelp = s.pelp /\ r.pd = s.pd /\ r.pp = s.pp
    BY <1>2, <2>1
  <2>3. Deg(elp) = L
    BY <1>10, <1>14
  <2>4. /\ Deg(r.elp) <= Cardinality(c) /\ Deg(r.elp) + Deg(r.pelp) = r.pp + 1
        /\ r.pd # Zero /\ Disc(r.pelp, u, r.pp + 1) = r.pd
        /\ \A x \in Int : x < r.pp + 1 /\ (r.pp + 1 - x) % 2 = 0 => Disc(r.pelp, u, x) = Zero
    BY <1>4, <2>2, <2>3
  <2>5. /\ Coef(r.elp, 0) = One
        /\ \A m \in 0 .. 2 * (i + 1) : m % 2 = 1 => Disc(r.elp, u, m) = Zero
        /\ i + 1 < T => r.d = Disc(r.elp, u, 2 * (i + 1) + 1)
    BY <1>10, <1>12, <2>2
  <2> QED
    BY <1>7, <2>4, <2>5 DEF Progress
<1> QED
  BY <1>13, <1>14

\* The locator is 1 at first, and nothing has failed but the power 0.
LEMMA FirstProgress ==
  ASSUME NEW c \in SUBSET Logs, NEW syn, syn[1] = Value(c, 1), FirstState(syn) \in State(0)
  PROVE  Progress(FirstState(syn), 0, c)
<1> DEFINE p == Constant(One)
           u == ErrorSums(c)
           f == [j \in Nat |-> gf_mul(Coef(p, j), u[1 - j])]
           s == FirstState(syn)
<1>1. p \in Polynomials /\ Deg(p) = 0 /\ Coef(p, 0) = One
  <2>1. p \in Polynomials /\ Deg(p) = 0
    BY ConstantType, OneElement
  <2> QED
    BY <2>1 DEF Coef, Constant
<1>2. s.elp = p /\ s.d = syn[1] /\ s.pelp = p /\ s.pd = One /\ s.pp = -1
  BY DEF FirstState
<1>3. Cardinality(c) \in Nat
  BY ErrorsBinary
<1>4. Series(u) /\ u[1] = Value(c, 1)
  BY SumsSeries
<1> HIDE DEF u
<1>5. Disc(p, u, 0) = One
  <2>1. \A m \in 0..0 : m % 2 = 1 => Disc(p, u, m) = Zero
    OBVIOUS
  <2>2. \A m \in 0 .. 0+1 : m % 2 = 0 => Disc(p, u, m) = Coef(p, m)
    <3> HIDE DEF p
    <3> QED
      BY <1>1, <1>4, <2>1, EvenDisc
  <2> HIDE DEF p
  <2> QED
    BY <1>1, <2>2
<1>6. Disc(p, u, 1) = u[1]
  <2>1. \A j \in Span(0, 0) : f[j] = gf_mul(Coef(p, j), u[1 - j])
    BY DEF Span
  <2>2. Span(0, 0) = {0}
    BY DEF Span
  <2>3. f[0] = gf_mul(One, u[1])
    BY <1>1
  <2>4. u[1] \in Elements
    BY <1>4 DEF Series
  <2> HIDE DEF f, p
  <2>5. Disc(p, u, 1) = SumOf(Span(0, 0), f)
    BY <1>1, <1>4, <2>1, DiscFrom
  <2> QED
    BY <2>2, <2>3, <2>4, <2>5, SumOne, MulZeroOne
<1> HIDE DEF s, p, f
<1>7. \A m \in 0 .. 2*0 : m % 2 = 1 => Disc(p, u, m) = Zero
  OBVIOUS
<1>8. \A x \in Int : x < 0 => Disc(p, u, x) = Zero
  BY DiscNegative
<1> SUFFICES Progress(s, 0, c)
  BY DEF s
<1>9. s \in State(0)
  BY DEF s
<1>10. /\ Coef(s.elp, 0) = One
       /\ Deg(s.elp) + Deg(s.pelp) = s.pp + 1
       /\ Deg(s.elp) <= Cardinality(c)
       /\ s.pd # Zero /\ Disc(s.pelp, u, s.pp + 1) = s.pd
  BY <1>1, <1>2, <1>3, <1>5, OneElement
<1>11. \A x \in Int : x < s.pp + 1 /\ (s.pp + 1 - x) % 2 = 0 => Disc(s.pelp, u, x) = Zero
  BY <1>2, <1>8
<1>12. /\ \A m \in 0 .. 2*0 : m % 2 = 1 => Disc(s.elp, u, m) = Zero
       /\ s.d = Disc(s.elp, u, 2 * 0 + 1)
  BY <1>2, <1>4, <1>6, <1>7
<1> QED
  BY <1>9, <1>10, <1>11, <1>12 DEF Progress, u

\* After the last round.
LEMMA LastProgress ==
  ASSUME NEW c \in SUBSET Logs, Cardinality(c) <= T,
         NEW syn, \A j \in 1 .. 2 * T : syn[j] = Value(c, j) /\ syn[j] \in Elements
  PROVE  Progress(Rounds(syn, T), T, c)
<1> DEFINE t == States(syn, T)
           Good == {i \in 0..T : Progress(t[i], i, c)}
<1>1. T \in Nat /\ 1 \in 1 .. 2 * T
  BY Sizes
<1>2. /\ Rounds(syn, T) = t[T] /\ t[0] = FirstState(syn)
      /\ \A i \in 1..T : t[i] = Round(syn, t[i-1], i - 1)
      /\ t[0] \in State(0)
  BY <1>1, RoundsTable
<1> HIDE DEF t
<1>3. 0 \in Good
  <2>1. syn[1] = Value(c, 1)
    BY <1>1
  <2>2. Progress(FirstState(syn), 0, c)
    BY <1>2, <2>1, FirstProgress
  <2> QED
    BY <1>1, <1>2, <2>2
<1>4. \A i \in 0 .. T-1 : i \in Good => i + 1 \in Good
  <2> SUFFICES ASSUME NEW i \in 0 .. T-1, Progress(t[i], i, c) PROVE i + 1 \in Good
    OBVIOUS
  <2>1. i + 1 \in 1..T /\ i + 1 \in 0..T /\ (i + 1) - 1 = i
    BY <1>1
  <2>2. t[i+1] = Round(syn, t[i], i)
    BY <1>2, <2>1
  <2>3. Progress(Round(syn, t[i], i), i + 1, c)
    BY RoundProgress
  <2> QED
    BY <2>1, <2>2, <2>3
<1> HIDE DEF Good
<1>5. T \in 0..T /\ 0..T \subseteq Good
  BY <1>1, <1>3, <1>4, Induction
<1> QED
  BY <1>2, <1>5 DEF Good

\* The syndromes of v are the power sums of c when those of odd index are.
LEMMA SyndromesOf ==
  ASSUME NEW v, Binary(v), NEW c \in SUBSET Logs,
         \A i \in 0 .. T-1 : Value(v, 2 * i + 1) = Value(c, 2 * i + 1)
  PROVE  \A j \in 1 .. 2 * T :
           compute_syndromes(v)[j] = Value(c, j) /\ compute_syndromes(v)[j] \in Elements
<1> DEFINE syn == compute_syndromes(v)
           k == 2 * T
           Good == {n \in 0..k : \A m \in 1..n : syn[m] = Value(c, m)}
<1>1. T \in Nat /\ k \in Nat
  BY Sizes
<1>2. \A i \in v : i \in Nat
  BY DEF Binary
<1>3. Binary(c)
  BY ErrorsBinary
<1>4. /\ \A j \in 1..k : syn[j] \in Elements
      /\ \A j \in 1..k : syn[j] = IF j % 2 = 0 THEN gf_sqr(syn[j \div 2]) ELSE Odd(v, j)
  <2>1. v \subseteq Int
    BY <1>2
  <2> QED
    BY <2>1, SyndromeType
<1> HIDE DEF syn
<1>5. \A j \in Nat : Odd(v, j) = Value(v, j)
  <2> TAKE j \in Nat
  <2> DEFINE h == [i \in Nat |-> a_pow(j * i)]
  <2>1. \A i \in v : h[i] = a_pow(j * i)
    BY <1>2
  <2> HIDE DEF h
  <2>2. [i \in v |-> a_pow(j * i)] = [i \in v |-> h[i]]
    BY <2>1
  <2> QED
    BY <2>2 DEF Odd, Value, SumOf, h
<1>6. 0 \in Good
  BY <1>1
<1>7. \A n \in 0 .. k-1 : n \in Good => n + 1 \in Good
  <2> SUFFICES ASSUME NEW n \in 0 .. k-1, \A m \in 1..n : syn[m] = Value(c, m)
               PROVE  \A m \in 1 .. n+1 : syn[m] = Value(c, m)
    BY <1>1
  <2> SUFFICES syn[n+1] = Value(c, n + 1)
    OBVIOUS
  <2> DEFINE j == (n + 1) \div 2
  <2>1. j \in Nat /\ n + 1 \in 1..k /\ (n + 1 = 2 * j \/ n + 1 = 2 * j + 1)
    BY <1>1
  <2>2. syn[n+1] = IF (n + 1) % 2 = 0 THEN gf_sqr(syn[j]) ELSE Odd(v, n + 1)
    BY <1>4, <2>1
  <2> HIDE DEF j
  <2>3. CASE n + 1 = 2 * j
    <3>1. j \in 1..n /\ (n + 1) % 2 = 0
      BY <2>1, <2>3
    <3>2. syn[n+1] = gf_sqr(Value(c, j))
      BY <2>2, <3>1
    <3>3. Value(c, 2 * j) = gf_sqr(Value(c, j))
      BY <1>3, <2>1, ValueSquared
    <3> QED
      BY <2>3, <3>2, <3>3
  <2>4. CASE n + 1 = 2 * j + 1
    <3>1. j \in 0 .. T-1 /\ (n + 1) % 2 # 0 /\ n + 1 \in Nat
      BY <1>1, <2>1, <2>4
    <3>2. syn[n+1] = Value(v, n + 1)
      BY <1>5, <2>2, <3>1
    <3> QED
      BY <2>4, <3>1, <3>2
  <2> QED
    BY <2>1, <2>3, <2>4
<1> HIDE DEF Good
<1>8. k \in 0..k /\ 0..k \subseteq Good
  BY <1>1, <1>6, <1>7, Induction
<1>9. \A m \in 1..k : syn[m] = Value(c, m)
  BY <1>8 DEF Good
<1> QED
  BY <1>4, <1>9 DEF syn, k

-----------------------------------------------------------------------------
\* The roots of the locator

LEMMA PowPeriod == \A j \in Nat : a_pow(N * j) = One
<1> TAKE j \in Nat
<1>1. N \in Nat /\ N > 0
  BY Sizes
<1>2. 0 \in 0 .. N-1
  BY <1>1
<1>3. (N * j + 0) % N = 0
  BY <1>1, <1>2, DivMod
<1>4. N * j + 0 = N * j
  BY <1>1
<1>5. (N * j) % N = 0
  BY <1>3, <1>4
<1>6. a_pow(0) = a_pow_tab[0]
  BY <1>1 DEF a_pow
<1> QED
  BY <1>5, <1>6, PowZero DEF a_pow

\* p mirrored, at a^i, is p itself at the inverse, up to a power of a.
LEMMA MirrorEval ==
  ASSUME NEW p \in Polynomials, NEW i \in Logs
  PROVE  N - i \in Nat /\ Mirror(p, i) = gf_mul(a_pow(Deg(p) * i), Eval(p, N - i))
<1> DEFINE L == Deg(p)
           r == N - i
           B == Span(0, L)
           x == a_pow(L * i)
           g == MirrorTerms(p, i)
           h == Summands(p, r)
<1>1. L \in Nat /\ N \in Nat /\ i \in Nat /\ i < N /\ r \in Nat /\ r + i = N
  BY PolynomialType, Sizes DEF Logs
<1>2. L * i \in Nat
  BY <1>1
<1>3. x \in Elements
  BY <1>2, PowUnit
<1>4. IsFiniteSet(B)
  BY <1>1, SpanFinite
<1>5. \A j \in B : g[j] = gf_mul(x, h[j])
  <2> TAKE j \in B
  <2>1. /\ j \in Nat /\ L - j \in Nat /\ Coef(p, j) \in Elements
        /\ g[j] = gf_mul(Coef(p, j), a_pow((L - j) * i))
    BY <1>1, MirrorTerm
  <2> HIDE DEF r
  <2>2. h[j] = gf_mul(Coef(p, j), a_pow(r * j))
    BY <1>1, <2>1, SummandElement
  <2> HIDE DEF L, g, h, x
  <2> DEFINE s == L - j
             u == s * i
             w == r * j
             z == N * j
  <2>3. u \in Nat /\ w \in Nat /\ z \in Nat
    BY <1>1, <2>1
  <2>4. L * i = u + j * i
    <3>1. s \in Nat /\ L = s + j
      BY <1>1, <2>1
    <3> HIDE DEF s
    <3>2. (s + j) * i = s * i + j * i
      BY <1>1, <2>1, <3>1
    <3> QED
      BY <3>1, <3>2
  <2>5. z = w + j * i
    <3>1. (r + i) * j = r * j + i * j
      BY <1>1, <2>1
    <3>2. i * j = j * i
      BY <1>1, <2>1
    <3> QED
      BY <1>1, <3>1, <3>2
  <2>6. j * i \in Nat
    BY <1>1, <2>1
  <2> HIDE DEF u, w, z
  <2>7. L * i + w = u + z
    BY <2>3, <2>4, <2>5, <2>6
  <2>8. /\ a_pow(u) \in Elements /\ a_pow(w) \in Elements /\ x \in Elements
    BY <1>3, <2>3, PowUnit
  <2>9. gf_mul(x, a_pow(w)) = a_pow(u)
    <3>1. gf_mul(x, a_pow(w)) = a_pow(L * i + w)
      BY <1>2, <2>3, PowAdd DEF x
    <3>2. gf_mul(a_pow(u), a_pow(z)) = a_pow(u + z)
      BY <2>3, PowAdd
    <3>3. a_pow(z) = One
      BY <2>1, PowPeriod DEF z
    <3>4. gf_mul(a_pow(u), One) = a_pow(u)
      BY <2>8, OneElement, MulCommutes, MulZeroOne
    <3> QED
      BY <2>7, <3>1, <3>2, <3>3, <3>4
  <2>10. gf_mul(x, gf_mul(Coef(p, j), a_pow(w))) = gf_mul(Coef(p, j), a_pow(u))
    <3> DEFINE y == Coef(p, j)
               b == a_pow(w)
    <3>1. y \in Elements /\ b \in Elements
      BY <2>1, <2>8
    <3> HIDE DEF y, b
    <3>2. gf_mul(x, gf_mul(y, b)) = gf_mul(gf_mul(x, y), b)
      BY <2>8, <3>1, MulAssociates
    <3>3. gf_mul(x, y) = gf_mul(y, x)
      BY <2>8, <3>1, MulCommutes
    <3>4. gf_mul(gf_mul(y, x), b) = gf_mul(y, gf_mul(x, b))
      BY <2>8, <3>1, MulAssociates
    <3> QED
      BY <2>9, <3>2, <3>3, <3>4 DEF y, b
  <2> QED
    BY <2>1, <2>2, <2>10 DEF u, w
<1>6. \A j \in B : h[j] \in Elements
  <2> TAKE j \in B
  <2>1. j \in Nat
    BY <1>1, SpanFinite
  <2> HIDE DEF r
  <2> QED
    BY <1>1, <2>1, SummandElement
<1> HIDE DEF x, B, g, h, r
<1>7. gf_mul(x, SumOf(B, h)) = SumOf(B, g)
  BY <1>3, <1>4, <1>5, <1>6, ScaledSumTo
<1> QED
  BY <1>1, <1>7 DEF Mirror, Eval, x, B, g, h, r

\* The log of the inverse of a^i.
Opposite(i) == mod_s(N - i)

LEMMA OppositeEval ==
  ASSUME NEW p \in Polynomials, NEW i \in Logs
  PROVE  /\ Opposite(i) \in Logs /\ Opposite(Opposite(i)) = i
         /\ Eval(p, Opposite(i)) = Eval(p, N - i)
<1>1. N \in Nat /\ N > 0 /\ i \in Nat /\ i < N
  BY Sizes DEF Logs
<1>2. Opposite(i) = IF i = 0 THEN 0 ELSE N - i
  BY <1>1 DEF Opposite, mod_s
<1>3. Opposite(i) \in Logs /\ Opposite(Opposite(i)) = i
  BY <1>1, <1>2 DEF Opposite, mod_s, Logs
<1>4. CASE i = 0
  <2> DEFINE B == Span(0, Deg(p))
             f == Summands(p, 0)
             g == Summands(p, N)
  <2>1. \A j \in B : f[j] = g[j]
    <3> TAKE j \in B
    <3>1. j \in Nat
      BY PolynomialType, SpanFinite
    <3>2. f[j] = gf_mul(Coef(p, j), a_pow(0 * j)) /\ g[j] = gf_mul(Coef(p, j), a_pow(N * j))
      BY <1>1, <3>1, SummandElement
    <3>3. 0 * j = 0
      BY <3>1
    <3> QED
      BY <3>1, <3>2, <3>3, PowPeriod, PowZero
  <2> HIDE DEF B, f, g
  <2>2. SumOf(B, f) = SumOf(B, g)
    BY <2>1, SumSame
  <2>3. Opposite(i) = 0 /\ N - i = N
    BY <1>1, <1>2, <1>4
  <2> QED
    BY <1>3, <2>2, <2>3 DEF Eval, B, f, g
<1>5. CASE i # 0
  BY <1>2, <1>3, <1>5
<1> QED
  BY <1>4, <1>5

\* The locator that the code computes has the errors, and nothing else, as the
\* inverses of its roots, each of them once.
LEMMA LocatorRoots ==
  ASSUME NEW c \in SUBSET Logs, Cardinality(c) <= T, NEW v, Binary(v),
         \A i \in 0 .. T-1 : Value(v, 2 * i + 1) = Value(c, 2 * i + 1)
  PROVE  LET p == compute_error_locator_polynomial(compute_syndromes(v))
         IN  /\ p \in Polynomials /\ Deg(p) = Cardinality(c) /\ Coef(p, 0) = One
             /\ \A i \in Logs : Eval(p, N - i) = Zero <=> i \in c
<1> DEFINE syn == compute_syndromes(v)
           s == Rounds(syn, T)
           p == s.elp
           u == ErrorSums(c)
           k == 2 * T
           A == {i \in Logs : Eval(p, N - i) = Zero}
           f == [i \in A |-> Opposite(i)]
           R == {f[i] : i \in A}
<1>1. T \in Nat /\ k \in Nat /\ Cardinality(c) \in Nat /\ IsFiniteSet(c)
  BY Sizes, ErrorsBinary
<1>2. Progress(s, T, c)
  <2>1. \A j \in 1 .. 2 * T : syn[j] = Value(c, j) /\ syn[j] \in Elements
    BY SyndromesOf
  <2> HIDE DEF syn
  <2> QED
    BY <2>1, LastProgress
<1> HIDE DEF s
<1>3. /\ p \in Polynomials /\ Coef(p, 0) = One /\ Deg(p) <= Cardinality(c)
      /\ \A m \in 0 .. k : m % 2 = 1 => Disc(p, u, m) = Zero
  BY <1>2 DEF Progress, State
<1>4. compute_error_locator_polynomial(syn) = p
  BY DEF compute_error_locator_polynomial, s
<1>5. Series(u)
  BY SumsSeries
<1> HIDE DEF p, u
<1>6. Deg(p) \in Nat
  BY <1>3, PolynomialType
<1>7. \A m \in Deg(p) + 1 .. k : Disc(p, u, m) = Zero
  <2>1. \A m \in 0 .. k+1 : m % 2 = 0 => Disc(p, u, m) = Coef(p, m)
    <3> HIDE DEF k
    <3> QED
      BY <1>1, <1>3, <1>5, EvenDisc
  <2> TAKE m \in Deg(p) + 1 .. k
  <2>2. m \in 0..k /\ m \in 0 .. k+1 /\ m \in Int /\ m > Deg(p) /\ (m % 2 = 0 \/ m % 2 = 1)
    BY <1>1, <1>6
  <2>3. CASE m % 2 = 1
    BY <1>3, <2>2, <2>3
  <2>4. CASE m % 2 = 0
    <3>1. Coef(p, m) = Zero
      BY <1>3, <2>2, CoefOutside
    <3> QED
      BY <2>1, <2>2, <2>4, <3>1
  <2> QED
    BY <2>2, <2>3, <2>4
<1>8. \A i \in c : Mirror(p, i) = Zero
  <2>1. Deg(p) + Cardinality(c) <= k
    BY <1>1, <1>3, <1>6
  <2> HIDE DEF k
  <2> QED
    BY <1>1, <1>3, <1>7, <2>1, RootsForced DEF u
<1>9. c \subseteq A
  <2> SUFFICES ASSUME NEW i \in c PROVE i \in Logs /\ Eval(p, N - i) = Zero
    OBVIOUS
  <2>1. i \in Logs
    OBVIOUS
  <2>2. N - i \in Nat /\ Mirror(p, i) = gf_mul(a_pow(Deg(p) * i), Eval(p, N - i))
    BY <1>3, <2>1, MirrorEval
  <2>3. Eval(p, N - i) \in Elements
    BY <1>3, <2>2, EvalElement
  <2>4. a_pow(Deg(p) * i) \in Elements \ {Zero}
    <3>1. Deg(p) * i \in Nat
      BY <1>6, <2>1, PowOfLog
    <3> QED
      BY <3>1, PowUnit
  <2>5. Mirror(p, i) = Zero
    BY <1>8
  <2> QED
    BY <2>1, <2>2, <2>3, <2>4, <2>5, MulNonzero
<1>10. Cardinality(A) <= Deg(p) /\ IsFiniteSet(A) /\ Cardinality(A) \in Nat
  <2>1. \A i \in A : i \in Logs /\ f[i] = Opposite(i)
    OBVIOUS
  <2>2. \A i \in A : f[i] \in Logs /\ Opposite(f[i]) = i /\ Eval(p, f[i]) = Zero
    <3> TAKE i \in A
    <3>1. i \in Logs /\ f[i] = Opposite(i) /\ Eval(p, N - i) = Zero
      OBVIOUS
    <3> HIDE DEF f, A
    <3> QED
      BY <1>3, <3>1, OppositeEval
  <2>3. A \in SUBSET Logs
    OBVIOUS
  <2>4. IsFiniteSet(A) /\ Cardinality(A) \in Nat
    BY <2>3, ErrorsBinary
  <2> HIDE DEF A
  <2>5. DOMAIN f = A
    OBVIOUS
  <2> HIDE DEF f
  <2>6. R \in SUBSET Logs /\ \A r \in R : Eval(p, r) = Zero
    BY <2>2
  <2>7. Cardinality(R) <= Deg(p)
    <3>1. Nonzero(p)
      BY <1>3, OneElement DEF Nonzero
    <3> HIDE DEF R
    <3> QED
      BY <1>3, <2>6, <3>1, RootBound
  <2>8. IsFiniteSet(R) /\ Cardinality(R) = Cardinality(A)
    <3> DEFINE g == [i \in A |-> f[i]]
    <3>1. g \in [A -> R] /\ (\A y \in R : \E i \in A : g[i] = y)
      OBVIOUS
    <3>2. \A a, b \in A : g[a] = g[b] => a = b
      BY <2>2
    <3> HIDE DEF g, R
    <3>3. g \in Bijection(A, R)
      BY <3>1, <3>2 DEF Bijection, Injection, Surjection, IsInjective
    <3> QED
      BY <2>4, <3>3, FS_Bijection DEF ExistsBijection
  <2> QED
    BY <2>4, <2>7, <2>8
<1> HIDE DEF A
<1>11. Cardinality(c) <= Cardinality(A)
  BY <1>9, <1>10, FS_Subset
<1>12. Deg(p) = Cardinality(c) /\ Cardinality(A) = Cardinality(c)
  BY <1>1, <1>3, <1>6, <1>10, <1>11
<1>13. c = A
  BY <1>9, <1>10, <1>12, FS_Subset
<1>14. \A i \in Logs : Eval(p, N - i) = Zero <=> i \in c
  BY <1>13 DEF A
<1> QED
  BY <1>3, <1>4, <1>12, <1>14 DEF syn

-----------------------------------------------------------------------------
\* The bits in error

\* The bits in which data r with parity ecc differs from the codeword of w.
Errors(r, ecc, w) == Joined(Plus(ecc, bch_encode(w)), Plus(r, w))

\* The parity calculated and the one received differ as the errors do, at the
\* roots of the generator.
LEMMA ErrorsValue ==
  ASSUME NEW r \in Below(8 * Bytes), NEW ecc \in Below(ecc_bits), NEW w \in Below(8 * Bytes),
         NEW x, RootOfG(x)
  PROVE  Value(Plus(bch_encode(r), ecc), x) = Value(Errors(r, ecc, w), x)
<1> DEFINE a == bch_encode(r)
           b == bch_encode(w)
           c == Places(Plus(r, w), Bytes)
           V(v) == Value(v, x)
<1>1. Plus(r, w) \in Below(8 * Bytes)
  BY BelowPlus
<1>2. Binary(a) /\ Binary(b) /\ Binary(Plus(r, w))
  BY <1>1, EncodeValue
<1>3. Binary(ecc)
  BY BelowFinite, GeneratorReducing DEF Reducing
<1>4. Binary(c)
  BY <1>2, Sizes, PlacesValue
<1>5. V(Plus(Plus(a, b), c)) = Zero
  BY DifferingValue DEF Differing
<1> HIDE DEF a, b, c
<1>6. Binary(Plus(a, b)) /\ V(Plus(a, b)) = Plus(V(a), V(b))
  BY <1>2, ValuePlus
<1>7. Binary(Plus(ecc, b)) /\ V(Plus(ecc, b)) = Plus(V(ecc), V(b))
  BY <1>2, <1>3, ValuePlus
<1>8. V(Plus(Plus(a, b), c)) = Plus(V(Plus(a, b)), V(c))
  BY <1>4, <1>6, ValuePlus
<1>9. V(Plus(Plus(ecc, b), c)) = Plus(V(Plus(ecc, b)), V(c))
  BY <1>4, <1>7, ValuePlus
<1>10. V(Plus(a, ecc)) = Plus(V(a), V(ecc))
  BY <1>2, <1>3, ValuePlus
<1> HIDE DEF V
<1>11. Plus(V(a), V(b)) = V(c)
  BY <1>5, <1>6, <1>8, PlusZero
<1>12. Plus(Plus(V(ecc), V(b)), Plus(V(a), V(b))) = Plus(V(a), V(ecc))
  BY Zenon DEF Plus
<1>13. V(Plus(a, ecc)) = V(Plus(Plus(ecc, b), c))
  BY <1>7, <1>9, <1>10, <1>11, <1>12
<1> QED
  BY <1>13 DEF Errors, Joined, a, b, c, V

\* A response within T bits of the codeword of w gets the locator of its errors.
LEMMA LocatorOfErrors ==
  ASSUME NEW r \in Below(8 * Bytes), NEW ecc \in Below(ecc_bits), NEW w \in Below(8 * Bytes),
         8 * Bytes + ecc_bits <= N,
         Cardinality(Plus(r, w)) + Cardinality(Plus(ecc, bch_encode(w))) <= T
  PROVE  LET c == Errors(r, ecc, w)
             p == compute_error_locator_polynomial(compute_syndromes(Plus(bch_encode(r), ecc)))
         IN  /\ c \in SUBSET Logs
             /\ Cardinality(c) = Cardinality(Plus(r, w)) + Cardinality(Plus(ecc, bch_encode(w)))
             /\ p \in Polynomials /\ Deg(p) = Cardinality(c) /\ Coef(p, 0) = One
             /\ \A i \in Logs : Eval(p, N - i) = Zero <=> i \in c
<1> DEFINE c == Errors(r, ecc, w)
           v == Plus(bch_encode(r), ecc)
           p == Plus(ecc, bch_encode(w))
           x == Plus(r, w)
<1>1. p \in Below(ecc_bits) /\ x \in Below(8 * Bytes) /\ v \in Below(ecc_bits)
  BY EncodeType, BelowPlus
<1>2. /\ c \in SUBSET Logs /\ Cardinality(c) = Cardinality(p) + Cardinality(x)
      /\ Cardinality(p) \in Nat /\ Cardinality(x) \in Nat
  BY <1>1, JoinedSize DEF Errors
<1>3. Binary(v)
  BY <1>1, BelowFinite, GeneratorReducing DEF Reducing
<1>4. \A i \in 0 .. T-1 : Value(v, 2 * i + 1) = Value(c, 2 * i + 1)
  <2> TAKE i \in 0 .. T-1
  <2>1. 2 * i + 1 \in Nat
    OBVIOUS
  <2>2. RootOfG(2 * i + 1)
    BY <2>1, GeneratorVanishes, GenpolyValue DEF RootOfG
  <2> QED
    BY <2>2, ErrorsValue
<1> HIDE DEF c, v, p, x
<1>5. Cardinality(c) = Cardinality(x) + Cardinality(p) /\ Cardinality(c) <= T
  BY <1>2 DEF x, p
<1>6. LET q == compute_error_locator_polynomial(compute_syndromes(v))
      IN  /\ q \in Polynomials /\ Deg(q) = Cardinality(c) /\ Coef(q, 0) = One
          /\ \A i \in Logs : Eval(q, N - i) = Zero <=> i \in c
  BY <1>2, <1>3, <1>4, <1>5, LocatorRoots
<1> QED
  BY <1>2, <1>5, <1>6 DEF c, v, x, p

\* The bit of data that a degree stands for is the one that stands there.
LEMMA ReversedPosition ==
  ASSUME NEW i \in Nat
  PROVE  /\ i < 8 * Bytes => nbits - 1 - Position(Bytes, i) \in 0 .. 8 * Bytes - 1
         /\ BitReversed(nbits - 1 - Position(Bytes, i)) = i
<1> DEFINE u == i \div 8
           v == i % 8
           k == Position(Bytes, i)
           m == nbits - 1 - k
<1>1. Bytes \in Nat /\ ecc_bits \in Nat
  BY Sizes, GeneratorReducing DEF Reducing
<1>2. u \in Nat /\ v \in 0..7 /\ i = 8 * u + v
  OBVIOUS
<1>3. k = ecc_bits + 8 * (Bytes - 1) - 8 * u + v
  BY DEF Position
<1> HIDE DEF u, v, k
<1>4. m = 8 * u + (7 - v)
  BY <1>1, <1>2, <1>3 DEF nbits
<1>5. m % 8 = 7 - v
  BY <1>2, <1>4
<1>6. i < 8 * Bytes => m \in 0 .. 8 * Bytes - 1
  BY <1>1, <1>2, <1>4
<1> HIDE DEF m
<1>7. BitReversed(m) = i
  BY <1>2, <1>4, <1>5 DEF BitReversed
<1> QED
  BY <1>6, <1>7 DEF m, k

-----------------------------------------------------------------------------
\* Values at the elements of the field, and polynomials that split

\* The values of a polynomial at the nonzero elements of the field.
Units == Elements \ {Zero}
At(p, x) == Eval(p, a_log(x))
RootsIn(p) == {x \in Units : At(p, x) = Zero}

LEMMA UnitLog ==
  ASSUME NEW x \in Units
  PROVE  /\ x \in Elements /\ x # Zero /\ a_log(x) \in Logs /\ a_log(x) \in Nat
         /\ a_pow_tab[a_log(x)] = x /\ a_pow(a_log(x)) = x
<1>1. x \in Elements /\ x # Zero
  BY DEF Units
<1>2. a_log(x) \in Logs /\ a_pow_tab[a_log(x)] = x
  BY <1>1, LogPower
<1> QED
  BY <1>1, <1>2, PowOfLog

LEMMA AtElement ==
  ASSUME NEW p \in Polynomials, NEW x \in Units
  PROVE  At(p, x) \in Elements
BY UnitLog, EvalElement DEF At

LEMMA UnitsFinite == IsFiniteSet(Units)
BY ElementsFinite, FS_Subset DEF Units

LEMMA RootsFinite ==
  \A p : /\ RootsIn(p) \subseteq Units /\ IsFiniteSet(RootsIn(p))
         /\ Cardinality(RootsIn(p)) \in Nat
<1> TAKE p
<1>1. RootsIn(p) \subseteq Units
  BY DEF RootsIn
<1> QED
  BY <1>1, UnitsFinite, FS_Subset, FS_CardinalityType

\* No more roots than the degree.
LEMMA UnitBound ==
  ASSUME NEW p \in Polynomials, Nonzero(p)
  PROVE  Cardinality(RootsIn(p)) <= Deg(p)
<1> DEFINE R == {r \in Logs : Eval(p, r) = Zero}
           f == [r \in R |-> a_pow_tab[r]]
           S == {f[r] : r \in R}
<1>1. R \in SUBSET Logs /\ \A r \in R : Eval(p, r) = Zero
  OBVIOUS
<1>2. RootsIn(p) \subseteq S
  <2> SUFFICES ASSUME NEW x \in RootsIn(p) PROVE x \in S
    OBVIOUS
  <2>1. x \in Units /\ At(p, x) = Zero
    BY DEF RootsIn
  <2>2. a_log(x) \in R /\ a_pow_tab[a_log(x)] = x
    BY <2>1, UnitLog DEF At
  <2> QED
    BY <2>2
<1>3. DOMAIN f = R
  OBVIOUS
<1> HIDE DEF f, R
<1>4. Cardinality(R) <= Deg(p)
  BY <1>1, RootBound
<1>5. N - 1 \in Int
  BY Sizes
<1>6. IsFiniteSet(R)
  <2>1. IsFiniteSet(Logs)
    BY <1>5, FS_Interval DEF Logs
  <2> QED
    BY <1>1, <2>1, FS_Subset
<1>7. IsFiniteSet(S) /\ Cardinality(S) \in Nat /\ Cardinality(S) <= Cardinality(R)
  BY <1>3, <1>6, ImageSize
<1> HIDE DEF S
<1>8. Cardinality(RootsIn(p)) <= Cardinality(S)
  BY <1>2, <1>7, FS_Subset
<1>9. Cardinality(RootsIn(p)) \in Nat /\ Cardinality(R) \in Nat /\ Deg(p) \in Nat
  BY <1>6, RootsFinite, FS_CardinalityType, PolynomialType
<1> QED
  BY <1>4, <1>7, <1>8, <1>9

\* A polynomial with as many roots as its degree has room for.
Splits(p) == p \in Polynomials /\ Nonzero(p) /\ Cardinality(RootsIn(p)) = Deg(p)

\* The values of a polynomial are those of its terms, each of which may be left out
\* when it is zero.
LEMMA SameTerms ==
  ASSUME NEW p \in Polynomials, NEW q \in Polynomials, \A j \in Int : Coef(p, j) = Coef(q, j),
         NEW r \in Nat
  PROVE  Eval(p, r) = Eval(q, r)
<1> SUFFICES ASSUME NEW a \in Polynomials, NEW b \in Polynomials, Deg(a) <= Deg(b),
                    \A j \in Int : Coef(a, j) = Coef(b, j)
             PROVE  Eval(a, r) = Eval(b, r)
  BY PolynomialType
<1> DEFINE S == Span(0, Deg(a))
           C == Span(0, Deg(b))
           f == Summands(a, r)
           g == Summands(b, r)
<1>1. Deg(a) \in Nat /\ Deg(b) \in Nat
  BY PolynomialType
<1>2. S \in SUBSET C /\ \A j \in C : j \in Nat /\ (j \notin S => j > Deg(a))
  BY <1>1 DEF Span
<1>3. IsFiniteSet(C)
  BY <1>1, SpanFinite
<1>4. \A j \in C : f[j] = g[j]
  BY <1>2 DEF Summands
<1>5. \A j \in C \ S : f[j] = {}
  <2> TAKE j \in C \ S
  <2>1. j \in Nat /\ j > Deg(a)
    BY <1>2
  <2>2. Coef(a, j) = Zero
    BY <2>1, CoefOutside
  <2>3. f[j] = gf_mul(Coef(a, j), a_pow(r * j)) /\ a_pow(r * j) \in Elements
    BY <2>1, SummandElement
  <2> QED
    BY <2>2, <2>3, MulZeroOne DEF Zero
<1> HIDE DEF S, C, f, g
<1>6. SumOf(C, f) = SumOf(S, f)
  BY <1>2, <1>3, <1>5, SumWithin
<1>7. SumOf(C, f) = SumOf(C, g)
  BY <1>4, SumSame
<1> QED
  BY <1>6, <1>7 DEF Eval, S, C, f, g

LEMMA TrimmedKeeps ==
  ASSUME NEW p \in Polynomials
  PROVE  /\ Trimmed(p) \in Polynomials /\ Deg(Trimmed(p)) <= Deg(p)
         /\ \A j \in Int : Coef(Trimmed(p), j) = Coef(p, j)
         /\ Deg(Trimmed(p)) > 0 => Coef(p, Deg(Trimmed(p))) # Zero
<1> DEFINE n == Len(p)
           S == {1} \cup {i \in DOMAIN p : p[i] # Zero}
           m == Max(S)
           q == Trimmed(p)
<1>1. n \in Nat /\ n = Deg(p) + 1 /\ Deg(p) \in Nat /\ p \in Seq(Elements)
  BY PolynomialType
<1>2. DOMAIN p = 1..n
  BY <1>1, LenProperties
<1>3. S \in SUBSET (0..n) /\ S # {} /\ S \subseteq 1..n
  BY <1>1, <1>2
<1>4. m \in S /\ \A i \in S : m >= i
  <2> HIDE DEF S
  <2> QED
    BY <1>1, <1>3, MaxType
<1>5. q = SubSeq(p, 1, m)
  BY DEF Trimmed, S
<1>6. \A i \in 1..n : p[i] # Zero => i <= m
  BY <1>1, <1>2, <1>4
<1>7. m \in 1..n /\ (m > 1 => p[m] # Zero)
  BY <1>3, <1>4
<1> HIDE DEF S, m
<1>8. \A i \in 1..m : p[i] \in Elements
  BY <1>1, <1>7, PolynomialType
<1>9. q \in Seq(Elements) /\ Len(q) = m /\ \A i \in 1..m : q[i] = p[i]
  BY <1>1, <1>5, <1>7, <1>8, SubSeqProperties
<1>10. q \in Polynomials /\ Deg(q) = m - 1
  BY <1>7, <1>9, EmptySeq DEF Polynomials, Deg
<1>11. \A j \in Int : Coef(q, j) = Coef(p, j)
  <2> TAKE j \in Int
  <2>1. CASE j \in 0 .. m-1
    <3>1. Coef(q, j) = q[j+1]
      BY <1>10, <2>1 DEF Coef
    <3>2. j \in 0 .. Deg(p)
      BY <1>1, <1>7, <2>1
    <3>3. Coef(p, j) = p[j+1]
      BY <3>2 DEF Coef
    <3>4. j + 1 \in 1..m
      BY <1>7, <2>1
    <3> QED
      BY <1>9, <3>1, <3>3, <3>4
  <2>2. CASE j \notin 0 .. m-1
    <3>1. Coef(q, j) = Zero
      BY <1>10, <2>2 DEF Coef
    <3>2. CASE j \in 0 .. Deg(p)
      <4>1. j + 1 \in 1..n /\ j + 1 > m
        BY <1>1, <1>7, <2>2, <3>2
      <4>2. p[j+1] = Zero
        BY <1>6, <1>7, <4>1
      <4> QED
        BY <3>1, <3>2, <4>2 DEF Coef
    <3>3. CASE j \notin 0 .. Deg(p)
      BY <3>1, <3>3 DEF Coef
    <3> QED
      BY <3>2, <3>3
  <2> QED
    BY <2>1, <2>2
<1>12. Deg(q) > 0 => Coef(p, Deg(q)) # Zero
  <2> SUFFICES ASSUME Deg(q) > 0 PROVE Coef(p, Deg(q)) # Zero
    OBVIOUS
  <2>1. m - 1 \in 0 .. Deg(p) /\ m > 1 /\ (m - 1) + 1 = m
    BY <1>1, <1>7, <1>10
  <2>2. Coef(p, m - 1) = p[m]
    BY <2>1 DEF Coef
  <2> QED
    BY <1>7, <1>10, <2>1, <2>2
<1>13. Deg(q) <= Deg(p)
  BY <1>1, <1>7, <1>10
<1> QED
  BY <1>10, <1>11, <1>12, <1>13

LEMMA MinType ==
  ASSUME NEW n \in Nat, NEW S \in SUBSET (0..n), S # {}
  PROVE  Min(S) \in S
<1> DEFINE Good == {k \in 0..n : (\E x \in S : x <= k) => \E x \in S : \A y \in S : x <= y}
<1>1. 0 \in Good
  OBVIOUS
<1>2. \A k \in 0 .. n-1 : k \in Good => k + 1 \in Good
  <2> SUFFICES ASSUME NEW k \in 0 .. n-1, k \in Good,
                      NEW x \in S, x <= k + 1, ~ \E z \in S : z <= k
               PROVE  \A y \in S : x <= y
    OBVIOUS
  <2> QED
    OBVIOUS
<1> HIDE DEF Good
<1>3. n \in 0..n /\ n \in Good
  BY <1>1, <1>2, Induction
<1>4. \E x \in S : x <= n
  <2>1. PICK x : x \in S
    OBVIOUS
  <2>2. x \in 0..n
    BY <2>1
  <2> QED
    BY <2>1, <2>2
<1>5. \E x \in S : \A y \in S : x <= y
  BY <1>3, <1>4 DEF Good
<1> QED
  BY <1>5 DEF Min

\* The roots of a polynomial that splits leave no room for the root zero or for
\* a leading zero.
LEMMA SplitEnds ==
  ASSUME NEW p, Splits(p)
  PROVE  /\ p \in Polynomials /\ Deg(p) \in Nat
         /\ Coef(p, Deg(p)) # Zero /\ Coef(p, 0) # Zero
<1>1. p \in Polynomials /\ Nonzero(p) /\ Cardinality(RootsIn(p)) = Deg(p) /\ Deg(p) \in Nat
  BY PolynomialType DEF Splits
<1> DEFINE d == Deg(p)
<1>2. PICK j \in Int : Coef(p, j) # Zero
  BY <1>1 DEF Nonzero
<1>3. j \in 0..d
  BY <1>1, <1>2, CoefOutside
<1>4. Coef(p, d) # Zero
  <2> SUFFICES ASSUME Coef(p, d) = Zero PROVE FALSE
    OBVIOUS
  <2>1. j < d /\ d - 1 \in Nat
    BY <1>1, <1>2, <1>3
  <2> DEFINE c == [i \in 0 .. d-1 |-> Coef(p, i)]
             q == Poly(d - 1, c)
  <2>2. \A i \in 0 .. d-1 : c[i] \in Elements
    BY <1>1, CoefElement
  <2>3. q \in Polynomials /\ Deg(q) = d - 1 /\ \A i \in 0 .. d-1 : Coef(q, i) = c[i]
    BY <2>1, <2>2, PolyType
  <2>4. \A i \in 0 .. d-1 : c[i] = Coef(p, i)
    OBVIOUS
  <2> HIDE DEF q, c
  <2>5. \A i \in Int : Coef(q, i) = Coef(p, i)
    <3> TAKE i \in Int
    <3>1. CASE i \in 0 .. d-1
      BY <2>3, <2>4, <3>1
    <3>2. CASE i \notin 0 .. d-1
      <4>1. Coef(q, i) = Zero
        BY <1>1, <2>3, <3>2, CoefOutside
      <4>2. i = d \/ i < 0 \/ i > d
        BY <1>1, <3>2
      <4>3. Coef(p, i) = Zero
        BY <1>1, <4>2, CoefOutside
      <4> QED
        BY <4>1, <4>3
    <3> QED
      BY <3>1, <3>2
  <2>6. RootsIn(q) = RootsIn(p)
    <3>1. \A x \in Units : At(q, x) = At(p, x)
      BY <1>1, <2>3, <2>5, UnitLog, SameTerms DEF At
    <3> QED
      BY <3>1 DEF RootsIn
  <2>7. Nonzero(q)
    BY <1>2, <2>5 DEF Nonzero
  <2>8. Cardinality(RootsIn(q)) <= Deg(q)
    BY <2>3, <2>7, UnitBound
  <2> QED
    BY <1>1, <2>3, <2>6, <2>8
<1>5. Coef(p, 0) # Zero
  <2> SUFFICES ASSUME Coef(p, 0) = Zero PROVE FALSE
    OBVIOUS
  <2>1. d > 0
    BY <1>1, <1>4
  <2> DEFINE c == [i \in 0 .. d-1 |-> Coef(p, i + 1)]
             q == Poly(d - 1, c)
  <2>2. \A i \in 0 .. d-1 : c[i] \in Elements
    BY <1>1, CoefElement
  <2>3. q \in Polynomials /\ Deg(q) = d - 1 /\ \A i \in 0 .. d-1 : Coef(q, i) = c[i]
    BY <1>1, <2>1, <2>2, PolyType
  <2>4. \A i \in 0 .. d-1 : c[i] = Coef(p, i + 1)
    OBVIOUS
  <2> HIDE DEF q, c
  <2>5. d - 1 \in 0 .. d-1 /\ (d - 1) + 1 = d /\ d - 1 \in Int
    BY <1>1, <2>1
  <2>6. Nonzero(q)
    BY <1>4, <2>3, <2>4, <2>5 DEF Nonzero
  <2>7. \A x \in RootsIn(p) : x \in RootsIn(q)
    <3> TAKE x \in RootsIn(p)
    <3>1. x \in Units /\ Eval(p, a_log(x)) = Zero
      BY DEF RootsIn, At
    <3> DEFINE r == a_log(x)
    <3>2. r \in Nat /\ a_pow(r) \in Elements /\ a_pow(r) # Zero
      BY <3>1, UnitLog, PowUnit
    <3> HIDE DEF r
    <3>3. Eval(p, r) = Plus(gf_mul(TailSum(p, r, 0), a_pow(r)), Coef(p, 0))
      <4>1. 0 \in 0 .. Deg(p)
        BY <1>1
      <4>2. TailSum(p, r, 0 - 1) = Plus(gf_mul(TailSum(p, r, 0), a_pow(r)), Coef(p, 0))
        BY <1>1, <3>2, <4>1, TailNext
      <4> QED
        BY <1>1, <3>2, <4>2, TailFirst
    <3>4. TailSum(p, r, 0) \in Elements
      BY <1>1, <3>2, TailElement
    <3>5. gf_mul(TailSum(p, r, 0), a_pow(r)) = Zero
      BY <3>1, <3>3, PlusZero DEF r
    <3>6. TailSum(p, r, 0) = Zero
      BY <3>2, <3>4, <3>5, MulNonzero
    <3>7. Eval(q, r) = TailSum(p, r, 0)
      <4> DEFINE S == Span(0, d - 1)
                 W == Span(1, d)
                 f == Summands(q, r)
                 g == TailTerms(p, r, 0)
                 m == [i \in S |-> i + 1]
      <4>1. \A i \in S : i \in 0 .. d-1 /\ i \in Nat /\ m[i] = i + 1
        BY <1>1, <2>1 DEF Span
      <4>2. IsFiniteSet(S)
        BY <1>1, SpanFinite
      <4>3. \A i \in S : \A l \in S : m[i] = m[l] => i = l
        BY <4>1
      <4>4. \A i \in S : f[i] = g[m[i]]
        <5> TAKE i \in S
        <5>1. i \in Nat /\ i \in 0 .. d-1 /\ m[i] = i + 1 /\ i + 1 \in Nat /\ (i + 1) - 0 - 1 = i
          BY <4>1
        <5>2. f[i] = gf_mul(Coef(q, i), a_pow(r * i))
          BY <5>1 DEF Summands
        <5>3. g[i + 1] = gf_mul(Coef(p, i + 1), a_pow(r * ((i + 1) - 0 - 1)))
          BY <5>1 DEF TailTerms
        <5> QED
          BY <2>3, <2>4, <5>1, <5>2, <5>3
      <4>5. W = {m[i] : i \in S}
        <5>1. \A i \in W : i - 1 \in S /\ m[i - 1] = i
          BY <1>1, <2>1 DEF Span
        <5>2. \A i \in S : m[i] \in W
          BY <1>1, <2>1, <4>1 DEF Span
        <5> HIDE DEF W, S, m
        <5> QED
          BY <5>1, <5>2
      <4> HIDE DEF S, W, f, g, m
      <4>6. SumOf(W, g) = SumOf(S, f)
        BY <4>2, <4>3, <4>4, <4>5, SumMapped
      <4>7. Eval(q, r) = SumOf(S, f)
        BY <2>3 DEF Eval, S, f
      <4>8. TailSum(p, r, 0) = SumOf(W, g)
        BY DEF TailSum, W, g
      <4> QED
        BY <4>6, <4>7, <4>8
    <3> QED
      BY <3>1, <3>6, <3>7 DEF r, RootsIn, At
  <2>8. Cardinality(RootsIn(p)) <= Cardinality(RootsIn(q))
    BY <2>7, RootsFinite, FS_Subset
  <2>9. Cardinality(RootsIn(q)) <= Deg(q)
    BY <2>3, <2>6, UnitBound
  <2> QED
    BY <1>1, <2>1, <2>3, <2>8, <2>9, RootsFinite
<1> QED
  BY <1>1, <1>4, <1>5

\* Horner's rule for the degrees that have a formula.
LEMMA HornerAt ==
  ASSUME NEW p \in Polynomials, NEW x \in Units
  PROVE  /\ Deg(p) = 1 => At(p, x) = Plus(gf_mul(Coef(p, 1), x), Coef(p, 0))
         /\ Deg(p) = 2 => At(p, x) =
              Plus(gf_mul(Plus(gf_mul(Coef(p, 2), x), Coef(p, 1)), x), Coef(p, 0))
         /\ Deg(p) = 3 => At(p, x) =
              Plus(gf_mul(Plus(gf_mul(Plus(gf_mul(Coef(p, 3), x), Coef(p, 2)), x),
                               Coef(p, 1)), x), Coef(p, 0))
         /\ Deg(p) = 4 => At(p, x) =
              Plus(gf_mul(Plus(gf_mul(Plus(gf_mul(Plus(gf_mul(Coef(p, 4), x),
                Coef(p, 3)), x), Coef(p, 2)), x), Coef(p, 1)), x), Coef(p, 0))
<1> DEFINE r == a_log(x)
           t == [j \in Int |-> TailSum(p, r, j)]
<1>1. r \in Nat /\ a_pow(r) = x /\ x \in Elements
  BY UnitLog
<1>2. \A j \in 0 .. Deg(p) : t[j - 1] = Plus(gf_mul(t[j], x), Coef(p, j))
  <2> TAKE j \in 0 .. Deg(p)
  <2>1. j \in Int /\ j - 1 \in Int
    BY PolynomialType
  <2>2. TailSum(p, r, j - 1) = Plus(gf_mul(TailSum(p, r, j), a_pow(r)), Coef(p, j))
    BY <1>1, TailNext
  <2> QED
    BY <1>1, <2>1, <2>2
<1>3. t[-1] = At(p, x) /\ (Deg(p) \in Nat => t[Deg(p)] = Zero)
  <2>1. TailSum(p, r, -1) = Eval(p, r) /\ TailSum(p, r, Deg(p)) = Zero
    BY <1>1, TailFirst
  <2>2. Deg(p) \in Int
    BY PolynomialType
  <2> QED
    BY <2>1, <2>2 DEF At
<1> HIDE DEF t, r
<1>4. gf_mul(Zero, x) = Zero /\ \A a : Plus(Zero, a) = a
  BY <1>1, MulZeroOne, PlusZero
<1>5. \A j \in Nat : Deg(p) = j => /\ t[j] = Zero /\ t[j - 1] = Coef(p, j)
                                  /\ \A i \in 0..j : t[i - 1] = Plus(gf_mul(t[i], x), Coef(p, i))
  <2> SUFFICES ASSUME NEW j \in Nat, Deg(p) = j PROVE t[j] = Zero /\ t[j - 1] = Coef(p, j)
    BY <1>2
  <2>1. t[j] = Zero
    BY <1>3
  <2>2. t[j - 1] = Plus(gf_mul(t[j], x), Coef(p, j))
    BY <1>2
  <2> QED
    BY <1>4, <2>1, <2>2
<1>6. Deg(p) = 1 => At(p, x) = Plus(gf_mul(Coef(p, 1), x), Coef(p, 0))
  <2> SUFFICES ASSUME Deg(p) = 1 PROVE At(p, x) = Plus(gf_mul(Coef(p, 1), x), Coef(p, 0))
    OBVIOUS
  <2>1. t[0] = Coef(p, 1) /\ t[-1] = Plus(gf_mul(t[0], x), Coef(p, 0))
    BY <1>5
  <2> QED
    BY <1>3, <2>1
<1>7. Deg(p) = 2 => At(p, x) =
        Plus(gf_mul(Plus(gf_mul(Coef(p, 2), x), Coef(p, 1)), x), Coef(p, 0))
  <2> SUFFICES ASSUME Deg(p) = 2
               PROVE  At(p, x) =
                 Plus(gf_mul(Plus(gf_mul(Coef(p, 2), x), Coef(p, 1)), x), Coef(p, 0))
    OBVIOUS
  <2>1. /\ t[1] = Coef(p, 2) /\ t[0] = Plus(gf_mul(t[1], x), Coef(p, 1))
        /\ t[-1] = Plus(gf_mul(t[0], x), Coef(p, 0))
    BY <1>5
  <2> QED
    BY <1>3, <2>1
<1>8. Deg(p) = 3 => At(p, x) =
        Plus(gf_mul(Plus(gf_mul(Plus(gf_mul(Coef(p, 3), x), Coef(p, 2)), x),
                         Coef(p, 1)), x), Coef(p, 0))
  <2> SUFFICES ASSUME Deg(p) = 3
               PROVE  At(p, x) =
                 Plus(gf_mul(Plus(gf_mul(Plus(gf_mul(Coef(p, 3), x), Coef(p, 2)), x),
                                  Coef(p, 1)), x), Coef(p, 0))
    OBVIOUS
  <2>1. /\ t[2] = Coef(p, 3) /\ t[1] = Plus(gf_mul(t[2], x), Coef(p, 2))
        /\ t[0] = Plus(gf_mul(t[1], x), Coef(p, 1))
        /\ t[-1] = Plus(gf_mul(t[0], x), Coef(p, 0))
    BY <1>5
  <2> QED
    BY <1>3, <2>1
<1>9. Deg(p) = 4 => At(p, x) =
        Plus(gf_mul(Plus(gf_mul(Plus(gf_mul(Plus(gf_mul(Coef(p, 4), x),
          Coef(p, 3)), x), Coef(p, 2)), x), Coef(p, 1)), x), Coef(p, 0))
  <2> SUFFICES ASSUME Deg(p) = 4
               PROVE  At(p, x) =
                 Plus(gf_mul(Plus(gf_mul(Plus(gf_mul(Plus(gf_mul(Coef(p, 4), x),
                   Coef(p, 3)), x), Coef(p, 2)), x), Coef(p, 1)), x), Coef(p, 0))
    OBVIOUS
  <2>1. /\ t[3] = Coef(p, 4) /\ t[2] = Plus(gf_mul(t[3], x), Coef(p, 3))
        /\ t[1] = Plus(gf_mul(t[2], x), Coef(p, 2))
        /\ t[0] = Plus(gf_mul(t[1], x), Coef(p, 1))
        /\ t[-1] = Plus(gf_mul(t[0], x), Coef(p, 0))
    BY <1>5
  <2> QED
    BY <1>3, <2>1
<1> QED
  BY <1>6, <1>7, <1>8, <1>9

-----------------------------------------------------------------------------
\* Conjugates and traces

\* The conjugates of an element, and their sum.
Conj(y, j) == IF y = Zero THEN Zero ELSE a_pow(a_log(y) * 2^j)
Conjs(y) == [j \in Nat |-> Conj(y, j)]
Tr(y) == SumOf(Span(0, M - 1), Conjs(y))

LEMMA SquareFacts ==
  /\ gf_sqr(Zero) = Zero /\ gf_sqr(One) = One
  /\ \A x \in Elements : gf_sqr(x) \in Elements
  /\ \A x \in Elements \ {Zero} : gf_sqr(x) \in Elements \ {Zero}
  /\ \A i \in Nat : gf_sqr(a_pow(i)) = a_pow(2 * i)
<1>1. \A x \in Elements : gf_sqr(x) = gf_mul(x, x)
  BY SquareIsMul
<1>2. gf_sqr(Zero) = Zero /\ gf_sqr(One) = One
  BY <1>1, OneElement, MulZeroOne
<1>3. \A x \in Elements : gf_sqr(x) \in Elements
  BY FieldOps
<1>4. \A x \in Elements \ {Zero} : gf_sqr(x) \in Elements \ {Zero}
  BY <1>1, MulNonzero
<1>5. \A i \in Nat : gf_sqr(a_pow(i)) = a_pow(2 * i)
  <2> TAKE i \in Nat
  <2>1. gf_mul(a_pow(i), a_pow(i)) = a_pow(i + i)
    BY PowAdd
  <2>2. i + i = 2 * i
    OBVIOUS
  <2> QED
    BY <1>1, <2>1, <2>2, PowUnit
<1> QED
  BY <1>2, <1>3, <1>4, <1>5

LEMMA SquareMul ==
  ASSUME NEW x \in Elements, NEW y \in Elements
  PROVE  gf_sqr(gf_mul(x, y)) = gf_mul(gf_sqr(x), gf_sqr(y))
<1> DEFINE p == gf_mul(x, y)
<1>1. p \in Elements /\ gf_mul(y, p) \in Elements /\ gf_mul(y, y) \in Elements
  BY FieldOps
<1>2. gf_sqr(p) = gf_mul(p, p) /\ gf_sqr(x) = gf_mul(x, x) /\ gf_sqr(y) = gf_mul(y, y)
  BY <1>1, SquareIsMul
<1>3. gf_mul(x, gf_mul(y, p)) = gf_mul(p, p)
  BY <1>1, MulAssociates
<1>4. gf_mul(y, p) = gf_mul(x, gf_mul(y, y))
  <2>1. gf_mul(y, p) = gf_mul(p, y)
    BY <1>1, MulCommutes
  <2>2. gf_mul(p, y) = gf_mul(x, gf_mul(y, y))
    BY <1>1, MulAssociates
  <2> QED
    BY <2>1, <2>2
<1>5. gf_mul(x, gf_mul(x, gf_mul(y, y))) = gf_mul(gf_mul(x, x), gf_mul(y, y))
  BY <1>1, MulAssociates
<1> QED
  BY <1>2, <1>3, <1>4, <1>5

LEMMA SquareInjective ==
  ASSUME NEW x \in Elements, NEW y \in Elements, gf_sqr(x) = gf_sqr(y)
  PROVE  x = y
<1>1. gf_sqr(Plus(x, y)) = Plus(gf_sqr(x), gf_sqr(y)) /\ Plus(x, y) \in Elements
  BY SquarePlus, PlusElement
<1>2. gf_sqr(Plus(x, y)) = Zero
  BY <1>1, PlusZero
<1>3. Plus(x, y) = Zero
  BY <1>1, <1>2, SquareFacts
<1> QED
  BY <1>3, PlusZero

LEMMA ConjSteps ==
  ASSUME NEW y \in Elements
  PROVE  /\ Conj(y, 0) = y /\ Conj(y, M) = y
         /\ \A j \in Nat : Conj(y, j) \in Elements /\ Conj(y, j + 1) = gf_sqr(Conj(y, j))
<1>1. CASE y = Zero
  BY <1>1, SquareFacts, OneElement DEF Conj
<1>2. CASE y # Zero
  <2> DEFINE l == a_log(y)
  <2>1. y \in Units
    BY <1>2 DEF Units
  <2>2. l \in Nat /\ a_pow(l) = y
    BY <2>1, UnitLog
  <2>3. \A j \in Nat : Conj(y, j) = a_pow(l * 2^j)
    BY <1>2 DEF Conj
  <2> HIDE DEF l
  <2>4. Conj(y, 0) = y
    <3>1. 0 \in Nat /\ l * 1 = l
      BY <2>2
    <3> QED
      BY <2>2, <2>3, <3>1, PowerFirst
  <2>5. \A j \in Nat : Conj(y, j) \in Elements /\ Conj(y, j + 1) = gf_sqr(Conj(y, j))
    <3> TAKE j \in Nat
    <3> DEFINE e == 2^j
    <3>1. e \in Nat /\ 2^(j + 1) = 2 * e /\ j + 1 \in Nat
      BY PowerOfTwo, PowerNext
    <3>2. Conj(y, j) = a_pow(l * e) /\ Conj(y, j + 1) = a_pow(l * (2 * e))
      BY <2>3, <3>1
    <3> HIDE DEF e
    <3>3. l * e \in Nat /\ l * (2 * e) = 2 * (l * e)
      BY <2>2, <3>1
    <3> QED
      BY <3>2, <3>3, SquareFacts, PowUnit
  <2>6. Conj(y, M) = y
    <3>1. M \in Nat /\ 2^M = N + 1 /\ N \in Nat
      <4>1. M \in Nat /\ N \in Nat
        BY Sizes
      <4>2. 2^M \in Nat
        BY <4>1, PowerOfTwo
      <4> QED
        BY <4>1, <4>2 DEF N
    <3>2. Conj(y, M) = a_pow(l * (N + 1))
      BY <2>3, <3>1
    <3>3. l * (N + 1) = l + N * l /\ N * l \in Nat
      BY <2>2, <3>1
    <3>4. gf_mul(a_pow(l), a_pow(N * l)) = a_pow(l + N * l)
      BY <2>2, <3>3, PowAdd
    <3>5. gf_mul(a_pow(l), One) = a_pow(l)
      BY <2>2, OneElement, MulZeroOne, MulCommutes
    <3> QED
      BY <2>2, <3>2, <3>3, <3>4, <3>5, PowPeriod
  <2> QED
    BY <2>4, <2>5, <2>6
<1> QED
  BY <1>1, <1>2

\* A sequence that starts with an element and squares from there is that of its
\* conjugates.
LEMMA ConjUnique ==
  ASSUME NEW y \in Elements, NEW c, c[0] = y, \A j \in Nat : c[j + 1] = gf_sqr(c[j])
  PROVE  \A j \in Nat : c[j] = Conj(y, j)
<1> TAKE n \in Nat
<1> DEFINE Good == {k \in 0..n : c[k] = Conj(y, k)}
<1>1. 0 \in Good
  BY ConjSteps
<1>2. \A k \in 0 .. n-1 : k \in Good => k + 1 \in Good
  BY ConjSteps
<1> HIDE DEF Good
<1>3. n \in 0..n /\ n \in Good
  BY <1>1, <1>2, Induction
<1> QED
  BY <1>3 DEF Good

LEMMA ConjPlus ==
  ASSUME NEW x \in Elements, NEW y \in Elements, NEW j \in Nat
  PROVE  Conj(Plus(x, y), j) = Plus(Conj(x, j), Conj(y, j))
<1> DEFINE c == [i \in Nat |-> Plus(Conj(x, i), Conj(y, i))]
<1>1. Plus(x, y) \in Elements /\ c[0] = Plus(x, y)
  BY PlusElement, ConjSteps
<1>2. \A i \in Nat : c[i + 1] = gf_sqr(c[i])
  <2> TAKE i \in Nat
  <2>1. /\ Conj(x, i) \in Elements /\ Conj(x, i + 1) = gf_sqr(Conj(x, i))
        /\ Conj(y, i) \in Elements /\ Conj(y, i + 1) = gf_sqr(Conj(y, i))
    BY ConjSteps
  <2>2. c[i] = Plus(Conj(x, i), Conj(y, i)) /\ c[i + 1] = Plus(Conj(x, i + 1), Conj(y, i + 1))
    OBVIOUS
  <2> QED
    BY <2>1, <2>2, SquarePlus
<1>3. c[j] = Plus(Conj(x, j), Conj(y, j))
  OBVIOUS
<1> HIDE DEF c
<1> QED
  BY <1>1, <1>2, <1>3, ConjUnique

LEMMA ConjMul ==
  ASSUME NEW x \in Elements, NEW y \in Elements, NEW j \in Nat
  PROVE  Conj(gf_mul(x, y), j) = gf_mul(Conj(x, j), Conj(y, j))
<1> DEFINE c == [i \in Nat |-> gf_mul(Conj(x, i), Conj(y, i))]
<1>1. gf_mul(x, y) \in Elements /\ c[0] = gf_mul(x, y)
  BY FieldOps, ConjSteps
<1>2. \A i \in Nat : c[i + 1] = gf_sqr(c[i])
  <2> TAKE i \in Nat
  <2>1. /\ Conj(x, i) \in Elements /\ Conj(x, i + 1) = gf_sqr(Conj(x, i))
        /\ Conj(y, i) \in Elements /\ Conj(y, i + 1) = gf_sqr(Conj(y, i))
    BY ConjSteps
  <2>2. c[i] = gf_mul(Conj(x, i), Conj(y, i)) /\ c[i + 1] = gf_mul(Conj(x, i + 1), Conj(y, i + 1))
    OBVIOUS
  <2> QED
    BY <2>1, <2>2, SquareMul
<1>3. c[j] = gf_mul(Conj(x, j), Conj(y, j))
  OBVIOUS
<1> HIDE DEF c
<1> QED
  BY <1>1, <1>2, <1>3, ConjUnique

LEMMA ConjPow ==
  ASSUME NEW i \in Nat, NEW j \in Nat
  PROVE  Conj(a_pow(i), j) = a_pow(i * 2^j) /\ 2^j \in Nat
<1> DEFINE c == [k \in Nat |-> a_pow(i * 2^k)]
<1>1. a_pow(i) \in Elements /\ c[0] = a_pow(i)
  BY PowUnit, PowerFirst
<1>2. \A k \in Nat : c[k + 1] = gf_sqr(c[k])
  <2> TAKE k \in Nat
  <2> DEFINE e == 2^k
  <2>1. e \in Nat /\ 2^(k + 1) = 2 * e
    BY PowerOfTwo, PowerNext
  <2>2. c[k] = a_pow(i * e) /\ c[k + 1] = a_pow(i * (2 * e))
    BY <2>1
  <2> HIDE DEF e, c
  <2>3. i * e \in Nat /\ i * (2 * e) = 2 * (i * e)
    BY <2>1
  <2> QED
    BY <2>2, <2>3, SquareFacts
<1>3. c[j] = a_pow(i * 2^j)
  OBVIOUS
<1> HIDE DEF c
<1> QED
  BY <1>1, <1>2, <1>3, ConjUnique, PowerOfTwo

LEMMA TrType ==
  ASSUME NEW y \in Elements
  PROVE  /\ Tr(y) \in Elements /\ IsFiniteSet(Span(0, M - 1))
         /\ \A j \in Span(0, M - 1) : /\ j \in Nat /\ Conjs(y)[j] = Conj(y, j)
                                      /\ Conjs(y)[j] \in Below(M)
<1>1. M - 1 \in Int
  BY Sizes
<1>2. IsFiniteSet(Span(0, M - 1)) /\ \A j \in Span(0, M - 1) : j \in Nat
  BY <1>1, SpanFinite
<1>3. \A j \in Span(0, M - 1) : Conjs(y)[j] = Conj(y, j) /\ Conjs(y)[j] \in Below(M)
  BY <1>2, ConjSteps, PrimReducing DEF Conjs
<1>4. Tr(y) \in Below(M)
  BY <1>3, SumBelow DEF Tr
<1> QED
  BY <1>2, <1>3, <1>4, PrimReducing

LEMMA TrPlus ==
  ASSUME NEW x \in Elements, NEW y \in Elements
  PROVE  Tr(Plus(x, y)) = Plus(Tr(x), Tr(y))
<1> DEFINE S == Span(0, M - 1)
           f == Conjs(x)
           g == Conjs(y)
           s == [j \in S |-> Plus(f[j], g[j])]
           h == Conjs(Plus(x, y))
<1>1. Plus(x, y) \in Elements
  BY PlusElement
<1>2. \A j \in S : h[j] = s[j]
  BY <1>1, TrType, ConjPlus
<1>3. IsFiniteSet(S)
  BY TrType
<1>4. Tr(x) = SumOf(S, f) /\ Tr(y) = SumOf(S, g) /\ Tr(Plus(x, y)) = SumOf(S, h)
  BY DEF Tr
<1>5. SumOf(S, [j \in S |-> Plus(f[j], g[j])]) = Plus(SumOf(S, f), SumOf(S, g))
  <2> HIDE DEF S, f, g
  <2> QED
    BY <1>3, SumPlus
<1> HIDE DEF S, h
<1>6. SumOf(S, h) = SumOf(S, s)
  <2> HIDE DEF s
  <2> QED
    BY <1>2, SumSame
<1> QED
  BY <1>4, <1>5, <1>6

LEMMA TrSquared ==
  ASSUME NEW y \in Elements
  PROVE  Tr(gf_sqr(y)) = gf_sqr(Tr(y)) /\ gf_sqr(Tr(y)) = Tr(y)
<1> DEFINE S == Span(0, M - 1)
           f == Conjs(y)
           L == [e \in Elements |-> gf_sqr(e)]
           g == Conjs(gf_sqr(y))
<1>1. gf_sqr(y) \in Elements /\ IsFiniteSet(S) /\ \A j \in S : f[j] \in Below(M)
  BY FieldOps, TrType
<1>2. Linear(L, M)
  <2>1. \A e \in Elements : L[e] = gf_sqr(e)
    OBVIOUS
  <2> HIDE DEF L
  <2>2. \A a \in Elements : \A b \in Elements : L[Plus(a, b)] = Plus(L[a], L[b])
    BY <2>1, PlusElement, SquarePlus
  <2> QED
    BY <2>2, PrimReducing DEF Linear
<1>3. \A j \in S : g[j] = L[f[j]]
  <2> TAKE j \in S
  <2>1. j \in Nat /\ f[j] = Conj(y, j) /\ g[j] = Conj(gf_sqr(y), j) /\ Conj(y, j) \in Elements
    BY <1>1, TrType, ConjSteps
  <2>2. Conj(gf_mul(y, y), j) = gf_mul(Conj(y, j), Conj(y, j))
    BY <2>1, ConjMul
  <2>3. gf_sqr(y) = gf_mul(y, y) /\ gf_sqr(Conj(y, j)) = gf_mul(Conj(y, j), Conj(y, j))
    BY <2>1, SquareIsMul
  <2>4. L[f[j]] = gf_sqr(Conj(y, j))
    BY <2>1
  <2> QED
    BY <2>1, <2>2, <2>3, <2>4
<1>4. Tr(y) = SumOf(S, f) /\ Tr(gf_sqr(y)) = SumOf(S, g)
  BY DEF Tr
<1>5. L[Tr(y)] = gf_sqr(Tr(y))
  BY TrType
<1> HIDE DEF L, S, f, g
<1>6. L[SumOf(S, f)] = SumOf(S, g)
  BY <1>1, <1>2, <1>3, SumLinearTo
<1>7. Tr(gf_sqr(y)) = gf_sqr(Tr(y))
  BY <1>4, <1>5, <1>6
<1>8. \A n \in Nat : LET P == SumOf(Span(0, n - 1), f)
                     IN  P \in Elements /\ Plus(P, gf_sqr(P)) = Plus(y, Conj(y, n))
  <2> TAKE n \in Nat
  <2> DEFINE P(k) == SumOf(Span(0, k - 1), f)
             Good == {k \in 0..n : P(k) \in Elements /\ Plus(P(k), gf_sqr(P(k))) = Plus(y, Conj(y, k))}
  <2>1. 0 \in Good
    <3>1. Span(0, 0 - 1) = {}
      BY DEF Span
    <3>2. P(0) = Zero
      BY <3>1, SumEmpty DEF Zero
    <3>3. Plus(Zero, Zero) = Zero /\ Plus(y, y) = Zero
      BY PlusZero
    <3> QED
      BY <3>2, <3>3, SquareFacts, OneElement, ConjSteps
  <2>2. \A k \in 0 .. n-1 : k \in Good => k + 1 \in Good
    <3> SUFFICES ASSUME NEW k \in 0 .. n-1, k \in Good PROVE k + 1 \in Good
      OBVIOUS
    <3> DEFINE c == Conj(y, k)
               d == Conj(y, k + 1)
               q == P(k)
    <3>1. k \in Nat /\ k + 1 \in 0..n /\ (k + 1) - 1 = k /\ k - 1 \in Int
      OBVIOUS
    <3>2. q \in Elements /\ Plus(q, gf_sqr(q)) = Plus(y, c)
      OBVIOUS
    <3>3. c \in Elements /\ d = gf_sqr(c) /\ f[k] = c
      BY <3>1, ConjSteps DEF f, Conjs
    <3>4. Span(0, (k + 1) - 1) = Span(0, k - 1) \cup {k} /\ k \notin Span(0, k - 1)
      BY <3>1 DEF Span
    <3>5. P(k + 1) = Plus(q, f[k])
      <4>1. IsFiniteSet(Span(0, k - 1))
        BY <3>1, SpanFinite
      <4>2. SumOf(Span(0, k - 1) \cup {k}, f) = Plus(SumOf(Span(0, k - 1), f), f[k])
        BY <3>4, <4>1, SumAdd
      <4> QED
        BY <3>4, <4>2
    <3> HIDE DEF c, d, q
    <3>6. Plus(q, c) \in Elements /\ gf_sqr(Plus(q, c)) = Plus(gf_sqr(q), d)
      BY <3>2, <3>3, PlusElement, SquarePlus
    <3>7. \A s, u, v, w, x : Plus(s, u) = Plus(v, w) => Plus(Plus(s, w), Plus(u, x)) = Plus(v, x)
      <4> SUFFICES ASSUME NEW s, NEW u, NEW v, NEW w, NEW x, Plus(s, u) = Plus(v, w)
                   PROVE  Plus(Plus(s, w), Plus(u, x)) = Plus(v, x)
        OBVIOUS
      <4>1. Plus(Plus(s, w), Plus(u, x)) = Plus(Plus(Plus(s, u), w), x)
        BY Zenon DEF Plus
      <4>2. Plus(Plus(v, w), w) = v
        BY Zenon DEF Plus
      <4> QED
        BY <4>1, <4>2
    <3>8. Plus(Plus(q, c), Plus(gf_sqr(q), d)) = Plus(y, d)
      BY <3>2, <3>7
    <3>9. P(k + 1) = Plus(q, c)
      BY <3>3, <3>5
    <3> HIDE DEF P
    <3> QED
      BY <3>1, <3>6, <3>8, <3>9 DEF d
  <2> HIDE DEF Good
  <2>3. n \in 0..n /\ n \in Good
    BY <2>1, <2>2, Induction
  <2> QED
    BY <2>3 DEF Good
<1>9. Plus(Tr(y), gf_sqr(Tr(y))) = Plus(y, Conj(y, M))
  BY <1>4, <1>8, Sizes DEF S
<1>10. Plus(Tr(y), gf_sqr(Tr(y))) = Zero
  BY <1>9, ConjSteps, PlusZero
<1> QED
  BY <1>7, <1>10, PlusZero

LEMMA TrBinary ==
  ASSUME NEW y \in Elements
  PROVE  Tr(y) \in {Zero, One}
<1> DEFINE t == Tr(y)
<1>1. t \in Elements /\ gf_sqr(t) = t /\ gf_sqr(t) = gf_mul(t, t)
  BY TrType, TrSquared, SquareIsMul
<1> HIDE DEF t
<1>2. Plus(t, One) \in Elements /\ gf_mul(t, One) = t
  BY <1>1, OneElement, PlusElement, MulCommutes, MulZeroOne
<1>3. gf_mul(t, Plus(t, One)) = Plus(gf_mul(t, t), gf_mul(t, One))
  BY <1>1, OneElement, MulDistributes
<1>4. gf_mul(t, Plus(t, One)) = Zero
  <2>1. gf_mul(t, Plus(t, One)) = Plus(t, t)
    BY <1>1, <1>2, <1>3
  <2> QED
    BY <2>1, PlusZero
<1>5. t = Zero \/ Plus(t, One) = Zero
  BY <1>1, <1>2, <1>4, MulNonzero
<1> QED
  BY <1>5, PlusZero DEF t

\* The code's own trace of a power.
LEMMA TraceOfPower ==
  ASSUME NEW i \in Nat
  PROVE  Trace(i) = Tr(a_pow(i))
<1> DEFINE S == Span(0, M - 1)
           f == [j \in Nat |-> a_pow(i * 2^j)]
           g == Conjs(a_pow(i))
<1>1. M - 1 \in Int
  BY Sizes
<1>2. \A j \in S : j \in Nat
  BY <1>1, SpanFinite
<1>3. \A j \in S : f[j] = g[j]
  BY <1>2, ConjPow DEF Conjs
<1>4. SumOf(S, f) = SumOf(S, g)
  <2> HIDE DEF S, f, g
  <2> QED
    BY <1>3, SumSame
<1>5. Trace(i) = Total([j \in S |-> a_pow(i * 2^j)])
  BY DEF Trace, Span
<1>6. [j \in S |-> f[j]] = [j \in S |-> a_pow(i * 2^j)]
  BY <1>2
<1>7. SumOf(S, f) = Total([j \in S |-> f[j]])
  BY DEF SumOf
<1> QED
  BY <1>4, <1>5, <1>6, <1>7 DEF Tr

LEMMA PowersOfTwo ==
  /\ \A j \in Span(0, M - 1) : j \in Nat /\ 2^j \in Logs /\ 2^j \in Nat
  /\ \A j \in Span(0, M - 1) : \A k \in Span(0, M - 1) : 2^j = 2^k => j = k
<1> DEFINE e == [j \in Nat |-> 2^j]
<1>1. /\ \A j \in Nat : e[j] \in Nat /\ e[j] = 2^j
      /\ e[0] = 1 /\ \A j \in Nat : e[j + 1] = 2 * e[j]
  <2>1. \A j \in Nat : e[j] = 2^j /\ 2^j \in Nat
    BY PowerOfTwo
  <2>2. 0 \in Nat /\ \A j \in Nat : j + 1 \in Nat /\ 2^(j + 1) = 2 * 2^j
    BY PowerNext
  <2>3. e[0] = 1
    BY <2>1, <2>2, PowerFirst
  <2>4. \A j \in Nat : e[j + 1] = 2 * e[j]
    <3> TAKE j \in Nat
    <3>1. e[j] = 2^j /\ e[j + 1] = 2^(j + 1)
      BY <2>1, <2>2
    <3> QED
      BY <2>2, <3>1
  <2> QED
    BY <2>1, <2>3, <2>4
<1>2. M \in Nat /\ M >= 5 /\ N \in Nat
  BY Sizes
<1>3. N = e[M] - 1
  BY <1>2 DEF N
<1> HIDE DEF e
<1>4. \A n \in Nat : \A k \in 0..n : e[k] >= 1 /\ (k < n => e[k] < e[n])
  <2> TAKE n \in Nat
  <2> DEFINE Good == {m \in 0..n : \A k \in 0..m : e[k] >= 1 /\ (k < m => e[k] < e[m])}
  <2>1. 0 \in Good
    BY <1>1
  <2>2. \A m \in 0 .. n-1 : m \in Good => m + 1 \in Good
    <3> SUFFICES ASSUME NEW m \in 0 .. n-1, m \in Good, NEW k \in 0 .. m+1
                 PROVE  e[k] >= 1 /\ (k < m + 1 => e[k] < e[m + 1])
      OBVIOUS
    <3>1. m \in Nat /\ e[m] \in Nat /\ e[m] >= 1 /\ e[m + 1] = 2 * e[m] /\ e[m + 1] \in Nat
      BY <1>1
    <3>2. CASE k = m + 1
      BY <3>1, <3>2
    <3>3. CASE k \in 0..m
      <4>1. k \in Nat /\ e[k] \in Nat /\ e[k] >= 1 /\ (k < m => e[k] < e[m])
        BY <1>1, <3>3
      <4> QED
        BY <3>1, <3>3, <4>1
    <3> QED
      BY <3>2, <3>3
  <2> HIDE DEF Good
  <2>3. n \in 0..n /\ n \in Good
    BY <2>1, <2>2, Induction
  <2> QED
    BY <2>3 DEF Good
<1>5. \A j \in Span(0, M - 1) : j \in Nat /\ j < M
  BY <1>2 DEF Span
<1>6. \A j \in Nat : j < M => e[j] \in Logs
  <2> SUFFICES ASSUME NEW j \in Nat, j < M PROVE e[j] \in Logs
    OBVIOUS
  <2>1. j \in 0..M
    BY <1>2
  <2>2. e[j] < e[M] /\ e[j] \in Nat /\ e[M] \in Nat
    BY <1>1, <1>2, <1>4, <2>1
  <2>3. 1 \in 0..M /\ e[1] = 2 /\ e[1] < e[M]
    <3>1. e[0 + 1] = 2 * e[0] /\ 0 + 1 = 1 /\ 1 \in 0..M
      BY <1>1, <1>2
    <3>2. 1 < M => e[1] < e[M]
      BY <1>2, <1>4, <3>1
    <3> QED
      BY <1>1, <1>2, <3>1, <3>2
  <2>4. CASE j = M - 1
    <3>1. e[M] = 2 * e[j]
      BY <1>1, <1>2, <2>4
    <3>2. e[j] >= 2
      BY <2>2, <2>3, <3>1
    <3> QED
      BY <1>3, <2>2, <3>1, <3>2 DEF Logs
  <2>5. CASE j < M - 1
    <3>1. j \in 0 .. M-1 /\ M - 1 \in Nat /\ M - 1 \in 0..M
      BY <1>2, <2>5
    <3>2. e[j] < e[M - 1] /\ e[M - 1] < e[M] /\ e[M - 1] \in Nat
      <4>1. e[j] < e[M - 1]
        BY <1>4, <2>5, <3>1
      <4>2. M - 1 < M => e[M - 1] < e[M]
        BY <1>2, <1>4, <3>1
      <4>3. M - 1 < M /\ e[M - 1] \in Nat
        BY <1>1, <1>2, <3>1
      <4> QED
        BY <4>1, <4>2, <4>3
    <3> QED
      BY <1>3, <2>2, <3>2 DEF Logs
  <2> QED
    BY <1>2, <2>4, <2>5
<1>7. \A j \in Nat : \A k \in Nat : e[j] = e[k] => j = k
  <2> SUFFICES ASSUME NEW j \in Nat, NEW k \in Nat, e[j] = e[k], j # k PROVE FALSE
    OBVIOUS
  <2>1. CASE j < k
    <3>1. j \in 0..k
      BY <2>1
    <3>2. e[j] < e[k]
      BY <1>4, <2>1, <3>1
    <3> QED
      BY <1>1, <3>2
  <2>2. CASE k < j
    <3>1. k \in 0..j
      BY <2>2
    <3>2. e[k] < e[j]
      BY <1>4, <2>2, <3>1
    <3> QED
      BY <1>1, <3>2
  <2> QED
    BY <2>1, <2>2
<1> QED
  BY <1>1, <1>5, <1>6, <1>7

-----------------------------------------------------------------------------
\* x^2 + x = u, as find_poly_deg2_roots solves it

\* No element but zero has the traces of all its multiples a y .. a^M y zero.
LEMMA TracesApart ==
  ASSUME NEW y \in Units, \A k \in 1..M : Tr(gf_mul(a_pow(k), y)) = Zero
  PROVE  FALSE
<1> DEFINE S == Span(0, M - 1)
           e == [j \in S |-> 2^j]
           C == {e[j] : j \in S}
           l == a_log(y)
           w == [i \in C |-> a_pow(l * i)]
<1>1. l \in Nat /\ a_pow(l) = y /\ y \in Elements
  BY UnitLog
<1>2. M - 1 \in Int /\ M \in Nat /\ M >= 5
  BY Sizes
<1>3. IsFiniteSet(S) /\ \A j : j \in S <=> j \in Nat /\ j <= M - 1
  BY <1>2, SpanFinite
<1>4. \A j \in S : j \in Nat /\ e[j] = 2^j /\ e[j] \in Nat /\ e[j] \in Logs
  BY PowersOfTwo
<1>5. \A j \in S : \A k \in S : e[j] = e[k] => j = k
  BY PowersOfTwo
<1> HIDE DEF S, e, l
<1>6. C \in SUBSET Logs /\ (\A i \in C : i \in Nat)
  BY <1>4
<1>7. \A i \in C : w[i] = a_pow(l * i) /\ l * i \in Nat
  BY <1>1, <1>6
<1>8. w \in [C -> Elements]
  BY <1>7, PowUnit
<1>9. Cardinality(C) = M
  <2>1. Cardinality(C) = Cardinality(S)
    <3> DEFINE h == [i \in C |-> i]
               g == [j \in S |-> h[e[j]]]
    <3>1. \A j \in S : g[j] = h[e[j]]
      OBVIOUS
    <3> HIDE DEF g, h
    <3> QED
      BY <1>3, <1>5, <3>1, SumMapped
  <2>2. S = 0 .. M-1
    BY DEF S, Span
  <2>3. Cardinality(S) = M
    BY <1>2, <2>2, FS_Interval
  <2> QED
    BY <2>1, <2>3
<1>10. \A m \in 1..M : SumOf(C, [i \in C |-> gf_mul(a_pow(m * i), w[i])]) = Zero
  <2> TAKE m \in 1..M
  <2> DEFINE h == [i \in C |-> gf_mul(a_pow(m * i), w[i])]
             z == gf_mul(a_pow(m), y)
             g == Conjs(z)
  <2>1. m \in Nat /\ a_pow(m) \in Elements
    BY PowUnit
  <2>2. \A j \in S : g[j] = h[e[j]]
    <3> TAKE j \in S
    <3>1. j \in Nat /\ e[j] = 2^j /\ e[j] \in C
      BY <1>4
    <3>2. g[j] = Conj(z, j)
      BY <3>1 DEF Conjs
    <3>3. Conj(z, j) = gf_mul(Conj(a_pow(m), j), Conj(y, j))
      BY <1>1, <2>1, <3>1, ConjMul
    <3>4. Conj(a_pow(m), j) = a_pow(m * e[j])
      BY <2>1, <3>1, ConjPow
    <3>5. Conj(y, j) = a_pow(l * e[j])
      BY <1>1, <3>1, ConjPow
    <3>6. h[e[j]] = gf_mul(a_pow(m * e[j]), w[e[j]]) /\ w[e[j]] = a_pow(l * e[j])
      BY <1>7, <3>1
    <3> QED
      BY <3>2, <3>3, <3>4, <3>5, <3>6
  <2> HIDE DEF h, g, w
  <2>3. SumOf(C, h) = SumOf(S, g)
    BY <1>3, <1>5, <2>2, SumMapped
  <2>4. SumOf(S, g) = Tr(z)
    BY DEF Tr, S, g
  <2>5. Tr(z) = Zero
    OBVIOUS
  <2> QED
    BY <2>3, <2>4, <2>5 DEF h
<1>11. \A i \in C : w[i] = Zero
  <2> HIDE DEF C, w
  <2> QED
    BY <1>2, <1>6, <1>8, <1>9, <1>10, WeightsVanish
<1>12. 0 \in S
  BY <1>2, <1>3
<1>13. e[0] \in C
  BY <1>12
<1>14. w[e[0]] # Zero
  BY <1>7, <1>13, PowUnit
<1> QED
  BY <1>11, <1>13, <1>14

LEMMA PowAround ==
  ASSUME NEW i \in Nat
  PROVE  a_pow(i + N) = a_pow(i)
<1>1. N \in Nat /\ N * 1 = N
  BY Sizes
<1>2. a_pow(N) = One
  BY <1>1, PowPeriod
<1>3. gf_mul(a_pow(i), One) = a_pow(i)
  BY PowUnit, OneElement, MulCommutes, MulZeroOne
<1> QED
  BY <1>1, <1>2, <1>3, PowAdd

\* There is an element of trace 1 to be found.
LEMMA TraceOne == a_k \in Elements /\ Tr(a_k) = One
<1> DEFINE S == {i \in 0 .. M-1 : Trace(i) # Zero}
<1>1. M - 1 \in Nat /\ M < N /\ N \in Nat /\ M \in Nat
  BY Sizes
<1>2. S # {}
  <2> SUFFICES ASSUME S = {} PROVE FALSE
    OBVIOUS
  <2> DEFINE y == a_pow(N - 1)
  <2>1. N - 1 \in Nat
    BY <1>1
  <2>2. y \in Units
    BY <2>1, PowUnit DEF Units
  <2>3. \A k \in 1..M : Tr(gf_mul(a_pow(k), y)) = Zero
    <3> TAKE k \in 1..M
    <3>1. k \in Nat /\ k - 1 \in Nat /\ k + (N - 1) = (k - 1) + N /\ k - 1 \in 0 .. M-1
      BY <1>1
    <3>2. gf_mul(a_pow(k), y) = a_pow((k - 1) + N)
      BY <2>1, <3>1, PowAdd
    <3>3. a_pow((k - 1) + N) = a_pow(k - 1)
      BY <3>1, PowAround
    <3>4. Trace(k - 1) = Zero
      BY <3>1
    <3> QED
      BY <3>1, <3>2, <3>3, <3>4, TraceOfPower
  <2> HIDE DEF y
  <2> QED
    BY <2>2, <2>3, TracesApart
<1>3. S \in SUBSET (0 .. M-1)
  OBVIOUS
<1> DEFINE m == Min(S)
<1>4. m \in S
  <2> HIDE DEF S
  <2> QED
    BY <1>1, <1>2, <1>3, MinType
<1>5. m \in 0 .. M-1 /\ Trace(m) # Zero
  BY <1>4
<1>6. a_k = a_pow_tab[m]
  BY DEF a_k
<1> HIDE DEF m, S
<1>7. m \in Nat /\ m \in Logs
  BY <1>1, <1>5 DEF Logs
<1>8. a_pow(m) = a_pow_tab[m]
  BY <1>7, PowOfLog
<1>9. a_k = a_pow(m) /\ a_k \in Elements
  BY <1>6, <1>7, <1>8, PowUnit
<1>10. Tr(a_k) # Zero
  BY <1>5, <1>7, <1>9, TraceOfPower
<1> QED
  BY <1>9, <1>10, TrBinary

\* x^2 + x, which is linear and has trace zero.
Quad(x) == Plus(gf_sqr(x), x)

LEMMA QuadFacts ==
  /\ \A x \in Elements : Quad(x) \in Elements /\ Tr(Quad(x)) = Zero
  /\ \A x \in Elements : \A y \in Elements : Quad(Plus(x, y)) = Plus(Quad(x), Quad(y))
  /\ \A x \in Elements : \A y \in Elements : Quad(x) = Quad(y) => y \in {x, Plus(x, One)}
<1>1. \A x \in Elements : Quad(x) \in Elements /\ Tr(Quad(x)) = Zero
  <2> TAKE x \in Elements
  <2>1. gf_sqr(x) \in Elements
    BY FieldOps
  <2>2. Plus(gf_sqr(x), x) \in Elements /\ Tr(Plus(gf_sqr(x), x)) = Plus(Tr(gf_sqr(x)), Tr(x))
    BY <2>1, PlusElement, TrPlus
  <2>3. Tr(gf_sqr(x)) = Tr(x)
    BY TrSquared
  <2> QED
    BY <2>2, <2>3, PlusZero DEF Quad
<1>2. \A x \in Elements : \A y \in Elements : Quad(Plus(x, y)) = Plus(Quad(x), Quad(y))
  <2> TAKE x \in Elements
  <2> TAKE y \in Elements
  <2>1. gf_sqr(Plus(x, y)) = Plus(gf_sqr(x), gf_sqr(y))
    BY SquarePlus
  <2>2. \A s, t : Plus(Plus(s, t), Plus(x, y)) = Plus(Plus(s, x), Plus(t, y))
    BY Zenon DEF Plus
  <2> QED
    BY <2>1, <2>2 DEF Quad
<1>3. \A x \in Elements : \A y \in Elements : Quad(x) = Quad(y) => y \in {x, Plus(x, One)}
  <2> SUFFICES ASSUME NEW x \in Elements, NEW y \in Elements, Quad(x) = Quad(y)
               PROVE  y \in {x, Plus(x, One)}
    OBVIOUS
  <2> DEFINE t == Plus(x, y)
  <2>1. t \in Elements /\ Quad(t) = Zero
    BY <1>2, PlusElement, PlusZero
  <2>2. y = Plus(x, t)
    BY Zenon DEF Plus
  <2> HIDE DEF t
  <2>3. gf_sqr(t) = t /\ gf_sqr(t) = gf_mul(t, t)
    BY <2>1, PlusZero, SquareIsMul DEF Quad
  <2>4. Plus(t, One) \in Elements /\ gf_mul(t, One) = t
    BY <2>1, OneElement, PlusElement, MulCommutes, MulZeroOne
  <2>5. gf_mul(t, Plus(t, One)) = Plus(gf_mul(t, t), gf_mul(t, One))
    BY <2>1, OneElement, MulDistributes
  <2>6. gf_mul(t, Plus(t, One)) = Plus(t, t)
    BY <2>3, <2>4, <2>5
  <2>7. gf_mul(t, Plus(t, One)) = Zero
    BY <2>6, PlusZero
  <2>8. t = Zero \/ Plus(t, One) = Zero
    BY <2>1, <2>4, <2>7, MulNonzero
  <2> QED
    BY <2>2, <2>8, PlusZero
<1> QED
  BY <1>1, <1>2, <1>3

\* The first M powers are the bits.
LEMMA PowerBits == \A i \in 0 .. M-1 : a_pow_tab[i] = {i} /\ i \in Logs
<1>1. M - 1 \in Nat /\ M < N /\ N \in Nat /\ M \in Nat /\ M >= 5
  BY Sizes
<1> DEFINE Good == {i \in 0 .. M-1 : a_pow_tab[i] = {i}}
<1>2. 0 \in Good
  BY <1>1, PowerStep DEF One
<1>3. \A k \in 0 .. (M-1) - 1 : k \in Good => k + 1 \in Good
  <2> SUFFICES ASSUME NEW k \in 0 .. (M-1) - 1, a_pow_tab[k] = {k} PROVE k + 1 \in Good
    OBVIOUS
  <2>1. k + 1 \in 1 .. N-1 /\ (k + 1) - 1 = k /\ k + 1 \in 0 .. M-1 /\ k + 1 # M
    BY <1>1
  <2>2. a_pow_tab[k + 1] = X(a_pow_tab[(k + 1) - 1])
    BY <2>1, PowerStep
  <2>3. X({k}) = TimesX({k}, PrimPoly, M)
    BY DEF X
  <2>4. {j + 1 : j \in {k}} = {k + 1}
    OBVIOUS
  <2>5. TimesX({k}, PrimPoly, M) = {k + 1}
    BY <2>1, <2>4 DEF TimesX
  <2> QED
    BY <2>1, <2>2, <2>3, <2>5
<1> HIDE DEF Good
<1>4. 0 .. M-1 \subseteq Good
  BY <1>1, <1>2, <1>3, Induction
<1> QED
  BY <1>1, <1>4 DEF Good, Logs

\* What deg2_base gives for each bit.
LEMMA XiType ==
  \A i \in 0 .. M-1 : /\ xi_tab[i] \in Elements
                      /\ Quad(xi_tab[i]) \in {{i}, Plus({i}, a_k)}
<1> TAKE i \in 0 .. M-1
<1>1. xi_tab[i] \in Base(i)
  BY BaseAssumption DEF xi_tab
<1>2. a_pow_tab[i] = {i}
  BY PowerBits
<1>3. /\ xi_tab[i] \in Elements
      /\ Plus(gf_sqr(xi_tab[i]), xi_tab[i]) \in {a_pow_tab[i], Plus(a_pow_tab[i], a_k)}
  BY <1>1 DEF Base
<1> QED
  BY <1>2, <1>3 DEF Quad

\* x^2 + x = u has the solution that they add up to, when it has one at all.
LEMMA QuadSolved ==
  ASSUME NEW u \in Elements, Tr(u) = Zero
  PROVE  LET r == Total([i \in u |-> xi_tab[i]]) IN r \in Elements /\ Quad(r) = u
<1> DEFINE L == [e \in Elements |-> Quad(e)]
           h == xi_tab
           r == SumOf(u, h)
           b == [i \in u |-> {i}]
           q == [i \in u |-> L[h[i]]]
           d == [i \in u |-> Plus(q[i], b[i])]
<1>1. IsFiniteSet(u) /\ \A i \in u : i \in 0 .. M-1
  BY PrimReducing, BelowFinite, Sizes DEF Binary, Elements
<1>2. \A i \in u : h[i] \in Elements /\ q[i] \in {{i}, Plus({i}, a_k)} /\ b[i] = {i}
  BY <1>1, XiType
<1>3. \A i \in u : d[i] \in {Zero, a_k} /\ q[i] = Plus(b[i], d[i])
  <2> TAKE i \in u
  <2>1. d[i] = Plus(q[i], {i}) /\ b[i] = {i}
    OBVIOUS
  <2>2. q[i] = Plus({i}, Plus(q[i], {i}))
    BY Zenon DEF Plus
  <2>3. Plus({i}, {i}) = Zero
    BY PlusZero
  <2>4. Plus(Plus({i}, a_k), {i}) = a_k
    BY Zenon DEF Plus
  <2> QED
    BY <1>2, <2>1, <2>2, <2>3, <2>4
<1>4. Linear(L, M)
  <2>1. \A e \in Elements : L[e] = Quad(e)
    OBVIOUS
  <2> HIDE DEF L
  <2>2. \A x \in Elements : \A y \in Elements : L[Plus(x, y)] = Plus(L[x], L[y])
    <3> TAKE x \in Elements
    <3> TAKE y \in Elements
    <3>1. Plus(x, y) \in Elements
      BY PlusElement
    <3>2. Quad(Plus(x, y)) = Plus(Quad(x), Quad(y))
      BY QuadFacts
    <3>3. L[Plus(x, y)] = Quad(Plus(x, y)) /\ L[x] = Quad(x) /\ L[y] = Quad(y)
      BY <2>1, <3>1
    <3> QED
      BY <3>2, <3>3
  <2> QED
    BY <2>2, PrimReducing DEF Linear
<1>5. \A i \in u : q[i] = L[h[i]]
  OBVIOUS
<1>6. r \in Elements
  BY <1>2, PrimReducing, SumBelow
<1>7. L[r] = Quad(r)
  BY <1>6
<1> HIDE DEF L, q, d, b, h
<1>8. L[r] = SumOf(u, q)
  <2>1. \A i \in u : h[i] \in Below(M)
    BY <1>2, PrimReducing
  <2> QED
    BY <1>1, <1>4, <1>5, <2>1, SumLinearTo DEF r
<1>9. SumOf(u, q) = Plus(SumOf(u, b), SumOf(u, d))
  <2> DEFINE s == [i \in u |-> Plus(b[i], d[i])]
  <2>1. SumOf(u, s) = Plus(SumOf(u, b), SumOf(u, d))
    BY <1>1, SumPlus
  <2>2. \A i \in u : q[i] = s[i]
    BY <1>3
  <2> HIDE DEF s
  <2>3. SumOf(u, q) = SumOf(u, s)
    BY <2>2, SumSame
  <2> QED
    BY <2>1, <2>3
<1>10. SumOf(u, b) = u
  <2> SUFFICES ASSUME NEW x PROVE x \in SumOf(u, b) <=> x \in u
    OBVIOUS
  <2>1. x \in SumOf(u, b) <=> OddSized({i \in u : x \in b[i]})
    BY <1>1, SumBits
  <2>2. CASE x \in u
    <3>1. \A i \in u : x \in b[i] <=> i = x
      BY <1>2
    <3> DEFINE E == {i \in u : x \in b[i]}
    <3>2. \A i : i \in E <=> i = x
      BY <2>2, <3>1
    <3> HIDE DEF E
    <3>3. E = {x}
      BY <3>2
    <3>4. Cardinality({x}) = 1
      BY FS_Singleton
    <3> QED
      BY <2>1, <2>2, <3>3, <3>4 DEF OddSized, E
  <2>3. CASE x \notin u
    <3>1. {i \in u : x \in b[i]} = {}
      BY <1>2, <2>3
    <3>2. Cardinality({}) = 0
      BY FS_EmptySet
    <3> QED
      BY <2>1, <2>3, <3>1, <3>2 DEF OddSized
  <2> QED
    BY <2>2, <2>3
<1>11. SumOf(u, d) \in {Zero, a_k}
  <2> DEFINE D == {i \in u : d[i] = a_k /\ a_k # Zero}
  <2>1. \A x : x \in SumOf(u, d) <=> OddSized({i \in u : x \in d[i]})
    BY <1>1, SumBits
  <2>2. \A x \in a_k : {i \in u : x \in d[i]} = D
    BY <1>3 DEF Zero
  <2>3. \A x : x \notin a_k => {i \in u : x \in d[i]} = {}
    BY <1>3 DEF Zero
  <2>4. ~ OddSized({})
    BY FS_EmptySet DEF OddSized
  <2> HIDE DEF D
  <2>5. \A x : x \in SumOf(u, d) <=> x \in a_k /\ OddSized(D)
    BY <2>1, <2>2, <2>3, <2>4
  <2>6. CASE OddSized(D)
    BY <2>5, <2>6
  <2>7. CASE ~ OddSized(D)
    BY <2>5, <2>7 DEF Zero
  <2> QED
    BY <2>6, <2>7
<1>12. Quad(r) = Plus(u, SumOf(u, d))
  BY <1>7, <1>8, <1>9, <1>10
<1>13. SumOf(u, d) = Zero
  <2> SUFFICES ASSUME SumOf(u, d) = a_k PROVE FALSE
    BY <1>11, TraceOne, SquareFacts
  <2>1. Tr(Quad(r)) = Plus(Tr(u), Tr(a_k))
    BY <1>12, TraceOne, TrPlus
  <2>2. Tr(Quad(r)) = Zero
    BY <1>6, QuadFacts
  <2> QED
    BY <2>1, <2>2, TraceOne, OneElement, PlusZero
<1>14. Quad(r) = u
  BY <1>12, <1>13, PlusZero
<1>15. r = Total([i \in u |-> xi_tab[i]])
  BY DEF SumOf, h
<1> QED
  BY <1>6, <1>14, <1>15

-----------------------------------------------------------------------------
\* The roots of polynomials of degree 1 and 2, listed

LEMMA UnitMul ==
  ASSUME NEW x \in Units, NEW y \in Units
  PROVE  gf_mul(x, y) \in Units /\ gf_mul(x, y) \in Elements /\ gf_sqr(x) \in Units
BY MulNonzero, SquareFacts DEF Units

LEMMA MulCancel ==
  ASSUME NEW c \in Units, NEW y \in Elements, NEW z \in Elements, gf_mul(c, y) = gf_mul(c, z)
  PROVE  y = z
<1>1. c \in Elements /\ c # Zero /\ Plus(y, z) \in Elements
  BY PlusElement DEF Units
<1>2. gf_mul(c, Plus(y, z)) = Plus(gf_mul(c, y), gf_mul(c, z))
  BY <1>1, MulDistributes
<1>3. gf_mul(c, Plus(y, z)) = Zero
  BY <1>2, PlusZero
<1>4. Plus(y, z) = Zero
  BY <1>1, <1>3, MulNonzero
<1> QED
  BY <1>4, PlusZero

\* Quotients: gf_div(a, b) is the one element that times b is a.
LEMMA DivFacts ==
  ASSUME NEW a \in Elements, NEW b \in Units
  PROVE  /\ gf_div(a, b) \in Elements /\ gf_mul(b, gf_div(a, b)) = a
         /\ \A z \in Elements : gf_mul(b, z) = a => z = gf_div(a, b)
         /\ a # Zero => gf_div(a, b) \in Units
<1>1. b \in Elements /\ b # Zero
  BY DEF Units
<1>2. gf_div(a, b) \in Elements /\ gf_mul(b, gf_div(a, b)) = a
  BY <1>1, FieldOps, DivUndoesMul
<1>3. \A z \in Elements : gf_mul(b, z) = a => z = gf_div(a, b)
  BY <1>2, MulCancel
<1>4. a # Zero => gf_div(a, b) # Zero
  BY <1>1, <1>2, MulZeroOne
<1> QED
  BY <1>2, <1>3, <1>4 DEF Units

\* The place that a root stands for: the log of its inverse.
LEMMA InverseLog ==
  ASSUME NEW x \in Units, NEW v \in Logs, gf_mul(a_pow(v), x) = One
  PROVE  v = a_ilog(x)
<1> DEFINE l == a_log(x)
<1>1. l \in Logs /\ l \in Nat /\ a_pow(l) = x
  BY UnitLog
<1>2. N \in Nat /\ N > 5 /\ v \in Nat /\ v < N /\ l < N
  BY <1>1, Sizes DEF Logs
<1>3. a_ilog(x) = mod_s(N - l)
  BY DEF a_ilog
<1> HIDE DEF l
<1>4. a_pow(v + l) = One
  BY <1>1, <1>2, PowAdd
<1>5. CASE v + l < N
  <2>1. v + l \in Logs /\ 0 \in Logs
    BY <1>1, <1>2, <1>5 DEF Logs
  <2>2. a_pow_tab[v + l] = One /\ a_pow_tab[0] = One
    BY <1>4, <2>1, PowOfLog, PowerStep
  <2>3. v + l = 0
    BY <2>1, <2>2, LogPower
  <2>4. N - l = N /\ v = 0
    BY <1>1, <1>2, <2>3
  <2> QED
    BY <1>2, <1>3, <2>4 DEF mod_s
<1>6. CASE v + l >= N
  <2>1. v + l - N \in Logs /\ v + l - N \in Nat /\ (v + l - N) + N = v + l /\ 0 \in Logs
    BY <1>1, <1>2, <1>6 DEF Logs
  <2>2. a_pow(v + l - N) = One
    BY <1>4, <2>1, PowAround
  <2>3. a_pow_tab[v + l - N] = One /\ a_pow_tab[0] = One
    BY <2>1, <2>2, PowOfLog, PowerStep
  <2>4. v + l - N = 0
    BY <2>1, <2>3, LogPower
  <2>5. N - l < N /\ v = N - l
    BY <1>1, <1>2, <2>4
  <2> QED
    BY <1>3, <2>5 DEF mod_s
<1> QED
  BY <1>1, <1>2, <1>5, <1>6

\* s holds the places of the roots in C and nothing else.
Lists(s, C) ==
  s \in Seq(Logs) /\ Len(s) = Cardinality(C) /\ \A x \in C : \E j \in 1 .. Len(s) : s[j] = a_ilog(x)

LEMMA PowMod ==
  ASSUME NEW i \in Nat
  PROVE  i % N \in Logs /\ a_pow(i % N) = a_pow(i)
<1>1. N \in Nat /\ N > 5
  BY Sizes
<1>2. i % N \in Logs /\ i \in Int
  BY PowElement
<1> QED
  BY <1>2, PowOfLog DEF a_pow

LEMMA Deg1Lists ==
  ASSUME NEW p, Splits(p), Deg(p) = 1
  PROVE  Lists(find_poly_deg1_roots(p), RootsIn(p))
<1> DEFINE b == Coef(p, 1)
           c == Coef(p, 0)
           lb == a_log(b)
           lc == a_log(c)
           v == mod_s(N - lc + lb)
<1>1. p \in Polynomials /\ b \in Elements /\ c \in Elements
  BY SplitEnds, CoefElement
<1>2. b \in Units /\ c \in Units
  BY <1>1, SplitEnds DEF Units
<1>3. find_poly_deg1_roots(p) = <<v>>
  BY SplitEnds DEF find_poly_deg1_roots
<1>4. /\ lb \in Logs /\ lb \in Nat /\ a_pow(lb) = b
      /\ lc \in Logs /\ lc \in Nat /\ a_pow(lc) = c
  BY <1>2, UnitLog
<1>5. Cardinality(RootsIn(p)) = 1
  BY DEF Splits
<1>6. \A x \in RootsIn(p) : x \in Units /\ gf_mul(b, x) = c
  <2> TAKE x \in RootsIn(p)
  <2>1. x \in Units /\ At(p, x) = Zero
    BY DEF RootsIn
  <2>2. At(p, x) = Plus(gf_mul(b, x), c)
    BY <1>1, <2>1, HornerAt
  <2> QED
    BY <2>1, <2>2, PlusZero
<1> HIDE DEF lb, lc
<1>7. N \in Nat /\ N > 5
  BY Sizes
<1>8. N - lc + lb \in 0 .. 2*N - 1
  BY <1>4, <1>7 DEF Logs
<1>9. v \in Logs /\ v \in Nat
  BY <1>8, ModS, PowOfLog
<1>10. gf_mul(c, a_pow(v)) = b
  <2>1. gf_mul(a_pow(lc), a_pow(v)) = a_pow(lc + v)
    BY <1>4, <1>9, PowAdd
  <2>2. CASE N - lc + lb < N
    <3>1. v = N - lc + lb
      BY <2>2 DEF mod_s
    <3>2. lc + v = lb + N
      BY <1>4, <1>7, <3>1
    <3> QED
      BY <1>4, <2>1, <3>2, PowAround
  <2>3. CASE ~ (N - lc + lb < N)
    <3>1. v = (N - lc + lb) - N
      BY <2>3 DEF mod_s
    <3>2. lc + v = lb
      BY <1>4, <1>7, <3>1
    <3> QED
      BY <1>4, <2>1, <3>2
  <2> QED
    BY <2>2, <2>3
<1> HIDE DEF v, b, c
<1>11. \A x \in RootsIn(p) : v = a_ilog(x)
  <2> TAKE x \in RootsIn(p)
  <2> DEFINE w == a_pow(v)
  <2>1. x \in Units /\ x \in Elements /\ w \in Elements /\ gf_mul(b, x) = c
    BY <1>6, <1>9, UnitLog, PowUnit
  <2>2. gf_mul(c, w) = b
    BY <1>10
  <2> HIDE DEF w
  <2>3. gf_mul(c, gf_mul(w, x)) = gf_mul(gf_mul(c, w), x)
    BY <1>1, <2>1, MulAssociates DEF c
  <2>4. gf_mul(c, gf_mul(w, x)) = c
    BY <2>1, <2>2, <2>3
  <2>5. gf_mul(c, One) = c /\ gf_mul(w, x) \in Elements /\ One \in Elements
    BY <1>1, <2>1, FieldOps, OneElement, MulZeroOne, MulCommutes DEF c
  <2>6. gf_mul(w, x) = One
    BY <1>2, <2>4, <2>5, MulCancel
  <2> QED
    BY <1>9, <2>1, <2>6, InverseLog DEF w
<1>12. <<v>> \in Seq(Logs) /\ Len(<<v>>) = 1 /\ <<v>>[1] = v
  BY <1>9
<1>13. 1 \in 1..1
  OBVIOUS
<1> QED
  BY <1>3, <1>5, <1>11, <1>12, <1>13 DEF Lists

LEMMA TwoApart ==
  ASSUME NEW S, IsFiniteSet(S), Cardinality(S) >= 2
  PROVE  \E x \in S : \E y \in S : x # y
<1> SUFFICES ASSUME \A x \in S : \A y \in S : x = y PROVE FALSE
  OBVIOUS
<1>1. S # {}
  BY FS_EmptySet
<1>2. PICK x : x \in S
  BY <1>1
<1>3. S = {x}
  BY <1>2
<1> QED
  BY <1>3, FS_Singleton

LEMMA Deg2Lists ==
  ASSUME NEW p, Splits(p), Deg(p) = 2
  PROVE  Lists(find_poly_deg2_roots(p), RootsIn(p))
<1> DEFINE a == Coef(p, 2)
           b == Coef(p, 1)
           c == Coef(p, 0)
           la == a_log(a)
           lb == a_log(b)
           lc == a_log(c)
           u == a_pow(lc + la + 2 * (N - lb))
           r == Total([i \in u |-> xi_tab[i]])
           Loc(z) == (2 * N - lb - a_log(z) + la) % N
<1>1. p \in Polynomials /\ a \in Elements /\ b \in Elements /\ c \in Elements
  BY SplitEnds, CoefElement
<1>2. a \in Units /\ c \in Units
  BY <1>1, SplitEnds DEF Units
<1>3. Cardinality(RootsIn(p)) = 2 /\ IsFiniteSet(RootsIn(p))
  BY RootsFinite DEF Splits
<1>4. \A x \in RootsIn(p) : /\ x \in Units /\ x \in Elements
                            /\ Plus(gf_mul(a, gf_sqr(x)), gf_mul(b, x)) = c
  <2> TAKE x \in RootsIn(p)
  <2>1. x \in Units /\ At(p, x) = Zero
    BY DEF RootsIn
  <2>2. x \in Elements /\ gf_mul(a, x) \in Elements
    BY <1>1, <2>1, UnitLog, FieldOps
  <2>3. At(p, x) = Plus(gf_mul(Plus(gf_mul(a, x), b), x), c)
    BY <1>1, <2>1, HornerAt
  <2>4. gf_mul(Plus(gf_mul(a, x), b), x) = Plus(gf_mul(gf_mul(a, x), x), gf_mul(b, x))
    BY <1>1, <2>2, MulSum
  <2>5. gf_mul(gf_mul(a, x), x) = gf_mul(a, gf_sqr(x))
    <3>1. gf_sqr(x) = gf_mul(x, x)
      BY <2>2, SquareIsMul
    <3> QED
      BY <1>1, <2>2, <3>1, MulAssociates
  <2> QED
    BY <2>1, <2>2, <2>3, <2>4, <2>5, PlusZero
<1>5. PICK x1 \in RootsIn(p), x2 \in RootsIn(p) : x1 # x2
  BY <1>3, TwoApart
<1>6. b # Zero
  <2> SUFFICES ASSUME b = Zero PROVE FALSE
    OBVIOUS
  <2>1. \A x \in RootsIn(p) : gf_mul(a, gf_sqr(x)) = c /\ x \in Elements /\ gf_sqr(x) \in Elements
    BY <1>4, MulZeroOne, PlusZero, FieldOps
  <2>2. gf_sqr(x1) = gf_sqr(x2)
    BY <1>2, <2>1, MulCancel
  <2> QED
    BY <1>5, <2>1, <2>2, SquareInjective
<1>7. b \in Units
  BY <1>1, <1>6 DEF Units
<1>8. /\ la \in Logs /\ la \in Nat /\ a_pow(la) = a
      /\ lb \in Logs /\ lb \in Nat /\ a_pow(lb) = b
      /\ lc \in Logs /\ lc \in Nat /\ a_pow(lc) = c
  BY <1>2, <1>7, UnitLog
<1> HIDE DEF la, lb, lc
<1>9. N \in Nat /\ N > 5 /\ lb < N /\ N - lb \in Nat
  BY <1>8, Sizes DEF Logs
<1>10. u \in Units /\ u \in Elements /\ gf_mul(gf_sqr(b), u) = gf_mul(a, c)
  <2> DEFINE k == lc + la + 2 * (N - lb)
  <2>1. k \in Nat /\ 2 * lb \in Nat /\ 2 * lb + k = ((la + lc) + N) + N /\ la + lc \in Nat
    BY <1>8, <1>9
  <2> HIDE DEF k
  <2>2. gf_sqr(b) = a_pow(2 * lb)
    BY <1>8, SquareFacts
  <2>3. gf_mul(a_pow(2 * lb), a_pow(k)) = a_pow(((la + lc) + N) + N)
    BY <2>1, PowAdd
  <2>4. (la + lc) + N \in Nat
    BY <1>9, <2>1
  <2>5. a_pow(((la + lc) + N) + N) = a_pow((la + lc) + N)
    BY <2>4, PowAround
  <2>6. a_pow((la + lc) + N) = a_pow(la + lc)
    BY <2>1, PowAround
  <2>7. gf_mul(a, c) = a_pow(la + lc)
    BY <1>8, PowAdd
  <2>8. a_pow(k) \in Units /\ a_pow(k) \in Elements
    BY <2>1, PowUnit DEF Units
  <2> QED
    BY <2>2, <2>3, <2>5, <2>6, <2>7, <2>8 DEF k
<1> HIDE DEF u
<1> DEFINE z(x) == gf_div(gf_mul(a, x), b)
<1>11. \A x \in RootsIn(p) : /\ z(x) \in Units /\ z(x) \in Elements /\ gf_mul(b, z(x)) = gf_mul(a, x)
                             /\ Quad(z(x)) = u
  <2> TAKE x \in RootsIn(p)
  <2> DEFINE y == gf_mul(a, x)
             t == z(x)
  <2>1. x \in Units /\ x \in Elements /\ Plus(gf_mul(a, gf_sqr(x)), gf_mul(b, x)) = c
    BY <1>4
  <2>2. y \in Units /\ y \in Elements /\ y # Zero
    BY <1>2, <2>1, UnitMul DEF Units
  <2>3. t \in Units /\ t \in Elements /\ gf_mul(b, t) = y
    BY <1>7, <2>2, DivFacts
  <2>4. y = gf_mul(a, x)
    OBVIOUS
  <2> HIDE DEF y, t, z
  <2>5. gf_sqr(t) \in Elements /\ gf_sqr(b) \in Units /\ gf_sqr(b) \in Elements
        /\ gf_sqr(x) \in Elements /\ Quad(t) \in Elements /\ gf_mul(b, x) \in Elements
        /\ gf_mul(a, gf_sqr(x)) \in Elements
    BY <1>1, <1>7, <2>1, <2>3, FieldOps, UnitMul, QuadFacts
  <2>6. gf_mul(gf_sqr(b), Quad(t)) = Plus(gf_mul(gf_sqr(b), gf_sqr(t)), gf_mul(gf_sqr(b), t))
    BY <2>3, <2>5, MulDistributes DEF Quad
  <2>7. gf_mul(gf_sqr(b), gf_sqr(t)) = gf_mul(a, gf_mul(a, gf_sqr(x)))
    <3>1. gf_sqr(y) = gf_mul(gf_sqr(b), gf_sqr(t))
      BY <1>1, <2>3, SquareMul
    <3>2. gf_sqr(y) = gf_mul(gf_sqr(a), gf_sqr(x)) /\ gf_sqr(a) = gf_mul(a, a)
      BY <1>1, <2>1, <2>4, SquareMul, SquareIsMul
    <3> QED
      BY <1>1, <2>5, <3>1, <3>2, MulAssociates
  <2>8. gf_mul(gf_sqr(b), t) = gf_mul(a, gf_mul(b, x))
    <3>1. gf_sqr(b) = gf_mul(b, b)
      BY <1>1, SquareIsMul
    <3>2. gf_mul(gf_mul(b, b), t) = gf_mul(b, gf_mul(b, t))
      BY <1>1, <2>3, MulAssociates
    <3>3. gf_mul(b, gf_mul(a, x)) = gf_mul(gf_mul(b, a), x)
      BY <1>1, <2>1, MulAssociates
    <3>4. gf_mul(a, gf_mul(b, x)) = gf_mul(gf_mul(a, b), x)
      BY <1>1, <2>1, MulAssociates
    <3>5. gf_mul(a, b) = gf_mul(b, a)
      BY <1>1, MulCommutes
    <3> QED
      BY <2>3, <2>4, <3>1, <3>2, <3>3, <3>4, <3>5
  <2>9. Plus(gf_mul(a, gf_mul(a, gf_sqr(x))), gf_mul(a, gf_mul(b, x))) = gf_mul(a, c)
    BY <1>1, <2>1, <2>5, MulDistributes
  <2>10. gf_mul(gf_sqr(b), Quad(t)) = gf_mul(gf_sqr(b), u)
    BY <1>10, <2>6, <2>7, <2>8, <2>9
  <2>11. Quad(t) = u
    BY <1>10, <2>5, <2>10, MulCancel
  <2> QED
    BY <2>3, <2>4, <2>11 DEF t
<1>12. Tr(u) = Zero
  BY <1>5, <1>11, QuadFacts
<1>13. r \in Elements /\ Quad(r) = u
  BY <1>10, <1>12, QuadSolved
<1> HIDE DEF r
<1>14. find_poly_deg2_roots(p) = <<Loc(r), Loc(Plus(r, One))>>
  <2>1. c # Zero /\ b # Zero /\ Plus(gf_sqr(r), r) = u
    BY <1>2, <1>6, <1>13 DEF Units, Quad
  <2> QED
    BY <2>1 DEF find_poly_deg2_roots, r, u, la, lb, lc
<1>15. \A x \in RootsIn(p) : Loc(z(x)) = a_ilog(x)
  <2> TAKE x \in RootsIn(p)
  <2> DEFINE t == z(x)
             k == 2 * N - lb - a_log(t) + la
             v == k % N
             w == a_pow(v)
  <2>1. x \in Units /\ x \in Elements /\ t \in Units /\ t \in Elements /\ gf_mul(b, t) = gf_mul(a, x)
    BY <1>4, <1>11
  <2> DEFINE lt == a_log(t)
  <2>2. lt \in Logs /\ lt \in Nat /\ a_pow(lt) = t
    BY <2>1, UnitLog
  <2> HIDE DEF t, z, lt
  <2>3. k \in Nat /\ (lb + lt) + k = (la + N) + N /\ lb + lt \in Nat /\ la + N \in Nat
    BY <1>8, <1>9, <2>2 DEF Logs, lt
  <2> HIDE DEF k
  <2>4. v \in Logs /\ w = a_pow(k) /\ w \in Elements
    BY <2>3, PowMod, PowUnit
  <2>5. gf_mul(gf_mul(b, t), w) = a
    <3>1. gf_mul(b, t) = a_pow(lb + lt)
      BY <1>8, <2>2, PowAdd
    <3>2. gf_mul(a_pow(lb + lt), a_pow(k)) = a_pow((la + N) + N)
      BY <2>3, PowAdd
    <3>3. a_pow((la + N) + N) = a_pow(la + N)
      BY <2>3, PowAround
    <3>4. a_pow(la + N) = a_pow(la)
      BY <1>8, PowAround
    <3> QED
      BY <1>8, <2>4, <3>1, <3>2, <3>3, <3>4
  <2> HIDE DEF w, v
  <2>6. gf_mul(gf_mul(a, x), w) = gf_mul(a, gf_mul(x, w)) /\ gf_mul(x, w) \in Elements
    <3>1. gf_mul(x, w) \in Elements
      BY <2>1, <2>4, FieldOps
    <3>2. gf_mul(a, gf_mul(x, w)) = gf_mul(gf_mul(a, x), w)
      BY <1>1, <2>1, <2>4, MulAssociates
    <3> QED
      BY <3>1, <3>2
  <2>7. gf_mul(a, One) = a /\ One \in Elements
    BY <1>1, OneElement, MulZeroOne, MulCommutes
  <2>8. gf_mul(x, w) = One
    BY <1>2, <2>1, <2>5, <2>6, <2>7, MulCancel
  <2>9. gf_mul(w, x) = One
    BY <2>1, <2>4, <2>8, MulCommutes
  <2>10. v = a_ilog(x)
    BY <2>1, <2>4, <2>9, InverseLog DEF w
  <2> QED
    BY <2>10 DEF v, k, t
<1>16. \A x \in RootsIn(p) : a_ilog(x) \in {Loc(r), Loc(Plus(r, One))}
  <2> TAKE x \in RootsIn(p)
  <2>1. z(x) \in Elements /\ Quad(z(x)) = u
    BY <1>11
  <2>2. z(x) \in {r, Plus(r, One)}
    BY <1>13, <2>1, QuadFacts
  <2> QED
    BY <1>15, <2>2
<1> DEFINE s == find_poly_deg2_roots(p)
<1>17. s \in Seq(Logs)
  BY <1>1, Deg2Type DEF UpTo
<1>18. Len(s) = 2 /\ s[1] = Loc(r) /\ s[2] = Loc(Plus(r, One))
  <2> HIDE DEF Loc
  <2> QED
    BY <1>14
<1> HIDE DEF s, Loc
<1>19. 1 \in 1..2 /\ 2 \in 1..2
  OBVIOUS
<1>20. \A x \in RootsIn(p) : \E j \in 1 .. Len(s) : s[j] = a_ilog(x)
  BY <1>16, <1>18, <1>19
<1>21. Lists(s, RootsIn(p))
  BY <1>3, <1>17, <1>18, <1>20 DEF Lists
<1> QED
  BY <1>21 DEF s

-----------------------------------------------------------------------------
\* Affine polynomials and degree 3

\* Monic polynomials of degree 3 and 4, by Horner's rule and as sums.
Cubic(x, a, b, c) == Plus(gf_mul(Plus(gf_mul(Plus(x, a), x), b), x), c)
Quartic(x, a, b, c, d) == Plus(gf_mul(Cubic(x, a, b, c), x), d)

LEMMA CubicTerms ==
  ASSUME NEW x \in Elements, NEW a \in Elements, NEW b \in Elements, NEW c \in Elements
  PROVE  /\ Cubic(x, a, b, c) \in Elements
         /\ Cubic(x, a, b, c) =
              Plus(Plus(Plus(gf_mul(x, gf_sqr(x)), gf_mul(a, gf_sqr(x))), gf_mul(b, x)), c)
<1> DEFINE s == gf_sqr(x)
           u == Plus(gf_mul(Plus(x, a), x), b)
<1>1. s \in Elements /\ s = gf_mul(x, x) /\ gf_mul(a, x) \in Elements /\ gf_mul(a, s) \in Elements
      /\ gf_mul(x, s) \in Elements /\ gf_mul(b, x) \in Elements /\ gf_mul(s, x) \in Elements
  BY FieldOps, SquareIsMul
<1>2. gf_mul(Plus(x, a), x) = Plus(s, gf_mul(a, x))
  BY <1>1, MulSum
<1>3. Plus(s, gf_mul(a, x)) \in Elements /\ u = Plus(Plus(s, gf_mul(a, x)), b) /\ u \in Elements
  BY <1>1, <1>2, PlusElement
<1>4. gf_mul(u, x) = Plus(gf_mul(Plus(s, gf_mul(a, x)), x), gf_mul(b, x))
  BY <1>3, MulSum
<1>5. gf_mul(Plus(s, gf_mul(a, x)), x) = Plus(gf_mul(s, x), gf_mul(gf_mul(a, x), x))
  BY <1>1, MulSum
<1>6. gf_mul(gf_mul(a, x), x) = gf_mul(a, s)
  BY <1>1, MulAssociates
<1>7. gf_mul(s, x) = gf_mul(x, s)
  BY <1>1, MulCommutes
<1>8. gf_mul(u, x) \in Elements /\ Plus(gf_mul(u, x), c) \in Elements
  BY <1>3, FieldOps, PlusElement
<1>9. Cubic(x, a, b, c) = Plus(gf_mul(u, x), c)
  BY DEF Cubic
<1> QED
  BY <1>4, <1>5, <1>6, <1>7, <1>8, <1>9

LEMMA QuarticTerms ==
  ASSUME NEW x \in Elements, NEW a \in Elements, NEW b \in Elements, NEW c \in Elements,
         NEW d \in Elements
  PROVE  Quartic(x, a, b, c, d) =
           Plus(Plus(Plus(Plus(gf_sqr(gf_sqr(x)), gf_mul(a, gf_mul(x, gf_sqr(x)))),
                          gf_mul(b, gf_sqr(x))), gf_mul(c, x)), d)
<1> DEFINE s == gf_sqr(x)
           t == gf_mul(x, s)
           u == gf_mul(a, s)
           v == gf_mul(b, x)
<1>1. s \in Elements /\ s = gf_mul(x, x)
  BY FieldOps, SquareIsMul
<1>2. t \in Elements /\ u \in Elements /\ v \in Elements
  BY <1>1, FieldOps
<1>3. gf_mul(t, x) = gf_sqr(s)
  <2>1. gf_mul(t, x) = gf_mul(x, t) /\ gf_mul(x, t) = gf_mul(gf_mul(x, x), s)
    BY <1>1, <1>2, MulCommutes, MulAssociates
  <2>2. gf_sqr(s) = gf_mul(s, s)
    BY <1>1, SquareIsMul
  <2> QED
    BY <1>1, <2>1, <2>2
<1>4. gf_mul(u, x) = gf_mul(a, t)
  <2>1. gf_mul(u, x) = gf_mul(a, gf_mul(s, x)) /\ gf_mul(s, x) = t
    BY <1>1, MulAssociates, MulCommutes
  <2> QED
    BY <2>1
<1>5. gf_mul(v, x) = gf_mul(b, s)
  BY <1>1, MulAssociates
<1>6. Cubic(x, a, b, c) = Plus(Plus(Plus(t, u), v), c)
  BY CubicTerms
<1> HIDE DEF s, t, u, v
<1>7. Plus(t, u) \in Elements /\ Plus(Plus(t, u), v) \in Elements
  BY <1>2, PlusElement
<1>8. gf_mul(Plus(Plus(Plus(t, u), v), c), x) = Plus(gf_mul(Plus(Plus(t, u), v), x), gf_mul(c, x))
  BY <1>7, MulSum
<1>9. gf_mul(Plus(Plus(t, u), v), x) = Plus(gf_mul(Plus(t, u), x), gf_mul(v, x))
  BY <1>2, <1>7, MulSum
<1>10. gf_mul(Plus(t, u), x) = Plus(gf_mul(t, x), gf_mul(u, x))
  BY <1>2, MulSum
<1> QED
  BY <1>3, <1>4, <1>5, <1>6, <1>8, <1>9, <1>10 DEF Quartic, s, t, u, v

AffineRoots(a, b, c) ==
  {x \in Elements :
     Plus(gf_sqr(gf_sqr(x)), gf_mul(a, gf_sqr(x))) = Plus(gf_mul(b, x), c)}

LEMMA AffineQuartic ==
  ASSUME NEW a \in Elements, NEW b \in Elements, NEW c \in Elements, NEW x \in Elements
  PROVE  x \in AffineRoots(a, b, c) <=> Quartic(x, Zero, a, b, c) = Zero
<1> DEFINE s == gf_sqr(x)
           u == gf_sqr(s)
           v == gf_mul(a, s)
           w == gf_mul(b, x)
<1>1. s \in Elements /\ gf_mul(x, s) \in Elements /\ Zero \in Elements
  BY FieldOps, OneElement
<1>2. gf_mul(Zero, gf_mul(x, s)) = Zero
  BY <1>1, MulZeroOne
<1>3. Quartic(x, Zero, a, b, c) = Plus(Plus(Plus(Plus(u, Zero), v), w), c)
  BY <1>1, <1>2, QuarticTerms
<1>4. x \in AffineRoots(a, b, c) <=> Plus(u, v) = Plus(w, c)
  BY DEF AffineRoots
<1> HIDE DEF u, v, w
<1>5. Plus(u, Zero) = u
  BY PlusZero
<1>6. Plus(Plus(Plus(u, v), w), c) = Plus(Plus(u, v), Plus(w, c))
  BY Zenon DEF Plus
<1> QED
  BY <1>3, <1>4, <1>5, <1>6, PlusZero

LEMMA AffineBound ==
  ASSUME NEW a \in Elements, NEW b \in Elements, NEW c \in Elements
  PROVE  IsFiniteSet(AffineRoots(a, b, c)) /\ Cardinality(AffineRoots(a, b, c)) <= 4
<1> DEFINE V == AffineRoots(a, b, c)
<1>1. V \subseteq Elements /\ IsFiniteSet(V) /\ Cardinality(V) \in Nat
  <2>1. V \subseteq Elements
    BY DEF AffineRoots
  <2> HIDE DEF V
  <2>2. IsFiniteSet(V)
    BY <2>1, ElementsFinite, FS_Subset
  <2> QED
    BY <2>1, <2>2, FS_CardinalityType
<1>2. \A x \in V : x \in Elements /\ Quartic(x, Zero, a, b, c) = Zero
  BY <1>1, AffineQuartic
<1> HIDE DEF V
<1>3. Zero \in Elements /\ One \in Elements /\ One # Zero
  BY OneElement
<1>4. CASE c # Zero
  <2> DEFINE f == [j \in 0..4 |-> IF j = 4 THEN One ELSE IF j = 2 THEN a ELSE IF j = 1 THEN b
                                  ELSE IF j = 0 THEN c ELSE Zero]
             p == Poly(4, f)
  <2>1. /\ \A j \in 0..4 : f[j] \in Elements
        /\ f[4] = One /\ f[3] = Zero /\ f[2] = a /\ f[1] = b /\ f[0] = c
    BY <1>3
  <2> HIDE DEF f
  <2>2. p \in Polynomials /\ Deg(p) = 4 /\ \A j \in 0..4 : Coef(p, j) = f[j]
    BY <2>1, PolyType
  <2> HIDE DEF p
  <2>3. /\ Coef(p, 4) = One /\ Coef(p, 3) = Zero /\ Coef(p, 2) = a /\ Coef(p, 1) = b
        /\ Coef(p, 0) = c
    BY <2>1, <2>2
  <2>4. Nonzero(p)
    BY <1>3, <2>3 DEF Nonzero
  <2>5. V \subseteq RootsIn(p)
    <3> SUFFICES ASSUME NEW x \in V PROVE x \in RootsIn(p)
      OBVIOUS
    <3>1. x \in Elements /\ Quartic(x, Zero, a, b, c) = Zero
      BY <1>2
    <3>2. x # Zero
      <4> SUFFICES ASSUME x = Zero PROVE FALSE
        OBVIOUS
      <4>1. Cubic(x, Zero, a, b) \in Elements
        BY <1>3, <3>1, CubicTerms
      <4>2. gf_mul(Cubic(x, Zero, a, b), x) = Zero
        BY <4>1, MulZeroOne
      <4>3. Quartic(x, Zero, a, b, c) = c
        BY <4>2, PlusZero DEF Quartic
      <4> QED
        BY <1>4, <3>1, <4>3
    <3>3. x \in Units /\ gf_mul(One, x) = x
      BY <3>1, <3>2, MulZeroOne DEF Units
    <3>4. At(p, x) = Quartic(x, Zero, a, b, c)
      BY <2>2, <2>3, <3>3, HornerAt DEF Quartic, Cubic
    <3> QED
      BY <3>1, <3>3, <3>4 DEF RootsIn
  <2>6. Cardinality(RootsIn(p)) <= 4 /\ IsFiniteSet(RootsIn(p)) /\ Cardinality(RootsIn(p)) \in Nat
    BY <2>2, <2>4, UnitBound, RootsFinite
  <2>7. Cardinality(V) <= Cardinality(RootsIn(p))
    BY <2>5, <2>6, FS_Subset
  <2> QED
    BY <1>1, <2>6, <2>7 DEF V
<1>5. CASE c = Zero
  <2> DEFINE f == [j \in 0..3 |-> IF j = 3 THEN One ELSE IF j = 1 THEN a
                                  ELSE IF j = 0 THEN b ELSE Zero]
             p == Poly(3, f)
             W == V \ {Zero}
  <2>1. /\ \A j \in 0..3 : f[j] \in Elements
        /\ f[3] = One /\ f[2] = Zero /\ f[1] = a /\ f[0] = b
    BY <1>3
  <2> HIDE DEF f
  <2>2. p \in Polynomials /\ Deg(p) = 3 /\ \A j \in 0..3 : Coef(p, j) = f[j]
    BY <2>1, PolyType
  <2> HIDE DEF p
  <2>3. Coef(p, 3) = One /\ Coef(p, 2) = Zero /\ Coef(p, 1) = a /\ Coef(p, 0) = b
    BY <2>1, <2>2
  <2>4. Nonzero(p)
    BY <1>3, <2>3 DEF Nonzero
  <2>5. W \subseteq RootsIn(p)
    <3> SUFFICES ASSUME NEW x \in V, x # Zero PROVE x \in RootsIn(p)
      OBVIOUS
    <3>1. x \in Elements /\ Quartic(x, Zero, a, b, c) = Zero
      BY <1>2
    <3>2. x \in Units /\ gf_mul(One, x) = x
      BY <3>1, MulZeroOne DEF Units
    <3>3. Cubic(x, Zero, a, b) \in Elements
      BY <1>3, <3>1, CubicTerms
    <3>4. gf_mul(Cubic(x, Zero, a, b), x) = Zero
      BY <1>5, <3>1, PlusZero DEF Quartic
    <3>5. Cubic(x, Zero, a, b) = Zero
      BY <3>1, <3>3, <3>4, MulNonzero
    <3>6. At(p, x) = Cubic(x, Zero, a, b)
      BY <2>2, <2>3, <3>2, HornerAt DEF Cubic
    <3> QED
      BY <3>2, <3>5, <3>6 DEF RootsIn
  <2>6. Cardinality(RootsIn(p)) <= 3 /\ IsFiniteSet(RootsIn(p)) /\ Cardinality(RootsIn(p)) \in Nat
    BY <2>2, <2>4, UnitBound, RootsFinite
  <2>7. Cardinality(W) <= Cardinality(RootsIn(p)) /\ IsFiniteSet(W) /\ Cardinality(W) \in Nat
    BY <2>5, <2>6, FS_Subset, FS_CardinalityType
  <2>8. Cardinality(V) <= Cardinality(W) + 1
    <3>1. CASE Zero \in V
      <4>1. Cardinality(W) = Cardinality(V) - 1
        BY <1>1, <3>1, FS_RemoveElement
      <4> QED
        BY <1>1, <2>7, <4>1
    <3>2. CASE Zero \notin V
      <4>1. W = V
        BY <3>2
      <4> QED
        BY <2>7, <4>1
    <3> QED
      BY <3>1, <3>2
  <2> QED
    BY <1>1, <2>6, <2>7, <2>8 DEF V
<1> QED
  BY <1>4, <1>5

\* Four roots are all that there are.
LEMMA AffineSolved ==
  ASSUME NEW a \in Elements, NEW b \in Elements, NEW c \in Elements,
         NEW R, R \subseteq AffineRoots(a, b, c), Cardinality(R) = 4
  PROVE  find_affine4_roots(a, b, c) = R
<1> DEFINE V == AffineRoots(a, b, c)
<1>1. IsFiniteSet(V) /\ Cardinality(V) <= 4 /\ Cardinality(V) \in Nat
  BY AffineBound, FS_CardinalityType
<1>2. find_affine4_roots(a, b, c) = IF Cardinality(V) = 4 THEN V ELSE {}
  BY DEF find_affine4_roots, AffineRoots
<1> HIDE DEF V
<1>3. Cardinality(R) <= Cardinality(V) /\ (Cardinality(R) = Cardinality(V) => R = V)
  BY <1>1, FS_Subset DEF V
<1>4. Cardinality(V) = 4
  BY <1>1, <1>3
<1>5. R = V
  BY <1>3, <1>4
<1> QED
  BY <1>2, <1>4, <1>5

LEMMA LocationsList ==
  ASSUME NEW R, R \subseteq Units
  PROVE  Lists(Locations(R), R)
<1> DEFINE C == {a_ilog(x) : x \in R}
           s == SetToSeq(C)
           f == [x \in R |-> a_ilog(x)]
<1>1. IsFiniteSet(R)
  BY UnitsFinite, FS_Subset
<1>2. C \subseteq Logs
  <2>1. \A x \in R : a_ilog(x) \in Logs
    BY FieldOps DEF Units
  <2> QED
    BY <2>1
<1>3. \A x \in R : \A y \in R : f[x] = f[y] => x = y
  <2> SUFFICES ASSUME NEW x \in R, NEW y \in R, a_ilog(x) = a_ilog(y) PROVE x = y
    OBVIOUS
  <2>1. /\ a_log(x) \in Logs /\ a_pow_tab[a_log(x)] = x
        /\ a_log(y) \in Logs /\ a_pow_tab[a_log(y)] = y
    BY UnitLog
  <2>2. N \in Nat /\ N > 5
    BY Sizes
  <2>3. a_log(x) = a_log(y)
    BY <2>1, <2>2 DEF a_ilog, mod_s, Logs
  <2> QED
    BY <2>1, <2>3
<1>4. C = {f[x] : x \in R}
  OBVIOUS
<1>5. IsFiniteSet(C) /\ Cardinality(C) = Cardinality(R)
  <2> DEFINE h == [i \in C |-> i]
             g == [x \in R |-> h[f[x]]]
  <2>1. \A x \in R : g[x] = h[f[x]]
    OBVIOUS
  <2> HIDE DEF g, h, f, C
  <2> QED
    BY <1>1, <1>3, <1>4, <2>1, SumMapped
<1> HIDE DEF C
<1>6. s \in Seq(C) /\ Len(s) = Cardinality(C)
  BY <1>5, SetToSeqType
<1> DEFINE n == Cardinality(C)
           D == {s[j] : j \in 1..n}
<1>7. s \in [1..n -> C] /\ \A i \in 1..n : \A j \in 1..n : s[i] = s[j] => i = j
  <2>1. ExistsBijection(1..n, C)
    BY <1>5, FS_CardinalityType
  <2>2. \E h \in [1..n -> C] : IsInjective(h)
    BY <2>1 DEF ExistsBijection, Bijection, Injection
  <2>3. s = CHOOSE h \in [1..n -> C] : IsInjective(h)
    BY DEF SetToSeq
  <2> HIDE DEF s, n
  <2>4. s \in [1..n -> C] /\ IsInjective(s)
    BY <2>2, <2>3
  <2> QED
    BY <2>4 DEF IsInjective
<1>8. n \in Nat
  BY <1>5, FS_CardinalityType
<1> HIDE DEF s
<1>9. D = C
  <2> DEFINE A == 1..n
             h == [i \in C |-> i]
             g == [j \in A |-> h[s[j]]]
  <2>1. \A j \in A : g[j] = h[s[j]]
    OBVIOUS
  <2>2. IsFiniteSet(A) /\ Cardinality(A) = n
    BY <1>8, FS_Interval
  <2>3. D = {s[j] : j \in A}
    OBVIOUS
  <2>4. \A i \in A : \A j \in A : s[i] = s[j] => i = j
    BY <1>7
  <2>5. D \subseteq C
    BY <1>7
  <2> HIDE DEF g, h, A, D
  <2>6. Cardinality(D) = n
    BY <2>1, <2>2, <2>3, <2>4, SumMapped
  <2> QED
    BY <1>5, <2>5, <2>6, FS_Subset
<1>10. \A i \in C : \E j \in 1 .. Len(s) : s[j] = i
  BY <1>6, <1>9
<1>11. s \in Seq(Logs)
  BY <1>2, <1>6, SeqMonotonic
<1>12. Locations(R) = s
  BY DEF Locations, s, C
<1>13. \A x \in R : a_ilog(x) \in C
  BY DEF C
<1> HIDE DEF n, D
<1> QED
  BY <1>5, <1>6, <1>10, <1>11, <1>12, <1>13 DEF Lists

LEMMA ScaledStep ==
  ASSUME NEW l \in Elements, NEW u \in Elements, NEW v \in Elements, NEW x \in Elements
  PROVE  /\ Plus(gf_mul(gf_mul(l, u), x), gf_mul(l, v)) = gf_mul(l, Plus(gf_mul(u, x), v))
         /\ Plus(gf_mul(u, x), v) \in Elements
<1>1. gf_mul(u, x) \in Elements
  BY FieldOps
<1>2. gf_mul(gf_mul(l, u), x) = gf_mul(l, gf_mul(u, x))
  BY MulAssociates
<1>3. gf_mul(l, Plus(gf_mul(u, x), v)) = Plus(gf_mul(l, gf_mul(u, x)), gf_mul(l, v))
  BY <1>1, MulDistributes
<1> QED
  BY <1>1, <1>2, <1>3, PlusElement

\* The coefficients of a polynomial that splits over its leading one, and its
\* roots as those of the monic polynomial.
LEMMA MonicRoots ==
  ASSUME NEW p, Splits(p)
  PROVE  LET l    == Coef(p, Deg(p))
             m(j) == gf_div(Coef(p, j), l)
         IN  /\ \A j \in Int : m(j) \in Elements
             /\ Coef(p, 0) # Zero /\ m(0) \in Units
             /\ \A x \in RootsIn(p) : x \in Units /\ x \in Elements
             /\ Deg(p) = 3 => \A x \in RootsIn(p) : Cubic(x, m(2), m(1), m(0)) = Zero
             /\ Deg(p) = 4 => \A x \in RootsIn(p) : Quartic(x, m(3), m(2), m(1), m(0)) = Zero
<1> DEFINE l    == Coef(p, Deg(p))
           m(j) == gf_div(Coef(p, j), l)
<1>1. p \in Polynomials /\ l \in Elements /\ l # Zero /\ Coef(p, 0) # Zero
  BY SplitEnds, CoefElement
<1>2. l \in Units
  BY <1>1 DEF Units
<1>3. \A j \in Int : m(j) \in Elements /\ gf_mul(l, m(j)) = Coef(p, j)
  BY <1>1, <1>2, CoefElement, DivFacts
<1>4. m(0) \in Units
  BY <1>1, <1>2, CoefElement, DivFacts
<1>5. \A x \in RootsIn(p) : x \in Units /\ x \in Elements /\ At(p, x) = Zero
  BY UnitLog DEF RootsIn
<1>6. l = gf_mul(l, One) /\ One \in Elements
  BY <1>1, MulCommutes, MulZeroOne, OneElement
<1>7. \A x \in Elements : gf_mul(One, x) = x
  BY MulZeroOne
<1>8. ASSUME NEW z \in Elements, gf_mul(l, z) = Zero PROVE z = Zero
  BY <1>1, <1>8, MulNonzero
<1>9. Deg(p) = 3 => \A x \in RootsIn(p) : Cubic(x, m(2), m(1), m(0)) = Zero
  <2> SUFFICES ASSUME Deg(p) = 3, NEW x \in RootsIn(p)
               PROVE  Cubic(x, m(2), m(1), m(0)) = Zero
    OBVIOUS
  <2> DEFINE a == m(2)
             b == m(1)
             c == m(0)
             u == Plus(gf_mul(One, x), a)
             v == Plus(gf_mul(u, x), b)
             w == Plus(gf_mul(v, x), c)
  <2>1. x \in Units /\ x \in Elements /\ At(p, x) = Zero
    BY <1>5
  <2>2. At(p, x) = Plus(gf_mul(Plus(gf_mul(Plus(gf_mul(l, x), Coef(p, 2)), x),
                               Coef(p, 1)), x), Coef(p, 0))
    BY <1>1, <2>1, HornerAt
  <2>3. a \in Elements /\ b \in Elements /\ c \in Elements
        /\ Coef(p, 2) = gf_mul(l, a) /\ Coef(p, 1) = gf_mul(l, b) /\ Coef(p, 0) = gf_mul(l, c)
    BY <1>3
  <2> HIDE DEF a, b, c, l, m
  <2>4. Plus(gf_mul(l, x), gf_mul(l, a)) = gf_mul(l, u) /\ u \in Elements
    BY <1>1, <1>6, <2>1, <2>3, ScaledStep DEF l
  <2> HIDE DEF u
  <2>5. Plus(gf_mul(gf_mul(l, u), x), gf_mul(l, b)) = gf_mul(l, v) /\ v \in Elements
    BY <1>1, <2>1, <2>3, <2>4, ScaledStep DEF l
  <2> HIDE DEF v
  <2>6. Plus(gf_mul(gf_mul(l, v), x), gf_mul(l, c)) = gf_mul(l, w) /\ w \in Elements
    BY <1>1, <2>1, <2>3, <2>5, ScaledStep DEF l
  <2>7. gf_mul(l, w) = Zero
    BY <2>1, <2>2, <2>3, <2>4, <2>5, <2>6
  <2>8. w = Zero
    BY <1>8, <2>6, <2>7
  <2> QED
    BY <1>7, <2>1, <2>8 DEF Cubic, w, v, u, a, b, c
<1>10. Deg(p) = 4 => \A x \in RootsIn(p) : Quartic(x, m(3), m(2), m(1), m(0)) = Zero
  <2> SUFFICES ASSUME Deg(p) = 4, NEW x \in RootsIn(p)
               PROVE  Quartic(x, m(3), m(2), m(1), m(0)) = Zero
    OBVIOUS
  <2> DEFINE a == m(3)
             b == m(2)
             c == m(1)
             d == m(0)
             u == Plus(gf_mul(One, x), a)
             v == Plus(gf_mul(u, x), b)
             w == Plus(gf_mul(v, x), c)
             y == Plus(gf_mul(w, x), d)
  <2>1. x \in Units /\ x \in Elements /\ At(p, x) = Zero
    BY <1>5
  <2>2. At(p, x) = Plus(gf_mul(Plus(gf_mul(Plus(gf_mul(Plus(gf_mul(l, x),
                Coef(p, 3)), x), Coef(p, 2)), x), Coef(p, 1)), x), Coef(p, 0))
    BY <1>1, <2>1, HornerAt
  <2>3. /\ a \in Elements /\ b \in Elements /\ c \in Elements /\ d \in Elements
        /\ Coef(p, 3) = gf_mul(l, a) /\ Coef(p, 2) = gf_mul(l, b) /\ Coef(p, 1) = gf_mul(l, c)
        /\ Coef(p, 0) = gf_mul(l, d)
    BY <1>3
  <2> HIDE DEF a, b, c, d, l, m
  <2>4. Plus(gf_mul(l, x), gf_mul(l, a)) = gf_mul(l, u) /\ u \in Elements
    BY <1>1, <1>6, <2>1, <2>3, ScaledStep DEF l
  <2> HIDE DEF u
  <2>5. Plus(gf_mul(gf_mul(l, u), x), gf_mul(l, b)) = gf_mul(l, v) /\ v \in Elements
    BY <1>1, <2>1, <2>3, <2>4, ScaledStep DEF l
  <2> HIDE DEF v
  <2>6. Plus(gf_mul(gf_mul(l, v), x), gf_mul(l, c)) = gf_mul(l, w) /\ w \in Elements
    BY <1>1, <2>1, <2>3, <2>5, ScaledStep DEF l
  <2> HIDE DEF w
  <2>7. Plus(gf_mul(gf_mul(l, w), x), gf_mul(l, d)) = gf_mul(l, y) /\ y \in Elements
    BY <1>1, <2>1, <2>3, <2>6, ScaledStep DEF l
  <2>8. gf_mul(l, y) = Zero
    BY <2>1, <2>2, <2>3, <2>4, <2>5, <2>6, <2>7
  <2>9. y = Zero
    BY <1>8, <2>7, <2>8
  <2> QED
    BY <1>7, <2>1, <2>9 DEF Quartic, Cubic, y, w, v, u, a, b, c, d
<1> QED
  BY <1>1, <1>3, <1>4, <1>5, <1>9, <1>10

\* Multiplied by X + a, a cubic is an affine polynomial.
LEMMA CubicAffine ==
  ASSUME NEW x \in Elements, NEW a \in Elements, NEW b \in Elements, NEW c \in Elements,
         Cubic(x, a, b, c) = Zero
  PROVE  x \in AffineRoots(Plus(gf_sqr(a), b), Plus(gf_mul(a, b), c), gf_mul(a, c))
<1> DEFINE s == gf_sqr(x)
           t == gf_mul(x, s)
           aa == gf_sqr(a)
<1>1. s \in Elements /\ s = gf_mul(x, x) /\ aa \in Elements /\ aa = gf_mul(a, a)
  BY FieldOps, SquareIsMul
<1>2. t \in Elements /\ gf_mul(a, s) \in Elements /\ gf_mul(b, x) \in Elements
      /\ gf_mul(a, b) \in Elements /\ gf_mul(a, c) \in Elements /\ gf_mul(b, s) \in Elements
  BY <1>1, FieldOps
<1>3. Plus(Plus(Plus(t, gf_mul(a, s)), gf_mul(b, x)), c) = Zero
  BY CubicTerms
<1>4. gf_sqr(s) = gf_mul(x, t)
  <2>1. gf_sqr(s) = gf_mul(s, s)
    BY <1>1, SquareIsMul
  <2>2. gf_mul(x, gf_mul(x, s)) = gf_mul(gf_mul(x, x), s)
    BY <1>1, MulAssociates
  <2> QED
    BY <1>1, <2>1, <2>2
<1> DEFINE u == gf_mul(a, s)
           v == gf_mul(b, x)
<1>5. t = Plus(Plus(u, v), c)
  <2> HIDE DEF t, u, v
  <2>1. t = Plus(Plus(u, v), Plus(c, Plus(Plus(Plus(t, u), v), c)))
    BY Zenon DEF Plus
  <2>2. Plus(c, Zero) = c
    BY PlusZero
  <2> QED
    BY <1>3, <2>1, <2>2 DEF u, v
<1>6. Plus(u, v) \in Elements
  BY <1>2, PlusElement
<1>7. gf_mul(x, t) = Plus(Plus(gf_mul(x, u), gf_mul(x, v)), gf_mul(x, c))
  <2> HIDE DEF t, u, v
  <2>1. gf_mul(x, Plus(Plus(u, v), c)) = Plus(gf_mul(x, Plus(u, v)), gf_mul(x, c))
    BY <1>6, MulDistributes
  <2>2. gf_mul(x, Plus(u, v)) = Plus(gf_mul(x, u), gf_mul(x, v))
    BY <1>2, MulDistributes DEF u, v
  <2> QED
    BY <1>5, <2>1, <2>2
<1>8. gf_mul(x, u) = gf_mul(a, t)
  <2>1. gf_mul(x, gf_mul(a, s)) = gf_mul(gf_mul(x, a), s)
    BY <1>1, MulAssociates
  <2>2. gf_mul(a, gf_mul(x, s)) = gf_mul(gf_mul(a, x), s)
    BY <1>1, MulAssociates
  <2>3. gf_mul(x, a) = gf_mul(a, x)
    BY MulCommutes
  <2> QED
    BY <2>1, <2>2, <2>3
<1>9. gf_mul(x, v) = gf_mul(b, s)
  <2>1. gf_mul(x, gf_mul(b, x)) = gf_mul(gf_mul(b, x), x)
    BY <1>2, MulCommutes
  <2>2. gf_mul(b, gf_mul(x, x)) = gf_mul(gf_mul(b, x), x)
    BY MulAssociates
  <2> QED
    BY <1>1, <2>1, <2>2
<1>10. gf_mul(x, c) = gf_mul(c, x)
  BY MulCommutes
<1>11. gf_mul(a, t) = Plus(Plus(gf_mul(a, u), gf_mul(a, v)), gf_mul(a, c))
  <2> HIDE DEF t, u, v
  <2>1. gf_mul(a, Plus(Plus(u, v), c)) = Plus(gf_mul(a, Plus(u, v)), gf_mul(a, c))
    BY <1>6, MulDistributes
  <2>2. gf_mul(a, Plus(u, v)) = Plus(gf_mul(a, u), gf_mul(a, v))
    BY <1>2, MulDistributes DEF u, v
  <2> QED
    BY <1>5, <2>1, <2>2
<1>12. gf_mul(a, u) = gf_mul(aa, s) /\ gf_mul(a, v) = gf_mul(gf_mul(a, b), x)
  BY <1>1, MulAssociates
<1>13. gf_mul(Plus(aa, b), s) = Plus(gf_mul(aa, s), gf_mul(b, s))
  BY <1>1, MulSum
<1>14. gf_mul(Plus(gf_mul(a, b), c), x) = Plus(gf_mul(gf_mul(a, b), x), gf_mul(c, x))
  BY <1>2, MulSum
<1>15. Plus(gf_sqr(s), gf_mul(Plus(aa, b), s)) = Plus(gf_mul(Plus(gf_mul(a, b), c), x), gf_mul(a, c))
  <2> DEFINE k1 == gf_mul(aa, s)
             k2 == gf_mul(gf_mul(a, b), x)
             k3 == gf_mul(a, c)
             k4 == gf_mul(b, s)
             k5 == gf_mul(c, x)
  <2>1. gf_sqr(s) = Plus(Plus(Plus(Plus(k1, k2), k3), k4), k5)
    BY <1>4, <1>7, <1>8, <1>9, <1>10, <1>11, <1>12
  <2>2. gf_mul(Plus(aa, b), s) = Plus(k1, k4) /\ gf_mul(Plus(gf_mul(a, b), c), x) = Plus(k2, k5)
    BY <1>13, <1>14
  <2> HIDE DEF k1, k2, k3, k4, k5
  <2>3. Plus(Plus(Plus(Plus(Plus(k1, k2), k3), k4), k5), Plus(k1, k4)) = Plus(Plus(k2, k5), k3)
    <3> SUFFICES ASSUME NEW i
                 PROVE  i \in Plus(Plus(Plus(Plus(Plus(k1, k2), k3), k4), k5), Plus(k1, k4))
                          <=> i \in Plus(Plus(k2, k5), k3)
      OBVIOUS
    <3> QED
      BY PlusBits
  <2> QED
    BY <2>1, <2>2, <2>3 DEF k3
<1> QED
  BY <1>15 DEF AffineRoots

LEMMA Deg3Lists ==
  ASSUME NEW p, Splits(p), Deg(p) = 3
  PROVE  Lists(find_poly_deg3_roots(p), RootsIn(p))
<1> DEFINE a == gf_div(Coef(p, 2), Coef(p, 3))
           b == gf_div(Coef(p, 1), Coef(p, 3))
           c == gf_div(Coef(p, 0), Coef(p, 3))
           aa == Plus(gf_sqr(a), b)
           bb == Plus(gf_mul(a, b), c)
           cc == gf_mul(a, c)
           R == RootsIn(p)
<1>1. /\ a \in Elements /\ b \in Elements /\ c \in Elements /\ Coef(p, 0) # Zero
      /\ \A x \in R : x \in Units /\ x \in Elements /\ Cubic(x, a, b, c) = Zero
  BY MonicRoots
<1>2. Cardinality(R) = 3 /\ IsFiniteSet(R) /\ R \subseteq Units
  BY RootsFinite DEF Splits
<1>3. find_poly_deg3_roots(p) = Locations(find_affine4_roots(aa, bb, cc) \ {a})
  BY <1>1 DEF find_poly_deg3_roots
<1> HIDE DEF a, b, c, R
<1>4. aa \in Elements /\ bb \in Elements /\ cc \in Elements
  <2>1. gf_sqr(a) \in Elements /\ gf_mul(a, b) \in Elements /\ cc \in Elements
    BY <1>1, FieldOps
  <2> QED
    BY <1>1, <2>1, PlusElement
<1>5. a \notin R
  <2> SUFFICES ASSUME a \in R PROVE FALSE
    OBVIOUS
  <2>1. Cubic(a, a, b, c) = Zero
    BY <1>1
  <2>2. c = gf_mul(b, a)
    <3>1. Plus(a, a) = Zero /\ gf_mul(Zero, a) = Zero /\ Plus(Zero, b) = b
      BY <1>1, PlusZero, MulZeroOne
    <3>2. Plus(gf_mul(b, a), c) = Zero
      BY <2>1, <3>1 DEF Cubic
    <3> QED
      BY <3>2, PlusZero
  <2>3. \A x \in R : x # a => gf_sqr(x) = b /\ x \in Elements
    <3> SUFFICES ASSUME NEW x \in R, x # a PROVE gf_sqr(x) = b /\ x \in Elements
      OBVIOUS
    <3> DEFINE s == gf_sqr(x)
    <3>1. x \in Elements /\ Cubic(x, a, b, c) = Zero /\ s \in Elements
      BY <1>1, FieldOps
    <3>2. Plus(Plus(Plus(gf_mul(x, s), gf_mul(a, s)), gf_mul(b, x)), gf_mul(b, a)) = Zero
      BY <1>1, <2>2, <3>1, CubicTerms
    <3>3. Plus(x, a) \in Elements /\ Plus(x, a) # Zero /\ Plus(s, b) \in Elements
      BY <1>1, <3>1, PlusElement, PlusZero
    <3>4. gf_mul(Plus(x, a), s) = Plus(gf_mul(x, s), gf_mul(a, s))
      BY <1>1, <3>1, MulSum
    <3>5. gf_mul(Plus(x, a), b) = Plus(gf_mul(x, b), gf_mul(a, b))
      BY <1>1, <3>1, MulSum
    <3>6. gf_mul(x, b) = gf_mul(b, x) /\ gf_mul(a, b) = gf_mul(b, a)
      BY <1>1, <3>1, MulCommutes
    <3>7. gf_mul(Plus(x, a), Plus(s, b)) = Plus(gf_mul(Plus(x, a), s), gf_mul(Plus(x, a), b))
      BY <1>1, <3>1, <3>3, MulDistributes
    <3> HIDE DEF s
    <3>8. \A h, i, j : Plus(h, Plus(i, j)) = Plus(Plus(h, i), j)
      BY Zenon DEF Plus
    <3>9. gf_mul(Plus(x, a), Plus(s, b)) = Zero
      BY <3>2, <3>4, <3>5, <3>6, <3>7, <3>8
    <3>10. Plus(s, b) = Zero
      BY <3>3, <3>9, MulNonzero
    <3> QED
      BY <3>1, <3>10, PlusZero DEF s
  <2>4. IsFiniteSet(R \ {a}) /\ Cardinality(R \ {a}) = 2
    BY <1>2, FS_RemoveElement
  <2>5. PICK x1 \in R \ {a}, x2 \in R \ {a} : x1 # x2
    BY <2>4, TwoApart
  <2>6. gf_sqr(x1) = gf_sqr(x2) /\ x1 \in Elements /\ x2 \in Elements
    BY <2>3
  <2> QED
    BY <2>5, <2>6, SquareInjective
<1> DEFINE W == R \cup {a}
<1>6. Cardinality(W) = 4
  BY <1>2, <1>5, FS_AddElement
<1>7. W \subseteq AffineRoots(aa, bb, cc)
  <2>1. \A x \in R : x \in AffineRoots(aa, bb, cc)
    BY <1>1, CubicAffine
  <2>2. a \in AffineRoots(aa, bb, cc)
    BY <1>1, MultipliedRoot DEF AffineRoots
  <2> QED
    BY <2>1, <2>2
<1> HIDE DEF aa, bb, cc
<1>8. find_affine4_roots(aa, bb, cc) = W
  <2> HIDE DEF W
  <2> QED
    BY <1>4, <1>6, <1>7, AffineSolved
<1>9. W \ {a} = R
  BY <1>5
<1>10. find_poly_deg3_roots(p) = Locations(R)
  BY <1>3, <1>8, <1>9
<1> QED
  BY <1>2, <1>10, LocationsList DEF R

-----------------------------------------------------------------------------
\* Degree 4

\* The square root that find_poly_deg4_roots takes.
LEMMA RootOfSquare ==
  ASSUME NEW a \in Units, NEW c \in Elements
  PROVE  LET f == gf_div(c, a)
             l == a_log(f)
             e == IF c = Zero THEN Zero ELSE a_pow((l + (l % 2) * N) \div 2)
         IN  e \in Elements /\ gf_sqr(e) = f /\ f \in Elements /\ gf_mul(a, f) = c
<1> DEFINE f == gf_div(c, a)
           l == a_log(f)
           e == IF c = Zero THEN Zero ELSE a_pow((l + (l % 2) * N) \div 2)
<1>1. f \in Elements /\ gf_mul(a, f) = c /\ (c # Zero => f \in Units)
  BY DivFacts
<1>2. CASE c = Zero
  <2>1. f = Zero
    BY <1>2 DEF gf_div
  <2> QED
    BY <1>1, <1>2, <2>1, SquareFacts, OneElement
<1>3. CASE c # Zero
  <2>1. f \in Units
    BY <1>1, <1>3
  <2>2. l \in Nat /\ a_pow(l) = f
    BY <2>1, UnitLog
  <2> HIDE DEF l, f
  <2>3. N \in Nat /\ N % 2 = 1
    <3>1. M - 1 \in Nat /\ (M - 1) + 1 = M /\ N \in Nat
      BY Sizes
    <3>2. 2^(M - 1) \in Nat /\ 2^((M - 1) + 1) = 2 * 2^(M - 1)
      BY <3>1, PowerOfTwo, PowerNext
    <3>3. N = 2 * 2^(M - 1) - 1
      BY <3>1, <3>2 DEF N
    <3> DEFINE h == 2^(M - 1)
    <3>4. h \in Nat /\ N = 2 * h - 1
      BY <3>2, <3>3
    <3> HIDE DEF h
    <3> QED
      BY <3>1, <3>4
  <2> DEFINE k == (l + (l % 2) * N) \div 2
  <2>4. l % 2 \in {0, 1}
    BY <2>2
  <2>5. k \in Nat /\ (2 * k = l \/ 2 * k = l + N)
    <3>1. CASE l % 2 = 0
      <4>1. (l % 2) * N = 0
        BY <2>3, <3>1
      <4>2. k = l \div 2
        BY <2>2, <4>1
      <4> QED
        BY <2>2, <3>1, <4>2
    <3>2. CASE l % 2 = 1
      <4>1. (l % 2) * N = N
        BY <2>3, <3>2
      <4>2. k = (l + N) \div 2
        BY <4>1
      <4>3. (l + N) % 2 = 0
        BY <2>2, <2>3, <3>2
      <4> QED
        BY <2>2, <2>3, <4>2, <4>3
    <3> QED
      BY <2>4, <3>1, <3>2
  <2>6. e = a_pow(k)
    BY <1>3
  <2> HIDE DEF k, e
  <2>7. gf_sqr(e) = a_pow(2 * k) /\ e \in Elements
    BY <2>5, <2>6, SquareFacts, PowUnit
  <2>8. a_pow(2 * k) = f
    BY <2>2, <2>5, PowAround
  <2> QED
    BY <1>1, <2>7, <2>8 DEF e, l, f, k
<1> QED
  BY <1>2, <1>3

\* z = X + e drops the linear term.
LEMMA QuarticMoved ==
  ASSUME NEW x \in Elements, NEW a \in Elements, NEW b \in Elements, NEW c \in Elements,
         NEW d \in Elements, NEW e \in Elements, NEW f \in Elements,
         f = gf_sqr(e), gf_mul(a, f) = c
  PROVE  LET z == Plus(x, e)
         IN  Quartic(x, a, b, c, d) =
               Plus(Plus(Plus(gf_sqr(gf_sqr(z)), gf_mul(a, gf_mul(z, gf_sqr(z)))),
                         gf_mul(Plus(gf_mul(a, e), b), gf_sqr(z))),
                    Plus(gf_sqr(f), Plus(gf_mul(b, f), d)))
<1> DEFINE s == gf_sqr(x)
           z == Plus(x, e)
           q == gf_sqr(z)
           t == gf_mul(x, s)
           xf == gf_mul(x, f)
           es == gf_mul(e, s)
           ef == gf_mul(e, f)
           ae == gf_mul(a, e)
<1>1. s \in Elements /\ z \in Elements /\ f \in Elements
  BY FieldOps, PlusElement
<1>2. t \in Elements /\ xf \in Elements /\ es \in Elements /\ ef \in Elements /\ ae \in Elements
  BY <1>1, FieldOps
<1>3. q = Plus(s, f) /\ q \in Elements
  BY <1>1, SquarePlus, PlusElement
<1>4. gf_sqr(q) = Plus(gf_sqr(s), gf_sqr(f))
  BY <1>1, <1>3, SquarePlus
<1>5. gf_mul(z, q) = Plus(Plus(t, es), Plus(xf, ef))
  <2>1. gf_mul(z, Plus(s, f)) = Plus(gf_mul(z, s), gf_mul(z, f))
    BY <1>1, MulDistributes
  <2>2. gf_mul(z, s) = Plus(t, es) /\ gf_mul(z, f) = Plus(xf, ef)
    BY <1>1, MulSum
  <2> QED
    BY <1>3, <2>1, <2>2
<1>6. gf_mul(a, gf_mul(z, q)) = Plus(Plus(gf_mul(a, t), gf_mul(a, es)),
                                     Plus(gf_mul(a, xf), gf_mul(a, ef)))
  <2>1. Plus(t, es) \in Elements /\ Plus(xf, ef) \in Elements
    BY <1>2, PlusElement
  <2> HIDE DEF t, es, xf, ef
  <2>2. gf_mul(a, Plus(Plus(t, es), Plus(xf, ef)))
          = Plus(gf_mul(a, Plus(t, es)), gf_mul(a, Plus(xf, ef)))
    BY <2>1, MulDistributes
  <2>3. gf_mul(a, Plus(t, es)) = Plus(gf_mul(a, t), gf_mul(a, es))
    BY <1>2, MulDistributes
  <2>4. gf_mul(a, Plus(xf, ef)) = Plus(gf_mul(a, xf), gf_mul(a, ef))
    BY <1>2, MulDistributes
  <2> QED
    BY <1>5, <2>2, <2>3, <2>4
<1>7. gf_mul(a, es) = gf_mul(ae, s) /\ gf_mul(a, ef) = gf_mul(ae, f)
  BY <1>1, MulAssociates
<1>8. gf_mul(a, xf) = gf_mul(c, x)
  <2>1. xf = gf_mul(f, x)
    BY MulCommutes
  <2>2. gf_mul(a, gf_mul(f, x)) = gf_mul(gf_mul(a, f), x)
    BY MulAssociates
  <2> QED
    BY <2>1, <2>2
<1>9. gf_mul(Plus(ae, b), q) = Plus(Plus(gf_mul(ae, s), gf_mul(b, s)),
                                    Plus(gf_mul(ae, f), gf_mul(b, f)))
  <2>1. Plus(ae, b) \in Elements
    BY <1>2, PlusElement
  <2> HIDE DEF ae
  <2>2. gf_mul(Plus(ae, b), Plus(s, f)) = Plus(gf_mul(Plus(ae, b), s), gf_mul(Plus(ae, b), f))
    BY <1>1, <2>1, MulDistributes
  <2>3. gf_mul(Plus(ae, b), s) = Plus(gf_mul(ae, s), gf_mul(b, s))
    BY <1>1, <1>2, MulSum
  <2>4. gf_mul(Plus(ae, b), f) = Plus(gf_mul(ae, f), gf_mul(b, f))
    BY <1>1, <1>2, MulSum
  <2> QED
    BY <1>3, <2>2, <2>3, <2>4
<1>10. Quartic(x, a, b, c, d) =
         Plus(Plus(Plus(Plus(gf_sqr(s), gf_mul(a, t)), gf_mul(b, s)), gf_mul(c, x)), d)
  BY QuarticTerms
<1> DEFINE k1 == gf_sqr(s)
           k2 == gf_sqr(f)
           k3 == gf_mul(a, t)
           k4 == gf_mul(ae, s)
           k5 == gf_mul(c, x)
           k6 == gf_mul(ae, f)
           k7 == gf_mul(b, s)
           k8 == gf_mul(b, f)
<1>11. Plus(Plus(Plus(gf_sqr(q), gf_mul(a, gf_mul(z, q))), gf_mul(Plus(ae, b), q)),
            Plus(k2, Plus(k8, d)))
         = Plus(Plus(Plus(Plus(k1, k2), Plus(Plus(k3, k4), Plus(k5, k6))),
                     Plus(Plus(k4, k7), Plus(k6, k8))),
                Plus(k2, Plus(k8, d)))
  BY <1>4, <1>6, <1>7, <1>8, <1>9
<1>12. Plus(Plus(Plus(Plus(k1, k2), Plus(Plus(k3, k4), Plus(k5, k6))),
                 Plus(Plus(k4, k7), Plus(k6, k8))),
            Plus(k2, Plus(k8, d)))
         = Plus(Plus(Plus(Plus(k1, k3), k7), k5), d)
  <2> HIDE DEF k1, k2, k3, k4, k5, k6, k7, k8
  <2> SUFFICES ASSUME NEW i
               PROVE  i \in Plus(Plus(Plus(Plus(k1, k2), Plus(Plus(k3, k4), Plus(k5, k6))),
                                      Plus(Plus(k4, k7), Plus(k6, k8))),
                                 Plus(k2, Plus(k8, d)))
                        <=> i \in Plus(Plus(Plus(Plus(k1, k3), k7), k5), d)
    OBVIOUS
  <2> QED
    BY PlusBits
<1> QED
  BY <1>10, <1>11, <1>12

LEMMA InverseFacts ==
  ASSUME NEW z \in Units
  PROVE  /\ gf_inv(z) \in Units /\ gf_mul(z, gf_inv(z)) = One
         /\ gf_inv(gf_inv(z)) = z
<1>1. \A x \in Units : gf_inv(x) \in Units /\ gf_mul(x, gf_inv(x)) = One
  <2> TAKE x \in Units
  <2> DEFINE l == a_log(x)
  <2>1. l \in Logs /\ l \in Nat /\ a_pow(l) = x /\ x \in Elements
    BY UnitLog
  <2>2. N \in Nat /\ N > 5
    BY Sizes
  <2>3. gf_inv(x) = a_pow_tab[N - l]
    BY DEF gf_inv
  <2> HIDE DEF l
  <2>4. CASE l = 0
    <3>1. x = One
      BY <2>1, <2>4, PowZero
    <3>2. gf_inv(x) = One
      BY <2>2, <2>3, <2>4, PowerStep
    <3> QED
      BY <3>1, <3>2, OneElement, MulZeroOne DEF Units
  <2>5. CASE l # 0
    <3>1. N - l \in Logs /\ N - l \in Nat /\ l + (N - l) = N /\ N * 1 = N
      BY <2>1, <2>2, <2>5 DEF Logs
    <3>2. gf_inv(x) = a_pow(N - l)
      BY <2>3, <3>1, PowOfLog
    <3>3. gf_mul(a_pow(l), a_pow(N - l)) = a_pow(N)
      BY <2>1, <3>1, PowAdd
    <3>4. a_pow(N) = One
      BY <3>1, PowPeriod
    <3> QED
      BY <2>1, <3>1, <3>2, <3>3, <3>4, PowUnit DEF Units
  <2> QED
    BY <2>4, <2>5
<1> DEFINE y == gf_inv(z)
<1>2. y \in Units /\ gf_mul(z, y) = One /\ z \in Elements /\ y \in Elements
  BY <1>1, UnitLog
<1> HIDE DEF y
<1>3. gf_inv(y) \in Elements /\ gf_mul(y, gf_inv(y)) = One
  BY <1>1, <1>2, UnitLog
<1>4. gf_mul(y, z) = One
  BY <1>2, MulCommutes
<1>5. gf_inv(y) = z
  BY <1>2, <1>3, <1>4, MulCancel
<1> QED
  BY <1>1, <1>5 DEF y

\* Y = 1/z makes it affine.
LEMMA QuarticTurned ==
  ASSUME NEW z \in Units, NEW a \in Elements, NEW b \in Elements, NEW d \in Units,
         Plus(Plus(Plus(gf_sqr(gf_sqr(z)), gf_mul(a, gf_mul(z, gf_sqr(z)))),
                   gf_mul(b, gf_sqr(z))), d) = Zero
  PROVE  gf_inv(z) \in AffineRoots(gf_div(b, d), gf_div(a, d), gf_inv(d))
<1> DEFINE y == gf_inv(z)
           q == gf_sqr(z)
           t == gf_mul(z, q)
           r == gf_sqr(q)
           y2 == gf_sqr(y)
           y4 == gf_sqr(y2)
<1>1. y \in Units /\ y \in Elements /\ gf_mul(z, y) = One /\ z \in Elements /\ d \in Elements
  BY InverseFacts, UnitLog
<1>2. q \in Elements /\ y2 \in Elements
  BY <1>1, FieldOps
<1>3. r \in Elements /\ y4 \in Elements /\ t \in Elements /\ gf_mul(a, t) \in Elements
      /\ gf_mul(b, q) \in Elements
  <2>1. r \in Elements /\ y4 \in Elements /\ t \in Elements
    BY <1>1, <1>2, FieldOps
  <2> QED
    BY <1>2, <2>1, FieldOps
<1>4. gf_mul(q, y2) = One
  <2>1. gf_sqr(gf_mul(z, y)) = gf_mul(gf_sqr(z), gf_sqr(y))
    BY <1>1, SquareMul
  <2> QED
    BY <1>1, <2>1, SquareFacts
<1>5. gf_mul(r, y4) = One
  <2>1. gf_sqr(gf_mul(q, y2)) = gf_mul(gf_sqr(q), gf_sqr(y2))
    BY <1>2, SquareMul
  <2> QED
    BY <1>4, <2>1, SquareFacts
<1>6. gf_mul(q, y4) = y2
  <2>1. y4 = gf_mul(y2, y2)
    BY <1>2, SquareIsMul
  <2>2. gf_mul(q, gf_mul(y2, y2)) = gf_mul(gf_mul(q, y2), y2)
    BY <1>2, MulAssociates
  <2> QED
    BY <1>2, <1>4, <2>1, <2>2, MulZeroOne
<1>7. gf_mul(t, y4) = y
  <2>1. gf_mul(gf_mul(z, q), y4) = gf_mul(z, gf_mul(q, y4))
    BY <1>1, <1>2, <1>3, MulAssociates
  <2>2. y2 = gf_mul(y, y)
    BY <1>1, SquareIsMul
  <2>3. gf_mul(z, gf_mul(y, y)) = gf_mul(gf_mul(z, y), y)
    BY <1>1, MulAssociates
  <2> QED
    BY <1>1, <1>6, <2>1, <2>2, <2>3, MulZeroOne
<1>8. gf_mul(gf_mul(a, t), y4) = gf_mul(a, y) /\ gf_mul(gf_mul(b, q), y4) = gf_mul(b, y2)
  BY <1>2, <1>3, <1>6, <1>7, MulAssociates
<1>9. Plus(Plus(Plus(One, gf_mul(a, y)), gf_mul(b, y2)), gf_mul(d, y4)) = Zero
  <2> DEFINE u == gf_mul(a, t)
             v == gf_mul(b, q)
  <2>1. u \in Elements /\ v \in Elements /\ Plus(Plus(Plus(r, u), v), d) = Zero
        /\ gf_mul(u, y4) = gf_mul(a, y) /\ gf_mul(v, y4) = gf_mul(b, y2)
    BY <1>3, <1>8
  <2> HIDE DEF u, v, r, y4
  <2>2. Plus(r, u) \in Elements /\ Plus(Plus(r, u), v) \in Elements
    BY <1>3, <2>1, PlusElement
  <2>3. gf_mul(Plus(Plus(Plus(r, u), v), d), y4)
          = Plus(gf_mul(Plus(Plus(r, u), v), y4), gf_mul(d, y4))
    BY <1>1, <1>3, <2>2, MulSum
  <2>4. gf_mul(Plus(Plus(r, u), v), y4) = Plus(gf_mul(Plus(r, u), y4), gf_mul(v, y4))
    BY <1>3, <2>1, <2>2, MulSum
  <2>5. gf_mul(Plus(r, u), y4) = Plus(gf_mul(r, y4), gf_mul(u, y4))
    BY <1>3, <2>1, MulSum
  <2>6. gf_mul(Zero, y4) = Zero
    BY <1>3, MulZeroOne
  <2> QED
    BY <1>5, <2>1, <2>3, <2>4, <2>5, <2>6
<1> DEFINE bd == gf_div(b, d)
           ad == gf_div(a, d)
           id == gf_inv(d)
<1>10. /\ bd \in Elements /\ gf_mul(d, bd) = b /\ ad \in Elements /\ gf_mul(d, ad) = a
       /\ id \in Elements /\ gf_mul(d, id) = One
  BY DivFacts, InverseFacts, UnitLog
<1> HIDE DEF bd, ad, id, y4, y2, y, q, t, r
<1>11. gf_mul(bd, y2) \in Elements /\ gf_mul(ad, y) \in Elements
  BY <1>1, <1>2, <1>10, FieldOps
<1>12. gf_mul(d, Plus(y4, gf_mul(bd, y2))) = Plus(gf_mul(d, y4), gf_mul(b, y2))
       /\ Plus(y4, gf_mul(bd, y2)) \in Elements
  <2>1. gf_mul(d, gf_mul(bd, y2)) = gf_mul(gf_mul(d, bd), y2)
    BY <1>1, <1>2, <1>10, MulAssociates
  <2>2. gf_mul(d, Plus(y4, gf_mul(bd, y2))) = Plus(gf_mul(d, y4), gf_mul(d, gf_mul(bd, y2)))
    BY <1>1, <1>3, <1>11, MulDistributes
  <2> QED
    BY <1>3, <1>10, <1>11, <2>1, <2>2, PlusElement
<1>13. gf_mul(d, Plus(gf_mul(ad, y), id)) = Plus(gf_mul(a, y), One)
       /\ Plus(gf_mul(ad, y), id) \in Elements
  <2>1. gf_mul(d, gf_mul(ad, y)) = gf_mul(gf_mul(d, ad), y)
    BY <1>1, <1>10, MulAssociates
  <2>2. gf_mul(d, Plus(gf_mul(ad, y), id)) = Plus(gf_mul(d, gf_mul(ad, y)), gf_mul(d, id))
    BY <1>1, <1>10, <1>11, MulDistributes
  <2> QED
    BY <1>10, <1>11, <2>1, <2>2, PlusElement
<1>14. Plus(gf_mul(d, y4), gf_mul(b, y2)) = Plus(gf_mul(a, y), One)
  <2> DEFINE k1 == gf_mul(a, y)
             k2 == gf_mul(b, y2)
             k3 == gf_mul(d, y4)
  <2>1. Plus(Plus(Plus(One, k1), k2), k3) = Zero
    BY <1>9
  <2> HIDE DEF k1, k2, k3
  <2>2. Plus(Plus(Plus(One, k1), k2), k3) = Plus(Plus(k3, k2), Plus(k1, One))
    BY Zenon DEF Plus
  <2>3. Plus(k3, k2) = Plus(k1, One)
    BY <2>1, <2>2, PlusZero
  <2> QED
    BY <2>3 DEF k1, k2, k3
<1>15. Plus(y4, gf_mul(bd, y2)) = Plus(gf_mul(ad, y), id)
  BY <1>12, <1>13, <1>14, MulCancel
<1> QED
  BY <1>1, <1>15 DEF AffineRoots, y4, y2, y, bd, ad, id

LEMMA RemoveOne ==
  ASSUME NEW S, IsFiniteSet(S), NEW x
  PROVE  /\ IsFiniteSet(S \ {x}) /\ Cardinality(S \ {x}) \in Nat /\ Cardinality(S) \in Nat
         /\ Cardinality(S \ {x}) >= Cardinality(S) - 1
<1>1. IsFiniteSet(S \ {x}) /\ Cardinality(S \ {x}) \in Nat /\ Cardinality(S) \in Nat
  BY FS_Subset, FS_CardinalityType
<1>2. CASE x \in S
  BY <1>1, <1>2, FS_RemoveElement
<1>3. CASE x \notin S
  <2>1. S \ {x} = S
    BY <1>3
  <2> QED
    BY <1>1, <2>1
<1> QED
  BY <1>1, <1>2, <1>3

\* Of four roots three are not e, and so z^4 + a z^3 + b z^2 = 0 holds for no
\* more than three of them.
LEMMA NoDoubleRoot ==
  ASSUME NEW R, R \subseteq Elements, Cardinality(R) = 4,
         NEW a \in Elements, NEW b \in Elements, NEW e \in Elements
  PROVE  \E x \in R :
           LET z == Plus(x, e)
           IN  Plus(Plus(gf_sqr(gf_sqr(z)), gf_mul(a, gf_mul(z, gf_sqr(z)))),
                    gf_mul(b, gf_sqr(z))) # Zero
<1> SUFFICES ASSUME \A x \in R :
                      LET z == Plus(x, e)
                      IN  Plus(Plus(gf_sqr(gf_sqr(z)), gf_mul(a, gf_mul(z, gf_sqr(z)))),
                               gf_mul(b, gf_sqr(z))) = Zero
             PROVE  FALSE
  OBVIOUS
<1>1. IsFiniteSet(R)
  BY ElementsFinite, FS_Subset
<1> DEFINE S == R \ {e}
<1>2. \A x \in S : /\ x \in Elements /\ Plus(x, e) \in Elements
                   /\ Plus(gf_sqr(Plus(x, e)), gf_mul(a, Plus(x, e))) = b
  <2> TAKE x \in S
  <2> DEFINE z == Plus(x, e)
             q == gf_sqr(z)
  <2>1. x \in Elements /\ x # e
    OBVIOUS
  <2>2. z \in Elements /\ z # Zero
    BY <2>1, PlusElement, PlusZero
  <2>3. Plus(Plus(gf_sqr(q), gf_mul(a, gf_mul(z, q))), gf_mul(b, q)) = Zero
    OBVIOUS
  <2> HIDE DEF z
  <2>4. q \in Elements /\ q # Zero /\ gf_mul(a, z) \in Elements
    BY <2>2, SquareFacts, FieldOps
  <2>5. gf_sqr(q) = gf_mul(q, q)
    BY <2>4, SquareIsMul
  <2>6. gf_mul(a, gf_mul(z, q)) = gf_mul(gf_mul(a, z), q)
    BY <2>2, <2>4, MulAssociates
  <2> HIDE DEF q
  <2>7. Plus(q, gf_mul(a, z)) \in Elements /\ Plus(Plus(q, gf_mul(a, z)), b) \in Elements
    BY <2>4, PlusElement
  <2>8. gf_mul(Plus(Plus(q, gf_mul(a, z)), b), q)
          = Plus(gf_mul(Plus(q, gf_mul(a, z)), q), gf_mul(b, q))
    BY <2>4, <2>7, MulSum
  <2>9. gf_mul(Plus(q, gf_mul(a, z)), q) = Plus(gf_mul(q, q), gf_mul(gf_mul(a, z), q))
    BY <2>4, MulSum
  <2>10. gf_mul(Plus(Plus(q, gf_mul(a, z)), b), q) = Zero
    BY <2>3, <2>5, <2>6, <2>8, <2>9
  <2>11. Plus(Plus(q, gf_mul(a, z)), b) = Zero
    BY <2>4, <2>7, <2>10, MulNonzero
  <2> QED
    BY <2>1, <2>2, <2>11, PlusZero DEF q, z
<1>3. ASSUME NEW x \in S, NEW y \in S, x # y PROVE Plus(x, y) = a
  <2> DEFINE u == Plus(x, e)
             v == Plus(y, e)
             w == Plus(u, v)
  <2>1. /\ u \in Elements /\ v \in Elements /\ x \in Elements /\ y \in Elements
        /\ Plus(gf_sqr(u), gf_mul(a, u)) = b /\ Plus(gf_sqr(v), gf_mul(a, v)) = b
    BY <1>2, <1>3
  <2>2. w = Plus(x, y)
    BY Zenon DEF Plus
  <2>3. w \in Elements /\ w # Zero
    BY <1>3, <2>1, <2>2, PlusElement, PlusZero
  <2> HIDE DEF u, v
  <2>4. gf_sqr(w) = Plus(gf_sqr(u), gf_sqr(v)) /\ gf_mul(a, w) = Plus(gf_mul(a, u), gf_mul(a, v))
    BY <2>1, SquarePlus, MulDistributes
  <2> HIDE DEF w
  <2>5. gf_sqr(w) = gf_mul(a, w)
    <3> DEFINE k1 == gf_sqr(u)
               k2 == gf_sqr(v)
               k3 == gf_mul(a, u)
               k4 == gf_mul(a, v)
    <3>1. Plus(k1, k3) = Plus(k2, k4)
      BY <2>1
    <3>2. gf_sqr(w) = Plus(k1, k2) /\ gf_mul(a, w) = Plus(k3, k4)
      BY <2>4
    <3> HIDE DEF k1, k2, k3, k4
    <3>3. Plus(Plus(k1, k2), Plus(k3, k4)) = Plus(Plus(k1, k3), Plus(k2, k4))
      BY Zenon DEF Plus
    <3>4. Plus(Plus(k1, k2), Plus(k3, k4)) = Zero
      BY <3>1, <3>3, PlusZero
    <3> QED
      BY <3>2, <3>4, PlusZero
  <2>6. gf_mul(w, w) = gf_mul(w, a)
    BY <2>3, <2>5, SquareIsMul, MulCommutes
  <2>7. w \in Units
    BY <2>3 DEF Units
  <2>8. w = a
    BY <2>3, <2>6, <2>7, MulCancel
  <2> QED
    BY <2>2, <2>8
<1>4. IsFiniteSet(S) /\ Cardinality(S) \in Nat /\ Cardinality(S) >= 3
  <2>1. /\ Cardinality(S) \in Nat /\ IsFiniteSet(S) /\ Cardinality(R) \in Nat
        /\ Cardinality(S) >= Cardinality(R) - 1
    BY <1>1, RemoveOne
  <2> QED
    BY <2>1
<1> HIDE DEF S
<1>5. S # {}
  BY <1>4, FS_EmptySet
<1>6. PICK x1 \in S : TRUE
  BY <1>5
<1>7. IsFiniteSet(S \ {x1}) /\ Cardinality(S \ {x1}) >= 2
  BY <1>4, RemoveOne
<1>8. PICK x2 \in S \ {x1}, x3 \in S \ {x1} : x2 # x3
  BY <1>7, TwoApart
<1>9. Plus(x1, x2) = Plus(x1, x3)
  BY <1>3, <1>8
<1>10. x2 = Plus(x1, Plus(x1, x2)) /\ x3 = Plus(x1, Plus(x1, x3))
  BY Zenon DEF Plus
<1> QED
  BY <1>8, <1>9, <1>10

LEMMA Deg4Lists ==
  ASSUME NEW p, Splits(p), Deg(p) = 4
  PROVE  Lists(find_poly_deg4_roots(p), RootsIn(p))
<1> DEFINE a == gf_div(Coef(p, 3), Coef(p, 4))
           b == gf_div(Coef(p, 2), Coef(p, 4))
           c == gf_div(Coef(p, 1), Coef(p, 4))
           d == gf_div(Coef(p, 0), Coef(p, 4))
           f == gf_div(c, a)
           l == a_log(f)
           e == IF c = Zero THEN Zero ELSE a_pow((l + (l % 2) * N) \div 2)
           dz == Plus(gf_sqr(f), Plus(gf_mul(b, f), d))
           bz == Plus(gf_mul(a, e), b)
           ys == find_affine4_roots(gf_div(bz, dz), gf_div(a, dz), gf_inv(dz))
           R == RootsIn(p)
<1>1. /\ a \in Elements /\ b \in Elements /\ c \in Elements /\ d \in Elements
      /\ Coef(p, 0) # Zero
      /\ \A x \in R : x \in Units /\ x \in Elements /\ Quartic(x, a, b, c, d) = Zero
  BY MonicRoots
<1>2. Cardinality(R) = 4 /\ IsFiniteSet(R) /\ R \subseteq Units /\ R \subseteq Elements
  BY <1>1, RootsFinite DEF Splits
<1>3. find_poly_deg4_roots(p) =
        IF a = Zero THEN Locations(find_affine4_roots(b, c, d))
        ELSE IF dz = Zero THEN <<>>
        ELSE Locations({Plus(gf_inv(y), e) : y \in ys})
  BY <1>1 DEF find_poly_deg4_roots
<1> HIDE DEF a, b, c, d, R
<1>4. CASE a = Zero
  <2>1. R \subseteq AffineRoots(b, c, d)
    BY <1>1, <1>4, AffineQuartic
  <2>2. find_affine4_roots(b, c, d) = R
    BY <1>1, <1>2, <2>1, AffineSolved
  <2> QED
    BY <1>2, <1>3, <1>4, <2>2, LocationsList DEF R
<1>5. CASE a # Zero
  <2>1. a \in Units
    BY <1>1, <1>5 DEF Units
  <2>2. e \in Elements /\ gf_sqr(e) = f /\ f \in Elements /\ gf_mul(a, f) = c
    BY <1>1, <2>1, RootOfSquare
  <2> HIDE DEF e, f
  <2>3. dz \in Elements /\ bz \in Elements
    <3>1. gf_sqr(f) \in Elements /\ gf_mul(b, f) \in Elements /\ gf_mul(a, e) \in Elements
      BY <1>1, <2>2, FieldOps
    <3>2. Plus(gf_mul(b, f), d) \in Elements
      BY <1>1, <3>1, PlusElement
    <3> QED
      BY <1>1, <3>1, <3>2, PlusElement
  <2>4. \A x \in R :
          LET z == Plus(x, e)
          IN  Plus(Plus(Plus(gf_sqr(gf_sqr(z)), gf_mul(a, gf_mul(z, gf_sqr(z)))),
                        gf_mul(bz, gf_sqr(z))), dz) = Zero
    <3> TAKE x \in R
    <3>1. x \in Elements /\ Quartic(x, a, b, c, d) = Zero
      BY <1>1
    <3> QED
      BY <1>1, <2>2, <3>1, QuarticMoved
  <2> HIDE DEF dz, bz
  <2>5. dz # Zero
    <3> SUFFICES ASSUME dz = Zero PROVE FALSE
      OBVIOUS
    <3>1. PICK x \in R :
            LET z == Plus(x, e)
            IN  Plus(Plus(gf_sqr(gf_sqr(z)), gf_mul(a, gf_mul(z, gf_sqr(z)))),
                     gf_mul(bz, gf_sqr(z))) # Zero
      BY <1>1, <1>2, <2>2, <2>3, NoDoubleRoot
    <3> DEFINE z == Plus(x, e)
               k == Plus(Plus(gf_sqr(gf_sqr(z)), gf_mul(a, gf_mul(z, gf_sqr(z)))),
                         gf_mul(bz, gf_sqr(z)))
    <3>2. k # Zero /\ Plus(k, Zero) = Zero
      BY <2>4, <3>1
    <3> HIDE DEF k
    <3> QED
      BY <3>2, PlusZero
  <2>6. dz \in Units
    BY <2>3, <2>5 DEF Units
  <2>7. \A x \in R : Plus(x, e) \in Units
    <3> TAKE x \in R
    <3> DEFINE z == Plus(x, e)
    <3>1. z \in Elements
      BY <1>1, <2>2, PlusElement
    <3>2. Plus(Plus(Plus(gf_sqr(gf_sqr(z)), gf_mul(a, gf_mul(z, gf_sqr(z)))),
                        gf_mul(bz, gf_sqr(z))), dz) = Zero
      BY <2>4
    <3> HIDE DEF z
    <3>3. z # Zero
      <4> SUFFICES ASSUME z = Zero PROVE FALSE
        OBVIOUS
      <4>1. gf_sqr(z) = Zero /\ gf_sqr(gf_sqr(z)) = Zero
        BY SquareFacts
      <4>2. gf_mul(z, gf_sqr(z)) = Zero /\ gf_mul(bz, gf_sqr(z)) = Zero
            /\ gf_mul(a, Zero) = Zero
        BY <1>1, <2>3, <4>1, OneElement, MulZeroOne
      <4>3. gf_mul(a, gf_mul(z, gf_sqr(z))) = Zero
        BY <4>2
      <4>4. Plus(Zero, Zero) = Zero /\ Plus(Zero, dz) = dz
        BY PlusZero
      <4> QED
        BY <2>5, <3>2, <4>1, <4>2, <4>3, <4>4
    <3>4. z \in Units
      BY <3>1, <3>3 DEF Units
    <3> QED
      BY <3>4 DEF z
  <2> DEFINE y == [x \in R |-> gf_inv(Plus(x, e))]
             Y == {y[x] : x \in R}
             A == gf_div(bz, dz)
             B == gf_div(a, dz)
             C == gf_inv(dz)
  <2>8. \A x \in R : y[x] \in Units /\ y[x] \in AffineRoots(A, B, C)
                     /\ Plus(gf_inv(y[x]), e) = x
    <3> TAKE x \in R
    <3> DEFINE z == Plus(x, e)
    <3>1. y[x] = gf_inv(z) /\ z \in Units
      BY <2>7
    <3>2. Plus(Plus(Plus(gf_sqr(gf_sqr(z)), gf_mul(a, gf_mul(z, gf_sqr(z)))),
                        gf_mul(bz, gf_sqr(z))), dz) = Zero
      BY <2>4
    <3>3. Plus(z, e) = x
      BY Zenon DEF Plus
    <3> HIDE DEF z, y
    <3>4. gf_inv(z) \in AffineRoots(A, B, C)
      BY <1>1, <2>3, <2>6, <3>1, <3>2, QuarticTurned
    <3>5. gf_inv(z) \in Units /\ gf_inv(gf_inv(z)) = z
      BY <3>1, InverseFacts
    <3> QED
      BY <3>1, <3>3, <3>4, <3>5
  <2>9. \A x \in R : \A x2 \in R : y[x] = y[x2] => x = x2
    <3> HIDE DEF y, A, B, C
    <3> QED
      BY <2>8
  <2>10. A \in Elements /\ B \in Elements /\ C \in Elements
    BY <1>1, <2>3, <2>6, DivFacts, InverseFacts, UnitLog
  <2> HIDE DEF y, A, B, C
  <2>11. Cardinality(Y) = 4
    <3> DEFINE h == [i \in Y |-> i]
               g == [x \in R |-> h[y[x]]]
    <3>1. \A x \in R : g[x] = h[y[x]]
      OBVIOUS
    <3> HIDE DEF g, h
    <3> QED
      BY <1>2, <2>9, <3>1, SumMapped
  <2>12. Y \subseteq AffineRoots(A, B, C)
    BY <2>8
  <2>13. ys = Y
    <3> HIDE DEF Y
    <3>1. find_affine4_roots(A, B, C) = Y
      BY <2>10, <2>11, <2>12, AffineSolved
    <3> QED
      BY <3>1 DEF A, B, C
  <2>14. {Plus(gf_inv(v), e) : v \in Y} = R
    <3>1. \A x \in R : y[x] \in Y /\ Plus(gf_inv(y[x]), e) = x
      BY <2>8
    <3>2. \A v \in Y : \E x \in R : v = y[x]
      OBVIOUS
    <3> HIDE DEF Y
    <3> QED
      BY <3>1, <3>2
  <2>15. find_poly_deg4_roots(p) = Locations(R)
    <3> HIDE DEF Y, ys
    <3> QED
      BY <1>3, <1>5, <2>5, <2>13, <2>14
  <2> QED
    BY <1>2, <2>15, LocationsList DEF R
<1> QED
  BY <1>4, <1>5
=============================================================================
