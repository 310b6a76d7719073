------------------------------- MODULE BchCode -------------------------------
(***************************************************************************)
(* The binary BCH encoder and decoder of main/reconcile/bch.c.             *)
(*                                                                         *)
(* An element of GF(2^M) is the set of its set bits, so that addition is   *)
(* symmetric difference; a polynomial over GF(2) is the set of the degrees *)
(* of its terms; a polynomial over GF(2^M) is the sequence of its          *)
(* coefficients, the last of which may be zero, as in the code.  Data is   *)
(* the set of the bits that are 1, bit 8i+j being bit j of byte i.         *)
(***************************************************************************)
EXTENDS Integers, FiniteSets, Sequences, FiniteSetsExt, SequencesExt

CONSTANTS
  M, T,     \* field order and correction capability (BCH_M = 8, BCH_T = 20)
  PrimPoly, \* the default primitive polynomial of degree M (prim_poly_tab)
  Bytes     \* data bytes of a block (BCH_DATA_BYTES = 14)

N == 2^M - 1

\* What bch_init accepts.
ASSUME BchAssumption ==
  /\ M \in 5..15 /\ T \in 1..64 /\ M * T < N
  /\ PrimPoly \subseteq 0..M /\ {0, M} \subseteq PrimPoly
  /\ Bytes \in Nat

-----------------------------------------------------------------------------
\* The field

Elements == SUBSET (0 .. M-1)

Zero == {}
One == {0}

Plus(a, b) == (a \ b) \cup (b \ a)

\* The sum of the values of f: what an odd number of them have.
Total(f) ==
  {i \in UNION {f[x] : x \in DOMAIN f} : Cardinality({x \in DOMAIN f : i \in f[x]}) % 2 = 1}

mod_s(v) == IF v < N THEN v ELSE v - N

\* X p(X) mod g(X) over GF(2), where d is the degree of g and that of p is less.
TimesX(p, g, d) ==
  LET x == {j + 1 : j \in p} IN IF d \in x THEN Plus(x, g) ELSE x

\* X^n p(X) mod g(X).
Shifted(p, n, g, d) ==
  LET s[i \in 0..n] == IF i = 0 THEN p ELSE TimesX(s[i-1], g, d) IN s[n]

\* The powers of a: X^i modulo the primitive polynomial, M of them at a time.
a_pow_tab ==
  LET leap[p \in Elements] == Shifted(p, M, PrimPoly, M)
      row[q \in 0 .. N \div M] == IF q = 0 THEN One ELSE leap[row[q-1]]
  IN  [i \in 0..N |-> IF i = N THEN One ELSE Shifted(row[i \div M], i % M, PrimPoly, M)]

\* build_gf_tables refuses a polynomial that is not primitive.
ASSUME PrimitiveAssumption == \A i \in 1 .. N-1 : a_pow_tab[i] # One

\* The logarithm of zero is 0, and the code does come to use it.
a_log_tab ==
  [x \in Elements |-> IF x = Zero THEN 0 ELSE CHOOSE i \in 0 .. N-1 : a_pow_tab[i] = x]

a_log(x) == a_log_tab[x]
a_pow(i) == a_pow_tab[i % N]

gf_mul(a, b) == IF a = Zero \/ b = Zero THEN Zero ELSE a_pow_tab[mod_s(a_log(a) + a_log(b))]
gf_sqr(a)    == IF a = Zero THEN Zero ELSE a_pow_tab[mod_s(2 * a_log(a))]
gf_div(a, b) == IF a = Zero THEN Zero ELSE a_pow_tab[mod_s(a_log(a) + N - a_log(b))]
gf_inv(a)    == a_pow_tab[N - a_log(a)]
a_ilog(x)    == mod_s(N - a_log(x))

-----------------------------------------------------------------------------
\* Polynomials over the field

Polynomials == Seq(Elements) \ {<<>>}

\* The one of degree d (or less, when c[d] is zero) with coefficients c.
Poly(d, c) == SubSeq([i \in 1 .. d+1 |-> c[i-1]], 1, d+1)

Deg(p) == Len(p) - 1
Coef(p, j) == IF j \in 0 .. Deg(p) THEN p[j+1] ELSE Zero
Constant(c) == <<c>>

\* p without its zero leading coefficients.
Trimmed(p) == SubSeq(p, 1, Max({1} \cup {i \in DOMAIN p : p[i] # Zero}))

-----------------------------------------------------------------------------
\* The code

\* The logs of the roots of g: those of a, a^3, .. a^(2T-1), each with its
\* conjugates, and those that come before in this order.
Root(i, j) == ((2 * i + 1) * 2^j) % N
Before(i, j) ==
  {Root(h, l) : h \in 0 .. i-1, l \in 0 .. M-1} \cup {Root(i, l) : l \in 0 .. j-1}

\* g(X) (X + a^r), with coefficients in the field.
Factor(g, r) ==
  Poly(Deg(g) + 1, [j \in 0 .. Deg(g) + 1 |->
                      Plus(gf_mul(Coef(g, j), a_pow_tab[r]), Coef(g, j - 1))])

\* g(X) times the factors of a^(2i+1) and its conjugates, those of earlier roots
\* left out.
Class(g, i) ==
  LET part[j \in 0..M] == IF j = 0 THEN g
                          ELSE IF Root(i, j-1) \in Before(i, j-1) THEN part[j-1]
                          ELSE Factor(part[j-1], Root(i, j-1))
  IN  part[M]

\* The product of the first n classes of conjugates.  The code takes the factors
\* in the order of their logs.
Product(n) ==
  LET times == [i \in 0 .. n-1 |-> [g \in Polynomials |-> Class(g, i)]]
      prod[i \in 0..n] == IF i = 0 THEN Constant(One) ELSE times[i-1][prod[i-1]]
  IN  prod[n]

\* Mutant: the last class is left out of the generator.
generator_short == Product(T - 1)

\* g(X)
generator == Product(T)

\* Its degree: at most M*T, and less when T is large.
ecc_bits == Deg(generator)

\* Its binary representation.
genpoly == {j \in 0 .. ecc_bits : Coef(generator, j) # Zero}

\* X^(ecc_bits + b) mod g(X): the table has the sums of these for each byte.
mod8_tab == [b \in 0..7 |-> Shifted({ecc_bits - 1}, b + 1, genpoly, ecc_bits)]

\* Bits of a codeword.  Data and parity go out byte by byte, the most
\* significant bit of each first: the last bit has degree 0.
nbits == 8 * Bytes + ecc_bits

\* Mutant: locations are left counted from the other end of each byte.
BitKept(p) == p

BitReversed(p) == p - (p % 8) + (7 - (p % 8))

\* What is looked up in the table for byte n: it and the top of the parity r.
Leaving(data, r, n) ==
  Plus({j - (ecc_bits - 8) : j \in {j \in r : j >= ecc_bits - 8}},
       {b \in 0..7 : 8 * n + b \in data})

\* The parity of data, data(X) * X^ecc_bits mod g(X), a byte at a time: the
\* parity so far moves up by 8, and what leaves it comes back through the table.
bch_encode(data) ==
  LET Step(r, n) ==
        Plus({j + 8 : j \in {j \in r : j < ecc_bits - 8}},
             Total([b \in Leaving(data, r, n) |-> mod8_tab[b]]))
      parity[n \in 0..Bytes] == IF n = 0 THEN Zero ELSE Step(parity[n-1], n - 1)
  IN  parity[Bytes]

-----------------------------------------------------------------------------
\* Syndromes and error locator polynomial

\* v(a^j), j \in 1..2T, of a parity polynomial: the even ones by squaring.
compute_syndromes(v) ==
  LET syn[j \in 1 .. 2 * T] ==
        IF j % 2 = 0 THEN gf_sqr(syn[j \div 2]) ELSE Total([i \in v |-> a_pow(j * i)])
  IN  SubSeq(syn, 1, 2 * T)

\* One round of the simplified binary Berlekamp-Massey algorithm.  s holds the
\* locator elp with its discrepancy d, and the locator pelp before the degree
\* last grew, with its discrepancy pd, found in round pp/2.
Round(syn, s, i) ==
  LET k     == 2 * i - s.pp
      scale == gf_div(s.d, s.pd)
      grown == Deg(s.pelp) + k
      top   == IF grown > Deg(s.elp) THEN grown ELSE Deg(s.elp)
      elp   == IF s.d = Zero THEN s.elp
               ELSE Poly(top, [j \in 0..top |->
                      Plus(Coef(s.elp, j), gf_mul(scale, Coef(s.pelp, j - k)))])
      d     == IF i = T - 1 THEN s.d
               ELSE Total([j \in 0 .. Deg(elp) |-> gf_mul(Coef(elp, j), syn[2 * i + 3 - j])])
  IN  IF Deg(s.elp) > T THEN s
      ELSE IF s.d # Zero /\ grown > Deg(s.elp)
        THEN [elp |-> elp, d |-> d, pelp |-> s.elp, pd |-> s.d, pp |-> 2 * i]
        ELSE [s EXCEPT !.elp = elp, !.d = d]

\* The first n rounds.
Rounds(syn, n) ==
  LET s[i \in 0..n] ==
        IF i = 0 THEN [elp |-> Constant(One), d |-> syn[1],
                       pelp |-> Constant(One), pd |-> One, pp |-> -1]
        ELSE Round(syn, s[i-1], i - 1)
  IN  s[n]

\* Mutant: one round too few (i < t - 1).
compute_error_locator_polynomial_short(syn) == Rounds(syn, T - 1).elp

compute_error_locator_polynomial(syn) == Rounds(syn, T).elp

\* Mutant: a locator polynomial of any degree is taken.
TooManyNever(elp) == FALSE

\* No locator polynomial: more than T errors.
TooMany(elp) == Deg(elp) > T

-----------------------------------------------------------------------------
\* Roots of polynomials of degree 1 to 4, each given as the log of its inverse

\* The smallest power of a with trace 1, and the solutions of
\* x^2 + x = a^i + Tr(a^i) a^k.
Trace(i) == Total([j \in 0 .. M-1 |-> a_pow(i * 2^j)])
a_k == a_pow_tab[Min({i \in 0 .. M-1 : Trace(i) # Zero})]
Base(i) ==
  {x \in Elements : Plus(gf_sqr(x), x) \in {a_pow_tab[i], Plus(a_pow_tab[i], a_k)}}
xi_tab == [i \in 0 .. M-1 |-> CHOOSE x \in Base(i) : TRUE]

\* build_deg2_base fails when a solution is missing.
ASSUME BaseAssumption == \A i \in 0 .. M-1 : Base(i) # {}

find_poly_deg1_roots(p) ==
  IF Coef(p, 0) = Zero THEN <<>>
  ELSE <<mod_s(N - a_log(Coef(p, 0)) + a_log(Coef(p, 1)))>>

\* With z = a/bX, a X^2 + b X + c becomes z^2 + z + u.
find_poly_deg2_roots(p) ==
  LET l1 == a_log(Coef(p, 1))
      l2 == a_log(Coef(p, 2))
      u  == a_pow(a_log(Coef(p, 0)) + l2 + 2 * (N - l1))
      r  == Total([i \in u |-> xi_tab[i]])
      Loc(z) == (2 * N - l1 - a_log(z) + l2) % N
  IN  IF Coef(p, 0) = Zero \/ Coef(p, 1) = Zero \/ Plus(gf_sqr(r), r) # u THEN <<>>
      ELSE <<Loc(r), Loc(Plus(r, One))>>

\* The roots of X^4 + aX^2 + bX + c, which is affine over GF(2), when the
\* linear system has the four solutions asked for; none otherwise.
find_affine4_roots(a, b, c) ==
  LET roots == {x \in Elements :
                  Plus(gf_sqr(gf_sqr(x)), gf_mul(a, gf_sqr(x))) = Plus(gf_mul(b, x), c)}
  IN  IF Cardinality(roots) = 4 THEN roots ELSE {}

Locations(roots) == SetToSeq({a_ilog(x) : x \in roots})

\* Multiplied by X + a2, the monic polynomial is affine.
find_poly_deg3_roots(p) ==
  LET c2 == gf_div(Coef(p, 0), Coef(p, 3))
      b2 == gf_div(Coef(p, 1), Coef(p, 3))
      a2 == gf_div(Coef(p, 2), Coef(p, 3))
      roots == find_affine4_roots(Plus(gf_sqr(a2), b2), Plus(gf_mul(a2, b2), c2),
                                  gf_mul(a2, c2))
  IN  IF Coef(p, 0) = Zero THEN <<>> ELSE Locations(roots \ {a2})

\* A monic X^4 + bX^2 + cX + d is affine.  With a term aX^3, z = X + e with
\* a e^2 = c drops the linear term, and Y = 1/z gives an affine polynomial.
find_poly_deg4_roots(p) ==
  LET d == gf_div(Coef(p, 0), Coef(p, 4))
      c == gf_div(Coef(p, 1), Coef(p, 4))
      b == gf_div(Coef(p, 2), Coef(p, 4))
      a == gf_div(Coef(p, 3), Coef(p, 4))
      f == gf_div(c, a)
      l == a_log(f)
      e == IF c = Zero THEN Zero ELSE a_pow((l + (l % 2) * N) \div 2)
      dz == Plus(gf_sqr(f), Plus(gf_mul(b, f), d))
      bz == Plus(gf_mul(a, e), b)
      ys == find_affine4_roots(gf_div(bz, dz), gf_div(a, dz), gf_inv(dz))
  IN  IF Coef(p, 0) = Zero THEN <<>>
      ELSE IF a = Zero THEN Locations(find_affine4_roots(b, c, d))
      ELSE IF dz = Zero THEN <<>>
      ELSE Locations({Plus(gf_inv(y), e) : y \in ys})

-----------------------------------------------------------------------------
\* Polynomials of higher degree: the Berlekamp trace algorithm

\* a after its long division by b: the remainder below the degree of b, the
\* quotient of a by the monic multiple of b from there on.
Divided(a, b) ==
  LET d == Deg(b)
      Step(p, j) == Poly(Deg(a), [i \in 0 .. Deg(a) |->
        IF i \in j - d .. j - 1
          THEN Plus(Coef(p, i), gf_mul(Coef(p, j), gf_div(Coef(b, i - j + d), Coef(b, d))))
          ELSE Coef(p, i)])
      part[n \in 0 .. Deg(a) - d + 1] ==
        IF n = 0 THEN a ELSE Step(part[n-1], Deg(a) + 1 - n)
  IN  part[Deg(a) - d + 1]

gf_poly_mod(a, b) ==
  IF Deg(a) < Deg(b) THEN a ELSE Trimmed(SubSeq(Divided(a, b), 1, Deg(b)))

gf_poly_div(a, b) == SubSeq(Divided(a, b), Deg(b) + 1, Deg(a) + 1)

\* The last divisor that is not a constant, whether its division leaves nothing
\* or a constant: a common divisor of a and b only in the first case.
\* The degree of the divisor falls in every round.
gf_poly_gcd(a, b) ==
  LET hi == IF Deg(a) < Deg(b) THEN b ELSE a
      lo == IF Deg(a) < Deg(b) THEN a ELSE b
      pair[n \in 0 .. Deg(lo)] ==
        IF n = 0 THEN <<hi, lo>>
        ELSE LET q == pair[n-1]
             IN  IF Deg(q[2]) = 0 THEN q ELSE <<q[2], gf_poly_mod(q[1], q[2])>>
  IN  pair[Deg(lo)][1]

\* Tr(a^k X) mod f: the sum of M conjugates, each the square of the one before.
compute_trace_bk_mod(k, f) ==
  LET Square(z) == gf_poly_mod(Poly(2 * Deg(z), [j \in 0 .. 2 * Deg(z) |->
                     IF j % 2 = 0 THEN gf_sqr(Coef(z, j \div 2)) ELSE Zero]), f)
      Add(p, q) == LET top == IF Deg(p) > Deg(q) THEN Deg(p) ELSE Deg(q)
                   IN  Poly(top, [j \in 0..top |-> Plus(Coef(p, j), Coef(q, j))])
      sum[i \in 0..M] ==
        IF i = 0 THEN [z |-> <<Zero, a_pow_tab[k]>>, out |-> Constant(Zero)]
        ELSE LET s == sum[i-1] IN [z |-> Square(s.z), out |-> Add(s.out, s.z)]
  IN  Trimmed(sum[M].out)

\* f, or two factors found with the trace of a^k X.
factor_polynomial(k, f) ==
  LET tk == compute_trace_bk_mod(k, f)
      g  == gf_poly_gcd(f, tk)
  IN  IF Deg(tk) > 0 /\ Deg(g) < Deg(f) THEN <<g, gf_poly_div(f, g)>> ELSE <<f>>

\* The roots of q when n more splits are allowed: k = M + 1 - n in the code.
\* Roots beyond a split are looked up in h.
Found(n, h, q) ==
  LET Both(fs) == h[fs[1]] \o (IF Len(fs) = 2 THEN h[fs[2]] ELSE <<>>)
  IN  CASE Deg(q) = 1 -> find_poly_deg1_roots(q)
        [] Deg(q) = 2 -> find_poly_deg2_roots(q)
        [] Deg(q) = 3 -> find_poly_deg3_roots(q)
        [] Deg(q) = 4 -> find_poly_deg4_roots(q)
        [] Deg(q) = 0 \/ (Deg(q) > 4 /\ n = 0) -> <<>>
        [] OTHER -> Both(factor_polynomial(M + 1 - n, q))

Roots[n \in 0..M] == [q \in Polynomials |-> Found(n, Roots[n-1], q)]

find_poly_roots(p) == Roots[M][p]

-----------------------------------------------------------------------------
Refused(locs) == [nerr |-> -1, errloc |-> locs]

\* The place that the j-th root stands for.  The loop that converts them stops at
\* the first that is no bit of the codeword.
Placed(roots, j) ==
  IF \E k \in 1..j : roots[k] >= nbits THEN roots[j] ELSE BitReversed(nbits - 1 - roots[j])

\* The roots found are all there should be, and bits of the codeword.
Located(elp, roots) ==
  IF Len(roots) # Deg(elp) THEN Refused(roots)
  ELSE [nerr |-> IF \E j \in DOMAIN roots : roots[j] >= nbits THEN -1 ELSE Len(roots),
        errloc |-> [j \in DOMAIN roots |-> Placed(roots, j)]]

\* What a locator polynomial gives.
Sought(elp) ==
  IF TooMany(elp) THEN Refused(<<>>) ELSE Located(elp, find_poly_roots(elp))

\* The number of errors in data and its received parity, or -1, and what errloc
\* holds on return: their places if there is a number.
bch_decode(data, recv_ecc) ==
  LET Answer(ecc) ==
        IF 8 * Bytes > N - ecc_bits THEN Refused(<<>>)
        ELSE IF ecc = Zero THEN [nerr |-> 0, errloc |-> <<>>]
        ELSE Sought(compute_error_locator_polynomial(compute_syndromes(ecc)))
  IN  Answer(Plus(bch_encode(data), recv_ecc))
=============================================================================
