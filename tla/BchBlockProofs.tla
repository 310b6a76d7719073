----------------------------- MODULE BchBlockProofs -----------------------------
(***************************************************************************)
(* What puf_reconcile.c may rely on when it corrects a block, for every    *)
(* code that bch_init accepts and every response: bch_decode writes no     *)
(* more than T locations, no more than T bits of the data change, data     *)
(* other than the enrolled one has a codeword 2T+1 bits away, the locator  *)
(* polynomial of a response within T bits has the errors as roots, all of  *)
(* them are found, and the block ends as the data of that codeword.  On    *)
(* the way: long division leaves the remainder, Euclid's algorithm ends    *)
(* with the common roots, and the traces split what is above degree 4.     *)
(* CodecAsAssumed, last, is what FuzzyExtractor assumes of all this.       *)
(***************************************************************************)
EXTENDS BchBlock, BchCodeProofs

\* The bits flipped so far, together with those still to be flipped.
Flips ==
  /\ errloc \in Seq(Nat)
  /\ Cardinality(Plus(data_buf, r_block)) + Len(errloc) <= T
  /\ pc = "decode" => data_buf = r_block

Inv == TypeOK /\ Flips

Data == SUBSET (0 .. 8 * Bytes - 1)

LEMMA DataPlus ==
  ASSUME NEW a \in Data, NEW b \in Data
  PROVE  /\ Plus(a, b) \in Data /\ IsFiniteSet(Plus(a, b))
         /\ Cardinality(Plus(a, b)) \in Nat
<1>1. Plus(a, b) \in Data
  BY DEF Data, Plus
<1>2. 8 * Bytes - 1 \in Int
  BY Sizes
<1>3. IsFiniteSet(0 .. 8 * Bytes - 1)
  BY <1>2, FS_Interval
<1> QED
  BY <1>1, <1>3, FS_Subset, FS_CardinalityType DEF Data

LEMMA PlusSelf == \A a : Plus(a, a) = {}
BY DEF Plus

LEMMA InitInv == Init => Inv
<1> SUFFICES ASSUME Init PROVE Inv
  OBVIOUS
<1>1. T \in Nat
  BY Sizes
<1>2. TypeOK
  BY <1>1 DEF Init, TypeOK, Zero
<1>3. Cardinality(Plus(data_buf, r_block)) = 0
  BY PlusSelf, FS_EmptySet DEF Init
<1>4. errloc \in Seq(Nat) /\ Len(errloc) = 0 /\ pc # "decode"
  BY EmptySeq DEF Init
<1> QED
  BY <1>1, <1>2, <1>3, <1>4 DEF Inv, Flips

\* Flipping one more location costs at most one flip.
LEMMA OneFlip ==
  ASSUME NEW d \in Data, NEW r \in Data, NEW h \in 0 .. 8 * Bytes - 1
  PROVE  /\ Plus(d, {h}) \in Data
         /\ Cardinality(Plus(Plus(d, {h}), r)) <= Cardinality(Plus(d, r)) + 1
<1> DEFINE s == Plus(d, r)
<1>1. s \in Data /\ IsFiniteSet(s) /\ Cardinality(s) \in Nat
  BY DataPlus
<1>2. Plus(d, {h}) \in Data
  BY DataPlus DEF Data
<1> DEFINE u == Plus(Plus(d, {h}), r)
<1>3. u = IF h \in s THEN s \ {h} ELSE s \cup {h}
  BY Zenon DEF Plus
<1> HIDE DEF s, u
<1>4. Cardinality(u) <= Cardinality(s) + 1
  <2>1. CASE h \in s
    <3>1. Cardinality(u) = Cardinality(s) - 1
      BY <1>1, <1>3, <2>1, FS_RemoveElement
    <3> QED
      BY <1>1, <3>1
  <2>2. CASE h \notin s
    <3>1. Cardinality(u) = Cardinality(s) + 1
      BY <1>1, <1>3, <2>2, FS_AddElement
    <3> QED
      BY <1>1, <3>1
  <2> QED
    BY <2>1, <2>2
<1> QED
  BY <1>2, <1>4 DEF s, u

LEMMA NextInv == Inv /\ [Next]_vars => Inv'
<1> SUFFICES ASSUME Inv, [Next]_vars PROVE Inv'
  OBVIOUS
<1>1. T \in Nat /\ 8 * Bytes - 1 \in Int
  BY Sizes
<1>2. TypeOK /\ Flips
  BY DEF Inv
<1>3. /\ stored_ecc \in Below(ecc_bits) /\ r_block \in Data /\ data_buf \in Data
      /\ errloc \in Seq(Nat)
      /\ Cardinality(Plus(data_buf, r_block)) + Len(errloc) <= T
  BY <1>2 DEF TypeOK, Flips, Below, Data
<1>4. Len(errloc) \in Nat /\ Cardinality(Plus(data_buf, r_block)) \in Nat
  BY <1>3, LenProperties, DataPlus
<1>5. CASE Enroll
  <2>1. PICK w \in Words : enrolled' = w /\ stored_ecc' = bch_encode(w)
    BY <1>5 DEF Enroll
  <2>2. stored_ecc' \in Below(ecc_bits)
    BY <2>1, EncodeType
  <2>3. /\ pc' = "capture" /\ r_block' = r_block /\ data_buf' = data_buf /\ nerr' = nerr
        /\ errloc' = errloc
    BY <1>5 DEF Enroll
  <2>4. TypeOK'
    BY <1>2, <2>1, <2>2, <2>3 DEF TypeOK, Below
  <2>5. Flips'
    BY <1>2, <2>3 DEF Flips
  <2> QED
    BY <2>4, <2>5 DEF Inv
<1>6. CASE Capture
  <2>1. PICK noise \in Noises : r_block' = Plus(enrolled, noise)
    BY <1>6 DEF Capture
  <2>2. /\ data_buf' = r_block' /\ nerr' = 0 /\ errloc' = <<>> /\ pc' = "decode"
        /\ enrolled' = enrolled /\ stored_ecc' = stored_ecc
    BY <1>6 DEF Capture
  <2>3. enrolled \in Data /\ noise \in Data
    BY <1>2, BlockAssumption DEF TypeOK, Data
  <2>4. r_block' \in Data
    BY <2>1, <2>3, DataPlus
  <2>5. <<>> \in Seq(Nat) /\ Len(<<>>) = 0
    BY EmptySeq
  <2>6. TypeOK'
    BY <1>1, <1>2, <2>2, <2>4 DEF TypeOK, Data
  <2>7. Cardinality(Plus(data_buf', r_block')) = 0
    BY <2>2, PlusSelf, FS_EmptySet
  <2>8. Flips'
    BY <1>1, <2>2, <2>5, <2>7 DEF Flips
  <2> QED
    BY <2>6, <2>8 DEF Inv
<1>7. CASE Decode
  <2> DEFINE res == bch_decode(data_buf, stored_ecc)
  <2>1. /\ nerr' = res.nerr /\ errloc' = res.errloc
        /\ pc' \in {"failed", "correct"}
        /\ enrolled' = enrolled /\ stored_ecc' = stored_ecc
        /\ r_block' = r_block /\ data_buf' = data_buf
    BY <1>7 DEF Decode
  <2>2. /\ res.nerr \in -1 .. T
        /\ res.errloc \in Seq(Nat) /\ Len(res.errloc) \in 0..T
    BY <1>3, DecodeType
  <2> HIDE DEF res
  <2>3. \A j \in DOMAIN errloc' : errloc'[j] \in Nat
    BY <2>1, <2>2, LenProperties
  <2>4. TypeOK'
    BY <1>2, <2>1, <2>2, <2>3 DEF TypeOK
  <2>5. Cardinality(Plus(data_buf', r_block')) = 0
    <3>1. data_buf = r_block
      BY <1>2, <1>7 DEF Flips, Decode
    <3> QED
      BY <2>1, <3>1, PlusSelf, FS_EmptySet
  <2>6. Flips'
    BY <1>1, <2>1, <2>2, <2>5 DEF Flips
  <2> QED
    BY <2>4, <2>6 DEF Inv
<1>8. CASE Correct
  <2> DEFINE h == Head(errloc)
  <2>1. /\ errloc # <<>> /\ errloc' = Tail(errloc) /\ pc = "correct" /\ pc' = pc
        /\ data_buf' = IF h < 8 * Bytes THEN Plus(data_buf, {h}) ELSE data_buf
        /\ enrolled' = enrolled /\ stored_ecc' = stored_ecc /\ r_block' = r_block
        /\ nerr' = nerr
    BY <1>8 DEF Correct
  <2>2. /\ h \in Nat /\ Tail(errloc) \in Seq(Nat) /\ Len(Tail(errloc)) = Len(errloc) - 1
    BY <1>3, <2>1, HeadTailProperties
  <2> HIDE DEF h
  <2>3. /\ data_buf' \in Data
        /\ Cardinality(Plus(data_buf', r_block)) <= Cardinality(Plus(data_buf, r_block)) + 1
    <3>1. CASE h < 8 * Bytes
      <4>1. h \in 0 .. 8 * Bytes - 1
        BY <1>1, <2>2, <3>1, Sizes
      <4> QED
        BY <1>3, <2>1, <3>1, <4>1, OneFlip
    <3>2. CASE ~ (h < 8 * Bytes)
      BY <1>3, <1>4, <2>1, <3>2
    <3> QED
      BY <3>1, <3>2
  <2>4. Cardinality(Plus(data_buf', r_block')) + Len(errloc') <= T
    <3>1. Cardinality(Plus(data_buf', r_block)) \in Nat
      BY <1>3, <2>3, DataPlus
    <3> QED
      BY <1>1, <1>3, <1>4, <2>1, <2>2, <2>3, <3>1
  <2>5. \A j \in DOMAIN errloc' : errloc'[j] \in Nat
    BY <2>1, <2>2, LenProperties
  <2>6. TypeOK'
    BY <1>2, <2>1, <2>3, <2>5 DEF TypeOK, Data
  <2>7. Flips'
    BY <2>1, <2>2, <2>4 DEF Flips
  <2> QED
    BY <2>6, <2>7 DEF Inv
<1>9. CASE Finish
  <2>1. /\ pc' = "done" /\ enrolled' = enrolled /\ stored_ecc' = stored_ecc
        /\ r_block' = r_block /\ data_buf' = data_buf /\ nerr' = nerr /\ errloc' = errloc
    BY <1>9 DEF Finish
  <2> QED
    BY <1>2, <2>1 DEF Inv, TypeOK, Flips
<1>10. CASE UNCHANGED vars
  BY <1>2, <1>10 DEF Inv, TypeOK, Flips, vars
<1> QED
  BY <1>5, <1>6, <1>7, <1>8, <1>9, <1>10 DEF Next

LEMMA InvBounds == Inv => AtMostTFlips
<1> SUFFICES ASSUME Inv PROVE AtMostTFlips
  OBVIOUS
<1>1. /\ r_block \in Data /\ data_buf \in Data /\ errloc \in Seq(Nat)
      /\ Cardinality(Plus(data_buf, r_block)) + Len(errloc) <= T
  BY DEF Inv, TypeOK, Flips, Data
<1>2. Len(errloc) \in Nat /\ Cardinality(Plus(data_buf, r_block)) \in Nat
  BY <1>1, LenProperties, DataPlus
<1> QED
  BY <1>1, <1>2, Sizes DEF AtMostTFlips

\* The variables of a block keep their types: in particular the data stays
\* within data_buf and every location that bch_decode leaves in errloc is a bit
\* number, which the roots of the locator polynomial are because every nonzero
\* element of the field is a power of a (puf_reconcile.c:112-152).
THEOREM TypeCorrect == Spec => []TypeOK
<1>1. Inv => TypeOK
  BY DEF Inv
<1> QED
  BY InitInv, NextInv, <1>1, PTL DEF Spec

\* No more locations than errloc[BCH_T] holds are ever written or left to do,
\* and no more than T bits of the response are changed, whatever the response:
\* the root finders return at most as many roots as the degree of their
\* polynomial (bch.c:576-931), and a locator of a degree above T is refused
\* (bch.c:459).
THEOREM FlipsBounded == Spec => []AtMostTFlips
BY InitInv, NextInv, InvBounds, PTL DEF Spec

LEMMA PlusTriangle ==
  ASSUME NEW d \in Nat, NEW x \in Below(d), NEW y \in Below(d), NEW z \in Below(d)
  PROVE  /\ Cardinality(Plus(x, y)) \in Nat /\ Cardinality(Plus(x, z)) \in Nat
         /\ Cardinality(Plus(y, z)) \in Nat
         /\ Cardinality(Plus(y, z)) <= Cardinality(Plus(x, y)) + Cardinality(Plus(x, z))
<1> DEFINE p == Plus(x, y)
           q == Plus(x, z)
           s == Plus(y, z)
<1>1. p \in Below(d) /\ q \in Below(d) /\ s \in Below(d)
  BY BelowPlus
<1>2. s \subseteq p \cup q
  BY Zenon DEF Plus
<1> HIDE DEF p, q, s
<1>3. IsFiniteSet(p) /\ IsFiniteSet(q) /\ IsFiniteSet(s) /\ IsFiniteSet(p \cup q)
  <2>1. IsFiniteSet(p) /\ IsFiniteSet(q) /\ IsFiniteSet(s)
    BY <1>1, BelowFinite DEF Binary
  <2> QED
    BY <2>1, FS_Union
<1>4. Cardinality(s) <= Cardinality(p \cup q)
  BY <1>2, <1>3, FS_Subset
<1>5. Cardinality(p \cup q) = Cardinality(p) + Cardinality(q) - Cardinality(p \cap q)
  BY <1>3, FS_Union
<1>6. /\ Cardinality(p) \in Nat /\ Cardinality(q) \in Nat /\ Cardinality(s) \in Nat
      /\ IsFiniteSet(p \cap q)
  BY <1>3, FS_CardinalityType, FS_Intersection
<1>7. Cardinality(p \cap q) \in Nat
  BY <1>6, FS_CardinalityType
<1>8. Cardinality(s) <= Cardinality(p) + Cardinality(q)
  BY <1>4, <1>5, <1>6, <1>7
<1> QED
  BY <1>6, <1>8 DEF p, q, s

-----------------------------------------------------------------------------
\* The parity kept is that of the data enrolled.
Stored == pc # "enroll" => stored_ecc = bch_encode(enrolled)

LEMMA InitStored == Init => Stored
BY DEF Init, Stored

LEMMA NextStored == Stored /\ [Next]_vars => Stored'
<1> SUFFICES ASSUME Stored, [Next]_vars PROVE Stored'
  OBVIOUS
<1>1. CASE Enroll
  <2>1. PICK w \in Words : enrolled' = w /\ stored_ecc' = bch_encode(w)
    BY <1>1 DEF Enroll
  <2> QED
    BY <2>1 DEF Stored
<1>2. CASE Capture \/ Decode \/ Correct \/ Finish \/ UNCHANGED vars
  <2>1. enrolled' = enrolled /\ stored_ecc' = stored_ecc /\ (pc' # "enroll" => pc # "enroll")
    BY <1>2 DEF Capture, Decode, Correct, Finish, vars
  <2> QED
    BY <2>1 DEF Stored
<1> QED
  BY <1>1, <1>2 DEF Next

\* What bch_decode requires of the sizes before it looks at anything (bch.c:1020):
\* the codeword has no more bits than there are logarithms.
Fits == 8 * Bytes + ecc_bits <= N

LEMMA StoredDistance == Fits /\ Inv /\ Stored => MinimumDistance
<1> SUFFICES ASSUME Fits, Inv, Stored, pc # "enroll", data_buf # enrolled
             PROVE  Cardinality(Plus(data_buf, enrolled))
                      + Cardinality(Plus(bch_encode(data_buf), stored_ecc)) >= 2 * T + 1
  BY DEF MinimumDistance
<1>1. data_buf \in Below(8 * Bytes) /\ enrolled \in Below(8 * Bytes)
  BY BlockAssumption DEF Inv, TypeOK, Below
<1>2. stored_ecc = bch_encode(enrolled)
  BY DEF Stored
<1> QED
  BY <1>1, <1>2, CodewordDistance DEF Fits

\* Whatever is enrolled and whatever the noise, data that differs from the
\* enrolled data has a codeword at least 2T+1 bits away from the enrolled one,
\* for every code that bch_init accepts and blocks that bch_decode does not
\* refuse for their size: a response can lie within T bits of one codeword only.
\* It rests on the powers of a at which the generator of bch.c:1190-1252
\* vanishes, and on the encoder's table and loop (bch.c:130-283, 1105-1134).
THEOREM DistanceKept == ASSUME Fits PROVE Spec => []MinimumDistance
<1>1. Inv /\ Stored => MinimumDistance
  BY StoredDistance
<1> QED
  BY InitInv, NextInv, InitStored, NextStored, <1>1, PTL DEF Spec

\* At most one word has its codeword within T bits of a response and a parity:
\* what NearestCodeword asks of bch_decode (bch.c:1010-1071) is never two
\* different answers.
THEOREM OneNearest ==
  ASSUME Fits, NEW r \in Below(8 * Bytes), NEW ecc \in Below(ecc_bits),
         NEW u \in Below(8 * Bytes), NEW w \in Below(8 * Bytes),
         Cardinality(Plus(r, u)) + Cardinality(Plus(ecc, bch_encode(u))) <= T,
         Cardinality(Plus(r, w)) + Cardinality(Plus(ecc, bch_encode(w))) <= T
  PROVE  u = w
<1> SUFFICES ASSUME u # w PROVE FALSE
  OBVIOUS
<1>1. Cardinality(Plus(u, w)) + Cardinality(Plus(bch_encode(u), bch_encode(w))) >= 2 * T + 1
  BY CodewordDistance DEF Fits
<1> DEFINE eu == bch_encode(u)
           ew == bch_encode(w)
<1>2. eu \in Below(ecc_bits) /\ ew \in Below(ecc_bits)
  BY EncodeType
<1>3. 8 * Bytes \in Nat /\ ecc_bits \in Nat /\ T \in Nat
  BY Sizes, GeneratorReducing DEF Reducing
<1>4. /\ Cardinality(Plus(r, u)) \in Nat /\ Cardinality(Plus(r, w)) \in Nat
      /\ Cardinality(Plus(u, w)) \in Nat
      /\ Cardinality(Plus(u, w)) <= Cardinality(Plus(r, u)) + Cardinality(Plus(r, w))
  BY <1>3, PlusTriangle
<1>5. /\ Cardinality(Plus(ecc, eu)) \in Nat /\ Cardinality(Plus(ecc, ew)) \in Nat
      /\ Cardinality(Plus(eu, ew)) \in Nat
      /\ Cardinality(Plus(eu, ew)) <= Cardinality(Plus(ecc, eu)) + Cardinality(Plus(ecc, ew))
  BY <1>2, <1>3, PlusTriangle
<1> QED
  BY <1>1, <1>3, <1>4, <1>5

-----------------------------------------------------------------------------
\* The errors located

\* The degree of the bit of data that errloc names.
LEMMA PositionReversed ==
  ASSUME NEW m \in Nat
  PROVE  /\ BitReversed(m) \in Nat
         /\ Position(Bytes, BitReversed(m)) = nbits - 1 - m
<1> DEFINE u == m \div 8
           v == m % 8
           j == BitReversed(m)
<1>1. Bytes \in Nat /\ ecc_bits \in Nat
  BY Sizes, GeneratorReducing DEF Reducing
<1>2. u \in Nat /\ v \in 0..7 /\ m = 8 * u + v
  OBVIOUS
<1>3. j = m - v + (7 - v)
  BY DEF BitReversed
<1> HIDE DEF u, v, j
<1>4. j = 8 * u + (7 - v) /\ j \in Nat
  BY <1>2, <1>3
<1>5. j \div 8 = u /\ j % 8 = 7 - v
  BY <1>2, <1>4
<1>6. Position(Bytes, j) = ecc_bits + 8 * (Bytes - 1) - 8 * u + (7 - v)
  BY <1>5 DEF Position
<1>7. Position(Bytes, j) = nbits - 1 - m
  BY <1>1, <1>2, <1>6 DEF nbits
<1> QED
  BY <1>4, <1>7 DEF j

\* The degrees of the bits in which r and the parity ecc differ from the codeword
\* of w, as errloc names them.
ErrorPlaces(r, ecc, w) ==
  {i \in 0 .. nbits - 1 : IF i < ecc_bits THEN i \in Plus(ecc, bch_encode(w))
                          ELSE BitReversed(nbits - 1 - i) \in Plus(r, w)}

\* The bits in error, as bch_decode counts them and as their degrees.
LEMMA SameErrors ==
  ASSUME Fits, NEW r \in Below(8 * Bytes), NEW ecc \in Below(ecc_bits),
         NEW w \in Below(8 * Bytes)
  PROVE  ErrorPlaces(r, ecc, w) = Errors(r, ecc, w)
<1> DEFINE p == Plus(ecc, bch_encode(w))
           x == Plus(r, w)
           d == ecc_bits
           n == 8 * Bytes
           e == ErrorPlaces(r, ecc, w)
           c == Errors(r, ecc, w)
           q == Places(x, Bytes)
<1>1. d \in Nat /\ n \in Nat /\ Bytes \in Nat /\ nbits = n + d
  BY Sizes, GeneratorReducing DEF Reducing, nbits
<1>2. p \in Below(d) /\ x \in Below(n)
  BY EncodeType, BelowPlus
<1>3. c = p \cup q /\ Early(x, Bytes) = x /\ q \subseteq d .. d + n - 1
  BY <1>2, JoinedSize DEF Errors, Fits
<1>4. \A i \in 0 .. nbits - 1 :
        i \in e <=> IF i < d THEN i \in p ELSE BitReversed(nbits - 1 - i) \in x
  BY DEF ErrorPlaces
<1>5. e \subseteq 0 .. nbits - 1
  BY DEF ErrorPlaces
<1>6. \A i \in p : i \in 0 .. d-1
  BY <1>2 DEF Below
<1>7. \A j \in x : j \in Nat /\ j < 8 * Bytes
  BY <1>2, <1>3 DEF Early, Below
<1>8. \A i \in q : \E j \in x : i = Position(Bytes, j)
  BY <1>3 DEF Places
<1>9. \A j \in x : Position(Bytes, j) \in q
  BY <1>3 DEF Places
<1> HIDE DEF e, c, p, q, x, d, n
<1>10. \A i \in e : i \in c
  <2> TAKE i \in e
  <2>1. i \in 0 .. nbits - 1
    BY <1>5
  <2>2. CASE i < d
    BY <1>3, <1>4, <2>1, <2>2
  <2>3. CASE ~ (i < d)
    <3> DEFINE m == nbits - 1 - i
    <3>1. m \in Nat /\ i = nbits - 1 - m
      BY <1>1, <2>1
    <3>2. BitReversed(m) \in x
      BY <1>4, <2>1, <2>3
    <3> HIDE DEF m
    <3>3. Position(Bytes, BitReversed(m)) = i
      BY <3>1, PositionReversed
    <3> QED
      BY <1>3, <1>9, <3>2, <3>3
  <2> QED
    BY <2>2, <2>3
<1>11. \A i \in c : i \in e
  <2> TAKE i \in c
  <2>1. CASE i \in p
    <3>1. i \in 0 .. nbits - 1 /\ i < d
      BY <1>1, <1>6, <2>1
    <3> QED
      BY <1>4, <2>1, <3>1
  <2>2. CASE i \in q
    <3>1. PICK j \in x : i = Position(Bytes, j)
      BY <1>8, <2>2
    <3>2. i \in 0 .. nbits - 1 /\ ~ (i < d)
      BY <1>1, <1>3, <2>2
    <3>3. BitReversed(nbits - 1 - i) = j
      BY <1>7, <3>1, ReversedPosition
    <3> QED
      BY <1>4, <3>1, <3>2, <3>3
  <2> QED
    BY <1>3, <2>1, <2>2
<1> QED
  BY <1>10, <1>11 DEF e, c

LEMMA LocatedByRoots ==
  ASSUME NEW p \in Polynomials
  PROVE  LocatedBy[p] = {i \in Logs : Eval(p, N - i) = Zero}
<1>1. \A i \in Logs :
        Total([j \in 0 .. Deg(p) |-> gf_mul(Coef(p, j), a_pow((N - i) * j))]) = Eval(p, N - i)
  <2> TAKE i \in Logs
  <2> DEFINE S == Span(0, Deg(p))
             f == Summands(p, N - i)
  <2>1. S = 0 .. Deg(p) /\ \A j \in S : j \in Nat
    BY PolynomialType DEF Span
  <2>2. \A j \in S : f[j] = gf_mul(Coef(p, j), a_pow((N - i) * j))
    BY <2>1 DEF Summands
  <2> HIDE DEF S, f
  <2>3. [j \in S |-> gf_mul(Coef(p, j), a_pow((N - i) * j))] = [j \in S |-> f[j]]
    BY <2>2
  <2>4. Eval(p, N - i) = SumOf(S, f)
    BY DEF Eval, S, f
  <2> QED
    BY <2>1, <2>3, <2>4 DEF SumOf
<1> QED
  BY <1>1 DEF LocatedBy, Logs

LEMMA LocatorFound == Fits /\ Inv => LocatorExact
<1> SUFFICES ASSUME Fits, Inv, pc = "decode", NEW w \in Words,
                    Distance(w, Parities[w]) <= T
             PROVE  LET elp == compute_error_locator_polynomial(
                                 compute_syndromes(Plus(bch_encode(data_buf), stored_ecc)))
                    IN  /\ Deg(elp) = Distance(w, Parities[w])
                        /\ LocatedBy[elp] = ErrorDegrees(w, Parities[w])
  BY DEF LocatorExact, Locates
<1> DEFINE p == compute_error_locator_polynomial(
                  compute_syndromes(Plus(bch_encode(r_block), stored_ecc)))
           c == Errors(r_block, stored_ecc, w)
<1>1. Parities[w] = bch_encode(w)
  BY DEF Parities
<1>2. data_buf = r_block
  BY DEF Inv, Flips
<1>3. r_block \in Below(8 * Bytes) /\ w \in Below(8 * Bytes) /\ stored_ecc \in Below(ecc_bits)
  BY BlockAssumption DEF Inv, TypeOK, Below
<1>4. Cardinality(Plus(r_block, w)) + Cardinality(Plus(stored_ecc, bch_encode(w))) <= T
  BY <1>1 DEF Distance
<1>5. /\ c \in SUBSET Logs /\ Cardinality(c) = Distance(w, Parities[w])
      /\ p \in Polynomials /\ Deg(p) = Cardinality(c)
      /\ \A i \in Logs : Eval(p, N - i) = Zero <=> i \in c
  BY <1>1, <1>3, <1>4, LocatorOfErrors DEF Fits, Distance
<1>6. ErrorDegrees(w, Parities[w]) = c
  BY <1>1, <1>3, SameErrors DEF ErrorDegrees, ErrorPlaces
<1> HIDE DEF p, c
<1>7. LocatedBy[p] = c
  <2>1. LocatedBy[p] = {i \in Logs : Eval(p, N - i) = Zero}
    BY <1>5, LocatedByRoots
  <2> QED
    BY <1>5, <2>1
<1> QED
  BY <1>2, <1>5, <1>6, <1>7 DEF p

\* Whatever is enrolled and whatever the noise, a codeword within T bits of the
\* response and the parity kept has its locator polynomial found, for every code
\* that bch_init accepts and blocks that bch_decode does not refuse for their
\* size: T rounds of Berlekamp and Massey on the syndromes (bch.c:371-461) give
\* one root for each bit in error, and no other.
THEOREM ErrorsLocated == ASSUME Fits PROVE Spec => []LocatorExact
<1>1. Inv => LocatorExact
  BY LocatorFound
<1> QED
  BY InitInv, NextInv, <1>1, PTL DEF Spec

-----------------------------------------------------------------------------
\* Sums and multiples of polynomials

\* The sum may be taken further than the degree.
LEMMA EvalWide ==
  ASSUME NEW p \in Polynomials, NEW d \in Nat, Deg(p) <= d, NEW r \in Nat
  PROVE  SumOf(Span(0, d), Summands(p, r)) = Eval(p, r)
<1> DEFINE S == Span(0, Deg(p))
           C == Span(0, d)
           f == Summands(p, r)
<1>1. Deg(p) \in Nat
  BY PolynomialType
<1>2. S \in SUBSET C /\ \A j \in C : j \in Nat /\ (j \notin S => j > Deg(p))
  BY <1>1 DEF Span
<1>3. IsFiniteSet(C)
  BY SpanFinite
<1>4. \A j \in C \ S : f[j] = {}
  <2> TAKE j \in C \ S
  <2>1. j \in Nat /\ j > Deg(p)
    BY <1>2
  <2>2. Coef(p, j) = Zero
    BY <2>1, CoefOutside
  <2>3. f[j] = gf_mul(Coef(p, j), a_pow(r * j)) /\ a_pow(r * j) \in Elements
    BY <2>1, SummandElement
  <2> QED
    BY <2>2, <2>3, MulZeroOne DEF Zero
<1> HIDE DEF S, C, f
<1>5. SumOf(C, f) = SumOf(S, f)
  BY <1>2, <1>3, <1>4, SumWithin
<1> QED
  BY <1>5 DEF Eval, S, C, f

\* p(X) + c X^k q(X)
LEMMA ShiftedEval ==
  ASSUME NEW p \in Polynomials, NEW q \in Polynomials, NEW w \in Polynomials,
         NEW c \in Elements, NEW k \in Nat,
         \A j \in Int : Coef(w, j) = Plus(Coef(p, j), gf_mul(c, Coef(q, j - k))),
         NEW r \in Nat
  PROVE  Eval(w, r) = Plus(Eval(p, r), gf_mul(gf_mul(c, a_pow(r * k)), Eval(q, r)))
<1> DEFINE d == Deg(p) + Deg(q) + Deg(w) + k
           C == Span(0, d)
           e == d - k
           B == Span(0, e)
           D == Span(k, d)
           f == Summands(p, r)
           g == Summands(q, r)
           h == Summands(w, r)
           ck == gf_mul(c, a_pow(r * k))
           u == [j \in Nat |-> gf_mul(gf_mul(c, Coef(q, j - k)), a_pow(r * j))]
           v == [j \in B |-> gf_mul(ck, g[j])]
           m == [j \in B |-> j + k]
<1>1. /\ Deg(p) \in Nat /\ Deg(q) \in Nat /\ Deg(w) \in Nat
  BY PolynomialType
<1>2. /\ d \in Nat /\ e \in Nat /\ Deg(p) <= d /\ Deg(w) <= d /\ Deg(q) <= e /\ e = d - k
      /\ r * k \in Nat
  BY <1>1
<1>3. ck \in Elements /\ a_pow(r * k) \in Elements
  <2>1. a_pow(r * k) \in Elements
    BY <1>2, PowUnit
  <2> QED
    BY <2>1, FieldOps
<1> HIDE DEF d, e
<1>4. SumOf(C, f) = Eval(p, r) /\ SumOf(C, h) = Eval(w, r) /\ SumOf(B, g) = Eval(q, r)
  BY <1>2, EvalWide
<1>5. IsFiniteSet(C) /\ IsFiniteSet(B) /\ (\A j \in C : j \in Nat /\ j <= d)
      /\ (\A j \in B : j \in Nat /\ j <= e)
  BY <1>2, SpanFinite
<1>6. \A j \in B : g[j] \in Elements /\ v[j] = gf_mul(ck, g[j])
  BY <1>5, SummandElement
<1>7. \A j \in B : v[j] = u[m[j]] /\ m[j] = j + k
  <2> TAKE j \in B
  <2>1. j \in Nat /\ m[j] = j + k /\ j + k \in Nat /\ (j + k) - k = j
    BY <1>5
  <2>2. g[j] = gf_mul(Coef(q, j), a_pow(r * j)) /\ Coef(q, j) \in Elements /\ a_pow(r * j) \in Elements
    BY <2>1, SummandElement
  <2>3. u[j + k] = gf_mul(gf_mul(c, Coef(q, j)), a_pow(r * (j + k)))
    BY <2>1
  <2>4. r * j \in Nat /\ r * (j + k) = r * k + r * j
    BY <1>2, <2>1
  <2>5. gf_mul(a_pow(r * k), a_pow(r * j)) = a_pow(r * (j + k))
    BY <1>2, <2>4, PowAdd
  <2> DEFINE A == a_pow(r * k)
             E == a_pow(r * j)
             F == Coef(q, j)
  <2>6. A \in Elements /\ E \in Elements /\ F \in Elements
    BY <1>3, <2>2
  <2>7. gf_mul(ck, gf_mul(F, E)) = gf_mul(gf_mul(c, F), gf_mul(A, E))
    <3> HIDE DEF A, E, F
    <3>1. gf_mul(c, A) \in Elements /\ gf_mul(F, E) \in Elements /\ gf_mul(A, E) \in Elements
          /\ gf_mul(A, F) \in Elements
      BY <2>6, FieldOps
    <3>2. gf_mul(gf_mul(c, A), gf_mul(F, E)) = gf_mul(c, gf_mul(A, gf_mul(F, E)))
      BY <2>6, <3>1, MulAssociates
    <3>3. gf_mul(A, gf_mul(F, E)) = gf_mul(gf_mul(A, F), E)
      BY <2>6, MulAssociates
    <3>4. gf_mul(A, F) = gf_mul(F, A)
      BY <2>6, MulCommutes
    <3>5. gf_mul(F, gf_mul(A, E)) = gf_mul(gf_mul(F, A), E)
      BY <2>6, MulAssociates
    <3>6. gf_mul(c, gf_mul(F, gf_mul(A, E))) = gf_mul(gf_mul(c, F), gf_mul(A, E))
      BY <2>6, <3>1, MulAssociates
    <3>7. ck = gf_mul(c, A)
      BY DEF A
    <3> QED
      BY <3>2, <3>3, <3>4, <3>5, <3>6, <3>7
  <2>8. v[j] = gf_mul(ck, g[j])
    BY <1>6
  <2> HIDE DEF u, v, ck
  <2> QED
    BY <2>1, <2>2, <2>3, <2>5, <2>7, <2>8
<1>8. \A j \in C : h[j] = Plus(f[j], u[j])
  <2> TAKE j \in C
  <2>1. j \in Nat
    BY <1>5
  <2>2. h[j] = gf_mul(Coef(w, j), a_pow(r * j)) /\ a_pow(r * j) \in Elements
    BY <2>1, SummandElement
  <2>3. f[j] = gf_mul(Coef(p, j), a_pow(r * j)) /\ Coef(p, j) \in Elements
    BY <2>1, SummandElement
  <2>4. gf_mul(c, Coef(q, j - k)) \in Elements
    BY CoefElement, FieldOps
  <2>5. gf_mul(Plus(Coef(p, j), gf_mul(c, Coef(q, j - k))), a_pow(r * j))
          = Plus(gf_mul(Coef(p, j), a_pow(r * j)),
                 gf_mul(gf_mul(c, Coef(q, j - k)), a_pow(r * j)))
    BY <2>2, <2>3, <2>4, MulSum
  <2>6. u[j] = gf_mul(gf_mul(c, Coef(q, j - k)), a_pow(r * j))
    BY <2>1
  <2>7. Coef(w, j) = Plus(Coef(p, j), gf_mul(c, Coef(q, j - k)))
    BY <2>1
  <2> QED
    BY <2>2, <2>3, <2>5, <2>6, <2>7
<1>9. D \in SUBSET C /\ \A j \in C \ D : j \in Nat /\ j - k < 0 /\ j - k \in Int
  BY <1>2 DEF C, D, Span
<1>10. \A j \in C \ D : u[j] = {}
  <2> TAKE j \in C \ D
  <2>1. j \in Nat /\ j - k < 0 /\ j - k \in Int
    BY <1>9
  <2>2. Coef(q, j - k) = Zero
    BY <2>1, CoefOutside
  <2>3. gf_mul(c, Zero) = Zero
    BY MulZeroOne
  <2>4. a_pow(r * j) \in Elements
    BY <2>1, SummandElement
  <2>5. gf_mul(Zero, a_pow(r * j)) = Zero
    BY <2>4, MulZeroOne
  <2>6. u[j] = gf_mul(gf_mul(c, Coef(q, j - k)), a_pow(r * j))
    BY <2>1
  <2> QED
    BY <2>2, <2>3, <2>5, <2>6 DEF Zero
<1>11. D = {m[j] : j \in B} /\ \A i \in B : \A j \in B : m[i] = m[j] => i = j
  <2>1. \A j \in D : j - k \in B /\ m[j - k] = j
    BY <1>2 DEF B, D, Span
  <2>2. \A j \in B : m[j] \in D
    BY <1>2 DEF B, D, Span
  <2>3. \A i \in B : \A j \in B : m[i] = m[j] => i = j
    BY <1>5
  <2> HIDE DEF B, D, m
  <2> QED
    BY <2>1, <2>2, <2>3
<1> HIDE DEF C, B, D, f, g, h, u, v, m, ck
<1>12. SumOf(C, h) = Plus(SumOf(C, f), SumOf(C, u))
  <2> DEFINE s == [j \in C |-> Plus(f[j], u[j])]
  <2>1. SumOf(C, s) = Plus(SumOf(C, f), SumOf(C, u))
    BY <1>5, SumPlus
  <2>2. \A j \in C : h[j] = s[j]
    BY <1>8
  <2> HIDE DEF s
  <2>3. SumOf(C, h) = SumOf(C, s)
    BY <2>2, SumSame
  <2> QED
    BY <2>1, <2>3
<1>13. SumOf(C, u) = SumOf(D, u)
  BY <1>5, <1>9, <1>10, SumWithin
<1>14. SumOf(D, u) = SumOf(B, v)
  BY <1>5, <1>7, <1>11, SumMapped
<1>15. gf_mul(ck, SumOf(B, g)) = SumOf(B, v)
  BY <1>3, <1>5, <1>6, ScaledSumTo
<1> QED
  BY <1>4, <1>12, <1>13, <1>14, <1>15 DEF ck

\* All the coefficients of a polynomial built from them.
LEMMA PolyCoefs ==
  ASSUME NEW d \in Nat, NEW c, \A j \in 0..d : c[j] \in Elements
  PROVE  /\ Poly(d, c) \in Polynomials /\ Deg(Poly(d, c)) = d
         /\ \A j \in Int : Coef(Poly(d, c), j) = IF j \in 0..d THEN c[j] ELSE Zero
<1>1. /\ Poly(d, c) \in Polynomials /\ Deg(Poly(d, c)) = d
      /\ \A j \in 0..d : Coef(Poly(d, c), j) = c[j]
  BY PolyType
<1>2. \A j \in Int : j \notin 0..d => Coef(Poly(d, c), j) = Zero
  BY <1>1 DEF Coef
<1> QED
  BY <1>1, <1>2

\* The monic multiple of b by which the code divides.
Normal(b) == Poly(Deg(b), [i \in 0 .. Deg(b) |-> gf_div(Coef(b, i), Coef(b, Deg(b)))])

LEMMA NormalCoef ==
  ASSUME NEW b \in Polynomials, Coef(b, Deg(b)) # Zero
  PROVE  /\ Normal(b) \in Polynomials /\ Deg(Normal(b)) = Deg(b) /\ Deg(b) \in Nat
         /\ Coef(b, Deg(b)) \in Units
         /\ \A i \in 0 .. Deg(b) : Coef(Normal(b), i) = gf_div(Coef(b, i), Coef(b, Deg(b)))
         /\ Coef(Normal(b), Deg(b)) = One
         /\ \A i \in Int : Coef(b, i) = gf_mul(Coef(b, Deg(b)), Coef(Normal(b), i))
<1> DEFINE d == Deg(b)
           l == Coef(b, d)
           c == [i \in 0..d |-> gf_div(Coef(b, i), l)]
<1>1. d \in Nat /\ l \in Elements /\ l \in Units
  BY PolynomialType, CoefElement DEF Units
<1>2. \A i \in 0..d : c[i] = gf_div(Coef(b, i), l) /\ c[i] \in Elements
                      /\ gf_mul(l, c[i]) = Coef(b, i)
  BY <1>1, CoefElement, DivFacts
<1>3. Normal(b) = Poly(d, c)
  BY DEF Normal
<1>a. \A i \in Int : i \notin 0..d => Coef(b, i) = Zero
  BY <1>1, CoefOutside
<1>b. gf_mul(l, One) = l /\ One \in Elements /\ gf_mul(l, Zero) = Zero
  BY <1>1, OneElement, MulZeroOne, MulCommutes
<1> HIDE DEF c, d, l
<1>4. /\ Poly(d, c) \in Polynomials /\ Deg(Poly(d, c)) = d
      /\ \A j \in Int : Coef(Poly(d, c), j) = IF j \in 0..d THEN c[j] ELSE Zero
  BY <1>1, <1>2, PolyCoefs
<1>5. c[d] = One
  <2>1. d \in 0..d
    BY <1>1
  <2>2. c[d] = gf_div(Coef(b, d), l) /\ l = Coef(b, d)
    BY <1>2, <2>1 DEF l
  <2> QED
    BY <1>1, <1>b, <2>2, DivFacts
<1>6. \A i \in Int : Coef(b, i) = gf_mul(l, Coef(Normal(b), i))
  BY <1>2, <1>3, <1>4, <1>a, <1>b
<1>7. Coef(Normal(b), d) = One
  BY <1>1, <1>3, <1>4, <1>5
<1>8. \A i \in 0..d : Coef(Normal(b), i) = gf_div(Coef(b, i), l)
  BY <1>1, <1>2, <1>3, <1>4
<1> QED
  BY <1>1, <1>3, <1>4, <1>6, <1>7, <1>8 DEF d, l

\* The zero polynomial.
LEMMA NullEval ==
  /\ Constant(Zero) \in Polynomials /\ Deg(Constant(Zero)) = 0
  /\ \A j \in Int : Coef(Constant(Zero), j) = Zero
  /\ \A r \in Nat : Eval(Constant(Zero), r) = Zero
<1>1. Constant(Zero) \in Polynomials /\ Deg(Constant(Zero)) = 0 /\ Coef(Constant(Zero), 0) = Zero
  BY OneElement, ConstantType
<1>2. \A j \in Int : Coef(Constant(Zero), j) = Zero
  BY <1>1 DEF Coef
<1> QED
  BY <1>1, <1>2, ConstantEval

\* c p(X)
LEMMA ScaledEval ==
  ASSUME NEW p \in Polynomials, NEW w \in Polynomials, NEW c \in Elements,
         \A j \in Int : Coef(w, j) = gf_mul(c, Coef(p, j)), NEW r \in Nat
  PROVE  Eval(w, r) = gf_mul(c, Eval(p, r))
<1> DEFINE z == Constant(Zero)
<1>1. z \in Polynomials /\ \A j \in Int : Coef(z, j) = Zero
  BY NullEval
<1>2. Eval(z, r) = Zero
  BY NullEval
<1> HIDE DEF z
<1>3. \A j \in Int : Coef(w, j) = Plus(Coef(z, j), gf_mul(c, Coef(p, j - 0)))
  <2> TAKE j \in Int
  <2>1. j - 0 = j /\ Coef(z, j) = Zero
    BY <1>1
  <2> QED
    BY <2>1, PlusZero
<1>4. Eval(w, r) = Plus(Eval(z, r), gf_mul(gf_mul(c, a_pow(r * 0)), Eval(p, r)))
  <2>1. 0 \in Nat
    OBVIOUS
  <2> QED
    BY <1>1, <1>3, <2>1, ShiftedEval
<1>5. r * 0 = 0
  OBVIOUS
<1>6. gf_mul(c, One) = c
  BY OneElement, MulZeroOne, MulCommutes
<1> QED
  BY <1>2, <1>4, <1>5, <1>6, PowZero, PlusZero

LEMMA AddedEval ==
  ASSUME NEW p \in Polynomials, NEW q \in Polynomials
  PROVE  /\ Added(p, q) \in Polynomials
         /\ Deg(Added(p, q)) = IF Deg(p) > Deg(q) THEN Deg(p) ELSE Deg(q)
         /\ \A j \in Int : Coef(Added(p, q), j) = Plus(Coef(p, j), Coef(q, j))
         /\ \A r \in Nat : Eval(Added(p, q), r) = Plus(Eval(p, r), Eval(q, r))
<1> DEFINE top == IF Deg(p) > Deg(q) THEN Deg(p) ELSE Deg(q)
           c == [j \in 0..top |-> Plus(Coef(p, j), Coef(q, j))]
           w == Added(p, q)
<1>1. Deg(p) \in Nat /\ Deg(q) \in Nat
  BY PolynomialType
<1>2. top \in Nat /\ Deg(p) <= top /\ Deg(q) <= top
  BY <1>1
<1>3. \A j \in 0..top : c[j] = Plus(Coef(p, j), Coef(q, j)) /\ c[j] \in Elements
  BY CoefElement, PlusElement
<1>4. w = Poly(top, c)
  BY DEF Added
<1>5. \A j \in Int : j \notin 0..top => Coef(p, j) = Zero /\ Coef(q, j) = Zero
  BY <1>1, <1>2, CoefOutside
<1> HIDE DEF c
<1>t. top = IF Deg(p) > Deg(q) THEN Deg(p) ELSE Deg(q)
  OBVIOUS
<1> HIDE DEF top
<1>6. /\ Poly(top, c) \in Polynomials /\ Deg(Poly(top, c)) = top
      /\ \A j \in Int : Coef(Poly(top, c), j) = IF j \in 0..top THEN c[j] ELSE Zero
  BY <1>2, <1>3, PolyCoefs
<1>7. \A j \in Int : Coef(w, j) = Plus(Coef(p, j), Coef(q, j))
  <2> TAKE j \in Int
  <2>1. CASE j \in 0..top
    BY <1>3, <1>4, <1>6, <2>1
  <2>2. CASE j \notin 0..top
    <3>1. Coef(w, j) = Zero /\ Coef(p, j) = Zero /\ Coef(q, j) = Zero
      BY <1>4, <1>5, <1>6, <2>2
    <3> QED
      BY <3>1, PlusZero
  <2> QED
    BY <2>1, <2>2
<1>8. w \in Polynomials
  BY <1>4, <1>6
<1> HIDE DEF w
<1>9. \A r \in Nat : Eval(w, r) = Plus(Eval(p, r), Eval(q, r))
  <2> TAKE r \in Nat
  <2>1. \A j \in Int : Coef(w, j) = Plus(Coef(p, j), gf_mul(One, Coef(q, j - 0)))
    <3> TAKE j \in Int
    <3>1. j - 0 = j
      OBVIOUS
    <3>2. gf_mul(One, Coef(q, j)) = Coef(q, j)
      BY CoefElement, MulZeroOne
    <3> QED
      BY <1>7, <3>1, <3>2
  <2>2. Eval(w, r) = Plus(Eval(p, r), gf_mul(gf_mul(One, a_pow(r * 0)), Eval(q, r)))
    <3>1. 0 \in Nat
      OBVIOUS
    <3> QED
      BY <1>8, <2>1, <3>1, OneElement, ShiftedEval
  <2>3. r * 0 = 0
    OBVIOUS
  <2>4. gf_mul(One, One) = One
    BY OneElement, MulZeroOne
  <2>5. gf_mul(One, Eval(q, r)) = Eval(q, r)
    BY EvalElement, MulZeroOne
  <2> QED
    BY <2>2, <2>3, <2>4, <2>5, PowZero
<1> QED
  BY <1>4, <1>6, <1>7, <1>8, <1>9, <1>t DEF w

-----------------------------------------------------------------------------
\* Division

\* Where a division stands when the terms above j are done: what is left of the
\* dividend, and the quotient so far.
Rest(p, n, j) == Poly(n, [i \in 0..n |-> IF i <= j THEN Coef(p, i) ELSE Zero])
Whole(p, n, d, j) == Poly(n, [i \in 0..n |-> IF i + d > j THEN Coef(p, i + d) ELSE Zero])

LEMMA RestWhole ==
  ASSUME NEW n \in Nat, NEW p \in OfDegree(n), NEW d \in Nat, NEW j \in Int, j >= d - 1
  PROVE  /\ Rest(p, n, j) \in Polynomials /\ Whole(p, n, d, j) \in Polynomials
         /\ \A i \in Int : Coef(Rest(p, n, j), i) = IF i <= j THEN Coef(p, i) ELSE Zero
         /\ \A i \in Int : Coef(Whole(p, n, d, j), i) = IF i + d > j THEN Coef(p, i + d) ELSE Zero
<1> DEFINE c == [i \in 0..n |-> IF i <= j THEN Coef(p, i) ELSE Zero]
           e == [i \in 0..n |-> IF i + d > j THEN Coef(p, i + d) ELSE Zero]
<1>1. p \in Polynomials /\ Deg(p) = n
  BY DEF OfDegree
<1>2. \A i \in 0..n : c[i] \in Elements /\ c[i] = IF i <= j THEN Coef(p, i) ELSE Zero
  BY <1>1, CoefElement, OneElement
<1>3. \A i \in 0..n : e[i] \in Elements /\ e[i] = IF i + d > j THEN Coef(p, i + d) ELSE Zero
  BY <1>1, CoefElement, OneElement
<1>4. Rest(p, n, j) = Poly(n, c) /\ Whole(p, n, d, j) = Poly(n, e)
  BY DEF Rest, Whole
<1>5. \A i \in Int : i < 0 \/ i > n => Coef(p, i) = Zero
  BY <1>1, CoefOutside
<1> HIDE DEF c, e
<1>6. /\ Poly(n, c) \in Polynomials
      /\ \A i \in Int : Coef(Poly(n, c), i) = IF i \in 0..n THEN c[i] ELSE Zero
  BY <1>2, PolyCoefs
<1>7. /\ Poly(n, e) \in Polynomials
      /\ \A i \in Int : Coef(Poly(n, e), i) = IF i \in 0..n THEN e[i] ELSE Zero
  BY <1>3, PolyCoefs
<1>8. \A i \in Int : Coef(Poly(n, c), i) = IF i <= j THEN Coef(p, i) ELSE Zero
  <2> TAKE i \in Int
  <2>1. CASE i \in 0..n
    BY <1>2, <1>6, <2>1
  <2>2. CASE i \notin 0..n
    BY <1>5, <1>6, <2>2
  <2> QED
    BY <2>1, <2>2
<1>9. \A i \in Int : Coef(Poly(n, e), i) = IF i + d > j THEN Coef(p, i + d) ELSE Zero
  <2> TAKE i \in Int
  <2>1. CASE i \in 0..n
    BY <1>3, <1>7, <2>1
  <2>2. CASE i < 0
    <3>1. i + d <= j \/ i + d = j + 0 \/ ~ (i + d > j)
      BY <2>2
    <3> QED
      BY <1>7, <2>2, <3>1
  <2>3. CASE i > n
    <3>1. i + d \in Int /\ i + d > n
      BY <2>3
    <3>2. Coef(p, i + d) = Zero
      BY <1>5, <3>1
    <3> QED
      BY <1>7, <2>3, <3>2
  <2> QED
    BY <2>1, <2>2, <2>3
<1> QED
  BY <1>4, <1>6, <1>7, <1>8, <1>9

LEMMA ReducedCoef ==
  ASSUME NEW a \in Polynomials, NEW b \in Polynomials, Coef(b, Deg(b)) # Zero,
         NEW p \in OfDegree(Deg(a)), NEW m \in Deg(b) .. Deg(a)
  PROVE  LET w == Reduced(a, b, p, m)
         IN  /\ w \in OfDegree(Deg(a))
             /\ \A i \in m - Deg(b) .. m - 1 :
                  Coef(w, i) = Plus(Coef(p, i),
                                    gf_mul(Coef(p, m), Coef(Normal(b), i - (m - Deg(b)))))
             /\ \A i \in Int : i < m - Deg(b) \/ i >= m => Coef(w, i) = Coef(p, i)
<1> DEFINE n == Deg(a)
           d == Deg(b)
           nb == Normal(b)
           c == [i \in 0..n |->
                   IF i \in m - d .. m - 1
                   THEN Plus(Coef(p, i), gf_mul(Coef(p, m), gf_div(Coef(b, i - m + d), Coef(b, d))))
                   ELSE Coef(p, i)]
           w == Reduced(a, b, p, m)
<1>1. n \in Nat /\ d \in Nat /\ m \in Nat /\ d <= m /\ m <= n
  BY PolynomialType
<1>2. p \in Polynomials /\ Deg(p) = n
  BY DEF OfDegree
<1>3. nb \in Polynomials /\ \A i \in 0..d : Coef(nb, i) = gf_div(Coef(b, i), Coef(b, d))
  BY NormalCoef
<1>4. w = Poly(n, c)
  BY DEF Reduced
<1>5. \A i \in m - d .. m - 1 :
        c[i] = Plus(Coef(p, i), gf_mul(Coef(p, m), Coef(nb, i - (m - d)))) /\ i \in 0..n
  <2> TAKE i \in m - d .. m - 1
  <2>1. i \in 0..n /\ i - (m - d) \in 0..d /\ i - (m - d) = i - m + d
    BY <1>1
  <2>2. c[i] = Plus(Coef(p, i), gf_mul(Coef(p, m), gf_div(Coef(b, i - m + d), Coef(b, d))))
    BY <2>1
  <2>3. Coef(nb, i - (m - d)) = gf_div(Coef(b, i - (m - d)), Coef(b, d))
    BY <1>3, <2>1
  <2> QED
    BY <2>1, <2>2, <2>3
<1>6. \A i \in 0..n : i \notin m - d .. m - 1 => c[i] = Coef(p, i)
  OBVIOUS
<1>7. \A i \in 0..n : c[i] \in Elements
  <2> TAKE i \in 0..n
  <2>1. CASE i \in m - d .. m - 1
    BY <1>2, <1>3, <1>5, <2>1, CoefElement, FieldOps, PlusElement
  <2>2. CASE i \notin m - d .. m - 1
    BY <1>2, <1>6, <2>2, CoefElement
  <2> QED
    BY <2>1, <2>2
<1>8. \A i \in Int : i \notin 0..n => Coef(p, i) = Zero
  BY <1>1, <1>2, CoefOutside
<1>w. w = Reduced(a, b, p, m)
  OBVIOUS
<1> HIDE DEF c, w, nb
<1>9. /\ w \in Polynomials /\ Deg(w) = n
      /\ \A i \in Int : Coef(w, i) = IF i \in 0..n THEN c[i] ELSE Zero
  BY <1>1, <1>4, <1>7, PolyCoefs
<1>10. w \in OfDegree(n)
  BY <1>9 DEF OfDegree
<1>11. \A i \in m - d .. m - 1 :
         Coef(w, i) = Plus(Coef(p, i), gf_mul(Coef(p, m), Coef(nb, i - (m - d))))
  BY <1>5, <1>9
<1>12. \A i \in Int : i < m - d \/ i >= m => Coef(w, i) = Coef(p, i)
  <2> TAKE i \in Int
  <2> HAVE i < m - d \/ i >= m
  <2>1. i \notin m - d .. m - 1
    BY <1>1
  <2>2. CASE i \in 0..n
    BY <1>6, <1>9, <2>1, <2>2
  <2>3. CASE i \notin 0..n
    BY <1>8, <1>9, <2>3
  <2> QED
    BY <2>2, <2>3
<1> QED
  BY <1>10, <1>11, <1>12 DEF w, nb

\* One step of a division takes c X^k times the divisor from the dividend and adds
\* c X^k to the quotient.
LEMMA DivisionStep ==
  ASSUME NEW a \in Polynomials, NEW b \in Polynomials, Coef(b, Deg(b)) # Zero,
         NEW p \in OfDegree(Deg(a)), NEW m \in Deg(b) .. Deg(a), NEW r \in Nat
  PROVE  LET w == Reduced(a, b, p, m)
             n == Deg(a)
             d == Deg(b)
             nb == Eval(Normal(b), r)
         IN  Plus(Eval(Rest(w, n, m - 1), r), gf_mul(Eval(Whole(w, n, d, m - 1), r), nb))
               = Plus(Eval(Rest(p, n, m), r), gf_mul(Eval(Whole(p, n, d, m), r), nb))
<1> DEFINE n == Deg(a)
           d == Deg(b)
           k == m - d
           c == Coef(p, m)
           nb == Normal(b)
           w == Reduced(a, b, p, m)
           R1 == Rest(p, n, m)
           R2 == Rest(w, n, m - 1)
           W1 == Whole(p, n, d, m)
           W2 == Whole(w, n, d, m - 1)
           ck == gf_mul(c, a_pow(r * k))
<1>1. n \in Nat /\ d \in Nat /\ m \in Nat /\ d <= m /\ m <= n /\ k \in Nat /\ k = m - d /\ r * k \in Nat
  BY PolynomialType
<1>2. /\ w \in OfDegree(n)
      /\ \A i \in k .. m - 1 : Coef(w, i) = Plus(Coef(p, i), gf_mul(c, Coef(nb, i - k)))
      /\ \A i \in Int : i < k \/ i >= m => Coef(w, i) = Coef(p, i)
  BY ReducedCoef
<1>3. /\ nb \in Polynomials /\ Deg(nb) = d /\ Coef(nb, d) = One
  BY NormalCoef
<1>4. c \in Elements /\ p \in Polynomials /\ c = Coef(p, m)
  BY CoefElement DEF OfDegree
<1>5. ck \in Elements
  BY <1>1, <1>4, PowUnit, FieldOps
<1>g. gf_mul(c, Zero) = Zero /\ gf_mul(c, One) = c /\ Plus(c, c) = Zero
  BY <1>4, OneElement, MulZeroOne, MulCommutes, PlusZero
<1> HIDE DEF n, d, k, c, nb, w
<1>a. m \in Int /\ m >= d - 1 /\ m - 1 \in Int /\ m - 1 >= d - 1 /\ p \in OfDegree(n)
  BY <1>1 DEF n
<1>6. /\ R1 \in Polynomials /\ W1 \in Polynomials
      /\ \A i \in Int : Coef(R1, i) = IF i <= m THEN Coef(p, i) ELSE Zero
      /\ \A i \in Int : Coef(W1, i) = IF i + d > m THEN Coef(p, i + d) ELSE Zero
  BY <1>1, <1>a, RestWhole
<1>7. /\ R2 \in Polynomials /\ W2 \in Polynomials
      /\ \A i \in Int : Coef(R2, i) = IF i <= m - 1 THEN Coef(w, i) ELSE Zero
      /\ \A i \in Int : Coef(W2, i) = IF i + d > m - 1 THEN Coef(w, i + d) ELSE Zero
  <2> DEFINE l == m - 1
  <2>1. l \in Int /\ l >= d - 1
    BY <1>a
  <2> HIDE DEF l
  <2>2. /\ Rest(w, n, l) \in Polynomials /\ Whole(w, n, d, l) \in Polynomials
        /\ \A i \in Int : Coef(Rest(w, n, l), i) = IF i <= l THEN Coef(w, i) ELSE Zero
        /\ \A i \in Int : Coef(Whole(w, n, d, l), i) = IF i + d > l THEN Coef(w, i + d) ELSE Zero
    BY <1>1, <1>2, <2>1, RestWhole
  <2> QED
    BY <2>2 DEF l
<1> HIDE DEF R1, R2, W1, W2
<1>t. R1 \in Polynomials /\ R2 \in Polynomials /\ W1 \in Polynomials /\ W2 \in Polynomials
  BY <1>6, <1>7
<1>k. k \in Nat /\ c \in Elements /\ nb \in Polynomials
  BY <1>1, <1>3, <1>4
<1>b. \A i \in Int : i < 0 \/ i > d => Coef(nb, i) = Zero
  BY <1>3, CoefOutside
<1>8. \A i \in Int : Coef(R2, i) = Plus(Coef(R1, i), gf_mul(c, Coef(nb, i - k)))
  <2> TAKE i \in Int
  <2>0. i - k \in Int
    BY <1>1
  <2>1. CASE i < k
    <3>1. Coef(R2, i) = Coef(p, i) /\ Coef(R1, i) = Coef(p, i) /\ i - k < 0
      BY <1>1, <1>2, <1>6, <1>7, <2>1
    <3>2. Coef(nb, i - k) = Zero
      BY <1>b, <2>0, <3>1
    <3> QED
      BY <1>g, <3>1, <3>2, PlusZero
  <2>2. CASE i \in k .. m - 1
    <3>1. Coef(R2, i) = Coef(w, i) /\ Coef(R1, i) = Coef(p, i)
      BY <1>1, <1>6, <1>7, <2>2
    <3> QED
      BY <1>2, <2>2, <3>1
  <2>3. CASE i = m
    <3>1. Coef(R2, i) = Zero /\ Coef(R1, i) = c /\ i - k = d
      BY <1>1, <1>4, <1>6, <1>7, <2>3
    <3> QED
      BY <1>3, <1>g, <3>1
  <2>4. CASE i > m
    <3>1. Coef(R2, i) = Zero /\ Coef(R1, i) = Zero /\ i - k > d
      BY <1>1, <1>6, <1>7, <2>4
    <3>2. Coef(nb, i - k) = Zero
      BY <1>b, <2>0, <3>1
    <3> QED
      BY <1>g, <3>1, <3>2, PlusZero
  <2>5. i < k \/ i \in k .. m - 1 \/ i = m \/ i > m
    BY <1>1
  <2> QED
    BY <2>1, <2>2, <2>3, <2>4, <2>5
<1>9. Eval(R2, r) = Plus(Eval(R1, r), gf_mul(ck, Eval(nb, r)))
  BY <1>k, <1>t, <1>8, ShiftedEval
<1> DEFINE u == Constant(One)
<1>10. /\ u \in Polynomials /\ Deg(u) = 0 /\ Coef(u, 0) = One /\ Eval(u, r) = One
  BY OneElement, ConstantType, ConstantEval
<1>11. \A i \in Int : i # 0 => Coef(u, i) = Zero
  BY <1>10, CoefOutside
<1> HIDE DEF u
<1>12. \A i \in Int : Coef(W2, i) = Plus(Coef(W1, i), gf_mul(c, Coef(u, i - k)))
  <2> TAKE i \in Int
  <2>0. i - k \in Int /\ i + d \in Int
    BY <1>1
  <2>1. CASE i < k
    <3>1. Coef(W2, i) = Zero /\ Coef(W1, i) = Zero /\ i - k # 0
      BY <1>1, <1>6, <1>7, <2>1
    <3> QED
      BY <1>g, <1>11, <2>0, <3>1, PlusZero
  <2>2. CASE i = k
    <3>1. Coef(W2, i) = Coef(w, m) /\ Coef(W1, i) = Zero /\ i - k = 0
      BY <1>1, <1>6, <1>7, <2>2
    <3>2. Coef(w, m) = c
      BY <1>1, <1>2, <1>4
    <3> QED
      BY <1>g, <1>10, <3>1, <3>2, PlusZero
  <2>3. CASE i > k
    <3>1. Coef(W2, i) = Coef(w, i + d) /\ Coef(W1, i) = Coef(p, i + d) /\ i - k # 0 /\ i + d >= m
      BY <1>1, <1>6, <1>7, <2>3
    <3>2. Coef(w, i + d) = Coef(p, i + d)
      BY <1>2, <2>0, <3>1
    <3> QED
      BY <1>g, <1>11, <2>0, <3>1, <3>2, PlusZero
  <2> QED
    BY <1>1, <2>1, <2>2, <2>3
<1>13. Eval(W2, r) = Plus(Eval(W1, r), gf_mul(ck, Eval(u, r)))
  <2>1. u \in Polynomials
    BY <1>10
  <2>2. Eval(W2, r) = Plus(Eval(W1, r), gf_mul(ck, Eval(u, r)))
    <3>1. k \in Nat /\ c \in Elements
      BY <1>k
    <3>2. W1 \in Polynomials /\ W2 \in Polynomials
      BY <1>t
    <3>3. Eval(W2, r) = Plus(Eval(W1, r), gf_mul(gf_mul(c, a_pow(r * k)), Eval(u, r)))
      BY <2>1, <3>1, <3>2, <1>12, ShiftedEval
    <3> QED
      BY <3>3
  <2> QED
    BY <2>2
<1> DEFINE e == Eval(nb, r)
           x == Eval(R1, r)
           y == Eval(W1, r)
<1>14. e \in Elements /\ x \in Elements /\ y \in Elements
  BY <1>3, <1>6, EvalElement
<1>15. gf_mul(ck, Eval(u, r)) = ck
  BY <1>5, <1>10, OneElement, MulZeroOne, MulCommutes
<1>16. Plus(Eval(R2, r), gf_mul(Eval(W2, r), e)) = Plus(x, gf_mul(y, e))
  <2>1. Eval(R2, r) = Plus(x, gf_mul(ck, e)) /\ Eval(W2, r) = Plus(y, ck)
    BY <1>9, <1>13, <1>15
  <2> HIDE DEF ck, e, x, y
  <2>2. gf_mul(Plus(y, ck), e) = Plus(gf_mul(y, e), gf_mul(ck, e))
    BY <1>5, <1>14, MulSum
  <2> DEFINE s == gf_mul(y, e)
             t == gf_mul(ck, e)
  <2>3. Plus(Plus(x, t), Plus(s, t)) = Plus(x, s)
    <3> HIDE DEF s, t
    <3> QED
      BY Zenon DEF Plus
  <2> QED
    BY <2>1, <2>2, <2>3
<1> QED
  BY <1>16 DEF R1, R2, W1, W2, e, x, y, n, d, nb, w

\* The slices that the code takes of the array it divides in.
LEMMA Slices ==
  ASSUME NEW p \in Polynomials, NEW d \in 1 .. Deg(p)
  PROVE  /\ SubSeq(p, 1, d) \in Polynomials /\ Deg(SubSeq(p, 1, d)) = d - 1
         /\ \A i \in Int : Coef(SubSeq(p, 1, d), i) = IF i <= d - 1 THEN Coef(p, i) ELSE Zero
         /\ SubSeq(p, d + 1, Deg(p) + 1) \in Polynomials
         /\ Deg(SubSeq(p, d + 1, Deg(p) + 1)) = Deg(p) - d
         /\ \A i \in Int : Coef(SubSeq(p, d + 1, Deg(p) + 1), i)
                             = IF i + d > d - 1 THEN Coef(p, i + d) ELSE Zero
<1> DEFINE n == Deg(p)
           x == SubSeq(p, 1, d)
           y == SubSeq(p, d + 1, n + 1)
<1>1. n \in Nat /\ Len(p) = n + 1 /\ p \in Seq(Elements) /\ d \in Nat /\ d >= 1 /\ d <= n
  BY PolynomialType
<1>2. x \in Seq(Elements) /\ Len(x) = d /\ \A i \in 1..d : x[i] = p[i]
  BY <1>1
<1>3. y \in Seq(Elements) /\ Len(y) = n - d + 1 /\ \A i \in 1 .. n - d + 1 : y[i] = p[i + d]
  BY <1>1
<1> HIDE DEF x, y
<1>4. x \in Polynomials /\ Deg(x) = d - 1
  BY <1>1, <1>2 DEF Polynomials, Deg
<1>5. y \in Polynomials /\ Deg(y) = n - d
  BY <1>1, <1>3 DEF Polynomials, Deg
<1>6. \A i \in Int : Coef(x, i) = IF i <= d - 1 THEN Coef(p, i) ELSE Zero
  <2> TAKE i \in Int
  <2>1. CASE i < 0
    BY <2>1 DEF Coef
  <2>2. CASE i \in 0 .. d - 1
    <3>1. Coef(x, i) = x[i+1] /\ i + 1 \in 1..d
      BY <1>1, <1>4, <2>2 DEF Coef
    <3>2. Coef(p, i) = p[i+1]
      BY <1>1, <2>2 DEF Coef, n
    <3> QED
      BY <1>2, <2>2, <3>1, <3>2
  <2>3. CASE i > d - 1
    BY <1>1, <1>4, <2>3 DEF Coef
  <2> QED
    BY <1>1, <2>1, <2>2, <2>3
<1>7. \A i \in Int : Coef(y, i) = IF i + d > d - 1 THEN Coef(p, i + d) ELSE Zero
  <2> TAKE i \in Int
  <2>1. CASE i < 0
    BY <1>1, <2>1 DEF Coef
  <2>2. CASE i \in 0 .. n - d
    <3>1. Coef(y, i) = y[i+1] /\ i + 1 \in 1 .. n - d + 1
      BY <1>1, <1>5, <2>2 DEF Coef
    <3>2. Coef(p, i + d) = p[i+1+d]
      <4>1. i + d \in 0..n /\ (i + d) + 1 = i+1+d
        BY <1>1, <2>2
      <4> QED
        BY <4>1 DEF Coef, n
    <3>3. y[i+1] = p[i+1+d]
      BY <1>3, <3>1
    <3> QED
      BY <1>1, <2>2, <3>1, <3>2, <3>3
  <2>3. CASE i > n - d
    <3>1. i + d > n /\ i + d \in Int /\ i + d > d - 1
      BY <1>1, <2>3
    <3>2. Coef(p, i + d) = Zero
      BY <1>1, <3>1, CoefOutside
    <3>3. Coef(y, i) = Zero
      BY <1>1, <1>5, <2>3 DEF Coef
    <3> QED
      BY <3>1, <3>2, <3>3
  <2> QED
    BY <1>1, <2>1, <2>2, <2>3
<1> QED
  BY <1>4, <1>5, <1>6, <1>7 DEF x, y, n

\* Long division: the dividend is the remainder and the quotient times the monic
\* divisor, and the leading term of the quotient is that of the dividend.
LEMMA DivisionEval ==
  ASSUME NEW a \in Polynomials, NEW b \in Polynomials, Coef(b, Deg(b)) # Zero,
         Deg(b) >= 1, Deg(b) <= Deg(a)
  PROVE  /\ gf_poly_mod(a, b) \in Polynomials /\ gf_poly_div(a, b) \in Polynomials
         /\ Deg(gf_poly_div(a, b)) = Deg(a) - Deg(b)
         /\ Coef(gf_poly_div(a, b), Deg(a) - Deg(b)) = Coef(a, Deg(a))
         /\ Deg(gf_poly_mod(a, b)) < Deg(b)
         /\ Deg(gf_poly_mod(a, b)) > 0 =>
              Coef(gf_poly_mod(a, b), Deg(gf_poly_mod(a, b))) # Zero
         /\ \A r \in Nat : Eval(a, r) = Plus(Eval(gf_poly_mod(a, b), r),
                                             gf_mul(Eval(gf_poly_div(a, b), r), Eval(Normal(b), r)))
<1> DEFINE n == Deg(a)
           d == Deg(b)
           k == n - d + 1
           t == Divisions(a, b)
           w == Divided(a, b)
           R(i) == Rest(t[i], n, n - i)
           W(i) == Whole(t[i], n, d, n - i)
<1>1. n \in Nat /\ d \in Nat /\ d <= n /\ d >= 1 /\ k \in Nat /\ k = n - d + 1
  BY PolynomialType
<1>2. /\ w = t[k] /\ t[0] = a
      /\ \A i \in 1..k : t[i] = Reduced(a, b, t[i-1], n + 1 - i)
      /\ \A i \in 0..k : t[i] \in OfDegree(n)
  BY DividedTable
<1> HIDE DEF t, k
<1>3. \A i \in 0..k : n - i \in Int /\ n - i >= d - 1
  BY <1>1
<1>4. Coef(w, n) = Coef(a, n)
  <2> DEFINE I == {i \in 0..k : Coef(t[i], n) = Coef(a, n)}
  <2>1. 0 \in I
    BY <1>1, <1>2
  <2>2. \A i \in 0 .. k-1 : i \in I => i + 1 \in I
    <3> TAKE i \in 0 .. k-1
    <3> HAVE i \in I
    <3> DEFINE m == n - i
    <3>1. i + 1 \in 1..k /\ (i + 1) - 1 = i /\ n + 1 - (i + 1) = m /\ m \in d..n /\ i \in 0..k
      BY <1>1
    <3>2. t[i+1] = Reduced(a, b, t[i], m)
      BY <1>2, <3>1
    <3>3. t[i] \in OfDegree(n)
      BY <1>2, <3>1
    <3> HIDE DEF m
    <3>4. Coef(Reduced(a, b, t[i], m), n) = Coef(t[i], n)
      <4>1. \A j \in Int : j < m - d \/ j >= m => Coef(Reduced(a, b, t[i], m), j) = Coef(t[i], j)
        BY <3>1, <3>3, ReducedCoef
      <4>2. n \in Int /\ n >= m
        BY <1>1, <3>1
      <4> QED
        BY <4>1, <4>2
    <3> QED
      BY <3>1, <3>2, <3>4
  <2> HIDE DEF I
  <2>3. 0..k \subseteq I
    BY <1>1, <2>1, <2>2, Induction
  <2>4. k \in I
    BY <1>1, <2>3
  <2> QED
    BY <1>2, <2>4 DEF I
<1>5. ASSUME NEW r \in Nat
      PROVE  Plus(Eval(R(k), r), gf_mul(Eval(W(k), r), Eval(Normal(b), r))) = Eval(a, r)
  <2> DEFINE e == Eval(Normal(b), r)
             V(i) == Plus(Eval(R(i), r), gf_mul(Eval(W(i), r), e))
             I == {i \in 0..k : V(i) = Eval(a, r)}
  <2>e. e \in Elements
    BY NormalCoef, EvalElement
  <2>1. 0 \in I
    <3>1. R(0) = Rest(a, n, n) /\ W(0) = Whole(a, n, d, n)
      BY <1>1, <1>2
    <3>2. a \in OfDegree(n) /\ n \in Int /\ n >= d - 1
      BY <1>1 DEF OfDegree
    <3>3. /\ R(0) \in Polynomials /\ W(0) \in Polynomials
          /\ \A i \in Int : Coef(R(0), i) = IF i <= n THEN Coef(a, i) ELSE Zero
          /\ \A i \in Int : Coef(W(0), i) = IF i + d > n THEN Coef(a, i + d) ELSE Zero
      <4> HIDE DEF n, d
      <4>1. /\ Rest(a, n, n) \in Polynomials /\ Whole(a, n, d, n) \in Polynomials
            /\ \A i \in Int : Coef(Rest(a, n, n), i) = IF i <= n THEN Coef(a, i) ELSE Zero
            /\ \A i \in Int : Coef(Whole(a, n, d, n), i) = IF i + d > n THEN Coef(a, i + d) ELSE Zero
        BY <1>1, <3>2, RestWhole
      <4> HIDE DEF R, W
      <4> QED
        BY <3>1, <4>1
    <3>4. \A i \in Int : i > n => Coef(a, i) = Zero
      BY <1>1, CoefOutside
    <3> HIDE DEF R, W, n, d
    <3>5. \A i \in Int : Coef(R(0), i) = Coef(a, i)
      BY <1>1, <3>3, <3>4
    <3>6. \A i \in Int : Coef(W(0), i) = Coef(Constant(Zero), i)
      <4> TAKE i \in Int
      <4>1. i + d \in Int
        BY <1>1
      <4> QED
        BY <1>1, <3>3, <3>4, <4>1, NullEval
    <3>7. Eval(R(0), r) = Eval(a, r)
      BY <3>3, <3>5, SameTerms
    <3>8. Eval(W(0), r) = Zero
      BY <3>3, <3>6, NullEval, SameTerms
    <3>9. V(0) = Plus(Eval(a, r), gf_mul(Zero, e))
      BY <3>7, <3>8
    <3>10. gf_mul(Zero, e) = Zero
      BY <2>e, MulZeroOne
    <3>11. 0 \in 0..k
      BY <1>1
    <3> HIDE DEF V
    <3> QED
      BY <3>9, <3>10, <3>11, PlusZero
  <2>2. \A i \in 0 .. k-1 : i \in I => i + 1 \in I
    <3> TAKE i \in 0 .. k-1
    <3> HAVE i \in I
    <3> DEFINE m == n - i
    <3>1. i + 1 \in 1..k /\ (i + 1) - 1 = i /\ n + 1 - (i + 1) = m /\ m \in d..n /\ i \in 0..k
          /\ n - (i + 1) = m - 1 /\ i + 1 \in 0..k
      BY <1>1
    <3>2. t[i+1] = Reduced(a, b, t[i], m)
      BY <1>2, <3>1
    <3>3. t[i] \in OfDegree(n)
      BY <1>2, <3>1
    <3>4. V(i + 1) = Plus(Eval(Rest(t[i+1], n, m - 1), r),
                          gf_mul(Eval(Whole(t[i+1], n, d, m - 1), r), e))
      BY <3>1
    <3>5. V(i) = Plus(Eval(Rest(t[i], n, m), r), gf_mul(Eval(Whole(t[i], n, d, m), r), e))
      OBVIOUS
    <3>6. V(i) = Eval(a, r)
      OBVIOUS
    <3> HIDE DEF m, V
    <3>7. Plus(Eval(Rest(Reduced(a, b, t[i], m), n, m - 1), r),
               gf_mul(Eval(Whole(Reduced(a, b, t[i], m), n, d, m - 1), r), e))
            = Plus(Eval(Rest(t[i], n, m), r), gf_mul(Eval(Whole(t[i], n, d, m), r), e))
      BY <3>1, <3>3, DivisionStep
    <3>8. V(i + 1) = Eval(a, r)
      BY <3>2, <3>4, <3>5, <3>6, <3>7
    <3> QED
      BY <3>1, <3>8
  <2> HIDE DEF I
  <2>3. 0..k \subseteq I
    BY <1>1, <2>1, <2>2, Induction
  <2>4. k \in I
    BY <1>1, <2>3
  <2> QED
    BY <2>4 DEF I
<1> DEFINE x == SubSeq(w, 1, d)
           y == SubSeq(w, d + 1, n + 1)
<1>6. w \in OfDegree(n) /\ w \in Polynomials /\ Deg(w) = n /\ d \in 1..n
  BY <1>1, <1>2 DEF OfDegree
<1>7. /\ x \in Polynomials /\ Deg(x) = d - 1
      /\ \A i \in Int : Coef(x, i) = IF i <= d - 1 THEN Coef(w, i) ELSE Zero
      /\ y \in Polynomials /\ Deg(y) = n - d
      /\ \A i \in Int : Coef(y, i) = IF i + d > d - 1 THEN Coef(w, i + d) ELSE Zero
  <2> HIDE DEF w, n, d
  <2> QED
    BY <1>6, Slices
<1>8. gf_poly_mod(a, b) = Trimmed(x) /\ gf_poly_div(a, b) = y
  BY <1>1 DEF gf_poly_mod, gf_poly_div
<1> HIDE DEF x, y
<1>9. /\ Trimmed(x) \in Polynomials /\ Deg(Trimmed(x)) <= d - 1
      /\ \A j \in Int : Coef(Trimmed(x), j) = Coef(x, j)
      /\ Deg(Trimmed(x)) > 0 => Coef(Trimmed(x), Deg(Trimmed(x))) # Zero
  <2>1. /\ Trimmed(x) \in Polynomials /\ Deg(Trimmed(x)) <= Deg(x)
        /\ \A j \in Int : Coef(Trimmed(x), j) = Coef(x, j)
        /\ Deg(Trimmed(x)) > 0 => Coef(x, Deg(Trimmed(x))) # Zero
    BY <1>7, TrimmedKeeps
  <2>2. Deg(Trimmed(x)) \in Int
    BY <2>1, PolynomialType
  <2> QED
    BY <1>7, <2>1, <2>2
<1>10. R(k) = Rest(w, n, d - 1) /\ W(k) = Whole(w, n, d, d - 1)
  <2>1. n - k = d - 1
    BY <1>1
  <2> QED
    BY <1>2, <2>1
<1> HIDE DEF R, W, w, n, d
<1>11. d - 1 \in Int /\ d - 1 >= d - 1
  BY <1>1
<1>12. /\ R(k) \in Polynomials /\ W(k) \in Polynomials
       /\ \A i \in Int : Coef(R(k), i) = IF i <= d - 1 THEN Coef(w, i) ELSE Zero
       /\ \A i \in Int : Coef(W(k), i) = IF i + d > d - 1 THEN Coef(w, i + d) ELSE Zero
  <2> DEFINE l == d - 1
  <2>1. l \in Int /\ l >= d - 1
    BY <1>1
  <2> HIDE DEF l
  <2>2. /\ Rest(w, n, l) \in Polynomials /\ Whole(w, n, d, l) \in Polynomials
        /\ \A i \in Int : Coef(Rest(w, n, l), i) = IF i <= l THEN Coef(w, i) ELSE Zero
        /\ \A i \in Int : Coef(Whole(w, n, d, l), i) = IF i + d > l THEN Coef(w, i + d) ELSE Zero
    BY <1>1, <1>6, <2>1, RestWhole
  <2> QED
    BY <1>10, <2>2 DEF l
<1>13. ASSUME NEW r \in Nat
       PROVE  Eval(R(k), r) = Eval(Trimmed(x), r) /\ Eval(W(k), r) = Eval(y, r)
  <2>1. \A i \in Int : Coef(R(k), i) = Coef(Trimmed(x), i)
    BY <1>7, <1>9, <1>12
  <2>2. \A i \in Int : Coef(W(k), i) = Coef(y, i)
    BY <1>7, <1>12
  <2>3. /\ R(k) \in Polynomials /\ W(k) \in Polynomials /\ Trimmed(x) \in Polynomials
        /\ y \in Polynomials
    BY <1>7, <1>9, <1>12
  <2>4. Eval(R(k), r) = Eval(Trimmed(x), r)
    BY <2>1, <2>3, SameTerms
  <2>5. Eval(W(k), r) = Eval(y, r)
    BY <2>2, <2>3, SameTerms
  <2> QED
    BY <2>4, <2>5
<1>14. Coef(y, n - d) = Coef(a, n)
  <2>1. n - d \in Int /\ (n - d) + d = n /\ n > d - 1
    BY <1>1
  <2> QED
    BY <1>4, <1>7, <2>1
<1>15. Deg(Trimmed(x)) < d
  <2>1. Deg(Trimmed(x)) \in Int
    BY <1>9, PolynomialType
  <2> QED
    BY <1>1, <1>9, <2>1
<1>16. \A r \in Nat : Eval(a, r) = Plus(Eval(Trimmed(x), r), gf_mul(Eval(y, r), Eval(Normal(b), r)))
  BY <1>5, <1>13
<1> QED
  BY <1>7, <1>8, <1>9, <1>14, <1>15, <1>16 DEF n, d

LEMMA AllZero ==
  ASSUME NEW p \in Polynomials, ~ Nonzero(p), NEW r \in Nat
  PROVE  Eval(p, r) = Zero
<1>1. \A j \in Int : Coef(p, j) = Coef(Constant(Zero), j)
  BY NullEval DEF Nonzero
<1>2. Constant(Zero) \in Polynomials /\ Eval(Constant(Zero), r) = Zero
  BY NullEval
<1> QED
  BY <1>1, <1>2, SameTerms

LEMMA ShiftedExists ==
  ASSUME NEW p \in Polynomials, NEW q \in Polynomials, NEW c \in Elements, NEW k \in Nat,
         NEW top \in Nat, Deg(p) <= top, Deg(q) + k <= top
  PROVE  \E w \in Polynomials :
           /\ Deg(w) = top
           /\ \A j \in Int : Coef(w, j) = Plus(Coef(p, j), gf_mul(c, Coef(q, j - k)))
           /\ \A r \in Nat : Eval(w, r) = Plus(Eval(p, r), gf_mul(gf_mul(c, a_pow(r * k)), Eval(q, r)))
<1> DEFINE f == [j \in 0..top |-> Plus(Coef(p, j), gf_mul(c, Coef(q, j - k)))]
           w == Poly(top, f)
<1>1. Deg(p) \in Nat /\ Deg(q) \in Nat
  BY PolynomialType
<1>2. \A j \in 0..top : f[j] = Plus(Coef(p, j), gf_mul(c, Coef(q, j - k))) /\ f[j] \in Elements
  BY CoefElement, FieldOps, PlusElement
<1> HIDE DEF f
<1>3. /\ w \in Polynomials /\ Deg(w) = top
      /\ \A j \in Int : Coef(w, j) = IF j \in 0..top THEN f[j] ELSE Zero
  BY <1>2, PolyCoefs
<1> HIDE DEF w
<1>4. gf_mul(c, Zero) = Zero
  BY MulZeroOne
<1>5. \A j \in Int : Coef(w, j) = Plus(Coef(p, j), gf_mul(c, Coef(q, j - k)))
  <2> TAKE j \in Int
  <2>1. CASE j \in 0..top
    BY <1>2, <1>3, <2>1
  <2>2. CASE j \notin 0..top
    <3>1. (j < 0 \/ j > Deg(p)) /\ j - k \in Int /\ (j - k < 0 \/ j - k > Deg(q))
      BY <1>1, <2>2
    <3>2. Coef(p, j) = Zero
      BY <3>1, CoefOutside
    <3>3. Coef(q, j - k) = Zero
      BY <3>1, CoefOutside
    <3> QED
      BY <1>3, <1>4, <2>2, <3>2, <3>3, PlusZero
  <2> QED
    BY <2>1, <2>2
<1>6. \A r \in Nat : Eval(w, r) = Plus(Eval(p, r), gf_mul(gf_mul(c, a_pow(r * k)), Eval(q, r)))
  <2> TAKE r \in Nat
  <2>1. w \in Polynomials
    BY <1>3
  <2> QED
    BY <1>5, <2>1, ShiftedEval
<1> QED
  BY <1>3, <1>5, <1>6

\* p(X) q(X)
LEMMA ProductExists ==
  ASSUME NEW p \in Polynomials, NEW q \in Polynomials
  PROVE  \E w \in Polynomials :
           /\ Deg(w) <= Deg(p) + Deg(q)
           /\ \A r \in Nat : Eval(w, r) = gf_mul(Eval(p, r), Eval(q, r))
<1> DEFINE d == Deg(p)
           top == Deg(p) + Deg(q)
           Upto(n, r) == SumOf(Span(0, n - 1), Summands(p, r))
           Good(w, n) == /\ w \in Polynomials /\ Deg(w) <= top
                         /\ \A r \in Nat : Eval(w, r) = gf_mul(Upto(n, r), Eval(q, r))
           I == {n \in 0 .. d + 1 : \E w \in Polynomials : Good(w, n)}
<1>1. Deg(p) \in Nat /\ Deg(q) \in Nat /\ d \in Nat /\ top \in Nat /\ d + 1 \in Nat
  BY PolynomialType
<1>2. \A n \in 0 .. d + 1 : \A r \in Nat : Upto(n, r) \in Elements
  <2> TAKE n \in 0 .. d + 1
  <2> TAKE r \in Nat
  <2> DEFINE S == Span(0, n - 1)
             f == Summands(p, r)
  <2>1. \A j \in S : f[j] \in Elements
    <3>1. n - 1 \in Int
      BY <1>1
    <3>2. \A j \in S : j \in Nat
      BY <3>1, SpanFinite
    <3> QED
      BY <3>2, SummandElement
  <2> HIDE DEF S, f
  <2>2. \A j \in S : f[j] \in Below(M)
    BY <2>1, PrimReducing
  <2>3. SumOf(S, f) \in Below(M)
    BY <2>2, SumBelow
  <2> QED
    BY <2>3, PrimReducing DEF S, f
<1>3. 0 \in I
  <2>1. \A r \in Nat : Upto(0, r) = Zero
    <3> TAKE r \in Nat
    <3>1. Span(0, 0 - 1) = {}
      BY DEF Span
    <3> QED
      BY <3>1, SumEmpty DEF Zero
  <2>2. \A r \in Nat : gf_mul(Zero, Eval(q, r)) = Zero
    BY EvalElement, MulZeroOne
  <2>3. Good(Constant(Zero), 0)
    BY <1>1, <2>1, <2>2, NullEval
  <2>4. Constant(Zero) \in Polynomials /\ 0 \in 0 .. d + 1
    BY <1>1, NullEval
  <2> QED
    BY <2>3, <2>4
<1>4. \A n \in 0 .. (d + 1) - 1 : n \in I => n + 1 \in I
  <2> TAKE n \in 0 .. (d + 1) - 1
  <2> HAVE n \in I
  <2>1. PICK w \in Polynomials : Good(w, n)
    OBVIOUS
  <2>2. n \in Nat /\ n <= d /\ n + 1 \in 0 .. d + 1 /\ n \in 0 .. d + 1 /\ (n + 1) - 1 = n
    BY <1>1
  <2> DEFINE c == Coef(p, n)
  <2>3. c \in Elements
    BY CoefElement
  <2>4. Deg(w) <= top /\ Deg(q) + n <= top
    BY <1>1, <2>1, <2>2
  <2>5. \A r \in Nat : Eval(w, r) = gf_mul(Upto(n, r), Eval(q, r))
    BY <2>1
  <2> HIDE DEF c, Good, top
  <2>6. PICK v \in Polynomials :
          /\ Deg(v) = top
          /\ \A r \in Nat : Eval(v, r) = Plus(Eval(w, r), gf_mul(gf_mul(c, a_pow(r * n)), Eval(q, r)))
    BY <1>1, <2>2, <2>3, <2>4, ShiftedExists
  <2>7. \A r \in Nat : Eval(v, r) = gf_mul(Upto(n + 1, r), Eval(q, r))
    <3> TAKE r \in Nat
    <3> DEFINE S == Span(0, n - 1)
               f == Summands(p, r)
               e == Eval(q, r)
    <3>1. Span(0, (n + 1) - 1) = S \cup {n} /\ n \notin S
      BY <2>2 DEF Span
    <3>2. IsFiniteSet(S)
      BY <2>2, SpanFinite
    <3>3. f[n] = gf_mul(c, a_pow(r * n)) /\ f[n] \in Elements
      BY <2>2, SummandElement DEF c
    <3>4. Upto(n, r) = SumOf(S, f) /\ Upto(n + 1, r) = SumOf(S \cup {n}, f)
      BY <3>1
    <3>5. Upto(n, r) \in Elements
      BY <1>2, <2>2
    <3>6. e \in Elements
      BY EvalElement
    <3> HIDE DEF S, f, Upto, e
    <3>7. Upto(n + 1, r) = Plus(Upto(n, r), f[n])
      BY <3>1, <3>2, <3>4, SumAdd
    <3>8. gf_mul(Plus(Upto(n, r), f[n]), e) = Plus(gf_mul(Upto(n, r), e), gf_mul(f[n], e))
      BY <3>3, <3>5, <3>6, MulSum
    <3>9. Eval(v, r) = Plus(Eval(w, r), gf_mul(f[n], e)) /\ Eval(w, r) = gf_mul(Upto(n, r), e)
      BY <2>5, <2>6, <3>3 DEF e
    <3>10. Eval(v, r) = gf_mul(Upto(n + 1, r), e)
      BY <3>7, <3>8, <3>9
    <3> QED
      BY <3>10 DEF e
  <2>8. Good(v, n + 1)
    BY <1>1, <2>6, <2>7 DEF Good
  <2> QED
    BY <2>2, <2>6, <2>8
<1> HIDE DEF I
<1>5. 0 .. d + 1 \subseteq I
  BY <1>1, <1>3, <1>4, Induction
<1>6. d + 1 \in I
  BY <1>1, <1>5
<1>7. PICK w \in Polynomials : Good(w, d + 1)
  BY <1>6 DEF I
<1>8. \A r \in Nat : Upto(d + 1, r) = Eval(p, r)
  <2>1. (d + 1) - 1 = d
    BY <1>1
  <2> QED
    BY <2>1 DEF Eval
<1>9. \A r \in Nat : Eval(w, r) = gf_mul(Eval(p, r), Eval(q, r))
  BY <1>7, <1>8
<1> QED
  BY <1>7, <1>9

\* A division, with the quotient by the divisor itself.
LEMMA QuotientExists ==
  ASSUME NEW a \in Polynomials, NEW b \in Polynomials, Coef(b, Deg(b)) # Zero,
         Deg(b) >= 1, Deg(b) <= Deg(a)
  PROVE  \E m \in Polynomials :
           /\ Deg(m) = Deg(a) - Deg(b)
           /\ \A r \in Nat : Eval(a, r) = Plus(Eval(gf_poly_mod(a, b), r),
                                               gf_mul(Eval(m, r), Eval(b, r)))
<1> DEFINE l == Coef(b, Deg(b))
           nb == Normal(b)
           q == gf_poly_div(a, b)
           v == gf_div(One, l)
           n == Deg(a) - Deg(b)
           f == [j \in 0..n |-> gf_mul(v, Coef(q, j))]
           m == Poly(n, f)
<1>1. l \in Units /\ l \in Elements /\ nb \in Polynomials /\ \A i \in Int : Coef(b, i) = gf_mul(l, Coef(nb, i))
  BY NormalCoef, CoefElement
<1>2. v \in Elements /\ gf_mul(l, v) = One
  BY <1>1, OneElement, DivFacts
<1>3. /\ q \in Polynomials /\ Deg(q) = n
      /\ \A r \in Nat : Eval(a, r) = Plus(Eval(gf_poly_mod(a, b), r), gf_mul(Eval(q, r), Eval(nb, r)))
  BY DivisionEval
<1>4. n \in Nat
  BY <1>3, PolynomialType
<1> HIDE DEF l, nb, q, v, n
<1>5. \A j \in 0..n : f[j] \in Elements /\ f[j] = gf_mul(v, Coef(q, j))
  BY <1>2, <1>3, CoefElement, FieldOps
<1> HIDE DEF f
<1>6. /\ m \in Polynomials /\ Deg(m) = n
      /\ \A j \in Int : Coef(m, j) = IF j \in 0..n THEN f[j] ELSE Zero
  BY <1>4, <1>5, PolyCoefs
<1> HIDE DEF m
<1>7. \A j \in Int : Coef(m, j) = gf_mul(v, Coef(q, j))
  <2> TAKE j \in Int
  <2>1. j \notin 0..n => Coef(q, j) = Zero
    BY <1>3, <1>4, CoefOutside
  <2>2. gf_mul(v, Zero) = Zero
    BY <1>2, MulZeroOne
  <2> QED
    BY <1>5, <1>6, <2>1, <2>2
<1>8. \A r \in Nat : gf_mul(Eval(q, r), Eval(nb, r)) = gf_mul(Eval(m, r), Eval(b, r))
  <2> TAKE r \in Nat
  <2>1. Eval(m, r) = gf_mul(v, Eval(q, r))
    BY <1>2, <1>3, <1>6, <1>7, ScaledEval
  <2>2. Eval(b, r) = gf_mul(l, Eval(nb, r))
    BY <1>1, ScaledEval
  <2> DEFINE x == Eval(q, r)
             y == Eval(nb, r)
  <2>3. x \in Elements /\ y \in Elements
    BY <1>1, <1>3, EvalElement
  <2> HIDE DEF x, y
  <2>4. gf_mul(gf_mul(v, x), gf_mul(l, y)) = gf_mul(x, y)
    <3>1. gf_mul(v, x) \in Elements /\ gf_mul(l, y) \in Elements /\ gf_mul(x, v) \in Elements
          /\ gf_mul(v, x) = gf_mul(x, v) /\ gf_mul(v, l) = gf_mul(l, v)
      BY <1>1, <1>2, <2>3, FieldOps, MulCommutes
    <3>2. gf_mul(gf_mul(x, v), gf_mul(l, y)) = gf_mul(x, gf_mul(v, gf_mul(l, y)))
      BY <1>2, <2>3, <3>1, MulAssociates
    <3>3. gf_mul(v, gf_mul(l, y)) = gf_mul(gf_mul(v, l), y)
      BY <1>1, <1>2, <2>3, MulAssociates
    <3>4. gf_mul(One, y) = y
      BY <2>3, MulZeroOne
    <3> QED
      BY <1>2, <3>1, <3>2, <3>3, <3>4
  <2> QED
    BY <2>1, <2>2, <2>4 DEF x, y
<1> QED
  BY <1>3, <1>6, <1>8 DEF n

-----------------------------------------------------------------------------
\* Euclid's algorithm

\* f is a sum of multiples of both members of a pair, and the degree of the
\* multipliers is that of f less that of the first.
Combined(f, q) ==
  \E A \in Polynomials : \E B \in Polynomials :
    /\ Deg(A) <= Deg(f) - Deg(q[1]) /\ Deg(B) <= Deg(f) - Deg(q[1])
    /\ \A r \in Nat : Eval(f, r) = Plus(gf_mul(Eval(A, r), Eval(q[1], r)),
                                        gf_mul(Eval(B, r), Eval(q[2], r)))

BothVanish(a, b, x) == At(a, x) = Zero /\ At(b, x) = Zero

\* What a round of Euclid's algorithm on f and t keeps, d more of them to come.
Euclid(f, t, q, d) ==
  /\ q \in Polynomials \X Polynomials
  /\ Deg(q[1]) >= 1 /\ Coef(q[1], Deg(q[1])) # Zero /\ Deg(q[1]) <= Deg(f)
  /\ Deg(q[2]) > 0 => Coef(q[2], Deg(q[2])) # Zero /\ Deg(q[2]) < Deg(q[1])
  /\ Deg(q[2]) = 0 => Deg(q[1]) < Deg(f)
  /\ Deg(q[2]) = 0 \/ Deg(q[2]) <= d
  /\ \A x \in Units : BothVanish(q[1], q[2], x) <=> BothVanish(f, t, x)
  /\ Combined(f, q)

LEMMA EuclidFirst ==
  ASSUME NEW f \in Polynomials, NEW t \in Polynomials, Coef(f, Deg(f)) # Zero,
         Coef(t, Deg(t)) # Zero, 0 < Deg(t), Deg(t) < Deg(f)
  PROVE  Euclid(f, t, <<f, t>>, Deg(t))
<1> DEFINE q == <<f, t>>
           A == Constant(One)
           B == Constant(Zero)
<1>1. q[1] = f /\ q[2] = t /\ q \in Polynomials \X Polynomials
  OBVIOUS
<1>2. Deg(f) \in Nat /\ Deg(t) \in Nat
  BY PolynomialType
<1>3. A \in Polynomials /\ Deg(A) = 0 /\ \A r \in Nat : Eval(A, r) = One
  BY OneElement, ConstantType, ConstantEval
<1>4. B \in Polynomials /\ Deg(B) = 0 /\ \A r \in Nat : Eval(B, r) = Zero
  BY NullEval
<1> HIDE DEF A, B
<1>5. \A r \in Nat : Eval(f, r) = Plus(gf_mul(Eval(A, r), Eval(f, r)), gf_mul(Eval(B, r), Eval(t, r)))
  <2> TAKE r \in Nat
  <2>1. Eval(f, r) \in Elements /\ Eval(t, r) \in Elements
    BY EvalElement
  <2>2. gf_mul(One, Eval(f, r)) = Eval(f, r) /\ gf_mul(Zero, Eval(t, r)) = Zero
    BY <2>1, MulZeroOne
  <2> QED
    BY <1>3, <1>4, <2>2, PlusZero
<1>6. Deg(A) <= Deg(f) - Deg(f) /\ Deg(B) <= Deg(f) - Deg(f)
  BY <1>2, <1>3, <1>4
<1> HIDE DEF q
<1>7. Combined(f, q)
  BY <1>1, <1>3, <1>4, <1>5, <1>6 DEF Combined
<1> QED
  BY <1>1, <1>2, <1>7 DEF Euclid, q

LEMMA CombinedNext ==
  ASSUME NEW f \in Polynomials, NEW a \in Polynomials, NEW b \in Polynomials, NEW c \in Polynomials,
         Combined(f, <<a, b>>), NEW m \in Polynomials, Deg(m) = Deg(a) - Deg(b),
         \A r \in Nat : Eval(a, r) = Plus(Eval(c, r), gf_mul(Eval(m, r), Eval(b, r)))
  PROVE  Combined(f, <<b, c>>)
<1>1. PICK A \in Polynomials, B \in Polynomials :
        /\ Deg(A) <= Deg(f) - Deg(a) /\ Deg(B) <= Deg(f) - Deg(a)
        /\ \A r \in Nat : Eval(f, r) = Plus(gf_mul(Eval(A, r), Eval(a, r)),
                                            gf_mul(Eval(B, r), Eval(b, r)))
  BY DEF Combined
<1>2. /\ Deg(f) \in Nat /\ Deg(a) \in Nat /\ Deg(b) \in Nat /\ Deg(m) \in Nat /\ Deg(A) \in Nat
      /\ Deg(B) \in Nat
  BY PolynomialType
<1>3. PICK P \in Polynomials :
        /\ Deg(P) <= Deg(A) + Deg(m)
        /\ \A r \in Nat : Eval(P, r) = gf_mul(Eval(A, r), Eval(m, r))
  BY ProductExists
<1> DEFINE C == Added(P, B)
<1>4. /\ C \in Polynomials /\ Deg(C) = IF Deg(P) > Deg(B) THEN Deg(P) ELSE Deg(B)
      /\ \A r \in Nat : Eval(C, r) = Plus(Eval(P, r), Eval(B, r))
  BY AddedEval
<1>5. Deg(P) \in Nat
  BY PolynomialType
<1> HIDE DEF C
<1>6. Deg(C) <= Deg(f) - Deg(b) /\ Deg(A) <= Deg(f) - Deg(b)
  <2>1. Deg(P) <= Deg(f) - Deg(b)
    BY <1>1, <1>2, <1>3, <1>5
  <2>2. Deg(B) <= Deg(f) - Deg(b) /\ Deg(A) <= Deg(f) - Deg(b)
    BY <1>1, <1>2
  <2> QED
    BY <1>4, <2>1, <2>2
<1>7. \A r \in Nat : Eval(f, r) = Plus(gf_mul(Eval(C, r), Eval(b, r)), gf_mul(Eval(A, r), Eval(c, r)))
  <2> TAKE r \in Nat
  <2> DEFINE ff == Eval(f, r)
             aa == Eval(a, r)
             bb == Eval(b, r)
             cc == Eval(c, r)
             mm == Eval(m, r)
             vA == Eval(A, r)
             vB == Eval(B, r)
             vP == Eval(P, r)
             vC == Eval(C, r)
  <2>1. /\ aa \in Elements /\ bb \in Elements /\ cc \in Elements /\ mm \in Elements
        /\ vA \in Elements /\ vB \in Elements /\ vP \in Elements
    BY EvalElement
  <2>2. /\ ff = Plus(gf_mul(vA, aa), gf_mul(vB, bb))
        /\ aa = Plus(cc, gf_mul(mm, bb))
        /\ vP = gf_mul(vA, mm)
        /\ vC = Plus(vP, vB)
    BY <1>1, <1>3, <1>4
  <2> HIDE DEF ff, aa, bb, cc, mm, vA, vB, vP, vC
  <2>3. gf_mul(mm, bb) \in Elements
    BY <2>1, FieldOps
  <2>4. gf_mul(vA, aa) = Plus(gf_mul(vA, cc), gf_mul(vA, gf_mul(mm, bb)))
    BY <2>1, <2>2, <2>3, MulDistributes
  <2>5. gf_mul(vA, gf_mul(mm, bb)) = gf_mul(vP, bb)
    BY <2>1, <2>2, MulAssociates
  <2>6. gf_mul(vC, bb) = Plus(gf_mul(vP, bb), gf_mul(vB, bb))
    BY <2>1, <2>2, MulSum
  <2> DEFINE x == gf_mul(vA, cc)
             y == gf_mul(vP, bb)
             z == gf_mul(vB, bb)
  <2>7. Plus(Plus(x, y), z) = Plus(Plus(y, z), x)
    <3> HIDE DEF x, y, z
    <3> QED
      BY Zenon DEF Plus
  <2>8. ff = Plus(gf_mul(vC, bb), x)
    BY <2>2, <2>4, <2>5, <2>6, <2>7
  <2> QED
    BY <2>8 DEF ff, bb, cc, vA, vC
<1> QED
  BY <1>4, <1>6, <1>7 DEF Combined

LEMMA EuclidNext ==
  ASSUME NEW f \in Polynomials, NEW t \in Polynomials, NEW d \in Nat, NEW q, Euclid(f, t, q, d + 1)
  PROVE  Euclid(f, t, NextPair(q), d)
<1> DEFINE a == q[1]
           b == q[2]
           c == gf_poly_mod(a, b)
<1>1. a \in Polynomials /\ b \in Polynomials /\ q = <<a, b>>
  BY DEF Euclid
<1>2. Deg(a) \in Nat /\ Deg(b) \in Nat /\ Deg(f) \in Nat
  BY <1>1, PolynomialType
<1>3. /\ Deg(a) >= 1 /\ Coef(a, Deg(a)) # Zero /\ Deg(a) <= Deg(f)
      /\ Deg(b) > 0 => Coef(b, Deg(b)) # Zero /\ Deg(b) < Deg(a)
      /\ Deg(b) = 0 => Deg(a) < Deg(f)
      /\ Deg(b) = 0 \/ Deg(b) <= d + 1
  BY DEF Euclid
<1>4. \A x \in Units : BothVanish(a, b, x) <=> BothVanish(f, t, x)
  BY DEF Euclid
<1>5. Combined(f, <<a, b>>)
  BY <1>1 DEF Euclid
<1> HIDE DEF a, b
<1>6. CASE Deg(b) = 0
  <2>1. NextPair(q) = <<a, b>>
    BY <1>1, <1>6 DEF NextPair, b
  <2>2. <<a, b>>[1] = a /\ <<a, b>>[2] = b /\ <<a, b>> \in Polynomials \X Polynomials
    BY <1>1
  <2> QED
    BY <1>2, <1>3, <1>4, <1>5, <1>6, <2>1, <2>2 DEF Euclid
<1>7. CASE Deg(b) > 0
  <2>1. NextPair(q) = <<b, c>>
    BY <1>1, <1>2, <1>7 DEF NextPair, b, a
  <2>2. Coef(b, Deg(b)) # Zero /\ Deg(b) >= 1 /\ Deg(b) <= Deg(a) /\ Deg(b) < Deg(a)
    BY <1>2, <1>3, <1>7
  <2>3. /\ c \in Polynomials /\ Deg(c) < Deg(b)
        /\ Deg(c) > 0 => Coef(c, Deg(c)) # Zero
    BY <1>1, <2>2, DivisionEval
  <2>4. PICK m \in Polynomials :
          /\ Deg(m) = Deg(a) - Deg(b)
          /\ \A r \in Nat : Eval(a, r) = Plus(Eval(c, r), gf_mul(Eval(m, r), Eval(b, r)))
    BY <1>1, <2>2, QuotientExists
  <2> HIDE DEF c
  <2>5. Combined(f, <<b, c>>)
    BY <1>1, <1>5, <2>3, <2>4, CombinedNext
  <2>6. \A x \in Units : BothVanish(b, c, x) <=> BothVanish(f, t, x)
    <3> TAKE x \in Units
    <3> DEFINE r == a_log(x)
    <3>1. r \in Nat
      BY UnitLog
    <3>2. /\ At(a, x) = Plus(At(c, x), gf_mul(Eval(m, r), At(b, x)))
          /\ At(a, x) \in Elements /\ At(b, x) \in Elements /\ At(c, x) \in Elements
          /\ Eval(m, r) \in Elements
      BY <1>1, <2>3, <2>4, <3>1, AtElement, EvalElement DEF At
    <3>3. At(b, x) = Zero => At(a, x) = At(c, x)
      BY <3>2, MulZeroOne, PlusZero
    <3> HIDE DEF r
    <3> QED
      BY <1>4, <3>3 DEF BothVanish
  <2>7. Deg(c) \in Nat
    BY <2>3, PolynomialType
  <2>8. <<b, c>>[1] = b /\ <<b, c>>[2] = c /\ <<b, c>> \in Polynomials \X Polynomials
    BY <1>1, <2>3
  <2>9. Deg(b) <= Deg(f) /\ Deg(b) < Deg(f) /\ (Deg(c) = 0 \/ Deg(c) <= d)
    BY <1>2, <1>3, <1>7, <2>2, <2>3, <2>7
  <2> QED
    BY <2>1, <2>2, <2>3, <2>5, <2>6, <2>8, <2>9 DEF Euclid
<1> QED
  BY <1>2, <1>6, <1>7

LEMMA GcdReached ==
  ASSUME NEW f \in Polynomials, NEW t \in Polynomials, Coef(f, Deg(f)) # Zero,
         Coef(t, Deg(t)) # Zero, 0 < Deg(t), Deg(t) < Deg(f)
  PROVE  \E q : Euclid(f, t, q, 0) /\ gf_poly_gcd(f, t) = q[1]
<1> DEFINE n == Deg(t)
           e == Dividends(f, t)
           I == {i \in 0..n : Euclid(f, t, e[i], n - i)}
<1>1. n \in Nat /\ Deg(f) \in Nat
  BY PolynomialType
<1>2. ~ (Deg(f) < Deg(t))
  BY <1>1
<1>3. /\ gf_poly_gcd(f, t) = e[n][1] /\ e[0] = <<f, t>>
      /\ \A i \in 1..n : e[i] = NextPair(e[i-1])
  BY <1>2, GcdTable
<1> HIDE DEF e
<1>4. 0 \in I
  <2>1. n - 0 = n
    BY <1>1
  <2>2. Euclid(f, t, <<f, t>>, n)
    BY EuclidFirst
  <2> QED
    BY <1>1, <1>3, <2>1, <2>2
<1>5. \A i \in 0 .. n-1 : i \in I => i + 1 \in I
  <2> TAKE i \in 0 .. n-1
  <2> HAVE i \in I
  <2> DEFINE d == n - (i + 1)
  <2>1. d \in Nat /\ n - i = d + 1 /\ i + 1 \in 1..n /\ i + 1 \in 0..n /\ (i + 1) - 1 = i
    BY <1>1
  <2>2. Euclid(f, t, e[i], d + 1)
    BY <2>1
  <2> HIDE DEF d
  <2>3. Euclid(f, t, NextPair(e[i]), d)
    BY <2>1, <2>2, EuclidNext
  <2>4. e[i+1] = NextPair(e[i])
    BY <1>3, <2>1
  <2> QED
    BY <2>1, <2>3, <2>4 DEF d
<1> HIDE DEF I
<1>6. 0..n \subseteq I
  BY <1>1, <1>4, <1>5, Induction
<1>7. n \in I /\ n - n = 0
  BY <1>1, <1>6
<1> QED
  BY <1>3, <1>7 DEF I

-----------------------------------------------------------------------------
\* The factors of a polynomial that splits

LEMMA UnitsNumber == Cardinality(Units) = N
<1>1. IsFiniteSet(Elements) /\ Cardinality(Elements) = N + 1 /\ N \in Nat
  BY ElementsFinite, Sizes
<1>2. Zero \in Elements
  BY OneElement
<1>3. Cardinality(Elements \ {Zero}) = Cardinality(Elements) - 1
  BY <1>1, <1>2, FS_RemoveElement
<1> QED
  BY <1>1, <1>3 DEF Units

\* Two polynomials that multiply to a polynomial with as many roots as its degree.
LEMMA FactorSplits ==
  ASSUME NEW f, Splits(f), Deg(f) < N, NEW g \in Polynomials, NEW a \in Polynomials,
         Nonzero(g), Deg(g) + Deg(a) <= Deg(f),
         \A x \in Units : At(f, x) = gf_mul(At(a, x), At(g, x))
  PROVE  Splits(g)
<1>1. f \in Polynomials /\ Cardinality(RootsIn(f)) = Deg(f)
  BY DEF Splits
<1>2. Deg(f) \in Nat /\ Deg(g) \in Nat /\ Deg(a) \in Nat
  BY <1>1, PolynomialType
<1>3. PICK x \in Units : x \notin RootsIn(f)
  <2>1. RootsIn(f) # Units
    BY <1>1, <1>2, UnitsNumber, Sizes
  <2> QED
    BY <2>1, RootsFinite
<1>4. At(f, x) # Zero
  BY <1>3 DEF RootsIn
<1>5. Nonzero(a)
  <2> SUFFICES ASSUME ~ Nonzero(a) PROVE FALSE
    OBVIOUS
  <2>1. At(a, x) = Zero
    BY UnitLog, AllZero DEF At
  <2>2. gf_mul(Zero, At(g, x)) = Zero
    BY AtElement, MulZeroOne
  <2> QED
    BY <1>4, <2>1, <2>2
<1>6. RootsIn(f) \subseteq RootsIn(a) \cup RootsIn(g)
  <2> SUFFICES ASSUME NEW y \in RootsIn(f), y \notin RootsIn(a), y \notin RootsIn(g)
               PROVE  FALSE
    OBVIOUS
  <2>1. y \in Units /\ At(f, y) = Zero /\ At(a, y) # Zero /\ At(g, y) # Zero
    BY DEF RootsIn
  <2>2. At(a, y) \in Elements \ {Zero} /\ At(g, y) \in Elements \ {Zero}
    BY <2>1, AtElement
  <2>3. gf_mul(At(a, y), At(g, y)) # Zero
    BY <2>2, MulNonzero
  <2> QED
    BY <2>1, <2>3
<1>7. Cardinality(RootsIn(a)) <= Deg(a) /\ Cardinality(RootsIn(g)) <= Deg(g)
  BY <1>5, UnitBound
<1>8. Cardinality(RootsIn(f)) <= Cardinality(RootsIn(a) \cup RootsIn(g))
  <2>1. IsFiniteSet(RootsIn(a) \cup RootsIn(g))
    BY RootsFinite, FS_Union
  <2> QED
    BY <1>6, <2>1, FS_Subset
<1>9. Cardinality(RootsIn(a) \cup RootsIn(g)) <= Cardinality(RootsIn(a)) + Cardinality(RootsIn(g))
  <2> DEFINE A == RootsIn(a)
             B == RootsIn(g)
  <2>1. IsFiniteSet(A) /\ IsFiniteSet(B)
    BY RootsFinite
  <2> HIDE DEF A, B
  <2>2. Cardinality(A \cup B) = Cardinality(A) + Cardinality(B) - Cardinality(A \cap B)
    BY <2>1, FS_Union
  <2>3. Cardinality(A \cap B) \in Nat /\ Cardinality(A) \in Nat /\ Cardinality(B) \in Nat
    <3>1. IsFiniteSet(A \cap B)
      BY <2>1, FS_Intersection
    <3> QED
      BY <2>1, <3>1, FS_CardinalityType
  <2>4. Cardinality(A \cup B) <= Cardinality(A) + Cardinality(B)
    BY <2>2, <2>3
  <2> QED
    BY <2>4 DEF A, B
<1>10. Cardinality(RootsIn(a)) \in Nat /\ Cardinality(RootsIn(g)) \in Nat
       /\ Cardinality(RootsIn(a) \cup RootsIn(g)) \in Nat
  <2>1. IsFiniteSet(RootsIn(a) \cup RootsIn(g))
    BY RootsFinite, FS_Union
  <2> QED
    BY <2>1, RootsFinite, FS_CardinalityType
<1>11. Cardinality(RootsIn(g)) = Deg(g)
  BY <1>1, <1>2, <1>7, <1>8, <1>9, <1>10
<1> QED
  BY <1>11 DEF Splits

LEMMA GcdSplits ==
  ASSUME NEW f, Splits(f), Deg(f) < N, NEW t \in Polynomials, Coef(t, Deg(t)) # Zero,
         0 < Deg(t), Deg(t) < Deg(f), NEW z \in RootsIn(f), At(t, z) = Zero
  PROVE  LET g == gf_poly_gcd(f, t)
         IN  /\ Splits(g) /\ Deg(g) \in Nat /\ 1 <= Deg(g) /\ Deg(g) < Deg(f)
             /\ RootsIn(g) = {x \in RootsIn(f) : At(t, x) = Zero}
<1>1. f \in Polynomials /\ Coef(f, Deg(f)) # Zero /\ Deg(f) \in Nat
  BY SplitEnds
<1>2. PICK q : Euclid(f, t, q, 0) /\ gf_poly_gcd(f, t) = q[1]
  BY <1>1, GcdReached
<1> DEFINE g == q[1]
           h == q[2]
<1>3. /\ g \in Polynomials /\ h \in Polynomials
      /\ Deg(g) >= 1 /\ Coef(g, Deg(g)) # Zero
      /\ Deg(h) = 0 => Deg(g) < Deg(f)
      /\ Deg(h) = 0 \/ Deg(h) <= 0
      /\ \A x \in Units : BothVanish(g, h, x) <=> BothVanish(f, t, x)
      /\ Combined(f, q)
  BY <1>2 DEF Euclid
<1>4. Deg(h) = 0 /\ Deg(g) \in Nat
  BY <1>3, PolynomialType
<1>5. PICK A \in Polynomials, B \in Polynomials :
        /\ Deg(A) <= Deg(f) - Deg(g) /\ Deg(B) <= Deg(f) - Deg(g)
        /\ \A r \in Nat : Eval(f, r) = Plus(gf_mul(Eval(A, r), Eval(g, r)),
                                            gf_mul(Eval(B, r), Eval(h, r)))
  BY <1>3 DEF Combined
<1> HIDE DEF g, h
<1>6. z \in Units /\ At(f, z) = Zero
  BY DEF RootsIn
<1>7. \A r \in Nat : Eval(h, r) = Zero
  <2>1. \A r \in Nat : Eval(h, r) = Coef(h, 0)
    BY <1>3, <1>4, ConstantEval
  <2>2. At(h, z) = Zero
    BY <1>3, <1>6 DEF BothVanish
  <2>3. a_log(z) \in Nat
    BY <1>6, UnitLog
  <2>4. At(h, z) = Coef(h, 0)
    BY <2>1, <2>3 DEF At
  <2> QED
    BY <2>1, <2>2, <2>4
<1>8. \A x \in Units : At(h, x) = Zero /\ At(f, x) = gf_mul(At(A, x), At(g, x))
  <2> TAKE x \in Units
  <2> DEFINE r == a_log(x)
  <2>1. r \in Nat
    BY UnitLog
  <2>2. Eval(h, r) = Zero
    BY <1>7, <2>1
  <2>3. Eval(f, r) = Plus(gf_mul(Eval(A, r), Eval(g, r)), gf_mul(Eval(B, r), Eval(h, r)))
    BY <1>5, <2>1
  <2>4. gf_mul(Eval(B, r), Zero) = Zero
    BY <2>1, EvalElement, MulZeroOne
  <2>5. Eval(f, r) = gf_mul(Eval(A, r), Eval(g, r))
    BY <2>2, <2>3, <2>4, PlusZero
  <2> QED
    BY <2>2, <2>5 DEF At
<1>9. RootsIn(g) = {x \in RootsIn(f) : At(t, x) = Zero}
  <2>1. \A x \in Units : At(g, x) = Zero <=> At(f, x) = Zero /\ At(t, x) = Zero
    BY <1>3, <1>8 DEF BothVanish
  <2> QED
    BY <2>1 DEF RootsIn
<1>10. Nonzero(g)
  BY <1>3, <1>4 DEF Nonzero
<1>11. Deg(g) + Deg(A) <= Deg(f)
  <2>1. Deg(A) \in Nat
    BY PolynomialType
  <2> QED
    BY <1>1, <1>4, <1>5, <2>1
<1>12. Splits(g)
  BY <1>3, <1>8, <1>10, <1>11, FactorSplits
<1> QED
  BY <1>2, <1>3, <1>4, <1>9, <1>12 DEF g

LEMMA QuotientSplits ==
  ASSUME NEW f, Splits(f), NEW g, Splits(g), 1 <= Deg(g), Deg(g) < Deg(f),
         RootsIn(g) \subseteq RootsIn(f)
  PROVE  LET q == gf_poly_div(f, g)
         IN  Splits(q) /\ Deg(q) = Deg(f) - Deg(g) /\ RootsIn(q) = RootsIn(f) \ RootsIn(g)
<1> DEFINE q == gf_poly_div(f, g)
           m == gf_poly_mod(f, g)
           nb == Normal(g)
<1>1. /\ f \in Polynomials /\ Deg(f) \in Nat /\ Coef(f, Deg(f)) # Zero
      /\ g \in Polynomials /\ Deg(g) \in Nat /\ Coef(g, Deg(g)) # Zero
  BY SplitEnds
<1>2. /\ m \in Polynomials /\ q \in Polynomials /\ Deg(q) = Deg(f) - Deg(g)
      /\ Coef(q, Deg(f) - Deg(g)) = Coef(f, Deg(f))
      /\ Deg(m) < Deg(g)
      /\ \A r \in Nat : Eval(f, r) = Plus(Eval(m, r), gf_mul(Eval(q, r), Eval(nb, r)))
  BY <1>1, DivisionEval
<1>3. /\ nb \in Polynomials /\ Coef(g, Deg(g)) \in Units /\ Coef(g, Deg(g)) \in Elements
      /\ \A i \in Int : Coef(g, i) = gf_mul(Coef(g, Deg(g)), Coef(nb, i))
  BY <1>1, NormalCoef, CoefElement
<1>q. q = gf_poly_div(f, g)
  OBVIOUS
<1> HIDE DEF q, m, nb
<1>4. \A x \in Units : /\ At(g, x) = Zero <=> At(nb, x) = Zero
                       /\ At(f, x) = Plus(At(m, x), gf_mul(At(q, x), At(nb, x)))
                       /\ At(nb, x) \in Elements /\ At(q, x) \in Elements /\ At(m, x) \in Elements
  <2> TAKE x \in Units
  <2> DEFINE r == a_log(x)
             l == Coef(g, Deg(g))
  <2>1. r \in Nat
    BY UnitLog
  <2>2. At(nb, x) \in Elements /\ At(q, x) \in Elements /\ At(m, x) \in Elements
    BY <1>2, <1>3, AtElement
  <2>3. Eval(g, r) = gf_mul(l, Eval(nb, r))
    BY <1>1, <1>3, <2>1, ScaledEval
  <2>4. At(g, x) = gf_mul(l, At(nb, x))
    BY <2>3 DEF At
  <2>5. l \in Elements \ {Zero}
    BY <1>3 DEF Units
  <2> HIDE DEF l
  <2>6. At(g, x) = Zero <=> At(nb, x) = Zero
    <3>1. At(nb, x) = Zero => gf_mul(l, At(nb, x)) = Zero
      BY <2>5, MulZeroOne
    <3>2. At(nb, x) # Zero => gf_mul(l, At(nb, x)) # Zero
      BY <2>2, <2>5, MulNonzero
    <3> QED
      BY <2>4, <3>1, <3>2
  <2>7. At(f, x) = Plus(At(m, x), gf_mul(At(q, x), At(nb, x)))
    BY <1>2, <2>1 DEF At
  <2> QED
    BY <2>2, <2>6, <2>7
<1>5. RootsIn(g) \subseteq RootsIn(m)
  <2> SUFFICES ASSUME NEW x \in RootsIn(g) PROVE x \in RootsIn(m)
    OBVIOUS
  <2>1. x \in Units /\ At(g, x) = Zero /\ At(f, x) = Zero
    BY DEF RootsIn
  <2>2. At(nb, x) = Zero /\ gf_mul(At(q, x), Zero) = Zero
    BY <1>4, <2>1, MulZeroOne
  <2>3. At(m, x) = Zero
    BY <1>4, <2>1, <2>2, PlusZero
  <2> QED
    BY <2>1, <2>3 DEF RootsIn
<1>6. ~ Nonzero(m)
  <2> SUFFICES ASSUME Nonzero(m) PROVE FALSE
    OBVIOUS
  <2>1. Cardinality(RootsIn(m)) <= Deg(m)
    BY <1>2, UnitBound
  <2>2. Cardinality(RootsIn(g)) <= Cardinality(RootsIn(m))
    BY <1>5, RootsFinite, FS_Subset
  <2>3. Cardinality(RootsIn(g)) = Deg(g)
    BY DEF Splits
  <2>4. Deg(m) \in Nat /\ Cardinality(RootsIn(m)) \in Nat
    BY <1>2, PolynomialType, RootsFinite
  <2> QED
    BY <1>1, <1>2, <2>1, <2>2, <2>3, <2>4
<1>7. \A x \in Units : At(f, x) = Zero <=> At(q, x) = Zero \/ At(g, x) = Zero
  <2> TAKE x \in Units
  <2>1. At(m, x) = Zero
    BY <1>2, <1>6, UnitLog, AllZero DEF At
  <2>2. At(f, x) = gf_mul(At(q, x), At(nb, x))
    BY <1>4, <2>1, PlusZero
  <2>3. At(q, x) # Zero /\ At(nb, x) # Zero => gf_mul(At(q, x), At(nb, x)) # Zero
    BY <1>4, MulNonzero
  <2>4. At(q, x) = Zero \/ At(nb, x) = Zero => gf_mul(At(q, x), At(nb, x)) = Zero
    BY <1>4, MulZeroOne
  <2> QED
    BY <1>4, <2>2, <2>3, <2>4
<1>8. RootsIn(f) \ RootsIn(g) \subseteq RootsIn(q)
  BY <1>7 DEF RootsIn
<1>9. Nonzero(q)
  <2>1. Deg(f) - Deg(g) \in Int
    BY <1>1
  <2> QED
    BY <1>1, <1>2, <2>1 DEF Nonzero
<1>10. Cardinality(RootsIn(q)) <= Deg(q)
  BY <1>2, <1>9, UnitBound
<1>11. Cardinality(RootsIn(f) \ RootsIn(g)) = Deg(f) - Deg(g)
  <2> DEFINE A == RootsIn(f)
             B == RootsIn(g)
  <2>1. IsFiniteSet(A) /\ IsFiniteSet(B) /\ Cardinality(A) = Deg(f) /\ Cardinality(B) = Deg(g)
        /\ B \subseteq A
    BY RootsFinite DEF Splits
  <2> HIDE DEF A, B
  <2>2. A \cap B = B
    BY <2>1
  <2>3. Cardinality(A \ B) = Cardinality(A) - Cardinality(A \cap B)
    BY <2>1, FS_Difference
  <2> QED
    BY <2>1, <2>2, <2>3 DEF A, B
<1>12. RootsIn(q) = RootsIn(f) \ RootsIn(g)
  <2> DEFINE A == RootsIn(f) \ RootsIn(g)
             B == RootsIn(q)
  <2>1. IsFiniteSet(B) /\ Cardinality(B) \in Nat /\ A \subseteq B /\ Cardinality(B) <= Cardinality(A)
    BY <1>2, <1>8, <1>10, <1>11, RootsFinite
  <2> HIDE DEF A, B
  <2>2. Cardinality(A) <= Cardinality(B) /\ Cardinality(A) \in Nat
    <3>1. IsFiniteSet(A)
      BY <2>1, FS_Subset
    <3> QED
      BY <2>1, <3>1, FS_Subset, FS_CardinalityType
  <2>3. Cardinality(A) = Cardinality(B)
    BY <2>1, <2>2
  <2>4. A = B
    BY <2>1, <2>3, FS_Subset
  <2> QED
    BY <2>4 DEF A, B
<1>13. Splits(q)
  BY <1>2, <1>9, <1>11, <1>12 DEF Splits
<1> QED
  BY <1>2, <1>12, <1>13, <1>q

-----------------------------------------------------------------------------
\* The traces at the roots, and the split by them

\* p(X)^2, as the code squares z.
SquareOf(z) ==
  Poly(2 * Deg(z), [j \in 0 .. 2 * Deg(z) |->
    IF j % 2 = 0 THEN gf_sqr(Coef(z, j \div 2)) ELSE Zero])

LEMMA SquareEval ==
  ASSUME NEW z \in Polynomials
  PROVE  /\ SquareOf(z) \in Polynomials /\ Deg(SquareOf(z)) = 2 * Deg(z)
         /\ \A r \in Nat : Eval(SquareOf(z), r) = gf_sqr(Eval(z, r))
<1> DEFINE d == Deg(z)
           n == 2 * d
           c == [j \in 0..n |-> IF j % 2 = 0 THEN gf_sqr(Coef(z, j \div 2)) ELSE Zero]
           w == SquareOf(z)
<1>1. d \in Nat /\ n \in Nat /\ n = 2 * d
  BY PolynomialType
<1>2. \A j \in 0..n : /\ c[j] \in Elements
                      /\ c[j] = IF j % 2 = 0 THEN gf_sqr(Coef(z, j \div 2)) ELSE Zero
  BY CoefElement, SquareFacts, OneElement
<1>3. w = Poly(n, c)
  BY DEF SquareOf
<1> HIDE DEF c, n
<1>4. /\ w \in Polynomials /\ Deg(w) = n
      /\ \A j \in Int : Coef(w, j) = IF j \in 0..n THEN c[j] ELSE Zero
  BY <1>1, <1>2, <1>3, PolyCoefs
<1> HIDE DEF w
<1>5. \A j \in 0..d : Coef(w, 2 * j) = gf_sqr(Coef(z, j))
  <2> TAKE j \in 0..d
  <2>1. 2 * j \in 0..n /\ 2 * j \in Int /\ (2 * j) % 2 = 0 /\ (2 * j) \div 2 = j
    BY <1>1
  <2>2. c[2 * j] = gf_sqr(Coef(z, j))
    BY <1>2, <2>1
  <2> QED
    BY <1>4, <2>1, <2>2
<1>6. \A j \in 0..n : j % 2 # 0 => Coef(w, j) = Zero
  <2> TAKE j \in 0..n
  <2> HAVE j % 2 # 0
  <2>1. j \in Int
    OBVIOUS
  <2> QED
    BY <1>2, <1>4, <2>1
<1>7. ASSUME NEW r \in Nat
      PROVE  Eval(w, r) = gf_sqr(Eval(z, r))
  <2> DEFINE B == Span(0, d)
             C == Span(0, n)
             m == [j \in B |-> 2 * j]
             D == {m[j] : j \in B}
             f == Summands(z, r)
             h == Summands(w, r)
             L == [y \in Elements |-> gf_sqr(y)]
             g == [j \in B |-> L[f[j]]]
  <2>1. /\ IsFiniteSet(B) /\ IsFiniteSet(C)
        /\ (\A j \in B : j \in Nat /\ j \in 0..d /\ m[j] = 2 * j)
        /\ (\A j \in C : j \in Nat /\ j \in 0..n)
    BY <1>1, SpanFinite
  <2>2. \A i \in B : \A j \in B : m[i] = m[j] => i = j
    BY <2>1
  <2>3. D \in SUBSET C
    <3> SUFFICES ASSUME NEW j \in B PROVE m[j] \in C
      OBVIOUS
    <3>1. m[j] = 2 * j /\ j \in Nat /\ j \in 0..d
      BY <2>1
    <3>2. m[j] \in Nat /\ m[j] <= n
      BY <1>1, <3>1
    <3> HIDE DEF m
    <3> QED
      BY <1>1, <3>2, SpanFinite
  <2>4. \A j \in C \ D : j % 2 # 0
    <3> SUFFICES ASSUME NEW j \in C, j % 2 = 0 PROVE j \in D
      OBVIOUS
    <3>1. j \in Nat /\ j <= n
      BY <2>1
    <3> DEFINE i == j \div 2
    <3>2. i \in Nat /\ i <= d /\ 2 * i = j
      BY <1>1, <3>1
    <3> HIDE DEF i
    <3>3. i \in B
      BY <1>1, <3>2, SpanFinite
    <3>4. m[i] = j
      BY <2>1, <3>2, <3>3
    <3> QED
      BY <3>3, <3>4
  <2>5. \A j \in C \ D : h[j] = {}
    <3> TAKE j \in C \ D
    <3>1. j \in Nat /\ Coef(w, j) = Zero
      BY <1>6, <2>1, <2>4
    <3>2. h[j] = gf_mul(Coef(w, j), a_pow(r * j)) /\ a_pow(r * j) \in Elements
      BY <1>4, <3>1, SummandElement
    <3> QED
      BY <3>1, <3>2, MulZeroOne DEF Zero
  <2>6. \A j \in B : f[j] \in Elements /\ g[j] = gf_sqr(f[j]) /\ g[j] = L[f[j]]
    BY <2>1, SummandElement
  <2>7. \A j \in B : g[j] = h[m[j]]
    <3> TAKE j \in B
    <3>1. j \in Nat /\ j \in 0..d /\ m[j] = 2 * j /\ 2 * j \in Nat
      BY <2>1
    <3>2. h[2 * j] = gf_mul(Coef(w, 2 * j), a_pow(r * (2 * j)))
      BY <1>4, <3>1, SummandElement
    <3>3. f[j] = gf_mul(Coef(z, j), a_pow(r * j)) /\ Coef(z, j) \in Elements /\ a_pow(r * j) \in Elements
      BY <3>1, SummandElement
    <3>4. gf_sqr(f[j]) = gf_mul(gf_sqr(Coef(z, j)), gf_sqr(a_pow(r * j)))
      BY <3>3, SquareMul
    <3>5. r * j \in Nat /\ 2 * (r * j) = r * (2 * j)
      BY <3>1
    <3>6. gf_sqr(a_pow(r * j)) = a_pow(2 * (r * j))
      BY <3>5, SquareFacts
    <3>7. Coef(w, 2 * j) = gf_sqr(Coef(z, j))
      BY <1>5, <3>1
    <3>8. g[j] = gf_sqr(f[j])
      BY <2>6
    <3> HIDE DEF g, h, f, m
    <3> QED
      BY <3>1, <3>2, <3>4, <3>5, <3>6, <3>7, <3>8
  <2>8. Linear(L, M)
    <3> SUFFICES ASSUME NEW x \in Elements, NEW y \in Elements
                 PROVE  L[Plus(x, y)] = Plus(L[x], L[y])
      BY PrimReducing DEF Linear
    <3>1. Plus(x, y) \in Elements
      BY PlusElement
    <3> QED
      BY <3>1, SquarePlus
  <2>s. SumOf(B, f) = Eval(z, r) /\ SumOf(C, h) = Eval(w, r)
    BY <1>4 DEF Eval
  <2>e. Eval(z, r) \in Elements /\ L[Eval(z, r)] = gf_sqr(Eval(z, r))
    BY EvalElement
  <2>d. D = {m[j] : j \in B}
    OBVIOUS
  <2> HIDE DEF B, C, D, m, f, h, L, g
  <2>9. SumOf(C, h) = SumOf(D, h)
    BY <2>1, <2>3, <2>5, SumWithin
  <2>10. SumOf(D, h) = SumOf(B, g)
    BY <2>1, <2>2, <2>7, <2>d, SumMapped
  <2>11. \A j \in B : f[j] \in Below(M)
    BY <2>6, PrimReducing
  <2>12. L[SumOf(B, f)] = SumOf(B, g)
    BY <2>1, <2>6, <2>8, <2>11, SumLinearTo
  <2> QED
    BY <2>9, <2>10, <2>12, <2>s, <2>e
<1> QED
  BY <1>4, <1>7 DEF w, n, d

LEMMA NormalAt ==
  ASSUME NEW g \in Polynomials, Coef(g, Deg(g)) # Zero, NEW x \in Units, At(g, x) = Zero
  PROVE  At(Normal(g), x) = Zero
<1> DEFINE l == Coef(g, Deg(g))
           nb == Normal(g)
           r == a_log(x)
<1>1. r \in Nat
  BY UnitLog
<1>2. nb \in Polynomials /\ l \in Elements \ {Zero} /\ \A i \in Int : Coef(g, i) = gf_mul(l, Coef(nb, i))
  BY NormalCoef, CoefElement
<1> HIDE DEF l, nb, r
<1>3. Eval(g, r) = gf_mul(l, Eval(nb, r)) /\ Eval(nb, r) \in Elements
  BY <1>1, <1>2, ScaledEval, EvalElement
<1>4. Eval(nb, r) # Zero => gf_mul(l, Eval(nb, r)) # Zero
  BY <1>2, <1>3, MulNonzero
<1> QED
  BY <1>3, <1>4 DEF At, nb, r

\* The remainder takes the values of the dividend at the roots of the divisor.
LEMMA ModAtRoot ==
  ASSUME NEW a \in Polynomials, NEW f \in Polynomials, Coef(f, Deg(f)) # Zero, Deg(f) >= 1
  PROVE  /\ gf_poly_mod(a, f) \in Polynomials /\ Deg(gf_poly_mod(a, f)) < Deg(f)
         /\ \A x \in RootsIn(f) : At(gf_poly_mod(a, f), x) = At(a, x)
<1>1. gf_poly_mod(a, f) \in Polynomials /\ Deg(gf_poly_mod(a, f)) < Deg(f)
  BY ModType
<1>2. \A x \in RootsIn(f) : At(gf_poly_mod(a, f), x) = At(a, x)
  <2> TAKE x \in RootsIn(f)
  <2>1. x \in Units /\ At(f, x) = Zero
    BY DEF RootsIn
  <2>2. CASE Deg(a) < Deg(f)
    BY <2>2 DEF gf_poly_mod
  <2>3. CASE ~ (Deg(a) < Deg(f))
    <3>0. Deg(f) <= Deg(a)
      BY <2>3, PolynomialType
    <3>1. \A r \in Nat : Eval(a, r) = Plus(Eval(gf_poly_mod(a, f), r),
                                           gf_mul(Eval(gf_poly_div(a, f), r), Eval(Normal(f), r)))
      BY <3>0, DivisionEval
    <3>2. gf_poly_div(a, f) \in Polynomials
      BY <3>0, DivisionEval
    <3>3. a_log(x) \in Nat
      BY <2>1, UnitLog
    <3>4. At(Normal(f), x) = Zero
      BY <2>1, NormalAt
    <3>5. At(a, x) = Plus(At(gf_poly_mod(a, f), x), gf_mul(At(gf_poly_div(a, f), x), Zero))
      BY <3>1, <3>3, <3>4 DEF At
    <3>6. gf_mul(At(gf_poly_div(a, f), x), Zero) = Zero
      BY <2>1, <3>2, AtElement, MulZeroOne
    <3> QED
      BY <3>5, <3>6, PlusZero
  <2> QED
    BY <2>2, <2>3
<1> QED
  BY <1>1, <1>2

\* At a root of f, the sum that the code forms is the trace of a^k times the root.
LEMMA TraceAt ==
  ASSUME NEW k \in 1..M, NEW f, Splits(f), Deg(f) >= 2
  PROVE  LET tk == compute_trace_bk_mod(k, f)
         IN  /\ tk \in Polynomials /\ Deg(tk) \in Nat /\ Deg(tk) < Deg(f)
             /\ Deg(tk) > 0 => Coef(tk, Deg(tk)) # Zero
             /\ \A x \in RootsIn(f) : At(tk, x) = Tr(gf_mul(a_pow(k), x))
<1> DEFINE t == Sums(k, f)
           Y(x) == gf_mul(a_pow(k), x)
           Good(s, i) ==
             /\ Deg(s.z) < Deg(f) /\ Deg(s.out) < Deg(f)
             /\ \A x \in RootsIn(f) : /\ At(s.z, x) = Conj(Y(x), i)
                                      /\ At(s.out, x) = SumOf(Span(0, i - 1), Conjs(Y(x)))
           I == {i \in 0..M : Good(t[i], i)}
<1>1. f \in Polynomials /\ Deg(f) \in Nat /\ Coef(f, Deg(f)) # Zero /\ Deg(f) >= 1
  BY SplitEnds
<1>2. k \in 0..N /\ k \in Logs /\ k \in Nat
  BY Sizes DEF Logs
<1>3. /\ compute_trace_bk_mod(k, f) = Trimmed(t[M].out)
      /\ t[0] = [z |-> <<Zero, a_pow_tab[k]>>, out |-> Constant(Zero)]
      /\ \A i \in 1..M : t[i] = [z   |-> Squared(t[i-1].z, f),
                                out |-> Added(t[i-1].out, t[i-1].z)]
      /\ \A i \in 0..M : t[i] \in [z : Polynomials, out : Polynomials]
  BY <1>1, <1>2, TraceTable
<1>4. a_pow_tab[k] = a_pow(k) /\ a_pow(k) \in Elements
  BY <1>2, PowOfLog, PowUnit
<1>5. \A x \in RootsIn(f) : x \in Units /\ x \in Elements /\ Y(x) \in Elements
  BY <1>4, FieldOps DEF RootsIn, Units
<1> HIDE DEF t, Y
<1>6. 0 \in I
  <2> DEFINE p == <<Zero, a_pow_tab[k]>>
  <2>1. p \in Polynomials /\ Deg(p) = 1 /\ Coef(p, 0) = Zero /\ Coef(p, 1) = a_pow(k)
    BY <1>4, OneElement DEF Polynomials, Deg, Coef
  <2>2. t[0].z = p /\ t[0].out = Constant(Zero)
    BY <1>3
  <2> HIDE DEF p
  <2>3. ASSUME NEW x \in RootsIn(f)
        PROVE  At(p, x) = Conj(Y(x), 0) /\ At(Constant(Zero), x) = SumOf(Span(0, 0 - 1), Conjs(Y(x)))
    <3>1. At(p, x) = Plus(gf_mul(Coef(p, 1), x), Coef(p, 0))
      BY <1>5, <2>1, HornerAt
    <3>2. At(p, x) = Y(x)
      BY <2>1, <3>1, PlusZero DEF Y
    <3>3. Conj(Y(x), 0) = Y(x)
      BY <1>5, ConjSteps
    <3>4. Span(0, 0 - 1) = {}
      BY DEF Span
    <3>5. SumOf(Span(0, 0 - 1), Conjs(Y(x))) = Zero
      BY <3>4, SumEmpty DEF Zero
    <3>6. At(Constant(Zero), x) = Zero
      BY <1>5, UnitLog, NullEval DEF At
    <3> QED
      BY <3>2, <3>3, <3>5, <3>6
  <2>4. Deg(p) < Deg(f) /\ Deg(Constant(Zero)) < Deg(f)
    BY <1>1, <2>1, NullEval
  <2>5. Good(t[0], 0)
    BY <2>2, <2>3, <2>4
  <2>6. 0 \in 0..M
    BY Sizes
  <2> HIDE DEF Good
  <2> QED
    BY <2>5, <2>6
<1>7. \A i \in 0 .. M-1 : i \in I => i + 1 \in I
  <2> TAKE i \in 0 .. M-1
  <2> HAVE i \in I
  <2>1. i \in Nat /\ i \in 0..M /\ i + 1 \in 1..M /\ i + 1 \in 0..M /\ (i + 1) - 1 = i
    BY Sizes
  <2> DEFINE s == t[i]
             z == s.z
             out == s.out
             zz == Squared(z, f)
             oo == Added(out, z)
  <2>2. z \in Polynomials /\ out \in Polynomials
    BY <1>3, <2>1
  <2>3. t[i+1].z = zz /\ t[i+1].out = oo
    <3>1. t[i+1] = [z |-> Squared(t[(i+1)-1].z, f), out |-> Added(t[(i+1)-1].out, t[(i+1)-1].z)]
      BY <1>3, <2>1
    <3>2. t[(i+1)-1] = s
      BY <2>1
    <3> HIDE DEF s
    <3>3. t[i+1] = [z |-> Squared(s.z, f), out |-> Added(s.out, s.z)]
      BY <3>1, <3>2
    <3> QED
      BY <3>3
  <2>4. /\ Deg(z) < Deg(f) /\ Deg(out) < Deg(f)
        /\ \A x \in RootsIn(f) : /\ At(z, x) = Conj(Y(x), i)
                                 /\ At(out, x) = SumOf(Span(0, i - 1), Conjs(Y(x)))
    OBVIOUS
  <2>5. zz = gf_poly_mod(SquareOf(z), f)
    BY DEF Squared, SquareOf
  <2> HIDE DEF z, out
  <2>6. SquareOf(z) \in Polynomials /\ \A r \in Nat : Eval(SquareOf(z), r) = gf_sqr(Eval(z, r))
    BY <2>2, SquareEval
  <2>7. Deg(zz) < Deg(f) /\ \A x \in RootsIn(f) : At(zz, x) = At(SquareOf(z), x)
    BY <1>1, <2>5, <2>6, ModAtRoot
  <2>8. /\ Deg(oo) = IF Deg(out) > Deg(z) THEN Deg(out) ELSE Deg(z)
        /\ \A r \in Nat : Eval(oo, r) = Plus(Eval(out, r), Eval(z, r))
    BY <2>2, AddedEval
  <2> HIDE DEF zz, oo
  <2>9. Deg(oo) < Deg(f)
    BY <2>4, <2>8
  <2>10. ASSUME NEW x \in RootsIn(f)
         PROVE  /\ At(zz, x) = Conj(Y(x), i + 1)
                /\ At(oo, x) = SumOf(Span(0, (i + 1) - 1), Conjs(Y(x)))
    <3> DEFINE y == Y(x)
               c == Conjs(y)
    <3>1. x \in Units /\ y \in Elements /\ a_log(x) \in Nat
      BY <1>5, UnitLog
    <3>2. At(zz, x) = gf_sqr(At(z, x))
      BY <2>6, <2>7, <3>1 DEF At
    <3>3. Conj(y, i + 1) = gf_sqr(Conj(y, i))
      BY <2>1, <3>1, ConjSteps
    <3>4. At(oo, x) = Plus(At(out, x), At(z, x))
      BY <2>8, <3>1 DEF At
    <3>5. c[i] = Conj(y, i)
      BY <2>1 DEF Conjs
    <3>6. Span(0, (i + 1) - 1) = Span(0, i - 1) \cup {i} /\ i \notin Span(0, i - 1)
      BY <2>1 DEF Span
    <3>7. IsFiniteSet(Span(0, i - 1))
      BY <2>1, SpanFinite
    <3>8. At(z, x) = Conj(y, i) /\ At(out, x) = SumOf(Span(0, i - 1), c)
      BY <2>4
    <3>9. At(zz, x) = Conj(y, i + 1)
      BY <3>2, <3>3, <3>8
    <3> HIDE DEF c
    <3>10. SumOf(Span(0, i - 1) \cup {i}, c) = Plus(SumOf(Span(0, i - 1), c), c[i])
      BY <3>6, <3>7, SumAdd
    <3>11. At(oo, x) = SumOf(Span(0, (i + 1) - 1), c)
      BY <3>4, <3>5, <3>6, <3>8, <3>10
    <3> QED
      BY <3>9, <3>11 DEF c
  <2>11. Good(t[i+1], i + 1)
    BY <2>3, <2>7, <2>9, <2>10
  <2> HIDE DEF Good
  <2> QED
    BY <2>1, <2>11
<1> HIDE DEF I
<1>8. 0..M \subseteq I
  BY <1>6, <1>7, Sizes, Induction
<1>9. M \in 0..M
  BY Sizes
<1>10. Good(t[M], M)
  BY <1>8, <1>9 DEF I
<1> DEFINE out == t[M].out
<1>11. out \in Polynomials /\ Deg(out) < Deg(f)
  BY <1>3, <1>9, <1>10
<1>12. \A x \in RootsIn(f) : At(out, x) = Tr(Y(x))
  BY <1>10 DEF Tr
<1> HIDE DEF out, Good
<1>13. /\ Trimmed(out) \in Polynomials /\ Deg(Trimmed(out)) <= Deg(out)
       /\ \A j \in Int : Coef(Trimmed(out), j) = Coef(out, j)
       /\ Deg(Trimmed(out)) > 0 => Coef(out, Deg(Trimmed(out))) # Zero
  BY <1>11, TrimmedKeeps
<1>14. Deg(Trimmed(out)) \in Nat /\ Deg(out) \in Nat
  BY <1>11, <1>13, PolynomialType
<1>15. \A x \in RootsIn(f) : At(Trimmed(out), x) = At(out, x)
  <2> TAKE x \in RootsIn(f)
  <2>1. a_log(x) \in Nat
    BY <1>5, UnitLog
  <2> QED
    BY <1>11, <1>13, <2>1, SameTerms DEF At
<1>16. \A x \in RootsIn(f) : At(Trimmed(out), x) = Tr(Y(x))
  BY <1>12, <1>15
<1>17. Deg(Trimmed(out)) < Deg(f)
  BY <1>1, <1>11, <1>13, <1>14
<1>18. Deg(Trimmed(out)) > 0 => Coef(Trimmed(out), Deg(Trimmed(out))) # Zero
  <2>1. Deg(Trimmed(out)) \in Int
    BY <1>14
  <2> QED
    BY <1>13, <2>1
<1>19. compute_trace_bk_mod(k, f) = Trimmed(out)
  BY <1>3 DEF out
<1> QED
  BY <1>13, <1>14, <1>16, <1>17, <1>18, <1>19 DEF Y

\* A split of f in two polynomials with its roots between them, those of one with
\* trace 0 and those of the other with trace 1.
SplitBy(f, g, q, k) ==
  /\ Splits(g) /\ Splits(q) /\ Deg(g) < Deg(f) /\ Deg(q) < Deg(f)
  /\ RootsIn(g) = {x \in RootsIn(f) : Tr(gf_mul(a_pow(k), x)) = Zero}
  /\ RootsIn(q) = RootsIn(f) \ RootsIn(g)

SameTrace(f, k) ==
  \A x \in RootsIn(f) : \A y \in RootsIn(f) :
    Tr(gf_mul(a_pow(k), x)) = Tr(gf_mul(a_pow(k), y))

\* A polynomial that is One at as many places as it has roots elsewhere is constant.
LEMMA SomeZero ==
  ASSUME NEW t \in Polynomials, NEW R \in SUBSET Units, Deg(t) > 0, Coef(t, Deg(t)) # Zero,
         Deg(t) < Cardinality(R)
  PROVE  \E x \in R : At(t, x) # One
<1> SUFFICES ASSUME \A x \in R : At(t, x) = One PROVE FALSE
  OBVIOUS
<1> DEFINE u == Constant(One)
           w == Added(t, u)
<1>1. u \in Polynomials /\ Deg(u) = 0 /\ \A r \in Nat : Eval(u, r) = One
  BY OneElement, ConstantType, ConstantEval
<1>2. Deg(t) \in Nat
  BY PolynomialType
<1> HIDE DEF u
<1>3. /\ w \in Polynomials /\ Deg(w) = IF Deg(t) > Deg(u) THEN Deg(t) ELSE Deg(u)
      /\ \A j \in Int : Coef(w, j) = Plus(Coef(t, j), Coef(u, j))
      /\ \A r \in Nat : Eval(w, r) = Plus(Eval(t, r), Eval(u, r))
  BY <1>1, AddedEval
<1> HIDE DEF w
<1>4. Deg(w) = Deg(t)
  BY <1>1, <1>3
<1>5. Coef(u, Deg(t)) = Zero
  BY <1>1, <1>2, CoefOutside
<1>6. Coef(w, Deg(t)) = Coef(t, Deg(t))
  BY <1>2, <1>3, <1>5, PlusZero
<1>7. Nonzero(w)
  <2>1. Deg(t) \in Int
    BY <1>2
  <2> QED
    BY <1>6, <2>1 DEF Nonzero
<1>8. R \subseteq RootsIn(w)
  <2> SUFFICES ASSUME NEW x \in R PROVE x \in RootsIn(w)
    OBVIOUS
  <2>1. x \in Units /\ a_log(x) \in Nat
    BY UnitLog
  <2>2. At(w, x) = Plus(At(t, x), One)
    BY <1>1, <1>3, <2>1 DEF At
  <2>3. At(w, x) = Zero
    BY <2>2, PlusZero
  <2> QED
    BY <2>1, <2>3 DEF RootsIn
<1>9. Cardinality(R) <= Cardinality(RootsIn(w)) /\ Cardinality(R) \in Nat
  <2>1. IsFiniteSet(RootsIn(w))
    BY RootsFinite
  <2>2. IsFiniteSet(R)
    BY <1>8, <2>1, FS_Subset
  <2> QED
    BY <1>8, <2>1, <2>2, FS_Subset, FS_CardinalityType
<1>10. Cardinality(RootsIn(w)) <= Deg(w) /\ Cardinality(RootsIn(w)) \in Nat
  BY <1>3, <1>7, UnitBound, RootsFinite
<1> QED
  BY <1>2, <1>4, <1>9, <1>10

LEMMA FactorSplit ==
  ASSUME NEW k \in 1..M, NEW f, Splits(f), Deg(f) >= 2, Deg(f) < N
  PROVE  LET fs == factor_polynomial(k, f)
         IN  \/ fs = <<f>> /\ SameTrace(f, k)
             \/ Len(fs) = 2 /\ SplitBy(f, fs[1], fs[2], k)
<1> DEFINE tk == compute_trace_bk_mod(k, f)
           g == gf_poly_gcd(f, tk)
           q == gf_poly_div(f, g)
           fs == factor_polynomial(k, f)
           Y(x) == gf_mul(a_pow(k), x)
<1>1. f \in Polynomials /\ Deg(f) \in Nat
  BY SplitEnds
<1>2. /\ tk \in Polynomials /\ Deg(tk) \in Nat /\ Deg(tk) < Deg(f)
      /\ Deg(tk) > 0 => Coef(tk, Deg(tk)) # Zero
      /\ \A x \in RootsIn(f) : At(tk, x) = Tr(Y(x))
  BY TraceAt
<1>3. fs = IF Deg(tk) > 0 /\ Deg(g) < Deg(f) THEN <<g, q>> ELSE <<f>>
  BY DEF factor_polynomial
<1>4. \A x \in RootsIn(f) : x \in Units /\ Y(x) \in Elements /\ Tr(Y(x)) \in {Zero, One}
  <2> TAKE x \in RootsIn(f)
  <2>1. x \in Units /\ x \in Elements /\ k \in Nat
    BY DEF RootsIn, Units
  <2>2. Y(x) \in Elements
    BY <2>1, PowUnit, FieldOps
  <2> HIDE DEF Y
  <2> QED
    BY <2>1, <2>2, TrBinary
<1>f. fs = factor_polynomial(k, f)
  OBVIOUS
<1>y. \A x : Y(x) = gf_mul(a_pow(k), x)
  OBVIOUS
<1> HIDE DEF tk, fs, Y
<1>5. CASE Deg(tk) = 0
  <2>1. fs = <<f>>
    BY <1>3, <1>5
  <2>2. \A x \in RootsIn(f) : At(tk, x) = Coef(tk, 0)
    <3> TAKE x \in RootsIn(f)
    <3>1. a_log(x) \in Nat
      BY <1>4, UnitLog
    <3> QED
      BY <1>2, <1>5, <3>1, ConstantEval DEF At
  <2>3. SameTrace(f, k)
    BY <1>2, <1>y, <2>2 DEF SameTrace
  <2> QED
    BY <1>f, <2>1, <2>3
<1>6. CASE Deg(tk) > 0
  <2>0. Coef(tk, Deg(tk)) # Zero /\ Deg(tk) < Deg(f)
    BY <1>2, <1>6
  <2>1. PICK z \in RootsIn(f) : At(tk, z) # One
    <3>1. RootsIn(f) \in SUBSET Units /\ Cardinality(RootsIn(f)) = Deg(f)
      BY RootsFinite DEF Splits
    <3>2. Deg(tk) < Cardinality(RootsIn(f))
      BY <2>0, <3>1
    <3> QED
      BY <1>2, <1>6, <2>0, <3>1, <3>2, SomeZero
  <2>2. At(tk, z) = Zero
    BY <1>2, <1>4, <2>1
  <2>3. /\ Splits(g) /\ Deg(g) \in Nat /\ 1 <= Deg(g) /\ Deg(g) < Deg(f)
        /\ RootsIn(g) = {x \in RootsIn(f) : At(tk, x) = Zero}
    BY <1>2, <1>6, <2>0, <2>2, GcdSplits
  <2> HIDE DEF g
  <2>4. RootsIn(g) \subseteq RootsIn(f)
    BY <2>3
  <2>5. Splits(q) /\ Deg(q) = Deg(f) - Deg(g) /\ RootsIn(q) = RootsIn(f) \ RootsIn(g)
    BY <2>3, <2>4, QuotientSplits
  <2>6. Deg(q) < Deg(f)
    BY <1>1, <2>3, <2>5
  <2>7. RootsIn(g) = {x \in RootsIn(f) : Tr(Y(x)) = Zero}
    BY <1>2, <2>3
  <2>8. RootsIn(g) = {x \in RootsIn(f) : Tr(gf_mul(a_pow(k), x)) = Zero}
    BY <1>y, <2>7
  <2> HIDE DEF q
  <2>9. SplitBy(f, g, q, k)
    BY <2>3, <2>5, <2>6, <2>8 DEF SplitBy
  <2>10. fs = <<g, q>>
    BY <1>3, <1>6, <2>3
  <2>11. Len(fs) = 2 /\ fs[1] = g /\ fs[2] = q
    BY <2>10
  <2> QED
    BY <1>f, <2>9, <2>11
<1> QED
  BY <1>2, <1>5, <1>6

-----------------------------------------------------------------------------
\* The roots of a polynomial that splits, listed

LEMMA SmallLists ==
  ASSUME NEW n, NEW h, NEW q, Splits(q), Deg(q) <= 4
  PROVE  Lists(Found(n, h, q), RootsIn(q))
<1>1. q \in Polynomials /\ Deg(q) \in Nat
  BY SplitEnds
<1>2. CASE Deg(q) = 0
  <2>1. Found(n, h, q) = <<>>
    BY <1>2 DEF Found
  <2>2. Cardinality(RootsIn(q)) = 0 /\ IsFiniteSet(RootsIn(q))
    BY <1>2, RootsFinite DEF Splits
  <2>3. RootsIn(q) = {}
    BY <2>2, FS_EmptySet
  <2>4. <<>> \in Seq(Logs) /\ Len(<<>>) = 0
    BY EmptySeq
  <2> QED
    BY <2>1, <2>2, <2>3, <2>4 DEF Lists
<1>3. CASE Deg(q) = 1
  <2>1. Found(n, h, q) = find_poly_deg1_roots(q)
    BY <1>3 DEF Found
  <2> QED
    BY <1>3, <2>1, Deg1Lists
<1>4. CASE Deg(q) = 2
  <2>1. Found(n, h, q) = find_poly_deg2_roots(q)
    BY <1>4 DEF Found
  <2> QED
    BY <1>4, <2>1, Deg2Lists
<1>5. CASE Deg(q) = 3
  <2>1. Found(n, h, q) = find_poly_deg3_roots(q)
    BY <1>5 DEF Found
  <2> QED
    BY <1>5, <2>1, Deg3Lists
<1>6. CASE Deg(q) = 4
  <2>1. Found(n, h, q) = find_poly_deg4_roots(q)
    BY <1>6 DEF Found
  <2> QED
    BY <1>6, <2>1, Deg4Lists
<1> QED
  BY <1>1, <1>2, <1>3, <1>4, <1>5, <1>6

\* The roots of f have the same trace with the first m powers of a.
Agree(f, m) == \A k \in 1..m : SameTrace(f, k)

\* All M traces tell any two elements apart.
LEMMA AgreeAll ==
  ASSUME NEW f, Splits(f), Agree(f, M)
  PROVE  Deg(f) <= 1
<1> SUFFICES ASSUME ~ (Deg(f) <= 1) PROVE FALSE
  OBVIOUS
<1>1. Deg(f) \in Nat /\ Cardinality(RootsIn(f)) = Deg(f) /\ IsFiniteSet(RootsIn(f))
  BY SplitEnds, RootsFinite DEF Splits
<1>2. PICK x \in RootsIn(f) : \E y \in RootsIn(f) : x # y
  BY <1>1, TwoApart
<1>3. PICK y \in RootsIn(f) : x # y
  BY <1>2
<1>4. x \in Elements /\ y \in Elements
  BY DEF RootsIn, Units
<1> DEFINE v == Plus(x, y)
<1>5. v \in Elements /\ v # Zero
  BY <1>3, <1>4, PlusElement, PlusZero
<1>6. \A k \in 1..M : Tr(gf_mul(a_pow(k), v)) = Zero
  <2> TAKE k \in 1..M
  <2> DEFINE a == a_pow(k)
             p == gf_mul(a, x)
             q == gf_mul(a, y)
  <2>1. k \in Nat
    OBVIOUS
  <2>2. a \in Elements
    BY <2>1, PowUnit
  <2>3. Tr(p) = Tr(q)
    BY DEF Agree, SameTrace
  <2> HIDE DEF a
  <2>4. p \in Elements /\ q \in Elements
    BY <1>4, <2>2, FieldOps
  <2>5. gf_mul(a, v) = Plus(p, q)
    BY <1>4, <2>2, MulDistributes
  <2> HIDE DEF p, q
  <2>6. Tr(Plus(p, q)) = Plus(Tr(p), Tr(q))
    BY <2>4, TrPlus
  <2>7. Tr(gf_mul(a, v)) = Zero
    BY <2>3, <2>5, <2>6, PlusZero
  <2> QED
    BY <2>7 DEF a
<1> HIDE DEF v
<1> QED
  BY <1>5, <1>6, TracesApart DEF Units

LEMMA ConcatLists ==
  ASSUME NEW s, NEW r, NEW A, NEW B, Lists(s, A), Lists(r, B), IsFiniteSet(A), IsFiniteSet(B),
         A \cap B = {}
  PROVE  Lists(s \o r, A \cup B)
<1>1. s \in Seq(Logs) /\ r \in Seq(Logs)
  BY DEF Lists
<1>2. /\ Len(s) \in Nat /\ Len(r) \in Nat
      /\ Len(s) = Cardinality(A) /\ Len(r) = Cardinality(B)
      /\ \A x \in A : \E j \in 1 .. Len(s) : s[j] = a_ilog(x)
      /\ \A x \in B : \E j \in 1 .. Len(r) : r[j] = a_ilog(x)
  BY <1>1, LenProperties DEF Lists
<1> DEFINE t == s \o r
<1>3. /\ t \in Seq(Logs) /\ Len(t) = Len(s) + Len(r)
      /\ \A i \in 1 .. Len(s) + Len(r) : t[i] = IF i <= Len(s) THEN s[i] ELSE r[i - Len(s)]
  BY <1>1, ConcatProperties
<1> HIDE DEF t
<1>4. Cardinality(A \cup B) = Cardinality(A) + Cardinality(B)
  <2>1. Cardinality(A \cup B) = Cardinality(A) + Cardinality(B) - Cardinality(A \cap B)
    BY FS_Union
  <2>2. Cardinality(A \cap B) = 0
    BY FS_EmptySet
  <2> QED
    BY <1>2, <2>1, <2>2
<1>5. \A x \in A : \E j \in 1 .. Len(t) : t[j] = a_ilog(x)
  <2> TAKE x \in A
  <2>1. PICK j \in 1 .. Len(s) : s[j] = a_ilog(x)
    BY <1>2
  <2>2. j \in 1 .. Len(s) + Len(r) /\ j <= Len(s)
    BY <1>2
  <2> QED
    BY <1>3, <2>1, <2>2
<1>6. \A x \in B : \E j \in 1 .. Len(t) : t[j] = a_ilog(x)
  <2> TAKE x \in B
  <2>1. PICK j \in 1 .. Len(r) : r[j] = a_ilog(x)
    BY <1>2
  <2> DEFINE i == j + Len(s)
  <2>2. i \in 1 .. Len(s) + Len(r) /\ ~ (i <= Len(s)) /\ i - Len(s) = j
    BY <1>2
  <2> HIDE DEF i
  <2>3. t[i] = r[j]
    BY <1>3, <2>2
  <2> QED
    BY <1>3, <2>1, <2>2, <2>3
<1>7. Lists(t, A \cup B)
  BY <1>2, <1>3, <1>4, <1>5, <1>6 DEF Lists
<1> QED
  BY <1>7 DEF t

\* What h gives for a polynomial that splits and whose roots agree on m traces.
Complete(h, m) ==
  \A q : Splits(q) /\ Deg(q) < N /\ Agree(q, m) => Lists(h[q], RootsIn(q))

LEMMA FoundLists ==
  ASSUME NEW n \in 1..M, NEW h, Complete(h, M - (n - 1)),
         NEW q, Splits(q), Deg(q) < N, Agree(q, M - n)
  PROVE  Lists(Found(n, h, q), RootsIn(q))
<1>1. CASE Deg(q) <= 4
  BY <1>1, SmallLists
<1>2. CASE ~ (Deg(q) <= 4)
  <2> DEFINE k == M + 1 - n
             fs == factor_polynomial(k, q)
             r1 == h[fs[1]]
             r2 == IF Len(fs) = 2 THEN h[fs[2]] ELSE <<>>
  <2>1. Deg(q) \in Nat /\ M \in Nat
    BY SplitEnds, Sizes
  <2>2. Found(n, h, q) = r1 \o r2
    <3>1. /\ Deg(q) # 1 /\ Deg(q) # 2 /\ Deg(q) # 3 /\ Deg(q) # 4
          /\ ~ (Deg(q) = 0 \/ (Deg(q) > 4 /\ n = 0))
      BY <1>2, <2>1
    <3> QED
      BY <3>1, Zenon DEF Found
  <2>3. k \in 1..M /\ Deg(q) >= 2 /\ M - (n - 1) = k /\ M - n = k - 1 /\ k \in Nat
    BY <1>2, <2>1
  <2> HIDE DEF k
  <2>4. \/ fs = <<q>> /\ SameTrace(q, k)
        \/ Len(fs) = 2 /\ SplitBy(q, fs[1], fs[2], k)
    BY <2>3, FactorSplit
  <2> HIDE DEF fs
  <2>5. \A j \in 1..k : j = k \/ j \in 1 .. k-1
    BY <2>3
  <2>6. Complete(h, k) /\ Agree(q, k - 1)
    BY <2>3
  <2>7. CASE fs = <<q>> /\ SameTrace(q, k)
    <3>1. r1 = h[q] /\ r2 = <<>>
      BY <2>7
    <3> HIDE DEF r1, r2
    <3>2. Agree(q, k)
      BY <2>5, <2>6, <2>7 DEF Agree
    <3>3. Lists(h[q], RootsIn(q))
      BY <2>6, <3>2 DEF Complete
    <3>4. h[q] \in Seq(Logs)
      BY <3>3 DEF Lists
    <3>5. h[q] \o <<>> = h[q]
      BY <3>4, ConcatEmptySeq
    <3> QED
      BY <2>2, <3>1, <3>3, <3>5
  <2>8. CASE Len(fs) = 2 /\ SplitBy(q, fs[1], fs[2], k)
    <3> DEFINE f1 == fs[1]
               f2 == fs[2]
    <3>1. r1 = h[f1] /\ r2 = h[f2]
      BY <2>8
    <3>2. SplitBy(q, f1, f2, k)
      BY <2>8
    <3> HIDE DEF r1, r2, f1, f2
    <3>3. /\ Splits(f1) /\ Splits(f2) /\ Deg(f1) < Deg(q) /\ Deg(f2) < Deg(q)
          /\ RootsIn(f1) = {x \in RootsIn(q) : Tr(gf_mul(a_pow(k), x)) = Zero}
          /\ RootsIn(f2) = RootsIn(q) \ RootsIn(f1)
      BY <3>2 DEF SplitBy
    <3>4. Deg(f1) < N /\ Deg(f2) < N
      <4>1. Deg(f1) \in Nat /\ Deg(f2) \in Nat /\ N \in Nat
        BY <3>3, SplitEnds, Sizes
      <4> QED
        BY <2>1, <3>3, <4>1
    <3>5. \A x \in RootsIn(q) : Tr(gf_mul(a_pow(k), x)) \in {Zero, One}
      <4> TAKE x \in RootsIn(q)
      <4>1. x \in Elements
        BY DEF RootsIn, Units
      <4>2. gf_mul(a_pow(k), x) \in Elements
        BY <2>3, <4>1, PowUnit, FieldOps
      <4> QED
        BY <4>2, TrBinary
    <3>6. SameTrace(f1, k) /\ SameTrace(f2, k)
      BY <3>3, <3>5 DEF SameTrace
    <3>7. \A j \in 1 .. k-1 : SameTrace(f1, j) /\ SameTrace(f2, j)
      <4>1. RootsIn(f1) \subseteq RootsIn(q) /\ RootsIn(f2) \subseteq RootsIn(q)
        BY <3>3
      <4> QED
        BY <2>6, <4>1 DEF Agree, SameTrace
    <3>8. Agree(f1, k) /\ Agree(f2, k)
      BY <2>5, <3>6, <3>7 DEF Agree
    <3>9. Lists(h[f1], RootsIn(f1)) /\ Lists(h[f2], RootsIn(f2))
      BY <2>6, <3>3, <3>4, <3>8 DEF Complete
    <3>10. RootsIn(f1) \cap RootsIn(f2) = {} /\ RootsIn(f1) \cup RootsIn(f2) = RootsIn(q)
      BY <3>3
    <3>11. Lists(h[f1] \o h[f2], RootsIn(f1) \cup RootsIn(f2))
      BY <3>9, <3>10, RootsFinite, ConcatLists
    <3> QED
      BY <2>2, <3>1, <3>10, <3>11
  <2> QED
    BY <2>4, <2>7, <2>8
<1> QED
  BY <1>1, <1>2

\* find_poly_roots lists the places of the roots of every polynomial that has as
\* many nonzero ones as its degree: the splits by M traces (bch.c:743-931) leave
\* no factor above degree 1 unsolved, and none of the formulas for the degrees up
\* to 4 (bch.c:576-725) misses a root.
THEOREM RootsListed ==
  ASSUME NEW p, Splits(p), Deg(p) < N
  PROVE  Lists(find_poly_roots(p), RootsIn(p))
<1> DEFINE I == {n \in 0..M : Complete(Roots[n], M - n)}
<1>1. M \in Nat
  BY Sizes
<1>2. \A n \in 0..M : \A q : Splits(q) => Roots[n][q] = Found(n, Roots[n-1], q)
  BY RootsTable DEF Splits
<1>3. 0 \in I
  <2>1. M - 0 = M /\ 0 \in 0..M
    BY <1>1
  <2>2. ASSUME NEW q, Splits(q), Deg(q) < N, Agree(q, M)
        PROVE  Lists(Roots[0][q], RootsIn(q))
    <3>1. Deg(q) <= 4
      BY <2>2, AgreeAll, SplitEnds
    <3>2. Roots[0][q] = Found(0, Roots[0-1], q)
      BY <1>2, <2>1, <2>2
    <3> QED
      BY <2>2, <3>1, <3>2, SmallLists
  <2>3. Complete(Roots[0], M)
    BY <2>2 DEF Complete
  <2> QED
    BY <2>1, <2>3
<1>4. \A n \in 0 .. M-1 : n \in I => n + 1 \in I
  <2> TAKE n \in 0 .. M-1
  <2> HAVE n \in I
  <2> DEFINE m == n + 1
             h == Roots[n]
  <2>1. m \in 1..M /\ m \in 0..M /\ m - 1 = n
    BY <1>1
  <2>2. Complete(h, M - (m - 1))
    BY <2>1
  <2>3. \A q : Splits(q) => Roots[m][q] = Found(m, h, q)
    BY <1>2, <2>1
  <2> HIDE DEF m, h
  <2>4. ASSUME NEW q, Splits(q), Deg(q) < N, Agree(q, M - m)
        PROVE  Lists(Roots[m][q], RootsIn(q))
    <3>1. Lists(Found(m, h, q), RootsIn(q))
      BY <2>1, <2>2, <2>4, FoundLists
    <3> QED
      BY <2>3, <2>4, <3>1
  <2>5. Complete(Roots[m], M - m)
    BY <2>4 DEF Complete
  <2> QED
    BY <2>1, <2>5 DEF m
<1> HIDE DEF I
<1>5. 0..M \subseteq I
  BY <1>1, <1>3, <1>4, Induction
<1>6. M \in 0..M /\ M - M = 0
  BY <1>1
<1>7. Complete(Roots[M], 0)
  BY <1>5, <1>6 DEF I
<1>8. Agree(p, 0)
  BY DEF Agree
<1> QED
  BY <1>7, <1>8 DEF Complete, find_poly_roots

-----------------------------------------------------------------------------
\* The locations of the errors

\* A list of the roots of p, when their places are known.
LEMMA RootPlaces ==
  ASSUME NEW p \in Polynomials, NEW c \in SUBSET Logs, Coef(p, 0) # Zero,
         Deg(p) = Cardinality(c), \A i \in Logs : Eval(p, N - i) = Zero <=> i \in c
  PROVE  /\ Splits(p)
         /\ \A x \in RootsIn(p) : a_ilog(x) \in c
         /\ \A i \in c : \E x \in RootsIn(p) : a_ilog(x) = i
         /\ Cardinality(RootsIn(p)) = Cardinality(c)
<1> DEFINE R == RootsIn(p)
           m == [x \in R |-> a_ilog(x)]
           none == [i \in Logs |-> Zero]
<1>1. \A x \in Units : a_ilog(x) \in Logs /\ Opposite(a_ilog(x)) = a_log(x)
                       /\ At(p, x) = Eval(p, N - a_ilog(x))
  <2> TAKE x \in Units
  <2> DEFINE l == a_log(x)
  <2>1. l \in Logs
    BY UnitLog
  <2>2. a_ilog(x) = Opposite(l)
    BY DEF a_ilog, Opposite
  <2>3. At(p, x) = Eval(p, l)
    BY DEF At
  <2> HIDE DEF l
  <2> DEFINE i == Opposite(l)
  <2>4. i \in Logs /\ Opposite(i) = l
    BY <2>1, OppositeEval
  <2> HIDE DEF i
  <2>5. Eval(p, Opposite(i)) = Eval(p, N - i)
    BY <2>4, OppositeEval
  <2>6. a_ilog(x) = i
    BY <2>2 DEF i
  <2> QED
    BY <2>3, <2>4, <2>5, <2>6 DEF l
<1>2. \A x \in R : x \in Units /\ a_ilog(x) \in c
  <2> TAKE x \in R
  <2>1. x \in Units /\ At(p, x) = Zero
    BY DEF RootsIn
  <2> QED
    BY <1>1, <2>1
<1>3. \A i \in c : \E x \in R : a_ilog(x) = i
  <2> TAKE i \in c
  <2> DEFINE l == Opposite(i)
             x == a_pow_tab[l]
  <2>1. i \in Logs
    OBVIOUS
  <2>2. l \in Logs /\ Opposite(l) = i
    BY <2>1, OppositeEval
  <2> HIDE DEF l
  <2>3. x \in Units /\ a_log(x) = l
    BY <2>2, PowerNonzero, LogPower DEF Units
  <2>4. a_ilog(x) = Opposite(a_log(x))
    BY DEF a_ilog, Opposite
  <2> HIDE DEF x
  <2>5. a_ilog(x) = i
    BY <2>2, <2>3, <2>4
  <2>6. At(p, x) = Zero
    BY <1>1, <2>3, <2>5
  <2>7. x \in R
    BY <2>3, <2>6 DEF RootsIn
  <2> QED
    BY <2>5, <2>7
<1>4. \A x \in R : \A y \in R : m[x] = m[y] => x = y
  <2> TAKE x \in R
  <2> TAKE y \in R
  <2> HAVE m[x] = m[y]
  <2>1. x \in Units /\ y \in Units /\ a_ilog(x) = a_ilog(y)
    BY <1>2
  <2>2. a_log(x) = a_log(y)
    BY <1>1, <2>1
  <2> QED
    BY <2>1, <2>2, UnitLog
<1>5. c = {m[x] : x \in R}
  BY <1>2, <1>3
<1>6. IsFiniteSet(R)
  BY RootsFinite
<1> DEFINE g == [x \in R |-> none[m[x]]]
<1>7. \A x \in R : g[x] = none[m[x]]
  OBVIOUS
<1>8. Cardinality(R) = Cardinality(c)
  <2> HIDE DEF m, g, none, R
  <2> QED
    BY <1>4, <1>5, <1>6, <1>7, SumMapped
<1>9. Nonzero(p)
  BY DEF Nonzero
<1>10. Splits(p)
  BY <1>8, <1>9 DEF Splits
<1> QED
  BY <1>2, <1>3, <1>8, <1>10

\* No two places of a list are the same.
Once(s) == \A j \in DOMAIN s : \A k \in DOMAIN s : s[j] = s[k] => j = k

LEMMA ListedOnce ==
  ASSUME NEW s \in Seq(Logs), NEW c \in SUBSET Logs, Len(s) = Cardinality(c),
         \A i \in c : \E j \in 1 .. Len(s) : s[j] = i
  PROVE  Once(s) /\ (\A j \in 1 .. Len(s) : s[j] \in c) /\ DOMAIN s = 1 .. Len(s)
<1> DEFINE n == Len(s)
           D == {s[j] : j \in 1..n}
<1>1. n \in Nat /\ DOMAIN s = 1..n /\ s \in [1..n -> Logs]
  BY LenProperties
<1>2. IsFiniteSet(1..n) /\ Cardinality(1..n) = n
  BY <1>1, FS_Interval
<1>3. s \in Surjection(1..n, D)
  <2>1. s \in [1..n -> D]
    BY <1>1
  <2> QED
    BY <2>1 DEF Surjection
<1> HIDE DEF n
<1>4. IsFiniteSet(D) /\ Cardinality(D) <= n
  <2> HIDE DEF D
  <2> QED
    BY <1>2, <1>3, FS_Surjection
<1>5. c \subseteq D
  BY DEF n
<1>6. Cardinality(c) = n
  BY DEF n
<1>7. D = c
  <2> HIDE DEF D
  <2>1. Cardinality(c) <= Cardinality(D) /\ Cardinality(D) \in Nat
    BY <1>4, <1>5, FS_Subset, FS_CardinalityType
  <2>2. Cardinality(c) = Cardinality(D)
    BY <1>1, <1>4, <1>6, <2>1
  <2> QED
    BY <1>4, <1>5, <2>2, FS_Subset
<1>8. s \in Injection(1..n, D)
  <2> HIDE DEF D
  <2> QED
    BY <1>2, <1>3, <1>6, <1>7, FS_SurjSameCardinalityImpliesInj
<1>9. Once(s)
  BY <1>1, <1>8 DEF Injection, IsInjective, Once
<1>10. \A j \in 1..n : s[j] \in c
  BY <1>7
<1> QED
  BY <1>1, <1>9, <1>10 DEF n

\* The bits of the data that the locations s name.
Left(s) == {b \in 0 .. 8 * Bytes - 1 : \E j \in DOMAIN s : s[j] = b}

\* The roots of the locator polynomial, listed, become the bits to flip.
LEMMA PlacedBits ==
  ASSUME Fits, NEW r \in Below(8 * Bytes), NEW ecc \in Below(ecc_bits),
         NEW w \in Below(8 * Bytes), NEW elp, NEW roots \in Seq(Logs),
         NEW c, c = Errors(r, ecc, w), c \in SUBSET Logs,
         Deg(elp) = Cardinality(c), Len(roots) = Cardinality(c),
         \A i \in c : \E j \in 1 .. Len(roots) : roots[j] = i
  PROVE  LET res == Located(elp, roots)
         IN  /\ res.nerr = Len(roots) /\ Len(roots) \in Nat /\ Once(res.errloc)
             /\ Left(res.errloc) = Plus(r, w)
<1> DEFINE n == Len(roots)
           e == [j \in DOMAIN roots |-> Placed(roots, j)]
           x == Plus(r, w)
           Rev(i) == BitReversed(nbits - 1 - i)
<1>1. /\ n \in Nat /\ DOMAIN roots = 1..n /\ Once(roots) /\ \A j \in 1..n : roots[j] \in c
      /\ roots \in [1..n -> Logs]
  BY ListedOnce, LenProperties
<1>2. c = ErrorPlaces(r, ecc, w)
  BY SameErrors
<1>3. \A i \in c : /\ i \in 0 .. nbits - 1
                   /\ IF i < ecc_bits THEN TRUE ELSE Rev(i) \in x
  BY <1>2 DEF ErrorPlaces
<1>4. nbits \in Nat /\ ecc_bits \in Nat /\ Bytes \in Nat
  BY Sizes, GeneratorReducing DEF Reducing, nbits
<1>5. x \in Below(8 * Bytes) /\ Early(x, Bytes) = x /\ c = Joined(Plus(ecc, bch_encode(w)), x)
      /\ Places(x, Bytes) \subseteq c
  <2>2. x \in Below(8 * Bytes) /\ Plus(ecc, bch_encode(w)) \in Below(ecc_bits)
    BY EncodeType, BelowPlus
  <2>3. c = Joined(Plus(ecc, bch_encode(w)), x)
    BY DEF Errors
  <2> HIDE DEF x
  <2>4. /\ Early(x, Bytes) = x
        /\ c = Plus(ecc, bch_encode(w)) \cup Places(x, Bytes)
    BY <2>2, <2>3, JoinedSize DEF Fits
  <2> QED
    BY <2>2, <2>3, <2>4
<1>6. \A j \in 1..n : roots[j] < nbits /\ roots[j] \in Nat /\ nbits - 1 - roots[j] \in Nat
  <2> TAKE j \in 1..n
  <2>1. roots[j] \in 0 .. nbits - 1
    BY <1>1, <1>3
  <2> QED
    BY <1>4, <2>1
<1>7. \A j \in 1..n : e[j] = Rev(roots[j])
  <2> TAKE j \in 1..n
  <2>1. ~ (\E k \in 1..j : roots[k] >= nbits)
    <3> SUFFICES ASSUME NEW k \in 1..j PROVE ~ (roots[k] >= nbits)
      OBVIOUS
    <3>1. k \in 1..n
      BY <1>1
    <3> QED
      BY <1>4, <1>6, <3>1
  <2>2. e[j] = Placed(roots, j)
    BY <1>1
  <2> QED
    BY <2>1, <2>2 DEF Placed
<1>8. Located(elp, roots) = [nerr |-> n, errloc |-> e]
  <2>1. ~ (\E j \in DOMAIN roots : roots[j] >= nbits)
    BY <1>1, <1>4, <1>6
  <2> QED
    BY <2>1 DEF Located
<1>9. DOMAIN e = 1..n
  BY <1>1
<1>10. \A j \in 1..n : e[j] \in Nat /\ Position(Bytes, e[j]) = roots[j]
  <2> TAKE j \in 1..n
  <2> DEFINE m == nbits - 1 - roots[j]
  <2>1. m \in Nat /\ nbits - 1 - m = roots[j]
    BY <1>4, <1>6
  <2>2. e[j] = BitReversed(m)
    BY <1>7
  <2> HIDE DEF m, e
  <2>3. BitReversed(m) \in Nat /\ Position(Bytes, BitReversed(m)) = nbits - 1 - m
    BY <2>1, PositionReversed
  <2> QED
    BY <2>1, <2>2, <2>3
<1> HIDE DEF e, n
<1>11. Once(e)
  <2> SUFFICES ASSUME NEW j \in 1..n, NEW k \in 1..n, e[j] = e[k] PROVE j = k
    BY <1>9 DEF Once
  <2>1. roots[j] = roots[k]
    BY <1>10
  <2> QED
    BY <1>1, <2>1 DEF Once
<1>12. Left(e) = x
  <2>1. \A b \in x : b \in 0 .. 8 * Bytes - 1 /\ \E j \in 1..n : e[j] = b
    <3> TAKE b \in x
    <3>1. b \in 0 .. 8 * Bytes - 1
      BY <1>5 DEF Below
    <3>2. b \in Nat
      BY <3>1
    <3> DEFINE i == Position(Bytes, b)
    <3>3. i \in c
      BY <1>5 DEF Places
    <3>4. Rev(i) = b
      BY <3>2, ReversedPosition
    <3> HIDE DEF i
    <3>5. PICK j \in 1..n : roots[j] = i
      BY <3>3 DEF n
    <3>6. e[j] = b
      BY <1>7, <3>4, <3>5
    <3> QED
      BY <3>1, <3>6
  <2>2. \A j \in 1..n : e[j] < 8 * Bytes => e[j] \in x
    <3> TAKE j \in 1..n
    <3> HAVE e[j] < 8 * Bytes
    <3>1. e[j] \in Nat /\ Position(Bytes, e[j]) = roots[j]
      BY <1>10
    <3>2. Position(Bytes, e[j]) \in ecc_bits .. ecc_bits + 8 * Bytes - 1
      BY <1>4, <3>1, PositionType
    <3>3. ~ (roots[j] < ecc_bits)
      BY <1>4, <3>1, <3>2
    <3>4. Rev(roots[j]) \in x
      BY <1>1, <1>3, <3>3
    <3> QED
      BY <1>7, <3>4
  <2> HIDE DEF x
  <2>3. \A b \in 0 .. 8 * Bytes - 1 : b < 8 * Bytes
    BY <1>4
  <2> QED
    BY <1>9, <2>1, <2>2, <2>3 DEF Left
<1> QED
  BY <1>1, <1>8, <1>11, <1>12 DEF n

\* A response within T bits of the codeword of w is decoded to w.
LEMMA Decoded ==
  ASSUME Fits, NEW r \in Below(8 * Bytes), NEW kept \in Below(ecc_bits),
         NEW w \in Below(8 * Bytes),
         Cardinality(Plus(r, w)) + Cardinality(Plus(kept, bch_encode(w))) <= T
  PROVE  LET res == bch_decode(r, kept)
         IN  res.nerr >= 0 /\ Once(res.errloc) /\ Left(res.errloc) = Plus(r, w)
<1> DEFINE ecc == Plus(bch_encode(r), kept)
           p == compute_error_locator_polynomial(compute_syndromes(ecc))
           c == Errors(r, kept, w)
           res == bch_decode(r, kept)
<1>4. 8 * Bytes + ecc_bits <= N /\ ~ (8 * Bytes > N - ecc_bits)
  BY Sizes, GeneratorReducing DEF Reducing, Fits
<1>5. CASE ecc = Zero
  <2>1. res = [nerr |-> 0, errloc |-> <<>>]
    BY <1>4, <1>5 DEF bch_decode
  <2>2. kept = bch_encode(r)
    BY <1>5, PlusZero
  <2>3. Cardinality(Plus(r, r)) + Cardinality(Plus(kept, bch_encode(r))) <= T
    <3>1. Plus(r, r) = {} /\ Plus(kept, bch_encode(r)) = {}
      BY <2>2, PlusSelf
    <3> QED
      BY <3>1, FS_EmptySet, Sizes
  <2>4. r = w
    BY <2>3, OneNearest
  <2>5. Once(<<>>) /\ Left(<<>>) = {}
    BY DEF Once, Left
  <2>6. Plus(r, w) = {}
    BY <2>4, PlusSelf
  <2>7. res.nerr >= 0 /\ Once(res.errloc) /\ Left(res.errloc) = Plus(r, w)
    BY <2>1, <2>5, <2>6
  <2> QED
    BY <2>7
<1>6. CASE ecc # Zero
  <2>1. /\ c \in SUBSET Logs
        /\ Cardinality(c) = Cardinality(Plus(r, w)) + Cardinality(Plus(kept, bch_encode(w)))
        /\ p \in Polynomials /\ Deg(p) = Cardinality(c) /\ Coef(p, 0) = One
        /\ \A i \in Logs : Eval(p, N - i) = Zero <=> i \in c
    BY <1>4, LocatorOfErrors
  <2>2. res = Sought(p)
    BY <1>4, <1>6 DEF bch_decode
  <2>0. c = Errors(r, kept, w)
    OBVIOUS
  <2> HIDE DEF p, c
  <2>3. Coef(p, 0) # Zero
    BY <2>1, OneElement
  <2>4. /\ Splits(p)
        /\ \A i \in c : \E x \in RootsIn(p) : a_ilog(x) = i
        /\ Cardinality(RootsIn(p)) = Cardinality(c)
    BY <2>1, <2>3, RootPlaces
  <2>5. Deg(p) <= T /\ Deg(p) \in Nat /\ Deg(p) < N
    <3>1. Deg(p) <= T /\ Deg(p) \in Nat
      BY <2>1, PolynomialType
    <3>2. T < N
      <4>1. M \in Nat /\ T \in Nat /\ N \in Nat /\ M >= 1 /\ T >= 1
        BY Sizes
      <4>2. M * T < N /\ M * T >= T /\ M * T \in Nat
        BY <4>1, BchAssumption
      <4> QED
        BY <4>1, <4>2
    <3> QED
      BY <3>1, <3>2, Sizes
  <2> DEFINE roots == find_poly_roots(p)
  <2>6. Lists(roots, RootsIn(p))
    BY <2>4, <2>5, RootsListed
  <2> HIDE DEF roots
  <2>7. roots \in Seq(Logs) /\ Len(roots) = Cardinality(c)
    BY <2>4, <2>6 DEF Lists
  <2>8. \A i \in c : \E j \in 1 .. Len(roots) : roots[j] = i
    <3> TAKE i \in c
    <3>1. PICK x \in RootsIn(p) : a_ilog(x) = i
      BY <2>4
    <3> QED
      BY <2>6, <3>1 DEF Lists
  <2>9. res = Located(p, roots)
    <3>1. ~ TooMany(p)
      BY <2>5, Sizes DEF TooMany
    <3> QED
      BY <2>2, <3>1 DEF Sought, roots
  <2> HIDE DEF res
  <2>10. LET z == Located(p, roots)
         IN  /\ z.nerr = Len(roots) /\ Len(roots) \in Nat /\ Once(z.errloc)
             /\ Left(z.errloc) = Plus(r, w)
    BY <2>1, <2>7, <2>8, <2>0, PlacedBits
  <2>11. res.nerr >= 0 /\ Once(res.errloc) /\ Left(res.errloc) = Plus(r, w)
    BY <2>9, <2>10
  <2> QED
    BY <2>11 DEF res
<1> QED
  BY <1>5, <1>6

-----------------------------------------------------------------------------
\* What the loop over errloc changes

\* What a sum has is in one of its terms, and what one term alone has is in the sum.
LEMMA SumNames ==
  ASSUME NEW S, IsFiniteSet(S), NEW h, NEW i, i \in SumOf(S, h)
  PROVE  \E x \in S : i \in h[x]
<1> DEFINE A == {x \in S : i \in h[x]}
<1>1. OddSized(A)
  BY SumBits
<1> HIDE DEF A
<1>2. A # {}
  BY <1>1, FS_EmptySet DEF OddSized
<1> QED
  BY <1>2 DEF A

LEMMA SumNamed ==
  ASSUME NEW S, IsFiniteSet(S), NEW h, NEW i, NEW j \in S, i \in h[j],
         \A x \in S : i \in h[x] => x = j
  PROVE  i \in SumOf(S, h)
<1> DEFINE A == {x \in S : i \in h[x]}
<1>1. i \in SumOf(S, h) <=> OddSized(A)
  BY SumBits
<1>2. A = {j}
  OBVIOUS
<1> HIDE DEF A
<1>3. Cardinality(A) = 1
  BY <1>2, FS_Singleton
<1> QED
  BY <1>1, <1>3 DEF OddSized

\* The bits of the data that the loop over errloc changes in the end: a location
\* that is named twice is flipped back.
Flipped(s) == SumOf(1 .. Len(s), [j \in 1 .. Len(s) |-> {s[j]} \cap (0 .. 8 * Bytes - 1)])

LEMMA FlippedSize ==
  ASSUME NEW s \in Seq(Nat)
  PROVE  /\ Flipped(s) \in Data /\ IsFiniteSet(Flipped(s))
         /\ Cardinality(Flipped(s)) \in Nat /\ Cardinality(Flipped(s)) <= Len(s)
<1> DEFINE n == Len(s)
           B == 0 .. 8 * Bytes - 1
           h == [j \in 1..n |-> {s[j]} \cap B]
           named == {s[j] : j \in 1..n}
           f == Flipped(s)
<1>1. n \in Nat /\ s \in [1..n -> Nat]
  BY LenProperties
<1>0. n \in Nat
  BY <1>1
<1>2. IsFiniteSet(1..n) /\ Cardinality(1..n) = n
  <2> HIDE DEF n
  <2> QED
    BY <1>0, FS_Interval
<1>3. f = SumOf(1..n, h)
  BY DEF Flipped
<1>4. \A j \in 1..n : h[j] = {s[j]} \cap B
  OBVIOUS
<1> HIDE DEF h, n, f
<1>5. ASSUME NEW i \in f PROVE i \in named \cap B
  <2> DEFINE S == 1..n
  <2>1. IsFiniteSet(S) /\ i \in SumOf(S, h)
    BY <1>2, <1>3, <1>5
  <2> HIDE DEF S, B
  <2>2. \E x \in S : i \in h[x]
    BY <2>1, SumNames
  <2> QED
    BY <1>4, <2>2 DEF S
<1>6. s \in Surjection(1..n, named)
  <2>1. s \in [1..n -> named]
    BY <1>1
  <2> QED
    BY <2>1 DEF Surjection
<1> HIDE DEF named
<1>7. IsFiniteSet(named) /\ Cardinality(named) <= n
  BY <1>2, <1>6, FS_Surjection
<1>8. f \subseteq named /\ f \subseteq B
  BY <1>5
<1>9. IsFiniteSet(f) /\ Cardinality(f) <= Cardinality(named)
  BY <1>7, <1>8, FS_Subset
<1>10. Cardinality(f) \in Nat /\ Cardinality(named) \in Nat
  BY <1>7, <1>9, FS_CardinalityType
<1>11. Cardinality(f) <= n
  BY <1>1, <1>7, <1>9, <1>10
<1> QED
  BY <1>8, <1>9, <1>10, <1>11 DEF Data, f, n

\* Locations that are all different name what is flipped.
LEMMA FlippedOnce ==
  ASSUME NEW s \in Seq(Nat), Once(s)
  PROVE  Flipped(s) = Left(s)
<1> DEFINE n == Len(s)
           B == 0 .. 8 * Bytes - 1
           h == [j \in 1..n |-> {s[j]} \cap B]
<1>1. n \in Nat /\ DOMAIN s = 1..n
  BY LenProperties
<1>2. IsFiniteSet(1..n)
  BY <1>1, FS_Interval
<1>3. Flipped(s) = SumOf(1..n, h)
  BY DEF Flipped
<1>4. \A j \in 1..n : h[j] = {s[j]} \cap B
  OBVIOUS
<1>5. \A i : i \in Left(s) <=> i \in B /\ \E j \in 1..n : s[j] = i
  BY <1>1 DEF Left
<1> HIDE DEF h, n
<1>6. ASSUME NEW i PROVE i \in Flipped(s) <=> i \in Left(s)
  <2> DEFINE S == 1..n
  <2>1. IsFiniteSet(S) /\ Flipped(s) = SumOf(S, h)
    BY <1>2, <1>3
  <2>2. ASSUME i \in Left(s) PROVE i \in SumOf(S, h)
    <3>1. PICK j \in S : s[j] = i
      BY <1>5, <2>2
    <3>2. \A x \in S : i \in h[x] => x = j
      BY <1>1, <1>4, <3>1 DEF Once
    <3>3. i \in h[j]
      BY <1>4, <1>5, <2>2, <3>1
    <3> HIDE DEF S, B
    <3> QED
      BY <2>1, <3>2, <3>3, SumNamed
  <2>3. ASSUME i \in SumOf(S, h) PROVE i \in Left(s)
    <3>1. \E x \in S : i \in h[x]
      <4> HIDE DEF S, B
      <4> QED
        BY <2>1, <2>3, SumNames
    <3> QED
      BY <1>4, <1>5, <3>1
  <2> QED
    BY <2>1, <2>2, <2>3
<1> QED
  BY <1>6

LEMMA FlippedNone == Flipped(<<>>) = {}
<1>1. 1 .. Len(<<>>) = {}
  BY EmptySeq
<1> QED
  BY <1>1, SumEmpty DEF Flipped

\* One round of the loop flips its location.
LEMMA FlippedTail ==
  ASSUME NEW s \in Seq(Nat), s # <<>>
  PROVE  /\ Head(s) \in Nat
         /\ Flipped(s) = IF Head(s) < 8 * Bytes THEN Plus({Head(s)}, Flipped(Tail(s)))
                         ELSE Flipped(Tail(s))
<1> DEFINE n == Len(s)
           B == 0 .. 8 * Bytes - 1
           t == Tail(s)
           g == [j \in 1..n |-> {s[j]} \cap B]
           h == [j \in 1 .. n-1 |-> {t[j]} \cap B]
           m == [j \in 1 .. n-1 |-> j + 1]
           w == 2 .. n
           one == {Head(s)} \cap B
<1>1. /\ n \in Nat \ {0} /\ Head(s) \in Nat /\ Head(s) = s[1]
      /\ Len(t) = n - 1 /\ \A j \in 1 .. n-1 : t[j] = s[j+1]
  BY HeadTailProperties, EmptySeq, LenProperties
<1>2. Bytes \in Nat
  BY Sizes
<1>3. Flipped(s) = SumOf(1..n, g) /\ Flipped(t) = SumOf(1 .. n-1, h)
  BY <1>1 DEF Flipped
<1>4. SumOf(w, g) = SumOf(1 .. n-1, h)
  <2>1. IsFiniteSet(1 .. n-1)
    BY <1>1, FS_Interval
  <2>2. \A x \in 1 .. n-1 : \A y \in 1 .. n-1 : m[x] = m[y] => x = y
    BY <1>1
  <2>3. \A x \in 1 .. n-1 : h[x] = g[m[x]]
    BY <1>1
  <2>4. {m[x] : x \in 1 .. n-1} = w
    <3>1. \A y \in w : y - 1 \in 1 .. n-1 /\ m[y - 1] = y
      BY <1>1
    <3>2. \A x \in 1 .. n-1 : m[x] \in w
      BY <1>1
    <3> QED
      BY <3>1, <3>2
  <2> DEFINE S == 1 .. n-1
  <2>5. /\ IsFiniteSet(S) /\ \A x \in S : \A y \in S : m[x] = m[y] => x = y
        /\ \A x \in S : h[x] = g[m[x]]
        /\ w = {m[x] : x \in S}
    BY <2>1, <2>2, <2>3, <2>4
  <2> HIDE DEF w, m, g, h, S, n, t, B, one
  <2>6. SumOf(w, g) = SumOf(S, h)
    BY <2>5, SumMapped
  <2> QED
    BY <2>6 DEF S
<1>5. SumOf(1..n, g) = Plus(SumOf(w, g), one)
  <2>0. n \in Int /\ 2 \in Int
    BY <1>1
  <2>1. 1 \notin w /\ 1..n = w \cup {1} /\ g[1] = one
    BY <1>1
  <2>2. IsFiniteSet(w)
    <3> HIDE DEF n
    <3> QED
      BY <2>0, FS_Interval
  <2> HIDE DEF w, g, one
  <2> QED
    BY <2>1, <2>2, SumAdd
<1>6. Flipped(s) = Plus(Flipped(t), one)
  BY <1>3, <1>4, <1>5
<1>7. CASE Head(s) < 8 * Bytes
  <2>1. one = {Head(s)}
    BY <1>1, <1>2, <1>7
  <2> HIDE DEF one, t
  <2>2. Plus(Flipped(t), one) = Plus(one, Flipped(t))
    BY PlusZero
  <2> QED
    BY <1>1, <1>6, <1>7, <2>1, <2>2 DEF t
<1>8. CASE ~ (Head(s) < 8 * Bytes)
  <2>1. one = Zero
    BY <1>1, <1>2, <1>8 DEF Zero
  <2> QED
    BY <1>1, <1>6, <1>8, <2>1, PlusZero
<1> QED
  BY <1>7, <1>8

-----------------------------------------------------------------------------
\* The outcome of a response, and the block corrected

\* What FuzzyExtractor leaves open, as bch.c and the loop over errloc settle it:
\* the distances, and where a response r ends with the parity kept for e.
NoData == {8 * Bytes}

DataDist == [p \in Data \X Data |-> Cardinality(Plus(p[1], p[2]))]

ParityDist ==
  [p \in Data \X Data |-> Cardinality(Plus(bch_encode(p[1]), bch_encode(p[2])))]

Outcome ==
  [p \in Data \X Data |->
     LET res == bch_decode(p[1], bch_encode(p[2]))
     IN  IF res.nerr < 0 THEN NoData ELSE Plus(p[1], Flipped(res.errloc))]

Extractor == INSTANCE FuzzyExtractor WITH
  Blocks <- 1..8, Dist <- DataDist, EccDist <- ParityDist, Decode <- Outcome,
  Failed <- NoData

LEMMA PlusTwice == \A x, y : Plus(x, Plus(x, y)) = y
BY Zenon DEF Plus

LEMMA DataBelow == Data = Below(8 * Bytes) /\ 8 * Bytes \in Nat
BY Sizes DEF Data, Below

LEMMA DistOf ==
  ASSUME NEW a \in Data, NEW b \in Data
  PROVE  /\ DataDist[<<a, b>>] = Cardinality(Plus(a, b)) /\ DataDist[<<a, b>>] \in Nat
         /\ ParityDist[<<a, b>>] = Cardinality(Plus(bch_encode(a), bch_encode(b)))
         /\ ParityDist[<<a, b>>] \in Nat
<1>1. <<a, b>> \in Data \X Data /\ <<a, b>>[1] = a /\ <<a, b>>[2] = b
  OBVIOUS
<1>2. DataDist[<<a, b>>] = Cardinality(Plus(a, b))
  BY <1>1 DEF DataDist
<1>3. ParityDist[<<a, b>>] = Cardinality(Plus(bch_encode(a), bch_encode(b)))
  BY <1>1 DEF ParityDist
<1>4. Cardinality(Plus(a, b)) \in Nat
  BY DataPlus
<1>5. Cardinality(Plus(bch_encode(a), bch_encode(b))) \in Nat
  <2> DEFINE u == bch_encode(a)
             v == bch_encode(b)
  <2>1. u \in Below(ecc_bits) /\ v \in Below(ecc_bits) /\ ecc_bits \in Nat
    BY EncodeType, GeneratorReducing DEF Reducing
  <2> HIDE DEF u, v
  <2>2. Cardinality(Plus(u, v)) \in Nat
    BY <2>1, PlusTriangle
  <2> QED
    BY <2>2 DEF u, v
<1> QED
  BY <1>2, <1>3, <1>4, <1>5

LEMMA OutcomeOf ==
  ASSUME NEW r \in Data, NEW e \in Data
  PROVE  LET res == bch_decode(r, bch_encode(e))
         IN  /\ Outcome[<<r, e>>] = IF res.nerr < 0 THEN NoData
                                    ELSE Plus(r, Flipped(res.errloc))
             /\ res.nerr \in Int /\ res.errloc \in Seq(Nat) /\ Len(res.errloc) <= T
             /\ Len(res.errloc) \in Nat
             /\ Plus(r, Flipped(res.errloc)) \in Data
             /\ DataDist[<<r, Plus(r, Flipped(res.errloc))>>] <= T
<1> DEFINE kept == bch_encode(e)
           res == bch_decode(r, kept)
           f == Flipped(res.errloc)
<1>1. <<r, e>> \in Data \X Data /\ <<r, e>>[1] = r /\ <<r, e>>[2] = e
  OBVIOUS
<1>2. Outcome[<<r, e>>] = IF res.nerr < 0 THEN NoData ELSE Plus(r, f)
  BY <1>1 DEF Outcome
<1>3. kept \in Below(ecc_bits)
  BY EncodeType
<1>4. T \in Nat
  BY Sizes
<1> HIDE DEF kept
<1>5. res.nerr \in -1 .. T /\ res.errloc \in Seq(Nat) /\ Len(res.errloc) \in 0..T
  BY <1>3, DecodeType
<1> HIDE DEF res
<1>6. /\ f \in Data /\ Cardinality(f) \in Nat /\ Cardinality(f) <= Len(res.errloc)
  BY <1>5, FlippedSize
<1> HIDE DEF f
<1>7. Plus(r, f) \in Data
  BY <1>6, DataPlus
<1>8. Plus(r, Plus(r, f)) = f
  BY PlusTwice
<1>9. DataDist[<<r, Plus(r, f)>>] = Cardinality(f)
  BY <1>7, <1>8, DistOf
<1>10. DataDist[<<r, Plus(r, f)>>] <= T
  BY <1>4, <1>5, <1>6, <1>9
<1>11. res.nerr \in Int /\ Len(res.errloc) <= T /\ Len(res.errloc) \in Nat
  BY <1>4, <1>5
<1> QED
  BY <1>2, <1>5, <1>7, <1>10, <1>11 DEF f, res, kept

\* A response within T bits of a codeword ends as that codeword's data.
LEMMA OutcomeNear ==
  ASSUME Fits, NEW r \in Data, NEW e \in Data, NEW w \in Data,
         Cardinality(Plus(r, w)) + Cardinality(Plus(bch_encode(e), bch_encode(w))) <= T
  PROVE  Outcome[<<r, e>>] = w
<1> DEFINE kept == bch_encode(e)
           res == bch_decode(r, kept)
<1>1. kept \in Below(ecc_bits) /\ r \in Below(8 * Bytes) /\ w \in Below(8 * Bytes)
  BY EncodeType, DataBelow
<1>2. Cardinality(Plus(r, w)) + Cardinality(Plus(kept, bch_encode(w))) <= T
  OBVIOUS
<1>3. /\ Outcome[<<r, e>>] = IF res.nerr < 0 THEN NoData ELSE Plus(r, Flipped(res.errloc))
      /\ res.nerr \in Int /\ res.errloc \in Seq(Nat)
  BY OutcomeOf
<1> HIDE DEF kept
<1>4. res.nerr >= 0 /\ Once(res.errloc) /\ Left(res.errloc) = Plus(r, w)
  BY <1>1, <1>2, Decoded
<1> HIDE DEF res
<1>5. Flipped(res.errloc) = Plus(r, w)
  BY <1>3, <1>4, FlippedOnce
<1>6. Outcome[<<r, e>>] = Plus(r, Plus(r, w))
  BY <1>3, <1>4, <1>5
<1> QED
  BY <1>6, PlusTwice

\* All that FuzzyExtractor assumes of the BCH code is what bch.c does, for every
\* code that bch_init accepts and blocks that bch_decode does not refuse for their
\* size (puf_reconcile.c:126-148): unique decoding, exact recovery and all that
\* PufLifecycle builds on them rest on nothing about the codec but the code.
THEOREM CodecAsAssumed ==
  ASSUME Fits
  PROVE  Extractor!IsDistance /\ Extractor!IsEccDistance /\ Extractor!IsCode /\ Extractor!IsDecoder
<1>1. Extractor!IsDistance
  <2>1. DataDist \in [Data \X Data -> Nat]
    <3> SUFFICES ASSUME NEW p \in Data \X Data PROVE Cardinality(Plus(p[1], p[2])) \in Nat
      BY DEF DataDist
    <3>1. p[1] \in Data /\ p[2] \in Data
      OBVIOUS
    <3> QED
      BY <3>1, DataPlus
  <2>2. ASSUME NEW a \in Data, NEW b \in Data PROVE DataDist[<<a, b>>] = DataDist[<<b, a>>]
    BY DistOf, PlusZero
  <2>3. ASSUME NEW a \in Data, NEW b \in Data, NEW c \in Data
        PROVE  DataDist[<<a, c>>] <= DataDist[<<a, b>>] + DataDist[<<b, c>>]
    <3>1. Cardinality(Plus(a, c)) <= Cardinality(Plus(b, a)) + Cardinality(Plus(b, c))
      BY DataBelow, PlusTriangle
    <3>2. Plus(b, a) = Plus(a, b)
      BY PlusZero
    <3> QED
      BY <3>1, <3>2, DistOf
  <2> QED
    BY <2>1, <2>2, <2>3 DEF Extractor!IsDistance
<1>2. Extractor!IsEccDistance
  <2>1. ParityDist \in [Data \X Data -> Nat]
    <3> SUFFICES ASSUME NEW p \in Data \X Data PROVE ParityDist[p] \in Nat
      BY DEF ParityDist
    <3>1. p[1] \in Data /\ p[2] \in Data /\ p = <<p[1], p[2]>>
      OBVIOUS
    <3>2. ParityDist[<<p[1], p[2]>>] \in Nat
      BY <3>1, DistOf
    <3> QED
      BY <3>1, <3>2
  <2>2. ASSUME NEW a \in Data PROVE ParityDist[<<a, a>>] = 0
    BY DistOf, PlusSelf, FS_EmptySet
  <2> QED
    BY <2>1, <2>2 DEF Extractor!IsEccDistance
<1>3. Extractor!IsCode
  <2>1. ASSUME NEW a \in Data, NEW b \in Data, a # b
        PROVE  DataDist[<<a, b>>] + ParityDist[<<a, b>>] >= 2 * T + 1
    <3>1. Cardinality(Plus(a, b)) + Cardinality(Plus(bch_encode(a), bch_encode(b))) >= 2 * T + 1
      BY <2>1, DataBelow, CodewordDistance DEF Fits
    <3> QED
      BY <3>1, DistOf
  <2> QED
    BY <2>1, Sizes DEF Extractor!IsCode
<1>4. Extractor!IsDecoder
  <2>1. NoData \notin Data
    <3>1. 8 * Bytes \notin 0 .. 8 * Bytes - 1
      BY DataBelow
    <3> QED
      BY <3>1 DEF NoData, Data
  <2>2. Outcome \in [Data \X Data -> Data \cup {NoData}]
    <3> SUFFICES ASSUME NEW p \in Data \X Data PROVE Outcome[p] \in Data \cup {NoData}
      BY DEF Outcome
    <3>1. p[1] \in Data /\ p[2] \in Data /\ p = <<p[1], p[2]>>
      OBVIOUS
    <3>2. Outcome[<<p[1], p[2]>>] \in Data \cup {NoData}
      BY <3>1, OutcomeOf
    <3> QED
      BY <3>1, <3>2
  <2>3. ASSUME NEW r \in Data, NEW e \in Data, NEW c \in Extractor!Candidates(r, e)
        PROVE  Outcome[<<r, e>>] = c
    <3>1. c \in Data /\ DataDist[<<r, c>>] + ParityDist[<<c, e>>] <= T
      BY DEF Extractor!Candidates
    <3>2. Plus(bch_encode(c), bch_encode(e)) = Plus(bch_encode(e), bch_encode(c))
      BY PlusZero
    <3>3. Cardinality(Plus(r, c)) + Cardinality(Plus(bch_encode(e), bch_encode(c))) <= T
      BY <3>1, <3>2, DistOf
    <3> QED
      BY <3>1, <3>3, OutcomeNear
  <2>4. ASSUME NEW r \in Data, NEW e \in Data, Outcome[<<r, e>>] # NoData
        PROVE  DataDist[<<r, Outcome[<<r, e>>]>>] <= T
    BY <2>4, OutcomeOf
  <2> QED
    BY <2>1, <2>2, <2>3, <2>4 DEF Extractor!IsDecoder
<1> QED
  BY <1>1, <1>2, <1>3, <1>4

\* What is corrected one location at a time comes to the outcome of its response
\* and the parity kept.
Outcomes ==
  /\ pc = "correct" => Outcome[<<r_block, enrolled>>] = Plus(data_buf, Flipped(errloc))
  /\ pc = "done" => Outcome[<<r_block, enrolled>>] = data_buf
  /\ pc = "failed" => Outcome[<<r_block, enrolled>>] = NoData

LEMMA InitOutcomes == Init => Outcomes
BY DEF Init, Outcomes

LEMMA NextOutcomes == Inv /\ Stored /\ Outcomes /\ [Next]_vars => Outcomes'
<1> SUFFICES ASSUME Inv, Stored, Outcomes, [Next]_vars PROVE Outcomes'
  OBVIOUS
<1> DEFINE o == Outcome[<<r_block, enrolled>>]
<1>1. /\ r_block \in Data /\ enrolled \in Data /\ errloc \in Seq(Nat)
      /\ pc = "decode" => data_buf = r_block
  BY BlockAssumption DEF Inv, Flips, TypeOK, Data
<1>2. r_block' = r_block /\ enrolled' = enrolled => o' = o
  BY DEF Outcome, Data
<1>3. CASE Enroll
  <2>1. pc' = "capture"
    BY <1>3 DEF Enroll
  <2> QED
    BY <2>1 DEF Outcomes
<1>4. CASE Capture
  <2>1. pc' = "decode"
    BY <1>4 DEF Capture
  <2> QED
    BY <2>1 DEF Outcomes
<1>5. CASE Decode
  <2> DEFINE res == bch_decode(r_block, bch_encode(enrolled))
  <2>1. /\ pc = "decode" /\ errloc' = bch_decode(data_buf, stored_ecc).errloc
        /\ pc' = IF bch_decode(data_buf, stored_ecc).nerr < 0 THEN "failed" ELSE "correct"
        /\ data_buf' = data_buf /\ r_block' = r_block /\ enrolled' = enrolled
    BY <1>5 DEF Decode
  <2>2. stored_ecc = bch_encode(enrolled) /\ data_buf = r_block
    BY <1>1, <2>1 DEF Stored
  <2>3. /\ pc' = IF res.nerr < 0 THEN "failed" ELSE "correct"
        /\ errloc' = res.errloc /\ data_buf' = r_block
    BY <2>1, <2>2
  <2>4. o = IF res.nerr < 0 THEN NoData ELSE Plus(r_block, Flipped(res.errloc))
    BY <1>1, OutcomeOf
  <2>5. o' = o
    BY <1>2, <2>1
  <2> HIDE DEF res
  <2>6. Flipped(errloc') = Flipped(res.errloc)
    BY <2>3
  <2> QED
    BY <2>3, <2>4, <2>5, <2>6 DEF Outcomes
<1>6. CASE Correct
  <2> DEFINE h == Head(errloc)
             l == Flipped(Tail(errloc))
  <2>1. /\ errloc # <<>> /\ errloc' = Tail(errloc) /\ pc = "correct" /\ pc' = pc
        /\ data_buf' = IF h < 8 * Bytes THEN Plus(data_buf, {h}) ELSE data_buf
        /\ r_block' = r_block /\ enrolled' = enrolled
    BY <1>6 DEF Correct
  <2>2. Flipped(errloc) = IF h < 8 * Bytes THEN Plus({h}, l) ELSE l
    BY <1>1, <2>1, FlippedTail
  <2>3. o = Plus(data_buf, Flipped(errloc)) /\ o' = o
    BY <1>2, <2>1 DEF Outcomes
  <2>4. Flipped(errloc') = l
    BY <2>1
  <2> HIDE DEF h, l, o
  <2>5. Plus(Plus(data_buf, {h}), l) = Plus(data_buf, Plus({h}, l))
    BY Zenon DEF Plus
  <2>6. o' = Plus(data_buf', Flipped(errloc'))
    BY <2>1, <2>2, <2>3, <2>4, <2>5
  <2> QED
    BY <2>1, <2>6 DEF Outcomes, o
<1>7. CASE Finish
  <2>1. /\ errloc = <<>> /\ pc = "correct" /\ pc' = "done" /\ data_buf' = data_buf
        /\ r_block' = r_block /\ enrolled' = enrolled
    BY <1>7 DEF Finish
  <2>2. o = Plus(data_buf, {}) /\ o' = o
    BY <1>2, <2>1, FlippedNone DEF Outcomes
  <2>3. Plus(data_buf, {}) = data_buf
    BY DEF Plus
  <2> QED
    BY <2>1, <2>2, <2>3 DEF Outcomes
<1>8. CASE UNCHANGED vars
  <2>1. /\ errloc' = errloc /\ pc' = pc /\ data_buf' = data_buf
        /\ r_block' = r_block /\ enrolled' = enrolled
    BY <1>8 DEF vars
  <2>2. Flipped(errloc') = Flipped(errloc)
    BY <2>1
  <2> QED
    BY <1>2, <2>1, <2>2 DEF Outcomes
<1> QED
  BY <1>3, <1>4, <1>5, <1>6, <1>7, <1>8 DEF Next

LEMMA OutcomesNearest ==
  ASSUME Fits, Inv, Stored, Outcomes
  PROVE  NearestCodeword
<1> SUFFICES ASSUME pc \in {"done", "failed"}, NEW w \in Words,
                    Distance(w, Parities[w]) <= T
             PROVE  pc = "done" /\ data_buf = w
  BY DEF NearestCodeword
<1>1. r_block \in Data /\ enrolled \in Data /\ w \in Data
  BY BlockAssumption DEF Inv, TypeOK, Data
<1>2. stored_ecc = bch_encode(enrolled)
  BY DEF Stored
<1>3. Cardinality(Plus(r_block, w)) + Cardinality(Plus(bch_encode(enrolled), bch_encode(w))) <= T
  BY <1>2 DEF Distance, Parities
<1>4. Outcome[<<r_block, enrolled>>] = w
  BY <1>1, <1>3, OutcomeNear
<1>5. w # NoData
  BY <1>1, CodecAsAssumed DEF Extractor!IsDecoder
<1> QED
  BY <1>4, <1>5 DEF Outcomes

\* The block that a reconstruction ends with, or its failure, is the outcome of
\* the response and the parity kept, however many rounds the loop over errloc
\* takes (puf_reconcile.c:112-152): BlockOutcome ties the function of
\* CodecAsAssumed to the steps of the program.
THEOREM BlockOutcome == Spec => []Outcomes
BY InitInv, NextInv, InitStored, NextStored, InitOutcomes, NextOutcomes, PTL DEF Spec

\* Whatever is enrolled and whatever the noise, a response within T bits of a
\* codeword ends as that codeword's data, for every code that bch_init accepts and
\* blocks that bch_decode does not refuse for their size: the locator polynomial
\* (bch.c:371-461), its roots (bch.c:576-931), the bits that they name
\* (bch.c:1055-1068) and the loop that flips them (puf_reconcile.c:142-148).
THEOREM NearestFound == ASSUME Fits PROVE Spec => []NearestCodeword
<1>1. Inv /\ Stored /\ Outcomes => NearestCodeword
  BY OutcomesNearest
<1> QED
  BY InitInv, NextInv, InitStored, NextStored, InitOutcomes, NextOutcomes, <1>1, PTL DEF Spec
=============================================================================
