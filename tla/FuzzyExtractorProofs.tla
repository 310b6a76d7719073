------------------------- MODULE FuzzyExtractorProofs -------------------------
(***************************************************************************)
(* What the fuzzy extractor promises for every code of minimum distance    *)
(* 2T+1, any decoder that decodes what is within reach of a codeword, any  *)
(* number of blocks and any response.                                      *)
(***************************************************************************)
EXTENDS FuzzyExtractor, TLAPS

LEMMA HelperType ==
  ASSUME NEW r \in Responses
  PROVE  HelperOf(r) \in Helpers
BY DEF HelperOf, Helpers, Responses

\* What a reconstruction puts in the place of a block's data is data.
LEMMA CorrectedType ==
  ASSUME NEW r \in Data, NEW e \in Data, Decodable(r, e)
  PROVE  Corrected(r, e) \in Data
BY DecodeAssumption DEF IsDecoder, Decodable, Corrected

\* Unique decoding: no codeword other than that of the enrolled data e is
\* within T of a word whose data is within T of e.
LEMMA UniqueDecoding ==
  ASSUME NEW r \in Data, NEW e \in Data, Dist[<<r, e>>] <= T
  PROVE  Candidates(r, e) = {e}
<1>1. e \in Candidates(r, e)
  <2>1. EccDist[<<e, e>>] = 0 /\ Dist[<<r, e>>] \in Nat
    BY DistAssumption, EccDistAssumption DEF IsDistance, IsEccDistance
  <2>2. Dist[<<r, e>>] + EccDist[<<e, e>>] <= T
    BY <2>1
  <2> QED  BY <2>2 DEF Candidates
<1>2. ASSUME NEW c \in Candidates(r, e) PROVE c = e
  <2>1. c \in Data /\ Dist[<<r, c>>] + EccDist[<<c, e>>] <= T
    BY DEF Candidates
  <2>2. Dist[<<c, e>>] <= Dist[<<c, r>>] + Dist[<<r, e>>] /\ Dist[<<c, r>>] = Dist[<<r, c>>]
    BY <2>1, DistAssumption DEF IsDistance
  <2>3. /\ Dist[<<c, e>>] \in Nat /\ Dist[<<r, c>>] \in Nat /\ Dist[<<r, e>>] \in Nat
        /\ EccDist[<<c, e>>] \in Nat /\ T \in Nat
    BY <2>1, DistAssumption, EccDistAssumption, CodeAssumption
    DEF IsDistance, IsEccDistance, IsCode
  <2>4. Dist[<<c, e>>] + EccDist[<<c, e>>] <= 2 * T
    BY <2>1, <2>2, <2>3
  <2> QED  BY <2>1, <2>3, <2>4, CodeAssumption DEF IsCode
<1> QED  BY <1>1, <1>2

\* A response within T bits of the enrolled one in every block is never
\* refused.
THEOREM NearIsReconciled ==
  ASSUME NEW r \in Responses, NEW x \in Responses, Near(r, HelperOf(x))
  PROVE  Reconcilable(r, HelperOf(x)) /\ CodewordOf(r, HelperOf(x)) = x
<1>1. ASSUME NEW b \in Blocks
      PROVE  Decodable(r[b], x[b]) /\ Corrected(r[b], x[b]) = x[b]
  <2>1. r[b] \in Data /\ x[b] \in Data /\ Dist[<<r[b], x[b]>>] <= T
    BY DEF Near, HelperOf, Responses
  <2>2. Candidates(r[b], x[b]) = {x[b]}
    BY <2>1, UniqueDecoding
  <2>3. Decode[<<r[b], x[b]>>] = x[b]
    BY <2>1, <2>2, DecodeAssumption DEF IsDecoder
  <2> QED  BY <2>1, <2>3, DecodeAssumption DEF IsDecoder, Decodable, Corrected
<1>2. Reconcilable(r, HelperOf(x))
  BY <1>1 DEF Reconcilable, HelperOf
<1>3. CodewordOf(r, HelperOf(x)) = [b \in Blocks |-> x[b]]
  BY <1>1 DEF CodewordOf, HelperOf
<1> QED  BY <1>2, <1>3 DEF Responses

\* A reconstruction that succeeds gives the enrolled response exactly when the
\* one it started from was near: beyond that wrong data comes out, never the
\* enrolled data by luck.
THEOREM ExactRecovery ==
  ASSUME NEW r \in Responses, NEW x \in Responses, Reconcilable(r, HelperOf(x))
  PROVE  CodewordOf(r, HelperOf(x)) = x <=> Near(r, HelperOf(x))
<1>1. ASSUME CodewordOf(r, HelperOf(x)) = x, NEW b \in Blocks
      PROVE  Dist[<<r[b], x[b]>>] <= T
  <2>1. Corrected(r[b], x[b]) = x[b] /\ Decodable(r[b], x[b])
    BY <1>1 DEF CodewordOf, HelperOf, Reconcilable
  <2>2. r[b] \in Data /\ x[b] \in Data
    BY DEF Responses
  <2> QED  BY <2>1, <2>2, DecodeAssumption DEF IsDecoder, Decodable, Corrected
<1>2. CodewordOf(r, HelperOf(x)) = x => Near(r, HelperOf(x))
  BY <1>1 DEF Near, HelperOf
<1> QED  BY <1>2, NearIsReconciled
=============================================================================
