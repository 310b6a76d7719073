---------------------------- MODULE FuzzyExtractor ----------------------------
(***************************************************************************)
(* The fuzzy extractor of main/reconcile/puf_reconcile.c: helper data W is *)
(* made from the response R of the enrolment boot, and a later, noisy      *)
(* response is corrected with it before the two keys are derived.          *)
(*                                                                         *)
(* The response is the first BCH_DATA_BYTES bytes of each 32-byte block of *)
(* the 256 captured bytes: the others are never used.  The BCH code itself *)
(* is abstracted to its distances and to the decoder's answers: Dist is    *)
(* the Hamming distance of two data blocks, EccDist that of their          *)
(* parities, and two different codewords are at least 2T+1 apart.  What is *)
(* assumed here of the code is what CodecAsAssumed, in BchBlockProofs,     *)
(* proves of bch.c.                                                        *)
(***************************************************************************)
EXTENDS Naturals

CONSTANTS
  Blocks,   \* the BCH blocks of a response (BCH_BLOCKS = 8 of them)
  Data,     \* the values of a block's data (BCH_DATA_BYTES = 14 bytes)
  T,        \* errors the code corrects (BCH_T = 20)
  Dist,     \* Dist[<<a, b>>]: bits in which the data blocks a and b differ
  EccDist,  \* EccDist[<<a, b>>]: bits in which the parities of a and b differ
  Decode,   \* Decode[<<r, e>>]: data r corrected against the stored parity of e
  Failed    \* bch_decode refused the word (-EBADMSG)

\* The distance of two data blocks.
IsDistance ==
  /\ Dist \in [Data \X Data -> Nat]
  /\ \A a, b \in Data : Dist[<<a, b>>] = Dist[<<b, a>>]
  /\ \A a, b, c \in Data : Dist[<<a, c>>] <= Dist[<<a, b>>] + Dist[<<b, c>>]

\* The distance of two parities.
IsEccDistance ==
  /\ EccDist \in [Data \X Data -> Nat]
  /\ \A a \in Data : EccDist[<<a, a>>] = 0

\* Different codewords are more than 2T bits apart.
IsCode ==
  /\ T \in Nat
  /\ \A a, b \in Data : a # b => Dist[<<a, b>>] + EccDist[<<a, b>>] >= 2 * T + 1

\* The data blocks whose codeword is within T bits of the word received: data
\* r with the stored parity of e.  There is at most one.
Candidates(r, e) == {c \in Data : Dist[<<r, c>>] + EccDist[<<c, e>>] <= T}

\* A word within reach of a codeword is decoded to it.  A word
\* out of reach may be refused, but bch_decode may also locate up to T errors in
\* it that lead to no codeword: the program does not look again.
IsDecoder ==
  /\ Failed \notin Data
  /\ Decode \in [Data \X Data -> Data \cup {Failed}]
  /\ \A r, e \in Data :
       /\ Candidates(r, e) # {} => Decode[<<r, e>>] \in Candidates(r, e)
       /\ Decode[<<r, e>>] # Failed => Dist[<<r, Decode[<<r, e>>]>>] <= T

ASSUME DistAssumption == IsDistance
ASSUME EccDistAssumption == IsEccDistance
ASSUME CodeAssumption == IsCode
ASSUME DecodeAssumption == IsDecoder

-----------------------------------------------------------------------------
Responses == [Blocks -> Data]

\* A block of helper data: the enrolled data, and the parity, named by the
\* data it is the parity of.
Helpers == [Blocks -> [data : Data, ecc : Data]]

\* W_block = R_block[:14] || bch_encode(R_block[:14]), for every block.
HelperOf(r) == [b \in Blocks |-> [data |-> r[b], ecc |-> r[b]]]

\* Mutant: the test of bch_decode's count is == 0, so a block with errors fails.
DecodableClean(r, e) == Decode[<<r, e>>] = r

\* bch_decode returns a count >= 0.
Decodable(r, e) == Decode[<<r, e>>] # Failed

\* data_buf after the located bits were flipped.  Locations past the data, in
\* the stored parity, are skipped, so a decoding to a codeword with another
\* parity than the stored one is not noticed.
Corrected(r, e) == Decode[<<r, e>>]

\* Every block decodes; the first one that does not ends the reconstruction.
Reconcilable(r, w) == \A b \in Blocks : Decodable(r[b], w[b].ecc)

\* C, the corrected data of all the blocks: the input keying material.
CodewordOf(r, w) == [b \in Blocks |-> Corrected(r[b], w[b].ecc)]

\* HKDF over C with a salt fixed in the code: one key for each info label.
DeriveKeys(c) == [enc |-> <<"KENC_V1", c>>, auth |-> <<"KAUTH_V1", c>>]

\* The data enrolled in W, and the responses the code promises to correct.
Enrolled(w) == [b \in Blocks |-> w[b].data]
Near(r, w) == \A b \in Blocks : Dist[<<r[b], w[b].data>>] <= T
=============================================================================
