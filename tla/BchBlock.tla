------------------------------- MODULE BchBlock -------------------------------
(***************************************************************************)
(* One block of a response through main/reconcile/puf_reconcile.c: its     *)
(* parity is stored when it is enrolled, and later responses, which differ *)
(* from it in some bits, are decoded against that parity and corrected bit *)
(* by bit.                                                                 *)
(*                                                                         *)
(* The stored parity itself never differs: app_main checks the tag over    *)
(* the helper data first.  The properties below are what FuzzyExtractor    *)
(* assumes of the code, computed here from bch.c's own steps.              *)
(***************************************************************************)
EXTENDS BchCode

CONSTANTS
  Words,    \* the data blocks that get enrolled
  Noises    \* the sets of bits in which a later response differs

ASSUME BlockAssumption == \A w \in Words \cup Noises : w \subseteq 0 .. 8 * Bytes - 1

VARIABLES
  pc,         \* what the program does with the block next
  enrolled,   \* the data of the enrolment boot
  stored_ecc, \* its parity, the second part of w_block
  r_block,    \* the response of this boot
  data_buf,   \* the same, being corrected
  nerr,       \* what bch_decode returned
  errloc      \* the locations still to be corrected

vars == <<pc, enrolled, stored_ecc, r_block, data_buf, nerr, errloc>>

Init ==
  /\ pc = "enroll"
  /\ enrolled = {} /\ stored_ecc = Zero
  /\ r_block = {} /\ data_buf = {}
  /\ nerr = 0 /\ errloc = <<>>

\* puf_reconcile_enroll
Enroll ==
  /\ pc = "enroll"
  /\ \E w \in Words : enrolled' = w /\ stored_ecc' = bch_encode(w)
  /\ pc' = "capture"
  /\ UNCHANGED <<r_block, data_buf, nerr, errloc>>

\* A boot captures the response, and puf_reconcile_reconstruct copies it.
Capture ==
  /\ pc \in {"capture", "done", "failed"}
  /\ \E noise \in Noises : r_block' = Plus(enrolled, noise)
  /\ data_buf' = r_block'
  /\ nerr' = 0 /\ errloc' = <<>>
  /\ pc' = "decode"
  /\ UNCHANGED <<enrolled, stored_ecc>>

\* A negative return ends the reconstruction.
Decode ==
  /\ pc = "decode"
  /\ \E res \in {bch_decode(data_buf, stored_ecc)} :
       /\ nerr' = res.nerr
       /\ errloc' = res.errloc
       /\ pc' = IF res.nerr < 0 THEN "failed" ELSE "correct"
  /\ UNCHANGED <<enrolled, stored_ecc, r_block, data_buf>>

\* Mutant: locations in the parity are flipped in data_buf too.
CorrectAll ==
  /\ pc = "correct" /\ errloc # <<>>
  /\ data_buf' = Plus(data_buf, {Head(errloc)})
  /\ errloc' = Tail(errloc)
  /\ UNCHANGED <<pc, enrolled, stored_ecc, r_block, nerr>>

\* One round of the loop over errloc: bits past the data are left alone.
Correct ==
  /\ pc = "correct" /\ errloc # <<>>
  /\ data_buf' = IF Head(errloc) < 8 * Bytes THEN Plus(data_buf, {Head(errloc)}) ELSE data_buf
  /\ errloc' = Tail(errloc)
  /\ UNCHANGED <<pc, enrolled, stored_ecc, r_block, nerr>>

\* The block is copied to C.
Finish ==
  /\ pc = "correct" /\ errloc = <<>>
  /\ pc' = "done"
  /\ UNCHANGED <<enrolled, stored_ecc, r_block, data_buf, nerr, errloc>>

Next == Enroll \/ Capture \/ Decode \/ Correct \/ Finish

Spec == Init /\ [][Next]_vars

-----------------------------------------------------------------------------
\* The bits in which the word received differs from the codeword of data w.
Distance(w, parity) == Cardinality(Plus(r_block, w)) + Cardinality(Plus(stored_ecc, parity))

\* The parities of the enrolled words.
Parities == [w \in Words |-> bch_encode(w)]

\* The types of the variables: bits of data stay within data_buf, although
\* locations may lie in the parity (puf_reconcile.c:144).
TypeOK ==
  /\ pc \in {"enroll", "capture", "decode", "correct", "done", "failed"}
  /\ enrolled \in Words \cup {{}}
  /\ stored_ecc \subseteq 0 .. ecc_bits - 1
  /\ r_block \subseteq 0 .. 8 * Bytes - 1
  /\ data_buf \subseteq 0 .. 8 * Bytes - 1
  /\ nerr \in -1 .. T
  /\ \A j \in DOMAIN errloc : errloc[j] \in Nat

\* A word within T bits of a codeword is decoded to that codeword's data: the
\* enrolled one, or another one that the noise has come close to, for which
\* the return value of bch_decode is as good (puf_reconcile.c:131-148).
NearestCodeword ==
  pc \in {"done", "failed"} =>
    \A w \in Words : Distance(w, Parities[w]) <= T => pc = "done" /\ data_buf = w

\* No more errors are located than errloc[BCH_T] has room for, refused words
\* included (puf_reconcile.c:130), so what leaves the decoder differs from the
\* response in at most T bits, and a device further than that from its
\* enrolment never gets the enrolled keys (bch.c:459, the locator's degree).
AtMostTFlips == Len(errloc) <= T /\ Cardinality(Plus(data_buf, r_block)) <= T

\* Data that differs from the enrolled one has a codeword 2T+1 bits away: the
\* generator of bch_init has all the roots it should (bch.c:1190-1252), and the
\* encoder's table the remainders (bch.c:1105-1134).
MinimumDistance ==
  pc # "enroll" /\ data_buf # enrolled =>
    Cardinality(Plus(data_buf, enrolled))
      + Cardinality(Plus(bch_encode(data_buf), stored_ecc)) >= 2 * T + 1

\* The degrees that a locator polynomial points at: the logs of the inverses of
\* its roots.
LocatedBy ==
  [p \in Polynomials |->
     {i \in 0 .. N-1 :
        Total([j \in 0 .. Deg(p) |-> gf_mul(Coef(p, j), a_pow((N - i) * j))]) = Zero}]

\* The degrees of the bits in which the word received differs from the codeword
\* of data w, the parity below the data.
ErrorDegrees(w, parity) ==
  {i \in 0 .. nbits - 1 : IF i < ecc_bits THEN i \in Plus(stored_ecc, parity)
                          ELSE BitReversed(nbits - 1 - i) \in Plus(r_block, w)}

\* elp has one root for each bit in which the word received differs from a
\* codeword within T bits, and no other.
Locates(elp) ==
  \A w \in Words :
    Distance(w, Parities[w]) <= T =>
      /\ Deg(elp) = Distance(w, Parities[w])
      /\ LocatedBy[elp] = ErrorDegrees(w, Parities[w])

\* When a codeword is within T bits, T rounds of Berlekamp and Massey on the
\* syndromes of the parities' difference (bch.c:371-461) give its locator
\* polynomial, so that nothing but its roots is left to be found.
LocatorExact ==
  pc = "decode" =>
    Locates(compute_error_locator_polynomial(
              compute_syndromes(Plus(bch_encode(data_buf), stored_ecc))))

\* What bch.c:979 says of bch_decode: it returns the number of errors, that is
\* of bits in which the word received differs from the one decoded to, or it
\* fails.
FoundOrRefused == pc = "done" => Distance(data_buf, bch_encode(data_buf)) = nerr
=============================================================================
