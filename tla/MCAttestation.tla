----------------------------- MODULE MCAttestation -----------------------------
(***************************************************************************)
(* Attestation with two verifier sessions for one device.                  *)
(***************************************************************************)
EXTENDS Attestation, TLC

\* All but repeated messages, which the runs with one boot have.
LossFaults == {"timeout", "crash", "disconnect", "lost"}

SessionSymmetry == Permutations(Sessions)
=============================================================================
