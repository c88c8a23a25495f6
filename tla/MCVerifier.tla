----------------------------- MODULE MCVerifier -----------------------------
(* Small instances of Verifier for TLC. *)
EXTENDS Verifier
=============================================================================
