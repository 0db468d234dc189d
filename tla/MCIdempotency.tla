---------------------------- MODULE MCIdempotency ----------------------------
(***************************************************************************)
(* Instances of Idempotency for TLC.  q3 has another body than q1 and q2.  *)
(***************************************************************************)
EXTENDS Idempotency

CONSTANTS q1, q2, q3

=============================================================================
