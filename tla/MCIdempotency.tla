---------------------------- MODULE MCIdempotency ----------------------------
(* Instances of Idempotency for TLC. *)
EXTENDS IdempotencyRefinement, TLC

\* Requests are interchangeable: every one draws its header and body in Init.
RequestSymmetry == Permutations(Requests)
=============================================================================
