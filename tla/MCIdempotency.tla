---------------------------- MODULE MCIdempotency ----------------------------
(***************************************************************************)
(* One key and the requests that carry it.                                 *)
(***************************************************************************)
EXTENDS Idempotency, TLC

CONSTANTS r1, r2, r3

TwoRequests == {r1, r2}
ThreeRequests == {r1, r2, r3}
Permuted == Permutations(ThreeRequests)
=============================================================================
