--------------------------- MODULE MCAdminMultiSig ---------------------------
(***************************************************************************)
(* One action, one request to propose it and the others to approve it.     *)
(***************************************************************************)
EXTENDS AdminMultiSig, TLC

CONSTANTS r1, r2, r3, r4, a1, a2, a3, x

AllRequests == {r1, r2, r3, r4}
Permuted == Permutations(AllRequests) \cup Permutations({a1, a2, a3})
=============================================================================
