--------------------------- MODULE MCAuditVerifier ---------------------------
(***************************************************************************)
(* Events archived one by one or in twos and verified in twos, by two      *)
(* processes each; a row may be edited and a run broken off.               *)
(***************************************************************************)
EXTENDS AuditVerifier, TLC

CONSTANTS r1, r2, v1, v2

TwoReplicas == {r1, r2}
TwoVerifiers == {v1, v2}

(* Sound where no liveness property is checked.                            *)
Symmetry == Permutations(TwoReplicas) \cup Permutations(TwoVerifiers)
=============================================================================
