-------------------------- MODULE MCAccessControl --------------------------
(***************************************************************************)
(* Three accounts, the root role and two operational ones.  MaxAdminCount  *)
(* is 2, below the number of accounts, so that the counter's overflow      *)
(* guard is met as well as its lower one.                                  *)
(***************************************************************************)
EXTENDS AccessControl, TLC

Symmetry == Permutations(Addresses) \cup Permutations(ROLES \ {DEFAULT_ADMIN})
=============================================================================
