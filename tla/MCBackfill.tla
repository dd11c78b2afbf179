------------------------------ MODULE MCBackfill ------------------------------
(***************************************************************************)
(* Three ledgers, one of them with two events.                             *)
(***************************************************************************)
EXTENDS Backfill, TLC

CONSTANTS p1, p2

TwoPolls == {p1, p2}
Symmetry == Permutations(TwoPolls)
SomeEvents == <<1, 2, 2, 3>>
SomeRanges == {[from |-> 1, to |-> 3], [from |-> 2, to |-> 3]}
=============================================================================
