------------------------ MODULE MCScoutOffContracts ------------------------
(***************************************************************************)
(* The contracts over two player ids.  MCTiers.cfg has an old deployment   *)
(* with one level-1 player, one validator, two milestones and one scout;   *)
(* MCPayments.cfg has two scouts, fee changes and the closing of ledgers.  *)
(***************************************************************************)
EXTENDS ScoutOffContracts

CONSTANTS w1, u1, s1, s2

OldDeployment == <<[wallet |-> w1, uri |-> u1, level |-> 1]>>
NoDeployment == <<>>
TwoPlayers == {1, 2}
OnePlayer == {1}
ScoutSymmetry == Permutations({s1, s2})
=============================================================================
