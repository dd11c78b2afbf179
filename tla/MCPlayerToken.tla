---------------------------- MODULE MCPlayerToken ----------------------------
(***************************************************************************)
(* Three holders on pages of two, of whom two may have been listed before  *)
(* there were pages; two transfers.                                        *)
(***************************************************************************)
EXTENDS PlayerToken

CONSTANTS h1, h2, h3, t1, t2

ThreeHolders == {h1, h2, h3}
TwoTransfers == {t1, t2}
TwoLegacyHolders == <<h1, h2>>
OneOrTwo == {1, 2}
TwoOrFive == {2, 5}
TwoPages == {0, 1}
=============================================================================
