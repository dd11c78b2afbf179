------------------------------ MODULE MCWebhooks ------------------------------
(***************************************************************************)
(* Two endpoints of one scout and the events sent to them.                 *)
(***************************************************************************)
EXTENDS Webhooks

CONSTANTS s1, s2, scout, e1, e2, w1, w2, r1

OneEvent == {e1}
TwoEvents == {e1, e2}
OneSubscription == {s1}
TwoSubscriptions == {s1, s2}
OneSweep == {w1}
TwoSweeps == {w1, w2}
OneRequest == {r1}
OneScout == {scout}
OwnedByScout == [s \in Subscriptions |-> scout]
=============================================================================
