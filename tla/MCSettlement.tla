---------------------------- MODULE MCSettlement ----------------------------
(***************************************************************************)
(* Three requests at a time, in one server process or two.                 *)
(***************************************************************************)
EXTENDS Settlement

CONSTANTS a, b, c, p1, p2

ThreeRequests == {a, b, c}
TwoProcesses == {p1, p2}

Ask(job, process) == [job |-> job, process |-> process]
Mix(x, y, z) == [r \in ThreeRequests |-> CASE r = a -> x [] r = b -> y [] r = c -> z]

AllMixes == {
    Mix(Ask("unlockContact", p1), Ask("unlockContact", p2), Ask("createTrialOffer", p1)),
    Mix(Ask("withdrawFees", p1), Ask("withdrawFeesV2", p1), Ask("withdrawFeesV2", p1)),
    Mix(Ask("withdrawFeesV2", p1), Ask("withdrawFees", p2), Ask("unlockContact", p1)),
    Mix(Ask("runAdminAction", p1), Ask("runAdminAction", p2), Ask("unlockContact", p2)),
    Mix(Ask("subscribe", p1), Ask("renewSubscription", p1), Ask("cancelSubscription", p2)),
    Mix(Ask("subscribe", p1), Ask("subscribe", p2), Ask("cancelSubscription", p1)),
    Mix(Ask("createTrialOffer", p1), Ask("createTrialOffer", p2), Ask("rejectTrialOffer", p1)),
    Mix(Ask("createTrialOffer", p1), Ask("acceptTrialOffer", p1), Ask("cancelTrialOffer", p2)),
    Mix(Ask("createTrialOffer", p1), Ask("cancelTrialOffer", p1), Ask("cancelTrialOffer", p2)) }

OneOffer ==
    { Mix(Ask("createTrialOffer", p1), Ask("acceptTrialOffer", p1), Ask("cancelTrialOffer", p2)) }

OneWithdrawal ==
    { Mix(Ask("withdrawFeesV2", p1), Ask("withdrawFeesV2", p1), Ask("unlockContact", p2)) }
=============================================================================
