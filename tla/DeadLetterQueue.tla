--------------------------- MODULE DeadLetterQueue ---------------------------
(***************************************************************************)
(* What the dead-letter queue promises (docs/webhooks.md, "Dead-letter     *)
(* queue"): at most one sweep has a given letter in hand, a letter that    *)
(* was delivered is never queued again, and a letter leaves the queue only *)
(* by being delivered or by being purged.  A worker that dies takes its    *)
(* letter out of everybody's reach: nothing here puts it back.             *)
(***************************************************************************)
CONSTANTS Letters, Workers

VARIABLES
    status,   \* "none", "waiting", "taken", "done" or "gone"
    holders   \* the workers that have the letter in hand

vars == <<status, holders>>

Init == status = [l \in Letters |-> "none"] /\ holders = [l \in Letters |-> {}]

SetStatus(S, to) == status' = [l \in Letters |-> IF l \in S THEN to ELSE status[l]]

Add(S) == /\ \A l \in S : status[l] = "none"
          /\ SetStatus(S, "waiting") /\ UNCHANGED holders

Take(l, w) == /\ status[l] = "waiting" /\ holders[l] = {}
              /\ \A k \in Letters : w \notin holders[k]
              /\ SetStatus({l}, "taken")
              /\ holders' = [holders EXCEPT ![l] = {w}]

Leaves(l, w) == w \in holders[l] /\ holders' = [holders EXCEPT ![l] = @ \ {w}]

PutBack(l, w) == /\ Leaves(l, w)
                 /\ SetStatus(IF status[l] = "taken" THEN {l} ELSE {}, "waiting")

HandOver(l, w) == /\ Leaves(l, w)
                  /\ SetStatus(IF status[l] = "taken" THEN {l} ELSE {}, "done")

Abandon(l, w) == Leaves(l, w) /\ UNCHANGED status

(* An administrator delivers the letter, whoever has it in hand.           *)
Settle(l) == /\ status[l] \in {"waiting", "taken"}
             /\ SetStatus({l}, "done") /\ UNCHANGED holders

Drop(S) == /\ \A l \in S : status[l] \in {"waiting", "taken", "done"}
           /\ SetStatus(S, "gone") /\ UNCHANGED holders

Next ==
    \/ \E S \in SUBSET Letters : Add(S) \/ Drop(S)
    \/ \E l \in Letters : Settle(l)
    \/ \E l \in Letters, w \in Workers :
          Take(l, w) \/ PutBack(l, w) \/ HandOver(l, w) \/ Abandon(l, w)

Spec == Init /\ [][Next]_vars
=============================================================================
