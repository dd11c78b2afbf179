--------------------------- MODULE CircuitBreaker ---------------------------
(***************************************************************************)
(* utils/circuitBreaker.ts: what a breaker answers and what a call's       *)
(* outcome makes of it.  The operators are the transitions; the component  *)
(* that owns a breaker applies them when its calls begin and end, and many *)
(* calls may be under way when one of them ends.                           *)
(*                                                                         *)
(* The reset timeout is the step CoolDown.  The code notices it on the     *)
(* next reading of the state; nothing can tell the difference, because an  *)
(* open breaker and a half-open one move alike when a late call ends.      *)
(***************************************************************************)
EXTENDS Naturals

CONSTANT FailureThreshold

ASSUME ThresholdAssumption == FailureThreshold \in Nat \ {0}

(* failures is compared with the threshold only: it stops there.           *)
Breaker == [state : {"closed", "open", "half-open"}, failures : 0..FailureThreshold]

NewBreaker == [state |-> "closed", failures |-> 0]

(* execute() makes the call, or throws CircuitBreakerOpenError.            *)
Admits(b) == b.state # "open"

CoolDown(b) == IF b.state = "open" THEN [b EXCEPT !.state = "half-open"] ELSE b

(* Mutant: a success closes the breaker and keeps the count.               *)
KeepsCount(b) == [b EXCEPT !.state = "closed"]

onSuccess(b) == NewBreaker

onFailure(b) ==
    LET failures == IF b.failures < FailureThreshold THEN b.failures + 1 ELSE b.failures
    IN  [state |-> IF b.state = "half-open" \/ failures >= FailureThreshold
                   THEN "open" ELSE b.state,
         failures |-> failures]

(* A breaker is closed exactly while its streak is below the threshold.    *)
StateMatchesCount(b) == b.state = "closed" <=> b.failures < FailureThreshold
=============================================================================
