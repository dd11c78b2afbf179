----------------------------- MODULE Settlement -----------------------------
(***************************************************************************)
(* The requests that move money or promises: a scout subscribes, renews,   *)
(* cancels, unlocks a player's contact and makes, or takes back, a trial   *)
(* offer the player accepts or rejects (scoutController.ts,                *)
(* trialOfferController.ts); an administrator withdraws the fees           *)
(* (adminFeesController.ts, adminMultiSig.ts).  Each signs a transaction   *)
(* with the platform key, waits for its outcome and then writes its row.   *)
(* Each awaited call is a step.  One scout and one player: other pairs     *)
(* meet these only at the platform account.  Times and prices are left     *)
(* out: which row expires last, and whether access has expired, is open.   *)
(***************************************************************************)
EXTENDS PlatformAccount

CONSTANTS
    Processes,
    Assignments    \* what is asked of which process: sets of [Requests -> [job, process]]

Withdrawals == {"withdrawFees", "withdrawFeesV2"}
Purchases == {"subscribe", "renewSubscription"}
Responses == {"acceptTrialOffer", "rejectTrialOffer"}
Jobs == Withdrawals \cup Purchases \cup Responses
            \cup {"unlockContact", "cancelSubscription", "createTrialOffer",
                  "cancelTrialOffer", "runAdminAction"}

ASSUME SettlementAssumption ==
    Assignments \subseteq [Requests -> [job : Jobs, process : Processes]]

Stages == {"new", "lock", "account", "built", "poll", "record", "respond", "done"}
Answers == {"none", "ok", "already", "refused", "retry", "error", "lost"}
OfferStatus == {"none", "pending", "accepted", "rejected", "cancelled"}

VARIABLES
    requests,
    withdrawalInProgress,   \* one flag in each process
    contactUnlock,          \* the request whose row of contact_unlocks there is
    subscriptions,          \* the row of subscriptions each request has inserted
    feeWithdrawals,         \* the requests with a row of fee_withdrawals
    offers,                 \* status of the trial_offers row of each request
    promoted                \* players.progress_level is 3

rows == <<contactUnlock, subscriptions, feeWithdrawals, offers, promoted>>
vars == <<accountVars, requests, withdrawalInProgress, rows>>

Nobody == "nobody"

Init ==
    /\ AccountInit
    /\ \E a \in Assignments :
          requests = [r \in Requests |->
              [job |-> a[r].job, process |-> a[r].process, stage |-> "new",
               target |-> r, answer |-> "none"]]
    /\ withdrawalInProgress = [p \in Processes |-> FALSE]
    /\ contactUnlock = Nobody
    /\ subscriptions = [r \in Requests |-> "none"]
    /\ feeWithdrawals = {}
    /\ offers = [r \in Requests |-> "none"]
    /\ promoted = FALSE

At(r, stage) == requests[r].stage = stage
Does(r, job) == requests[r].job = job
Goto(r, stage) == requests' = [requests EXCEPT ![r].stage = stage]
GotoWith(r, stage, target) ==
    requests' = [requests EXCEPT ![r].stage = stage, ![r].target = target]
HoldsLock(r) ==
    requests[r].job \in Withdrawals /\ requests[r].stage \in {"account", "built", "poll", "record"}

(* The response, and the finally of the two withdrawal handlers.           *)
Answer(r, answer) ==
    /\ requests' = [requests EXCEPT ![r].stage = "done", ![r].answer = answer]
    /\ withdrawalInProgress' =
         [withdrawalInProgress EXCEPT ![requests[r].process] = @ /\ ~HoldsLock(r)]

(* Validation, ownership, role; the player or the offer is not there.      *)
Refuse(r) ==
    /\ At(r, "new")
    /\ Answer(r, "refused")
    /\ UNCHANGED <<accountVars, rows>>

-----------------------------------------------------------------------------
(* What each handler reads before it turns to the chain.                   *)
LiveRows == {s \in Requests : subscriptions[s] = "live"}

hasContactUnlock(r) ==
    /\ At(r, "new") /\ Does(r, "unlockContact")
    /\ IF contactUnlock # Nobody
       THEN Answer(r, "already")
       ELSE Goto(r, "account") /\ UNCHANGED withdrawalInProgress
    /\ UNCHANGED <<accountVars, rows>>

StartSubscribe(r) ==
    /\ At(r, "new") /\ Does(r, "subscribe")
    /\ Goto(r, "account")
    /\ UNCHANGED <<accountVars, withdrawalInProgress, rows>>

(* getLatestSubscription: the row that is neither cancelled nor outlived   *)
(* by another.  A renewal without one is a purchase with a row of its own. *)
StartRenew(r) ==
    /\ At(r, "new") /\ Does(r, "renewSubscription")
    /\ \E s \in IF LiveRows = {} THEN {r} ELSE LiveRows : GotoWith(r, "account", s)
    /\ UNCHANGED <<accountVars, withdrawalInProgress, rows>>

StartCancel(r) ==
    /\ At(r, "new") /\ Does(r, "cancelSubscription")
    /\ \E s \in LiveRows : GotoWith(r, "account", s)
    /\ UNCHANGED <<accountVars, withdrawalInProgress, rows>>

(* scoutHasPlayerAccess also asks the chain, the subscriptions and the     *)
(* indexed events: any of them may say yes.                                *)
StartOffer(r) ==
    /\ At(r, "new") /\ Does(r, "createTrialOffer")
    /\ Goto(r, "account")
    /\ UNCHANGED <<accountVars, withdrawalInProgress, rows>>

(* Quorum has been reached: withdrawFees is called without the flag.       *)
runAdminAction(r) ==
    /\ At(r, "new") /\ Does(r, "runAdminAction")
    /\ Goto(r, "account")
    /\ UNCHANGED <<accountVars, withdrawalInProgress, rows>>

(* get_fee_balance is awaited before the flag is looked at.                *)
CheckFeeBalance(r) ==
    /\ At(r, "new") /\ Does(r, "withdrawFeesV2")
    /\ Goto(r, "lock")
    /\ UNCHANGED <<accountVars, withdrawalInProgress, rows>>

AtFlag(r) == At(r, IF Does(r, "withdrawFees") THEN "new" ELSE "lock")

(* Mutant: the flag was tested before the balance was awaited.             *)
SetFlagUntested(r) ==
    /\ AtFlag(r)
    /\ withdrawalInProgress' =
         [withdrawalInProgress EXCEPT ![requests[r].process] = TRUE]
    /\ Goto(r, "account")
    /\ UNCHANGED <<accountVars, rows>>

TakeFlag(r) ==
    /\ AtFlag(r)
    /\ IF withdrawalInProgress[requests[r].process]
       THEN Answer(r, "refused")
       ELSE /\ withdrawalInProgress' =
                 [withdrawalInProgress EXCEPT ![requests[r].process] = TRUE]
            /\ Goto(r, "account")
    /\ UNCHANGED <<accountVars, rows>>

-----------------------------------------------------------------------------
(* getAccount, build, simulate, sign, send.                                *)
getAccount(r) ==
    /\ At(r, "account")
    /\ Build(r)
    /\ Goto(r, "built")
    /\ UNCHANGED <<withdrawalInProgress, rows>>

RpcFails(r) ==
    /\ At(r, "account") \/ At(r, "built")
    /\ Answer(r, "retry")
    /\ UNCHANGED <<accountVars, rows>>

(* The contract refuses: paused, too little money, not subscribed, no fees.*)
(* That there are no fees, or that the player is not on the chain, is seen *)
(* before a transaction is built.                                          *)
SimulationRefuses(r) ==
    /\ At(r, "account") \/ At(r, "built")
    /\ Answer(r, "refused")
    /\ UNCHANGED <<accountVars, rows>>

(* The client has gone or been answered for by the request timeout.        *)
Aborted(r) ==
    /\ At(r, "built")
    /\ Answer(r, "error")
    /\ UNCHANGED <<accountVars, rows>>

(* Of an accepted transaction the reply may be lost.                       *)
sendTransaction(r) ==
    /\ At(r, "built")
    /\ Accept(r)
    /\ \/ Goto(r, "poll") /\ UNCHANGED withdrawalInProgress
       \/ Answer(r, "retry")
    /\ UNCHANGED rows

(* status ERROR: the sequence number is not the next, or a contract error  *)
(* that is mapped as after a simulation.                                   *)
SendRejected(r) ==
    /\ At(r, "built")
    /\ \/ Answer(r, "retry")
       \/ tx[r].seq = sequence + 1 /\ Answer(r, "refused")
    /\ UNCHANGED <<accountVars, rows>>

(* status TRY_AGAIN_LATER: the network has not taken the transaction, and  *)
(* its hash is polled like any other.                                      *)
SendDeferred(r) ==
    /\ At(r, "built")
    /\ Goto(r, "poll")
    /\ UNCHANGED <<accountVars, withdrawalInProgress, rows>>

-----------------------------------------------------------------------------
(* Mutant: any final status is good.                                       *)
PollAcceptingFailure(r) ==
    /\ At(r, "poll")
    /\ Succeeded(r) \/ HasStatus(r, "failed")
    /\ Goto(r, "record") /\ UNCHANGED withdrawalInProgress
    /\ UNCHANGED <<accountVars, rows>>

(* Polls while the answer is NOT_FOUND, every second.                      *)
getTransaction(r) ==
    /\ At(r, "poll")
    /\ \/ Succeeded(r) /\ Goto(r, "record") /\ UNCHANGED withdrawalInProgress
       \/ HasStatus(r, "failed") /\ \E a \in {"refused", "retry"} : Answer(r, a)
    /\ UNCHANGED <<accountVars, rows>>

(* Mutant: a poll that fails is taken for a transaction that has.          *)
PollFailureRefuses(r) ==
    /\ At(r, "poll")
    /\ Answer(r, "refused")
    /\ UNCHANGED <<accountVars, rows>>

PollFails(r) ==
    /\ At(r, "poll")
    /\ Answer(r, "retry")
    /\ UNCHANGED <<accountVars, rows>>

(* Mutant: the confirmation is awaited without a deadline, as elsewhere.   *)
NeverTimesOut(r) == FALSE /\ At(r, "poll") /\ UNCHANGED vars

(* Only a contact payment is polled with a deadline.                       *)
ConfirmationTimesOut(r) ==
    /\ At(r, "poll") /\ Does(r, "unlockContact")
    /\ ~Succeeded(r) /\ ~HasStatus(r, "failed")
    /\ Answer(r, "retry")
    /\ UNCHANGED <<accountVars, rows>>

-----------------------------------------------------------------------------
(* The transaction has succeeded: the row, and the answer.                 *)
insertContactUnlock(r) ==
    /\ At(r, "record") /\ Does(r, "unlockContact")
    /\ contactUnlock' = IF contactUnlock = Nobody THEN r ELSE contactUnlock
    /\ Answer(r, "ok")
    /\ UNCHANGED <<accountVars, subscriptions, feeWithdrawals, offers, promoted>>

(* A renewal rewrites tier and expiry of its row, whatever has become of   *)
(* it, and leaves cancelled_at alone.                                      *)
WriteSubscription(r) ==
    /\ At(r, "record") /\ requests[r].job \in Purchases
    /\ subscriptions' = [subscriptions EXCEPT
           ![requests[r].target] = IF @ = "none" THEN "live" ELSE @]
    /\ Answer(r, "ok")
    /\ UNCHANGED <<accountVars, contactUnlock, feeWithdrawals, offers, promoted>>

dbCancelSubscription(r) ==
    /\ At(r, "record") /\ Does(r, "cancelSubscription")
    /\ subscriptions' = [subscriptions EXCEPT ![requests[r].target] = "cancelled"]
    /\ Answer(r, "ok")
    /\ UNCHANGED <<accountVars, contactUnlock, feeWithdrawals, offers, promoted>>

(* Three statements after each other: the event, the row and the level.    *)
(* The last may fail with the others done.                                 *)
WriteOffer(r) ==
    /\ At(r, "record") /\ Does(r, "createTrialOffer")
    /\ offers' = [offers EXCEPT ![r] = IF @ = "none" THEN "pending" ELSE @]
    /\ \/ promoted' = TRUE /\ Answer(r, "ok")
       \/ UNCHANGED promoted /\ Answer(r, "error")
    /\ UNCHANGED <<accountVars, contactUnlock, subscriptions, feeWithdrawals>>

(* The first endpoint keeps no row.  A row that cannot be written is       *)
(* logged and the withdrawal reported as made.                             *)
RecordWithdrawal(r) ==
    /\ At(r, "record") /\ requests[r].job \in Withdrawals \cup {"runAdminAction"}
    /\ feeWithdrawals' \in {feeWithdrawals}
           \cup (IF Does(r, "withdrawFees") THEN {} ELSE {feeWithdrawals \cup {r}})
    /\ Answer(r, "ok")
    /\ UNCHANGED <<accountVars, contactUnlock, subscriptions, offers, promoted>>

WriteFails(r) ==
    /\ At(r, "record") /\ requests[r].job \notin Withdrawals \cup {"runAdminAction"}
    /\ Answer(r, "error")
    /\ UNCHANGED <<accountVars, rows>>

-----------------------------------------------------------------------------
(* resolveOwnedPendingOffer: a row that is missing is made from the event  *)
(* of any offer the player has had.                                        *)
Offers == {o \in Requests : Does(o, "createTrialOffer")}
OfferIndexed == \E o \in Offers : Succeeded(o)

resolveOwnedPendingOffer(r) ==
    /\ At(r, "new") /\ requests[r].job \in Responses
    /\ \E o \in Offers :
          /\ offers[o] = "pending" \/ (offers[o] = "none" /\ OfferIndexed)
          /\ offers' = [offers EXCEPT ![o] = "pending"]
          /\ GotoWith(r, "respond", o)
    /\ UNCHANGED <<accountVars, withdrawalInProgress, contactUnlock, subscriptions,
                   feeWithdrawals, promoted>>

(* An UPDATE by offer_id alone.                                            *)
respondToTrialOffer(r) ==
    /\ At(r, "respond") /\ requests[r].job \in Responses
    /\ offers' = [offers EXCEPT ![requests[r].target] =
           IF Does(r, "acceptTrialOffer") THEN "accepted" ELSE "rejected"]
    /\ Answer(r, "ok")
    /\ UNCHANGED <<accountVars, contactUnlock, subscriptions, feeWithdrawals, promoted>>

StartCancelOffer(r) ==
    /\ At(r, "new") /\ Does(r, "cancelTrialOffer")
    /\ \E o \in Offers : offers[o] = "pending" /\ GotoWith(r, "respond", o)
    /\ UNCHANGED <<accountVars, withdrawalInProgress, rows>>

(* An UPDATE of a row that is still pending.                               *)
cancelTrialOffer(r) ==
    /\ At(r, "respond") /\ Does(r, "cancelTrialOffer")
    /\ IF offers[requests[r].target] = "pending"
       THEN offers' = [offers EXCEPT ![requests[r].target] = "cancelled"] /\ Answer(r, "ok")
       ELSE UNCHANGED offers /\ Answer(r, "refused")
    /\ UNCHANGED <<accountVars, contactUnlock, subscriptions, feeWithdrawals, promoted>>

-----------------------------------------------------------------------------
(* A process dies with the requests it was serving and with its flag.      *)
Crash(p) ==
    LET dying == {r \in Requests : requests[r].process = p
                                   /\ ~At(r, "new") /\ ~At(r, "done")}
    IN  /\ dying # {}
        /\ requests' = [r \in Requests |->
               IF r \in dying THEN [requests[r] EXCEPT !.stage = "done", !.answer = "lost"]
               ELSE requests[r]]
        /\ withdrawalInProgress' = [withdrawalInProgress EXCEPT ![p] = FALSE]
        /\ UNCHANGED <<accountVars, rows>>

NetworkStep(r) ==
    /\ Include(r) \/ Expire(r)
    /\ UNCHANGED <<requests, withdrawalInProgress, rows>>

Start(r) ==
    \/ hasContactUnlock(r) \/ StartSubscribe(r) \/ StartRenew(r) \/ StartCancel(r)
    \/ StartOffer(r) \/ runAdminAction(r) \/ CheckFeeBalance(r)
    \/ resolveOwnedPendingOffer(r) \/ StartCancelOffer(r) \/ Refuse(r)

(* What a handler does by itself: every awaited call returns, within the   *)
(* timeout of the RPC client or of the database, and a deadline passes.    *)
(* That a poll fails, or that a process dies, is nothing to rely on.       *)
HandlerStep(r) ==
    \/ TakeFlag(r) \/ getAccount(r) \/ RpcFails(r) \/ SimulationRefuses(r)
    \/ Aborted(r) \/ sendTransaction(r) \/ SendRejected(r) \/ SendDeferred(r)
    \/ getTransaction(r) \/ ConfirmationTimesOut(r)
    \/ insertContactUnlock(r) \/ WriteSubscription(r) \/ dbCancelSubscription(r)
    \/ WriteOffer(r) \/ RecordWithdrawal(r) \/ WriteFails(r)
    \/ respondToTrialOffer(r) \/ cancelTrialOffer(r)

Next ==
    \/ \E r \in Requests : Start(r) \/ HandlerStep(r) \/ PollFails(r) \/ NetworkStep(r)
    \/ \E p \in Processes : Crash(p)

Fairness == \A r \in Requests : WF_vars(HandlerStep(r)) /\ WF_vars(NetworkStep(r))

Spec == Init /\ [][Next]_vars /\ Fairness

-----------------------------------------------------------------------------
RequestState == [job : Jobs, process : Processes, stage : Stages, target : Requests,
                 answer : Answers]

TypeOK ==
    /\ AccountTypeOK
    /\ requests \in [Requests -> RequestState]
    /\ withdrawalInProgress \in [Processes -> BOOLEAN]
    /\ contactUnlock \in Requests \cup {Nobody}
    /\ subscriptions \in [Requests -> {"none", "live", "cancelled"}]
    /\ feeWithdrawals \subseteq Requests
    /\ offers \in [Requests -> OfferStatus]
    /\ promoted \in BOOLEAN

(* No row is written for a payment that was not confirmed: whatever is     *)
(* unlocked, subscribed, withdrawn, offered or promoted in the database    *)
(* goes back to a transaction that succeeded, through lost replies, failed *)
(* polls, crashes and competing requests ("Confirmed-settlement gate").    *)
RecordsAreBacked ==
    /\ contactUnlock # Nobody => Succeeded(contactUnlock)
    /\ \A r \in Requests : subscriptions[r] # "none" => Succeeded(r)
    /\ \A r \in feeWithdrawals : Succeeded(r)
    /\ promoted \/ (\E o \in Offers : offers[o] # "none") => OfferIndexed

(* A request that is told it was refused has moved nothing on the chain    *)
(* and never will, one that is told of success has: only the answers to be *)
(* retried leave it open.                                                  *)
AnswersAreTrue ==
    \A r \in Requests :
        /\ requests[r].answer = "refused" =>
               ~Succeeded(r) /\ ~HasStatus(r, "pending")
        /\ requests[r].answer = "ok" =>
               Succeeded(r) \/ requests[r].job \in Responses \cup {"cancelTrialOffer"}

(* Of the withdrawals of a process, however they overlap at the balance    *)
(* check, one at a time is under way, and the flag is up just while it is. *)
OneWithdrawalAtATime ==
    \A p \in Processes :
        Cardinality({r \in Requests : requests[r].process = p /\ HoldsLock(r)})
            = (IF withdrawalInProgress[p] THEN 1 ELSE 0)

(* A scout who pays for a contact gets an answer, whatever becomes of the  *)
(* transaction (TX_CONFIRMATION_TIMEOUT_MS).                               *)
UnlocksAreAnswered ==
    \A r \in Requests :
        Does(r, "unlockContact") /\ At(r, "account") ~> At(r, "done")

-----------------------------------------------------------------------------
(* "Expired and cancelled offers are terminal: no further transitions are  *)
(* possible" (docs/tier-promotion.md).                                     *)
CancelledOffersAreTerminal ==
    [][\A o \in Offers : offers[o] = "cancelled" => offers'[o] = "cancelled"]_vars

(* "A withdrawal in-flight sets this to true; cleared after the call       *)
(* settles" (adminFeesController.ts, withdrawalInProgress).                *)
FlagIsCleared ==
    \A p \in Processes : withdrawalInProgress[p] ~> ~withdrawalInProgress[p]
=============================================================================
