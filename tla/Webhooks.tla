------------------------------ MODULE Webhooks ------------------------------
(***************************************************************************)
(* Webhook deliveries: one server process that dispatches events           *)
(* (services/webhooks.ts), keeps the health of every subscription          *)
(* (services/webhookHealth.ts) with a circuit breaker in memory, and       *)
(* answers administrators; and the sweeps of the dead-letter job           *)
(* (services/webhookDeadLetterJob.ts), each in a process of its own.  An   *)
(* event is dispatched once, so a delivery is an event and a subscription, *)
(* and has at most one row in webhook_dead_letters.                        *)
(*                                                                         *)
(* A post and its retries end in one step.  URLs are distinct.  locked_by  *)
(* and locked_at are written and decide nothing; they are left out.  Of    *)
(* the ids of the dead letters their order is kept.                        *)
(***************************************************************************)
EXTENDS Integers, FiniteSets, Functions, CircuitBreaker

CONSTANTS
    Events, Subscriptions, Scouts,
    Owner,             \* the scout of each subscription
    Sweeps,            \* the processes that run the dead-letter job
    Requests,          \* administrators' requeue requests under way at once
    SuspendAfter,      \* config.webhook.suspendAfterFailures
    MinForSpan,        \* MIN_FAILURES_FOR_SPAN_RULE
    MaxPerScout,       \* MAX_WEBHOOK_SUBSCRIPTIONS_PER_SCOUT
    MaxAutoRetries,    \* MAX_AUTO_RETRIES
    PageSize,          \* the rows a sweep reads: 200
    DispatchTries,     \* RETRY_OPTIONS.retries
    RequeueTries,      \* retries of requeueDeadLetter
    MaxCrashes         \* bound on the crashes

ASSUME WebhooksAssumption ==
    /\ Owner \in [Subscriptions -> Scouts]
    /\ SuspendAfter \in Nat \ {0} /\ MinForSpan \in Nat \ {0}
    /\ MaxAutoRetries \in Nat /\ DispatchTries \in Nat /\ RequeueTries \in Nat
    /\ MaxPerScout \in Nat /\ MaxCrashes \in Nat /\ PageSize \in Nat \ {0}

Deliveries == Events \X Subscriptions

VARIABLES
    subscriptions,   \* the rows of webhook_subscriptions: status and streak
    breakers,        \* the breakers of the server process
    delivery,        \* how far deliverToSubscription has come
    deadLetters,     \* the rows of webhook_dead_letters
    sweeps,          \* the dead-letter job of each process
    requests,        \* requeueDeadLetter
    pings,           \* subscriptions whose reactivation ping is under way
    acknowledged,    \* what the subscribers have answered with success
    crashes

vars == <<subscriptions, breakers, delivery, deadLetters, sweeps, requests, pings,
          acknowledged, crashes>>
subscriptionVars == <<subscriptions, breakers, pings>>
letterVars == <<deadLetters, sweeps, requests, acknowledged>>

NoLetter == <<>>
CountTo(n, limit) == IF n < limit THEN n ELSE limit

NoRow == [status |-> "none", attempts |-> 0, old |-> FALSE, older |-> {}]
IdleSweep == [step |-> "list", todo |-> {}, letter |-> NoLetter, attempts |-> 0]
IdleRequest == [letter |-> NoLetter, attempts |-> 0]

Init ==
    /\ subscriptions = [s \in Subscriptions |-> [status |-> "none", failures |-> 0]]
    /\ breakers = [s \in Subscriptions |-> NewBreaker]
    /\ delivery = [d \in Deliveries |-> "none"]
    /\ deadLetters = [d \in Deliveries |-> NoRow]
    /\ sweeps = [w \in Sweeps |-> IdleSweep]
    /\ requests = [r \in Requests |-> IdleRequest]
    /\ pings = {} /\ acknowledged = {} /\ crashes = 0

-----------------------------------------------------------------------------
(* Subscriptions: their owners create, delete and reactivate them.         *)
Exists(s) == subscriptions[s].status \in {"active", "degraded", "suspended"}
Suspended(s) == subscriptions[s].status = "suspended"

OfScout(scout) == {s \in Subscriptions : Owner[s] = scout /\ Exists(s)}

registerWebhook(s) ==
    /\ subscriptions[s].status = "none"
    /\ Cardinality(OfScout(Owner[s])) < MaxPerScout
    /\ subscriptions' = [subscriptions EXCEPT ![s].status = "active"]
    /\ UNCHANGED <<breakers, pings, delivery, letterVars, crashes>>

deleteWebhook(s) ==
    /\ Exists(s)
    /\ subscriptions' = [subscriptions EXCEPT ![s] = [status |-> "deleted", failures |-> 0]]
    /\ UNCHANGED <<breakers, pings, delivery, letterVars, crashes>>

StartPing(s) ==
    /\ Exists(s)
    /\ pings' = pings \cup {s}
    /\ UNCHANGED <<subscriptions, breakers, delivery, letterVars, crashes>>

(* reactivateWebhookSubscription, and the breaker's reset().               *)
reactivateAfterPing(s, ok) ==
    /\ s \in pings
    /\ pings' = pings \ {s}
    /\ IF ok
       THEN /\ subscriptions' =
                 IF Exists(s)
                 THEN [subscriptions EXCEPT ![s] = [status |-> "active", failures |-> 0]]
                 ELSE subscriptions
            /\ breakers' = [breakers EXCEPT ![s] = NewBreaker]
       ELSE UNCHANGED <<subscriptions, breakers>>
    /\ UNCHANGED <<delivery, letterVars, crashes>>

(* Mutant: a success also lifts a suspension.                              *)
SuccessReactivates(s) == IF Exists(s) THEN [status |-> "active", failures |-> 0]
                         ELSE subscriptions[s]

AfterSuccess(s) ==
    IF Exists(s)
    THEN [status |-> IF Suspended(s) THEN "suspended" ELSE "active", failures |-> 0]
    ELSE subscriptions[s]

Streak(s) == CountTo(subscriptions[s].failures + 1, SuspendAfter)

(* Mutant: one failure too many is allowed.                                *)
SuspendsLate(s, long) ==
    LET reason == \/ subscriptions[s].failures >= SuspendAfter
                  \/ Streak(s) >= MinForSpan /\ long
    IN  IF ~Exists(s) THEN subscriptions[s]
        ELSE [status |-> IF reason \/ Suspended(s) THEN "suspended" ELSE "degraded",
              failures |-> Streak(s)]

(* One transaction; long: the streak has lasted longer than                *)
(* config.webhook.suspendAfterMs.                                          *)
AfterFailure(s, long) ==
    LET reason == \/ Streak(s) >= SuspendAfter
                  \/ Streak(s) >= MinForSpan /\ long
    IN  IF ~Exists(s) THEN subscriptions[s]
        ELSE [status |-> IF reason \/ Suspended(s) THEN "suspended" ELSE "degraded",
              failures |-> Streak(s)]

-----------------------------------------------------------------------------
(* A row is older than those that are inserted after it: AUTOINCREMENT.    *)
InTable(d) == deadLetters[d].status \in {"pending", "in_progress", "replayed"}

NewRow(attempts, others) ==
    [status |-> "pending", attempts |-> attempts, old |-> FALSE,
     older |-> {d \in Deliveries : InTable(d)} \cup others]

(* Dispatch.  The subscriptions are read once; a delivery whose breaker is *)
(* open becomes a dead letter on the spot, in the order they are listed.   *)
Dispatched(d) ==
    IF ~Exists(d[2]) \/ Suspended(d[2]) THEN "skipped"
    ELSE IF Admits(breakers[d[2]]) THEN "posting" ELSE "dead"

Refused(e) == {d \in Deliveries : d[1] = e /\ Dispatched(d) = "dead"}

dispatchEventWebhook(e) ==
    /\ \A s \in Subscriptions : delivery[<<e, s>>] = "none"
    /\ delivery' = [d \in Deliveries |-> IF d[1] = e THEN Dispatched(d) ELSE delivery[d]]
    /\ \E place \in [Refused(e) -> 1..Cardinality(Refused(e))] :
          /\ IsInjective(place)
          /\ deadLetters' = [d \in Deliveries |->
                               IF d \in Refused(e)
                               THEN NewRow(0, {k \in Refused(e) : place[k] < place[d]})
                               ELSE deadLetters[d]]
    /\ UNCHANGED <<subscriptionVars, sweeps, requests, acknowledged, crashes>>

(* postWebhookWithRetry: every attempt is bounded, so the last one ends.   *)
Posting(d) == delivery[d] = "posting"

DeliverySucceeds(d) ==
    /\ Posting(d)
    /\ delivery' = [delivery EXCEPT ![d] = "delivered"]
    /\ acknowledged' = acknowledged \cup {d}
    /\ breakers' = [breakers EXCEPT ![d[2]] = onSuccess(@)]
    /\ subscriptions' = [subscriptions EXCEPT ![d[2]] = AfterSuccess(d[2])]
    /\ UNCHANGED <<deadLetters, sweeps, requests, pings, crashes>>

(* recordDeliveryFailure; the audit entry and the notice to another        *)
(* endpoint of the scout are awaited before the dead letter is inserted.   *)
DeliveryFails(d, long) ==
    /\ Posting(d)
    /\ delivery' = [delivery EXCEPT ![d] = "failed"]
    /\ breakers' = [breakers EXCEPT ![d[2]] = onFailure(@)]
    /\ subscriptions' = [subscriptions EXCEPT ![d[2]] = AfterFailure(d[2], long)]
    /\ UNCHANGED <<deadLetters, sweeps, requests, pings, acknowledged, crashes>>

insertWebhookDeadLetter(d) ==
    /\ delivery[d] = "failed"
    /\ delivery' = [delivery EXCEPT ![d] = "dead"]
    /\ deadLetters' = [deadLetters EXCEPT ![d] = NewRow(CountTo(DispatchTries, MaxAutoRetries), {})]
    /\ UNCHANGED <<subscriptionVars, sweeps, requests, acknowledged, crashes>>

(* The reset timeout of a breaker has passed.                              *)
resetTimeoutElapses(s) ==
    /\ breakers[s].state = "open"
    /\ breakers' = [breakers EXCEPT ![s] = CoolDown(@)]
    /\ UNCHANGED <<subscriptions, pings, delivery, letterVars, crashes>>

-----------------------------------------------------------------------------
(* The statements on webhook_dead_letters.  An UPDATE of a row that was    *)
(* deleted does nothing; attempts are compared with MaxAutoRetries only    *)
(* and stop there.                                                         *)
claimWebhookDeadLetter(d) ==
    IF deadLetters[d].status = "pending"
    THEN [deadLetters EXCEPT ![d].status = "in_progress"] ELSE deadLetters

(* Mutant: the claim is released whatever became of the row.               *)
ReleasesAnyStatus(d) == IF InTable(d) THEN [deadLetters EXCEPT ![d].status = "pending"]
                        ELSE deadLetters

releaseWebhookDeadLetterClaim(d) ==
    IF deadLetters[d].status = "in_progress"
    THEN [deadLetters EXCEPT ![d].status = "pending"] ELSE deadLetters

markWebhookDeadLetterReplayed(d) ==
    IF InTable(d) THEN [deadLetters EXCEPT ![d].status = "replayed"] ELSE deadLetters

updateWebhookDeadLetterAttempt(d, attempts) ==
    IF InTable(d) THEN [deadLetters EXCEPT ![d].attempts = CountTo(attempts, MaxAutoRetries)]
    ELSE deadLetters

(* Ten minutes have passed since the row was written.                      *)
DeadLetterAges(d) ==
    /\ InTable(d) /\ ~deadLetters[d].old
    /\ deadLetters' = [deadLetters EXCEPT ![d].old = TRUE]
    /\ UNCHANGED <<subscriptionVars, delivery, sweeps, requests, acknowledged, crashes>>

-----------------------------------------------------------------------------
(* One sweep of the dead-letter job.                                       *)
Eligible(d) == /\ deadLetters[d].status = "pending" /\ deadLetters[d].old
               /\ deadLetters[d].attempts < MaxAutoRetries

(* listWebhookDeadLetters(200, 0): the newest rows, whatever their status. *)
Newer(d) == {k \in Deliveries : InTable(k) /\ d \in deadLetters[k].older}
Page == {d \in Deliveries : InTable(d) /\ Cardinality(Newer(d)) < PageSize}

(* The recovery of stale locks looks for them among the eligible rows of   *)
(* the page, of which none is locked.                                      *)
StaleLocks == {d \in Page : Eligible(d) /\ deadLetters[d].status = "in_progress"}

(* The rows to go through: what is due on the page, but for subscriptions  *)
(* that are suspended when the sweep starts.  No other row is looked for.  *)
Due(d) == d \in Page /\ Eligible(d) /\ ~Suspended(d[2])

StartSweep(w) ==
    /\ sweeps[w] = IdleSweep
    /\ deadLetters' = [d \in Deliveries |->
                         IF d \in StaleLocks THEN [deadLetters[d] EXCEPT !.status = "pending"]
                         ELSE deadLetters[d]]
    /\ sweeps' = [sweeps EXCEPT ![w].todo = {d \in Deliveries : Due(d)}]
    /\ UNCHANGED <<subscriptionVars, delivery, requests, acknowledged, crashes>>

(* Mutant: only subscriptions in good health are retried.                  *)
SkipsDegraded(w, d) ==
    /\ sweeps[w].step = "list" /\ d \in sweeps[w].todo
    /\ deadLetters' = IF subscriptions[d[2]].status = "degraded" THEN deadLetters
                      ELSE claimWebhookDeadLetter(d)
    /\ sweeps' = IF deadLetters' = deadLetters
                 THEN [sweeps EXCEPT ![w].todo = @ \ {d}]
                 ELSE [sweeps EXCEPT ![w] = [step |-> "post", todo |-> @.todo \ {d}, letter |-> d,
                                             attempts |-> deadLetters[d].attempts]]
    /\ UNCHANGED <<subscriptionVars, delivery, requests, acknowledged, crashes>>

(* The next row, in whatever order: claimed, or left to whoever has it.    *)
NextLetter(w, d) ==
    /\ sweeps[w].step = "list" /\ d \in sweeps[w].todo
    /\ deadLetters' = claimWebhookDeadLetter(d)
    /\ sweeps' = IF deadLetters' = deadLetters
                 THEN [sweeps EXCEPT ![w].todo = @ \ {d}]
                 ELSE [sweeps EXCEPT ![w] = [step |-> "post", todo |-> @.todo \ {d}, letter |-> d,
                                             attempts |-> deadLetters[d].attempts]]
    /\ UNCHANGED <<subscriptionVars, delivery, requests, acknowledged, crashes>>

GoOn(w) == sweeps' = [sweeps EXCEPT ![w] = [IdleSweep EXCEPT !.todo = sweeps[w].todo]]

SweepDelivers(w) ==
    /\ sweeps[w].step = "post"
    /\ deadLetters' = markWebhookDeadLetterReplayed(sweeps[w].letter)
    /\ acknowledged' = acknowledged \cup {sweeps[w].letter}
    /\ GoOn(w)
    /\ UNCHANGED <<subscriptionVars, delivery, requests, crashes>>

(* The attempt is recorded, then the claim released: two statements.       *)
SweepFails(w) ==
    /\ sweeps[w].step = "post"
    /\ deadLetters' = updateWebhookDeadLetterAttempt(sweeps[w].letter, sweeps[w].attempts + 1)
    /\ sweeps' = [sweeps EXCEPT ![w] = [step |-> "release", todo |-> @.todo, letter |-> @.letter,
                                        attempts |-> 0]]
    /\ UNCHANGED <<subscriptionVars, delivery, requests, acknowledged, crashes>>

SweepReleases(w) ==
    /\ sweeps[w].step = "release"
    /\ deadLetters' = releaseWebhookDeadLetterClaim(sweeps[w].letter)
    /\ GoOn(w)
    /\ UNCHANGED <<subscriptionVars, delivery, requests, acknowledged, crashes>>

-----------------------------------------------------------------------------
(* requeueDeadLetter claims nothing: it posts whatever row is not yet      *)
(* replayed, and writes back the attempts it read.                         *)
StartRequeue(r, d) ==
    /\ requests[r].letter = NoLetter
    /\ deadLetters[d].status \in {"pending", "in_progress"}
    /\ requests' = [requests EXCEPT ![r] = [letter |-> d, attempts |-> deadLetters[d].attempts]]
    /\ UNCHANGED <<subscriptionVars, delivery, deadLetters, sweeps, acknowledged, crashes>>

(* Mutant: the row is marked whether or not the delivery succeeded.        *)
MarksAlways(r, ok) ==
    /\ requests[r].letter # NoLetter
    /\ deadLetters' = markWebhookDeadLetterReplayed(requests[r].letter)
    /\ acknowledged' = IF ok THEN acknowledged \cup {requests[r].letter} ELSE acknowledged
    /\ requests' = [requests EXCEPT ![r] = IdleRequest]
    /\ UNCHANGED <<subscriptionVars, delivery, sweeps, crashes>>

requeueDeadLetter(r, ok) ==
    /\ requests[r].letter # NoLetter
    /\ deadLetters' =
         IF ok THEN markWebhookDeadLetterReplayed(requests[r].letter)
         ELSE updateWebhookDeadLetterAttempt(requests[r].letter,
                                             requests[r].attempts + RequeueTries)
    /\ acknowledged' = IF ok THEN acknowledged \cup {requests[r].letter} ELSE acknowledged
    /\ requests' = [requests EXCEPT ![r] = IdleRequest]
    /\ UNCHANGED <<subscriptionVars, delivery, sweeps, crashes>>

DeleteRows(S) ==
    /\ deadLetters' = [d \in Deliveries |->
                         IF d \in S THEN [NoRow EXCEPT !.status = "deleted"] ELSE deadLetters[d]]
    /\ UNCHANGED <<subscriptionVars, delivery, sweeps, requests, acknowledged, crashes>>

purgeDeadLetter(d) == InTable(d) /\ DeleteRows({d})

(* Rows in any status: how many of the old ones are past the cut-off of at *)
(* least a day is left open.                                               *)
purgeOldDeadLetters(S) ==
    /\ \A d \in S : InTable(d) /\ deadLetters[d].old
    /\ DeleteRows(S)

-----------------------------------------------------------------------------
(* A process dies: the server with what it was delivering and with its     *)
(* breakers, or a sweep with its claim.                                    *)
ServerCrash ==
    /\ crashes < MaxCrashes /\ crashes' = crashes + 1
    /\ delivery' = [d \in Deliveries |->
                      IF delivery[d] \in {"posting", "failed"} THEN "lost" ELSE delivery[d]]
    /\ breakers' = [s \in Subscriptions |-> NewBreaker]
    /\ requests' = [r \in Requests |-> IdleRequest]
    /\ pings' = {}
    /\ UNCHANGED <<subscriptions, deadLetters, sweeps, acknowledged>>

SweepCrash(w) ==
    /\ crashes < MaxCrashes /\ crashes' = crashes + 1
    /\ sweeps[w] # IdleSweep
    /\ sweeps' = [sweeps EXCEPT ![w] = IdleSweep]
    /\ UNCHANGED <<subscriptionVars, delivery, deadLetters, requests, acknowledged>>

-----------------------------------------------------------------------------
SweepGoesOn(w) ==
    \/ SweepDelivers(w) \/ SweepFails(w) \/ SweepReleases(w)
    \/ \E d \in Deliveries : NextLetter(w, d)

SweepStep(w) == StartSweep(w) \/ SweepGoesOn(w)

SubscriptionStep(s) ==
    \/ registerWebhook(s) \/ deleteWebhook(s) \/ StartPing(s)
    \/ resetTimeoutElapses(s)
    \/ \E ok \in BOOLEAN : reactivateAfterPing(s, ok)

DeliveryStep(d) ==
    \/ DeliverySucceeds(d) \/ insertWebhookDeadLetter(d)
    \/ DeadLetterAges(d) \/ purgeDeadLetter(d)
    \/ \E long \in BOOLEAN : DeliveryFails(d, long)

RequestStep(r) ==
    \/ \E d \in Deliveries : StartRequeue(r, d)
    \/ \E ok \in BOOLEAN : requeueDeadLetter(r, ok)

Next ==
    \/ \E e \in Events : dispatchEventWebhook(e)
    \/ \E s \in Subscriptions : SubscriptionStep(s)
    \/ \E d \in Deliveries : DeliveryStep(d)
    \/ \E w \in Sweeps : SweepStep(w) \/ SweepCrash(w)
    \/ \E r \in Requests : RequestStep(r)
    \/ \E S \in SUBSET Deliveries : purgeOldDeadLetters(S)
    \/ ServerCrash

(* A sweep that was started works through its list: every await ends,      *)
(* posts are bounded by WEBHOOK_TIMEOUT_MS.  Nothing starts one: src/index.ts *)
(* does not call startDeadLetterRetryJob (docs/background-jobs.md).        *)
Fairness == \A w \in Sweeps : WF_vars(SweepGoesOn(w))

Spec == Init /\ [][Next]_vars /\ Fairness

-----------------------------------------------------------------------------
SubscriptionRow == [status : {"none", "active", "degraded", "suspended", "deleted"},
                    failures : 0..SuspendAfter]
LetterRow == [status : {"none", "pending", "in_progress", "replayed", "deleted"},
              attempts : 0..MaxAutoRetries, old : BOOLEAN, older : SUBSET Deliveries]
SweepState == [step : {"list", "post", "release"}, todo : SUBSET Deliveries,
               letter : Deliveries \cup {NoLetter}, attempts : 0..MaxAutoRetries]
RequestState == [letter : Deliveries \cup {NoLetter}, attempts : 0..MaxAutoRetries]

TypeOK ==
    /\ subscriptions \in [Subscriptions -> SubscriptionRow]
    /\ breakers \in [Subscriptions -> Breaker]
    /\ delivery \in [Deliveries ->
         {"none", "skipped", "posting", "failed", "delivered", "dead", "lost"}]
    /\ deadLetters \in [Deliveries -> LetterRow]
    /\ sweeps \in [Sweeps -> SweepState]
    /\ requests \in [Requests -> RequestState]
    /\ pings \subseteq Subscriptions
    /\ acknowledged \subseteq Deliveries
    /\ crashes \in 0..MaxCrashes

(* Whatever outcomes of concurrent deliveries, resets and restarts come in *)
(* whatever order, a breaker is closed exactly while its streak is short.  *)
BreakersMatchStreaks == \A s \in Subscriptions : StateMatchesCount(breakers[s])

(* A subscription that still receives deliveries has a streak below the    *)
(* limit, and calls itself degraded just when it has one: the two counters *)
(* written by every delivery never let an endpoint past its suspension.    *)
StatusMatchesStreak ==
    \A s \in Subscriptions :
        /\ subscriptions[s].status = "active" => subscriptions[s].failures = 0
        /\ subscriptions[s].status = "degraded" => subscriptions[s].failures \in 1..(SuspendAfter - 1)

(* docs/webhooks.md: what was dispatched is delivered or persisted instead *)
(* of dropped.  Unless its process died, a delivery that was made and that *)
(* the subscriber has not acknowledged is queued or was purged.            *)
NothingDropped ==
    \A d \in Deliveries :
        delivery[d] \in {"delivered", "dead"} /\ d \notin acknowledged
            => deadLetters[d].status \in {"pending", "in_progress", "deleted"}

(* docs/webhooks.md: a subscription is re-enabled by a successful ping     *)
(* only; deliveries begun before the suspension may still succeed.         *)
SuspendedUntilPinged ==
    [][\A s \in Subscriptions :
          Suspended(s) => Suspended(s)' \/ subscriptions'[s].status = "deleted"
                          \/ (s \in pings /\ s \notin pings')]_vars

(* Whatever else claims, requeues, crashes or stays in the hands of dead   *)
(* workers, a process that is made to sweep again and again does not pass  *)
(* over a letter that stays due on its page (runDeadLetterRetryJob).       *)
SweepsTryTheirPage ==
    \A w \in Sweeps, d \in Deliveries : []<><<StartSweep(w)>>_vars => ~<>[]Due(d)

Held(w, d) == sweeps[w].step \in {"post", "release"} /\ sweeps[w].letter = d
LetterStatus == [none |-> "none", pending |-> "waiting", in_progress |-> "taken",
                 replayed |-> "done", deleted |-> "gone"]

Queue == INSTANCE DeadLetterQueue WITH
    Letters <- Deliveries, Workers <- Sweeps,
    status <- [d \in Deliveries |-> LetterStatus[deadLetters[d].status]],
    holders <- [d \in Deliveries |-> {w \in Sweeps : Held(w, d)}]

(* docs/webhooks.md: "at most one concurrent sweep processes a given row". *)
(* The job, the administrators and the crashes implement the queue of      *)
(* DeadLetterQueue.                                                        *)
ImplementsQueue == Queue!Spec

(* What the code does not keep even if every process goes on to sweep:     *)
(* MCStaleLocks.cfg.                                                       *)
StartedSpec == Spec /\ \A w \in Sweeps : WF_vars(StartSweep(w))

(* webhookDeadLetterJob.ts, "Recover stale locks from crashed workers": a  *)
(* row whose worker has died does not stay claimed for ever.               *)
StaleLocksAreRecovered ==
    \A d \in Deliveries :
        ~<>[](deadLetters[d].status = "in_progress" /\ \A w \in Sweeps : ~Held(w, d))

(* docs/background-jobs.md, of the job: "re-attempt delivery of pending    *)
(* dead letters older than 10 minutes".  Rows beyond the page wait for     *)
(* ever: replayed ones are not deleted and fill it.                        *)
DueLettersAreTried == \A d \in Deliveries : ~<>[](Eligible(d) /\ ~Suspended(d[2]))
=============================================================================
