---------------------------- MODULE WebhooksProofs ----------------------------
(***************************************************************************)
(* Webhook deliveries, for any number of events, subscriptions, sweeps and *)
(* requests and any thresholds: the streaks and what they decide, the dead *)
(* letters, and that the dead-letter job implements DeadLetterQueue.       *)
(***************************************************************************)
EXTENDS Webhooks, TLAPS

-----------------------------------------------------------------------------
(* Health: each subscription and each breaker moves by itself.  A          *)
(* subscription begins without a streak.                                   *)
RowMatchesStreak(row) ==
    /\ row.status \in {"none", "active"} => row.failures = 0
    /\ row.status = "degraded" => row.failures \in 1..(SuspendAfter - 1)

Health ==
    /\ subscriptions \in [Subscriptions -> SubscriptionRow]
    /\ breakers \in [Subscriptions -> Breaker]
    /\ \A s \in Subscriptions : RowMatchesStreak(subscriptions[s])
    /\ BreakersMatchStreaks

(* What a delivery's outcome makes of a subscription and its breaker.      *)
LEMMA RowsMove ==
    ASSUME Health, NEW s \in Subscriptions, NEW long \in BOOLEAN
    PROVE  /\ \A row \in {AfterSuccess(s), AfterFailure(s, long)} :
                 /\ row \in SubscriptionRow /\ RowMatchesStreak(row)
                 /\ Suspended(s) => row.status = "suspended"
           /\ \A b \in {NewBreaker, onSuccess(breakers[s]), onFailure(breakers[s]),
                        CoolDown(breakers[s])} : b \in Breaker /\ StateMatchesCount(b)
<1>1. /\ subscriptions[s] \in SubscriptionRow /\ breakers[s] \in Breaker
      /\ RowMatchesStreak(subscriptions[s])
      /\ StateMatchesCount(breakers[s])
  BY DEF Health, BreakersMatchStreaks
<1>2. Streak(s) \in 1..SuspendAfter
  BY <1>1, WebhooksAssumption DEF Streak, CountTo, SubscriptionRow
<1>3. \A row \in {AfterSuccess(s), AfterFailure(s, long)} :
          /\ row \in SubscriptionRow /\ RowMatchesStreak(row)
          /\ Suspended(s) => row.status = "suspended"
  BY <1>1, <1>2, WebhooksAssumption
     DEF AfterSuccess, AfterFailure, Exists, Suspended, SubscriptionRow, RowMatchesStreak
<1>4. \A b \in {NewBreaker, onSuccess(breakers[s]), onFailure(breakers[s]), CoolDown(breakers[s])} :
          b \in Breaker /\ StateMatchesCount(b)
  BY <1>1, ThresholdAssumption
     DEF NewBreaker, onSuccess, onFailure, CoolDown, Breaker, StateMatchesCount
<1>5. QED
  BY <1>3, <1>4

(* One subscription or one breaker at a time.                              *)
LEMMA HealthMoves ==
    ASSUME Health, NEW s \in Subscriptions,
           subscriptions' = subscriptions \/ \E row \in SubscriptionRow :
              subscriptions' = [subscriptions EXCEPT ![s] = row] /\ RowMatchesStreak(row),
           breakers' = breakers \/ \E b \in Breaker :
              breakers' = [breakers EXCEPT ![s] = b] /\ StateMatchesCount(b)
    PROVE  Health'
<1>1. /\ subscriptions' \in [Subscriptions -> SubscriptionRow]
      /\ \A k \in Subscriptions : RowMatchesStreak(subscriptions'[k])
  BY DEF Health
<1>2. breakers' \in [Subscriptions -> Breaker] /\ BreakersMatchStreaks'
  BY DEF Health, BreakersMatchStreaks
<1>3. QED
  BY <1>1, <1>2 DEF Health

LEMMA HealthKept ==
    ASSUME Health, Next
    PROVE  Health'
<1>1. ASSUME subscriptions' = subscriptions, breakers' = breakers
      PROVE  Health'
  BY <1>1 DEF Health, BreakersMatchStreaks
<1>2. ASSUME NEW s \in Subscriptions, SubscriptionStep(s)
      PROVE  Health'
  <2>1. CASE registerWebhook(s)
    <3>1. [subscriptions[s] EXCEPT !.status = "active"] \in SubscriptionRow
      BY DEF Health, SubscriptionRow
    <3>2. RowMatchesStreak([subscriptions[s] EXCEPT !.status = "active"])
      BY <2>1 DEF registerWebhook, Health, SubscriptionRow, RowMatchesStreak
    <3>3. QED
      BY <2>1, <3>1, <3>2, HealthMoves DEF registerWebhook
  <2>2. CASE deleteWebhook(s)
    <3>1. /\ [status |-> "deleted", failures |-> 0] \in SubscriptionRow
          /\ RowMatchesStreak([status |-> "deleted", failures |-> 0])
      BY WebhooksAssumption DEF SubscriptionRow, RowMatchesStreak
    <3>2. QED
      BY <2>2, <3>1, HealthMoves DEF deleteWebhook
  <2>3. CASE resetTimeoutElapses(s)
    BY <2>3, RowsMove, HealthMoves DEF resetTimeoutElapses
  <2>4. ASSUME NEW ok \in BOOLEAN, reactivateAfterPing(s, ok)
        PROVE  Health'
    <3>1. /\ [status |-> "active", failures |-> 0] \in SubscriptionRow
          /\ RowMatchesStreak([status |-> "active", failures |-> 0])
      BY WebhooksAssumption DEF SubscriptionRow, RowMatchesStreak
    <3>2. NewBreaker \in Breaker /\ StateMatchesCount(NewBreaker)
      BY RowsMove
    <3>3. QED
      BY <2>4, <3>1, <3>2, HealthMoves DEF reactivateAfterPing
  <2>5. QED
    BY <1>1, <1>2, <2>1, <2>2, <2>3, <2>4 DEF SubscriptionStep, StartPing
<1>3. ASSUME NEW d \in Deliveries, DeliveryStep(d)
      PROVE  Health'
  <2>1. d[2] \in Subscriptions
    BY DEF Deliveries
  <2>2. CASE DeliverySucceeds(d)
    BY <2>1, <2>2, RowsMove, HealthMoves DEF DeliverySucceeds
  <2>3. ASSUME NEW long \in BOOLEAN, DeliveryFails(d, long)
        PROVE  Health'
    BY <2>1, <2>3, RowsMove, HealthMoves DEF DeliveryFails
  <2>4. QED
    BY <1>1, <1>3, <2>2, <2>3 DEF DeliveryStep, insertWebhookDeadLetter, DeadLetterAges,
       purgeDeadLetter, DeleteRows, subscriptionVars
<1>4. CASE ServerCrash
  <2>1. NewBreaker \in Breaker /\ StateMatchesCount(NewBreaker)
    BY ThresholdAssumption DEF NewBreaker, Breaker, StateMatchesCount
  <2>2. QED
    BY <1>4, <2>1 DEF ServerCrash, Health, BreakersMatchStreaks
<1>5. CASE \/ \E e \in Events : dispatchEventWebhook(e)
           \/ \E w \in Sweeps : SweepStep(w) \/ SweepCrash(w)
           \/ \E r \in Requests : RequestStep(r)
           \/ \E S \in SUBSET Deliveries : purgeOldDeadLetters(S)
  BY <1>1, <1>5 DEF dispatchEventWebhook, SweepStep, SweepGoesOn, SweepCrash, RequestStep,
     purgeOldDeadLetters, StartSweep, NextLetter, SweepDelivers, SweepFails, SweepReleases, StartRequeue,
     requeueDeadLetter, DeleteRows, subscriptionVars
<1>6. QED
  BY <1>2, <1>3, <1>4, <1>5 DEF Next

LEMMA HealthInvariant == Spec => []Health
<1>1. Init => Health
  <2>1. NewBreaker \in Breaker /\ StateMatchesCount(NewBreaker)
    BY ThresholdAssumption DEF NewBreaker, Breaker, StateMatchesCount
  <2>2. QED
    BY <2>1, WebhooksAssumption
       DEF Init, Health, SubscriptionRow, RowMatchesStreak, BreakersMatchStreaks
<1>2. Health /\ [Next]_vars => Health'
  BY HealthKept DEF vars, Health, BreakersMatchStreaks
<1>3. QED
  BY <1>1, <1>2, PTL DEF Spec

(* However many calls of a subscription end in whatever order, its breaker *)
(* (utils/circuitBreaker.ts) is closed just while its streak is short.     *)
THEOREM BreakersAreTrue == Spec => []BreakersMatchStreaks
<1>1. Health => BreakersMatchStreaks
  BY DEF Health
<1>2. QED
  BY <1>1, HealthInvariant, PTL

(* The status of a subscription says what its streak is                    *)
(* (webhookHealth.ts), whoever writes it.                                  *)
THEOREM StreaksAreTrue == Spec => []StatusMatchesStreak
<1>1. Health => StatusMatchesStreak
  BY DEF Health, StatusMatchesStreak, RowMatchesStreak
<1>2. QED
  BY <1>1, HealthInvariant, PTL

(* Nothing but a ping that succeeded lifts a suspension                    *)
(* (reactivateWebhookSubscription), late deliveries included.              *)
THEOREM SuspensionsLast == Spec => SuspendedUntilPinged
<1> DEFINE Lasts(s) == Suspended(s) => Suspended(s)' \/ subscriptions'[s].status = "deleted"
                                       \/ (s \in pings /\ s \notin pings')
<1>1. Health /\ [Next]_vars => [\A s \in Subscriptions : Lasts(s)]_vars
  <2> SUFFICES ASSUME Health, Next, NEW s \in Subscriptions, Suspended(s) PROVE Lasts(s)
    OBVIOUS
  <2>1. ASSUME subscriptions' = subscriptions
        PROVE  Lasts(s)
    BY <2>1 DEF Suspended
  <2>2. ASSUME NEW k \in Subscriptions, SubscriptionStep(k)
        PROVE  Lasts(s)
    BY <2>1, <2>2 DEF SubscriptionStep, registerWebhook, deleteWebhook, StartPing,
       resetTimeoutElapses, reactivateAfterPing, Health, Suspended, SubscriptionRow
  <2>3. ASSUME NEW d \in Deliveries, NEW row,
               subscriptions' = [subscriptions EXCEPT ![d[2]] = row],
               Suspended(d[2]) => row.status = "suspended"
        PROVE  Lasts(s)
    BY <2>3 DEF Health, Suspended
  <2>4. ASSUME NEW d \in Deliveries, DeliveryStep(d)
        PROVE  Lasts(s)
    <3>1. d[2] \in Subscriptions
      BY DEF Deliveries
    <3>2. CASE DeliverySucceeds(d)
      BY <2>3, <3>1, <3>2, RowsMove DEF DeliverySucceeds
    <3>3. ASSUME NEW long \in BOOLEAN, DeliveryFails(d, long)
          PROVE  Lasts(s)
      BY <2>3, <3>1, <3>3, RowsMove DEF DeliveryFails
    <3>4. QED
      BY <2>1, <2>4, <3>2, <3>3 DEF DeliveryStep, insertWebhookDeadLetter, DeadLetterAges,
         purgeDeadLetter, DeleteRows, subscriptionVars
  <2>5. CASE \/ \E e \in Events : dispatchEventWebhook(e)
             \/ \E w \in Sweeps : SweepStep(w) \/ SweepCrash(w)
             \/ \E r \in Requests : RequestStep(r)
             \/ \E S \in SUBSET Deliveries : purgeOldDeadLetters(S)
             \/ ServerCrash
    BY <2>1, <2>5 DEF dispatchEventWebhook, SweepStep, SweepGoesOn, SweepCrash, RequestStep,
       purgeOldDeadLetters, StartSweep, NextLetter, SweepDelivers, SweepFails, SweepReleases,
       StartRequeue, requeueDeadLetter, DeleteRows, ServerCrash, subscriptionVars
  <2>6. QED
    BY <2>2, <2>4, <2>5 DEF Next
<1>2. QED
  BY <1>1, HealthInvariant, PTL DEF Spec, SuspendedUntilPinged

-----------------------------------------------------------------------------
(* Dead letters: the tables and the sweeps.                                *)
LetterTypes ==
    /\ deadLetters \in [Deliveries -> LetterRow]
    /\ sweeps \in [Sweeps -> SweepState]
    /\ requests \in [Requests -> RequestState]
    /\ DOMAIN delivery = Deliveries

(* The status of the rows in S becomes to, that of the others is kept.     *)
Become(rows, S, to) ==
    /\ rows \in [Deliveries -> LetterRow]
    /\ \A d \in Deliveries : rows[d].status = IF d \in S THEN to ELSE deadLetters[d].status

LEMMA Counted == \A n \in Nat : CountTo(n, MaxAutoRetries) \in 0..MaxAutoRetries
  BY WebhooksAssumption DEF CountTo

LEMMA RowInserted ==
    ASSUME NEW n \in 0..MaxAutoRetries, NEW others \in SUBSET Deliveries
    PROVE  NewRow(n, others) \in LetterRow /\ NewRow(n, others).status = "pending"
  BY DEF NewRow, LetterRow

(* One row is written.                                                     *)
LEMMA RowWritten ==
    ASSUME LetterTypes, NEW d \in Deliveries, NEW row \in LetterRow
    PROVE  Become([deadLetters EXCEPT ![d] = row], {d}, row.status)
  BY DEF LetterTypes, Become

(* What the statements on webhook_dead_letters do to the statuses.         *)
LEMMA StatementsMove ==
    ASSUME LetterTypes, NEW d \in Deliveries, NEW n \in Nat
    PROVE  /\ Become(claimWebhookDeadLetter(d),
                     IF deadLetters[d].status = "pending" THEN {d} ELSE {}, "in_progress")
           /\ Become(releaseWebhookDeadLetterClaim(d),
                     IF deadLetters[d].status = "in_progress" THEN {d} ELSE {}, "pending")
           /\ Become(markWebhookDeadLetterReplayed(d), IF InTable(d) THEN {d} ELSE {}, "replayed")
           /\ Become(updateWebhookDeadLetterAttempt(d, n), {}, "pending")
<1>1. deadLetters[d] \in LetterRow
  BY DEF LetterTypes
<1>2. Become(deadLetters, {}, "pending") /\ \A to : Become(deadLetters, {}, to)
  BY DEF LetterTypes, Become
<1>3. ASSUME NEW to \in {"pending", "in_progress", "replayed"}
      PROVE  Become([deadLetters EXCEPT ![d].status = to], {d}, to)
  <2>1. [deadLetters[d] EXCEPT !.status = to] \in LetterRow
    BY <1>1 DEF LetterRow
  <2>2. QED
    BY <1>1, <2>1 DEF LetterTypes, Become, LetterRow
<1>4. Become([deadLetters EXCEPT ![d].attempts = CountTo(n, MaxAutoRetries)], {}, "pending")
  <2>1. [deadLetters[d] EXCEPT !.attempts = CountTo(n, MaxAutoRetries)] \in LetterRow
    BY <1>1, Counted DEF LetterRow
  <2>2. QED
    BY <1>1, <2>1 DEF LetterTypes, Become, LetterRow
<1>5. QED
  BY <1>2, <1>3, <1>4 DEF claimWebhookDeadLetter, releaseWebhookDeadLetterClaim,
     markWebhookDeadLetterReplayed, updateWebhookDeadLetterAttempt

-----------------------------------------------------------------------------
(* Who holds what after a step.                                            *)
Takes(w, d) == \A v \in Sweeps, k \in Deliveries : Held(v, k)' <=> IF v = w THEN k = d ELSE Held(v, k)
Frees(w) == \A v \in Sweeps, k \in Deliveries : Held(v, k)' <=> Held(v, k) /\ v # w
SameHands == \A v \in Sweeps, k \in Deliveries : Held(v, k)' <=> Held(v, k)

(* A letter in hand is one that was claimed, and nobody else's.            *)
ClaimsAreHeld ==
    /\ \A w \in Sweeps : sweeps[w].step # "list" => sweeps[w].letter \in Deliveries
    /\ \A w \in Sweeps, d \in Deliveries :
          Held(w, d) => /\ deadLetters[d].status \in {"in_progress", "replayed", "deleted"}
                        /\ \A v \in Sweeps : Held(v, d) => v = w

(* A row exists just when the delivery has been given up; what the book    *)
(* calls delivered or replayed was acknowledged.                           *)
LettersAreTrue ==
    \A d \in Deliveries :
        /\ delivery[d] = "dead" <=> deadLetters[d].status # "none"
        /\ delivery[d] = "delivered" => d \in acknowledged
        /\ deadLetters[d].status = "replayed" => d \in acknowledged

LInv == LetterTypes /\ ClaimsAreHeld /\ LettersAreTrue

Statuses(S, from) == \A d \in S : deadLetters[d].status \in from

(* The steps of the queue, in the words of the tables.                     *)
Rests == Become(deadLetters', {}, "pending") /\ SameHands
Queues(S) == Statuses(S, {"none"}) /\ Become(deadLetters', S, "pending") /\ SameHands
Claims(w, d) == /\ Statuses({d}, {"pending"}) /\ sweeps[w].step = "list"
                /\ Become(deadLetters', {d}, "in_progress") /\ Takes(w, d)
Ends(w, d, to) == /\ Held(w, d) /\ Frees(w)
                  /\ Become(deadLetters',
                            IF deadLetters[d].status = "in_progress" THEN {d} ELSE {}, to)
Replays(d) == /\ Statuses({d}, {"pending", "in_progress"})
              /\ Become(deadLetters', {d}, "replayed") /\ SameHands
Deletes(S) == /\ Statuses(S, {"pending", "in_progress", "replayed"})
              /\ Become(deadLetters', S, "deleted") /\ SameHands

LetterMove ==
    \/ Rests
    \/ \E S \in SUBSET Deliveries : Queues(S) \/ Deletes(S)
    \/ \E d \in Deliveries : Replays(d)
    \/ \E w \in Sweeps, d \in Deliveries : \/ Claims(w, d)
                                           \/ \E to \in {"pending", "in_progress", "replayed"} : Ends(w, d, to)

LEMMA HandsMove ==
    ASSUME LetterTypes, NEW w \in Sweeps, NEW row \in SweepState, sweeps' = [sweeps EXCEPT ![w] = row]
    PROVE  /\ sweeps' \in [Sweeps -> SweepState]
           /\ \A v \in Sweeps, k \in Deliveries :
                 Held(v, k)' <=> IF v = w THEN row.step \in {"post", "release"} /\ row.letter = k
                                         ELSE Held(v, k)
  BY DEF LetterTypes, Held

LEMMA StayPut ==
    ASSUME sweeps' = sweeps
    PROVE  SameHands
  BY DEF SameHands, Held

(* The sweeps.                                                             *)
LEMMA SweepMoves ==
    ASSUME LetterTypes, ClaimsAreHeld, NEW w \in Sweeps, SweepStep(w) \/ SweepCrash(w)
    PROVE  LetterTypes' /\ LetterMove
<1>1. sweeps[w] \in SweepState /\ requests' = requests /\ delivery' = delivery
  BY DEF LetterTypes, SweepStep, SweepGoesOn, SweepCrash, StartSweep, NextLetter, SweepDelivers, SweepFails,
     SweepReleases
<1>2. IdleSweep \in SweepState
  BY WebhooksAssumption DEF IdleSweep, SweepState
<1>3. ASSUME sweeps' \in [Sweeps -> SweepState], deadLetters' \in [Deliveries -> LetterRow]
      PROVE  LetterTypes'
  BY <1>1, <1>3 DEF LetterTypes
<1>4. CASE StartSweep(w)
  <2>1. deadLetters' = deadLetters
    BY <1>4 DEF StartSweep, StaleLocks, Eligible, LetterTypes
  <2>2. Become(deadLetters', {}, "pending")
    BY <2>1 DEF Become, LetterTypes
  <2> DEFINE todo == {d \in Deliveries : Due(d)}
             row == [sweeps[w] EXCEPT !.todo = todo]
  <2>3. row \in SweepState /\ sweeps' = [sweeps EXCEPT ![w] = row]
    BY <1>1, <1>4 DEF StartSweep, SweepState
  <2>4. row.step = sweeps[w].step /\ row.letter = sweeps[w].letter
    BY <1>1 DEF SweepState
  <2>5. SameHands /\ sweeps' \in [Sweeps -> SweepState]
    <3> HIDE DEF row
    <3>1. QED
      BY <2>3, <2>4, HandsMove DEF SameHands, Held
  <2>6. QED
    BY <1>3, <2>2, <2>5 DEF Become, LetterMove, Rests
<1>5. ASSUME NEW d \in Deliveries, NextLetter(w, d)
      PROVE  LetterTypes' /\ LetterMove
  <2>1. deadLetters' = claimWebhookDeadLetter(d) /\ sweeps[w].step = "list"
    BY <1>5 DEF NextLetter
  <2>2. Become(deadLetters', IF deadLetters[d].status = "pending" THEN {d} ELSE {}, "in_progress")
    BY <2>1, StatementsMove
  <2>3. CASE deadLetters[d].status = "pending"
    <3> DEFINE row == [step |-> "post", todo |-> sweeps[w].todo \ {d}, letter |-> d,
                       attempts |-> deadLetters[d].attempts]
    <3>1. deadLetters' # deadLetters
      BY <2>2, <2>3 DEF Become
    <3>2. row \in SweepState
      BY <1>1 DEF SweepState, LetterTypes, LetterRow
    <3>3. sweeps' = [sweeps EXCEPT ![w] = row]
      BY <1>5, <3>1 DEF NextLetter
    <3>4. Takes(w, d) /\ sweeps' \in [Sweeps -> SweepState]
      BY <3>2, <3>3, HandsMove DEF Takes
    <3>5. Claims(w, d)
      BY <2>1, <2>2, <2>3, <3>4 DEF Claims, Statuses
    <3>6. QED
      BY <1>3, <2>2, <3>4, <3>5 DEF Become, LetterMove
  <2>4. CASE deadLetters[d].status # "pending"
    <3> DEFINE row == [sweeps[w] EXCEPT !.todo = @ \ {d}]
    <3>1. deadLetters' = deadLetters
      BY <2>1, <2>4 DEF claimWebhookDeadLetter
    <3>2. /\ row \in SweepState /\ row.step = "list"
          /\ sweeps' = [sweeps EXCEPT ![w] = row]
      BY <1>1, <1>5, <2>1, <3>1 DEF NextLetter, SweepState
    <3>3. SameHands /\ sweeps' \in [Sweeps -> SweepState]
      <4> HIDE DEF row
      <4>1. QED
        BY <2>1, <3>2, HandsMove DEF SameHands, Held
    <3>4. Become(deadLetters', {}, "pending")
      BY <3>1 DEF Become, LetterTypes
    <3>5. QED
      BY <1>3, <3>3, <3>4 DEF Become, LetterMove, Rests
  <2>5. QED
    BY <2>3, <2>4
<1> DEFINE letter == sweeps[w].letter
<1>6. ASSUME sweeps[w].step # "list"
      PROVE  letter \in Deliveries /\ Held(w, letter) /\ deadLetters[letter].status # "pending"
                /\ (InTable(letter) => deadLetters[letter].status \in {"in_progress", "replayed"})
  BY <1>1, <1>6 DEF ClaimsAreHeld, SweepState, Held, InTable
<1>7. ASSUME GoOn(w)
      PROVE  Frees(w) /\ sweeps' \in [Sweeps -> SweepState]
  <2> DEFINE row == [IdleSweep EXCEPT !.todo = sweeps[w].todo]
  <2>1. row \in SweepState /\ row.step = "list"
    BY <1>1, <1>2 DEF IdleSweep, SweepState
  <2>2. QED
    BY <1>7, <2>1, HandsMove DEF GoOn, Frees
<1>8. CASE SweepDelivers(w)
  <2>1. Become(deadLetters', IF InTable(letter) THEN {letter} ELSE {}, "replayed")
    BY <1>6, <1>8, StatementsMove DEF SweepDelivers
  <2>2. Become(deadLetters', IF deadLetters[letter].status = "in_progress" THEN {letter} ELSE {}, "replayed")
    BY <2>1, <1>6, <1>8 DEF SweepDelivers, Become, InTable
  <2>3. Ends(w, letter, "replayed")
    BY <1>6, <1>7, <1>8, <2>2 DEF SweepDelivers, Ends
  <2>4. QED
    BY <1>3, <1>6, <1>7, <1>8, <2>2, <2>3 DEF SweepDelivers, LetterMove, Become
<1>9. CASE SweepFails(w)
  <2> DEFINE row == [step |-> "release", todo |-> sweeps[w].todo, letter |-> letter, attempts |-> 0]
  <2>1. sweeps[w].attempts + 1 \in Nat
    BY <1>1, WebhooksAssumption DEF SweepState
  <2>2. Become(deadLetters', {}, "pending")
    BY <1>6, <1>9, <2>1, StatementsMove DEF SweepFails
  <2>3. /\ row \in SweepState
        /\ sweeps' = [sweeps EXCEPT ![w] = row]
    BY <1>1, <1>9, WebhooksAssumption DEF SweepFails, SweepState
  <2>4. SameHands /\ sweeps' \in [Sweeps -> SweepState]
    <3>1. row.step = "release" /\ row.letter = letter
      OBVIOUS
    <3>2. sweeps[w].step = "post"
      BY <1>9 DEF SweepFails
    <3> HIDE DEF row, letter
    <3>3. /\ sweeps' \in [Sweeps -> SweepState]
          /\ \A v \in Sweeps, k \in Deliveries :
                Held(v, k)' <=> IF v = w THEN letter = k ELSE Held(v, k)
      BY <2>3, <3>1, HandsMove
    <3>4. \A k \in Deliveries : Held(w, k) <=> letter = k
      BY <3>2 DEF Held, letter
    <3>5. QED
      BY <3>3, <3>4 DEF SameHands
  <2>5. QED
    BY <1>3, <2>2, <2>4 DEF Become, LetterMove, Rests
<1>10. CASE SweepReleases(w)
  <2>1. Become(deadLetters', IF deadLetters[letter].status = "in_progress" THEN {letter} ELSE {}, "pending")
    BY <1>6, <1>10, StatementsMove DEF SweepReleases
  <2>2. Ends(w, letter, "pending")
    BY <1>6, <1>7, <1>10, <2>1 DEF SweepReleases, Ends
  <2>3. QED
    BY <1>3, <1>6, <1>7, <1>10, <2>1, <2>2 DEF SweepReleases, LetterMove, Become
<1>11. CASE SweepCrash(w)
  <2>1. deadLetters' = deadLetters /\ sweeps' = [sweeps EXCEPT ![w] = IdleSweep]
    BY <1>11 DEF SweepCrash
  <2>2. \A to : Become(deadLetters', {}, to)
    BY <2>1 DEF Become, LetterTypes
  <2>3. Frees(w) /\ sweeps' \in [Sweeps -> SweepState]
    BY <1>2, <2>1, HandsMove DEF Frees, IdleSweep
  <2>4. CASE sweeps[w].step = "list"
    <3>1. SameHands
      BY <2>3, <2>4 DEF Frees, SameHands, Held
    <3>2. QED
      BY <1>3, <2>2, <2>3, <3>1 DEF Become, LetterMove, Rests
  <2>5. CASE sweeps[w].step # "list"
    <3>1. Become(deadLetters', IF deadLetters[letter].status = "in_progress" THEN {letter} ELSE {},
                 "in_progress")
      BY <2>1 DEF Become, LetterTypes
    <3>2. Ends(w, letter, "in_progress")
      BY <1>6, <2>3, <2>5, <3>1 DEF Ends
    <3>3. QED
      BY <1>3, <1>6, <2>2, <2>3, <2>5, <3>2 DEF Become, LetterMove
  <2>6. QED
    BY <2>4, <2>5
<1>12. QED
  BY <1>4, <1>5, <1>8, <1>9, <1>10, <1>11 DEF SweepStep, SweepGoesOn

(* Everybody else.  A row that is written keeps the status it had, or      *)
(* moves the way the queue allows.                                         *)
LEMMA OtherMoves ==
    ASSUME LInv, Next, \A w \in Sweeps : ~ SweepStep(w) /\ ~ SweepCrash(w)
    PROVE  LetterTypes' /\ LetterMove
<1>1. sweeps' = sweeps /\ SameHands
  BY StayPut DEF Next, SubscriptionStep, registerWebhook, deleteWebhook, StartPing,
     resetTimeoutElapses, reactivateAfterPing, letterVars, DeliveryStep, DeliverySucceeds,
     DeliveryFails, insertWebhookDeadLetter, DeadLetterAges, purgeDeadLetter, DeleteRows,
     RequestStep, StartRequeue, requeueDeadLetter, purgeOldDeadLetters, dispatchEventWebhook,
     ServerCrash
<1>2. \A to : Become(deadLetters, {}, to)
  BY DEF LInv, LetterTypes, Become
<1>3. ASSUME NEW S \in SUBSET Deliveries, Rests \/ Queues(S) \/ Deletes(S) \/ \E d \in Deliveries : Replays(d),
             requests' \in [Requests -> RequestState], DOMAIN delivery' = Deliveries
      PROVE  LetterTypes' /\ LetterMove
  BY <1>1, <1>3 DEF LInv, LetterTypes, LetterMove, Rests, Queues, Deletes, Replays, Become
<1>4. ASSUME deadLetters' = deadLetters PROVE Rests
  BY <1>1, <1>2, <1>4 DEF Rests
<1>5. /\ requests \in [Requests -> RequestState] /\ DOMAIN delivery = Deliveries
      /\ IdleRequest \in RequestState
  BY WebhooksAssumption DEF LInv, LetterTypes, IdleRequest, RequestState
<1>6. ASSUME NEW s \in Subscriptions, SubscriptionStep(s)
      PROVE  LetterTypes' /\ LetterMove
  BY <1>3, <1>4, <1>5, <1>6 DEF SubscriptionStep, registerWebhook, deleteWebhook, StartPing,
     resetTimeoutElapses, reactivateAfterPing, letterVars
<1>7. ASSUME NEW e \in Events, dispatchEventWebhook(e)
      PROVE  LetterTypes' /\ LetterMove
  <2> DEFINE S == Refused(e)
  <2>0. S \in SUBSET Deliveries
    BY DEF Refused
  <2>1. PICK place \in [S -> 1..Cardinality(S)] :
            deadLetters' = [d \in Deliveries |->
                              IF d \in S THEN NewRow(0, {k \in S : place[k] < place[d]})
                              ELSE deadLetters[d]]
    BY <1>7 DEF dispatchEventWebhook
  <2>2. \A d \in S : deadLetters[d].status = "none"
    <3> SUFFICES ASSUME NEW d \in S PROVE deadLetters[d].status = "none"
      OBVIOUS
    <3>1. d[2] \in Subscriptions /\ d = <<e, d[2]>>
      BY DEF Deliveries, Refused
    <3>2. delivery[d] = "none"
      BY <1>7, <3>1 DEF dispatchEventWebhook
    <3>3. QED
      BY <2>0, <3>2 DEF LInv, LettersAreTrue
  <2>3. Become(deadLetters', S, "pending")
    <3>1. ASSUME NEW d \in S
          PROVE  deadLetters'[d] \in LetterRow /\ deadLetters'[d].status = "pending"
      <4> DEFINE others == {k \in S : place[k] < place[d]}
      <4>1. others \in SUBSET Deliveries /\ 0 \in 0..MaxAutoRetries
        BY <2>0, WebhooksAssumption
      <4>2. deadLetters'[d] = NewRow(0, others)
        BY <2>0, <2>1
      <4> HIDE DEF others
      <4>3. QED
        BY <4>1, <4>2, RowInserted
    <3>2. /\ deadLetters' = [d \in Deliveries |-> deadLetters'[d]]
          /\ \A d \in Deliveries \ S : deadLetters'[d] = deadLetters[d]
      BY <2>1
    <3>3. QED
      BY <3>1, <3>2 DEF Become, LInv, LetterTypes
  <2>4. S \in SUBSET Deliveries /\ Queues(S)
    BY <1>1, <2>0, <2>2, <2>3 DEF Queues, Statuses
  <2>5. QED
    BY <1>3, <1>5, <1>7, <2>4 DEF dispatchEventWebhook
<1>8. ASSUME NEW S \in SUBSET Deliveries, \A d \in S : InTable(d), DeleteRows(S)
      PROVE  LetterTypes' /\ LetterMove
  <2> DEFINE row == [NoRow EXCEPT !.status = "deleted"]
  <2>1. row \in LetterRow /\ row.status = "deleted"
    <3>1. NoRow \in LetterRow
      BY WebhooksAssumption DEF NoRow, LetterRow
    <3>2. QED
      BY <3>1 DEF LetterRow
  <2>2. deadLetters' = [d \in Deliveries |-> IF d \in S THEN row ELSE deadLetters[d]]
    BY <1>8 DEF DeleteRows
  <2>3. Deletes(S)
    <3> HIDE DEF row
    <3>1. QED
      BY <1>1, <1>8, <2>1, <2>2 DEF Deletes, Statuses, InTable, Become, LInv, LetterTypes
  <2>4. QED
    BY <1>3, <1>5, <1>8, <2>3 DEF DeleteRows
<1>9. ASSUME NEW d \in Deliveries, DeliveryStep(d)
      PROVE  LetterTypes' /\ LetterMove
  <2>1. CASE DeliverySucceeds(d) \/ \E long \in BOOLEAN : DeliveryFails(d, long)
    BY <1>3, <1>4, <1>5, <2>1 DEF DeliverySucceeds, DeliveryFails
  <2>2. CASE insertWebhookDeadLetter(d)
    <3> DEFINE row == NewRow(CountTo(DispatchTries, MaxAutoRetries), {})
    <3>1. row \in LetterRow /\ row.status = "pending"
      BY Counted, RowInserted, WebhooksAssumption
    <3>2. deadLetters' = [deadLetters EXCEPT ![d] = row] /\ deadLetters[d].status = "none"
      BY <2>2 DEF insertWebhookDeadLetter, LInv, LettersAreTrue
    <3>3. Queues({d})
      <4> HIDE DEF row
      <4>1. QED
        BY <1>1, <3>1, <3>2, RowWritten DEF LInv, Queues, Statuses
    <3>4. QED
      BY <1>3, <1>5, <2>2, <3>3 DEF insertWebhookDeadLetter
  <2>3. CASE DeadLetterAges(d)
    <3> DEFINE row == [deadLetters[d] EXCEPT !.old = TRUE]
    <3>1. row \in LetterRow /\ row.status = deadLetters[d].status
      <4>1. deadLetters[d] \in LetterRow
        BY DEF LInv, LetterTypes
      <4>2. QED
        BY <4>1 DEF LetterRow
    <3>2. deadLetters' = [deadLetters EXCEPT ![d] = row]
      BY <2>3 DEF DeadLetterAges
    <3>3. Rests
      <4> HIDE DEF row
      <4>1. QED
        BY <1>1, <3>1, <3>2 DEF LInv, LetterTypes, Become, Rests
    <3>4. QED
      BY <1>3, <1>5, <2>3, <3>3 DEF DeadLetterAges
  <2>4. CASE purgeDeadLetter(d)
    BY <1>8, <2>4 DEF purgeDeadLetter
  <2>5. QED
    BY <1>9, <2>1, <2>2, <2>3, <2>4 DEF DeliveryStep
<1>10. ASSUME NEW r \in Requests, RequestStep(r)
       PROVE  LetterTypes' /\ LetterMove
  <2>1. ASSUME NEW d \in Deliveries, StartRequeue(r, d)
        PROVE  LetterTypes' /\ LetterMove
    <3>1. [letter |-> d, attempts |-> deadLetters[d].attempts] \in RequestState
      BY DEF LInv, LetterTypes, LetterRow, RequestState
    <3>2. QED
      BY <1>3, <1>4, <1>5, <2>1, <3>1 DEF StartRequeue
  <2>2. ASSUME NEW ok \in BOOLEAN, requeueDeadLetter(r, ok)
        PROVE  LetterTypes' /\ LetterMove
    <3> DEFINE d == requests[r].letter
    <3>1. d \in Deliveries /\ requests[r].attempts + RequeueTries \in Nat
      BY <1>5, <2>2, WebhooksAssumption DEF requeueDeadLetter, RequestState
    <3>2. requests' \in [Requests -> RequestState] /\ DOMAIN delivery' = Deliveries
      BY <1>5, <2>2 DEF requeueDeadLetter
    <3>3. CASE ok /\ deadLetters[d].status \in {"pending", "in_progress"}
      <4>1. Become(deadLetters', {d}, "replayed")
        BY <2>2, <3>1, <3>3, StatementsMove DEF LInv, requeueDeadLetter, InTable
      <4>2. Replays(d)
        BY <1>1, <3>3, <4>1 DEF Replays, Statuses
      <4>3. QED
        BY <1>3, <3>1, <3>2, <4>2
    <3>4. CASE ok /\ deadLetters[d].status \notin {"pending", "in_progress"}
      <4>1. Become(deadLetters', IF InTable(d) THEN {d} ELSE {}, "replayed")
        BY <2>2, <3>1, <3>4, StatementsMove DEF LInv, requeueDeadLetter
      <4>2. Rests
        BY <1>1, <3>4, <4>1 DEF Rests, Become, InTable
      <4>3. QED
        BY <1>3, <3>2, <4>2
    <3>5. CASE ~ok
      <4>1. Rests
        BY <1>1, <2>2, <3>1, <3>5, StatementsMove DEF LInv, requeueDeadLetter, Rests
      <4>2. QED
        BY <1>3, <3>2, <4>1
    <3>6. QED
      BY <3>3, <3>4, <3>5
  <2>3. QED
    BY <1>10, <2>1, <2>2 DEF RequestStep
<1>11. CASE \E S \in SUBSET Deliveries : purgeOldDeadLetters(S)
  BY <1>8, <1>11 DEF purgeOldDeadLetters
<1>12. CASE ServerCrash
  BY <1>3, <1>4, <1>5, <1>12 DEF ServerCrash
<1>13. QED
  BY <1>6, <1>7, <1>9, <1>10, <1>11, <1>12 DEF Next

LEMMA LettersMove ==
    ASSUME LInv, Next
    PROVE  LetterTypes' /\ LetterMove
  BY OtherMoves, SweepMoves DEF LInv

(* A claim is taken from a row that is waiting, so nobody holds it yet.    *)
LEMMA ClaimsAreHeldKept ==
    ASSUME LInv, Next
    PROVE  ClaimsAreHeld'
<1>1. LetterTypes' /\ LetterMove
  BY LettersMove
<1>2. ASSUME NEW w \in Sweeps, sweeps'[w].step # "list"
      PROVE  sweeps'[w].letter \in Deliveries
  <2>1. CASE sweeps' = sweeps
    BY <1>2, <2>1 DEF LInv, ClaimsAreHeld
  <2>2. ASSUME NEW v \in Sweeps, SweepStep(v) \/ SweepCrash(v)
        PROVE  sweeps'[w].letter \in Deliveries
    BY <1>2, <2>2 DEF LInv, LetterTypes, ClaimsAreHeld, SweepState, IdleSweep, SweepStep, SweepGoesOn, SweepCrash,
       StartSweep, NextLetter, SweepDelivers, SweepFails, SweepReleases, GoOn
  <2>3. QED
    BY <2>1, <2>2 DEF Next, SubscriptionStep, registerWebhook, deleteWebhook, StartPing,
       resetTimeoutElapses, reactivateAfterPing, letterVars, DeliveryStep, DeliverySucceeds,
       DeliveryFails, insertWebhookDeadLetter, DeadLetterAges, purgeDeadLetter, DeleteRows,
       RequestStep, StartRequeue, requeueDeadLetter, purgeOldDeadLetters, dispatchEventWebhook,
       ServerCrash
<1>3. ASSUME NEW w \in Sweeps, NEW d \in Deliveries, Held(w, d)'
      PROVE  /\ deadLetters'[d].status \in {"in_progress", "replayed", "deleted"}
             /\ \A v \in Sweeps : Held(v, d)' => v = w
  <2> USE DEF LInv, ClaimsAreHeld, Become, Statuses
  <2>1. CASE Rests
    BY <1>3, <2>1 DEF Rests, SameHands
  <2>2. CASE \E S \in SUBSET Deliveries : Queues(S) \/ Deletes(S)
    BY <1>3, <2>2 DEF Queues, Deletes, SameHands
  <2>3. CASE \E k \in Deliveries : Replays(k)
    BY <1>3, <2>3 DEF Replays, SameHands
  <2>4. ASSUME NEW u \in Sweeps, NEW k \in Deliveries, Claims(u, k)
        PROVE  /\ deadLetters'[d].status \in {"in_progress", "replayed", "deleted"}
               /\ \A v \in Sweeps : Held(v, d)' => v = w
    BY <1>3, <2>4 DEF Claims, Takes
  <2>5. ASSUME NEW u \in Sweeps, NEW k \in Deliveries,
               \E to \in {"pending", "in_progress", "replayed"} : Ends(u, k, to)
        PROVE  /\ deadLetters'[d].status \in {"in_progress", "replayed", "deleted"}
               /\ \A v \in Sweeps : Held(v, d)' => v = w
    BY <1>3, <2>5 DEF Ends, Frees
  <2>6. QED
    BY <1>1, <2>1, <2>2, <2>3, <2>4, <2>5 DEF LetterMove
<1>4. QED
  BY <1>2, <1>3 DEF ClaimsAreHeld

(* What was given up has a row and only that, and who marks a row          *)
(* replayed has delivered it.                                              *)
LEMMA LettersAreTrueKept ==
    ASSUME LInv, Next
    PROVE  LettersAreTrue'
<1>1. LetterTypes' /\ LetterMove
  BY LettersMove
<1>2. ASSUME deadLetters' = deadLetters, acknowledged \subseteq acknowledged',
             \A d \in Deliveries :
                /\ delivery'[d] = "dead" <=> delivery[d] = "dead"
                /\ delivery'[d] = "delivered" => delivery[d] = "delivered" \/ d \in acknowledged'
      PROVE  LettersAreTrue'
  BY <1>2 DEF LInv, LettersAreTrue
<1>3. ASSUME delivery' = delivery, acknowledged \subseteq acknowledged', NEW S \in SUBSET Deliveries,
             NEW to \in {"pending", "in_progress", "replayed", "deleted"}, Become(deadLetters', S, to),
             \A d \in S : deadLetters[d].status # "none" /\ (to = "replayed" => d \in acknowledged')
      PROVE  LettersAreTrue'
  BY <1>3 DEF LInv, LettersAreTrue, Become
<1>4. CASE \/ \E s \in Subscriptions : SubscriptionStep(s)
           \/ ServerCrash
           \/ \E r \in Requests, d \in Deliveries : StartRequeue(r, d)
           \/ \E w \in Sweeps : SweepCrash(w)
  BY <1>2, <1>4 DEF SubscriptionStep, registerWebhook, deleteWebhook, StartPing, resetTimeoutElapses,
     reactivateAfterPing, letterVars, ServerCrash, StartRequeue, SweepCrash
<1>5. ASSUME NEW S \in SUBSET Deliveries, \A d \in S : InTable(d), DeleteRows(S)
      PROVE  LettersAreTrue'
  <2> DEFINE row == [NoRow EXCEPT !.status = "deleted"]
  <2>1. row.status = "deleted"
    BY DEF NoRow
  <2>2. deadLetters' = [d \in Deliveries |-> IF d \in S THEN row ELSE deadLetters[d]]
    BY <1>5 DEF DeleteRows
  <2>3. Become(deadLetters', S, "deleted")
    <3> HIDE DEF row
    <3>1. QED
      BY <1>1, <2>1, <2>2 DEF Become, LetterTypes
  <2>4. QED
    BY <1>3, <1>5, <2>3 DEF DeleteRows, InTable
<1>6. CASE \E S \in SUBSET Deliveries : purgeOldDeadLetters(S)
  BY <1>5, <1>6 DEF purgeOldDeadLetters
<1>7. ASSUME NEW d \in Deliveries, DeliveryStep(d)
      PROVE  LettersAreTrue'
  <2>1. CASE DeliverySucceeds(d)
    BY <1>2, <2>1 DEF DeliverySucceeds, Posting, LInv, LetterTypes
  <2>2. CASE \E long \in BOOLEAN : DeliveryFails(d, long)
    BY <1>2, <2>2 DEF DeliveryFails, Posting, LInv, LetterTypes
  <2>3. CASE insertWebhookDeadLetter(d)
    BY <2>3 DEF insertWebhookDeadLetter, NewRow, LInv, LetterTypes, LettersAreTrue
  <2>4. CASE DeadLetterAges(d)
    <3>1. \A k \in Deliveries : deadLetters'[k].status = deadLetters[k].status
      BY <2>4 DEF DeadLetterAges, LInv, LetterTypes, LetterRow
    <3>2. QED
      BY <2>4, <3>1 DEF DeadLetterAges, LInv, LettersAreTrue
  <2>5. CASE purgeDeadLetter(d)
    BY <1>5, <2>5 DEF purgeDeadLetter
  <2>6. QED
    BY <1>7, <2>1, <2>2, <2>3, <2>4, <2>5 DEF DeliveryStep
<1>8. ASSUME NEW e \in Events, dispatchEventWebhook(e)
      PROVE  LettersAreTrue'
  <2> SUFFICES ASSUME NEW d \in Deliveries
               PROVE  /\ delivery'[d] = "dead" <=> deadLetters'[d].status # "none"
                      /\ delivery'[d] = "delivered" => d \in acknowledged'
                      /\ deadLetters'[d].status = "replayed" => d \in acknowledged'
    BY DEF LettersAreTrue
  <2>1. CASE d[1] # e
    BY <1>8, <2>1 DEF dispatchEventWebhook, Refused, LInv, LettersAreTrue
  <2>2. CASE d[1] = e
    <3>1. delivery[d] = "none"
      BY <1>8, <2>2 DEF dispatchEventWebhook, Deliveries
    <3>2. deadLetters[d].status = "none"
      BY <3>1 DEF LInv, LettersAreTrue
    <3>3. delivery'[d] = Dispatched(d) /\ Dispatched(d) # "delivered"
      BY <1>8, <2>2 DEF dispatchEventWebhook, Dispatched
    <3>4. deadLetters'[d].status = IF Dispatched(d) = "dead" THEN "pending" ELSE "none"
      <4>1. /\ Dispatched(d) = "dead" => \E others : deadLetters'[d] = NewRow(0, others)
            /\ Dispatched(d) # "dead" => deadLetters'[d] = deadLetters[d]
        BY <1>8, <2>2 DEF dispatchEventWebhook, Refused
      <4>2. \A others : NewRow(0, others).status = "pending"
        BY DEF NewRow
      <4>3. QED
        BY <3>2, <4>1, <4>2
    <3>5. QED
      BY <3>3, <3>4
  <2>3. QED
    BY <2>1, <2>2
<1>9. ASSUME NEW r \in Requests, NEW ok \in BOOLEAN, requeueDeadLetter(r, ok)
      PROVE  LettersAreTrue'
  <2> DEFINE d == requests[r].letter
  <2>1. d \in Deliveries /\ requests[r].attempts + RequeueTries \in Nat
    BY <1>9, WebhooksAssumption DEF requeueDeadLetter, LInv, LetterTypes, RequestState
  <2>2. CASE ok
    <3>1. Become(deadLetters', IF InTable(d) THEN {d} ELSE {}, "replayed") /\ d \in acknowledged'
      BY <1>9, <2>1, <2>2, StatementsMove DEF requeueDeadLetter, LInv
    <3>2. QED
      BY <1>3, <1>9, <2>1, <2>2, <3>1 DEF requeueDeadLetter, InTable
  <2>3. CASE ~ok
    <3>1. Become(deadLetters', {}, "pending")
      BY <1>9, <2>1, <2>3, StatementsMove DEF requeueDeadLetter, LInv
    <3>2. QED
      BY <1>3, <1>9, <2>3, <3>1 DEF requeueDeadLetter
  <2>4. QED
    BY <2>2, <2>3
<1>10. ASSUME NEW w \in Sweeps, SweepStep(w)
       PROVE  LettersAreTrue'
  <2> DEFINE letter == sweeps[w].letter
  <2>1. delivery' = delivery /\ acknowledged \subseteq acknowledged'
    BY <1>10 DEF SweepStep, SweepGoesOn, StartSweep, NextLetter, SweepDelivers, SweepFails, SweepReleases
  <2>2. CASE StartSweep(w)
    <3>1. deadLetters' = deadLetters
      BY <2>2 DEF StartSweep, StaleLocks, Eligible, LInv, LetterTypes
    <3>2. QED
      BY <1>2, <2>1, <3>1
  <2>3. ASSUME NEW d \in Deliveries, NextLetter(w, d)
        PROVE  LettersAreTrue'
    <3>1. Become(deadLetters', IF deadLetters[d].status = "pending" THEN {d} ELSE {}, "in_progress")
      BY <2>3, StatementsMove DEF NextLetter, LInv
    <3>2. QED
      BY <1>3, <2>1, <3>1
  <2>4. ASSUME sweeps[w].step # "list"
        PROVE  letter \in Deliveries /\ sweeps[w].attempts + 1 \in Nat
    BY <2>4, WebhooksAssumption DEF LInv, LetterTypes, ClaimsAreHeld, SweepState
  <2>5. CASE SweepDelivers(w)
    <3>1. Become(deadLetters', IF InTable(letter) THEN {letter} ELSE {}, "replayed") /\ letter \in acknowledged'
      BY <2>4, <2>5, StatementsMove DEF SweepDelivers, LInv
    <3>2. QED
      BY <1>3, <2>1, <2>4, <2>5, <3>1 DEF SweepDelivers, InTable
  <2>6. CASE SweepFails(w)
    <3>1. Become(deadLetters', {}, "pending")
      BY <2>4, <2>6, StatementsMove DEF SweepFails, LInv
    <3>2. QED
      BY <1>3, <2>1, <3>1
  <2>7. CASE SweepReleases(w)
    <3>1. Become(deadLetters', IF deadLetters[letter].status = "in_progress" THEN {letter} ELSE {}, "pending")
      BY <2>4, <2>7, StatementsMove DEF SweepReleases, LInv
    <3>2. QED
      BY <1>3, <2>1, <2>4, <2>7, <3>1 DEF SweepReleases
  <2>8. QED
    BY <1>10, <2>2, <2>3, <2>5, <2>6, <2>7 DEF SweepStep, SweepGoesOn
<1>11. QED
  BY <1>4, <1>6, <1>7, <1>8, <1>9, <1>10 DEF Next, RequestStep

-----------------------------------------------------------------------------
LEMMA LettersStart == Init => LInv
<1> SUFFICES ASSUME Init PROVE LInv
  OBVIOUS
<1>1. LetterTypes
  <2>1. NoRow \in LetterRow /\ IdleSweep \in SweepState /\ IdleRequest \in RequestState
    BY WebhooksAssumption DEF NoRow, LetterRow, IdleSweep, SweepState, IdleRequest, RequestState
  <2>2. QED
    BY <2>1 DEF Init, LetterTypes
<1>2. ClaimsAreHeld
  BY DEF Init, ClaimsAreHeld, Held, IdleSweep
<1>3. LettersAreTrue
  BY DEF Init, LettersAreTrue, NoRow
<1>4. QED
  BY <1>1, <1>2, <1>3 DEF LInv

LEMMA LettersInvariant == Spec => []LInv
<1>1. LInv /\ [Next]_vars => LInv'
  <2> SUFFICES ASSUME LInv, [Next]_vars PROVE LInv'
    OBVIOUS
  <2>1. CASE Next
    BY <2>1, LettersMove, ClaimsAreHeldKept, LettersAreTrueKept DEF LInv
  <2>2. CASE UNCHANGED vars
    BY <2>2 DEF vars, LInv, LetterTypes, ClaimsAreHeld, LettersAreTrue, Held
  <2>3. QED
    BY <2>1, <2>2
<1>2. QED
  BY <1>1, LettersStart, PTL DEF Spec

(* A delivery that was made and not acknowledged is in the queue or was    *)
(* purged (deliverToSubscription, requeueDeadLetter, the job).             *)
THEOREM NothingIsDropped == Spec => []NothingDropped
<1>1. LInv => NothingDropped
  BY DEF LInv, LetterTypes, LettersAreTrue, LetterRow, NothingDropped
<1>2. QED
  BY <1>1, LettersInvariant, PTL

-----------------------------------------------------------------------------
(* The queue's books as the tables show them.                              *)
queueStatus == [d \in Deliveries |-> LetterStatus[deadLetters[d].status]]
queueHolders == [d \in Deliveries |-> {w \in Sweeps : Held(w, d)}]

LEMMA BooksMove ==
    ASSUME LetterTypes
    PROVE  /\ \A S, to : Become(deadLetters', S, to) =>
                 queueStatus' = [d \in Deliveries |-> IF d \in S THEN LetterStatus[to] ELSE queueStatus[d]]
           /\ SameHands => queueHolders' = queueHolders
  BY DEF Become, SameHands, queueStatus, queueHolders

LEMMA QueueStep == LInv /\ [Next]_vars => [Queue!Next]_(Queue!vars)
<1> SUFFICES ASSUME LInv, [Next]_vars PROVE [Queue!Next]_(Queue!vars)
  OBVIOUS
<1> USE DEF LetterStatus
<1>1. CASE UNCHANGED vars
  BY <1>1 DEF vars, Queue!vars, Held
<1>2. CASE Next
  <2>1. LetterTypes /\ LetterMove
    BY <1>2, LettersMove DEF LInv
  <2>2. CASE Rests
    <3>1. queueStatus' = queueStatus /\ queueHolders' = queueHolders
      BY <2>1, <2>2, BooksMove DEF Rests, queueStatus
    <3>2. QED
      BY <3>1 DEF queueStatus, queueHolders, Queue!vars
  <2>3. ASSUME NEW S \in SUBSET Deliveries, Queues(S)
        PROVE  Queue!Add(S)
    <3>1. /\ queueStatus' = [d \in Deliveries |-> IF d \in S THEN "waiting" ELSE queueStatus[d]]
          /\ queueHolders' = queueHolders
      BY <2>1, <2>3, BooksMove DEF Queues
    <3>2. \A d \in S : queueStatus[d] = "none"
      BY <2>3 DEF Queues, Statuses, queueStatus
    <3>3. QED
      BY <3>1, <3>2 DEF Queue!Add, Queue!SetStatus, queueStatus, queueHolders
  <2>4. ASSUME NEW S \in SUBSET Deliveries, Deletes(S)
        PROVE  Queue!Drop(S)
    <3>1. /\ queueStatus' = [d \in Deliveries |-> IF d \in S THEN "gone" ELSE queueStatus[d]]
          /\ queueHolders' = queueHolders
      BY <2>1, <2>4, BooksMove DEF Deletes
    <3>2. \A d \in S : queueStatus[d] \in {"waiting", "taken", "done"}
      BY <2>4 DEF Deletes, Statuses, queueStatus
    <3>3. QED
      BY <3>1, <3>2 DEF Queue!Drop, Queue!SetStatus, queueStatus, queueHolders
  <2>5. ASSUME NEW d \in Deliveries, Replays(d)
        PROVE  Queue!Settle(d)
    <3>1. /\ queueStatus' = [k \in Deliveries |-> IF k \in {d} THEN "done" ELSE queueStatus[k]]
          /\ queueHolders' = queueHolders
      BY <2>1, <2>5, BooksMove DEF Replays
    <3>2. queueStatus[d] \in {"waiting", "taken"}
      BY <2>5 DEF Replays, Statuses, queueStatus
    <3>3. QED
      BY <3>1, <3>2 DEF Queue!Settle, Queue!SetStatus, queueStatus, queueHolders
  <2>6. ASSUME NEW w \in Sweeps, NEW d \in Deliveries, Claims(w, d)
        PROVE  Queue!Take(d, w)
    <3>1. queueStatus' = [k \in Deliveries |-> IF k \in {d} THEN "taken" ELSE queueStatus[k]]
      BY <2>1, <2>6, BooksMove DEF Claims
    <3>2. queueStatus[d] = "waiting" /\ deadLetters[d].status = "pending"
      BY <2>6 DEF Claims, Statuses, queueStatus
    <3>3. \A v \in Sweeps : ~Held(v, d)
      BY <3>2 DEF LInv, ClaimsAreHeld
    <3>4. \A k \in Deliveries : ~Held(w, k)
      BY <2>6 DEF Claims, Held
    <3>5. queueHolders' = [queueHolders EXCEPT ![d] = {w}]
      <4>1. \A k \in Deliveries : queueHolders'[k] = IF k = d THEN {w} ELSE queueHolders[k]
        BY <2>6, <3>3, <3>4 DEF Claims, Takes, queueHolders
      <4>2. QED
        BY <4>1 DEF queueHolders
    <3>6. queueHolders[d] = {} /\ \A k \in Deliveries : w \notin queueHolders[k]
      BY <3>3, <3>4 DEF queueHolders
    <3>7. QED
      BY <3>1, <3>2, <3>5, <3>6 DEF Queue!Take, Queue!SetStatus, queueStatus, queueHolders
  <2>7. ASSUME NEW w \in Sweeps, NEW d \in Deliveries, NEW to \in {"pending", "in_progress", "replayed"},
               Ends(w, d, to)
        PROVE  Queue!PutBack(d, w) \/ Queue!HandOver(d, w) \/ Queue!Abandon(d, w)
    <3> DEFINE S == IF queueStatus[d] = "taken" THEN {d} ELSE {}
    <3>1. deadLetters[d].status = "in_progress" <=> queueStatus[d] = "taken"
      BY <2>1 DEF LetterTypes, LetterRow, queueStatus
    <3>2. queueStatus' = [k \in Deliveries |-> IF k \in S THEN LetterStatus[to] ELSE queueStatus[k]]
      BY <2>1, <2>7, <3>1, BooksMove DEF Ends
    <3>3. w \in queueHolders[d]
      BY <2>7 DEF Ends, queueHolders
    <3>4. queueHolders' = [queueHolders EXCEPT ![d] = @ \ {w}]
      <4>1. \A k \in Deliveries \ {d} : ~Held(w, k)
        BY <2>7 DEF Ends, Held
      <4>2. \A k \in Deliveries : queueHolders'[k] = IF k = d THEN queueHolders[d] \ {w} ELSE queueHolders[k]
        BY <2>7, <4>1 DEF Ends, Frees, queueHolders
      <4>3. QED
        BY <4>2 DEF queueHolders
    <3>5. CASE to = "pending"
      BY <3>2, <3>3, <3>4, <3>5 DEF Queue!PutBack, Queue!Leaves, Queue!SetStatus, queueStatus, queueHolders
    <3>6. CASE to = "replayed"
      BY <3>2, <3>3, <3>4, <3>6 DEF Queue!HandOver, Queue!Leaves, Queue!SetStatus, queueStatus, queueHolders
    <3>7. CASE to = "in_progress"
      <4>1. queueStatus' = queueStatus
        BY <3>2, <3>7 DEF queueStatus
      <4>2. QED
        BY <3>3, <3>4, <4>1 DEF Queue!Abandon, Queue!Leaves, queueStatus, queueHolders
    <3>8. QED
      BY <3>5, <3>6, <3>7
  <2>8. QED
    BY <2>1, <2>2, <2>3, <2>4, <2>5, <2>6, <2>7 DEF LetterMove, Queue!Next
<1>3. QED
  BY <1>1, <1>2

(* The job, the administrators, the dispatcher and the crashes together    *)
(* do what DeadLetterQueue allows: no two sweeps have one letter in hand,  *)
(* and what was delivered or purged is not queued again.                   *)
THEOREM QueueImplemented == Spec => ImplementsQueue
<1>1. Init => Queue!Init
  BY DEF Init, Queue!Init, NoRow, Held, IdleSweep, LetterStatus
<1>2. QED
  BY <1>1, QueueStep, LettersInvariant, PTL DEF Spec, ImplementsQueue, Queue!Spec
=============================================================================
