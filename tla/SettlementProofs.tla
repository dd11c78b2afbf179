--------------------------- MODULE SettlementProofs ---------------------------
(***************************************************************************)
(* The requests that move money, for any number of them and any mix: what  *)
(* is recorded was paid, what is answered is true, and the withdrawals of  *)
(* a process exclude each other.                                           *)
(***************************************************************************)
EXTENDS Settlement, FiniteSetTheorems, TLAPS

Transactions == [seq : Int, status : TxStatus]

Types ==
    /\ sequence \in Int
    /\ tx \in [Requests -> Transactions]
    /\ requests \in [Requests -> RequestState]
    /\ withdrawalInProgress \in [Processes -> BOOLEAN]
    /\ contactUnlock \in Requests \cup {Nobody}
    /\ subscriptions \in [Requests -> {"none", "live", "cancelled"}]
    /\ feeWithdrawals \subseteq Requests
    /\ offers \in [Requests -> OfferStatus]

(* The stages between the signing of the form and the last row.            *)
Active == {"account", "built", "poll", "record"}

(* How far a request has come is how far its transaction has.              *)
Fits(request, transaction) ==
    /\ request.stage # "done" => request.answer = "none"
    /\ request.stage = "lock" => request.job = "withdrawFeesV2"
    /\ request.stage \in {"new", "lock", "account", "respond"} => transaction.status = "none"
    /\ request.stage = "built" => transaction.status = "built"
    /\ request.stage = "record" => transaction.status = "succeeded"
    /\ request.answer = "refused" => transaction.status \notin {"pending", "succeeded"}
    /\ request.answer = "ok" => \/ transaction.status = "succeeded"
                                \/ request.job \in Responses \cup {"cancelTrialOffer"}

StagesFit == \A r \in Requests : Fits(requests[r], tx[r])

(* What a request has read and will write to is still there.               *)
TargetFits(r) ==
    /\ Does(r, "subscribe") /\ requests[r].stage \in Active => requests[r].target = r
    /\ Does(r, "renewSubscription") /\ requests[r].stage \in Active =>
           requests[r].target = r \/ subscriptions[requests[r].target] # "none"
    /\ Does(r, "cancelSubscription") /\ requests[r].stage \in Active =>
           subscriptions[requests[r].target] # "none"
    /\ At(r, "new") => requests[r].target = r
    /\ At(r, "respond") => OfferIndexed

TargetsFit == \A r \in Requests : TargetFits(r)

(* A process whose flag is up has one request that holds it.               *)
Holders(p) == {r \in Requests : requests[r].process = p /\ HoldsLock(r)}
FlagsFit ==
    \A p \in Processes : IF withdrawalInProgress[p] THEN \E r \in Requests : Holders(p) = {r}
                                                    ELSE Holders(p) = {}

IInv == Types /\ StagesFit /\ TargetsFit /\ FlagsFit /\ RecordsAreBacked

-----------------------------------------------------------------------------
(* What a handler does to its own request.                                 *)
Moves(r, stage, target, answer) ==
    /\ requests' \in [Requests -> RequestState]
    /\ \A q \in Requests \ {r} : requests'[q] = requests[q]
    /\ requests'[r].job = requests[r].job /\ requests'[r].process = requests[r].process
    /\ requests'[r].stage = stage /\ requests'[r].target = target /\ requests'[r].answer = answer

LEMMA MovedByGoto ==
    ASSUME Types, NEW r \in Requests, NEW stage \in Stages, Goto(r, stage)
    PROVE  Moves(r, stage, requests[r].target, requests[r].answer)
<1>1. requests[r] \in RequestState /\ DOMAIN requests = Requests
  BY DEF Types
<1>2. [requests[r] EXCEPT !.stage = stage] \in RequestState
  BY <1>1 DEF RequestState
<1>3. requests' = [requests EXCEPT ![r] = [requests[r] EXCEPT !.stage = stage]]
  BY DEF Goto
<1>4. requests' \in [Requests -> RequestState]
  BY <1>2, <1>3 DEF Types
<1>5. requests'[r] = [requests[r] EXCEPT !.stage = stage]
  BY <1>1, <1>3
<1>6. QED
  BY <1>1, <1>3, <1>4, <1>5 DEF Moves, RequestState

LEMMA MovedByGotoWith ==
    ASSUME Types, NEW r \in Requests, NEW stage \in Stages, NEW target \in Requests,
           GotoWith(r, stage, target)
    PROVE  Moves(r, stage, target, requests[r].answer)
<1>1. requests[r] \in RequestState /\ DOMAIN requests = Requests
  BY DEF Types
<1>2. [requests[r] EXCEPT !.stage = stage, !.target = target] \in RequestState
  BY <1>1 DEF RequestState
<1>3. requests' = [requests EXCEPT ![r] = [requests[r] EXCEPT !.stage = stage, !.target = target]]
  BY <1>1 DEF GotoWith
<1>4. requests' \in [Requests -> RequestState]
  BY <1>2, <1>3 DEF Types
<1>5. requests'[r] = [requests[r] EXCEPT !.stage = stage, !.target = target]
  BY <1>1, <1>3
<1>6. QED
  BY <1>1, <1>3, <1>4, <1>5 DEF Moves, RequestState

LEMMA MovedByAnswer ==
    ASSUME Types, NEW r \in Requests, NEW answer \in Answers, Answer(r, answer)
    PROVE  Moves(r, "done", requests[r].target, answer)
<1>1. requests[r] \in RequestState /\ DOMAIN requests = Requests
  BY DEF Types
<1>2. [requests[r] EXCEPT !.stage = "done", !.answer = answer] \in RequestState
  BY <1>1 DEF RequestState, Stages
<1>3. requests' = [requests EXCEPT ![r] = [requests[r] EXCEPT !.stage = "done", !.answer = answer]]
  BY <1>1 DEF Answer
<1>4. requests' \in [Requests -> RequestState]
  BY <1>2, <1>3 DEF Types
<1>5. requests'[r] = [requests[r] EXCEPT !.stage = "done", !.answer = answer]
  BY <1>1, <1>3
<1>6. QED
  BY <1>1, <1>3, <1>4, <1>5 DEF Moves, RequestState

(* The flag of a process falls with the answer to the request that holds   *)
(* it, and no other.                                                       *)
LEMMA FlagsByAnswer ==
    ASSUME Types, FlagsFit, NEW r \in Requests, NEW answer \in Answers, Answer(r, answer)
    PROVE  FlagsFit' /\ withdrawalInProgress' \in [Processes -> BOOLEAN]
<1>1. requests[r].process \in Processes /\ Moves(r, "done", requests[r].target, answer)
  BY MovedByAnswer DEF Types, RequestState
<1>2. PICK home \in Processes : home = requests[r].process
  BY <1>1
<1>3. /\ DOMAIN withdrawalInProgress = Processes
      /\ withdrawalInProgress' = [withdrawalInProgress EXCEPT ![home] = @ /\ ~HoldsLock(r)]
  BY <1>2 DEF Answer, Types
<1>4. withdrawalInProgress' \in [Processes -> BOOLEAN]
  BY <1>3 DEF Types
<1>5. \A q \in Requests : HoldsLock(q)' <=> HoldsLock(q) /\ q # r
  BY <1>1 DEF HoldsLock, Moves
<1>6. \A q \in Requests : requests'[q].process = requests[q].process
  BY <1>1 DEF Moves
<1>7. \A p \in Processes : Holders(p)' = Holders(p) \ {r}
  BY <1>5, <1>6 DEF Holders
<1>8. ASSUME NEW p \in Processes
      PROVE  IF withdrawalInProgress'[p] THEN \E q \in Requests : Holders(p)' = {q}
                                         ELSE Holders(p)' = {}
  <2>1. CASE r \in Holders(p)
    <3>1. p = home /\ HoldsLock(r)
      BY <1>2, <2>1 DEF Holders
    <3>2. ~withdrawalInProgress'[p]
      BY <1>3, <3>1
    <3>3. Holders(p) = {r}
      BY <2>1 DEF FlagsFit
    <3>4. QED
      BY <1>7, <3>2, <3>3
  <2>2. CASE r \notin Holders(p)
    <3>1. withdrawalInProgress'[p] <=> withdrawalInProgress[p]
      <4>1. CASE p = home
        BY <1>2, <1>3, <2>2, <4>1 DEF Holders
      <4>2. CASE p # home
        BY <1>3, <4>2
      <4>3. QED
        BY <4>1, <4>2
    <3>2. Holders(p)' = Holders(p)
      BY <1>7, <2>2
    <3>3. QED
      BY <3>1, <3>2 DEF FlagsFit
  <2>3. QED
    BY <2>1, <2>2
<1>9. QED
  BY <1>4, <1>8 DEF FlagsFit

LEMMA FlagsByMove ==
    ASSUME Types, FlagsFit, NEW r \in Requests, NEW stage, NEW target, NEW answer,
           Moves(r, stage, target, answer), UNCHANGED withdrawalInProgress,
           requests[r].job \in Withdrawals => (stage \in Active <=> requests[r].stage \in Active)
    PROVE  FlagsFit' /\ withdrawalInProgress' \in [Processes -> BOOLEAN]
<1>1. \A q \in Requests : HoldsLock(q)' <=> HoldsLock(q)
  BY DEF HoldsLock, Moves, Active
<1>2. \A q \in Requests : requests'[q].process = requests[q].process
  BY DEF Moves
<1>3. \A p \in Processes : Holders(p)' = Holders(p)
  BY <1>1, <1>2 DEF Holders
<1>4. QED
  BY <1>3 DEF FlagsFit, Types

-----------------------------------------------------------------------------
(* A handler's step as far as the other requests see it: transactions that *)
(* succeeded and rows of subscriptions stay.                               *)
Grows ==
    /\ \A q \in Requests : Succeeded(q) => Succeeded(q)'
    /\ \A q \in Requests : subscriptions[q] # "none" => subscriptions'[q] # "none"

LEMMA OffersStay ==
    ASSUME NEW r \in Requests, NEW stage, NEW target, NEW answer, Moves(r, stage, target, answer), Grows
    PROVE  Offers' = Offers /\ (OfferIndexed => OfferIndexed')
<1>1. \A q \in Requests : Does(q, "createTrialOffer")' <=> Does(q, "createTrialOffer")
  BY DEF Moves, Does
<1>2. Offers' = Offers
  BY <1>1 DEF Offers
<1>3. \A o \in Offers : Succeeded(o) => Succeeded(o)'
  BY DEF Grows, Offers
<1>4. QED
  BY <1>2, <1>3 DEF OfferIndexed

RowTypes ==
    /\ sequence \in Int
    /\ tx \in [Requests -> Transactions]
    /\ contactUnlock \in Requests \cup {Nobody}
    /\ subscriptions \in [Requests -> {"none", "live", "cancelled"}]
    /\ feeWithdrawals \subseteq Requests
    /\ offers \in [Requests -> OfferStatus]

LEMMA MoveKeeps ==
    ASSUME IInv, NEW r \in Requests, NEW stage, NEW target, NEW answer,
           Moves(r, stage, target, answer), Grows, RowTypes',
           \A q \in Requests \ {r} : tx'[q] = tx[q],
           Fits(requests[r], tx[r])', TargetFits(r)',
           FlagsFit', withdrawalInProgress' \in [Processes -> BOOLEAN], RecordsAreBacked'
    PROVE  IInv'
<1>1. Types'
  BY DEF Types, RowTypes, Moves
<1>2. StagesFit'
  BY DEF StagesFit, IInv, Moves
<1>3. ASSUME NEW q \in Requests, q # r
      PROVE  TargetFits(q)'
  <2>1. requests'[q] = requests[q] /\ requests[q].target \in Requests
    BY <1>3 DEF Moves, IInv, Types, RequestState
  <2>2. subscriptions[requests[q].target] # "none" => subscriptions'[requests[q].target] # "none"
    BY <2>1 DEF Grows
  <2>3. OfferIndexed => OfferIndexed'
    BY OffersStay
  <2>4. TargetFits(q)
    BY DEF IInv, TargetsFit
  <2>5. QED
    BY <2>1, <2>2, <2>3, <2>4 DEF TargetFits, Does, At
<1>4. TargetsFit'
  BY <1>3 DEF TargetsFit
<1>5. QED
  BY <1>1, <1>2, <1>4 DEF IInv

(* What no row changes under stays backed.                                 *)
LEMMA BackingStays ==
    ASSUME RecordsAreBacked, NEW r \in Requests, NEW stage, NEW target, NEW answer,
           Moves(r, stage, target, answer), Grows, UNCHANGED rows, Types
    PROVE  RecordsAreBacked'
<1>1. Offers' = Offers /\ (OfferIndexed => OfferIndexed')
  BY OffersStay
<1>2. contactUnlock' # Nobody => Succeeded(contactUnlock)'
  BY DEF rows, RecordsAreBacked, Grows, Types, Succeeded, HasStatus
<1>3. \A q \in Requests : subscriptions'[q] # "none" => Succeeded(q)'
  BY DEF rows, RecordsAreBacked, Grows
<1>4. \A q \in feeWithdrawals' : Succeeded(q)'
  BY DEF rows, RecordsAreBacked, Grows, Types
<1>5. promoted' \/ (\E o \in Offers' : offers'[o] # "none") => OfferIndexed'
  BY <1>1 DEF rows, RecordsAreBacked
<1>6. QED
  BY <1>2, <1>3, <1>4, <1>5 DEF RecordsAreBacked

-----------------------------------------------------------------------------
(* Steps that read: no transaction and no row changes.                     *)
LEMMA QuietMove ==
    ASSUME IInv, NEW r \in Requests, NEW stage, NEW target, NEW answer,
           Moves(r, stage, target, answer), UNCHANGED <<accountVars, rows>>,
           Fits(requests'[r], tx[r]), TargetFits(r)',
           FlagsFit', withdrawalInProgress' \in [Processes -> BOOLEAN]
    PROVE  IInv'
<1>1. Grows /\ RowTypes' /\ tx' = tx
  BY DEF accountVars, rows, Grows, RowTypes, Succeeded, HasStatus, IInv, Types
<1>2. RecordsAreBacked'
  BY <1>1, BackingStays DEF IInv
<1>3. QED
  BY <1>1, <1>2, MoveKeeps DEF Fits

LEMMA QuietAnswer ==
    ASSUME IInv, NEW r \in Requests, NEW answer \in Answers, Answer(r, answer),
           UNCHANGED <<accountVars, rows>>,
           answer = "refused" => tx[r].status \notin {"pending", "succeeded"},
           answer = "ok" => tx[r].status = "succeeded"
    PROVE  IInv'
<1>1. Moves(r, "done", requests[r].target, answer) /\ FlagsFit'
      /\ withdrawalInProgress' \in [Processes -> BOOLEAN]
  BY MovedByAnswer, FlagsByAnswer DEF IInv
<1>2. Fits(requests'[r], tx[r]) /\ TargetFits(r)'
  BY <1>1 DEF Moves, Fits, TargetFits, At, Does, Active
<1>3. QED
  BY <1>1, <1>2, QuietMove

(* The form is read, and the chain is turned to.                           *)
LEMMA QuietStart ==
    ASSUME IInv, NEW r \in Requests, NEW target \in Requests, At(r, "new"),
           Moves(r, "account", target, requests[r].answer),
           UNCHANGED <<accountVars, withdrawalInProgress, rows>>,
           requests[r].job \notin Withdrawals,
           Does(r, "subscribe") => target = r,
           Does(r, "renewSubscription") => target = r \/ subscriptions[target] # "none",
           Does(r, "cancelSubscription") => subscriptions[target] # "none"
    PROVE  IInv'
<1>1. FlagsFit' /\ withdrawalInProgress' \in [Processes -> BOOLEAN]
  BY FlagsByMove DEF IInv
<1>2. tx[r].status = "none" /\ requests[r].answer = "none"
  BY DEF IInv, StagesFit, Fits, At
<1>3. Fits(requests'[r], tx[r])
  BY <1>2 DEF Moves, Fits
<1>4. TargetFits(r)'
  BY DEF Moves, TargetFits, At, Does, rows
<1>5. QED
  BY <1>1, <1>3, <1>4, QuietMove

LEMMA StartKeeps ==
    ASSUME IInv, NEW r \in Requests,
           \/ hasContactUnlock(r) \/ StartSubscribe(r) \/ StartRenew(r) \/ StartCancel(r)
           \/ StartOffer(r) \/ runAdminAction(r) \/ CheckFeeBalance(r) \/ StartCancelOffer(r)
           \/ Refuse(r)
    PROVE  IInv'
<1>1. requests[r] \in RequestState /\ requests[r].target \in Requests
  BY DEF IInv, Types, RequestState
<1>2. At(r, "new") => tx[r].status = "none" /\ requests[r].answer = "none" /\ requests[r].target = r
  BY DEF IInv, StagesFit, Fits, At, TargetsFit, TargetFits
<1>3. LiveRows \subseteq Requests /\ \A s \in LiveRows : subscriptions[s] # "none"
  BY DEF LiveRows
<1>4. ASSUME Goto(r, "account")
      PROVE  Moves(r, "account", requests[r].target, requests[r].answer)
  BY <1>4, MovedByGoto DEF IInv, Stages
<1>5. CASE hasContactUnlock(r)
  <2>1. CASE contactUnlock # Nobody
    BY <1>5, <2>1, QuietAnswer DEF hasContactUnlock, Answers
  <2>2. CASE contactUnlock = Nobody
    BY <1>1, <1>4, <1>5, <2>2, QuietStart DEF hasContactUnlock, Does, Withdrawals
  <2>3. QED
    BY <2>1, <2>2
<1>6. CASE StartSubscribe(r)
  BY <1>1, <1>2, <1>4, <1>6, QuietStart DEF StartSubscribe, Does, Withdrawals
<1>7. CASE StartRenew(r)
  <2>1. PICK s \in IF LiveRows = {} THEN {r} ELSE LiveRows : GotoWith(r, "account", s)
    BY <1>7 DEF StartRenew
  <2>2. s \in Requests /\ (s = r \/ subscriptions[s] # "none")
    BY <1>3, <2>1
  <2>3. Moves(r, "account", s, requests[r].answer)
    BY <2>1, <2>2, MovedByGotoWith DEF IInv, Stages
  <2>4. QED
    BY <1>7, <2>2, <2>3, QuietStart DEF StartRenew, Does, Withdrawals
<1>8. CASE StartCancel(r)
  <2>1. PICK s \in LiveRows : GotoWith(r, "account", s)
    BY <1>8 DEF StartCancel
  <2>2. Moves(r, "account", s, requests[r].answer)
    BY <1>3, <2>1, MovedByGotoWith DEF IInv, Stages
  <2>3. QED
    BY <1>3, <1>8, <2>2, QuietStart DEF StartCancel, Does, Withdrawals
<1>9. CASE StartOffer(r)
  BY <1>1, <1>4, <1>9, QuietStart DEF StartOffer, Does, Withdrawals
<1>10. CASE runAdminAction(r)
  BY <1>1, <1>4, <1>10, QuietStart DEF runAdminAction, Does, Withdrawals
<1>11. CASE CheckFeeBalance(r)
  <2>1. Moves(r, "lock", requests[r].target, requests[r].answer)
    BY <1>11, MovedByGoto DEF CheckFeeBalance, IInv, Stages
  <2>2. FlagsFit' /\ withdrawalInProgress' \in [Processes -> BOOLEAN]
    BY <1>11, <2>1, FlagsByMove DEF CheckFeeBalance, IInv, Active, At
  <2>3. Fits(requests'[r], tx[r])
    BY <1>2, <1>11, <2>1 DEF CheckFeeBalance, Moves, Fits, Does
  <2>4. TargetFits(r)'
    BY <2>1 DEF Moves, TargetFits, Active, Does, At
  <2>5. QED
    BY <1>11, <2>1, <2>2, <2>3, <2>4, QuietMove DEF CheckFeeBalance
<1>12. CASE StartCancelOffer(r)
  <2>1. PICK o \in Offers : offers[o] = "pending" /\ GotoWith(r, "respond", o)
    BY <1>12 DEF StartCancelOffer
  <2>2. Moves(r, "respond", o, requests[r].answer)
    BY <2>1, MovedByGotoWith DEF Offers, IInv, Stages
  <2>3. OfferIndexed
    BY <2>1 DEF IInv, RecordsAreBacked
  <2>4. FlagsFit' /\ withdrawalInProgress' \in [Processes -> BOOLEAN]
    BY <1>12, <2>2, FlagsByMove DEF StartCancelOffer, IInv, Active, At
  <2>5. Fits(requests'[r], tx[r])
    BY <1>2, <1>12, <2>2 DEF StartCancelOffer, Moves, Fits
  <2>6. Grows
    BY <1>12 DEF StartCancelOffer, accountVars, rows, Grows, Succeeded, HasStatus
  <2>7. TargetFits(r)'
    BY <2>2, <2>3, <2>6, OffersStay DEF Moves, TargetFits, Active, Does, At
  <2>8. QED
    BY <1>12, <2>2, <2>4, <2>5, <2>7, QuietMove DEF StartCancelOffer
<1>13. CASE Refuse(r)
  BY <1>2, <1>13, QuietAnswer DEF Refuse, Answers
<1>14. QED
  BY <1>5, <1>6, <1>7, <1>8, <1>9, <1>10, <1>11, <1>12, <1>13

-----------------------------------------------------------------------------
(* The flag is taken where nobody of the process holds it.                 *)
LEMMA TakeFlagKeeps ==
    ASSUME IInv, NEW r \in Requests, TakeFlag(r)
    PROVE  IInv'
<1>1. /\ requests[r] \in RequestState /\ tx[r].status = "none" /\ requests[r].answer = "none"
      /\ requests[r].job \in Withdrawals /\ ~HoldsLock(r)
  BY DEF TakeFlag, AtFlag, IInv, Types, StagesFit, Fits, At, Does, Withdrawals, HoldsLock
<1>2. PICK home \in Processes : home = requests[r].process
  BY <1>1 DEF RequestState
<1>3. CASE withdrawalInProgress[home]
  BY <1>1, <1>2, <1>3, QuietAnswer DEF TakeFlag, Answers
<1>4. CASE ~withdrawalInProgress[home]
  <2>1. /\ Goto(r, "account") /\ UNCHANGED <<accountVars, rows>>
        /\ withdrawalInProgress' = [withdrawalInProgress EXCEPT ![home] = TRUE]
    BY <1>2, <1>4 DEF TakeFlag
  <2>2. Moves(r, "account", requests[r].target, requests[r].answer)
    BY <2>1, MovedByGoto DEF IInv, Stages
  <2>3. \A q \in Requests : /\ HoldsLock(q)' <=> HoldsLock(q) \/ q = r
                            /\ requests'[q].process = requests[q].process
    BY <1>1, <2>2 DEF Moves, HoldsLock
  <2>4. Holders(home)' = {r}
    <3>1. Holders(home) = {}
      BY <1>4 DEF IInv, FlagsFit
    <3>2. QED
      BY <1>2, <2>3, <3>1 DEF Holders
  <2>5. \A p \in Processes \ {home} : Holders(p)' = Holders(p)
    BY <1>2, <2>3 DEF Holders
  <2>6. withdrawalInProgress' \in [Processes -> BOOLEAN] /\ withdrawalInProgress'[home]
        /\ \A p \in Processes \ {home} : withdrawalInProgress'[p] = withdrawalInProgress[p]
    BY <2>1 DEF IInv, Types
  <2>7. FlagsFit'
    <3>1. ASSUME NEW p \in Processes
          PROVE  IF withdrawalInProgress'[p] THEN \E q \in Requests : Holders(p)' = {q}
                                             ELSE Holders(p)' = {}
      BY <2>4, <2>5, <2>6 DEF IInv, FlagsFit
    <3>2. QED
      BY <3>1 DEF FlagsFit
  <2>8. Fits(requests'[r], tx[r]) /\ TargetFits(r)'
    BY <1>1, <2>2 DEF Moves, Fits, TargetFits, At, Does, Withdrawals
  <2>9. QED
    BY <2>1, <2>2, <2>6, <2>7, <2>8, QuietMove
<1>5. QED
  BY <1>3, <1>4

(* A handler moves on between the reading of the form and its last row.    *)
LEMMA StillActive ==
    ASSUME IInv, NEW r \in Requests, NEW stage \in Active, requests[r].stage \in Active,
           Moves(r, stage, requests[r].target, requests[r].answer),
           UNCHANGED <<withdrawalInProgress, rows>>
    PROVE  FlagsFit' /\ withdrawalInProgress' \in [Processes -> BOOLEAN] /\ TargetFits(r)'
<1>1. FlagsFit' /\ withdrawalInProgress' \in [Processes -> BOOLEAN]
  BY FlagsByMove DEF IInv
<1>2. TargetFits(r)
  BY DEF IInv, TargetsFit
<1>3. TargetFits(r)'
  BY <1>2 DEF Moves, TargetFits, At, Does, Active, rows
<1>4. QED
  BY <1>1, <1>3

LEMMA QuietHandlerKeeps ==
    ASSUME IInv, NEW r \in Requests,
           \/ RpcFails(r) \/ SimulationRefuses(r) \/ Aborted(r) \/ SendRejected(r) \/ SendDeferred(r)
           \/ getTransaction(r) \/ ConfirmationTimesOut(r) \/ WriteFails(r) \/ PollFails(r)
    PROVE  IInv'
<1>1. Fits(requests[r], tx[r])
  BY DEF IInv, StagesFit
<1>2. ASSUME NEW stage \in {"poll", "record"}, Goto(r, stage), At(r, "built") \/ At(r, "poll"),
             UNCHANGED <<accountVars, withdrawalInProgress, rows>>,
             stage = "record" => tx[r].status = "succeeded"
      PROVE  IInv'
  <2>1. Moves(r, stage, requests[r].target, requests[r].answer)
    BY <1>2, MovedByGoto DEF IInv, Stages
  <2>2. FlagsFit' /\ withdrawalInProgress' \in [Processes -> BOOLEAN] /\ TargetFits(r)'
    BY <1>2, <2>1, StillActive DEF Active, At
  <2>3. Fits(requests'[r], tx[r])
    BY <1>1, <1>2, <2>1 DEF Moves, Fits, At
  <2>4. QED
    BY <1>2, <2>1, <2>2, <2>3, QuietMove
<1>3. CASE RpcFails(r) \/ Aborted(r) \/ ConfirmationTimesOut(r) \/ WriteFails(r) \/ PollFails(r)
  BY <1>3, QuietAnswer DEF RpcFails, Aborted, ConfirmationTimesOut, WriteFails, PollFails, Answers
<1>4. CASE SimulationRefuses(r)
  BY <1>1, <1>4, QuietAnswer DEF SimulationRefuses, Answers, Fits, At
<1>5. CASE SendRejected(r)
  BY <1>1, <1>5, QuietAnswer DEF SendRejected, Answers, Fits, At
<1>6. CASE SendDeferred(r)
  BY <1>2, <1>6 DEF SendDeferred
<1>7. CASE getTransaction(r)
  BY <1>2, <1>7, QuietAnswer DEF getTransaction, Answers, Succeeded, HasStatus
<1>8. QED
  BY <1>3, <1>4, <1>5, <1>6, <1>7

-----------------------------------------------------------------------------
(* Steps of the transactions.                                              *)
LEMMA StatusMoves ==
    ASSUME Types, NEW r \in Requests, NEW status \in TxStatus, Settle(r, status)
    PROVE  /\ tx' \in [Requests -> Transactions]
           /\ tx'[r].status = status
           /\ \A q \in Requests \ {r} : tx'[q] = tx[q]
<1>1. tx[r] \in Transactions /\ tx' = [tx EXCEPT ![r] = [tx[r] EXCEPT !.status = status]]
  BY DEF Types, Settle
<1>2. [tx[r] EXCEPT !.status = status] \in Transactions
  BY <1>1 DEF Transactions
<1>3. tx'[r] = [tx[r] EXCEPT !.status = status]
  BY <1>1 DEF Types
<1>4. QED
  BY <1>1, <1>2, <1>3 DEF Types, Transactions

LEMMA getAccountKeeps ==
    ASSUME IInv, NEW r \in Requests, getAccount(r)
    PROVE  IInv'
<1>1. Fits(requests[r], tx[r]) /\ At(r, "account")
  BY DEF getAccount, IInv, StagesFit
<1>2. Moves(r, "built", requests[r].target, requests[r].answer)
  BY MovedByGoto DEF getAccount, IInv, Stages
<1>3. FlagsFit' /\ withdrawalInProgress' \in [Processes -> BOOLEAN] /\ TargetFits(r)'
  BY <1>1, <1>2, StillActive DEF getAccount, Active, At
<1>4. /\ tx' \in [Requests -> Transactions] /\ tx'[r].status = "built"
      /\ \A q \in Requests \ {r} : tx'[q] = tx[q]
  <2>1. [seq |-> sequence + 1, status |-> "built"] \in Transactions
    BY DEF Transactions, TxStatus, IInv, Types
  <2>2. tx' = [tx EXCEPT ![r] = [seq |-> sequence + 1, status |-> "built"]]
    BY DEF getAccount, Build
  <2>3. QED
    BY <2>1, <2>2 DEF IInv, Types
<1>5. Fits(requests'[r], tx'[r])
  BY <1>1, <1>2, <1>4 DEF Fits, Moves, At
<1>6. Grows
  BY <1>1, <1>4 DEF getAccount, rows, Grows, Succeeded, HasStatus, Fits, At
<1>7. RowTypes'
  BY <1>4 DEF getAccount, Build, rows, RowTypes, IInv, Types
<1>8. RecordsAreBacked'
  BY <1>2, <1>6, BackingStays DEF getAccount, IInv
<1>9. QED
  BY <1>2, <1>3, <1>4, <1>5, <1>6, <1>7, <1>8, MoveKeeps DEF Fits

LEMMA sendTransactionKeeps ==
    ASSUME IInv, NEW r \in Requests, sendTransaction(r)
    PROVE  IInv'
<1>1. Fits(requests[r], tx[r]) /\ At(r, "built") /\ tx[r].status = "built"
  BY DEF sendTransaction, IInv, StagesFit, Fits, At
<1>2. /\ tx' \in [Requests -> Transactions] /\ tx'[r].status = "pending"
      /\ \A q \in Requests \ {r} : tx'[q] = tx[q]
  BY StatusMoves DEF sendTransaction, Accept, IInv, TxStatus
<1>3. Grows
  BY <1>1, <1>2 DEF sendTransaction, rows, Grows, Succeeded, HasStatus
<1>4. RowTypes'
  BY <1>2 DEF sendTransaction, Accept, rows, RowTypes, IInv, Types
<1>5. CASE Goto(r, "poll") /\ UNCHANGED withdrawalInProgress
  <2>1. Moves(r, "poll", requests[r].target, requests[r].answer)
    BY <1>5, MovedByGoto DEF IInv, Stages
  <2>2. FlagsFit' /\ withdrawalInProgress' \in [Processes -> BOOLEAN] /\ TargetFits(r)'
    BY <1>1, <1>5, <2>1, StillActive DEF sendTransaction, Active, At
  <2>3. Fits(requests'[r], tx'[r])
    BY <1>1, <1>2, <2>1 DEF Fits, Moves, At
  <2>4. RecordsAreBacked'
    BY <1>3, <2>1, BackingStays DEF sendTransaction, IInv
  <2>5. QED
    BY <1>2, <1>3, <1>4, <2>1, <2>2, <2>3, <2>4, MoveKeeps DEF Fits
<1>6. CASE Answer(r, "retry")
  <2>1. Moves(r, "done", requests[r].target, "retry") /\ FlagsFit'
        /\ withdrawalInProgress' \in [Processes -> BOOLEAN]
    BY <1>6, MovedByAnswer, FlagsByAnswer DEF IInv, Answers
  <2>2. Fits(requests'[r], tx'[r]) /\ TargetFits(r)'
    BY <2>1 DEF Moves, Fits, TargetFits, At, Does, Active
  <2>3. RecordsAreBacked'
    BY <1>3, <2>1, BackingStays DEF sendTransaction, IInv
  <2>4. QED
    BY <1>2, <1>3, <1>4, <2>1, <2>2, <2>3, MoveKeeps DEF Fits
<1>7. QED
  BY <1>5, <1>6 DEF sendTransaction

-----------------------------------------------------------------------------
(* Steps that write rows.                                                  *)
LEMMA RecordKeeps ==
    ASSUME IInv, NEW r \in Requests, NEW answer \in {"ok", "error"}, At(r, "record"),
           Answer(r, answer), UNCHANGED accountVars, Grows, RowTypes', RecordsAreBacked'
    PROVE  IInv'
<1>1. Moves(r, "done", requests[r].target, answer) /\ FlagsFit'
      /\ withdrawalInProgress' \in [Processes -> BOOLEAN]
  BY MovedByAnswer, FlagsByAnswer DEF IInv, Answers
<1>2. tx[r].status = "succeeded" /\ tx' = tx
  BY DEF accountVars, IInv, StagesFit, Fits, At
<1>3. Fits(requests'[r], tx'[r]) /\ TargetFits(r)'
  BY <1>1, <1>2 DEF Moves, Fits, TargetFits, At, Does, Active
<1>4. QED
  BY <1>1, <1>2, <1>3, MoveKeeps DEF Fits

LEMMA RowStepKeeps ==
    ASSUME IInv, NEW r \in Requests,
           \/ insertContactUnlock(r) \/ WriteSubscription(r) \/ dbCancelSubscription(r)
           \/ WriteOffer(r) \/ RecordWithdrawal(r)
    PROVE  IInv'
<1>1. /\ At(r, "record") /\ UNCHANGED accountVars
      /\ \E answer \in {"ok", "error"} : Answer(r, answer)
  BY DEF insertContactUnlock, WriteSubscription, dbCancelSubscription, WriteOffer, RecordWithdrawal
<1>2. \A q \in Requests : Succeeded(q)' <=> Succeeded(q)
  BY <1>1 DEF accountVars, Succeeded, HasStatus
<1>3. Succeeded(r) /\ requests[r].target \in Requests /\ TargetFits(r)
  BY <1>1 DEF IInv, StagesFit, Fits, At, Succeeded, HasStatus, TargetsFit, Types, RequestState
<1>4. PICK answer \in {"ok", "error"} : Answer(r, answer)
  BY <1>1
<1>5. Moves(r, "done", requests[r].target, answer)
  BY <1>4, MovedByAnswer DEF IInv, Answers
<1>6. Offers' = Offers /\ (OfferIndexed' <=> OfferIndexed)
  <2>1. \A q \in Requests : Does(q, "createTrialOffer")' <=> Does(q, "createTrialOffer")
    BY <1>5 DEF Moves, Does
  <2>2. Offers' = Offers
    BY <2>1 DEF Offers
  <2>3. \A o \in Offers : Succeeded(o)' <=> Succeeded(o)
    BY <1>2 DEF Offers
  <2>4. QED
    BY <2>2, <2>3 DEF OfferIndexed
<1>7. sequence' \in Int /\ tx' \in [Requests -> Transactions]
  BY <1>1 DEF accountVars, IInv, Types
<1>8. ASSUME UNCHANGED <<offers, promoted>>
      PROVE  promoted' \/ (\E o \in Offers' : offers'[o] # "none") => OfferIndexed'
  BY <1>6, <1>8 DEF IInv, RecordsAreBacked
<1>9. CASE insertContactUnlock(r)
  <2>1. contactUnlock' \in {r, contactUnlock} /\ UNCHANGED <<subscriptions, feeWithdrawals, offers, promoted>>
    BY <1>9 DEF insertContactUnlock
  <2>2. contactUnlock' # Nobody => Succeeded(contactUnlock)'
    <3>1. PICK u \in {r, contactUnlock} : u = contactUnlock'
      BY <2>1
    <3>2. u # Nobody => u \in Requests /\ Succeeded(u)
      BY <1>3, <3>1 DEF IInv, RecordsAreBacked, Types
    <3>3. QED
      BY <1>2, <3>1, <3>2 DEF Succeeded, HasStatus
  <2>3. Grows /\ RowTypes'
    BY <1>2, <1>7, <2>1 DEF Grows, RowTypes, IInv, Types
  <2>4. RecordsAreBacked'
    BY <1>2, <1>8, <2>1, <2>2 DEF IInv, RecordsAreBacked, Types
  <2>5. QED
    BY <1>1, <1>4, <2>3, <2>4, RecordKeeps
<1>10. ASSUME NEW s \in Requests, NEW status \in {"live", "cancelled"},
              subscriptions' = [subscriptions EXCEPT ![s] = status],
              s = r \/ subscriptions[s] # "none",
              UNCHANGED <<contactUnlock, feeWithdrawals, offers, promoted>>
       PROVE  IInv'
  <2>1. Grows /\ RowTypes'
    BY <1>2, <1>7, <1>10 DEF Grows, RowTypes, IInv, Types
  <2>2. \A q \in Requests : subscriptions'[q] # "none" => Succeeded(q)'
    BY <1>2, <1>3, <1>10 DEF IInv, RecordsAreBacked, Types
  <2>3. contactUnlock' # Nobody => Succeeded(contactUnlock)'
    BY <1>2, <1>10 DEF IInv, RecordsAreBacked, Types, Succeeded, HasStatus
  <2>4. RecordsAreBacked'
    BY <1>2, <1>8, <1>10, <2>2, <2>3 DEF IInv, RecordsAreBacked, Types
  <2>5. QED
    BY <1>1, <1>4, <2>1, <2>4, RecordKeeps
<1>11. CASE WriteSubscription(r)
  <2>1. PICK s \in Requests : s = requests[r].target
    BY <1>3
  <2>2. s = r \/ subscriptions[s] # "none"
    BY <1>3, <1>11, <2>1 DEF WriteSubscription, TargetFits, Does, At, Active, Purchases
  <2>3. subscriptions[s] \in {"none", "live", "cancelled"}
        /\ subscriptions' = [subscriptions EXCEPT ![s] = IF @ = "none" THEN "live" ELSE @]
    BY <1>11, <2>1 DEF WriteSubscription, IInv, Types
  <2>4. CASE subscriptions[s] = "none"
    BY <1>10, <1>11, <2>2, <2>3, <2>4 DEF WriteSubscription
  <2>5. CASE subscriptions[s] # "none"
    <3>1. subscriptions[s] \in {"live", "cancelled"}
          /\ subscriptions' = [subscriptions EXCEPT ![s] = subscriptions[s]]
      BY <2>3, <2>5
    <3>2. QED
      BY <1>10, <1>11, <2>2, <3>1 DEF WriteSubscription
  <2>6. QED
    BY <2>4, <2>5
<1>12. CASE dbCancelSubscription(r)
  <2>1. subscriptions[requests[r].target] # "none"
    BY <1>3, <1>12 DEF dbCancelSubscription, TargetFits, Does, At, Active
  <2>2. QED
    BY <1>3, <1>10, <1>12, <2>1 DEF dbCancelSubscription
<1>13. CASE WriteOffer(r)
  <2>1. r \in Offers /\ OfferIndexed
    BY <1>3, <1>13 DEF WriteOffer, Offers, OfferIndexed
  <2>2. offers' \in [Requests -> OfferStatus]
    BY <1>13 DEF WriteOffer, IInv, Types, OfferStatus
  <2>3. UNCHANGED <<contactUnlock, subscriptions, feeWithdrawals>>
    BY <1>13 DEF WriteOffer
  <2>4. Grows /\ RowTypes'
    BY <1>2, <1>7, <2>2, <2>3 DEF Grows, RowTypes, IInv, Types
  <2>5. contactUnlock' # Nobody => Succeeded(contactUnlock)'
    BY <1>2, <2>3 DEF IInv, RecordsAreBacked, Types, Succeeded, HasStatus
  <2>6. RecordsAreBacked'
    BY <1>2, <1>6, <2>1, <2>3, <2>5 DEF IInv, RecordsAreBacked, Types
  <2>7. QED
    BY <1>1, <1>4, <2>4, <2>6, RecordKeeps
<1>14. CASE RecordWithdrawal(r)
  <2>1. feeWithdrawals' \subseteq feeWithdrawals \cup {r}
        /\ UNCHANGED <<contactUnlock, subscriptions, offers, promoted>>
    BY <1>14 DEF RecordWithdrawal
  <2>2. Grows /\ RowTypes'
    BY <1>2, <1>7, <2>1 DEF Grows, RowTypes, IInv, Types
  <2>3. contactUnlock' # Nobody => Succeeded(contactUnlock)'
    BY <1>2, <2>1 DEF IInv, RecordsAreBacked, Types, Succeeded, HasStatus
  <2>4. \A q \in feeWithdrawals' : Succeeded(q)'
    BY <1>2, <1>3, <2>1 DEF IInv, RecordsAreBacked, Types
  <2>5. RecordsAreBacked'
    BY <1>2, <1>8, <2>1, <2>3, <2>4 DEF IInv, RecordsAreBacked, Types
  <2>6. QED
    BY <1>1, <1>4, <2>2, <2>5, RecordKeeps
<1>15. QED
  BY <1>9, <1>11, <1>12, <1>13, <1>14

(* The answers to an offer: a row is there, so an offer has succeeded.     *)
LEMMA OfferStepKeeps ==
    ASSUME IInv, NEW r \in Requests,
           resolveOwnedPendingOffer(r) \/ respondToTrialOffer(r) \/ cancelTrialOffer(r)
    PROVE  IInv'
<1>1. requests[r].target \in Requests /\ Fits(requests[r], tx[r]) /\ TargetFits(r)
  BY DEF IInv, Types, RequestState, StagesFit, TargetsFit
<1>2. /\ UNCHANGED <<accountVars, contactUnlock, subscriptions, feeWithdrawals, promoted>>
      /\ tx[r].status = "none"
  BY <1>1 DEF resolveOwnedPendingOffer, respondToTrialOffer, cancelTrialOffer, Fits, At
<1>3. OfferIndexed
  <2>1. CASE resolveOwnedPendingOffer(r)
    BY <2>1 DEF resolveOwnedPendingOffer, IInv, RecordsAreBacked
  <2>2. CASE respondToTrialOffer(r) \/ cancelTrialOffer(r)
    BY <1>1, <2>2 DEF respondToTrialOffer, cancelTrialOffer, TargetFits
  <2>3. QED
    BY <2>1, <2>2
<1>4. Grows /\ tx' = tx
  BY <1>2 DEF accountVars, Grows, Succeeded, HasStatus
<1>5. offers' \in [Requests -> OfferStatus]
  <2>1. \A o, status : status \in OfferStatus => [offers EXCEPT ![o] = status] \in [Requests -> OfferStatus]
    BY DEF IInv, Types
  <2>2. QED
    BY <2>1 DEF resolveOwnedPendingOffer, respondToTrialOffer, cancelTrialOffer, IInv, Types, OfferStatus
<1>6. RowTypes'
  BY <1>2, <1>5 DEF accountVars, RowTypes, IInv, Types
<1>7. ASSUME NEW stage, NEW target, NEW answer, Moves(r, stage, target, answer)
      PROVE  RecordsAreBacked' /\ OfferIndexed'
  <2>1. OfferIndexed'
    BY <1>3, <1>4, <1>7, OffersStay
  <2>2. contactUnlock' # Nobody => Succeeded(contactUnlock)'
    BY <1>2, <1>4 DEF IInv, RecordsAreBacked, Types, Succeeded, HasStatus
  <2>3. QED
    BY <1>2, <1>4, <2>1, <2>2 DEF IInv, RecordsAreBacked, Types, Grows
<1>8. CASE resolveOwnedPendingOffer(r)
  <2>1. PICK o \in Offers : GotoWith(r, "respond", o)
    BY <1>8 DEF resolveOwnedPendingOffer
  <2>2. Moves(r, "respond", o, requests[r].answer)
    BY <2>1, MovedByGotoWith DEF Offers, IInv, Stages
  <2>3. FlagsFit' /\ withdrawalInProgress' \in [Processes -> BOOLEAN]
    BY <1>8, <2>2, FlagsByMove DEF resolveOwnedPendingOffer, IInv, Active, At
  <2>4. Fits(requests'[r], tx'[r])
    BY <1>1, <1>4, <1>8, <2>2 DEF resolveOwnedPendingOffer, Moves, Fits, At
  <2>5. TargetFits(r)'
    BY <1>7, <2>2 DEF Moves, TargetFits, Active, Does, At
  <2>6. QED
    BY <1>4, <1>6, <1>7, <2>2, <2>3, <2>4, <2>5, MoveKeeps DEF Fits
<1>9. CASE respondToTrialOffer(r) \/ cancelTrialOffer(r)
  <2>1. PICK answer \in {"ok", "refused"} : Answer(r, answer)
    BY <1>9 DEF respondToTrialOffer, cancelTrialOffer
  <2>2. Moves(r, "done", requests[r].target, answer) /\ FlagsFit'
        /\ withdrawalInProgress' \in [Processes -> BOOLEAN]
    BY <2>1, MovedByAnswer, FlagsByAnswer DEF IInv, Answers
  <2>3. requests[r].job \in Responses \cup {"cancelTrialOffer"}
    BY <1>9 DEF respondToTrialOffer, cancelTrialOffer, Does
  <2>4. Fits(requests'[r], tx'[r]) /\ TargetFits(r)'
    BY <1>2, <1>4, <2>2, <2>3 DEF Moves, Fits, TargetFits, At, Does, Active
  <2>5. QED
    BY <1>4, <1>6, <1>7, <2>2, <2>4, MoveKeeps DEF Fits
<1>10. QED
  BY <1>8, <1>9

-----------------------------------------------------------------------------
(* The network and the crashes.                                            *)
LEMMA NetworkKeeps ==
    ASSUME IInv, NEW r \in Requests, NetworkStep(r)
    PROVE  IInv'
<1>1. UNCHANGED <<requests, withdrawalInProgress, rows>> /\ tx[r].status = "pending"
  BY DEF NetworkStep, Include, Expire, HasStatus
<1>2. PICK status \in {"succeeded", "failed", "expired"} : Settle(r, status)
  BY DEF NetworkStep, Include, Expire
<1>3. /\ tx' \in [Requests -> Transactions] /\ tx'[r].status = status
      /\ \A q \in Requests \ {r} : tx'[q] = tx[q]
  BY <1>2, StatusMoves DEF IInv, TxStatus
<1>4. sequence' \in Int
  BY DEF NetworkStep, Include, Expire, IInv, Types
<1>5. Types'
  BY <1>1, <1>3, <1>4 DEF IInv, Types, rows
<1>6. \A q \in Requests : Succeeded(q) => Succeeded(q)'
  BY <1>1, <1>3 DEF Succeeded, HasStatus
<1>7. StagesFit'
  <2>1. Fits(requests[r], tx'[r])
    BY <1>1, <1>2, <1>3 DEF IInv, StagesFit, Fits
  <2>2. QED
    BY <1>1, <1>3, <2>1 DEF IInv, StagesFit
<1>8. Offers' = Offers /\ (OfferIndexed => OfferIndexed')
  <2>1. Offers' = Offers
    BY <1>1 DEF Offers, Does
  <2>2. \A o \in Offers : Succeeded(o) => Succeeded(o)'
    BY <1>6 DEF Offers
  <2>3. QED
    BY <2>1, <2>2 DEF OfferIndexed
<1>9. TargetsFit'
  BY <1>1, <1>8 DEF IInv, TargetsFit, TargetFits, At, Does, rows
<1>10. FlagsFit'
  <2>1. \A p \in Processes : Holders(p)' = Holders(p)
    BY <1>1 DEF Holders, HoldsLock
  <2>2. QED
    BY <1>1, <2>1 DEF IInv, FlagsFit
<1>11. RecordsAreBacked'
  <2>1. contactUnlock' # Nobody => Succeeded(contactUnlock)'
    BY <1>1, <1>6 DEF rows, IInv, RecordsAreBacked, Types, Succeeded, HasStatus
  <2>2. promoted' \/ (\E o \in Offers' : offers'[o] # "none") => OfferIndexed'
    BY <1>1, <1>8 DEF rows, IInv, RecordsAreBacked
  <2>3. QED
    BY <1>1, <1>6, <2>1, <2>2 DEF rows, IInv, RecordsAreBacked, Types
<1>12. QED
  BY <1>5, <1>7, <1>9, <1>10, <1>11 DEF IInv

LEMMA CrashKeeps ==
    ASSUME IInv, NEW p \in Processes, Crash(p)
    PROVE  IInv'
<1> DEFINE dying == {r \in Requests : requests[r].process = p /\ ~At(r, "new") /\ ~At(r, "done")}
<1>1. /\ requests' = [r \in Requests |->
             IF r \in dying THEN [requests[r] EXCEPT !.stage = "done", !.answer = "lost"]
             ELSE requests[r]]
      /\ withdrawalInProgress' = [withdrawalInProgress EXCEPT ![p] = FALSE]
      /\ UNCHANGED <<accountVars, rows>>
  BY DEF Crash
<1>2. \A r \in Requests : requests[r] \in RequestState
  BY DEF IInv, Types
<1>3. ASSUME NEW r \in dying
      PROVE  /\ r \in Requests
             /\ requests'[r] \in RequestState
             /\ requests'[r].stage = "done" /\ requests'[r].answer = "lost"
             /\ requests'[r].job = requests[r].job
             /\ requests'[r].process = requests[r].process
  <2>1. r \in Requests /\ requests[r] \in RequestState
    BY <1>2
  <2>2. requests'[r] = [requests[r] EXCEPT !.stage = "done", !.answer = "lost"]
    BY <1>1, <2>1
  <2>3. QED
    BY <2>1, <2>2 DEF RequestState, Stages, Answers
<1>4. \A r \in Requests \ dying : requests'[r] = requests[r]
  BY <1>1
<1> HIDE DEF dying
<1>5. /\ \A r \in Requests : requests'[r] \in RequestState /\ requests'[r].job = requests[r].job
      /\ requests' \in [Requests -> RequestState]
  BY <1>1, <1>2, <1>3, <1>4
<1>6. tx' = tx /\ Types'
  BY <1>1, <1>5 DEF accountVars, rows, IInv, Types
<1>7. StagesFit'
  BY <1>3, <1>4, <1>6 DEF IInv, StagesFit, Fits
<1>8. Offers' = Offers /\ (OfferIndexed' <=> OfferIndexed)
  <2>1. \A r \in Requests : Does(r, "createTrialOffer")' <=> Does(r, "createTrialOffer")
    BY <1>5 DEF Does
  <2>2. Offers' = Offers
    BY <2>1 DEF Offers
  <2>3. QED
    BY <1>6, <2>2 DEF OfferIndexed, Succeeded, HasStatus
<1>9. TargetsFit'
  <2>1. ASSUME NEW r \in Requests
        PROVE  TargetFits(r)'
    <3>1. CASE r \in dying
      BY <1>3, <3>1 DEF TargetFits, Does, At, Active
    <3>2. CASE r \notin dying
      <4>1. requests'[r] = requests[r] /\ subscriptions' = subscriptions
        BY <1>1, <1>4, <3>2 DEF rows
      <4>2. QED
        BY <1>8, <4>1 DEF IInv, TargetsFit, TargetFits, Does, At
    <3>3. QED
      BY <3>1, <3>2
  <2>2. QED
    BY <2>1 DEF TargetsFit
<1>10. FlagsFit'
  <2>1. \A r \in Requests : requests'[r].process = requests[r].process
    BY <1>3, <1>4
  <2>2. Holders(p)' = {}
    BY <1>3, <1>4, <2>1 DEF Holders, HoldsLock, dying, At
  <2>3. \A q \in Processes \ {p} : Holders(q)' = Holders(q)
    BY <1>3, <1>4, <2>1 DEF Holders, HoldsLock, dying
  <2>4. ~withdrawalInProgress'[p] /\ \A q \in Processes \ {p} : withdrawalInProgress'[q] = withdrawalInProgress[q]
    BY <1>1 DEF IInv, Types
  <2>5. QED
    BY <2>2, <2>3, <2>4 DEF IInv, FlagsFit
<1>11. RecordsAreBacked'
  BY <1>1, <1>6, <1>8 DEF rows, IInv, RecordsAreBacked, Succeeded, HasStatus
<1>12. QED
  BY <1>6, <1>7, <1>9, <1>10, <1>11 DEF IInv

-----------------------------------------------------------------------------
LEMMA Invariant == Spec => []IInv
<1>1. ASSUME Init
      PROVE  IInv
  <2>1. PICK a \in Assignments :
           requests = [r \in Requests |-> [job |-> a[r].job, process |-> a[r].process, stage |-> "new",
                                           target |-> r, answer |-> "none"]]
    BY <1>1 DEF Init
  <2>2. \A r \in Requests : a[r].job \in Jobs /\ a[r].process \in Processes
    BY SettlementAssumption
  <2>3. \A r \in Requests : /\ requests[r] \in RequestState
                            /\ requests[r].stage = "new" /\ requests[r].target = r
                            /\ requests[r].answer = "none"
    BY <2>1, <2>2 DEF RequestState, Stages, Answers
  <2>4. NoTx \in Transactions /\ NoTx.status = "none"
    BY DEF NoTx, Transactions, TxStatus
  <2>5. tx = [r \in Requests |-> NoTx] /\ sequence = 0
    BY <1>1 DEF Init, AccountInit
  <2>6. Types
    BY <1>1, <2>1, <2>3, <2>4, <2>5 DEF Init, Types, OfferStatus
  <2>7. StagesFit /\ TargetsFit
    BY <2>3, <2>4, <2>5 DEF StagesFit, Fits, TargetsFit, TargetFits, Does, At, Active
  <2>8. FlagsFit
    BY <1>1, <2>3 DEF Init, FlagsFit, Holders, HoldsLock
  <2>9. RecordsAreBacked
    BY <1>1 DEF Init, RecordsAreBacked, Offers
  <2>10. QED
    BY <2>6, <2>7, <2>8, <2>9 DEF IInv
<1>2. ASSUME IInv, [Next]_vars
      PROVE  IInv'
  <2>1. ASSUME NEW r \in Requests, Start(r)
        PROVE  IInv'
    BY <1>2, <2>1, StartKeeps, OfferStepKeeps DEF Start
  <2>2. ASSUME NEW r \in Requests, HandlerStep(r)
        PROVE  IInv'
    BY <1>2, <2>2, TakeFlagKeeps, getAccountKeeps, sendTransactionKeeps, QuietHandlerKeeps,
       RowStepKeeps, OfferStepKeeps DEF HandlerStep
  <2>3. ASSUME NEW r \in Requests, PollFails(r) \/ NetworkStep(r)
        PROVE  IInv'
    BY <1>2, <2>3, QuietHandlerKeeps, NetworkKeeps
  <2>4. CASE UNCHANGED vars
    BY <1>2, <2>4 DEF vars, accountVars, rows, IInv, Types, StagesFit, TargetsFit, TargetFits, At, Does,
       FlagsFit, Holders, HoldsLock, RecordsAreBacked, Offers, OfferIndexed, Succeeded, HasStatus
  <2>5. QED
    BY <1>2, <2>1, <2>2, <2>3, <2>4, CrashKeeps DEF Next
<1>3. QED
  BY <1>1, <1>2, PTL DEF Spec

(* For any requests in any number of processes: no row without a           *)
(* transaction that succeeded (scoutController.ts, trialOfferController.ts,*)
(* adminMultiSig.ts).                                                      *)
THEOREM RecordsBacked == Spec => []RecordsAreBacked
<1>1. IInv => RecordsAreBacked
  BY DEF IInv
<1>2. QED
  BY <1>1, Invariant, PTL

(* Whoever is refused has moved nothing and will move nothing; whoever is  *)
(* told of success has (stellarPayments.ts, stellarWithdrawals.ts).        *)
THEOREM AnswersTrue == Spec => []AnswersAreTrue
<1>1. IInv => AnswersAreTrue
  BY DEF IInv, StagesFit, Fits, AnswersAreTrue, Succeeded, HasStatus
<1>2. QED
  BY <1>1, Invariant, PTL

(* The two withdrawal handlers share one flag of their process             *)
(* (adminFeesController.ts, withdrawalInProgress): it is up while exactly  *)
(* one of them is between its test and its answer, however many start.     *)
THEOREM WithdrawalsExclude == Spec => []OneWithdrawalAtATime
<1>1. IInv => OneWithdrawalAtATime
  <2> SUFFICES ASSUME IInv, NEW p \in Processes
               PROVE  Cardinality(Holders(p)) = (IF withdrawalInProgress[p] THEN 1 ELSE 0)
    BY DEF OneWithdrawalAtATime, Holders
  <2>1. CASE withdrawalInProgress[p]
    <3>1. PICK r \in Requests : Holders(p) = {r}
      BY <2>1 DEF IInv, FlagsFit
    <3>2. QED
      BY <2>1, <3>1, FS_Singleton
  <2>2. CASE ~withdrawalInProgress[p]
    BY <2>2, FS_EmptySet DEF IInv, FlagsFit
  <2>3. QED
    BY <2>1, <2>2
<1>2. QED
  BY <1>1, Invariant, PTL
=============================================================================
