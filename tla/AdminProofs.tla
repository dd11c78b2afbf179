----------------------------- MODULE AdminProofs -----------------------------
(***************************************************************************)
(* What administrators ask for and the service carries out in steps: the   *)
(* approvals of a privileged operation, for any number of requests, admins *)
(* and signatures, and the reindexes and replays of events, for every      *)
(* chain, batch size and number of polls beside them.                      *)
(***************************************************************************)
EXTENDS AdminMultiSig, Backfill, FiniteSetTheorems, SequenceTheorems,
        WellFoundedInduction, TLAPS

-----------------------------------------------------------------------------
(* The approvals.  Nothing is assumed finite: what has been signed is,     *)
(* because every signature took a step.                                    *)

Counting == InFlight({"count", "countProposal"})

(* A request between its signature and its call of the chain.              *)
TriggerStages == {"count", "reread", "mark", "run"}

(* A request that has passed the check of its wallet.                      *)
AdminStages == ProposeStages \cup {"lookup", "sign"} \cup TriggerStages

Request == [stage : Stages, signer : Wallets \cup {"none"}, seen : Statuses \cup {"none"}]
ActionRow == [status : Statuses, collected : Nat, expiresAt : Nat]

Types ==
    /\ now \in Nat
    /\ action \in ActionRow \cup {NoAction}
    /\ requests \in [Requests -> Request]
    /\ IsFiniteSet(signatures)
    /\ IsFiniteSet(Counting)
    /\ overtaken \in BOOLEAN

(* The operation is signed by admins only.                                 *)
SignersAreAdmins ==
    /\ signatures \subseteq AdminWallets
    /\ \A r \in InFlight(AdminStages) : signer(r) \in AdminWallets

(* What is counted has a signature; who is about to call the chain has     *)
(* found enough.                                                           *)
QuorumSeen ==
    (InFlight({"mark", "run"}) # {} \/ runs # <<>>)
       => Cardinality(signatures) + DoubleCount >= AdminThreshold

(* Nothing is signed or approved before the row is there.                  *)
RowFirst ==
    /\ action = NoAction => signatures = {} /\ InFlight(ApproveStages) = {}
    /\ InFlight({"signProposal", "countProposal"}) # {} => action # NoAction

(* There is one proposal, and until it has signed no signature is counted  *)
(* twice: its own is the only one that can be.                             *)
ProposalSignsOnce ==
    /\ \A p, q \in InFlight(ProposeStages) : p = q
    /\ InFlight({"insert", "signProposal"}) # {} \/ action = NoAction => ~overtaken

(* A signature lets one request pass, which calls the chain once.          *)
SignatureIsSpent ==
    /\ \A p, q \in InFlight(TriggerStages) : signer(p) = signer(q) => p = q
    /\ \A p \in InFlight(TriggerStages) :
          signer(p) \in signatures /\ \A i \in 1..Len(runs) : runs[i] # signer(p)
    /\ runs \in Seq(signatures)
    /\ \A i, j \in 1..Len(runs) : runs[i] = runs[j] => i = j

BInv == Types /\ RowFirst
IInv == BInv /\ SignersAreAdmins /\ QuorumSeen /\ ProposalSignsOnce /\ OnlyProposerCountsTwice

-----------------------------------------------------------------------------
(* Where the requests are after one of them has moved.                     *)
LEMMA Moved ==
    ASSUME NEW r \in Requests, NEW stage \in Stages, Types,
           \/ Goto(r, stage)
           \/ \E w \in Wallets \cup {"none"}, seen \in Statuses \cup {"none"} :
                 requests' = [requests EXCEPT ![r] =
                                [stage |-> stage, signer |-> w, seen |-> seen]]
    PROVE  /\ requests' \in [Requests -> Request]
           /\ requests'[r].stage = stage
           /\ \A q \in Requests \ {r} : requests'[q] = requests[q]
           /\ \A S : InFlight(S)' = (IF stage \in S THEN InFlight(S) \cup {r}
                                                    ELSE InFlight(S) \ {r})
           /\ IsFiniteSet(Counting')
<1>1. /\ requests' \in [Requests -> Request]
      /\ requests'[r].stage = stage
      /\ \A q \in Requests \ {r} : requests'[q] = requests[q]
  BY DEF Types, Request, Goto
<1>2. \A S : InFlight(S)' = IF stage \in S THEN InFlight(S) \cup {r} ELSE InFlight(S) \ {r}
  BY <1>1 DEF InFlight
<1>3. IsFiniteSet(Counting \cup {r}) /\ IsFiniteSet(Counting \ {r})
  BY FS_AddElement, FS_RemoveElement DEF Types
<1>4. Counting' \in {Counting \cup {r}, Counting \ {r}}
  BY <1>2 DEF Counting
<1>5. QED
  BY <1>1, <1>2, <1>3, <1>4

LEMMA RowRead ==
    ASSUME NEW r \in Requests, Types, getPendingAdminActionById(r)
    PROVE  requests' = [requests EXCEPT ![r] = [stage |-> "check", signer |-> signer(r),
                                               seen |-> action.status]]
<1> DEFINE moved == [requests EXCEPT ![r].stage = "check"]
           row == [stage |-> "check", signer |-> signer(r), seen |-> action.status]
<1>1. /\ DOMAIN requests = Requests
      /\ requests[r] \in Request
      /\ requests' = [moved EXCEPT ![r].seen = action.status]
  BY DEF getPendingAdminActionById, Types
<1>2. moved = [requests EXCEPT ![r] = [requests[r] EXCEPT !.stage = "check"]]
  OBVIOUS
<1>3. moved[r] = [stage |-> "check", signer |-> signer(r), seen |-> requests[r].seen]
  BY <1>1, <1>2 DEF Request, signer
<1>4. [moved[r] EXCEPT !.seen = action.status] = row
  BY <1>3
<1>5. requests' = [moved EXCEPT ![r] = row]
  BY <1>1, <1>4
<1>6. QED
  <2>1. /\ DOMAIN moved = Requests
        /\ \A q \in Requests \ {r} : moved[q] = requests[q]
    BY <1>1, <1>2
  <2>2. QED
    BY <2>1, <1>5, <1>1

(* Only the approval that follows changes both books at once; every other  *)
(* step leaves what is owed alone or moves it from one book to the other.  *)
LEMMA OnlyProposerCountsTwiceKept ==
    ASSUME IInv, Next, Types'
    PROVE  OnlyProposerCountsTwice'
<1>1. /\ Cardinality(Counting) \in Nat /\ Cardinality(signatures) \in Nat
      /\ action.collected \in Nat /\ DoubleCount \in Nat
      /\ action.collected + Cardinality(Counting) <= Cardinality(signatures) + DoubleCount
  BY FS_CardinalityType
     DEF IInv, BInv, Types, ActionRow, NoAction, OnlyProposerCountsTwice, Counting, DoubleCount
<1>2. ASSUME action'.collected \in {action.collected, 0}, signatures' = signatures,
             overtaken' = overtaken,
             Counting' = Counting \/ \E r \in Requests : Counting' = Counting \ {r}
      PROVE  OnlyProposerCountsTwice'
  <2>1. Cardinality(Counting') \in Nat /\ Cardinality(Counting') <= Cardinality(Counting)
    <3>1. IsFiniteSet(Counting) /\ Counting' \subseteq Counting
      BY <1>2 DEF IInv, BInv, Types
    <3>2. QED
      BY <3>1, <1>1, FS_Subset, FS_CardinalityType
  <2>2. QED
    BY <2>1, <1>1, <1>2 DEF OnlyProposerCountsTwice, Counting, DoubleCount
<1>3. ASSUME NEW r \in Counting, Counting' = Counting \ {r},
             action'.collected = action.collected + 1, signatures' = signatures,
             overtaken' = overtaken
      PROVE  OnlyProposerCountsTwice'
  <2>1. Cardinality(Counting') = Cardinality(Counting) - 1
    BY <1>3, FS_RemoveElement DEF IInv, BInv, Types
  <2>2. QED
    BY <2>1, <1>1, <1>3 DEF OnlyProposerCountsTwice, Counting, DoubleCount
<1>4. ASSUME NEW r \in Requests, NEW w, action' = action,
             \/ w \notin signatures /\ overtaken' = overtaken
             \/ w \in signatures /\ ~overtaken /\ overtaken',
             signatures' = signatures \cup {w}, Counting' = Counting \cup {r}
      PROVE  OnlyProposerCountsTwice'
  <2>1. /\ Cardinality(Counting') \in Nat
        /\ Cardinality(Counting') <= Cardinality(Counting) + 1
    BY <1>1, <1>4, FS_AddElement DEF IInv, BInv, Types
  <2>2. Cardinality(signatures') + DoubleCount' = Cardinality(signatures) + DoubleCount + 1
    <3>1. CASE w \notin signatures
      BY <1>1, <1>4, <3>1, FS_AddElement DEF IInv, BInv, Types, DoubleCount
    <3>2. CASE w \in signatures
      <4>1. signatures' = signatures
        BY <1>4, <3>2
      <4>2. DoubleCount = 0 /\ DoubleCount' = 1
        BY <1>4, <3>2 DEF DoubleCount
      <4>3. QED
        BY <1>1, <4>1, <4>2
    <3>3. QED
      BY <3>1, <3>2
  <2>3. QED
    <3>1. Cardinality(signatures') \in Nat /\ DoubleCount' \in Nat
      BY FS_CardinalityType DEF Types, DoubleCount
    <3>2. QED
      BY <2>1, <2>2, <3>1, <1>1, <1>4 DEF OnlyProposerCountsTwice, Counting
<1>5. CASE Tick
  <2>1. Counting' = Counting
    BY <1>5 DEF Tick, InFlight, Counting
  <2>2. QED
    BY <2>1, <1>2, <1>5 DEF Tick, dbVars, historyVars
<1>6. ASSUME NEW r \in Requests, NEW stage \in Stages \ {"count", "countProposal"},
             \/ Goto(r, stage)
             \/ \E w \in Wallets \cup {"none"}, seen \in Statuses \cup {"none"} :
                   requests' = [requests EXCEPT ![r] =
                                  [stage |-> stage, signer |-> w, seen |-> seen]]
      PROVE  Counting' = Counting \ {r}
  BY <1>6, Moved DEF IInv, BInv, Counting
<1>7. ASSUME NEW r \in Requests, Propose(r)
      PROVE  OnlyProposerCountsTwice'
  <2>1. CASE \E w \in AdminWallets : proposeAction(r, w)
    BY <2>1, <1>2, <1>6, MultiSigAssumption DEF proposeAction, dbVars, historyVars, Stages, ProposeStages
  <2>2. CASE insertPendingAdminAction(r)
    BY <2>2, <1>2, <1>6 DEF insertPendingAdminAction, historyVars, Stages, ProposeStages
  <2>3. CASE SignProposal(r)
    <3>1. ~overtaken
      BY <2>3 DEF SignProposal, At, InFlight, IInv, ProposalSignsOnce
    <3>2. Counting' = Counting \cup {r}
      BY <2>3, Moved DEF IInv, BInv, SignProposal, Stages, ProposeStages, Counting
    <3>3. /\ action' = action /\ signatures' = signatures \cup {signer(r)}
          /\ signer(r) \notin signatures => overtaken' = overtaken
          /\ signer(r) \in signatures => overtaken'
      <4>1. overtaken \in BOOLEAN
        BY DEF IInv, BInv, Types
      <4>2. QED
        BY <2>3, <4>1 DEF SignProposal
    <3>4. QED
      BY <3>1, <3>2, <3>3, <1>4
  <2>4. CASE CountProposal(r)
    <3>1. r \in Counting
      BY <2>4 DEF CountProposal, At, InFlight, Counting
    <3>2. Counting' = Counting \ {r}
      BY <2>4, <1>6 DEF CountProposal, Stages
    <3>3. action'.collected = action.collected + 1
      BY <2>4 DEF CountProposal, IInv, BInv, Types, ActionRow, NoAction
    <3>4. QED
      BY <2>4, <3>1, <3>2, <3>3, <1>3 DEF CountProposal, historyVars
  <2>5. QED
    BY <1>7, <2>1, <2>2, <2>3, <2>4 DEF Propose
<1>8. ASSUME NEW r \in Requests, Approve(r)
      PROVE  OnlyProposerCountsTwice'
  <2> USE DEF Stages, ApproveStages, dbVars, historyVars
  <2>1. CASE \E w \in Wallets : approveAction(r, w)
    BY <2>1, <1>2, <1>6 DEF approveAction
  <2>2. CASE expireStalePendingAdminActions(r)
    BY <2>2, <1>2, <1>6 DEF expireStalePendingAdminActions, IInv, BInv, Types, ActionRow, NoAction
  <2>3. CASE getPendingAdminActionById(r)
    <3>1. requests' = [requests EXCEPT ![r] = [stage |-> "check", signer |-> signer(r),
                                               seen |-> action.status]]
      BY <2>3, RowRead DEF IInv, BInv
    <3>2. Counting' = Counting \ {r}
      <4>1. \A q \in Requests : requests'[q].stage = IF q = r THEN "check" ELSE requests[q].stage
        BY <3>1 DEF IInv, BInv, Types
      <4>2. QED
        BY <4>1 DEF InFlight, Counting
    <3>3. QED
      BY <2>3, <1>2, <3>2 DEF getPendingAdminActionById
  <2>4. CASE CheckAction(r)
    BY <2>4, <1>2, <1>6 DEF CheckAction
  <2>5. CASE \E status \in Statuses, next \in {"done", "run"} : UpdateStatus(r, status, next)
    BY <2>5, <1>2, <1>6 DEF UpdateStatus, IInv, BInv, Types, ActionRow, NoAction
  <2>6. CASE getAdminActionSignature(r)
    BY <2>6, <1>2, <1>6 DEF getAdminActionSignature
  <2>7. CASE insertAdminActionSignature(r)
    <3>1. CASE signer(r) \in signatures
      <4>1. signatures' = signatures
        BY <2>7, <3>1 DEF insertAdminActionSignature
      <4>2. QED
        BY <2>7, <3>1, <4>1, <1>2, <1>6 DEF insertAdminActionSignature
    <3>2. CASE signer(r) \notin signatures
      <4>1. Counting' = Counting \cup {r}
        BY <2>7, <3>2, Moved DEF IInv, BInv, insertAdminActionSignature, Counting
      <4>2. QED
        BY <2>7, <3>2, <4>1, <1>4 DEF insertAdminActionSignature
    <3>3. QED
      BY <3>1, <3>2
  <2>8. CASE incrementActionSignatures(r)
    <3>1. r \in Counting
      BY <2>8 DEF incrementActionSignatures, At, InFlight, Counting
    <3>2. Counting' = Counting \ {r}
      BY <2>8, <1>6 DEF incrementActionSignatures
    <3>3. action'.collected = action.collected + 1
      BY <2>8 DEF incrementActionSignatures, IInv, BInv, Types, ActionRow, NoAction
    <3>4. QED
      BY <2>8, <3>1, <3>2, <3>3, <1>3 DEF incrementActionSignatures
  <2>9. CASE Reread(r)
    BY <2>9, <1>2, <1>6 DEF Reread
  <2>10. CASE runAdminActionInternal(r)
    BY <2>10, <1>2, <1>6 DEF runAdminActionInternal
  <2>11. QED
    BY <1>8, <2>1, <2>2, <2>3, <2>4, <2>5, <2>6, <2>7, <2>8, <2>9, <2>10
       DEF Approve, MarkExpired, MarkExecuted, RevertToPending, Statuses
<1>9. ASSUME NEW r \in Requests, Abort(r)
      PROVE  OnlyProposerCountsTwice'
  BY <1>9, <1>2, <1>6 DEF Abort, dbVars, historyVars, Stages
<1>10. QED
  BY <1>5, <1>7, <1>8, <1>9 DEF Next

-----------------------------------------------------------------------------
(* Every step leaves a row a row, and what is on file finite.              *)
LEMMA BaseKept ==
    ASSUME BInv, Next
    PROVE  /\ Types'
           /\ action # NoAction => action' # NoAction
<1> USE DEF Stages, ProposeStages, ApproveStages, dbVars
<1>1. ASSUME now' \in Nat, action' \in ActionRow \/ action' = action,
             signatures' = signatures \/ \E w : signatures' = signatures \cup {w},
             requests' \in [Requests -> Request], IsFiniteSet(Counting')
      PROVE  Types' /\ (action # NoAction => action' # NoAction)
  <2>1. IsFiniteSet(signatures')
    BY <1>1, FS_AddElement DEF BInv, Types
  <2>2. \A row \in ActionRow : row # NoAction
    BY DEF ActionRow, NoAction, Statuses
  <2>3. overtaken' \in BOOLEAN
    BY DEF BInv, Types, Next, Tick, Propose, Approve, Abort, proposeAction,
       insertPendingAdminAction, SignProposal, CountProposal, approveAction,
       expireStalePendingAdminActions, getPendingAdminActionById, CheckAction, MarkExpired,
       UpdateStatus, getAdminActionSignature, insertAdminActionSignature,
       incrementActionSignatures, Reread, MarkExecuted, runAdminActionInternal,
       RevertToPending, historyVars
  <2>4. QED
    BY <1>1, <2>1, <2>2, <2>3 DEF BInv, Types
<1>2. now \in Nat /\ action \in ActionRow \cup {NoAction} /\ now + ActionTtl \in Nat
  BY MultiSigAssumption DEF BInv, Types
<1>3. /\ \A status \in Statuses : [action EXCEPT !.status = status] \in ActionRow
      /\ action # NoAction => [action EXCEPT !.collected = @ + 1] \in ActionRow
  BY <1>2 DEF ActionRow, NoAction, Statuses
<1>4. ASSUME NEW r \in Requests, NEW stage \in Stages,
             \/ Goto(r, stage)
             \/ \E w \in Wallets \cup {"none"}, seen \in Statuses \cup {"none"} :
                   requests' = [requests EXCEPT ![r] =
                                  [stage |-> stage, signer |-> w, seen |-> seen]]
      PROVE  requests' \in [Requests -> Request] /\ IsFiniteSet(Counting')
  BY <1>4, Moved DEF BInv
<1>5. CASE Tick
  <2>1. Counting' = Counting
    BY <1>5 DEF Tick, InFlight, Counting
  <2>2. QED
    BY <2>1, <1>1, <1>2, <1>5 DEF Tick, BInv, Types
<1>6. ASSUME NEW r \in Requests, Propose(r) \/ Approve(r) \/ Abort(r)
      PROVE  Types' /\ (action # NoAction => action' # NoAction)
  <2>1. CASE \E w \in AdminWallets : proposeAction(r, w)
    BY <2>1, <1>1, <1>2, <1>4, MultiSigAssumption DEF proposeAction
  <2>2. CASE insertPendingAdminAction(r)
    <3>1. action' \in ActionRow
      BY <2>2, <1>2 DEF insertPendingAdminAction, ActionRow, Statuses
    <3>2. QED
      BY <2>2, <3>1, <1>1, <1>2, <1>4 DEF insertPendingAdminAction
  <2>3. CASE SignProposal(r)
    BY <2>3, <1>1, <1>2, <1>4 DEF SignProposal
  <2>4. CASE CountProposal(r)
    <3>1. action # NoAction
      BY <2>4 DEF CountProposal, BInv, RowFirst, At, InFlight
    <3>2. QED
      BY <2>4, <3>1, <1>1, <1>2, <1>3, <1>4 DEF CountProposal
  <2>5. CASE \E w \in Wallets : approveAction(r, w)
    BY <2>5, <1>1, <1>2, <1>4 DEF approveAction
  <2>6. CASE expireStalePendingAdminActions(r)
    BY <2>6, <1>1, <1>2, <1>3, <1>4 DEF expireStalePendingAdminActions, Statuses
  <2>7. CASE getPendingAdminActionById(r)
    <3>1. requests' = [requests EXCEPT ![r] = [stage |-> "check", signer |-> signer(r),
                                               seen |-> action.status]]
      BY <2>7, RowRead DEF BInv
    <3>2. action.status \in Statuses
      <4>1. action # NoAction
        BY <2>7 DEF getPendingAdminActionById, BInv, RowFirst, At, InFlight
      <4>2. QED
        BY <4>1, <1>2 DEF ActionRow
    <3>3. signer(r) \in Wallets \cup {"none"}
      BY DEF BInv, Types, Request, signer
    <3>4. requests' \in [Requests -> Request] /\ IsFiniteSet(Counting')
      BY <3>1, <3>2, <3>3, <1>4
    <3>5. QED
      BY <2>7, <3>4, <1>1, <1>2 DEF getPendingAdminActionById
  <2>8. CASE CheckAction(r)
    BY <2>8, <1>1, <1>2, <1>4 DEF CheckAction
  <2>9. CASE \E status \in Statuses, next \in {"done", "run"} : UpdateStatus(r, status, next)
    BY <2>9, <1>1, <1>2, <1>3, <1>4 DEF UpdateStatus
  <2>10. CASE getAdminActionSignature(r)
    BY <2>10, <1>1, <1>2, <1>4 DEF getAdminActionSignature
  <2>11. CASE insertAdminActionSignature(r)
    BY <2>11, <1>1, <1>2, <1>4 DEF insertAdminActionSignature
  <2>12. CASE incrementActionSignatures(r)
    <3>1. action # NoAction
      BY <2>12 DEF incrementActionSignatures, BInv, RowFirst, At, InFlight
    <3>2. QED
      BY <2>12, <3>1, <1>1, <1>2, <1>3, <1>4 DEF incrementActionSignatures
  <2>13. CASE Reread(r)
    BY <2>13, <1>1, <1>2, <1>4 DEF Reread
  <2>14. CASE runAdminActionInternal(r)
    BY <2>14, <1>1, <1>2, <1>4 DEF runAdminActionInternal
  <2>15. CASE Abort(r)
    BY <2>15, <1>1, <1>2, <1>4 DEF Abort
  <2>16. QED
    BY <1>6, <2>1, <2>2, <2>3, <2>4, <2>5, <2>6, <2>7, <2>8, <2>9, <2>10, <2>11, <2>12,
       <2>13, <2>14, <2>15
       DEF Propose, Approve, MarkExpired, MarkExecuted, RevertToPending, Statuses
<1>7. QED
  BY <1>5, <1>6 DEF Next

(* Where each request is, and whose it is, after one of them has moved.    *)
LEMMA Others ==
    ASSUME BInv, NEW r \in Requests, Propose(r) \/ Approve(r) \/ Abort(r)
    PROVE  /\ \A q \in Requests \ {r} : requests'[q] = requests[q]
           /\ signer(r)' # signer(r) => At(r, "new")
<1>1. CASE getPendingAdminActionById(r)
  BY <1>1, RowRead DEF BInv, Types, signer
<1>2. CASE \E stage \in Stages : Goto(r, stage)
  BY <1>2 DEF Goto, BInv, Types, Request, signer
<1>3. CASE At(r, "new") /\ \E row : requests' = [requests EXCEPT ![r] = row]
  BY <1>3 DEF BInv, Types
<1>4. CASE Propose(r)
  BY <1>2, <1>3, <1>4 DEF Propose, proposeAction, insertPendingAdminAction, SignProposal,
     CountProposal, Stages, ProposeStages
<1>5. CASE Approve(r)
  <2>1. CASE \E w \in Wallets : approveAction(r, w)
    BY <1>3, <2>1 DEF approveAction
  <2>2. CASE CheckAction(r) \/ getAdminActionSignature(r) \/ insertAdminActionSignature(r)
             \/ Reread(r) \/ runAdminActionInternal(r)
    BY <1>2, <2>2 DEF CheckAction, getAdminActionSignature, insertAdminActionSignature,
       Reread, runAdminActionInternal, Stages, ApproveStages
  <2>3. CASE expireStalePendingAdminActions(r) \/ MarkExpired(r) \/ MarkExecuted(r)
             \/ incrementActionSignatures(r) \/ RevertToPending(r)
    BY <1>2, <2>3 DEF expireStalePendingAdminActions, MarkExpired, MarkExecuted, UpdateStatus,
       incrementActionSignatures, RevertToPending, Stages, ApproveStages
  <2>4. QED
    BY <1>1, <1>5, <2>1, <2>2, <2>3 DEF Approve
<1>6. CASE Abort(r)
  BY <1>2, <1>6 DEF Abort, Stages
<1>7. QED
  BY <1>4, <1>5, <1>6

(* The row stays, and no request is ahead of it.                           *)
LEMMA RowFirstKept ==
    ASSUME BInv, Next
    PROVE  RowFirst'
<1>1. CASE Tick
  BY <1>1 DEF Tick, dbVars, BInv, RowFirst, InFlight
<1>2. ASSUME NEW r \in Requests, Propose(r) \/ Approve(r) \/ Abort(r), action' = NoAction
      PROVE  signatures' = {} /\ InFlight(ApproveStages)' = {}
  <2>1. action = NoAction /\ signatures = {} /\ InFlight(ApproveStages) = {}
    BY <1>2, BaseKept DEF BInv, RowFirst, Next
  <2>2. ~ Approve(r) /\ requests[r].stage \notin ApproveStages
    <3>1. requests[r].stage \notin ApproveStages
      BY <2>1 DEF InFlight
    <3>2. QED
      BY <2>1, <3>1 DEF Approve, ApproveStages, At, approveAction, expireStalePendingAdminActions,
         getPendingAdminActionById, CheckAction, MarkExpired, getAdminActionSignature,
         insertAdminActionSignature, incrementActionSignatures, Reread, MarkExecuted,
         runAdminActionInternal, RevertToPending
  <2>3. ~ SignProposal(r)
    BY <2>1 DEF SignProposal, At, BInv, RowFirst, InFlight
  <2>4. signatures' = {}
    BY <1>2, <2>1, <2>2, <2>3 DEF Propose, Abort, proposeAction, insertPendingAdminAction,
       CountProposal, dbVars
  <2>5. requests'[r].stage \notin ApproveStages
    BY <1>2, <2>2, <2>3 DEF Propose, Abort, Goto, proposeAction, insertPendingAdminAction,
       CountProposal, ApproveStages, BInv, Types, Request
  <2>6. QED
    BY <1>2, <2>1, <2>4, <2>5, Others DEF InFlight
<1>3. ASSUME NEW r \in Requests, Propose(r) \/ Approve(r) \/ Abort(r), action' = NoAction
      PROVE  InFlight({"signProposal", "countProposal"})' = {}
  <2>1. action = NoAction
    BY <1>3, BaseKept DEF Next
  <2>2. InFlight({"signProposal", "countProposal"}) = {}
    BY <2>1 DEF BInv, RowFirst
  <2>3. requests'[r].stage \notin {"signProposal", "countProposal"}
    <3>1. ~ insertPendingAdminAction(r)
      BY <1>3 DEF insertPendingAdminAction, NoAction
    <3>2. ~ SignProposal(r)
      BY <2>2 DEF SignProposal, At, InFlight
    <3>3. CASE Approve(r)
      <4>1. action = NoAction /\ InFlight(ApproveStages) = {}
        BY <2>1 DEF BInv, RowFirst
      <4>2. QED
        BY <4>1, <3>3 DEF InFlight, Approve, ApproveStages, At, approveAction,
           expireStalePendingAdminActions, getPendingAdminActionById, CheckAction, MarkExpired,
           getAdminActionSignature, insertAdminActionSignature, incrementActionSignatures,
           Reread, MarkExecuted, runAdminActionInternal, RevertToPending
    <3>4. CASE Propose(r) \/ Abort(r)
      BY <3>1, <3>2, <3>4 DEF Propose, Abort, Goto, proposeAction, CountProposal, BInv, Types, Request
    <3>5. QED
      BY <1>3, <3>3, <3>4
  <2>4. QED
    BY <1>3, <2>2, <2>3, Others DEF InFlight
<1>4. QED
  BY <1>1, <1>2, <1>3 DEF Next, RowFirst

-----------------------------------------------------------------------------
(* Who is past the check of its wallet, and who has signed, is an admin.   *)
LEMMA SignersAreAdminsKept ==
    ASSUME BInv, SignersAreAdmins, Next
    PROVE  SignersAreAdmins'
<1> USE DEF AdminStages, ProposeStages, TriggerStages
<1>1. CASE Tick
  BY <1>1 DEF Tick, dbVars, SignersAreAdmins, InFlight, signer
<1>2. ASSUME NEW r \in Requests, Propose(r) \/ Approve(r) \/ Abort(r),
             requests'[r].stage \in AdminStages => requests'[r].signer \in AdminWallets,
             signatures' \subseteq signatures \cup {signer(r)},
             signatures' = signatures \/ requests[r].stage \in AdminStages
      PROVE  SignersAreAdmins'
  BY <1>2, Others DEF SignersAreAdmins, InFlight, signer
<1>3. ASSUME NEW r \in Requests, requests[r].stage \in AdminStages \/ signer(r) \in AdminWallets,
             \E stage \in Stages : Goto(r, stage)
      PROVE  requests'[r].signer \in AdminWallets
  BY <1>3 DEF BInv, Types, Request, Goto, SignersAreAdmins, InFlight, signer
<1>4. ASSUME NEW r \in Requests, Propose(r)
      PROVE  SignersAreAdmins'
  <2>1. CASE \E w \in AdminWallets : proposeAction(r, w)
    BY <1>2, <1>4, <2>1 DEF proposeAction, dbVars, BInv, Types
  <2>2. CASE insertPendingAdminAction(r) \/ SignProposal(r) \/ CountProposal(r)
    BY <1>2, <1>3, <1>4, <2>2
       DEF insertPendingAdminAction, SignProposal, CountProposal, At, Stages
  <2>3. QED
    BY <1>4, <2>1, <2>2 DEF Propose
<1>5. ASSUME NEW r \in Requests, Approve(r)
      PROVE  SignersAreAdmins'
  <2>1. CASE \E w \in Wallets : approveAction(r, w)
    BY <1>2, <1>5, <2>1 DEF approveAction, dbVars, BInv, Types
  <2>2. CASE getPendingAdminActionById(r)
    <3>1. requests'[r].stage = "check"
      BY <2>2, RowRead DEF BInv, Types
    <3>2. QED
      BY <1>2, <1>5, <2>2, <3>1 DEF getPendingAdminActionById, dbVars
  <2>3. CASE expireStalePendingAdminActions(r) \/ MarkExpired(r) \/ RevertToPending(r)
    <3>1. requests'[r].stage \in {"read", "done"}
      BY <2>3 DEF expireStalePendingAdminActions, MarkExpired, RevertToPending, UpdateStatus, Goto,
         BInv, Types, Request
    <3>2. QED
      BY <1>2, <1>5, <2>3, <3>1
         DEF expireStalePendingAdminActions, MarkExpired, RevertToPending, UpdateStatus
  <2>4. CASE CheckAction(r)
    <3>1. CASE signer(r) \in AdminWallets
      BY <1>2, <1>3, <1>5, <2>4, <3>1 DEF CheckAction, Stages, ApproveStages, dbVars
    <3>2. CASE signer(r) \notin AdminWallets
      <4>1. requests'[r].stage \in {"done", "expire"}
        BY <2>4, <3>2 DEF CheckAction, Goto, BInv, Types, Request
      <4>2. QED
        BY <1>2, <1>5, <2>4, <4>1 DEF CheckAction, dbVars
    <3>3. QED
      BY <3>1, <3>2
  <2>5. CASE getAdminActionSignature(r) \/ insertAdminActionSignature(r)
             \/ incrementActionSignatures(r) \/ Reread(r) \/ MarkExecuted(r)
             \/ runAdminActionInternal(r)
    <3>1. requests[r].stage \in AdminStages
      BY <2>5 DEF getAdminActionSignature, insertAdminActionSignature, incrementActionSignatures,
         Reread, MarkExecuted, runAdminActionInternal, At
    <3>2. \E stage \in Stages : Goto(r, stage)
      BY <2>5 DEF getAdminActionSignature, insertAdminActionSignature, incrementActionSignatures,
         Reread, MarkExecuted, UpdateStatus, runAdminActionInternal, Stages, ApproveStages
    <3>3. signatures' \subseteq signatures \cup {signer(r)}
      BY <2>5 DEF getAdminActionSignature, insertAdminActionSignature, incrementActionSignatures,
         Reread, MarkExecuted, UpdateStatus, runAdminActionInternal, dbVars
    <3>4. QED
      BY <1>2, <1>3, <1>5, <3>1, <3>2, <3>3
  <2>6. QED
    BY <1>5, <2>1, <2>2, <2>3, <2>4, <2>5 DEF Approve
<1>6. ASSUME NEW r \in Requests, Abort(r)
      PROVE  SignersAreAdmins'
  <2>1. requests'[r].stage = "done"
    BY <1>6 DEF Abort, Goto, BInv, Types, Request
  <2>2. QED
    BY <1>2, <1>6, <2>1 DEF Abort, dbVars
<1>7. QED
  BY <1>1, <1>4, <1>5, <1>6 DEF Next

(* Whoever reads a count that meets the threshold reads at most the        *)
(* signatures on file, and signatures are never taken back.                *)
LEMMA QuorumSeenKept ==
    ASSUME BInv, QuorumSeen, OnlyProposerCountsTwice, Next
    PROVE  QuorumSeen'
<1> DEFINE Runners == InFlight({"mark", "run"})
<1>1. Cardinality(signatures) \in Nat /\ Cardinality(signatures') \in Nat
  BY BaseKept, FS_CardinalityType DEF BInv, Types
<1>2. signatures \subseteq signatures'
  BY DEF Next, Tick, Propose, Approve, Abort, proposeAction, insertPendingAdminAction,
     SignProposal, CountProposal, approveAction, expireStalePendingAdminActions,
     getPendingAdminActionById, CheckAction, MarkExpired, UpdateStatus, getAdminActionSignature,
     insertAdminActionSignature, incrementActionSignatures, Reread, MarkExecuted,
     runAdminActionInternal, RevertToPending, dbVars
<1>3. /\ Cardinality(signatures) <= Cardinality(signatures')
      /\ DoubleCount \in Nat /\ DoubleCount' \in Nat /\ DoubleCount <= DoubleCount'
  <2>1. overtaken => overtaken'
    BY DEF Next, Tick, Propose, Approve, Abort, proposeAction, insertPendingAdminAction,
       SignProposal, CountProposal, approveAction, expireStalePendingAdminActions,
       getPendingAdminActionById, CheckAction, MarkExpired, UpdateStatus,
       getAdminActionSignature, insertAdminActionSignature, incrementActionSignatures, Reread,
       MarkExecuted, runAdminActionInternal, RevertToPending, historyVars
  <2>2. QED
    BY <1>2, <2>1, BaseKept, FS_Subset DEF BInv, Types, DoubleCount
<1>4. CASE Runners # {} \/ runs # <<>>
  BY <1>1, <1>3, <1>4, MultiSigAssumption DEF QuorumSeen
<1>5. CASE Runners = {} /\ runs = <<>>
  <2>1. runs' = <<>>
    BY <1>5 DEF Next, Tick, Propose, Approve, Abort, proposeAction, insertPendingAdminAction,
       SignProposal, CountProposal, approveAction, expireStalePendingAdminActions,
       getPendingAdminActionById, CheckAction, MarkExpired, UpdateStatus,
       getAdminActionSignature, insertAdminActionSignature, incrementActionSignatures, Reread,
       MarkExecuted, runAdminActionInternal, RevertToPending, historyVars, At, InFlight
  <2>2. ASSUME NEW r \in Requests, Reread(r), action.collected >= AdminThreshold
        PROVE  Cardinality(signatures) + DoubleCount >= AdminThreshold
    <3>1. action.collected \in Nat /\ Cardinality(Counting) \in Nat
      BY FS_CardinalityType DEF BInv, Types, ActionRow, NoAction
    <3>2. QED
      BY <2>2, <3>1, <1>1, <1>3, MultiSigAssumption DEF OnlyProposerCountsTwice, Counting
  <2>3. ASSUME NEW r \in Requests, Propose(r) \/ Approve(r) \/ Abort(r),
               requests'[r].stage \in {"mark", "run"}
        PROVE  Reread(r) /\ action.collected >= AdminThreshold
    <3>1. ~ MarkExecuted(r) /\ ~ runAdminActionInternal(r)
      BY <1>5 DEF MarkExecuted, runAdminActionInternal, At, InFlight
    <3>2. ~ getPendingAdminActionById(r)
      BY <2>3, RowRead DEF BInv, Types
    <3>3. CASE Propose(r) \/ Abort(r)
      BY <2>3, <3>3 DEF Propose, Abort, proposeAction, insertPendingAdminAction, SignProposal,
         CountProposal, Goto, BInv, Types, Request
    <3>4. CASE Approve(r)
      BY <2>3, <3>1, <3>2, <3>4, MultiSigAssumption
         DEF Approve, approveAction, expireStalePendingAdminActions, CheckAction, MarkExpired,
         UpdateStatus, getAdminActionSignature, insertAdminActionSignature,
         incrementActionSignatures, Reread, RevertToPending, Goto, BInv, Types, Request,
         ActionRow, NoAction
    <3>5. QED
      BY <2>3, <3>3, <3>4
  <2>4. ASSUME NEW r \in Requests, Propose(r) \/ Approve(r) \/ Abort(r), Runners' # {}
        PROVE  requests'[r].stage \in {"mark", "run"}
    BY <1>5, <2>4, Others DEF InFlight
  <2>5. CASE Tick
    BY <1>5, <2>1, <2>5 DEF Tick, InFlight, QuorumSeen
  <2>6. QED
    BY <2>1, <2>2, <2>3, <2>4, <2>5, <1>1, <1>3, MultiSigAssumption DEF Next, QuorumSeen
<1>6. QED
  BY <1>4, <1>5

(* What was never overtaken stays so until the proposal signs, which it    *)
(* does once.                                                              *)
LEMMA ProposalSignsOnceKept ==
    ASSUME BInv, ProposalSignsOnce, Next
    PROVE  ProposalSignsOnce'
<1> DEFINE Unsigned == {"insert", "signProposal"}
<1>1. action' = NoAction => action = NoAction
  BY BaseKept
<1>2. CASE Tick
  BY <1>1, <1>2 DEF Tick, historyVars, ProposalSignsOnce, InFlight
<1>3. ASSUME NEW r \in Requests, Propose(r) \/ Approve(r) \/ Abort(r),
             requests'[r].stage \in ProposeStages => requests[r].stage \in ProposeStages,
             requests'[r].stage \in Unsigned => requests[r].stage \in Unsigned,
             overtaken' = overtaken
      PROVE  ProposalSignsOnce'
  <2>1. /\ InFlight(ProposeStages)' \subseteq InFlight(ProposeStages)
        /\ InFlight(Unsigned)' \subseteq InFlight(Unsigned)
    BY <1>3, Others DEF InFlight
  <2>2. QED
    BY <1>1, <1>3, <2>1 DEF ProposalSignsOnce
<1>4. ASSUME NEW r \in Requests, NEW stage \in Stages, Goto(r, stage)
      PROVE  requests'[r].stage = stage
  BY <1>4 DEF Goto, BInv, Types, Request
<1>5. ASSUME NEW r \in Requests, Propose(r)
      PROVE  ProposalSignsOnce'
  <2> USE DEF ProposeStages, Stages
  <2>1. CASE \E w \in AdminWallets : proposeAction(r, w)
    <3>1. /\ InFlight(ProposeStages) = {} /\ action = NoAction /\ overtaken' = overtaken
      BY <2>1 DEF proposeAction, historyVars
    <3>2. InFlight(ProposeStages)' \subseteq {r}
      BY <1>5, <3>1, Others DEF InFlight
    <3>3. QED
      BY <3>1, <3>2 DEF ProposalSignsOnce
  <2>2. CASE insertPendingAdminAction(r) \/ CountProposal(r)
    BY <1>3, <1>4, <1>5, <2>2 DEF insertPendingAdminAction, CountProposal, At, historyVars
  <2>3. CASE SignProposal(r)
    <3>1. requests'[r].stage = "countProposal" /\ requests[r].stage = "signProposal"
      BY <1>4, <2>3 DEF SignProposal, At
    <3>2. \A q \in InFlight(ProposeStages)' : q = r
      BY <1>5, <3>1, Others DEF InFlight, ProposalSignsOnce
    <3>3. InFlight(Unsigned)' = {}
      BY <3>1, <3>2 DEF InFlight
    <3>4. action' # NoAction
      BY <2>3, <3>1 DEF SignProposal, BInv, RowFirst, InFlight
    <3>5. QED
      BY <3>2, <3>3, <3>4 DEF ProposalSignsOnce
  <2>4. QED
    BY <1>5, <2>1, <2>2, <2>3 DEF Propose
<1>6. ASSUME NEW r \in Requests, Approve(r)
      PROVE  ProposalSignsOnce'
  <2>1. overtaken' = overtaken
    BY <1>6 DEF Approve, approveAction, expireStalePendingAdminActions, getPendingAdminActionById,
       CheckAction, MarkExpired, UpdateStatus, getAdminActionSignature,
       insertAdminActionSignature, incrementActionSignatures, Reread, MarkExecuted,
       runAdminActionInternal, RevertToPending, historyVars
  <2>2. requests'[r].stage \notin ProposeStages
    <3>1. CASE \E w \in Wallets : approveAction(r, w)
      BY <3>1 DEF approveAction, BInv, Types, ProposeStages
    <3>2. CASE getPendingAdminActionById(r)
      BY <3>2, RowRead DEF BInv, Types, ProposeStages
    <3>3. CASE ~ (\E w \in Wallets : approveAction(r, w)) /\ ~ getPendingAdminActionById(r)
      <4>1. PICK stage \in ApproveStages \cup {"done"} : Goto(r, stage)
        BY <1>6, <3>3 DEF Approve, expireStalePendingAdminActions, CheckAction, MarkExpired,
           UpdateStatus, getAdminActionSignature, insertAdminActionSignature,
           incrementActionSignatures, Reread, MarkExecuted, runAdminActionInternal,
           RevertToPending, ApproveStages
      <4>2. QED
        BY <4>1, <1>4 DEF Stages, ApproveStages, ProposeStages
    <3>4. QED
      BY <3>1, <3>2, <3>3
  <2>3. QED
    BY <1>3, <1>6, <2>1, <2>2 DEF ProposeStages
<1>7. ASSUME NEW r \in Requests, Abort(r)
      PROVE  ProposalSignsOnce'
  BY <1>3, <1>4, <1>7 DEF Abort, historyVars, Stages, ProposeStages
<1>8. QED
  BY <1>2, <1>5, <1>6, <1>7 DEF Next

-----------------------------------------------------------------------------
LEMMA Starts == Init => IInv
<1> SUFFICES ASSUME Init PROVE IInv
  OBVIOUS
<1>1. \A S : "new" \notin S => InFlight(S) = {}
  BY DEF Init, InFlight
<1>2. Types
  <2>1. InFlight({"count", "countProposal"}) = {}
    BY <1>1
  <2>2. QED
    BY <2>1, FS_EmptySet DEF Init, Types, Counting, Request, Stages
<1>3. RowFirst
  BY <1>1 DEF Init, RowFirst, ApproveStages
<1>4. SignersAreAdmins /\ QuorumSeen /\ ProposalSignsOnce
  BY <1>1 DEF Init, SignersAreAdmins, QuorumSeen, ProposalSignsOnce, AdminStages, ProposeStages, TriggerStages
<1>5. OnlyProposerCountsTwice
  <2>1. InFlight({"count", "countProposal"}) = {} /\ signatures = {}
    BY <1>1 DEF Init
  <2>2. Cardinality({}) = 0 /\ action.collected = 0
    BY FS_EmptySet DEF Init, NoAction
  <2>3. QED
    BY <2>1, <2>2 DEF OnlyProposerCountsTwice, DoubleCount
<1>6. QED
  BY <1>2, <1>3, <1>4, <1>5 DEF IInv, BInv

LEMMA Invariant == Spec => []IInv
<1>1. IInv /\ [Next]_vars => IInv'
  <2> SUFFICES ASSUME IInv, [Next]_vars PROVE IInv'
    OBVIOUS
  <2>1. CASE Next
    <3>1. BInv'
      BY <2>1, BaseKept, RowFirstKept DEF IInv, BInv
    <3>2. OnlyProposerCountsTwice'
      BY <2>1, <3>1, OnlyProposerCountsTwiceKept DEF BInv
    <3>3. QED
      BY <2>1, <3>1, <3>2, SignersAreAdminsKept, QuorumSeenKept, ProposalSignsOnceKept DEF IInv
  <2>2. CASE UNCHANGED vars
    BY <2>2 DEF vars, IInv, BInv, Types, RowFirst, SignersAreAdmins, QuorumSeen,
       ProposalSignsOnce, OnlyProposerCountsTwice, DoubleCount, Counting, InFlight, signer
  <2>3. QED
    BY <2>1, <2>2
<1>2. QED
  BY <1>1, Starts, PTL DEF Spec

(* The counter runs ahead of the signatures on file by at most one, and    *)
(* only after an approval overtook its own proposal                        *)
(* (incrementActionSignatures), for any number of requests and wallets.    *)
THEOREM CountsAreSigned == Spec => []OnlyProposerCountsTwice
<1>1. IInv => OnlyProposerCountsTwice
  BY DEF IInv
<1>2. QED
  BY <1>1, Invariant, PTL

(* Every call of the chain (runAdminActionInternal) has the signatures of  *)
(* as many admins as the threshold asks on file, or one fewer when the     *)
(* proposer was counted twice.                                             *)
THEOREM RunsAreApproved == Spec => []RunsNearQuorum
<1>1. IInv => RunsNearQuorum
  BY DEF IInv, QuorumSeen, SignersAreAdmins, RunsNearQuorum
<1>2. QED
  BY <1>1, Invariant, PTL

-----------------------------------------------------------------------------
LEMMA SequencesKept ==
    ASSUME NEW S, NEW T, S \subseteq T, NEW s \in Seq(S)
    PROVE  s \in Seq(T)
<1>1. s \in [1..Len(s) -> T] /\ Len(s) \in Nat
  OBVIOUS
<1>2. QED
  BY <1>1, SeqDef

LEMMA SignatureIsSpentKept ==
    ASSUME BInv, SignatureIsSpent, Next
    PROVE  SignatureIsSpent'
<1>1. CASE Tick
  BY <1>1 DEF Tick, dbVars, historyVars, SignatureIsSpent, InFlight, signer
<1>2. ASSUME NEW r \in Requests, Propose(r) \/ Approve(r) \/ Abort(r),
             signatures' = signatures \/ signatures' = signatures \cup {signer(r)}, runs' = runs,
             requests'[r].stage \in TriggerStages => requests[r].stage \in TriggerStages,
             requests'[r].signer = requests[r].signer \/ requests[r].stage \notin TriggerStages
      PROVE  SignatureIsSpent'
  <2>1. \A p \in InFlight(TriggerStages)' :
           p \in InFlight(TriggerStages) /\ signer(p)' = signer(p)
    BY <1>2, Others DEF InFlight, signer
  <2>2. signatures \subseteq signatures' /\ runs' \in Seq(signatures')
    BY <1>2, SequencesKept DEF SignatureIsSpent
  <2>3. QED
    BY <1>2, <2>1, <2>2 DEF SignatureIsSpent
<1>3. ASSUME NEW r \in Requests, NEW stage \in Stages, Goto(r, stage)
      PROVE  requests'[r].stage = stage /\ requests'[r].signer = requests[r].signer
  BY <1>3 DEF Goto, BInv, Types, Request
<1>4. ASSUME NEW r \in Requests, insertAdminActionSignature(r)
      PROVE  SignatureIsSpent'
  <2>1. \A q \in Requests : signer(q)' = signer(q)
    BY <1>3, <1>4, Others DEF insertAdminActionSignature, Approve, signer, Stages, ApproveStages
  <2>2. CASE signer(r) \in signatures
    BY <1>2, <1>3, <1>4, <2>2 DEF insertAdminActionSignature, Approve, Stages, TriggerStages, historyVars
  <2>3. CASE signer(r) \notin signatures
    <3>1. InFlight(TriggerStages)' = InFlight(TriggerStages) \cup {r}
      BY <1>3, <1>4, <2>3, Others
         DEF insertAdminActionSignature, Approve, InFlight, TriggerStages, Stages, ApproveStages
    <3>2. /\ \A p \in InFlight(TriggerStages) : signer(p) # signer(r)
          /\ \A i \in 1..Len(runs) : runs[i] # signer(r)
      BY <2>3 DEF SignatureIsSpent
    <3>3. runs' = runs /\ signatures' = signatures \cup {signer(r)} /\ runs \in Seq(signatures')
      BY <1>4, SequencesKept DEF insertAdminActionSignature, historyVars, SignatureIsSpent
    <3>4. QED
      <4>1. \A p \in InFlight(TriggerStages)' : p \in Requests
        BY DEF InFlight
      <4>2. QED
        BY <2>1, <3>1, <3>2, <3>3, <4>1 DEF SignatureIsSpent
  <2>4. QED
    BY <2>2, <2>3
<1>5. ASSUME NEW r \in Requests, runAdminActionInternal(r)
      PROVE  SignatureIsSpent'
  <2>1. /\ signer(r) \in signatures /\ r \in InFlight(TriggerStages)
        /\ \A i \in 1..Len(runs) : runs[i] # signer(r)
    BY <1>5 DEF runAdminActionInternal, At, InFlight, TriggerStages, SignatureIsSpent
  <2>2. /\ runs' = Append(runs, signer(r)) /\ signatures' = signatures
        /\ requests'[r].stage \notin TriggerStages
    BY <1>5, <1>3 DEF runAdminActionInternal, dbVars, TriggerStages, Stages, ApproveStages
  <2>3. \A p \in InFlight(TriggerStages)' :
           p \in InFlight(TriggerStages) \ {r} /\ signer(p)' = signer(p)
    BY <1>5, <2>2, Others DEF InFlight, signer, Approve
  <2>4. /\ runs \in Seq(signatures) /\ runs' \in Seq(signatures') /\ Len(runs') = Len(runs) + 1
        /\ \A i \in 1..Len(runs) : runs'[i] = runs[i]
        /\ runs'[Len(runs) + 1] = signer(r)
    BY <2>1, <2>2 DEF SignatureIsSpent
  <2>5. \A i \in 1..Len(runs') : i \in 1..Len(runs) \/ i = Len(runs) + 1
    BY <2>4
  <2>6. \A p \in InFlight(TriggerStages)' :
           /\ signer(p)' \in signatures'
           /\ \A i \in 1..Len(runs') : runs'[i] # signer(p)'
    BY <2>1, <2>2, <2>3, <2>4, <2>5 DEF SignatureIsSpent
  <2>7. \A i, j \in 1..Len(runs') : runs'[i] = runs'[j] => i = j
    BY <2>1, <2>4, <2>5 DEF SignatureIsSpent
  <2>8. QED
    BY <2>3, <2>4, <2>6, <2>7 DEF SignatureIsSpent
<1>6. ASSUME NEW r \in Requests, Propose(r) \/ Abort(r)
      PROVE  SignatureIsSpent'
  <2>1. CASE \E w \in AdminWallets : proposeAction(r, w)
    BY <1>2, <1>6, <2>1 DEF proposeAction, At, dbVars, historyVars, BInv, Types, TriggerStages
  <2>2. CASE ~ \E w \in AdminWallets : proposeAction(r, w)
    BY <1>2, <1>3, <1>6, <2>2 DEF Propose, Abort, insertPendingAdminAction, SignProposal, CountProposal,
       dbVars, historyVars, Stages, ProposeStages, TriggerStages
  <2>3. QED
    BY <2>1, <2>2
<1>7. ASSUME NEW r \in Requests, Approve(r)
      PROVE  SignatureIsSpent'
  <2> USE DEF Stages, ApproveStages, TriggerStages, dbVars, historyVars
  <2>1. CASE \E w \in Wallets : approveAction(r, w)
    BY <1>2, <1>7, <2>1 DEF approveAction, At, BInv, Types
  <2>2. CASE getPendingAdminActionById(r)
    <3>1. requests'[r].stage = "check" /\ requests'[r].signer = requests[r].signer
      BY <2>2, RowRead DEF BInv, Types, signer
    <3>2. QED
      BY <1>2, <1>7, <2>2, <3>1 DEF getPendingAdminActionById
  <2>3. CASE expireStalePendingAdminActions(r) \/ CheckAction(r) \/ MarkExpired(r)
             \/ getAdminActionSignature(r) \/ RevertToPending(r)
    BY <1>2, <1>3, <1>7, <2>3 DEF expireStalePendingAdminActions, CheckAction, MarkExpired, UpdateStatus,
       getAdminActionSignature, RevertToPending
  <2>4. CASE incrementActionSignatures(r) \/ Reread(r) \/ MarkExecuted(r)
    BY <1>2, <1>3, <1>7, <2>4 DEF incrementActionSignatures, Reread, MarkExecuted, UpdateStatus, At
  <2>5. QED
    BY <1>4, <1>5, <1>7, <2>1, <2>2, <2>3, <2>4 DEF Approve
<1>8. QED
  BY <1>1, <1>6, <1>7 DEF Next

(* Retries, double clicks and crashes of one signer's requests never let   *)
(* it call the chain twice (approveAction), whoever proposed.              *)
THEOREM OneRun == Spec => []OneRunPerSigner
<1> DEFINE RInv == BInv /\ SignatureIsSpent
<1>1. Init => RInv
  <2> SUFFICES ASSUME Init PROVE SignatureIsSpent
    BY Starts DEF IInv
  <2>1. InFlight(TriggerStages) = {} /\ runs = <<>>
    BY DEF Init, InFlight, TriggerStages
  <2>2. QED
    BY <2>1 DEF SignatureIsSpent
<1>2. RInv /\ [Next]_vars => RInv'
  <2> SUFFICES ASSUME RInv, [Next]_vars PROVE RInv'
    OBVIOUS
  <2>1. CASE Next
    BY <2>1, BaseKept, RowFirstKept, SignatureIsSpentKept DEF BInv
  <2>2. CASE UNCHANGED vars
    BY <2>2 DEF vars, BInv, Types, RowFirst, SignatureIsSpent, Counting, InFlight, signer
  <2>3. QED
    BY <2>1, <2>2
<1>3. RInv => OneRunPerSigner
  BY DEF SignatureIsSpent, OneRunPerSigner, IsInjective
<1>4. QED
  BY <1>1, <1>2, <1>3, PTL DEF Spec

-----------------------------------------------------------------------------
(* Reindexing and replay, for every chain, page size, batch size, number   *)
(* of polls and of jobs.                                                   *)

(* The polls, the jobs and what has been read so far.                      *)
PollState == [step : {"idle", "asking", "insert"}, from : Nat, todo : SUBSET Events, last : Nat]
JobState ==
    [status : {"idle", "running", "complete", "cancelled", "error"},
     step : {"none", "ask", "pause"}, from : Nat, to : Nat, next : Nat, end : Nat,
     catchup : BOOLEAN, processed : Nat, asked : BOOLEAN, late : Nat, missed : BOOLEAN,
     ahead : BOOLEAN]

BackfillTypes ==
    /\ closed \in Nat /\ cursor \in Nat /\ rows \subseteq Events /\ hashed \subseteq Events
    /\ polls \in [Polls -> PollState] /\ job \in [Jobs -> JobState]
    /\ cancelFlag \in BOOLEAN /\ started \in Nat /\ faults \in Nat /\ disturbed \in BOOLEAN

(* A job that runs has processed what lies before its next batch.          *)
JobFits(j) ==
    /\ j.status = "running" <=> j.step # "none"
    /\ j.from + j.processed <= j.to + 1
    /\ j.step # "none" => j.next = j.from + j.processed /\ j.next <= j.to
    /\ j.step = "ask" => j.next <= j.end /\ j.end <= j.to
JobsFit == \A k \in Jobs : JobFits(job[k])

(* The flag is up for the reindex that was asked to stop; a batch it       *)
(* inserts after that is followed by a look at the flag.                   *)
FlagFits(k) ==
    /\ job[k].asked => k = "reindex"
    /\ job[k].late <= 1
    /\ job[k].late = 1 => job[k].asked /\ job[k].step # "ask"
    /\ job[k].status = "cancelled" => job[k].asked
FlagsFit ==
    /\ \A k \in Jobs : FlagFits(k)
    /\ Running("reindex") => (cancelFlag <=> job["reindex"].asked)

(* Nothing is missing below what polls and jobs started from, nor, but for *)
(* what a poll is about to insert, below the last ledger of its page.      *)
PollBacked(p) ==
    /\ polls[p].step = "asking" => Within(1, polls[p].from - 1) \subseteq rows
    /\ polls[p].step = "insert" => Within(1, polls[p].last - 1) \ polls[p].todo \subseteq rows
JobBacked(k) ==
    Running(k) /\ ~job[k].ahead => Within(1, job[k].from - 1) \subseteq rows
TableBacked ==
    ~disturbed =>
        /\ Within(1, From - 1) \subseteq rows
        /\ \A p \in Polls : PollBacked(p)
        /\ \A k \in Jobs : JobBacked(k)

BackfillInv == BackfillTypes /\ JobsFit /\ ProgressIsTrue

-----------------------------------------------------------------------------
LEMMA BackfillConstants ==
    /\ Tip \in Nat \ {0} /\ Events = 1..Len(Chain) /\ Len(Chain) \in Nat
    /\ \A e \in Events : Ledger(e) \in 1..Tip
    /\ \A d, e \in Events : d <= e => Ledger(d) <= Ledger(e)
    /\ FinalityMargin \in Nat /\ PageSize \in Nat \ {0}
    /\ BatchSize \in Nat \ {0} /\ CatchupBatchSize \in Nat \ {0}
    /\ CatchupThreshold \in Nat /\ MaxJobs \in Nat /\ MaxFaults \in Nat
<1>1. Chain \in Seq(1..Tip) /\ Tip \in Nat \ {0}
  BY BackfillAssumption
<1>2. Events = 1..Len(Chain) /\ Len(Chain) \in Nat
  BY <1>1 DEF Events
<1>3. \A e \in Events : Ledger(e) \in 1..Tip
  BY <1>1, <1>2 DEF Ledger
<1>4. /\ PageSize \in Nat \ {0} /\ BatchSize \in Nat \ {0} /\ CatchupBatchSize \in Nat \ {0}
      /\ CatchupThreshold \in Nat /\ MaxJobs \in Nat /\ MaxFaults \in Nat
  <2>1. /\ {PageSize, BatchSize, CatchupBatchSize} \subseteq Nat \ {0}
        /\ {CatchupThreshold, MaxJobs, MaxFaults} \subseteq Nat
    BY BackfillAssumption
  <2>2. QED
    BY <2>1
<1>5. /\ FinalityMargin \in Nat
      /\ \A d, e \in Events : d <= e => Ledger(d) <= Ledger(e)
  BY BackfillAssumption
<1>6. QED
  BY <1>1, <1>2, <1>3, <1>4, <1>5

(* The least and the greatest of some numbers.                             *)
LEMMA LeastIsThere ==
    ASSUME NEW S, S \subseteq Nat, S # {}
    PROVE  Min(S) \in S /\ \A i \in S : Min(S) <= i
<1>1. PICK i \in S : \A j \in S : <<j, i>> \notin OpToRel(<, Nat)
  BY NatLessThanWellFounded, WFMin
<1>2. \A j \in S : ~(j < i)
  BY <1>1 DEF OpToRel
<1>3. \A j \in S : i <= j
  BY <1>2
<1>4. Min(S) = CHOOSE least \in S : \A j \in S : least <= j
  BY DEF Min
<1>5. QED
  BY <1>3, <1>4

LEMMA GreatestIsThere ==
    ASSUME NEW n \in Nat, NEW S, S \subseteq 0..n, S # {}
    PROVE  Max(S) \in S /\ \A i \in S : i <= Max(S)
<1> DEFINE Below == {m \in 0..n : n - m \in S}
<1>1. Below \subseteq Nat /\ Below # {}
  <2>1. PICK i \in S : TRUE
    OBVIOUS
  <2>2. i \in 0..n /\ n - (n - i) = i
    BY <2>1
  <2>3. n - i \in Below
    BY <2>1, <2>2
  <2>4. Below \subseteq Nat
    OBVIOUS
  <2> HIDE DEF Below
  <2>5. QED
    BY <2>3, <2>4
<1> DEFINE m == Min(Below)
<1>2. m \in Below /\ \A i \in Below : m <= i
  <2> HIDE DEF Below
  <2>1. QED
    BY <1>1, LeastIsThere
<1> HIDE DEF m
<1>3. n - m \in S
  BY <1>2
<1>4. ASSUME NEW i \in S PROVE n - m >= i
  <2>1. i \in 0..n /\ n - (n - i) = i
    OBVIOUS
  <2>2. n - i \in Below
    BY <2>1
  <2>3. m <= n - i
    BY <1>2, <2>2
  <2>4. QED
    BY <1>2, <2>1, <2>3
<1>5. \E x \in S : \A y \in S : x >= y
  BY <1>3, <1>4
<1>6. Max(S) \in S /\ \A i \in S : Max(S) >= i
  BY <1>5 DEF Max
<1>7. QED
  BY <1>6

LEMMA LastOf ==
    ASSUME NEW page, page \subseteq Events, page # {}
    PROVE  Max(page) \in page /\ \A e \in page : e <= Max(page) /\ Ledger(e) <= Ledger(Max(page))
<1>1. Len(Chain) \in Nat /\ page \subseteq 0..Len(Chain)
  BY BackfillConstants
<1>2. Max(page) \in page /\ \A e \in page : e <= Max(page)
  BY <1>1, GreatestIsThere
<1>3. QED
  BY <1>2, BackfillConstants

(* A page begins with the first event asked for and leaves nothing out     *)
(* before its last; one that is not full is all there is.                  *)
LEMMA PageContents ==
    ASSUME NEW from \in Nat, closed \in Nat
    PROVE  /\ Page(from) \subseteq Within(from, closed)
           /\ \A e \in Page(from), d \in Events : d <= e /\ from <= Ledger(d) => d \in Page(from)
           /\ Cardinality(Page(from)) # PageSize => Page(from) = Within(from, closed)
<1> DEFINE available == Within(from, closed)
           UpTo(e) == {d \in available : d <= e}
           page == Page(from)
<1>1. /\ page = {e \in available : Cardinality(UpTo(e)) <= PageSize}
      /\ available \subseteq Events
      /\ \A e \in Events : e \in available <=> (from <= Ledger(e) /\ Ledger(e) <= closed)
  BY DEF Page, Within
<1>2. \A e \in Events : e \in Nat /\ Ledger(e) \in Nat
  BY BackfillConstants
<1>3. IsFiniteSet(available)
  <2>1. IsFiniteSet(Events)
    BY BackfillConstants, FS_Interval
  <2>2. QED
    BY <1>1, <2>1, FS_Subset
<1>4. \A e : IsFiniteSet(UpTo(e)) /\ Cardinality(UpTo(e)) \in Nat
  BY <1>3, FS_Subset, FS_CardinalityType
<1>5. ASSUME NEW e \in page, NEW d \in Events, d <= e, from <= Ledger(d)
      PROVE  d \in page
  <2>1. e \in available /\ Cardinality(UpTo(e)) <= PageSize
    BY <1>1
  <2>2. d \in available
    BY <1>1, <1>2, <1>5, <2>1, BackfillConstants
  <2>3. UpTo(d) \subseteq UpTo(e)
    BY <1>1, <1>2, <1>5, <2>1
  <2>4. Cardinality(UpTo(d)) <= Cardinality(UpTo(e))
    <3> HIDE DEF UpTo
    <3>1. QED
      BY <2>3, <1>4, FS_Subset
  <2>5. Cardinality(UpTo(d)) <= PageSize
    <3>1. PageSize \in Nat /\ Cardinality(UpTo(d)) \in Nat /\ Cardinality(UpTo(e)) \in Nat
      BY <1>4, BackfillConstants
    <3> HIDE DEF UpTo
    <3>2. QED
      BY <2>1, <2>4, <3>1
  <2>6. QED
    BY <1>1, <2>2, <2>5
<1>6. ASSUME page # available
      PROVE  Cardinality(page) = PageSize
  <2> DEFINE left == available \ page
             e == Min(left)
  <2>1. page \subseteq available /\ left # {} /\ left \subseteq Nat
    BY <1>1, <1>2, <1>6
  <2>2. e \in left /\ \A d \in left : e <= d
    <3> HIDE DEF left
    <3>1. QED
      BY <2>1, LeastIsThere
  <2> HIDE DEF e
  <2>3. UpTo(e) = page \cup {e}
    <3>1. ASSUME NEW d \in page
          PROVE  d \in UpTo(e)
      <4>1. d \in available /\ e \in available /\ e \notin page
        BY <2>1, <2>2
      <4>2. ~(e <= d)
        BY <1>1, <1>5, <4>1
      <4>3. QED
        BY <1>1, <1>2, <4>1, <4>2
    <3>2. ASSUME NEW d \in UpTo(e), d # e
          PROVE  d \in page
      <4>1. d \in available /\ d < e
        BY <1>1, <1>2, <2>2, <3>2
      <4>2. d \notin left
        BY <1>1, <1>2, <2>2, <4>1
      <4>3. QED
        BY <4>1, <4>2
    <3>3. e \in UpTo(e)
      BY <1>1, <1>2, <2>2
    <3>4. QED
      BY <3>1, <3>2, <3>3
  <2>4. IsFiniteSet(page) /\ Cardinality(page) \in Nat
    BY <1>3, <2>1, FS_Subset, FS_CardinalityType
  <2>5. Cardinality(UpTo(e)) = Cardinality(page) + 1
    BY <2>2, <2>3, <2>4, FS_AddElement
  <2>6. ~(Cardinality(UpTo(e)) <= PageSize)
    BY <1>1, <2>2
  <2>7. Cardinality(page) >= PageSize
    BY <2>4, <2>5, <2>6, BackfillConstants
  <2>8. page # {}
    BY <2>4, <2>7, FS_EmptySet, BackfillConstants
  <2>9. PICK last \in page : \A d \in page : d <= last
    BY <1>1, <2>1, <2>8, LastOf
  <2>10. page \subseteq UpTo(last)
    BY <1>1, <2>9
  <2>11. Cardinality(page) <= Cardinality(UpTo(last)) /\ Cardinality(UpTo(last)) <= PageSize
    <3>1. Cardinality(UpTo(last)) <= PageSize
      BY <1>1, <2>9
    <3> HIDE DEF UpTo, page
    <3>2. QED
      BY <1>4, <2>10, <3>1, FS_Subset
  <2>12. PageSize \in Nat /\ Cardinality(UpTo(last)) \in Nat
    BY <1>4, BackfillConstants
  <2> HIDE DEF UpTo, page
  <2>13. QED
    BY <2>4, <2>7, <2>11, <2>12
<1>7. QED
  BY <1>1, <1>5, <1>6

-----------------------------------------------------------------------------
(* What stays when a job goes on, pauses or ends.                          *)
Counts(j) == <<j.from, j.to, j.processed, j.asked, j.late, j.missed>>

(* The next batch lies within the range.                                   *)
LEMMA BatchIsInRange ==
    ASSUME NEW k \in Jobs, NEW j \in JobState, j.next <= j.to
    PROVE  LET a == AskBatch(k, j)
           IN  /\ a \in JobState /\ Counts(a) = Counts(j)
               /\ a.status = j.status /\ a.ahead = j.ahead /\ a.step = "ask"
               /\ a.next = j.next /\ a.next <= a.end /\ a.end <= a.to
<1> DEFINE size == IF Catchup(k, j) THEN CatchupBatchSize ELSE BatchSize
           last == j.next + size - 1
<1>1. size \in Nat \ {0}
  BY BackfillConstants
<1>2. j.next \in Nat /\ j.to \in Nat
  BY DEF JobState
<1>3. Catchup(k, j) \in BOOLEAN
  BY DEF Catchup
<1> HIDE DEF size
<1>4. last \in Nat /\ j.next <= last
  BY <1>1, <1>2
<1> HIDE DEF last
<1>5. Min({last, j.to}) \in Nat /\ j.next <= Min({last, j.to}) /\ Min({last, j.to}) <= j.to
  <2>1. Min({last, j.to}) \in {last, j.to} /\ \A i \in {last, j.to} : Min({last, j.to}) <= i
    BY <1>2, <1>4, LeastIsThere
  <2>2. QED
    BY <1>2, <1>4, <2>1
<1>6. AskBatch(k, j) = [j EXCEPT !.step = "ask", !.catchup = Catchup(k, j),
                                 !.end = Min({last, j.to})]
  BY DEF AskBatch, size, last
<1>7. QED
  BY <1>3, <1>5, <1>6 DEF JobState, Counts

LEMMA EndKeepsCounts ==
    ASSUME NEW j \in JobState, NEW status \in {"complete", "cancelled", "error"}
    PROVE  /\ End(j, status) \in JobState /\ Counts(End(j, status)) = Counts(j)
           /\ End(j, status).status = status /\ End(j, status).step = "none"
BY DEF End, JobState, Counts

(* A job goes on to its next batch or pauses, or it ends: at the end of    *)
(* its range, or a reindex that finds the flag up.                         *)
GoesOn(k, j, a) ==
    \/ a.status = "complete" /\ a.step = "none" /\ j.next > j.to
    \/ /\ a.status = "cancelled" /\ a.step = "none" /\ k = "reindex" /\ cancelFlag
       /\ j.next <= j.to
    \/ /\ a.status = j.status /\ a.next = j.next /\ a.ahead = j.ahead /\ j.next <= j.to
       /\ \/ a.step = "pause"
          \/ /\ a.step = "ask" /\ ~(k = "reindex" /\ cancelFlag)
             /\ a.next <= a.end /\ a.end <= a.to

LEMMA AfterBatchGoesOn ==
    ASSUME NEW k \in Jobs, NEW j \in JobState
    PROVE  /\ AfterBatch(k, j) \in JobState /\ Counts(AfterBatch(k, j)) = Counts(j)
           /\ GoesOn(k, j, AfterBatch(k, j))
<1>1. j.next \in Nat /\ j.to \in Nat
  BY DEF JobState
<1>2. CASE j.next > j.to
  <2>1. AfterBatch(k, j) = End(j, "complete")
    BY <1>1, <1>2 DEF AfterBatch
  <2>2. QED
    BY <1>2, <2>1, EndKeepsCounts DEF GoesOn
<1>3. CASE j.next <= j.to /\ (k = "replay" \/ ~j.catchup)
  <2>1. AfterBatch(k, j) = [j EXCEPT !.step = "pause"]
    BY <1>1, <1>3 DEF AfterBatch
  <2>2. QED
    BY <1>3, <2>1 DEF GoesOn, JobState, Counts
<1>4. CASE j.next <= j.to /\ ~(k = "replay" \/ ~j.catchup)
  <2>1. AfterBatch(k, j) = IF cancelFlag THEN End(j, "cancelled") ELSE AskBatch(k, j)
    BY <1>1, <1>4 DEF AfterBatch
  <2>2. k = "reindex"
    BY <1>4 DEF Jobs
  <2>3. CASE cancelFlag
    BY <1>4, <2>1, <2>2, <2>3, EndKeepsCounts DEF GoesOn
  <2>4. CASE ~cancelFlag
    BY <1>4, <2>1, <2>4, BatchIsInRange DEF GoesOn
  <2>5. QED
    BY <2>3, <2>4
<1>5. QED
  BY <1>1, <1>2, <1>3, <1>4

LEMMA PauseGoesOn ==
    ASSUME NEW k \in Jobs, job \in [Jobs -> JobState], JobFits(job[k]), PauseEnds(k)
    PROVE  \E a \in JobState :
              /\ job' = [job EXCEPT ![k] = a]
              /\ Counts(a) = Counts(job[k]) /\ GoesOn(k, job[k], a) /\ a.step # "pause"
<1>1. job[k] \in JobState /\ job[k].next <= job[k].to
  BY DEF PauseEnds, JobFits
<1>2. CASE k = "reindex" /\ cancelFlag
  <2>1. job' = [job EXCEPT ![k] = End(job[k], "cancelled")]
    BY <1>2 DEF PauseEnds
  <2>2. QED
    BY <1>1, <1>2, <2>1, EndKeepsCounts DEF GoesOn
<1>3. CASE ~(k = "reindex" /\ cancelFlag)
  <2>1. job' = [job EXCEPT ![k] = AskBatch(k, job[k])]
    BY <1>3 DEF PauseEnds
  <2>2. QED
    BY <1>1, <1>3, <2>1, BatchIsInRange DEF GoesOn
<1>4. QED
  BY <1>2, <1>3

(* A batch is counted, whether or not it was received whole.               *)
LEMMA BatchIsCounted ==
    ASSUME BackfillInv, NEW k \in Jobs, NEW received, NEW missed \in BOOLEAN,
           job[k].step = "ask", InsertBatch(k, received, missed)
    PROVE  \E j \in JobState, a \in JobState :
              /\ job' = [job EXCEPT ![k] = a] /\ rows' = rows \cup received /\ hashed' = hashed
              /\ j.from = job[k].from /\ j.to = job[k].to /\ j.next = job[k].end + 1
              /\ j.processed = job[k].end - job[k].from + 1
              /\ j.asked = job[k].asked /\ j.late = (IF job[k].asked THEN job[k].late + 1
                                                                    ELSE job[k].late)
              /\ (j.missed <=> job[k].missed \/ missed)
              /\ j.status = "running" /\ j.ahead = job[k].ahead
              /\ Counts(a) = Counts(j) /\ GoesOn(k, j, a)
              /\ cursor' = IF k = "reindex" /\ a.status = "complete" THEN job[k].to + 1
                                                                    ELSE cursor
              /\ disturbed' \in BOOLEAN
              /\ disturbed' <=> \/ disturbed
                               \/ /\ k = "reindex" /\ a.status = "complete"
                                  /\ a.missed \/ job[k].ahead
<1> DEFINE j == [job[k] EXCEPT !.next = job[k].end + 1,
                               !.processed = job[k].end - job[k].from + 1,
                               !.missed = @ \/ missed,
                               !.late = IF job[k].asked THEN @ + 1 ELSE @]
           a == AfterBatch(k, j)
<1>1. /\ job[k] \in JobState /\ job[k].status = "running"
      /\ job[k].from <= job[k].end /\ job[k].end \in Nat
  BY DEF BackfillInv, BackfillTypes, JobsFit, JobFits, JobState
<1>2. job[k].end - job[k].from + 1 \in Nat
  BY <1>1 DEF JobState
<1>3. /\ j \in JobState
      /\ j.from = job[k].from /\ j.to = job[k].to /\ j.next = job[k].end + 1
      /\ j.processed = job[k].end - job[k].from + 1
      /\ j.asked = job[k].asked
      /\ j.late = (IF job[k].asked THEN job[k].late + 1 ELSE job[k].late)
      /\ (j.missed <=> job[k].missed \/ missed)
      /\ j.status = "running" /\ j.ahead = job[k].ahead
  <2>1. /\ j.from = job[k].from /\ j.to = job[k].to /\ j.next = job[k].end + 1
        /\ j.processed = job[k].end - job[k].from + 1
        /\ j.asked = job[k].asked
        /\ j.late = (IF job[k].asked THEN job[k].late + 1 ELSE job[k].late)
        /\ j.status = "running" /\ j.ahead = job[k].ahead
    BY <1>1 DEF JobState
  <2>2. j.missed = (job[k].missed \/ missed)
    BY <1>1 DEF JobState
  <2>3. j \in JobState
    <3> DEFINE next == job[k].end + 1
               processed == job[k].end - job[k].from + 1
               gaps == job[k].missed \/ missed
               late == IF job[k].asked THEN job[k].late + 1 ELSE job[k].late
    <3>1. next \in Nat /\ processed \in Nat /\ gaps \in BOOLEAN /\ late \in Nat
      BY <1>1, <1>2 DEF JobState
    <3>2. j = [job[k] EXCEPT !.next = next, !.processed = processed, !.missed = gaps,
                             !.late = late]
      OBVIOUS
    <3> HIDE DEF next, processed, gaps, late, j
    <3>3. QED
      BY <1>1, <3>1, <3>2 DEF JobState
  <2> HIDE DEF j
  <2>4. QED
    BY <2>1, <2>2, <2>3
<1>4. /\ job' = [job EXCEPT ![k] = a] /\ rows' = rows \cup received /\ hashed' = hashed
      /\ cursor' = IF k = "reindex" /\ a.status = "complete" THEN job[k].to + 1 ELSE cursor
      /\ disturbed' \in BOOLEAN
      /\ disturbed' <=> \/ disturbed
                       \/ /\ k = "reindex" /\ a.status = "complete"
                          /\ a.missed \/ job[k].ahead
  BY DEF InsertBatch
<1> HIDE DEF j
<1>5. a \in JobState /\ Counts(a) = Counts(j) /\ GoesOn(k, j, a)
  BY <1>3, AfterBatchGoesOn
<1> HIDE DEF a
<1>6. QED
  BY <1>3, <1>4, <1>5

(* A page that was not cut short of the end of the batch holds all of it.  *)
LEMMA WholeBatch ==
    ASSUME BackfillInv, NEW k \in Jobs, job[k].step = "ask", closed >= job[k].end,
           LET page == Page(job[k].next)
           IN  ~(Cardinality(page) = PageSize /\ Ledger(Max(page)) <= job[k].end)
    PROVE  Within(job[k].next, job[k].end) \subseteq Page(job[k].next)
<1> DEFINE page == Page(job[k].next)
<1>1. /\ job[k].next \in Nat /\ job[k].end \in Nat /\ closed \in Nat
      /\ \A e \in Events : e \in Nat /\ Ledger(e) \in Nat
  BY BackfillConstants DEF BackfillInv, BackfillTypes, JobState
<1>2. /\ page \subseteq Within(job[k].next, closed)
      /\ \A e \in page, d \in Events : d <= e /\ job[k].next <= Ledger(d) => d \in page
      /\ Cardinality(page) # PageSize => page = Within(job[k].next, closed)
  BY <1>1, PageContents
<1>3. CASE Cardinality(page) # PageSize
  BY <1>1, <1>2, <1>3 DEF Within
<1>4. CASE Cardinality(page) = PageSize
  <2>1. page # {}
    BY <1>4, FS_EmptySet, BackfillConstants
  <2>2. page \subseteq Events
    BY <1>2 DEF Within
  <2> DEFINE last == Max(page)
  <2>3. last \in page /\ ~(Ledger(last) <= job[k].end)
    BY <1>4, <2>1, <2>2, LastOf
  <2> HIDE DEF page, last
  <2>4. ASSUME NEW e \in Within(job[k].next, job[k].end)
        PROVE  e \in page
    <3>1. e \in Events /\ job[k].next <= Ledger(e) /\ Ledger(e) <= job[k].end
      BY DEF Within
    <3>2. e <= last
      BY <1>1, <2>2, <2>3, <3>1, BackfillConstants
    <3>3. QED
      BY <1>2, <2>3, <3>1, <3>2
  <2>5. QED
    BY <2>4 DEF page
<1>5. QED
  BY <1>3, <1>4

-----------------------------------------------------------------------------
(* Types, ranges and progress.                                             *)

LEMMA JobMoves ==
    ASSUME BackfillInv, NEW k \in Jobs, NEW a \in JobState, job' = [job EXCEPT ![k] = a],
           rows \subseteq rows', JobFits(a),
           ~a.missed => Within(a.from, a.from + a.processed - 1) \subseteq rows'
    PROVE  job' \in [Jobs -> JobState] /\ JobsFit' /\ ProgressIsTrue'
<1>1. /\ job' \in [Jobs -> JobState] /\ job'[k] = a
      /\ \A q \in Jobs \ {k} : job'[q] = job[q]
  BY DEF BackfillInv, BackfillTypes
<1>2. JobsFit'
  BY <1>1 DEF BackfillInv, JobsFit, JobFits
<1>3. ASSUME NEW q \in Jobs, ~job'[q].missed
      PROVE  Within(job'[q].from, job'[q].from + job'[q].processed - 1) \subseteq rows'
  <2>1. CASE q = k
    BY <1>1, <1>3, <2>1
  <2>2. CASE q # k
    BY <1>1, <1>3, <2>2 DEF BackfillInv, ProgressIsTrue
  <2>3. QED
    BY <2>1, <2>2
<1>4. ProgressIsTrue'
  BY <1>3 DEF ProgressIsTrue, Within, Events, Ledger
<1>5. QED
  BY <1>1, <1>2, <1>4

(* A job that goes on, pauses or ends has counted no more and no less.     *)
LEMMA GoingOnFits ==
    ASSUME NEW k \in Jobs, NEW j \in JobState, NEW a \in JobState,
           Counts(a) = Counts(j), GoesOn(k, j, a), j.status = "running",
           j.from + j.processed <= j.to + 1, j.next = j.from + j.processed
    PROVE  JobFits(a)
BY DEF Counts, GoesOn, JobFits, JobState

LEMMA InsertBatchFits ==
    ASSUME BackfillInv, NEW k \in Jobs, NEW received, NEW missed \in BOOLEAN,
           received \subseteq Events, job[k].step = "ask", InsertBatch(k, received, missed),
           ~missed => Within(job[k].next, job[k].end) \subseteq received,
           UNCHANGED <<closed, polls, cancelFlag, started>>, faults' \in Nat
    PROVE  BackfillInv'
<1>1. PICK j \in JobState, a \in JobState :
          /\ job' = [job EXCEPT ![k] = a] /\ rows' = rows \cup received /\ hashed' = hashed
          /\ j.from = job[k].from /\ j.to = job[k].to /\ j.next = job[k].end + 1
          /\ j.processed = job[k].end - job[k].from + 1
          /\ (j.missed <=> job[k].missed \/ missed)
          /\ j.status = "running"
          /\ Counts(a) = Counts(j) /\ GoesOn(k, j, a)
          /\ cursor' \in {job[k].to + 1, cursor} /\ disturbed' \in BOOLEAN
  BY BatchIsCounted DEF BackfillInv, BackfillTypes
<1>2. /\ job[k] \in JobState /\ job[k].next = job[k].from + job[k].processed
      /\ job[k].next <= job[k].end /\ job[k].end <= job[k].to
  BY DEF BackfillInv, BackfillTypes, JobsFit, JobFits
<1>3. j.from + j.processed <= j.to + 1 /\ j.next = j.from + j.processed
  BY <1>1, <1>2 DEF JobState
<1>4. JobFits(a)
  BY <1>1, <1>3, GoingOnFits
<1>5. a.from = j.from /\ a.processed = j.processed /\ a.missed = j.missed
  BY <1>1 DEF Counts
<1>6. ASSUME ~a.missed
      PROVE  Within(a.from, a.from + a.processed - 1) \subseteq rows'
  <2>1. /\ Within(job[k].from, job[k].from + job[k].processed - 1) \subseteq rows
        /\ Within(job[k].next, job[k].end) \subseteq received
    BY <1>1, <1>5, <1>6 DEF BackfillInv, ProgressIsTrue, JobState
  <2>2. a.from = job[k].from /\ a.from + a.processed - 1 = job[k].end
    BY <1>1, <1>2, <1>5 DEF JobState
  <2>3. ASSUME NEW e \in Events, job[k].from <= Ledger(e), Ledger(e) <= job[k].end
        PROVE  e \in rows'
    <3>1. Ledger(e) \in Nat
      BY BackfillConstants
    <3>2. \/ Ledger(e) <= job[k].from + job[k].processed - 1
          \/ job[k].next <= Ledger(e)
      BY <1>2, <3>1 DEF JobState
    <3>3. QED
      BY <1>1, <2>1, <2>3, <3>2 DEF Within
  <2>4. QED
    BY <2>2, <2>3 DEF Within
<1>7. job' \in [Jobs -> JobState] /\ JobsFit' /\ ProgressIsTrue'
  BY <1>1, <1>4, <1>6, JobMoves
<1>8. cursor' \in Nat /\ rows' \subseteq Events
  BY <1>1, <1>2 DEF BackfillInv, BackfillTypes, JobState
<1>9. QED
  BY <1>1, <1>7, <1>8 DEF BackfillInv, BackfillTypes, PollState, JobState

(* A rollback takes rows, and marks the jobs whose ranges it reaches.      *)
LEMMA RollBackFits ==
    ASSUME BackfillInv, NEW p \in Polls, NEW ledger, RollBack(p, ledger)
    PROVE  /\ rows' \subseteq Events /\ hashed' \subseteq Events
           /\ job' \in [Jobs -> JobState] /\ JobsFit' /\ ProgressIsTrue'
           /\ \A k \in Jobs : \E gaps \in BOOLEAN : job'[k] = [job[k] EXCEPT !.missed = gaps]
           /\ disturbed' \in BOOLEAN
<1> DEFINE kept == Within(1, ledger - 1)
           Reached(k) == (rows \ kept) \cap Within(job[k].from, job[k].to) # {}
<1>1. /\ rows' = rows \cap kept /\ hashed' = hashed \cap kept
      /\ job' = [k \in Jobs |-> [job[k] EXCEPT !.missed = @ \/ Reached(k)]]
      /\ disturbed' \in BOOLEAN
  BY DEF RollBack, BackfillInv, BackfillTypes
<1>2. rows \subseteq Events /\ hashed \subseteq Events /\ job \in [Jobs -> JobState]
  BY DEF BackfillInv, BackfillTypes
<1> HIDE DEF kept
<1>3. ASSUME NEW k \in Jobs
      PROVE  /\ job'[k] \in JobState /\ JobFits(job'[k])
             /\ \E gaps \in BOOLEAN : job'[k] = [job[k] EXCEPT !.missed = gaps]
             /\ job'[k].from = job[k].from /\ job'[k].processed = job[k].processed
             /\ ~job'[k].missed => ~job[k].missed /\ ~Reached(k)
  <2>1. PICK gaps \in BOOLEAN :
            gaps = (job[k].missed \/ Reached(k)) /\ job'[k] = [job[k] EXCEPT !.missed = gaps]
    BY <1>1
  <2> HIDE DEF Reached
  <2>2. JobFits(job[k]) /\ job[k] \in JobState
    BY <1>2 DEF BackfillInv, JobsFit
  <2>3. QED
    BY <2>1, <2>2 DEF JobFits, JobState
<1>4. ASSUME NEW k \in Jobs, ~job'[k].missed
      PROVE  Within(job'[k].from, job'[k].from + job'[k].processed - 1) \subseteq rows'
  <2> DEFINE read == Within(job[k].from, job[k].from + job[k].processed - 1)
  <2>1. read \subseteq rows /\ ~Reached(k)
    BY <1>3, <1>4 DEF BackfillInv, ProgressIsTrue
  <2>2. read \subseteq Within(job[k].from, job[k].to)
    <3>1. job[k].from + job[k].processed - 1 <= job[k].to /\ job[k] \in JobState
      BY <1>2 DEF BackfillInv, JobsFit, JobFits, JobState
    <3>2. \A e \in Events : Ledger(e) \in Nat
      BY BackfillConstants
    <3>3. QED
      BY <3>1, <3>2 DEF Within, JobState
  <2> HIDE DEF read
  <2>3. read \subseteq rows'
    BY <1>1, <2>1, <2>2
  <2>4. QED
    BY <1>3, <2>3 DEF read
<1>5. ProgressIsTrue'
  BY <1>4 DEF ProgressIsTrue, Within, Events, Ledger
<1>6. JobsFit'
  BY <1>3 DEF JobsFit, JobFits
<1>7. job' \in [Jobs -> JobState]
  BY <1>1, <1>3
<1>8. QED
  BY <1>1, <1>2, <1>3, <1>5, <1>6, <1>7

LEMMA PollsKeepFit ==
    ASSUME BackfillInv, NEW p \in Polls,
           StartPoll(p) \/ ReceivePage(p) \/ InsertEvent(p) \/ EndPoll(p) \/ PollFails(p)
    PROVE  BackfillInv'
<1>1. /\ polls[p] \in PollState /\ NoPoll \in PollState
      /\ cursor \in Nat /\ From \in Nat
  BY BackfillConstants DEF BackfillInv, BackfillTypes, PollState, NoPoll, From
<1>2. CASE StartPoll(p)
  <2>1. polls' \in [Polls -> PollState]
    BY <1>1, <1>2 DEF StartPoll, NoPoll, PollState, BackfillInv, BackfillTypes
  <2>2. QED
    BY <1>2, <2>1 DEF StartPoll, table, BackfillInv, BackfillTypes, JobsFit, JobFits, ProgressIsTrue,
                      Within, Events, Ledger, PollState, JobState
<1>3. CASE ReceivePage(p)
  <2> DEFINE page == Page(polls[p].from)
             replaced == ReplacedLedgers(page)
  <2>1. page \subseteq Events
    BY <1>1, PageContents DEF BackfillInv, BackfillTypes, PollState, Within
  <2>2. polls' \in [Polls -> PollState]
    <3>1. CASE page = {}
      BY <1>1, <1>3, <3>1 DEF ReceivePage, BackfillInv, BackfillTypes
    <3>2. CASE page # {}
      <4>1. Max(page) \in page
        BY <2>1, <3>2, LastOf
      <4>2. Ledger(Max(page)) \in Nat
        BY <2>1, <4>1, BackfillConstants
      <4>3. polls' = [polls EXCEPT ![p] = [@ EXCEPT !.step = "insert", !.todo = page,
                                                    !.last = Ledger(Max(page))]]
        BY <1>3, <3>2 DEF ReceivePage
      <4> HIDE DEF page
      <4>4. QED
        BY <1>1, <2>1, <4>2, <4>3 DEF BackfillInv, BackfillTypes, PollState
    <3>3. QED
      BY <3>1, <3>2
  <2>3. /\ rows' \subseteq Events /\ hashed' \subseteq Events
        /\ job' \in [Jobs -> JobState] /\ JobsFit' /\ ProgressIsTrue' /\ disturbed' \in BOOLEAN
    <3>1. CASE replaced = {}
      <4>1. UNCHANGED <<rows, hashed, job, disturbed>>
        BY <1>3, <3>1 DEF ReceivePage
      <4>2. QED
        BY <4>1 DEF BackfillInv, BackfillTypes, JobsFit, JobFits, ProgressIsTrue, Within, Events,
                    Ledger, JobState
    <3>2. CASE replaced # {}
      <4>1. RollBack(p, Min(replaced))
        BY <1>3, <3>2 DEF ReceivePage
      <4>2. QED
        BY <4>1, RollBackFits
    <3>3. QED
      BY <3>1, <3>2
  <2>4. UNCHANGED <<closed, cursor, cancelFlag, started, faults>>
    BY <1>3 DEF ReceivePage
  <2>5. QED
    BY <2>2, <2>3, <2>4 DEF BackfillInv, BackfillTypes, PollState, JobState
<1>4. CASE InsertEvent(p)
  <2> DEFINE e == Min(polls[p].todo)
  <2>1. e \in Events
    <3>1. polls[p].todo # {} /\ polls[p].todo \subseteq Events
      BY <1>1, <1>4 DEF InsertEvent, PollState
    <3>2. Events \subseteq Nat
      BY BackfillConstants
    <3>3. QED
      BY <3>1, <3>2, LeastIsThere
  <2>2. /\ rows' = rows \cup {e} /\ hashed' \subseteq hashed \cup {e}
        /\ polls' = [polls EXCEPT ![p].todo = @ \ {e}]
        /\ UNCHANGED <<closed, cursor, job, cancelFlag, started, faults, disturbed>>
    BY <1>4 DEF InsertEvent
  <2> HIDE DEF e
  <2>3. polls' \in [Polls -> PollState] /\ rows' \subseteq Events /\ hashed' \subseteq Events
    BY <1>1, <2>1, <2>2 DEF BackfillInv, BackfillTypes, PollState
  <2>4. ProgressIsTrue'
    BY <2>2 DEF BackfillInv, ProgressIsTrue, Within, Events, Ledger
  <2>5. QED
    BY <2>2, <2>3, <2>4 DEF BackfillInv, BackfillTypes, JobsFit, JobFits, PollState, JobState
<1>5. CASE EndPoll(p)
  <2>1. polls' \in [Polls -> PollState] /\ cursor' \in Nat
    BY <1>1, <1>5 DEF EndPoll, PollState, BackfillInv, BackfillTypes
  <2>2. QED
    BY <1>5, <2>1 DEF EndPoll, BackfillInv, BackfillTypes, JobsFit, JobFits, ProgressIsTrue,
                      Within, Events, Ledger, PollState, JobState
<1>6. CASE PollFails(p)
  <2>1. polls' \in [Polls -> PollState] /\ faults' \in Nat
    BY <1>1, <1>6 DEF PollFails, Fail, PollState, BackfillInv, BackfillTypes
  <2>2. QED
    BY <1>6, <2>1 DEF PollFails, table, BackfillInv, BackfillTypes, JobsFit, JobFits, ProgressIsTrue,
                      Within, Events, Ledger, PollState, JobState
<1>7. QED
  BY <1>2, <1>3, <1>4, <1>5, <1>6

(* A job that moves without inserting: what it has read stays read.        *)
LEMMA QuietMoveFits ==
    ASSUME BackfillInv, NEW k \in Jobs, NEW a \in JobState, job' = [job EXCEPT ![k] = a],
           JobFits(a), a.from = job[k].from, a.processed = job[k].processed,
           a.missed = job[k].missed,
           UNCHANGED <<closed, table, polls, started, disturbed>>,
           cancelFlag' \in BOOLEAN, faults' \in Nat
    PROVE  BackfillInv'
<1>1. ~a.missed => Within(a.from, a.from + a.processed - 1) \subseteq rows'
  BY DEF table, BackfillInv, ProgressIsTrue
<1>2. rows' = rows
  BY DEF table
<1>3. job' \in [Jobs -> JobState] /\ JobsFit' /\ ProgressIsTrue'
  BY <1>1, <1>2, JobMoves
<1>4. QED
  BY <1>3 DEF table, BackfillInv, BackfillTypes, PollState, JobState

LEMMA StartJobFits ==
    ASSUME BackfillInv, NEW k \in Jobs, NEW range \in Ranges, StartJob(k, range)
    PROVE  \E a \in JobState :
              /\ job' = [job EXCEPT ![k] = a] /\ JobFits(a) /\ a.status = "running"
              /\ a.from = range.from /\ a.to = range.to
              /\ ~a.asked /\ a.late = 0 /\ (a.ahead <=> range.from > From)
              /\ BackfillInv'
<1> DEFINE new == [NoJob EXCEPT !.status = "running", !.from = range.from, !.to = range.to,
                                !.next = range.from, !.ahead = range.from > From]
<1>1. /\ range.from \in Nat \ {0} /\ range.to \in Nat \ {0} /\ range.from < range.to
  <2>1. {range.from, range.to} \subseteq 1..Tip /\ range.from < range.to /\ Tip \in Nat
    BY BackfillAssumption
  <2>2. QED
    BY <2>1
<1> DEFINE ahead == range.from > From
<1>2. ahead \in BOOLEAN
  OBVIOUS
<1>3. new = [NoJob EXCEPT !.status = "running", !.from = range.from, !.to = range.to,
                          !.next = range.from, !.ahead = ahead]
  OBVIOUS
<1>4. job' = [job EXCEPT ![k] = AskBatch(k, new)]
  BY DEF StartJob
<1> HIDE DEF new, ahead
<1>5. /\ new \in JobState /\ new.next <= new.to /\ new.status = "running"
      /\ new.from = range.from /\ new.to = range.to /\ new.next = range.from
      /\ new.processed = 0 /\ ~new.asked /\ new.late = 0 /\ ~new.missed /\ new.ahead = ahead
  <2>1. NoJob \in JobState
    BY DEF NoJob, JobState
  <2>2. new \in JobState
    BY <1>1, <1>2, <1>3, <2>1 DEF JobState
  <2>3. /\ new.status = "running" /\ new.from = range.from /\ new.to = range.to
        /\ new.next = range.from /\ new.ahead = ahead
        /\ new.processed = 0 /\ ~new.asked /\ new.late = 0 /\ ~new.missed
    BY <1>3 DEF NoJob
  <2>4. QED
    BY <1>1, <2>2, <2>3
<1>6. PICK a \in JobState :
          /\ job' = [job EXCEPT ![k] = a] /\ Counts(a) = Counts(new)
          /\ a.status = "running" /\ a.ahead = ahead /\ a.step = "ask"
          /\ a.next = range.from /\ a.next <= a.end /\ a.end <= a.to
  <2> DEFINE b == AskBatch(k, new)
  <2>1. /\ b \in JobState /\ Counts(b) = Counts(new)
        /\ b.status = new.status /\ b.ahead = new.ahead /\ b.step = "ask"
        /\ b.next = new.next /\ b.next <= b.end /\ b.end <= b.to
    BY <1>5, BatchIsInRange
  <2>2. job' = [job EXCEPT ![k] = b]
    BY <1>4
  <2> HIDE DEF b
  <2>3. QED
    BY <1>5, <2>1, <2>2
<1>7. /\ a.from = range.from /\ a.to = range.to /\ a.processed = 0 /\ ~a.asked /\ a.late = 0
  BY <1>5, <1>6 DEF Counts
<1>8. JobFits(a)
  BY <1>1, <1>6, <1>7 DEF JobFits
<1>9. rows' = rows
  BY DEF StartJob, table
<1>10. Within(a.from, a.from + a.processed - 1) = {}
  <2>1. \A e \in Events : Ledger(e) \in Nat
    BY BackfillConstants
  <2>2. a.from + a.processed - 1 = range.from - 1
    BY <1>1, <1>7
  <2>3. QED
    BY <1>1, <1>7, <2>1, <2>2 DEF Within
<1>11. job' \in [Jobs -> JobState] /\ JobsFit' /\ ProgressIsTrue'
  BY <1>6, <1>8, <1>9, <1>10, JobMoves
<1>12. cancelFlag' \in BOOLEAN /\ started' \in Nat
  <2>1. cancelFlag \in BOOLEAN /\ started \in Nat
    BY DEF BackfillInv, BackfillTypes
  <2>2. cancelFlag' \in BOOLEAN
    BY <2>1, Zenon DEF StartJob
  <2>3. started' \in Nat
    BY <2>1 DEF StartJob
  <2>4. QED
    BY <2>2, <2>3
<1>13. BackfillInv'
  BY <1>11, <1>12 DEF StartJob, table, BackfillInv, BackfillTypes, PollState, JobState
<1>14. QED
  BY <1>6, <1>7, <1>8, <1>13 DEF ahead

(* A batch that is not said to miss events holds all of its range.         *)
LEMMA BatchTakes ==
    ASSUME BackfillInv, NEW k \in Jobs, ReceiveBatch(k) \/ BatchIsSkipped(k)
    PROVE  \E received \in SUBSET Events, missed \in BOOLEAN :
              /\ job[k].step = "ask" /\ InsertBatch(k, received, missed)
              /\ ~missed => Within(job[k].next, job[k].end) \subseteq received
              /\ UNCHANGED <<closed, polls, cancelFlag, started>> /\ faults' \in Nat
<1>1. faults \in Nat /\ closed \in Nat /\ job[k].end \in Nat
  BY DEF BackfillInv, BackfillTypes, JobState
<1>2. CASE ReceiveBatch(k)
  <2> DEFINE page == Page(job[k].next)
             received == page \cap Within(job[k].next, job[k].end)
             cut == Cardinality(page) = PageSize /\ Ledger(Max(page)) <= job[k].end
             missed == cut \/ closed < job[k].end
  <2>1. job[k].step = "ask" /\ InsertBatch(k, received, missed)
    BY <1>2 DEF ReceiveBatch
  <2>2. received \in SUBSET Events /\ missed \in BOOLEAN
    BY DEF Within
  <2>3. ~missed => Within(job[k].next, job[k].end) \subseteq received
    <3>1. ASSUME ~missed
          PROVE  Within(job[k].next, job[k].end) \subseteq page
      <4>1. ~cut /\ closed >= job[k].end
        BY <1>1, <3>1
      <4>2. QED
        BY <2>1, <4>1, WholeBatch
    <3>2. QED
      BY <3>1
  <2>4. UNCHANGED <<closed, polls, cancelFlag, started>> /\ faults' \in Nat
    BY <1>1, <1>2 DEF ReceiveBatch
  <2> HIDE DEF received, missed
  <2>5. QED
    BY <2>1, <2>2, <2>3, <2>4
<1>3. CASE BatchIsSkipped(k)
  <2> DEFINE missed == TRUE
             received == {}
  <2>1. job[k].step = "ask" /\ InsertBatch(k, received, missed) /\ Fail
        /\ UNCHANGED <<closed, polls, cancelFlag, started>>
    BY <1>3, Zenon DEF BatchIsSkipped
  <2>2. faults' \in Nat
    BY <1>1, <2>1 DEF Fail
  <2>3. missed \in BOOLEAN /\ missed /\ received \in SUBSET Events
    OBVIOUS
  <2> HIDE DEF missed, received
  <2>4. QED
    BY <2>1, <2>2, <2>3
<1>4. QED
  BY <1>2, <1>3

LEMMA JobsKeepFit ==
    ASSUME BackfillInv, NEW k \in Jobs,
           ReceiveBatch(k) \/ PauseEnds(k) \/ BatchIsSkipped(k) \/ RateLimited(k) \/ JobFails(k)
    PROVE  BackfillInv'
<1>1. /\ job \in [Jobs -> JobState] /\ job[k] \in JobState /\ JobFits(job[k])
      /\ job[k].next \in Nat /\ cancelFlag \in BOOLEAN /\ faults \in Nat
  BY DEF BackfillInv, BackfillTypes, JobsFit, JobState
<1>2. CASE ReceiveBatch(k) \/ BatchIsSkipped(k)
  BY <1>2, BatchTakes, InsertBatchFits
<1>3. CASE PauseEnds(k)
  <2>1. PICK a \in JobState :
            /\ job' = [job EXCEPT ![k] = a]
            /\ Counts(a) = Counts(job[k]) /\ GoesOn(k, job[k], a)
    BY <1>1, <1>3, PauseGoesOn
  <2>2. /\ job[k].status = "running" /\ job[k].from + job[k].processed <= job[k].to + 1
        /\ job[k].next = job[k].from + job[k].processed
    BY <1>1, <1>3 DEF PauseEnds, JobFits
  <2>3. JobFits(a)
    BY <1>1, <2>1, <2>2, GoingOnFits
  <2>4. a.from = job[k].from /\ a.processed = job[k].processed /\ a.missed = job[k].missed
    BY <2>1 DEF Counts
  <2>5. /\ UNCHANGED <<closed, table, polls, started, disturbed>>
        /\ cancelFlag' \in BOOLEAN /\ faults' \in Nat
    BY <1>1, <1>3 DEF PauseEnds
  <2>6. QED
    BY <2>1, <2>3, <2>4, <2>5, QuietMoveFits
<1>4. CASE RateLimited(k)
  <2> DEFINE a == [job[k] EXCEPT !.step = "pause"]
  <2>1. a \in JobState /\ JobFits(a)
    BY <1>1, <1>4 DEF RateLimited, JobFits, JobState
  <2>2. a.from = job[k].from /\ a.processed = job[k].processed /\ a.missed = job[k].missed
    BY <1>1 DEF JobState
  <2>3. /\ job' = [job EXCEPT ![k] = a]
        /\ UNCHANGED <<closed, table, polls, started, disturbed>>
        /\ cancelFlag' \in BOOLEAN /\ faults' \in Nat
    BY <1>1, <1>4 DEF RateLimited, Fail
  <2> HIDE DEF a
  <2>4. QED
    BY <2>1, <2>2, <2>3, QuietMoveFits
<1>5. CASE JobFails(k)
  <2> DEFINE a == End(job[k], "error")
  <2>1. /\ a \in JobState /\ Counts(a) = Counts(job[k]) /\ a.status = "error" /\ a.step = "none"
    BY <1>1, EndKeepsCounts
  <2>2. /\ job' = [job EXCEPT ![k] = a]
        /\ UNCHANGED <<closed, table, polls, started, disturbed>>
        /\ cancelFlag' \in BOOLEAN /\ faults' \in Nat
    BY <1>1, <1>5 DEF JobFails, Fail
  <2> HIDE DEF a
  <2>3. /\ a.from = job[k].from /\ a.processed = job[k].processed /\ a.missed = job[k].missed
        /\ a.to = job[k].to
    BY <2>1 DEF Counts
  <2>4. JobFits(a)
    BY <1>1, <2>1, <2>3 DEF JobFits
  <2>5. QED
    BY <2>1, <2>2, <2>3, <2>4, QuietMoveFits
<1>6. QED
  BY <1>2, <1>3, <1>4, <1>5

LEMMA BackfillInvHolds == BackfillSpec => []BackfillInv
<1>1. NoJob \in JobState /\ JobFits(NoJob) /\ NoPoll \in PollState
  BY DEF NoJob, JobState, JobFits, NoPoll, PollState
<1>2. Within(1, 0) = {}
  BY BackfillConstants DEF Within
<1>3. ASSUME NEW k \in Jobs, job[k] = NoJob
      PROVE  Within(job[k].from, job[k].from + job[k].processed - 1) = {}
  BY <1>2, <1>3 DEF NoJob
<1>4. BackfillInit => BackfillInv
  <2>1. SUFFICES ASSUME BackfillInit PROVE BackfillInv
    OBVIOUS
  <2>2. job \in [Jobs -> JobState] /\ polls \in [Polls -> PollState] /\ JobsFit
    BY <1>1, <2>1 DEF BackfillInit, JobsFit
  <2>3. ProgressIsTrue
    BY <1>3, <2>1 DEF BackfillInit, ProgressIsTrue
  <2>4. QED
    BY <2>1, <2>2, <2>3 DEF BackfillInit, BackfillInv, BackfillTypes
<1>5. BackfillInv /\ [BackfillNext]_backfillVars => BackfillInv'
  <2> SUFFICES ASSUME BackfillInv, [BackfillNext]_backfillVars
               PROVE  BackfillInv'
    OBVIOUS
  <2>1. CASE CloseLedger
    <3>1. closed' \in Nat
      BY <2>1 DEF CloseLedger, BackfillInv, BackfillTypes
    <3>2. QED
      BY <2>1, <3>1 DEF CloseLedger, table, BackfillInv, BackfillTypes, JobsFit, JobFits,
                        ProgressIsTrue, Within, Events, Ledger, PollState, JobState
  <2>2. CASE cancelReindex
    <3> DEFINE a == [job["reindex"] EXCEPT !.asked = TRUE]
    <3>1. "reindex" \in Jobs /\ job["reindex"] \in JobState /\ JobFits(job["reindex"])
          /\ faults \in Nat
      BY DEF Jobs, BackfillInv, BackfillTypes, JobsFit
    <3>2. /\ a \in JobState /\ JobFits(a)
          /\ a.from = job["reindex"].from /\ a.processed = job["reindex"].processed
          /\ a.missed = job["reindex"].missed
      BY <3>1 DEF JobFits, JobState
    <3>3. /\ job' = [job EXCEPT !["reindex"] = a]
          /\ UNCHANGED <<closed, table, polls, started, disturbed>>
          /\ cancelFlag' \in BOOLEAN /\ faults' \in Nat
      BY <2>2, <3>1 DEF cancelReindex
    <3> HIDE DEF a
    <3>4. QED
      BY <3>1, <3>2, <3>3, QuietMoveFits
  <2>3. CASE Crash
    <3>1. job' \in [Jobs -> JobState] /\ polls' \in [Polls -> PollState] /\ JobsFit'
      BY <1>1, <2>3 DEF Crash, JobsFit, JobFits
    <3>2. ASSUME NEW k \in Jobs
          PROVE  Within(job'[k].from, job'[k].from + job'[k].processed - 1) = {}
      <4>1. job'[k].from = 1 /\ job'[k].processed = 0
        BY <2>3 DEF Crash, NoJob
      <4>2. QED
        BY <1>2, <4>1
    <3>3. ProgressIsTrue'
      BY <3>2 DEF ProgressIsTrue, Within, Events, Ledger
    <3>4. faults' \in Nat
      BY <2>3 DEF Crash, Fail, BackfillInv, BackfillTypes
    <3>5. QED
      BY <2>3, <3>1, <3>3, <3>4 DEF Crash, table, BackfillInv, BackfillTypes, PollState, JobState
  <2>4. ASSUME NEW p \in Polls,
               StartPoll(p) \/ ReceivePage(p) \/ InsertEvent(p) \/ EndPoll(p) \/ PollFails(p)
        PROVE  BackfillInv'
    BY <2>4, PollsKeepFit
  <2>5. ASSUME NEW k \in Jobs, NEW range \in Ranges, StartJob(k, range)
        PROVE  BackfillInv'
    BY <2>5, StartJobFits
  <2>6. ASSUME NEW k \in Jobs,
               ReceiveBatch(k) \/ PauseEnds(k) \/ BatchIsSkipped(k) \/ RateLimited(k) \/ JobFails(k)
        PROVE  BackfillInv'
    BY <2>6, JobsKeepFit
  <2>7. CASE UNCHANGED backfillVars
    BY <2>7 DEF backfillVars, table, BackfillInv, BackfillTypes, JobsFit, JobFits,
                ProgressIsTrue, Within, Events, Ledger, PollState, JobState
  <2>8. QED
    BY <2>1, <2>2, <2>3, <2>4, <2>5, <2>6, <2>7 DEF BackfillNext
<1>6. QED
  BY <1>4, <1>5, PTL DEF BackfillSpec

-----------------------------------------------------------------------------
(* Cancellations.                                                          *)

LEMMA FlagsKept ==
    ASSUME BackfillInv, FlagsFit, NEW k \in Jobs, NEW a \in JobState,
           job' = [job EXCEPT ![k] = a],
           a.asked => k = "reindex", a.late <= 1,
           a.late = 1 => a.asked /\ a.step # "ask",
           a.status = "cancelled" => a.asked,
           k = "reindex" /\ a.status = "running" => (cancelFlag' <=> a.asked),
           k = "replay" => cancelFlag' = cancelFlag
    PROVE  FlagsFit'
<1>1. /\ job' \in [Jobs -> JobState] /\ job'[k] = a
      /\ \A q \in Jobs \ {k} : job'[q] = job[q]
  BY DEF BackfillInv, BackfillTypes
<1>2. ASSUME NEW q \in Jobs
      PROVE  FlagFits(q)'
  <2>1. CASE q = k
    BY <1>1, <2>1 DEF FlagFits
  <2>2. CASE q # k
    BY <1>1, <2>2 DEF FlagFits, FlagsFit
  <2>3. QED
    BY <2>1, <2>2
<1>3. Running("reindex")' => (cancelFlag' <=> job'["reindex"].asked)
  <2>1. CASE k = "reindex"
    BY <1>1, <2>1 DEF Running
  <2>2. CASE k = "replay"
    BY <1>1, <2>2 DEF Running, FlagsFit, Jobs
  <2>3. QED
    BY <2>1, <2>2 DEF Jobs
<1>4. QED
  BY <1>2, <1>3 DEF FlagsFit, Jobs

(* A job that is not asked to stop anew, and that inserts nothing.         *)
LEMMA QuietMoveKeepsFlags ==
    ASSUME BackfillInv, FlagsFit, NEW k \in Jobs, NEW a \in JobState,
           job' = [job EXCEPT ![k] = a], cancelFlag' = cancelFlag,
           Running(k), a.asked = job[k].asked, a.late = job[k].late,
           a.status = "cancelled" => k = "reindex" /\ cancelFlag,
           a.step = "ask" => ~(k = "reindex" /\ cancelFlag)
    PROVE  FlagsFit'
<1>1. FlagFits(k) /\ (k = "reindex" => (cancelFlag <=> job[k].asked))
  BY DEF FlagsFit
<1>2. /\ a.asked => k = "reindex"
      /\ a.late <= 1
      /\ a.late = 1 => a.asked /\ a.step # "ask"
      /\ a.status = "cancelled" => a.asked
      /\ k = "reindex" => (cancelFlag <=> a.asked)
  BY <1>1 DEF FlagFits
<1>3. QED
  BY <1>2, FlagsKept

LEMMA InsertBatchKeepsFlags ==
    ASSUME BackfillInv, FlagsFit, NEW k \in Jobs, NEW received, NEW missed \in BOOLEAN,
           job[k].step = "ask", InsertBatch(k, received, missed), cancelFlag' = cancelFlag
    PROVE  FlagsFit'
<1>1. PICK j \in JobState, a \in JobState :
          /\ job' = [job EXCEPT ![k] = a]
          /\ j.asked = job[k].asked
          /\ j.late = (IF job[k].asked THEN job[k].late + 1 ELSE job[k].late)
          /\ j.status = "running"
          /\ Counts(a) = Counts(j) /\ GoesOn(k, j, a)
  BY BatchIsCounted
<1>2. a.asked = job[k].asked /\ a.late = j.late
  BY <1>1 DEF Counts
<1>3. FlagFits(k) /\ JobFits(job[k]) /\ job[k] \in JobState
  BY DEF FlagsFit, BackfillInv, BackfillTypes, JobsFit
<1>4. Running(k)
  BY <1>3 DEF JobFits, Running
<1>5. /\ job[k].asked => k = "reindex" /\ cancelFlag
      /\ k = "reindex" => (cancelFlag <=> job[k].asked)
      /\ job[k].late = 0
  BY <1>3, <1>4 DEF FlagFits, FlagsFit, JobState
<1>6. a.late <= 1 /\ (a.late = 1 => a.asked)
  BY <1>1, <1>2, <1>5
<1>7. /\ a.status = "cancelled" => a.asked
      /\ a.late = 1 => a.step # "ask"
  BY <1>1, <1>2, <1>5, <1>6 DEF GoesOn
<1>8. QED
  BY <1>1, <1>2, <1>5, <1>6, <1>7, FlagsKept

LEMMA FlagsStay ==
    ASSUME BackfillInv, FlagsFit, [BackfillNext]_backfillVars
    PROVE  FlagsFit'
<1>1. ASSUME cancelFlag' = cancelFlag,
             \A k \in Jobs : \/ job'[k] = job[k]
                             \/ \E gaps \in BOOLEAN : job'[k] = [job[k] EXCEPT !.missed = gaps]
      PROVE  FlagsFit'
  <2>1. ASSUME NEW k \in Jobs
        PROVE  /\ job'[k].asked = job[k].asked /\ job'[k].late = job[k].late
               /\ job'[k].step = job[k].step /\ job'[k].status = job[k].status
    <3>1. job[k] \in JobState
      BY DEF BackfillInv, BackfillTypes
    <3>2. QED
      BY <1>1, <3>1 DEF JobState
  <2>2. "reindex" \in Jobs
    BY DEF Jobs
  <2>3. QED
    BY <1>1, <2>1, <2>2 DEF FlagsFit, FlagFits, Running, Jobs
<1>2. CASE CloseLedger \/ UNCHANGED backfillVars
  <2>1. cancelFlag' = cancelFlag /\ job' = job
    BY <1>2 DEF CloseLedger, backfillVars
  <2>2. QED
    BY <1>1, <2>1
<1>3. CASE cancelReindex
  <2> DEFINE a == [job["reindex"] EXCEPT !.asked = TRUE]
  <2>1. "reindex" \in Jobs /\ job["reindex"] \in JobState /\ FlagFits("reindex")
    BY DEF Jobs, BackfillInv, BackfillTypes, FlagsFit
  <2>2. /\ a \in JobState /\ a.asked /\ a.late = job["reindex"].late
        /\ a.step = job["reindex"].step
    BY <2>1 DEF JobState
  <2>3. job' = [job EXCEPT !["reindex"] = a] /\ cancelFlag'
    BY <1>3 DEF cancelReindex
  <2> HIDE DEF a
  <2>4. a.late <= 1 /\ (a.late = 1 => a.step # "ask")
    BY <2>1, <2>2 DEF FlagFits
  <2>5. QED
    BY <2>1, <2>2, <2>3, <2>4, FlagsKept
<1>4. CASE Crash
  <2>1. \A k \in Jobs : job'[k] = NoJob
    BY <1>4 DEF Crash
  <2>2. "reindex" \in Jobs
    BY DEF Jobs
  <2>3. QED
    BY <2>1, <2>2 DEF NoJob, FlagsFit, FlagFits, Running, Jobs
<1>5. ASSUME NEW p \in Polls, StartPoll(p) \/ InsertEvent(p) \/ EndPoll(p) \/ PollFails(p)
      PROVE  FlagsFit'
  <2>1. cancelFlag' = cancelFlag /\ job' = job
    BY <1>5 DEF StartPoll, InsertEvent, EndPoll, PollFails
  <2>2. QED
    BY <1>1, <2>1
<1>6. ASSUME NEW p \in Polls, ReceivePage(p)
      PROVE  FlagsFit'
  <2>1. job' = job \/ \E ledger : RollBack(p, ledger)
    BY <1>6 DEF ReceivePage
  <2>2. cancelFlag' = cancelFlag
    BY <1>6 DEF ReceivePage
  <2>3. QED
    BY <1>1, <2>1, <2>2, RollBackFits
<1>7. ASSUME NEW k \in Jobs, NEW range \in Ranges, StartJob(k, range)
      PROVE  FlagsFit'
  <2>1. PICK a \in JobState :
            job' = [job EXCEPT ![k] = a] /\ a.status = "running" /\ ~a.asked /\ a.late = 0
    BY <1>7, StartJobFits
  <2>2. (k = "reindex" => ~cancelFlag') /\ (k = "replay" => cancelFlag' = cancelFlag)
    BY <1>7 DEF StartJob
  <2>3. /\ a.asked => k = "reindex"
        /\ a.late <= 1
        /\ a.late = 1 => a.asked /\ a.step # "ask"
        /\ a.status = "cancelled" => a.asked
        /\ k = "reindex" => (cancelFlag' <=> a.asked)
        /\ k = "replay" => cancelFlag' = cancelFlag
    BY <2>1, <2>2
  <2>4. QED
    BY <2>1, <2>3, FlagsKept
<1>8. ASSUME NEW k \in Jobs, ReceiveBatch(k) \/ BatchIsSkipped(k)
      PROVE  FlagsFit'
  <2>1. PICK received \in SUBSET Events, missed \in BOOLEAN :
            job[k].step = "ask" /\ InsertBatch(k, received, missed) /\ cancelFlag' = cancelFlag
    BY <1>8, BatchTakes
  <2>2. QED
    BY <2>1, InsertBatchKeepsFlags
<1>9. ASSUME NEW k \in Jobs, PauseEnds(k)
      PROVE  FlagsFit'
  <2>1. JobFits(job[k]) /\ job \in [Jobs -> JobState]
    BY DEF BackfillInv, BackfillTypes, JobsFit
  <2>2. PICK a \in JobState :
            /\ job' = [job EXCEPT ![k] = a]
            /\ Counts(a) = Counts(job[k]) /\ GoesOn(k, job[k], a) /\ a.step # "pause"
    BY <1>9, <2>1, PauseGoesOn
  <2>3. cancelFlag' = cancelFlag /\ Running(k)
    BY <1>9, <2>1 DEF PauseEnds, JobFits, Running
  <2>4. a.asked = job[k].asked /\ a.late = job[k].late
    BY <2>2 DEF Counts
  <2>5. /\ a.status = "cancelled" => k = "reindex" /\ cancelFlag
        /\ a.step = "ask" => ~(k = "reindex" /\ cancelFlag)
    BY <2>2, <2>3 DEF GoesOn, Running
  <2>6. QED
    BY <2>2, <2>3, <2>4, <2>5, QuietMoveKeepsFlags
<1>10. ASSUME NEW k \in Jobs, RateLimited(k) \/ JobFails(k)
       PROVE  FlagsFit'
  <2>1. JobFits(job[k]) /\ job[k] \in JobState
    BY DEF BackfillInv, BackfillTypes, JobsFit
  <2>2. PICK a \in JobState :
            /\ job' = [job EXCEPT ![k] = a]
            /\ a.asked = job[k].asked /\ a.late = job[k].late
            /\ a.status # "cancelled" /\ a.step # "ask"
    <3>1. CASE RateLimited(k)
      <4> DEFINE a == [job[k] EXCEPT !.step = "pause"]
      <4>1. /\ a \in JobState /\ a.asked = job[k].asked /\ a.late = job[k].late
            /\ a.status # "cancelled" /\ a.step # "ask"
        BY <2>1, <3>1 DEF RateLimited, JobFits, JobState
      <4>2. job' = [job EXCEPT ![k] = a]
        BY <2>1, <3>1 DEF RateLimited, BackfillInv, BackfillTypes
      <4> HIDE DEF a
      <4>3. QED
        BY <4>1, <4>2
    <3>2. CASE JobFails(k)
      <4> DEFINE a == End(job[k], "error")
      <4>1. /\ a \in JobState /\ a.asked = job[k].asked /\ a.late = job[k].late
            /\ a.status # "cancelled" /\ a.step # "ask"
        BY <2>1, EndKeepsCounts DEF Counts
      <4>2. job' = [job EXCEPT ![k] = a]
        BY <3>2 DEF JobFails
      <4> HIDE DEF a
      <4>3. QED
        BY <4>1, <4>2
    <3>3. QED
      BY <1>10, <3>1, <3>2
  <2>3. cancelFlag' = cancelFlag /\ Running(k)
    BY <1>10, <2>1 DEF RateLimited, JobFails, JobFits, Running
  <2>4. QED
    BY <2>2, <2>3, QuietMoveKeepsFlags
<1>11. QED
  BY <1>2, <1>3, <1>4, <1>5, <1>6, <1>7, <1>8, <1>9, <1>10 DEF BackfillNext

-----------------------------------------------------------------------------
(* Nothing below the cursor is missing.                                    *)

LEMMA FromFacts ==
    ASSUME BackfillInv
    PROVE  From \in Nat \ {0} /\ From <= cursor + 1
BY BackfillConstants DEF From, BackfillInv, BackfillTypes

(* Rows are only added, and each poll and job starts from what is backed.  *)
LEMMA BackingStays ==
    ASSUME BackfillInv, TableBacked, rows \subseteq rows', ~disturbed' => ~disturbed,
           ~disturbed' => Within(1, From' - 1) \subseteq rows' \/ cursor' = cursor,
           \A p \in Polls :
              \/ polls'[p] = polls[p]
              \/ polls'[p].step = "idle"
              \/ polls'[p].step = "asking" /\ polls'[p].from = From
              \/ /\ polls'[p].step = "insert"
                 /\ ~disturbed' =>
                       Within(1, polls'[p].last - 1) \ polls'[p].todo \subseteq rows',
           \A k \in Jobs : job'[k].status = "running" /\ ~job'[k].ahead =>
              \/ /\ job[k].status = "running" /\ ~job[k].ahead
                 /\ job'[k].from = job[k].from
              \/ job'[k].from \in Nat /\ job'[k].from <= From
    PROVE  TableBacked'
<1> SUFFICES ASSUME ~disturbed'
             PROVE  /\ Within(1, From' - 1) \subseteq rows'
                    /\ \A p \in Polls :
                          /\ polls'[p].step = "asking" =>
                                Within(1, polls'[p].from - 1) \subseteq rows'
                          /\ polls'[p].step = "insert" =>
                                Within(1, polls'[p].last - 1) \ polls'[p].todo \subseteq rows'
                    /\ \A k \in Jobs : job'[k].status = "running" /\ ~job'[k].ahead =>
                          Within(1, job'[k].from - 1) \subseteq rows'
  BY DEF TableBacked, PollBacked, JobBacked, Running, Within, Events, Ledger
<1>1. /\ Within(1, From - 1) \subseteq rows'
      /\ \A p \in Polls : PollBacked(p) /\ \A k \in Jobs : JobBacked(k)
  BY DEF TableBacked
<1>2. cursor' = cursor => From' = From
  BY DEF From
<1>3. Within(1, From' - 1) \subseteq rows'
  BY <1>1, <1>2
<1>4. ASSUME NEW p \in Polls
      PROVE  /\ polls'[p].step = "asking" => Within(1, polls'[p].from - 1) \subseteq rows'
             /\ polls'[p].step = "insert" =>
                   Within(1, polls'[p].last - 1) \ polls'[p].todo \subseteq rows'
  BY <1>1 DEF PollBacked
<1>5. ASSUME NEW k \in Jobs, job'[k].status = "running", ~job'[k].ahead
      PROVE  Within(1, job'[k].from - 1) \subseteq rows'
  <2>1. CASE job'[k].from \in Nat /\ job'[k].from <= From
    <3>1. \A e \in Events : Ledger(e) \in Nat
      BY BackfillConstants
    <3>2. Within(1, job'[k].from - 1) \subseteq Within(1, From - 1)
      BY <2>1, <3>1, FromFacts DEF Within
    <3>3. QED
      BY <1>1, <3>2
  <2>2. CASE job[k].status = "running" /\ ~job[k].ahead /\ job'[k].from = job[k].from
    <3>1. JobBacked(k)
      BY DEF TableBacked
    <3>2. QED
      BY <2>2, <3>1 DEF JobBacked, Running
  <2>3. QED
    BY <1>5, <2>1, <2>2
<1>6. QED
  BY <1>3, <1>4, <1>5

(* What a page has skipped was there before.                               *)
LEMMA PageIsBacked ==
    ASSUME BackfillInv, NEW from \in Nat, Page(from) # {}, NEW known,
           Within(1, from - 1) \subseteq known
    PROVE  Within(1, Ledger(Max(Page(from))) - 1) \ Page(from) \subseteq known
<1> DEFINE page == Page(from)
           last == Max(page)
<1>1. \A e \in Events : e \in Nat /\ Ledger(e) \in Nat
  BY BackfillConstants
<1>2. /\ page \subseteq Events
      /\ \A e \in page, d \in Events : d <= e /\ from <= Ledger(d) => d \in page
  BY PageContents DEF BackfillInv, BackfillTypes, Within
<1>3. last \in page
  BY <1>2, LastOf
<1> HIDE DEF page, last
<1>4. ASSUME NEW e \in Events, 1 <= Ledger(e), Ledger(e) <= Ledger(last) - 1, e \notin page
      PROVE  e \in known
  <2>1. e <= last
    BY <1>1, <1>2, <1>3, <1>4, BackfillConstants
  <2>2. Ledger(e) <= from - 1
    BY <1>1, <1>2, <1>3, <1>4, <2>1
  <2>3. QED
    BY <1>4, <2>2 DEF Within
<1>5. QED
  BY <1>4 DEF Within, page, last

(* A rollback takes no row below the ledger its poll has asked from.       *)
LEMMA ReplacedLedgersAreAsked ==
    ASSUME BackfillInv, NEW from \in Nat, ReplacedLedgers(Page(from)) # {}
    PROVE  Min(ReplacedLedgers(Page(from))) \in Nat /\ from <= Min(ReplacedLedgers(Page(from)))
<1> DEFINE page == Page(from)
           replaced == ReplacedLedgers(page)
<1>1. \A e \in page : Ledger(e) \in Nat /\ from <= Ledger(e)
  BY PageContents, BackfillConstants DEF BackfillInv, BackfillTypes, Within
<1>2. \A ledger \in replaced : ledger \in Nat /\ from <= ledger
  BY <1>1 DEF ReplacedLedgers
<1> HIDE DEF replaced
<1>3. replaced \subseteq Nat
  BY <1>2
<1>4. replaced # {} => Min(replaced) \in replaced
  BY <1>3, LeastIsThere
<1>5. QED
  BY <1>2, <1>4 DEF replaced

LEMMA RollBackKeepsBacking ==
    ASSUME BackfillInv, TableBacked, NEW p \in Polls, NEW ledger \in Nat,
           RollBack(p, ledger), polls[p].step = "asking", polls[p].from <= ledger,
           ~disturbed'
    PROVE  /\ ~disturbed
           /\ Within(1, polls[p].from - 1) \subseteq rows'
           /\ Within(1, From - 1) \subseteq rows'
           /\ \A q \in Polls \ {p} : PollBacked(q) /\ (rows' = rows \/ polls[q] = NoPoll)
           /\ \A k \in Jobs : job'[k].status = "running" /\ ~job'[k].ahead =>
                 Within(1, job'[k].from - 1) \subseteq rows'
<1> DEFINE kept == Within(1, ledger - 1)
<1>1. /\ rows' = rows \cap kept /\ ~disturbed
      /\ rows \ kept = {} \/ Alone(p)
  BY DEF RollBack
<1>2. /\ rows \subseteq Events /\ polls[p].from \in Nat
  BY DEF BackfillInv, BackfillTypes, PollState
<1>3. Within(1, polls[p].from - 1) \subseteq rows /\ Within(1, polls[p].from - 1) \subseteq kept
  <2>1. \A e \in Events : Ledger(e) \in Nat
    BY BackfillConstants
  <2>2. Within(1, polls[p].from - 1) \subseteq kept
    BY <1>2, <2>1 DEF Within
  <2>3. QED
    BY <1>1, <2>2 DEF TableBacked, PollBacked
<1> HIDE DEF kept
<1>4. Within(1, polls[p].from - 1) \subseteq rows'
  BY <1>1, <1>3
<1>5. rows \ kept = {} => rows' = rows
  BY <1>1
<1>6. Within(1, From - 1) \subseteq rows'
  BY <1>1, <1>4, <1>5 DEF TableBacked, Alone
<1>7. \A q \in Polls \ {p} : PollBacked(q) /\ (rows' = rows \/ polls[q] = NoPoll)
  BY <1>1, <1>5 DEF TableBacked, Alone
<1>8. ASSUME NEW k \in Jobs, job'[k].status = "running", ~job'[k].ahead
      PROVE  Within(1, job'[k].from - 1) \subseteq rows'
  <2>1. PICK gaps \in BOOLEAN : job'[k] = [job[k] EXCEPT !.missed = gaps]
    BY RollBackFits
  <2>2. job'[k].status = job[k].status /\ job'[k].from = job[k].from
        /\ job'[k].ahead = job[k].ahead
    <3>1. job[k] \in JobState
      BY DEF BackfillInv, BackfillTypes
    <3>2. QED
      BY <2>1, <3>1 DEF JobState
  <2>3. ~Alone(p)
    BY <1>8, <2>2 DEF Alone, Running
  <2>4. QED
    BY <1>1, <1>5, <1>8, <2>2, <2>3 DEF TableBacked, JobBacked, Running
<1>9. QED
  BY <1>1, <1>4, <1>6, <1>7, <1>8

LEMMA ReceivePageKeepsBacking ==
    ASSUME BackfillInv, TableBacked, NEW p \in Polls, ReceivePage(p)
    PROVE  TableBacked'
<1> DEFINE from == polls[p].from
           page == Page(from)
           replaced == ReplacedLedgers(page)
           taken == [polls[p] EXCEPT !.step = "insert", !.todo = page, !.last = Ledger(Max(page))]
<1>1. /\ polls \in [Polls -> PollState] /\ polls[p].step = "asking" /\ from \in Nat
      /\ cursor' = cursor
  BY DEF ReceivePage, BackfillInv, BackfillTypes, PollState
<1>2. CASE page = {}
  <2>1. replaced = {}
    BY <1>2 DEF ReplacedLedgers
  <2>2. UNCHANGED <<rows, hashed, job, disturbed>> /\ polls' = [polls EXCEPT ![p] = NoPoll]
    BY <1>2, <2>1 DEF ReceivePage
  <2>3. \A q \in Polls : polls'[q] = polls[q] \/ polls'[q].step = "idle"
    BY <1>1, <2>2 DEF NoPoll
  <2>4. QED
    BY <1>1, <2>2, <2>3, BackingStays
<1>3. CASE page # {}
  <2>1. polls' = [polls EXCEPT ![p] = taken]
    BY <1>1, <1>3 DEF ReceivePage
  <2>2. /\ taken.step = "insert" /\ taken.todo = page /\ taken.last = Ledger(Max(page))
    BY <1>1 DEF PollState
  <2> HIDE DEF taken
  <2>3. polls'[p] = taken /\ \A q \in Polls \ {p} : polls'[q] = polls[q]
    BY <1>1, <2>1
  <2>4. ASSUME NEW known, Within(1, from - 1) \subseteq known
        PROVE  Within(1, polls'[p].last - 1) \ polls'[p].todo \subseteq known
    BY <1>1, <1>3, <2>2, <2>3, <2>4, PageIsBacked
  <2> HIDE DEF page, replaced
  <2>5. CASE replaced = {}
    <3>1. UNCHANGED <<rows, hashed, job, disturbed>>
      BY <2>5 DEF ReceivePage, replaced, page
    <3>2. ~disturbed' => Within(1, from - 1) \subseteq rows'
      BY <1>1, <3>1 DEF TableBacked, PollBacked
    <3>3. ~disturbed' => Within(1, polls'[p].last - 1) \ polls'[p].todo \subseteq rows'
      BY <2>4, <3>2
    <3>4. \A q \in Polls :
             \/ polls'[q] = polls[q]
             \/ /\ polls'[q].step = "insert"
                /\ ~disturbed' => Within(1, polls'[q].last - 1) \ polls'[q].todo \subseteq rows'
      BY <2>2, <2>3, <3>3
    <3>5. QED
      BY <1>1, <3>1, <3>4, BackingStays
  <2>6. CASE replaced # {}
    <3> DEFINE ledger == Min(replaced)
    <3>1. RollBack(p, ledger)
      BY <2>6 DEF ReceivePage, replaced, page
    <3>2. ledger \in Nat /\ from <= ledger
      BY <1>1, <2>6, ReplacedLedgersAreAsked DEF replaced, page
    <3> HIDE DEF ledger, from
    <3> SUFFICES ASSUME ~disturbed'
                 PROVE  /\ Within(1, From' - 1) \subseteq rows'
                        /\ \A q \in Polls :
                              /\ polls'[q].step = "asking" =>
                                    Within(1, polls'[q].from - 1) \subseteq rows'
                              /\ polls'[q].step = "insert" =>
                                    Within(1, polls'[q].last - 1) \ polls'[q].todo \subseteq rows'
                        /\ \A k \in Jobs : job'[k].status = "running" /\ ~job'[k].ahead =>
                              Within(1, job'[k].from - 1) \subseteq rows'
      BY DEF TableBacked, PollBacked, JobBacked, Running, Within, Events, Ledger
    <3>3. /\ Within(1, from - 1) \subseteq rows'
          /\ Within(1, From - 1) \subseteq rows'
          /\ \A q \in Polls \ {p} : PollBacked(q) /\ (rows' = rows \/ polls[q] = NoPoll)
          /\ \A k \in Jobs : job'[k].status = "running" /\ ~job'[k].ahead =>
                Within(1, job'[k].from - 1) \subseteq rows'
      BY <1>1, <3>1, <3>2, RollBackKeepsBacking DEF from
    <3>4. From' = From
      BY <1>1 DEF From
    <3>5. Within(1, polls'[p].last - 1) \ polls'[p].todo \subseteq rows'
      BY <2>4, <3>3
    <3>6. ASSUME NEW q \in Polls
          PROVE  /\ polls'[q].step = "asking" => Within(1, polls'[q].from - 1) \subseteq rows'
                 /\ polls'[q].step = "insert" =>
                       Within(1, polls'[q].last - 1) \ polls'[q].todo \subseteq rows'
      <4>1. CASE q = p
        BY <2>2, <2>3, <3>5, <4>1
      <4>2. CASE q # p
        BY <2>3, <3>3, <4>2 DEF PollBacked, NoPoll
      <4>3. QED
        BY <4>1, <4>2
    <3>7. QED
      BY <3>3, <3>4, <3>6
  <2>7. QED
    BY <2>5, <2>6
<1>4. QED
  BY <1>2, <1>3

(* A poll that has ended leaves the cursor behind the last ledger of its   *)
(* page, as the next poll goes back by the margin.                         *)
LEMMA EndPollKeepsBacking ==
    ASSUME FinalityMargin > 0, BackfillInv, TableBacked, NEW p \in Polls, EndPoll(p)
    PROVE  TableBacked'
<1>1. /\ polls \in [Polls -> PollState] /\ polls[p].step = "insert" /\ polls[p].todo = {}
      /\ polls[p].last \in Nat /\ cursor' = polls[p].last + 1
      /\ polls' = [polls EXCEPT ![p] = NoPoll]
      /\ UNCHANGED <<closed, rows, hashed, job, cancelFlag, started, faults, disturbed>>
  BY DEF EndPoll, BackfillInv, BackfillTypes, PollState
<1>2. From' <= polls[p].last \/ From' = 1
  BY <1>1, BackfillConstants DEF From
<1>3. From' \in Nat
  BY <1>1, BackfillConstants DEF From
<1>4. ~disturbed' => Within(1, From' - 1) \subseteq rows'
  <2>1. \A e \in Events : Ledger(e) \in Nat \ {0}
    BY BackfillConstants
  <2>2. Within(1, From' - 1) \subseteq Within(1, polls[p].last - 1)
    BY <1>1, <1>2, <1>3, <2>1 DEF Within
  <2>3. ~disturbed' => Within(1, polls[p].last - 1) \subseteq rows
    BY <1>1 DEF TableBacked, PollBacked
  <2>4. QED
    BY <1>1, <2>2, <2>3
<1>5. \A q \in Polls : polls'[q] = polls[q] \/ polls'[q].step = "idle"
  BY <1>1 DEF NoPoll
<1>6. QED
  BY <1>1, <1>4, <1>5, BackingStays

(* A reindex that completes has what lies before its range, and if it      *)
(* missed nothing, its range.                                              *)
LEMMA InsertBatchKeepsBacking ==
    ASSUME BackfillInv, BackfillInv', TableBacked, NEW k \in Jobs, NEW received,
           NEW missed \in BOOLEAN,
           job[k].step = "ask", InsertBatch(k, received, missed), polls' = polls
    PROVE  TableBacked'
<1>1. PICK j \in JobState, a \in JobState :
          /\ job' = [job EXCEPT ![k] = a] /\ rows' = rows \cup received
          /\ j.from = job[k].from /\ j.to = job[k].to /\ j.next = job[k].end + 1
          /\ j.processed = job[k].end - job[k].from + 1
          /\ j.status = "running" /\ j.ahead = job[k].ahead
          /\ Counts(a) = Counts(j) /\ GoesOn(k, j, a)
          /\ cursor' = IF k = "reindex" /\ a.status = "complete" THEN job[k].to + 1 ELSE cursor
          /\ disturbed' <=> \/ disturbed
                            \/ /\ k = "reindex" /\ a.status = "complete"
                               /\ a.missed \/ job[k].ahead
  BY BatchIsCounted
<1>2. a.from = job[k].from /\ a.to = job[k].to /\ a.processed = job[k].end - job[k].from + 1
  BY <1>1 DEF Counts
<1>3. /\ job[k] \in JobState /\ job \in [Jobs -> JobState] /\ JobFits(job[k])
      /\ job[k].status = "running"
  BY DEF BackfillInv, BackfillTypes, JobsFit, JobFits
<1>4. job'[k] = a /\ \A q \in Jobs \ {k} : job'[q] = job[q]
  BY <1>1, <1>3
<1>5. ASSUME ~disturbed', k = "reindex", a.status = "complete"
      PROVE  Within(1, From' - 1) \subseteq rows'
  <2>1. ~disturbed /\ ~a.missed /\ ~job[k].ahead /\ cursor' = job[k].to + 1
    BY <1>1, <1>5
  <2>2. job[k].end = job[k].to
    BY <1>1, <1>3, <1>5 DEF GoesOn, JobFits, JobState
  <2>3. Within(1, job[k].from - 1) \subseteq rows
    BY <1>3, <2>1 DEF TableBacked, JobBacked, Running
  <2>4. Within(job[k].from, job[k].to) \subseteq rows'
    <3>1. Within(a.from, a.from + a.processed - 1) \subseteq rows'
      BY <1>4, <2>1 DEF BackfillInv, ProgressIsTrue, Within, Events, Ledger
    <3>2. a.from + a.processed - 1 = job[k].to
      BY <1>2, <1>3, <2>2 DEF JobState
    <3>3. QED
      BY <1>2, <3>1, <3>2
  <2>5. job[k].from \in Nat /\ job[k].to \in Nat
    BY <1>3 DEF JobState
  <2>6. From' \in Nat /\ (From' <= job[k].to + 1 \/ From' = 1)
    <3>1. FinalityMargin \in Nat
      BY BackfillConstants
    <3>2. QED
      BY <2>1, <2>5, <3>1 DEF From
  <2>7. ASSUME NEW e \in Events, 1 <= Ledger(e), Ledger(e) <= From' - 1
        PROVE  e \in rows'
    <3>1. Ledger(e) \in Nat \ {0}
      BY BackfillConstants
    <3>2. Ledger(e) <= job[k].from - 1 \/ (job[k].from <= Ledger(e) /\ Ledger(e) <= job[k].to)
      BY <2>5, <2>6, <2>7, <3>1
    <3>3. QED
      BY <1>1, <2>3, <2>4, <2>7, <3>2 DEF Within
  <2>8. QED
    BY <2>7 DEF Within
<1>6. ~disturbed' => Within(1, From' - 1) \subseteq rows' \/ cursor' = cursor
  BY <1>1, <1>5
<1>7. ASSUME NEW q \in Jobs, job'[q].status = "running", ~job'[q].ahead
      PROVE  job[q].status = "running" /\ ~job[q].ahead /\ job'[q].from = job[q].from
  <2>1. CASE q = k
    BY <1>1, <1>2, <1>3, <1>4, <1>7, <2>1 DEF GoesOn
  <2>2. CASE q # k
    BY <1>4, <1>7, <2>2
  <2>3. QED
    BY <2>1, <2>2
<1>8. ~disturbed' => ~disturbed
  BY <1>1
<1>9. QED
  BY <1>1, <1>6, <1>7, <1>8, BackingStays

LEMMA BackingKept ==
    ASSUME FinalityMargin > 0, BackfillInv, BackfillInv', TableBacked,
           [BackfillNext]_backfillVars
    PROVE  TableBacked'
<1>1. ASSUME UNCHANGED <<rows, cursor, disturbed>>,
             \A p \in Polls : polls'[p] = polls[p] \/ polls'[p].step = "idle"
                              \/ (polls'[p].step = "asking" /\ polls'[p].from = From),
             \A k \in Jobs : \/ job'[k].status # "running"
                             \/ /\ job[k].status = "running" /\ job'[k].from = job[k].from
                                /\ job'[k].ahead = job[k].ahead
      PROVE  TableBacked'
  BY <1>1, BackingStays
<1>2. CASE CloseLedger \/ UNCHANGED backfillVars
  <2>1. UNCHANGED <<rows, cursor, disturbed, polls, job>>
    BY <1>2 DEF CloseLedger, backfillVars, table
  <2>2. QED
    BY <1>1, <2>1
<1>3. CASE cancelReindex
  <2>1. /\ UNCHANGED <<rows, cursor, disturbed, polls>>
        /\ job' = [job EXCEPT !["reindex"].asked = TRUE]
    BY <1>3 DEF cancelReindex, table
  <2>2. ASSUME NEW k \in Jobs
        PROVE  job'[k].status = job[k].status /\ job'[k].from = job[k].from
               /\ job'[k].ahead = job[k].ahead
    BY <2>1 DEF BackfillInv, BackfillTypes, JobState
  <2>3. QED
    BY <1>1, <2>1, <2>2
<1>4. CASE Crash
  <2>1. /\ UNCHANGED <<rows, cursor, disturbed>>
        /\ \A p \in Polls : polls'[p] = NoPoll
        /\ \A k \in Jobs : job'[k] = NoJob
    BY <1>4 DEF Crash, table
  <2>2. NoPoll.step = "idle" /\ NoJob.status # "running"
    BY DEF NoPoll, NoJob
  <2>3. /\ \A p \in Polls : polls'[p].step = "idle"
        /\ \A k \in Jobs : job'[k].status # "running"
    BY <2>1, <2>2
  <2>4. QED
    BY <1>1, <2>1, <2>3
<1>5. ASSUME NEW p \in Polls, StartPoll(p) \/ PollFails(p)
      PROVE  TableBacked'
  <2>1. UNCHANGED <<rows, cursor, disturbed, job>>
    BY <1>5 DEF StartPoll, PollFails, table
  <2>2. ASSUME NEW q \in Polls
        PROVE  polls'[q] = polls[q] \/ polls'[q].step = "idle"
               \/ (polls'[q].step = "asking" /\ polls'[q].from = From)
    <3>1. polls \in [Polls -> PollState]
      BY DEF BackfillInv, BackfillTypes
    <3>2. CASE StartPoll(p)
      <4> DEFINE asking == [NoPoll EXCEPT !.step = "asking", !.from = From]
      <4>1. polls' = [polls EXCEPT ![p] = asking]
        BY <3>2 DEF StartPoll
      <4>2. asking.step = "asking" /\ asking.from = From
        BY DEF NoPoll
      <4> HIDE DEF asking
      <4>3. QED
        BY <3>1, <4>1, <4>2
    <3>3. CASE PollFails(p)
      BY <3>1, <3>3 DEF PollFails, NoPoll
    <3>4. QED
      BY <1>5, <3>2, <3>3
  <2>3. QED
    BY <1>1, <2>1, <2>2
<1>6. ASSUME NEW p \in Polls, ReceivePage(p)
      PROVE  TableBacked'
  BY <1>6, ReceivePageKeepsBacking
<1>7. ASSUME NEW p \in Polls, InsertEvent(p)
      PROVE  TableBacked'
  <2> DEFINE e == Min(polls[p].todo)
  <2>1. /\ rows' = rows \cup {e} /\ polls[p].step = "insert"
        /\ polls' = [polls EXCEPT ![p].todo = @ \ {e}]
        /\ UNCHANGED <<cursor, job, disturbed>>
    BY <1>7 DEF InsertEvent
  <2> HIDE DEF e
  <2>2. /\ polls'[p].step = "insert" /\ polls'[p].last = polls[p].last
        /\ polls'[p].todo = polls[p].todo \ {e}
        /\ \A q \in Polls \ {p} : polls'[q] = polls[q]
    BY <2>1 DEF BackfillInv, BackfillTypes, PollState
  <2>3. ~disturbed' => Within(1, polls'[p].last - 1) \ polls'[p].todo \subseteq rows'
    BY <2>1, <2>2 DEF TableBacked, PollBacked
  <2>4. \A q \in Polls :
           \/ polls'[q] = polls[q]
           \/ /\ polls'[q].step = "insert"
              /\ ~disturbed' => Within(1, polls'[q].last - 1) \ polls'[q].todo \subseteq rows'
    BY <2>2, <2>3
  <2>5. QED
    BY <2>1, <2>4, BackingStays
<1>8. ASSUME NEW p \in Polls, EndPoll(p)
      PROVE  TableBacked'
  BY <1>8, EndPollKeepsBacking
<1>9. ASSUME NEW k \in Jobs, NEW range \in Ranges, StartJob(k, range)
      PROVE  TableBacked'
  <2>1. PICK a \in JobState :
            /\ job' = [job EXCEPT ![k] = a] /\ a.from = range.from
            /\ a.ahead <=> range.from > From
    BY <1>9, StartJobFits
  <2>2. UNCHANGED <<rows, cursor, disturbed, polls>>
    BY <1>9 DEF StartJob, table
  <2>3. job'[k] = a /\ \A q \in Jobs \ {k} : job'[q] = job[q]
    BY <2>1 DEF BackfillInv, BackfillTypes
  <2>4. a.from \in Nat /\ (~a.ahead => a.from <= From)
    BY <2>1, FromFacts DEF JobState
  <2>5. QED
    BY <2>2, <2>3, <2>4, BackingStays
<1>10. ASSUME NEW k \in Jobs, ReceiveBatch(k) \/ BatchIsSkipped(k)
       PROVE  TableBacked'
  <2>1. PICK received \in SUBSET Events, missed \in BOOLEAN :
            job[k].step = "ask" /\ InsertBatch(k, received, missed) /\ polls' = polls
    BY <1>10, BatchTakes
  <2>2. QED
    BY <2>1, InsertBatchKeepsBacking
<1>11. ASSUME NEW k \in Jobs, PauseEnds(k) \/ RateLimited(k) \/ JobFails(k)
       PROVE  TableBacked'
  <2>1. UNCHANGED <<rows, cursor, disturbed, polls>>
    BY <1>11 DEF PauseEnds, RateLimited, JobFails, table
  <2>2. /\ job \in [Jobs -> JobState] /\ job[k] \in JobState /\ JobFits(job[k])
        /\ job[k].status = "running"
    BY <1>11 DEF PauseEnds, RateLimited, JobFails, BackfillInv, BackfillTypes, JobsFit, JobFits
  <2>3. \/ job'[k].status # "running"
        \/ job'[k].from = job[k].from /\ job'[k].ahead = job[k].ahead
    <3>1. CASE PauseEnds(k)
      <4>1. PICK a \in JobState :
                /\ job' = [job EXCEPT ![k] = a]
                /\ Counts(a) = Counts(job[k]) /\ GoesOn(k, job[k], a)
        BY <2>2, <3>1, PauseGoesOn
      <4>2. job'[k] = a /\ a.from = job[k].from
        BY <2>2, <4>1 DEF Counts
      <4>3. QED
        BY <4>1, <4>2 DEF GoesOn
    <3>2. CASE RateLimited(k)
      BY <2>2, <3>2 DEF RateLimited, JobState
    <3>3. CASE JobFails(k)
      <4>1. job'[k] = End(job[k], "error")
        BY <2>2, <3>3 DEF JobFails
      <4>2. QED
        BY <2>2, <4>1, EndKeepsCounts
    <3>4. QED
      BY <1>11, <3>1, <3>2, <3>3
  <2>4. \A q \in Jobs \ {k} : job'[q] = job[q]
    BY <1>11, <2>2 DEF PauseEnds, RateLimited, JobFails
  <2>5. QED
    BY <1>1, <2>1, <2>2, <2>3, <2>4
<1>12. QED
  BY <1>2, <1>3, <1>4, <1>5, <1>6, <1>7, <1>8, <1>9, <1>10, <1>11 DEF BackfillNext

-----------------------------------------------------------------------------
(* What an administrator reads of a reindex or a replay is true: what was  *)
(* processed is in the table, but for what the code has skipped knowingly, *)
(* for every chain, page and batch size and whatever polls run beside it   *)
(* (reindexService.ts, eventBatchProcessor.ts).                            *)
THEOREM ProgressReportsAreTrue == BackfillSpec => []ProgressIsTrue
<1>1. BackfillInv => ProgressIsTrue
  BY DEF BackfillInv
<1>2. QED
  BY <1>1, BackfillInvHolds, PTL

(* The values the polls and jobs keep are of their types.                  *)
THEOREM BackfillTypeCorrect == BackfillSpec => []BackfillTypes
<1>1. BackfillInv => BackfillTypes
  BY DEF BackfillInv
<1>2. QED
  BY <1>1, BackfillInvHolds, PTL

(* A job that was asked to stop inserts at most one more batch, and none   *)
(* stops that was not asked (cancelReindex).                               *)
THEOREM CancellationsAreHeeded == BackfillSpec => []CancelsAreHeeded
<1>1. BackfillInit => FlagsFit
  BY DEF BackfillInit, NoJob, FlagsFit, FlagFits, Running, Jobs
<1>2. BackfillInv /\ FlagsFit /\ [BackfillNext]_backfillVars => FlagsFit'
  BY FlagsStay
<1>3. FlagsFit => CancelsAreHeeded
  BY DEF FlagsFit, FlagFits, CancelsAreHeeded
<1>4. QED
  BY <1>1, <1>2, <1>3, BackfillInvHolds, PTL DEF BackfillSpec

(* No event below the start of the next poll is missing, however polls,    *)
(* jobs and crashes interleave, unless a rollback met another poll or job, *)
(* or a reindex completed that had missed events.  The finality margin has *)
(* to be at least one: a page may cut the last ledger it reaches.          *)
THEOREM BackfilledCursorIsBacked ==
    ASSUME FinalityMargin > 0
    PROVE  BackfillSpec => []CursorIsBacked
<1>1. BackfillInit => TableBacked
  <2>1. Within(1, 0) = {} /\ FinalityMargin \in Nat
    BY BackfillConstants DEF Within
  <2>2. ASSUME BackfillInit
        PROVE  TableBacked
    <3>1. From = 1
      BY <2>1, <2>2 DEF BackfillInit, From
    <3>2. QED
      BY <2>1, <2>2, <3>1 DEF BackfillInit, NoJob, NoPoll, TableBacked, PollBacked, JobBacked,
                              Running
  <2>3. QED
    BY <2>2
<1>2. BackfillInv /\ BackfillInv' /\ TableBacked /\ [BackfillNext]_backfillVars => TableBacked'
  BY BackingKept
<1>3. TableBacked => CursorIsBacked
  BY DEF TableBacked, CursorIsBacked
<1>4. QED
  BY <1>1, <1>2, <1>3, BackfillInvHolds, PTL DEF BackfillSpec
=============================================================================
