---------------------------- MODULE AdminMultiSig ----------------------------
(***************************************************************************)
(* M-of-N approval of privileged operations (services/adminMultiSig.ts     *)
(* over db/repositories/adminActions.ts).  A request is a chain of awaited *)
(* statements: each is one step, what lies between two awaits belongs to   *)
(* the step that follows, and any number of requests, in any number of     *)
(* server processes, interleave.  A request may end at any await: the      *)
(* statement throws or the process dies.                                   *)
(*                                                                         *)
(* Threshold 1 keeps no state (the controllers call the chain directly) and *)
(* is left out.                                                            *)
(***************************************************************************)
EXTENDS Integers, FiniteSets, SequencesExt

CONSTANTS
    Requests,          \* HTTP requests to propose or approve
    Wallets,           \* admin accounts a token may name
    AdminWallets,      \* config.adminWallets
    AdminThreshold,    \* config.adminThreshold
    ActionTtl,         \* config.adminActionTtlMs
    MaxTime            \* bound on the clock

ASSUME MultiSigAssumption ==
    /\ AdminWallets \subseteq Wallets
    /\ AdminThreshold \in Nat /\ AdminThreshold > 1
    /\ ActionTtl \in Nat /\ MaxTime \in Nat

VARIABLES
    now,         \* Date.now()
    action,      \* the row of pending_admin_actions, or NoAction
    signatures,  \* the signers in admin_action_signatures
    requests,    \* where each request is, who sends it, what it has read
    runs,        \* the requests' signers that called the chain, in order
    effects,     \* how often the operation took effect on the chain
    overtaken    \* history: an approval of the proposer's wallet signed before its proposal did

vars == <<now, action, signatures, requests, runs, effects, overtaken>>
dbVars == <<action, signatures>>
historyVars == <<runs, effects, overtaken>>

Statuses == {"pending", "executed", "expired"}
NoAction == [status |-> "none", collected |-> 0, expiresAt |-> 0]

(* The statement a request awaits next.                                    *)
ProposeStages == {"insert", "signProposal", "countProposal"}
ApproveStages == {"sweep", "read", "check", "expire", "lookup", "sign",
                  "count", "reread", "mark", "run", "revert"}
Stages == {"new", "done"} \cup ProposeStages \cup ApproveStages

Init ==
    /\ now = 0
    /\ action = NoAction
    /\ signatures = {}
    /\ requests = [r \in Requests |-> [stage |-> "new", signer |-> "none", seen |-> "none"]]
    /\ runs = <<>>
    /\ effects = 0
    /\ overtaken = FALSE

At(r, stage) == requests[r].stage = stage
Goto(r, stage) == requests' = [requests EXCEPT ![r].stage = stage]
signer(r) == requests[r].signer
InFlight(stages) == {r \in Requests : requests[r].stage \in stages}

Tick == now < MaxTime /\ now' = now + 1 /\ UNCHANGED <<dbVars, requests, historyVars>>

(* A statement throws, or the process that serves the request dies.        *)
Abort(r) ==
    /\ requests[r].stage \notin {"new", "done"}
    /\ Goto(r, "done")
    /\ UNCHANGED <<now, dbVars, historyVars>>

-----------------------------------------------------------------------------
(* proposeAction.  Its sweep finds no row yet.  The three writes are not   *)
(* one transaction, and the row can be approved as soon as it is there.    *)
proposeAction(r, wallet) ==
    /\ At(r, "new")
    /\ InFlight(ProposeStages) = {}
    /\ action = NoAction
    /\ requests' = [requests EXCEPT ![r] =
                      [stage |-> "insert", signer |-> wallet, seen |-> "none"]]
    /\ UNCHANGED <<now, dbVars, historyVars>>

(* Mutant: the row starts with the proposer's signature already counted.   *)
InsertCounted(r) ==
    /\ At(r, "insert")
    /\ action' = [status |-> "pending", collected |-> 1, expiresAt |-> now + ActionTtl]
    /\ Goto(r, "signProposal")
    /\ UNCHANGED <<now, signatures, historyVars>>

insertPendingAdminAction(r) ==
    /\ At(r, "insert")
    /\ action' = [status |-> "pending", collected |-> 0, expiresAt |-> now + ActionTtl]
    /\ Goto(r, "signProposal")
    /\ UNCHANGED <<now, signatures, historyVars>>

(* Whether the row was inserted is not looked at: the count that follows   *)
(* assumes it was.                                                         *)
SignProposal(r) ==
    /\ At(r, "signProposal")
    /\ signatures' = signatures \cup {signer(r)}
    /\ overtaken' = (overtaken \/ signer(r) \in signatures)
    /\ Goto(r, "countProposal")
    /\ UNCHANGED <<now, action, runs, effects>>

CountProposal(r) ==
    /\ At(r, "countProposal")
    /\ action' = [action EXCEPT !.collected = @ + 1]
    /\ Goto(r, "done")
    /\ UNCHANGED <<now, signatures, historyVars>>

-----------------------------------------------------------------------------
(* approveAction.  The row is in the pending list as soon as it is there,  *)
(* for its proposer, too: the answer to a slow proposal is a 503           *)
(* (middleware/timeout.ts) while the proposal goes on.                     *)
approveAction(r, wallet) ==
    /\ At(r, "new")
    /\ action # NoAction
    /\ requests' = [requests EXCEPT ![r] =
                      [stage |-> "sweep", signer |-> wallet, seen |-> "none"]]
    /\ UNCHANGED <<now, dbVars, historyVars>>

expireStalePendingAdminActions(r) ==
    /\ At(r, "sweep")
    /\ action' = IF action.status = "pending" /\ action.expiresAt <= now
                 THEN [action EXCEPT !.status = "expired"] ELSE action
    /\ Goto(r, "read")
    /\ UNCHANGED <<now, signatures, historyVars>>

getPendingAdminActionById(r) ==
    /\ At(r, "read")
    /\ requests' = [requests EXCEPT ![r].stage = "check", ![r].seen = action.status]
    /\ UNCHANGED <<now, dbVars, historyVars>>

(* What is checked is the row as it was read.                              *)
CheckAction(r) ==
    /\ At(r, "check")
    /\ Goto(r, IF requests[r].seen # "pending" THEN "done"
               ELSE IF now > action.expiresAt THEN "expire"
               ELSE IF signer(r) \notin AdminWallets THEN "done"
               ELSE "lookup")
    /\ UNCHANGED <<now, dbVars, historyVars>>

(* updatePendingAdminActionStatus writes whatever the status has become.   *)
UpdateStatus(r, status, next) ==
    /\ action' = [action EXCEPT !.status = status]
    /\ Goto(r, next)
    /\ UNCHANGED <<now, signatures, historyVars>>

MarkExpired(r) == At(r, "expire") /\ UpdateStatus(r, "expired", "done")

getAdminActionSignature(r) ==
    /\ At(r, "lookup")
    /\ Goto(r, IF signer(r) \in signatures THEN "done" ELSE "sign")
    /\ UNCHANGED <<now, dbVars, historyVars>>

(* Mutant: the insert that found the signature there counts as well.       *)
SignEveryTime(r) ==
    /\ At(r, "sign")
    /\ signatures' = signatures \cup {signer(r)}
    /\ Goto(r, "count")
    /\ UNCHANGED <<now, action, historyVars>>

(* ON CONFLICT DO NOTHING: of two requests of one wallet that both looked  *)
(* and found nothing, one inserts.                                         *)
insertAdminActionSignature(r) ==
    /\ At(r, "sign")
    /\ signatures' = signatures \cup {signer(r)}
    /\ Goto(r, IF signer(r) \in signatures THEN "done" ELSE "count")
    /\ UNCHANGED <<now, action, historyVars>>

incrementActionSignatures(r) ==
    /\ At(r, "count")
    /\ action' = [action EXCEPT !.collected = @ + 1]
    /\ Goto(r, "reread")
    /\ UNCHANGED <<now, signatures, historyVars>>

(* Only the count is looked at again, not the status.                      *)
Reread(r) ==
    /\ At(r, "reread")
    /\ Goto(r, IF action.collected < AdminThreshold THEN "done" ELSE "mark")
    /\ UNCHANGED <<now, dbVars, historyVars>>

MarkExecuted(r) == At(r, "mark") /\ UpdateStatus(r, "executed", "run")

(* runAdminActionInternal: the operation takes effect or not, and what is  *)
(* reported may be a failure although it did: the confirmation was lost,   *)
(* or the row of a registered validator could not be written.              *)
runAdminActionInternal(r) ==
    /\ At(r, "run")
    /\ runs' = Append(runs, signer(r))
    /\ \E effect, success \in BOOLEAN :
          /\ success => effect
          /\ effects' = effects + (IF effect THEN 1 ELSE 0)
          /\ Goto(r, IF success THEN "done" ELSE "revert")
    /\ UNCHANGED <<now, dbVars, overtaken>>

RevertToPending(r) == At(r, "revert") /\ UpdateStatus(r, "pending", "done")

Propose(r) ==
    \/ \E w \in AdminWallets : proposeAction(r, w)
    \/ insertPendingAdminAction(r)
    \/ SignProposal(r)
    \/ CountProposal(r)

Approve(r) ==
    \/ \E w \in Wallets : approveAction(r, w)
    \/ expireStalePendingAdminActions(r)
    \/ getPendingAdminActionById(r)
    \/ CheckAction(r)
    \/ MarkExpired(r)
    \/ getAdminActionSignature(r)
    \/ insertAdminActionSignature(r)
    \/ incrementActionSignatures(r)
    \/ Reread(r)
    \/ MarkExecuted(r)
    \/ runAdminActionInternal(r)
    \/ RevertToPending(r)

Next == Tick \/ \E r \in Requests : Propose(r) \/ Approve(r) \/ Abort(r)

Spec == Init /\ [][Next]_vars

-----------------------------------------------------------------------------
TypeOK ==
    /\ now \in 0..MaxTime
    /\ action \in [status : Statuses, collected : 0..Cardinality(Requests),
                   expiresAt : 0..(MaxTime + ActionTtl)] \cup {NoAction}
    /\ signatures \subseteq Wallets
    /\ requests \in [Requests -> [stage : Stages, signer : Wallets \cup {"none"},
                                  seen : Statuses \cup {"none"}]]
    /\ runs \in Seq(Wallets)
    /\ effects \in 0..Len(runs)
    /\ overtaken \in BOOLEAN

(* The one signature that is counted twice, if there is one.               *)
DoubleCount == IF overtaken THEN 1 ELSE 0

(* The counter that decides on the threshold runs ahead of the signatures  *)
(* on file by at most one, and only when the proposer approved before its  *)
(* own proposal had signed; whatever else races, of the same wallet or of  *)
(* others, and wherever a request breaks off, each count has a signature   *)
(* row of its own (approveAction's insert, :425).                          *)
OnlyProposerCountsTwice ==
    action.collected + Cardinality(InFlight({"count", "countProposal"}))
      <= Cardinality(signatures) + DoubleCount

(* The chain is called only for an operation that as many wallets have     *)
(* signed as the threshold asks, every one of them an admin's; one short   *)
(* of it when the proposer was counted twice, and never more.              *)
RunsNearQuorum ==
    runs # <<>> => /\ Cardinality(signatures) + DoubleCount >= AdminThreshold
                   /\ signatures \subseteq AdminWallets

(* Retries and double clicks of one signer never call the chain twice: a   *)
(* signer's own signature triggers the operation at most once.             *)
OneRunPerSigner == IsInjective(runs)

-----------------------------------------------------------------------------
(* What the comment above approveAction says of it (adminMultiSig.ts) and  *)
(* the code does not keep: MCAdminMultiSigDocs.cfg.                        *)

(* "The same wallet cannot count twice."                                   *)
NoSignatureCountedTwice == action.collected <= Cardinality(signatures)

(* "Each signer must be a distinct wallet from config.adminWallets.  [...] *)
(* Once the threshold is reached [...] the privileged on-chain operation   *)
(* runs": as many distinct admins have signed.                             *)
RunsHaveQuorum ==
    runs # <<>> => Cardinality(signatures \cap AdminWallets) >= AdminThreshold

(* "Once the threshold is reached, status flips to 'executed' and the      *)
(* privileged on-chain operation runs exactly once."                       *)
RunsExactlyOnce == effects <= 1
=============================================================================
