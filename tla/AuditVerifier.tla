---------------------------- MODULE AuditVerifier ----------------------------
(***************************************************************************)
(* The scheduled verification of the audit chain                           *)
(* (services/auditChainVerifier.ts), in several processes, beside appends, *)
(* edits and the retention job.  Between its batches a run holds no lock.  *)
(* Time is told by what it changes: whether the last full run is recent or *)
(* a full run is due.                                                      *)
(***************************************************************************)
EXTENDS AuditLog

CONSTANTS
    Verifiers,      \* processes that run the verification
    VerifyBatch,    \* config.auditVerify.batchSize
    MaxBatches,     \* maxBatches of an incremental run
    MaxBreakOffs    \* bound on the runs that fail or are stopped

ASSUME AuditVerifierAssumption ==
    VerifyBatch \in Nat \ {0} /\ MaxBatches \in Nat \ {0} /\ MaxBreakOffs \in Nat

VARIABLES
    progress,     \* audit_verify_* of indexer_state
    runs,         \* runAuditChainVerification in each process
    breakOffs

verifierVars == <<progress, runs, breakOffs>>
vars == <<auditVars, verifierVars>>

IdleRun == [step |-> "idle", mode |-> "full", cursorId |-> 0,
            prevHash |-> GENESIS_HASH, lastFullRun |-> "never", batches |-> 0,
            brokenAt |-> 0]

Init ==
    /\ AuditInit
    /\ progress = [lastId |-> 0, lastHash |-> GENESIS_HASH, lastFullRun |-> "never"]
    /\ runs = [v \in Verifiers |-> IdleRun]
    /\ breakOffs = 0

SetRun(v, r) == runs' = [runs EXCEPT ![v] = r]

(* Mutant: one full run is enough.                                         *)
FullOnce ==
    IF progress.lastId = 0 \/ progress.lastFullRun = "never" THEN "full" ELSE "incremental"

decideMode ==
    IF progress.lastId = 0 \/ progress.lastFullRun # "recent" THEN "full" ELSE "incremental"

StartRun(v) ==
    /\ runs[v].step = "idle"
    /\ SetRun(v, IF decideMode = "full"
                 THEN [IdleRun EXCEPT !.step = "walk"]
                 ELSE [IdleRun EXCEPT !.step = "walk", !.mode = "incremental",
                           !.cursorId = progress.lastId, !.prevHash = progress.lastHash,
                           !.lastFullRun = progress.lastFullRun])
    /\ UNCHANGED <<auditVars, progress, breakOffs>>

(* The rows are in the order of their ids.                                 *)
getAuditLogRowsAfterId(cursorId) ==
    LET before == Cardinality({i \in 1..Len(auditLog) : auditLog[i].id <= cursorId})
        last == IF before + VerifyBatch < Len(auditLog) THEN before + VerifyBatch
                ELSE Len(auditLog)
    IN  SubSeq(auditLog, before + 1, last)

(* Without rows, or after a batch that is not full, the run has come to    *)
(* the end; an incremental run also ends after MaxBatches.                 *)
Advance(v, rows) ==
    LET ended == \/ Len(rows) < VerifyBatch
                 \/ runs[v].mode = "incremental" /\ runs[v].batches + 1 = MaxBatches
    IN  [runs[v] EXCEPT !.cursorId = IF rows = <<>> THEN @ ELSE rows[Len(rows)].id,
                        !.prevHash = LastHash(rows, @),
                        !.batches = IF runs[v].mode = "full" THEN 0 ELSE @ + 1,
                        !.step = IF ended THEN "persist" ELSE "walk"]

(* The run ends at the first broken link, and its progress is not kept.    *)
runAuditChainVerification(v) ==
    /\ runs[v].step = "walk"
    /\ LET rows == getAuditLogRowsAfterId(runs[v].cursorId)
           broken == BrokenLinks(rows, runs[v].prevHash)
       IN  IF broken = {}
           THEN SetRun(v, Advance(v, rows))
           ELSE SetRun(v, [IdleRun EXCEPT !.step = "report",
                    !.brokenAt = rows[CHOOSE i \in broken : \A j \in broken : i <= j].id])
    /\ UNCHANGED <<auditVars, progress, breakOffs>>

(* An audit event tells of the break, unless it cannot be written.         *)
reportBreak(v) ==
    /\ runs[v].step = "report"
    /\ insertAuditLog \/ UNCHANGED logVars
    /\ SetRun(v, IdleRun)
    /\ UNCHANGED <<checkpoints, damaged, retention, progress, breakOffs>>

(* Mutant: of the statements that keep the progress the second is lost.    *)
PersistIdOnly(v) ==
    /\ runs[v].step = "persist"
    /\ progress' = [progress EXCEPT !.lastId = runs[v].cursorId]
    /\ SetRun(v, IdleRun)
    /\ UNCHANGED <<auditVars, breakOffs>>

(* One transaction. An incremental run writes back the time of the last    *)
(* full run as it has read it.                                             *)
persistCheckpoint(v) ==
    /\ runs[v].step = "persist"
    /\ progress' = [lastId |-> runs[v].cursorId, lastHash |-> runs[v].prevHash,
                    lastFullRun |-> IF runs[v].mode = "full" THEN "recent"
                                    ELSE runs[v].lastFullRun]
    /\ SetRun(v, IdleRun)
    /\ UNCHANGED <<auditVars, breakOffs>>

(* The database fails, or the process shuts down between two batches: an   *)
(* incremental run then still keeps its progress.                          *)
BreakOff(v) ==
    /\ runs[v].step # "idle" /\ breakOffs < MaxBreakOffs
    /\ \/ SetRun(v, IdleRun)
       \/ /\ runs[v].step = "walk" /\ runs[v].mode = "incremental"
          /\ SetRun(v, [runs[v] EXCEPT !.step = "persist"])
    /\ breakOffs' = breakOffs + 1
    /\ UNCHANGED <<auditVars, progress>>

(* config.auditVerify.fullIntervalMs after the last full run: its time is  *)
(* the same wherever it has been read to.                                  *)
FullRunFallsDue ==
    /\ progress.lastFullRun = "recent"
    /\ progress' = [progress EXCEPT !.lastFullRun = "due"]
    /\ runs' = [v \in Verifiers |->
           IF runs[v].lastFullRun = "recent" THEN [runs[v] EXCEPT !.lastFullRun = "due"]
           ELSE runs[v]]
    /\ UNCHANGED <<auditVars, breakOffs>>

VerifierStep(v) ==
    StartRun(v) \/ runAuditChainVerification(v) \/ reportBreak(v) \/ persistCheckpoint(v)

Next ==
    \/ /\ \/ logAuditEvent \/ EditRow \/ DamageCheckpoint
          \/ \E p \in Replicas : RetentionStep(p)
       /\ UNCHANGED verifierVars
    \/ \E v \in Verifiers : VerifierStep(v) \/ BreakOff(v)
    \/ FullRunFallsDue

(* setInterval starts the runs, a run goes on, time passes.                *)
Fairness ==
    /\ \A v \in Verifiers : WF_vars(VerifierStep(v))
    /\ WF_vars(FullRunFallsDue)

Spec == Init /\ [][Next]_vars /\ Fairness

-----------------------------------------------------------------------------
(* The progress that is kept is the id of an event and the hash the chain  *)
(* had at that event, whichever runs of whichever processes have written   *)
(* it: a run that goes on from there finds no break of its own making.     *)
CheckpointIsGenuine == progress.lastHash = Genuine(progress.lastId)

Reported(id) == \E v \in Verifiers : runs[v].step = "report" /\ runs[v].brokenAt = id

(* An edited row is found, also if it had been verified before ("catches   *)
(* edits to rows that were already verified", docs/audit-log.md), as long  *)
(* as nothing has been archived.                                           *)
EditsAreReported ==
    EditedIds # {} ~> (\E id \in EditedIds : Reported(id)) \/ checkpoints # {}

(* What is reported as broken has been edited: "A tampered row - or a      *)
(* write bug that breaks the chain" (services/auditChainVerifier.ts).      *)
OnlyEditsAreReported ==
    \A id \in 1..MaxEvents : Reported(id) => id \in EditedIds
=============================================================================
