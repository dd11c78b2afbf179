------------------------------ MODULE AuditLog ------------------------------
(***************************************************************************)
(* The hash-chained audit log: appends (db/repositories/audit.ts), the     *)
(* retention job that archives a prefix and replaces it by a signed        *)
(* checkpoint (services/retention.ts, in several replicas) and the check   *)
(* an administrator asks for (utils/auditVerify.ts).  A transaction is a   *)
(* step: the writers of the table exclude each other by lockForWrite.  The *)
(* hash function is ideal: a hash is the history it was computed from.     *)
(* Which rows are expired is left open, as their created_at is.            *)
(***************************************************************************)
EXTENDS Integers, FiniteSets, Sequences

CONSTANTS
    Replicas,       \* processes that run the retention job
    ArchiveBatch,   \* config.retention.batchSize
    MaxEvents,      \* bound on the audit events
    ReportBatch,    \* BATCH_SIZE of utils/auditVerify.ts
    MaxEdits        \* bound on what is changed behind the service's back

ASSUME AuditLogAssumption ==
    /\ ArchiveBatch \in Nat \ {0} /\ ReportBatch \in Nat \ {0}
    /\ MaxEvents \in Nat /\ MaxEdits \in Nat

VARIABLES
    auditLog,       \* the rows of audit_log in the order of their ids
    lastId,         \* the last id given out
    checkpoints,    \* the rows of audit_checkpoints with their archive files
    damaged,        \* which of them no longer are as they were written
    retention       \* pruneBatch in each replica

logVars == <<auditLog, lastId>>
auditVars == <<auditLog, lastId, checkpoints, damaged, retention>>

GENESIS_HASH == <<>>
Edited == 0
computeChainHash(content, prevHash) == Append(prevHash, content)

IdleRetention == [step |-> "idle", rows |-> <<>>, previous |-> GENESIS_HASH]

AuditInit ==
    /\ auditLog = <<>>
    /\ lastId = 0
    /\ checkpoints = {}
    /\ damaged = {}
    /\ retention = [p \in Replicas |-> IdleRetention]

LastHash(rows, ifNone) == IF rows = <<>> THEN ifNone ELSE rows[Len(rows)].hash

IsLatest(c) == \A d \in checkpoints : d.last_id <= c.last_id
LatestIsDamaged(part) == \E c \in checkpoints : IsLatest(c) /\ <<c.last_id, part>> \in damaged

(* The last_hash of the checkpoint with the largest last_id, which is read *)
(* only where its signature has been found to fit.                         *)
latestAuditCheckpoint ==
    IF checkpoints = {} THEN GENESIS_HASH
    ELSE (CHOOSE c \in checkpoints : IsLatest(c)).last_hash

SignatureFits == ~LatestIsDamaged("row")

(* Where the walk over rows, begun with prevHash, finds a broken link: the *)
(* hash before a row is the one stored in its predecessor.                 *)
BrokenLinks(rows, prevHash) ==
    {i \in 1..Len(rows) :
        LET expected == LastHash(SubSeq(rows, 1, i - 1), prevHash)
        IN  \/ rows[i].prev # expected
            \/ rows[i].hash # computeChainHash(rows[i].content, expected)}

-----------------------------------------------------------------------------
(* Mutant: the chain of an emptied table starts again from genesis.        *)
AppendForgettingCheckpoint ==
    LET id == lastId + 1
        prevHash == LastHash(auditLog, GENESIS_HASH)
    IN  /\ id <= MaxEvents /\ SignatureFits
        /\ lastId' = id
        /\ auditLog' = Append(auditLog, [id |-> id, content |-> id, prev |-> prevHash,
                                         hash |-> computeChainHash(id, prevHash)])

(* What an event says is told by its id.                                   *)
insertAuditLog ==
    LET id == lastId + 1
        prevHash == LastHash(auditLog, latestAuditCheckpoint)
    IN  /\ id <= MaxEvents /\ SignatureFits
        /\ lastId' = id
        /\ auditLog' = Append(auditLog, [id |-> id, content |-> id, prev |-> prevHash,
                                         hash |-> computeChainHash(id, prevHash)])

logAuditEvent == insertAuditLog /\ UNCHANGED <<checkpoints, damaged, retention>>

EditedIds == {auditLog[i].id : i \in {j \in 1..Len(auditLog) : auditLog[j].content = Edited}}

MayEdit == Cardinality(EditedIds) + Cardinality(damaged) < MaxEdits

(* A column is changed by somebody or something other than the service.    *)
EditRow ==
    /\ MayEdit
    /\ \E i \in 1..Len(auditLog) : auditLog' = [auditLog EXCEPT ![i].content = Edited]
    /\ UNCHANGED <<lastId, checkpoints, damaged, retention>>

(* So is a column other than its id of the latest checkpoint, the only one *)
(* that is read, or its archive file is changed or lost.                   *)
DamageCheckpoint ==
    /\ MayEdit
    /\ \E c \in checkpoints, part \in {"row", "archive"} :
          IsLatest(c) /\ damaged' = damaged \cup {<<c.last_id, part>>}
    /\ UNCHANGED <<logVars, checkpoints, retention>>

-----------------------------------------------------------------------------
(* pruneBatch of the audit log: a snapshot in one transaction, the archive *)
(* file outside of any, the deletion in a second one.                      *)
SetRetention(p, r) == retention' = [retention EXCEPT ![p] = r]
Prefixes == {SubSeq(auditLog, 1, n) :
                n \in 1..(IF ArchiveBatch < Len(auditLog) THEN ArchiveBatch ELSE Len(auditLog))}

(* The rows continue the chain as archived so far.                         *)
archiveAudit(rows, previous) == BrokenLinks(rows, previous) = {}

(* The archive is verified and written from memory before anything else    *)
(* is waited for.                                                          *)
selectBatch(p) ==
    /\ retention[p].step = "idle" /\ SignatureFits
    /\ \E rows \in Prefixes :
          /\ archiveAudit(rows, latestAuditCheckpoint)
          /\ SetRetention(p, [step |-> "archived", rows |-> rows,
                              previous |-> latestAuditCheckpoint])
    /\ UNCHANGED <<logVars, checkpoints, damaged>>

(* A file that cannot be written, or a crash: a file that has been written *)
(* stays without a checkpoint.                                             *)
RetentionFails(p) ==
    /\ retention[p].step # "idle"
    /\ SetRetention(p, IdleRetention)
    /\ UNCHANGED <<logVars, checkpoints, damaged>>

Checkpoint(p) ==
    LET rows == retention[p].rows
    IN  [last_id |-> rows[Len(rows)].id, last_hash |-> LastHash(rows, GENESIS_HASH),
         previous_hash |-> retention[p].previous, rows |-> rows]

DeletePrefix(n) == auditLog' = SubSeq(auditLog, n + 1, Len(auditLog))

(* Mutant: deletes as many rows as it has archived.                        *)
PruneWithoutRecheck(p) ==
    /\ retention[p].step = "archived"
    /\ checkpoints' = checkpoints \cup {Checkpoint(p)}
    /\ DeletePrefix(Len(retention[p].rows))
    /\ SetRetention(p, IdleRetention)
    /\ UNCHANGED <<lastId, damaged>>

(* The prefix selected again is the one archived, and no other replica has *)
(* set a checkpoint: otherwise the batch ends without an effect, as it     *)
(* does if more rows have expired or an earlier one has been edited.       *)
pruneBatch(p) ==
    /\ retention[p].step = "archived"
    /\ \/ /\ retention[p].rows \in Prefixes
          /\ SignatureFits /\ latestAuditCheckpoint = retention[p].previous
          /\ checkpoints' = checkpoints \cup {Checkpoint(p)}
          /\ DeletePrefix(Len(retention[p].rows))
       \/ UNCHANGED <<auditLog, checkpoints>>
    /\ SetRetention(p, IdleRetention)
    /\ UNCHANGED <<lastId, damaged>>

RetentionStep(p) ==
    selectBatch(p) \/ RetentionFails(p) \/ pruneBatch(p)

-----------------------------------------------------------------------------
(* GET /api/admin/audit/verify: the snapshot under the lock, its walk and  *)
(* the report.  The walk goes on from the hash a row has stored.           *)

(* The transaction throws if the database or the archive cannot be read.   *)
auditSnapshot(readable) ==
    /\ readable /\ SignatureFits
    /\ ~LatestIsDamaged("archive")     \* verifyCheckpointArchive
    /\ \A i \in 1..Len(auditLog), c \in checkpoints : auditLog[i].id > c.last_id

CheckpointViolation == 0
NoSnapshot == [status |-> "tampered", violations |-> {CheckpointViolation}, rows_checked |-> 0]

Report(status, n) ==
    [status |-> status, rows_checked |-> n,
     violations |-> {auditLog[i].id :
                        i \in {j \in BrokenLinks(auditLog, latestAuditCheckpoint) : j <= n}}]

(* The reports there may be: the deadline may have passed after any batch, *)
(* the last one included.                                                  *)
verifyAuditChainFull(readable) ==
    IF ~auditSnapshot(readable) THEN {NoSnapshot}
    ELSE LET all == Len(auditLog)
             broken == BrokenLinks(auditLog, latestAuditCheckpoint)
         IN  {Report("timeout", n) : n \in {m \in 1..all : m % ReportBatch = 0 \/ m = all}}
                \cup {Report(IF broken = {} THEN "ok" ELSE "tampered", all)}

Genuine(n) == [i \in 1..n |-> i]

(* Nothing that was logged is lost or told twice: archived or live, once   *)
(* and in order, whichever replicas archive and whatever was appended or   *)
(* edited between a snapshot and its deletion.  What is archived is as it  *)
(* was logged, and every archive starts where another ends.                *)
HistoryIsComplete ==
    LET Archived(c) == [i \in 1..Len(c.rows) |-> c.rows[i].id]
        first(c) == c.rows[1].id
    IN  /\ \A c \in checkpoints :
              /\ \A i \in 1..Len(c.rows) : c.rows[i].content = c.rows[i].id
              /\ c.last_hash = Genuine(c.last_id)
              /\ c.previous_hash = Genuine(first(c) - 1)
              /\ Archived(c) = [i \in 1..Len(c.rows) |-> first(c) + i - 1]
              /\ first(c) = 1 \/ \E d \in checkpoints : d.last_id = first(c) - 1
        /\ \A i \in 1..Len(auditLog) : auditLog[i].id = lastId - Len(auditLog) + i
        /\ Len(auditLog) < lastId =>
              \E c \in checkpoints : c.last_id = lastId - Len(auditLog)
        /\ \A c \in checkpoints : c.last_id <= lastId - Len(auditLog)

(* The administrator's report tells the truth.  The checkpoint is reported *)
(* just when it cannot be read or the latest is damaged: archiving alone   *)
(* never brings that about.  Otherwise the violations are the edited among *)
(* the rows checked, and a walk that came to its end says "ok" just when   *)
(* no live row has been edited.                                            *)
VerifyIsExact ==
    \A readable \in BOOLEAN : \A report \in verifyAuditChainFull(readable) :
        LET undamaged == ~LatestIsDamaged("row") /\ ~LatestIsDamaged("archive")
            checked == {auditLog[i].id : i \in 1..report.rows_checked}
        IN  /\ report = NoSnapshot <=> ~(readable /\ undamaged)
            /\ report # NoSnapshot => report.violations = EditedIds \cap checked
            /\ report.status = "ok" => undamaged /\ EditedIds = {}
            /\ report.status = "tampered" /\ undamaged /\ readable => EditedIds # {}
=============================================================================
