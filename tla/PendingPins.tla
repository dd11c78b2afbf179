----------------------------- MODULE PendingPins -----------------------------
(***************************************************************************)
(* services/ipfs.ts and db/repositories/pendingPins.ts: one JSON document  *)
(* is pinned on IPFS by requests of several processes, and the table       *)
(* pending_pins is at once the mutex of the processes (a row that bears    *)
(* the document's hash), the place where the winner leaves the CID, and    *)
(* the queue of what could not be pinned (rows without a hash).  Two jobs  *)
(* of every process work through the same rows: retryPendingPins and       *)
(* reconcilePendingPins.                                                   *)
(*                                                                         *)
(* The document is one, so a CID is told by whether there is one; an open  *)
(* circuit breaker, a timeout and a client that hangs up are uploads that  *)
(* fail.                                                                   *)
(***************************************************************************)
EXTENDS Naturals, FiniteSets

CONSTANTS
    Requests, Processes,
    Workers,        \* the processes whose jobs are followed
    BatchSize,      \* bound on the rows that a run of a job takes up
    MaxAttempts,    \* MAX_RETRIES and config.ipfsReconcileMaxAttempts
    MaxFaults       \* bound on crashes and on statements the database fails

ASSUME PendingPinsAssumption ==
    /\ Workers \subseteq Processes /\ BatchSize \in Nat \ {0}
    /\ MaxAttempts \in Nat \ {0} /\ MaxFaults \in Nat

VARIABLES
    rows,        \* pending_pins
    requests,    \* pinJson, one record per request
    cached,      \* pinJsonCache of each process
    retry,       \* retryPendingPins of each process
    reconcile,   \* reconcilePendingPins of each process
    pinned,      \* Pinata has the document
    taken,       \* a request has put the document in the table (history)
    unqueued,    \* the queue could not be written (history)
    faults

history == <<taken, unqueued>>
jobs == <<retry, reconcile>>
vars == <<rows, requests, cached, retry, reconcile, pinned, taken, unqueued, faults>>

(* A request can insert a row under the hash and one without; a row is     *)
(* known by who has inserted it, which stands for its id.                  *)
RowIds == Requests \X {"lock", "queue"}

None == "none"
NoRow == [status |-> None]
NewRow == [status |-> "pending", attempts |-> 0, cid |-> FALSE]
Row == {NoRow} \cup [status : {"pending", "resolved", "expired"},
                     attempts : 0..MaxAttempts, cid : BOOLEAN]

InTable == {k \in RowIds : rows[k] # NoRow}
UnderHash == {k \in InTable : k[2] = "lock"}
Pending == {k \in InTable : rows[k].status = "pending"}

NoRetry == [todo |-> {}, failed |-> {}]

Init ==
    /\ rows = [k \in RowIds |-> NoRow]
    /\ requests = [r \in Requests |-> [step |-> "new", process |-> None, late |-> FALSE]]
    /\ cached = [p \in Processes |-> FALSE]
    /\ retry = [p \in Processes |-> NoRetry]
    /\ reconcile = [p \in Processes |-> {}]
    /\ pinned = FALSE /\ taken = FALSE /\ unqueued = FALSE /\ faults = 0

ProcessOf(r) == requests[r].process
At(r, step) == requests[r].step = step
Running(r) == requests[r].step \in
    {"insert", "poll", "check", "upload", "resolve", "queue", "delete"}

(* inflightPins: a process has one running request, the others wait for it.*)
Inflight(p) == {r \in Requests : ProcessOf(r) = p /\ Running(r)}

GoTo(r, step) == requests' = [requests EXCEPT ![r].step = step]

(* A request that is over has been answered, with the CID or an error, or  *)
(* its process has crashed.                                                *)
Over == [step |-> "over", process |-> None, late |-> FALSE]

(* The promise is settled for the request and for those that wait for it.  *)
Finish(r) ==
    requests' = [q \in Requests |->
        IF q = r \/ (At(q, "wait") /\ ProcessOf(q) = ProcessOf(r))
        THEN Over ELSE requests[q]]

(* setPendingPinResolvedCid and deletePendingPinByHash do not ask whose    *)
(* row it is.                                                              *)
setPendingPinResolvedCid ==
    [k \in RowIds |-> IF k \in UnderHash
                      THEN [rows[k] EXCEPT !.cid = TRUE, !.status = "resolved"] ELSE rows[k]]
deletePendingPinByHash == [k \in RowIds |-> IF k \in UnderHash THEN NoRow ELSE rows[k]]

SetCached(p) == cached' = [cached EXCEPT ![p] = TRUE]

-----------------------------------------------------------------------------
(* pinJson                                                                 *)

StartPin(r) ==
    /\ At(r, "new")
    /\ \E p \in Processes :
          requests' = [requests EXCEPT ![r] =
              IF cached[p] THEN Over
              ELSE [step |-> IF Inflight(p) # {} THEN "wait" ELSE "insert",
                    process |-> p, late |-> FALSE]]
    /\ UNCHANGED <<rows, cached, jobs, pinned, history, faults>>

(* INSERT ... ON CONFLICT (hash) DO NOTHING.                               *)
AcquireLock(r) ==
    /\ At(r, "insert")
    /\ IF UnderHash = {}
       THEN rows' = [rows EXCEPT ![<<r, "lock">>] = NewRow] /\ taken' = TRUE /\ GoTo(r, "upload")
       ELSE UNCHANGED <<rows, taken>> /\ GoTo(r, "poll")
    /\ UNCHANGED <<cached, jobs, pinned, unqueued, faults>>

(* MAX_POLL_MS have passed; the loop notices when it comes round.          *)
DeadlinePasses(r) ==
    /\ requests[r].step \in {"poll", "check"} /\ ~requests[r].late
    /\ requests' = [requests EXCEPT ![r].late = TRUE]
    /\ UNCHANGED <<rows, cached, jobs, pinned, history, faults>>

(* Mutant: the loop goes on as long as the lock is held.                   *)
PollUntilReleased(r) ==
    /\ At(r, "poll")
    /\ IF \E k \in UnderHash : rows[k].cid
       THEN SetCached(ProcessOf(r)) /\ Finish(r)
       ELSE GoTo(r, "check") /\ UNCHANGED cached
    /\ UNCHANGED <<rows, jobs, pinned, history, faults>>

(* A turn of the loop: the first of its two reads.  (The cache, which it   *)
(* also asks, is filled by this request alone.)                            *)
PollCid(r) ==
    /\ At(r, "poll")
    /\ IF requests[r].late
       THEN GoTo(r, "upload") /\ UNCHANGED cached
       ELSE IF \E k \in UnderHash : rows[k].cid
            THEN SetCached(ProcessOf(r)) /\ Finish(r)
            ELSE GoTo(r, "check") /\ UNCHANGED cached
    /\ UNCHANGED <<rows, jobs, pinned, history, faults>>

(* The second: without a pending row the request uploads by itself.        *)
PollLock(r) ==
    /\ At(r, "check")
    /\ GoTo(r, IF UnderHash \cap Pending # {} THEN "poll" ELSE "upload")
    /\ UNCHANGED <<rows, cached, jobs, pinned, history, faults>>

(* A call that fails may have had its effect.                              *)
Upload(r) ==
    /\ At(r, "upload")
    /\ \/ pinned' = TRUE /\ GoTo(r, "resolve")
       \/ pinned' \in {pinned, TRUE} /\ GoTo(r, "queue")
    /\ UNCHANGED <<rows, cached, jobs, history, faults>>

ResolveLock(r) ==
    /\ At(r, "resolve")
    /\ rows' = setPendingPinResolvedCid
    /\ SetCached(ProcessOf(r))
    /\ GoTo(r, "delete")
    /\ UNCHANGED <<jobs, pinned, history, faults>>

(* Mutant: queued under the hash, where the lock's row is in the way.      *)
QueueUnderHash(r) ==
    /\ At(r, "queue")
    /\ rows' = IF UnderHash = {} THEN [rows EXCEPT ![<<r, "lock">>] = NewRow] ELSE rows
    /\ GoTo(r, "delete")
    /\ UNCHANGED <<cached, jobs, pinned, history, faults>>

QueuePayload(r) ==
    /\ At(r, "queue")
    /\ rows' = [rows EXCEPT ![<<r, "queue">>] = NewRow]
    /\ taken' = TRUE
    /\ GoTo(r, "delete")
    /\ UNCHANGED <<cached, jobs, pinned, unqueued, faults>>

ReleaseLock(r) ==
    /\ At(r, "delete")
    /\ rows' = deletePendingPinByHash
    /\ Finish(r)
    /\ UNCHANGED <<cached, jobs, pinned, history, faults>>

(* A statement fails: before the upload the request fails, after it the    *)
(* document is queued; what cannot be queued or deleted is left so.        *)
StatementFails(r) ==
    /\ faults < MaxFaults
    /\ \/ /\ requests[r].step \in {"insert", "poll", "check", "delete"}
          /\ Finish(r) /\ UNCHANGED unqueued
       \/ At(r, "resolve") /\ GoTo(r, "queue") /\ UNCHANGED unqueued
       \/ /\ At(r, "queue") /\ unqueued' = TRUE
          /\ GoTo(r, "delete")
    /\ faults' = faults + 1
    /\ UNCHANGED <<rows, cached, jobs, pinned, taken>>

PinStep(r) ==
    \/ AcquireLock(r) \/ PollCid(r) \/ PollLock(r) \/ Upload(r)
    \/ ResolveLock(r) \/ QueuePayload(r) \/ ReleaseLock(r)

-----------------------------------------------------------------------------
(* The jobs                                                                *)

(* An attempt counts up to the limit it is compared with.                  *)
incrementPendingPinAttempts(k) ==
    rows' = IF k \notin InTable THEN rows
            ELSE [rows EXCEPT ![k].attempts = IF @ < MaxAttempts THEN @ + 1 ELSE @]

(* The rows whose back-off has elapsed: which they are is left open.       *)
StartRetry(p) ==
    /\ retry[p] = NoRetry
    /\ \E due \in SUBSET {k \in Pending : rows[k].attempts < MaxAttempts} \ {{}} :
          /\ Cardinality(due) <= BatchSize
          /\ retry' = [retry EXCEPT ![p].todo = due]
    /\ UNCHANGED <<rows, requests, cached, reconcile, pinned, history, faults>>

(* The document is in the list read at the start: whether the row is still *)
(* there is not asked.                                                     *)
RetryRow(p) ==
    /\ retry[p].failed = {}
    /\ \E k \in retry[p].todo :
          \/ /\ pinned' = TRUE
             /\ rows' = [rows EXCEPT ![k] = NoRow]
             /\ retry' = [retry EXCEPT ![p].todo = @ \ {k}]
          \/ /\ pinned' \in {pinned, TRUE} /\ UNCHANGED rows
             /\ retry' = [retry EXCEPT ![p] = [todo |-> @.todo \ {k}, failed |-> {k}]]
    /\ UNCHANGED <<requests, cached, reconcile, history, faults>>

RetryFailed(p) ==
    /\ \E k \in retry[p].failed : incrementPendingPinAttempts(k)
    /\ retry' = [retry EXCEPT ![p].failed = {}]
    /\ UNCHANGED <<requests, cached, reconcile, pinned, history, faults>>

(* The rows older than the threshold, at most a batch of them.             *)
StartReconcile(p) ==
    /\ reconcile[p] = {}
    /\ \E stale \in SUBSET Pending \ {{}} :
          /\ Cardinality(stale) <= BatchSize
          /\ reconcile' = [reconcile EXCEPT ![p] =
                  {[row |-> k, attempts |-> rows[k].attempts, step |-> "look"] : k \in stale}]
    /\ UNCHANGED <<rows, requests, cached, retry, pinned, history, faults>>

(* UPDATE ... WHERE id = ?, whatever the row has become.                   *)
updatePendingPinReconciliation(k, status) ==
    rows' = IF k \notin InTable THEN rows
            ELSE [rows EXCEPT ![k].status = status,
                              ![k].cid = @ \/ status = "resolved"]

(* A row is resolved when Pinata or a gateway has the document or takes it *)
(* now, expired after its last attempt, and otherwise counted up first and *)
(* set back to pending after.                                              *)
ReconcileRow(p) ==
    /\ \A job \in reconcile[p] : job.step = "look"
    /\ \E job \in reconcile[p] :
          LET done == reconcile' = [reconcile EXCEPT ![p] = @ \ {job}]
          IN  \/ /\ pinned \/ job.attempts < MaxAttempts
                 /\ updatePendingPinReconciliation(job.row, "resolved")
                 /\ pinned' = TRUE /\ done
              \/ /\ job.attempts >= MaxAttempts
                 /\ updatePendingPinReconciliation(job.row, "expired")
                 /\ UNCHANGED pinned /\ done
              \/ /\ job.attempts < MaxAttempts
                 /\ pinned' \in {pinned, TRUE}
                 /\ incrementPendingPinAttempts(job.row)
                 /\ reconcile' = [reconcile EXCEPT ![p] =
                        (@ \ {job}) \cup {[job EXCEPT !.step = "requeue"]}]
    /\ UNCHANGED <<requests, cached, retry, history, faults>>

ReconcileRequeue(p) ==
    /\ \E job \in reconcile[p] :
          /\ job.step = "requeue"
          /\ updatePendingPinReconciliation(job.row, "pending")
          /\ reconcile' = [reconcile EXCEPT ![p] = @ \ {job}]
    /\ UNCHANGED <<requests, cached, retry, pinned, history, faults>>

(* A statement that fails ends the run of the job.                         *)
JobFails(p) ==
    /\ faults < MaxFaults
    /\ \/ retry[p] # NoRetry /\ retry' = [retry EXCEPT ![p] = NoRetry] /\ UNCHANGED reconcile
       \/ reconcile[p] # {} /\ reconcile' = [reconcile EXCEPT ![p] = {}] /\ UNCHANGED retry
    /\ faults' = faults + 1
    /\ UNCHANGED <<rows, requests, cached, pinned, history>>

RetryStep(p) == StartRetry(p) \/ RetryRow(p) \/ RetryFailed(p)

-----------------------------------------------------------------------------
CacheExpires(p) ==
    /\ cached[p]
    /\ cached' = [cached EXCEPT ![p] = FALSE]
    /\ UNCHANGED <<rows, requests, jobs, pinned, history, faults>>

(* The table survives; the requests under way get no answer.               *)
Crash(p) ==
    /\ faults < MaxFaults
    /\ faults' = faults + 1
    /\ requests' = [r \in Requests |->
           IF ProcessOf(r) = p /\ (Running(r) \/ At(r, "wait"))
           THEN Over ELSE requests[r]]
    /\ cached' = [cached EXCEPT ![p] = FALSE]
    /\ retry' = [retry EXCEPT ![p] = NoRetry]
    /\ reconcile' = [reconcile EXCEPT ![p] = {}]
    /\ UNCHANGED <<rows, pinned, history>>

Next ==
    \/ \E r \in Requests : StartPin(r) \/ PinStep(r) \/ DeadlinePasses(r) \/ StatementFails(r)
    \/ \E p \in Workers :
          RetryStep(p) \/ StartReconcile(p) \/ ReconcileRow(p) \/ ReconcileRequeue(p)
          \/ JobFails(p)
    \/ \E p \in Processes : CacheExpires(p) \/ Crash(p)

(* A call returns or times out, time passes, setInterval starts the retry  *)
(* job.  The reconciliation posts without a timeout: it may hang.          *)
Fairness ==
    /\ \A r \in Requests : WF_vars(PinStep(r)) /\ WF_vars(DeadlinePasses(r))
    /\ \A p \in Workers : WF_vars(RetryStep(p))

Spec == Init /\ [][Next]_vars /\ Fairness

-----------------------------------------------------------------------------
TypeOK ==
    /\ rows \in [RowIds -> Row]
    /\ \A r \in Requests : Running(r) \/ requests[r].step \in {"new", "wait", "over"}
    /\ cached \in [Processes -> BOOLEAN]
    /\ \A p \in Processes : retry[p].todo \subseteq RowIds /\ Cardinality(retry[p].failed) <= 1
    /\ pinned \in BOOLEAN /\ taken \in BOOLEAN /\ unqueued \in BOOLEAN
    /\ faults \in 0..MaxFaults

(* A document that has once been put in the table is pinned or still there *)
(* ("The JSON payload is queued in the pending_pins SQLite table for async *)
(* retry", services/ipfs.ts), though the process may crash, others delete  *)
(* the lock's row by its hash, and both jobs work on what they have read   *)
(* earlier.  Only a statement of the queue that fails loses it.            *)
PayloadsAreKept == taken => pinned \/ InTable # {} \/ unqueued

(* A request that has begun is answered, or lost with its process, though  *)
(* the holder of the lock may have crashed; and a row in the table is      *)
(* pinned or has used up its attempts.                                     *)
Unfinished ==
    \/ \E r \in Requests : Running(r) \/ At(r, "wait")
    \/ \E k \in Pending : rows[k].attempts < MaxAttempts

NothingWaitsForever == Unfinished ~> ~Unfinished
=============================================================================
