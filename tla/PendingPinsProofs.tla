-------------------------- MODULE PendingPinsProofs --------------------------
(***************************************************************************)
(* What pending_pins keeps, for any number of requests, processes, faults  *)
(* and attempts.                                                           *)
(***************************************************************************)
EXTENDS PendingPins, TLAPS

Steps == {"new", "wait", "insert", "poll", "check", "upload", "resolve", "queue",
          "delete", "over"}
Request == [step : Steps, process : Processes \cup {None}, late : BOOLEAN]
LiveRow == [status : {"pending", "resolved", "expired"},
            attempts : 0..MaxAttempts, cid : BOOLEAN]

Types ==
    /\ rows \in [RowIds -> Row]
    /\ requests \in [Requests -> Request]

(* A copy of the document is out of reach of deletePendingPinByHash, or is *)
(* not needed, or could not be made.                                       *)
QueueRow == \E q \in Requests : rows[<<q, "queue">>] # NoRow
Safe == pinned \/ unqueued \/ QueueRow

(* PayloadsAreKept alone is not inductive: the statement that deletes the  *)
(* rows under the hash comes last, and relies on what the steps before it  *)
(* have made sure of, also when the row it deletes is another request's.   *)
ResolvesPinned == \A r \in Requests : At(r, "resolve") => pinned
DeletesSafe == \A r \in Requests : At(r, "delete") => Safe

IInv == Types /\ ResolvesPinned /\ DeletesSafe /\ PayloadsAreKept

-----------------------------------------------------------------------------
LEMMA RowTypes == /\ Row = {NoRow} \cup LiveRow
                  /\ \A row \in LiveRow : row # NoRow
                  /\ NewRow \in LiveRow
  BY PendingPinsAssumption DEF Row, LiveRow, NoRow, NewRow, None

(* A step that takes no row out of the table and unpins nothing.           *)
Growing ==
    /\ pinned => pinned'
    /\ unqueued => unqueued'
    /\ \A k \in RowIds : rows[k] # NoRow => rows'[k] # NoRow

LEMMA GrowingKeepsSafe ==
    ASSUME Growing
    PROVE  /\ Safe => Safe'
           /\ InTable # {} => InTable' # {}
<1>1. \A q \in Requests : <<q, "queue">> \in RowIds
  BY DEF RowIds
<1>2. Safe => Safe'
  BY <1>1 DEF Safe, QueueRow, Growing
<1>3. InTable # {} => InTable' # {}
  BY DEF InTable, Growing
<1>4. QED
  BY <1>2, <1>3

(* Such a step keeps the invariant when it earns the right to the last two *)
(* statements, and what it takes is in the table.                          *)
LEMMA GrowingKeepsIInv ==
    ASSUME IInv, Growing, Types',
           taken' => taken \/ InTable' # {},
           \A q \in Requests :
               /\ At(q, "resolve")' => At(q, "resolve") \/ pinned'
               /\ At(q, "delete")' => At(q, "delete") \/ Safe'
    PROVE  IInv'
<1>1. ResolvesPinned'
  BY DEF IInv, ResolvesPinned, Growing
<1>2. DeletesSafe'
  BY GrowingKeepsSafe DEF IInv, DeletesSafe
<1>3. PayloadsAreKept'
  BY GrowingKeepsSafe DEF IInv, PayloadsAreKept, Growing
<1>4. QED
  BY <1>1, <1>2, <1>3 DEF IInv

-----------------------------------------------------------------------------
(* What the operators on requests make of them.                            *)
LEMMA MovedRequest ==
    ASSUME Types, NEW r \in Requests, NEW step \in Steps, GoTo(r, step)
    PROVE  /\ requests' \in [Requests -> Request]
           /\ \A q \in Requests, s \in Steps \ {step} : At(q, s)' => At(q, s)
<1>1. /\ requests' \in [Requests -> Request]
      /\ requests'[r].step = step
      /\ \A q \in Requests \ {r} : requests'[q] = requests[q]
  BY DEF Types, GoTo, Request
<1>2. QED
  BY <1>1 DEF At

LEMMA FinishedRequest ==
    ASSUME Types, NEW r \in Requests, Finish(r)
    PROVE  /\ requests' \in [Requests -> Request]
           /\ \A q \in Requests, s \in Steps \ {"over"} : At(q, s)' => At(q, s)
<1>1. Over \in Request
  BY DEF Over, Request, Steps
<1>2. /\ requests' \in [Requests -> Request]
      /\ \A q \in Requests : requests'[q] = requests[q] \/ requests'[q] = Over
  BY <1>1 DEF Types, Finish
<1>3. QED
  BY <1>2 DEF Over, At

(* Updates of one row leave every row in the table.                        *)
LEMMA UpdatedRow ==
    ASSUME Types, NEW k,
           \/ incrementPendingPinAttempts(k)
           \/ \E status \in {"pending", "resolved", "expired"} :
                  updatePendingPinReconciliation(k, status)
    PROVE  /\ rows' \in [RowIds -> Row]
           /\ \A id \in RowIds : rows[id] # NoRow => rows'[id] # NoRow
<1>1. CASE k \notin InTable
  BY <1>1 DEF Types, incrementPendingPinAttempts, updatePendingPinReconciliation
<1>2. CASE k \in InTable
  <2>1. k \in RowIds /\ rows[k] \in LiveRow
    BY <1>2, RowTypes DEF InTable, Types
  <2>2. \E row \in LiveRow : rows' = [rows EXCEPT ![k] = row]
    <3>1. CASE incrementPendingPinAttempts(k)
      <4>1. rows' = [rows EXCEPT ![k] = [rows[k] EXCEPT !.attempts =
                        IF rows[k].attempts < MaxAttempts THEN rows[k].attempts + 1
                        ELSE rows[k].attempts]]
        BY <1>2, <3>1 DEF incrementPendingPinAttempts
      <4>2. [rows[k] EXCEPT !.attempts =
                IF rows[k].attempts < MaxAttempts THEN rows[k].attempts + 1
                ELSE rows[k].attempts] \in LiveRow
        BY <2>1, PendingPinsAssumption DEF LiveRow
      <4>3. QED
        BY <4>1, <4>2
    <3>2. ASSUME NEW status \in {"pending", "resolved", "expired"},
                 updatePendingPinReconciliation(k, status)
          PROVE  \E row \in LiveRow : rows' = [rows EXCEPT ![k] = row]
      <4>1. rows' = [rows EXCEPT ![k] = [rows[k] EXCEPT !.status = status,
                        !.cid = rows[k].cid \/ status = "resolved"]]
        BY <1>2, <3>2, <2>1 DEF updatePendingPinReconciliation, Types
      <4>2. [rows[k] EXCEPT !.status = status,
                !.cid = rows[k].cid \/ status = "resolved"] \in LiveRow
        BY <2>1 DEF LiveRow
      <4>3. QED
        BY <4>1, <4>2
    <3>3. QED
      BY <3>1, <3>2
  <2>3. QED
    BY <2>1, <2>2, RowTypes DEF Types
<1>3. QED
  BY <1>1, <1>2

-----------------------------------------------------------------------------
LEMMA InitHolds == Init => IInv
<1> SUFFICES ASSUME Init PROVE IInv
  OBVIOUS
<1>1. Types
  <2>1. [step |-> "new", process |-> None, late |-> FALSE] \in Request
    BY DEF Request, Steps
  <2>2. QED
    BY <2>1, RowTypes DEF Init, Types
<1>2. ResolvesPinned /\ DeletesSafe /\ PayloadsAreKept
  BY DEF Init, ResolvesPinned, DeletesSafe, PayloadsAreKept, At
<1>3. QED
  BY <1>1, <1>2 DEF IInv

(* The statements of pinJson and its upload.                               *)
LEMMA PinStepKeepsIInv ==
    ASSUME IInv, NEW r \in Requests, PinStep(r)
    PROVE  IInv'
<1> USE DEF Steps
<1>0. Types
  BY DEF IInv
<1>1. CASE AcquireLock(r)
  <2>1. CASE UnderHash = {}
    <3>1. /\ GoTo(r, "upload") /\ pinned' = pinned /\ unqueued' = unqueued
          /\ rows' = [rows EXCEPT ![<<r, "lock">>] = NewRow]
          /\ <<r, "lock">> \in RowIds
      BY <1>1, <2>1 DEF AcquireLock, RowIds
    <3>2. Growing /\ rows' \in [RowIds -> Row] /\ InTable' # {}
      BY <3>1, <1>0, RowTypes DEF Growing, Types, InTable
    <3>3. Types' /\ \A q \in Requests, s \in Steps \ {"upload"} : At(q, s)' => At(q, s)
      BY <3>1, <3>2, <1>0, MovedRequest DEF Types
    <3>4. QED
      BY <3>2, <3>3, GrowingKeepsIInv
  <2>2. CASE UnderHash # {}
    <3>1. GoTo(r, "poll") /\ Growing /\ rows' = rows /\ taken' = taken
      BY <1>1, <2>2 DEF AcquireLock, Growing
    <3>2. Types' /\ \A q \in Requests, s \in Steps \ {"poll"} : At(q, s)' => At(q, s)
      BY <3>1, <1>0, MovedRequest DEF Types
    <3>3. QED
      BY <3>1, <3>2, GrowingKeepsIInv
  <2>3. QED
    BY <2>1, <2>2
<1>2. CASE PollCid(r) \/ PollLock(r)
  <2>1. Growing /\ rows' = rows /\ taken' = taken
    BY <1>2 DEF PollCid, PollLock, Growing, history
  <2>2. \/ GoTo(r, "upload") \/ GoTo(r, "check") \/ GoTo(r, "poll")
        \/ Finish(r)
    BY <1>2 DEF PollCid, PollLock
  <2>3. Types' /\ \A q \in Requests, s \in {"resolve", "delete"} : At(q, s)' => At(q, s)
    <3>1. CASE Finish(r)
      BY <3>1, <2>1, <1>0, FinishedRequest DEF Types
    <3>2. CASE \E step \in {"upload", "check", "poll"} : GoTo(r, step)
      BY <3>2, <2>1, <1>0, MovedRequest DEF Types
    <3>3. QED
      BY <3>1, <3>2, <2>2
  <2>4. QED
    BY <2>1, <2>3, GrowingKeepsIInv
<1>4. CASE Upload(r)
  <2>1. Growing /\ rows' = rows /\ taken' = taken
    <3>1. /\ rows' = rows /\ taken' = taken /\ unqueued' = unqueued
          /\ (pinned' = pinned \/ pinned' = TRUE)
      BY <1>4 DEF Upload, history
    <3>2. pinned => pinned'
      BY <3>1, Zenon
    <3>3. QED
      BY <3>1, <3>2 DEF Growing
  <2>2. CASE GoTo(r, "resolve") /\ pinned' = TRUE
    <3>1. Types' /\ \A q \in Requests, s \in Steps \ {"resolve"} : At(q, s)' => At(q, s)
      BY <2>1, <2>2, <1>0, MovedRequest DEF Types
    <3>2. QED
      BY <3>1, <2>1, <2>2, GrowingKeepsIInv
  <2>3. CASE GoTo(r, "queue")
    <3>1. Types' /\ \A q \in Requests, s \in Steps \ {"queue"} : At(q, s)' => At(q, s)
      BY <2>1, <2>3, <1>0, MovedRequest DEF Types
    <3>2. QED
      BY <3>1, <2>1, GrowingKeepsIInv
  <2>4. QED
    BY <1>4, <2>2, <2>3 DEF Upload
<1>5. CASE ResolveLock(r)
  <2>1. /\ GoTo(r, "delete") /\ rows' = setPendingPinResolvedCid
        /\ pinned' = pinned /\ unqueued' = unqueued /\ taken' = taken
    BY <1>5 DEF ResolveLock, history
  <2>2. \A k \in UnderHash : [rows[k] EXCEPT !.cid = TRUE, !.status = "resolved"] \in LiveRow
    BY <1>0, RowTypes DEF Types, UnderHash, InTable, LiveRow
  <2>3. Growing /\ rows' \in [RowIds -> Row]
    BY <2>1, <2>2, <1>0, RowTypes DEF Growing, Types, setPendingPinResolvedCid
  <2>4. Safe'
    BY <1>5, <2>1 DEF IInv, ResolvesPinned, ResolveLock, Safe
  <2>5. Types' /\ \A q \in Requests, s \in Steps \ {"delete"} : At(q, s)' => At(q, s)
    BY <2>1, <2>3, <1>0, MovedRequest DEF Types
  <2>6. QED
    BY <2>1, <2>3, <2>4, <2>5, GrowingKeepsIInv
<1>6. CASE QueuePayload(r)
  <2>1. /\ GoTo(r, "delete") /\ pinned' = pinned /\ unqueued' = unqueued
        /\ rows' = [rows EXCEPT ![<<r, "queue">>] = NewRow]
        /\ <<r, "queue">> \in RowIds
    BY <1>6 DEF QueuePayload, RowIds
  <2>2. /\ Growing /\ rows' \in [RowIds -> Row] /\ InTable' # {}
        /\ rows'[<<r, "queue">>] # NoRow
    BY <2>1, <1>0, RowTypes DEF Growing, Types, InTable
  <2>3. Safe'
    BY <2>2 DEF Safe, QueueRow
  <2>4. Types' /\ \A q \in Requests, s \in Steps \ {"delete"} : At(q, s)' => At(q, s)
    BY <2>1, <2>2, <1>0, MovedRequest DEF Types
  <2>5. QED
    BY <2>2, <2>3, <2>4, GrowingKeepsIInv
<1>7. CASE ReleaseLock(r)
  <2>1. /\ Finish(r) /\ rows' = deletePendingPinByHash /\ At(r, "delete")
        /\ pinned' = pinned /\ unqueued' = unqueued /\ taken' = taken
    BY <1>7 DEF ReleaseLock, history
  <2>2. Safe
    BY <2>1 DEF IInv, DeletesSafe
  <2>3. \A q \in Requests : /\ <<q, "queue">> \in RowIds
                            /\ rows'[<<q, "queue">>] = rows[<<q, "queue">>]
    BY <2>1 DEF deletePendingPinByHash, UnderHash, RowIds
  <2>4. Safe'
    BY <2>1, <2>2, <2>3 DEF Safe, QueueRow
  <2>5. rows' \in [RowIds -> Row]
    BY <2>1, <1>0, RowTypes DEF Types, deletePendingPinByHash
  <2>6. PayloadsAreKept'
    BY <2>3, <2>4 DEF PayloadsAreKept, Safe, QueueRow, InTable
  <2>7. Types' /\ \A q \in Requests, s \in {"resolve", "delete"} : At(q, s)' => At(q, s)
    BY <2>1, <2>5, <1>0, FinishedRequest DEF Types
  <2>8. ResolvesPinned' /\ DeletesSafe'
    BY <2>1, <2>4, <2>7 DEF IInv, ResolvesPinned, DeletesSafe
  <2>9. QED
    BY <2>6, <2>7, <2>8 DEF IInv
<1>8. QED
  BY <1>1, <1>2, <1>4, <1>5, <1>6, <1>7 DEF PinStep

(* A request begins, sees its deadline pass, or has a statement fail.      *)
LEMMA RequestKeepsIInv ==
    ASSUME IInv, NEW r \in Requests,
           StartPin(r) \/ DeadlinePasses(r) \/ StatementFails(r)
    PROVE  IInv'
<1> USE DEF Steps
<1>0. Types
  BY DEF IInv
<1>1. Growing /\ rows' = rows /\ taken' = taken
  BY DEF StartPin, DeadlinePasses, StatementFails, Growing, history
<1>2. CASE StartPin(r)
  <2>1. PICK p \in Processes : requests' = [requests EXCEPT ![r] =
            IF cached[p] THEN Over
            ELSE [step |-> IF Inflight(p) # {} THEN "wait" ELSE "insert",
                  process |-> p, late |-> FALSE]]
    BY <1>2 DEF StartPin
  <2>2. PICK step \in {"over", "wait", "insert"}, q \in Request :
            requests' = [requests EXCEPT ![r] = q] /\ q.step = step
    <3>1. \A step \in Steps : [step |-> step, process |-> p, late |-> FALSE] \in Request
      BY DEF Request
    <3>2. Over \in Request /\ Over.step = "over"
      BY DEF Over, Request
    <3>3. QED
      BY <2>1, <3>1, <3>2
  <2>3. Types' /\ \A q1 \in Requests, s \in {"resolve", "delete"} : At(q1, s)' => At(q1, s)
    BY <2>2, <1>0, <1>1 DEF Types, At
  <2>4. QED
    BY <2>3, <1>1, GrowingKeepsIInv
<1>3. CASE DeadlinePasses(r)
  <2>1. requests' = [requests EXCEPT ![r].late = TRUE]
    BY <1>3 DEF DeadlinePasses
  <2>2. /\ requests' \in [Requests -> Request]
        /\ \A q \in Requests : requests'[q].step = requests[q].step
    BY <2>1, <1>0 DEF Types, Request
  <2>3. Types' /\ \A q \in Requests, s \in Steps : At(q, s)' => At(q, s)
    BY <2>2, <1>0, <1>1 DEF Types, At
  <2>4. QED
    BY <2>3, <1>1, GrowingKeepsIInv
<1>4. CASE StatementFails(r)
  <2>1. CASE Finish(r) \/ GoTo(r, "queue")
    <3>1. Types' /\ \A q \in Requests, s \in {"resolve", "delete"} : At(q, s)' => At(q, s)
      BY <2>1, <1>0, <1>1, FinishedRequest, MovedRequest DEF Types
    <3>2. QED
      BY <3>1, <1>1, GrowingKeepsIInv
  <2>2. CASE GoTo(r, "delete") /\ unqueued' = TRUE
    <3>1. Types' /\ \A q \in Requests, s \in Steps \ {"delete"} : At(q, s)' => At(q, s)
      BY <2>2, <1>0, <1>1, MovedRequest DEF Types
    <3>2. Safe'
      BY <2>2 DEF Safe
    <3>3. QED
      BY <3>1, <3>2, <1>1, GrowingKeepsIInv
  <2>3. QED
    BY <1>4, <2>1, <2>2 DEF StatementFails
<1>5. QED
  BY <1>2, <1>3, <1>4

(* Whatever else happens leaves the requests alone or, in a crash, ends    *)
(* them.                                                                   *)
LEMMA OthersKeepIInv ==
    ASSUME IInv, Growing, rows' \in [RowIds -> Row], taken' = taken,
           \/ requests' = requests
           \/ \E p \in Processes : Crash(p)
    PROVE  IInv'
<1>0. Over \in Request /\ Over.step = "over" /\ requests \in [Requests -> Request]
  BY DEF Over, Request, Steps, IInv, Types
<1>1. CASE requests' = requests
  <2>1. Types' /\ \A q \in Requests, s \in Steps : At(q, s)' => At(q, s)
    BY <1>0, <1>1 DEF Types, At
  <2>2. QED
    BY <2>1, GrowingKeepsIInv DEF Steps
<1>2. CASE \E p \in Processes : Crash(p)
  <2>1. PICK p \in Processes : Crash(p)
    BY <1>2
  <2>2. requests' = [r \in Requests |->
            IF ProcessOf(r) = p /\ (Running(r) \/ At(r, "wait"))
            THEN Over ELSE requests[r]]
    BY <2>1 DEF Crash
  <2>3. /\ requests' \in [Requests -> Request]
        /\ \A q \in Requests : requests'[q] = requests[q] \/ requests'[q] = Over
    BY <2>2, <1>0
  <2>4. Types' /\ \A q \in Requests, s \in {"resolve", "delete"} : At(q, s)' => At(q, s)
    BY <2>3, <1>0 DEF Types, At
  <2>5. QED
    BY <2>4, GrowingKeepsIInv
<1>3. QED
  BY <1>1, <1>2

(* The jobs.  The retry takes a row out only after its upload.             *)
LEMMA JobKeepsIInv ==
    ASSUME IInv, NEW p \in Workers,
           \/ RetryStep(p) \/ StartReconcile(p) \/ ReconcileRow(p)
           \/ ReconcileRequeue(p) \/ JobFails(p)
    PROVE  IInv'
<1>0. Types
  BY DEF IInv
<1>1. CASE rows' = rows /\ requests' = requests /\ taken' = taken
           /\ unqueued' = unqueued /\ (pinned => pinned')
  BY <1>0, <1>1, OthersKeepIInv DEF Growing, Types
<1>2. CASE StartRetry(p) \/ StartReconcile(p) \/ JobFails(p)
  BY <1>1, <1>2 DEF StartRetry, StartReconcile, JobFails, history
<1>3. CASE RetryRow(p)
  <2>1. PICK k \in retry[p].todo :
            \/ pinned' = TRUE /\ rows' = [rows EXCEPT ![k] = NoRow]
            \/ pinned' \in {pinned, TRUE} /\ rows' = rows
    BY <1>3 DEF RetryRow
  <2>2. requests' = requests /\ taken' = taken /\ unqueued' = unqueued
    BY <1>3 DEF RetryRow, history
  <2>3. CASE pinned' = TRUE /\ rows' = [rows EXCEPT ![k] = NoRow]
    <3>1. Types'
      BY <2>2, <2>3, <1>0, RowTypes DEF Types
    <3>2. QED
      BY <3>1, <2>2, <2>3 DEF IInv, ResolvesPinned, DeletesSafe, Safe, PayloadsAreKept
  <2>4. CASE pinned' \in {pinned, TRUE} /\ rows' = rows
    BY <1>1, <2>2, <2>4
  <2>5. QED
    BY <2>1, <2>3, <2>4
<1>4. CASE RetryFailed(p)
  <2>1. PICK k \in retry[p].failed : incrementPendingPinAttempts(k)
    BY <1>4 DEF RetryFailed
  <2>2. /\ requests' = requests /\ taken' = taken
        /\ pinned' = pinned /\ unqueued' = unqueued
    BY <1>4 DEF RetryFailed, history
  <2>3. QED
    BY <2>1, <2>2, <1>0, UpdatedRow, OthersKeepIInv DEF Growing
<1>5. CASE ReconcileRow(p) \/ ReconcileRequeue(p)
  <2>1. PICK job \in reconcile[p] :
            \/ incrementPendingPinAttempts(job.row)
            \/ \E status \in {"pending", "resolved", "expired"} :
                   updatePendingPinReconciliation(job.row, status)
    BY <1>5 DEF ReconcileRow, ReconcileRequeue
  <2>2. /\ requests' = requests /\ taken' = taken
        /\ unqueued' = unqueued
        /\ (pinned' = pinned \/ pinned' = TRUE)
    BY <1>5 DEF ReconcileRow, ReconcileRequeue, history
  <2>3. pinned => pinned'
    BY <2>2, Zenon
  <2>4. QED
    BY <2>1, <2>2, <2>3, <1>0, UpdatedRow, OthersKeepIInv DEF Growing
<1>6. QED
  BY <1>2, <1>3, <1>4, <1>5 DEF RetryStep

LEMMA NextKeepsIInv == IInv /\ [Next]_vars => IInv'
<1> SUFFICES ASSUME IInv, [Next]_vars PROVE IInv'
  OBVIOUS
<1>1. CASE \E r \in Requests :
               StartPin(r) \/ PinStep(r) \/ DeadlinePasses(r) \/ StatementFails(r)
  BY <1>1, PinStepKeepsIInv, RequestKeepsIInv
<1>2. CASE \E p \in Workers :
               RetryStep(p) \/ StartReconcile(p) \/ ReconcileRow(p)
               \/ ReconcileRequeue(p) \/ JobFails(p)
  BY <1>2, JobKeepsIInv
<1>3. CASE \E p \in Processes : CacheExpires(p) \/ Crash(p)
  BY <1>3, OthersKeepIInv DEF CacheExpires, Crash, Growing, history, IInv, Types
<1>4. CASE UNCHANGED vars
  BY <1>4, OthersKeepIInv DEF vars, Growing, IInv, Types
<1>5. QED
  BY <1>1, <1>2, <1>3, <1>4 DEF Next

-----------------------------------------------------------------------------
(* A document that was put in pending_pins is pinned or still there, for   *)
(* any number of requests, processes, faults and attempts: setting the CID *)
(* or queueing comes before the row of the lock is deleted (services/      *)
(* ipfs.ts), and the retry deletes a row after its upload.                 *)
THEOREM PayloadsKept == Spec => []PayloadsAreKept
<1>1. IInv => PayloadsAreKept
  BY DEF IInv
<1>2. QED
  BY <1>1, InitHolds, NextKeepsIInv, PTL DEF Spec
=============================================================================
