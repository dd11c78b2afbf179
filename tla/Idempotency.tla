----------------------------- MODULE Idempotency -----------------------------
(***************************************************************************)
(* One Idempotency-Key sent by several requests, in any number of server   *)
(* processes (middleware/idempotency.ts over db/repositories/              *)
(* idempotency.ts), with the request timeout of middleware/timeout.ts and  *)
(* the purge of expired keys.  Each awaited statement is a step.           *)
(*                                                                         *)
(* A duplicate waits on utils/inflightLock.ts: it looks again when the     *)
(* first request of its own process has answered, at once when that is in  *)
(* another process, or gives up.  Here it may look again or give up at any *)
(* moment.                                                                 *)
(***************************************************************************)
EXTENDS Integers, FiniteSets

CONSTANTS
    Requests,
    Fingerprints,   \* options.requestFingerprint(req)
    Lease,          \* IDEMPOTENCY_LEASE_MS
    Ttl,            \* IDEMPOTENCY_TTL_MS
    MaxTime         \* bound on the clock

ASSUME IdempotencyAssumption ==
    /\ Lease \in Nat /\ Ttl \in Nat /\ MaxTime \in Nat
    /\ Lease < Ttl
    /\ IsFiniteSet(Requests)

VARIABLES
    now,
    record,      \* the row of idempotency_keys, or NoRecord
    requests     \* where each request is and what became of it

vars == <<now, record, requests>>

Nobody == "nobody"
NoRecord == [status |-> "none", print |-> "none", response |-> Nobody,
             lockedUntil |-> 0, expiresAt |-> 0]

Stages == {"new", "lookup", "reclaim", "insert", "reread", "wait", "handle", "done"}
Answers == {"none", "own", "timeout", "replay", "conflict", "inProgress"}

Init ==
    /\ now = 0
    /\ record = NoRecord
    /\ requests \in
         [Requests -> [stage : {"new"}, print : Fingerprints, lease : {0}, guarded : {FALSE},
                       run : {"none"}, answer : {"none"}, from : {Nobody}, writes : {{}}]]

At(r, stage) == requests[r].stage = stage
Goto(r, stage) == requests' = [requests EXCEPT ![r].stage = stage]

(* The response is sent; the handler of the request is not running.        *)
Respond(r, answer, from) ==
    requests' = [requests EXCEPT ![r].stage = "done", ![r].answer = answer,
                                 ![r].from = from]

(* next(): the handler runs, with res.json intercepted if guarded.         *)
RunHandler(r, guarded) ==
    requests' = [requests EXCEPT ![r].stage = "handle", ![r].run = "running",
                                 ![r].guarded = guarded,
                                 ![r].lease = IF guarded THEN now + Lease ELSE 0]

ServeRecord(r) == Respond(r, "replay", record.response)
PrintsDiffer(r) == record.print # requests[r].print

Tick == now < MaxTime /\ now' = now + 1 /\ UNCHANGED <<record, requests>>

-----------------------------------------------------------------------------
Arrive(r) == At(r, "new") /\ Goto(r, "lookup") /\ UNCHANGED <<now, record>>

Live == record # NoRecord /\ record.expiresAt > now
Complete == Live /\ record.status = "complete"

(* getIdempotencyRecord, and what the middleware makes of it.              *)
getIdempotencyRecord(r) ==
    /\ At(r, "lookup")
    /\ IF ~Live THEN Goto(r, "reclaim")
       ELSE IF record.status = "pending" THEN Goto(r, "wait")
       ELSE IF PrintsDiffer(r) THEN Respond(r, "conflict", Nobody)
       ELSE ServeRecord(r)
    /\ UNCHANGED <<now, record>>

Claimed(r) == [status |-> "pending", print |-> requests[r].print, response |-> Nobody,
               lockedUntil |-> now + Lease, expiresAt |-> now + Ttl]

(* Mutant: the lease of an answered key can be taken over too.             *)
ReclaimAnyStatus(r) ==
    /\ At(r, "reclaim")
    /\ IF record # NoRecord /\ record.lockedUntil < now
       THEN record' = Claimed(r) /\ RunHandler(r, TRUE)
       ELSE record' = record /\ Goto(r, "insert")
    /\ UNCHANGED now

(* claimIdempotencyKey: an UPDATE of a pending row whose lease has passed, *)
(* then an INSERT that does nothing where there is a row.                  *)
Reclaim(r) ==
    /\ At(r, "reclaim")
    /\ IF record.status = "pending" /\ record.lockedUntil < now
       THEN record' = Claimed(r) /\ RunHandler(r, TRUE)
       ELSE record' = record /\ Goto(r, "insert")
    /\ UNCHANGED now

(* Mutant: the insert replaces the row it conflicts with.                  *)
InsertReplacing(r) ==
    /\ At(r, "insert")
    /\ record' = Claimed(r) /\ RunHandler(r, TRUE)
    /\ UNCHANGED now

InsertClaim(r) ==
    /\ At(r, "insert")
    /\ IF record = NoRecord
       THEN record' = Claimed(r) /\ RunHandler(r, TRUE)
       ELSE record' = record /\ Goto(r, "reread")
    /\ UNCHANGED now

(* Lost the race: a complete record is served as it is.                    *)
Reread(r) ==
    /\ At(r, "reread")
    /\ IF Complete THEN ServeRecord(r) ELSE Goto(r, "wait")
    /\ UNCHANGED <<now, record>>

(* A statement of the middleware throws: the request is handled as if it   *)
(* carried no key.                                                         *)
Bypass(r) ==
    /\ requests[r].stage \in {"lookup", "reclaim", "insert", "reread"}
    /\ RunHandler(r, FALSE)
    /\ UNCHANGED <<now, record>>

(* waitForCompletion.                                                      *)
LookAgain(r) ==
    /\ At(r, "wait")
    /\ IF ~Complete THEN Respond(r, "inProgress", Nobody)
       ELSE IF PrintsDiffer(r) THEN Respond(r, "conflict", Nobody)
       ELSE ServeRecord(r)
    /\ UNCHANGED <<now, record>>

GiveUpWaiting(r) ==
    /\ At(r, "wait")
    /\ Respond(r, "inProgress", Nobody)
    /\ UNCHANGED <<now, record>>

-----------------------------------------------------------------------------
(* The handler answers.  The intercepted res.json starts the write of the  *)
(* outcome and does not wait for it: "complete" for a 2xx or a final 4xx,  *)
(* "drop" for what may be retried (and for a response without a body).     *)
TimedOut(r) == requests[r].answer = "timeout"

EndHandler(r, outcome, writes) ==
    requests' = [requests EXCEPT
        ![r].stage = "done", ![r].run = outcome,
        ![r].answer = IF TimedOut(r) THEN @ ELSE "own",
        ![r].writes = IF requests[r].guarded THEN @ \cup writes ELSE @]

HandlerFails(r) ==
    /\ At(r, "handle")
    /\ EndHandler(r, "failed", {"drop"})
    /\ UNCHANGED <<now, record>>

(* After a timeout the second response cannot be sent, the error that this *)
(* raises may be answered through res.json once more, with a 500.          *)
HandlerSucceeds(r) ==
    /\ At(r, "handle")
    /\ \/ EndHandler(r, "succeeded", {"complete"})
       \/ TimedOut(r) /\ EndHandler(r, "succeeded", {"complete", "drop"})
    /\ UNCHANGED <<now, record>>

TimeoutAnswer(r, write) ==
    /\ At(r, "handle")
    /\ ~TimedOut(r)
    /\ requests' = [requests EXCEPT
           ![r].answer = "timeout",
           ![r].writes = IF requests[r].guarded THEN @ \cup {write} ELSE @]
    /\ UNCHANGED <<now, record>>

(* Mutant: the 503 counts as an outcome to keep.                           *)
CacheTimeout(r) == TimeoutAnswer(r, "complete")

(* sendTimeout answers 503 through the intercepted res.json; the handler   *)
(* is not stopped.                                                         *)
sendTimeout(r) == TimeoutAnswer(r, "drop503")

(* updateIdempotencyRecord, at last.  The key alone says whose row it is.  *)
updateIdempotencyRecord(r) ==
    /\ \E w \in requests[r].writes :
          /\ requests' = [requests EXCEPT ![r].writes = @ \ {w}]
          /\ record' = IF record = NoRecord THEN record
                       ELSE IF w = "complete"
                       THEN [record EXCEPT !.status = "complete", !.response = r]
                       ELSE IF record.status = "pending" THEN NoRecord ELSE record
    /\ UNCHANGED now

(* The process dies: nothing it had under way happens any more.            *)
Crash(r) ==
    /\ ~At(r, "new")
    /\ ~At(r, "done") \/ requests[r].writes # {}
    /\ requests' = [requests EXCEPT ![r].stage = "done", ![r].writes = {}]
    /\ UNCHANGED <<now, record>>

purgeExpiredIdempotencyKeys ==
    /\ record # NoRecord /\ record.expiresAt < now
    /\ record' = NoRecord
    /\ UNCHANGED <<now, requests>>

Next ==
    \/ Tick
    \/ purgeExpiredIdempotencyKeys
    \/ \E r \in Requests :
          \/ Arrive(r) \/ getIdempotencyRecord(r) \/ Reclaim(r) \/ InsertClaim(r)
          \/ Reread(r) \/ Bypass(r) \/ LookAgain(r) \/ GiveUpWaiting(r)
          \/ HandlerFails(r) \/ HandlerSucceeds(r) \/ sendTimeout(r)
          \/ updateIdempotencyRecord(r) \/ Crash(r)

Spec == Init /\ [][Next]_vars

-----------------------------------------------------------------------------
TypeOK ==
    /\ now \in 0..MaxTime
    /\ record \in [status : {"pending", "complete"}, print : Fingerprints,
                   response : Requests \cup {Nobody}, lockedUntil : 0..(MaxTime + Lease),
                   expiresAt : 0..(MaxTime + Ttl)] \cup {NoRecord}
    /\ requests \in [Requests ->
           [stage : Stages, print : Fingerprints, guarded : BOOLEAN,
            lease : 0..(MaxTime + Lease),
            run : {"none", "running", "succeeded", "failed"}, answer : Answers,
            from : Requests \cup {Nobody},
            writes : SUBSET {"complete", "drop", "drop503"}]]

Ran == {r \in Requests : requests[r].run # "none"}

(* No handler has failed, been answered for by the timeout, or been run    *)
(* past a broken database.                                                 *)
Undisturbed ==
    \A r \in Ran : requests[r].guarded /\ ~TimedOut(r) /\ requests[r].run # "failed"

(* Of requests with one key, however they overlap and whichever of them    *)
(* crash, at most one at a time runs its handler under an unexpired lease. *)
OneLeaseHolder ==
    Undisturbed =>
        Cardinality({r \in Requests : At(r, "handle") /\ now <= requests[r].lease}) <= 1

(* What is served to a duplicate is the final answer of a request whose    *)
(* handler came to it, never the 503 of a timeout or a retryable failure.  *)
ReplaysAreAnswers ==
    \A r \in Requests :
        requests[r].answer = "replay" => /\ requests[r].from \in Requests
                                         /\ requests[requests[r].from].run = "succeeded"

(* The answer of the one request that ran is kept until the key expires:   *)
(* duplicates that looked the key up before it was claimed, and try to     *)
(* claim it whenever they get to, do not take it back.                     *)
KeptAnswerStays ==
    [][Complete /\ Undisturbed /\ Cardinality(Ran) = 1 => record' = record]_vars

-----------------------------------------------------------------------------
(* "duplicate requests with the same key never submit a second blockchain  *)
(* transaction" (routes/scout.ts, the unlock route), given that the        *)
(* database answers.                                                       *)
KeySubmitsOnce ==
    (\A r \in Ran : requests[r].guarded) =>
        Cardinality({r \in Requests : requests[r].run = "succeeded"}) <= 1

(* "a materially different request is rejected with 409 instead of serving *)
(* the cached response of the unrelated request" (middleware/              *)
(* idempotency.ts, requestFingerprint).                                    *)
ReplaysMatchRequest ==
    \A r \in Requests :
        requests[r].answer = "replay" =>
            requests[requests[r].from].print = requests[r].print
=============================================================================
