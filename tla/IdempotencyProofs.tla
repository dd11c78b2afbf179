-------------------------- MODULE IdempotencyProofs --------------------------
(***************************************************************************)
(* One idempotency key, for any number of requests, any lease and any      *)
(* lifetime of the key: what duplicates are served, who runs, and that a   *)
(* kept answer stays.                                                      *)
(***************************************************************************)
EXTENDS Idempotency, FiniteSetTheorems, TLAPS

RequestState ==
    [stage : Stages, print : Fingerprints, guarded : BOOLEAN,
     lease : 0..(MaxTime + Lease),
     run : {"none", "running", "succeeded", "failed"}, answer : Answers,
     from : Requests \cup {Nobody},
     writes : SUBSET {"complete", "drop", "drop503"}]

Row == [status : {"pending", "complete"}, print : Fingerprints,
        response : Requests \cup {Nobody}, lockedUntil : 0..(MaxTime + Lease),
        expiresAt : 0..(MaxTime + Ttl)]

Waiting == {"new", "lookup", "reclaim", "insert", "reread", "wait"}

(* A request has run as far as its stage says, and writes what it came to. *)
Fits(request) ==
    /\ request.stage \in Waiting =>
           request.run = "none" /\ request.answer = "none" /\ request.writes = {}
    /\ request.stage = "handle" => request.run = "running"
    /\ request.writes # {} => request.run # "none"
    /\ "complete" \in request.writes => request.run = "succeeded"

StagesFit == \A r \in Requests : Fits(requests[r])

RowIsAnswer ==
    record.status = "complete" =>
        record.response \in Requests /\ requests[record.response].run = "succeeded"

(* A request that runs under its lease owns the row, which names no other  *)
(* lease, is not answered by anyone else, and outlives the lease.          *)
Holds(r) == At(r, "handle") /\ now <= requests[r].lease
Owns(r) ==
    /\ record # NoRecord
    /\ record.lockedUntil = requests[r].lease
    /\ requests[r].lease < record.expiresAt

HoldersOwn ==
    Undisturbed =>
        /\ \A r \in Requests : requests[r].writes \subseteq {"complete"}
        /\ \A r \in Requests : Holds(r) => Owns(r)
        /\ \A r, q \in Requests : Holds(r) /\ Holds(q) => r = q

IInv == TypeOK /\ StagesFit /\ RowIsAnswer /\ ReplaysAreAnswers /\ HoldersOwn

-----------------------------------------------------------------------------
(* What a step makes of its own request, field by field.                   *)
Becomes(r, stage, guarded, lease, run, answer, from, writes) ==
    /\ requests' \in [Requests -> RequestState]
    /\ \A q \in Requests \ {r} : requests'[q] = requests[q]
    /\ requests'[r] = [stage |-> stage, print |-> requests[r].print, guarded |-> guarded,
                       lease |-> lease, run |-> run, answer |-> answer, from |-> from,
                       writes |-> writes]

Stays(r, stage, answer, from, writes) ==
    Becomes(r, stage, requests[r].guarded, requests[r].lease, requests[r].run,
            answer, from, writes)

LEMMA Typed ==
    TypeOK <=> /\ now \in 0..MaxTime
               /\ record \in Row \cup {NoRecord}
               /\ requests \in [Requests -> RequestState]
BY DEF TypeOK, Row, RequestState

LEMMA Replaced ==
    ASSUME TypeOK, NEW r \in Requests, NEW x \in RequestState, x.print = requests[r].print,
           requests' = [requests EXCEPT ![r] = x]
    PROVE  Becomes(r, x.stage, x.guarded, x.lease, x.run, x.answer, x.from, x.writes)
<1>1. requests \in [Requests -> RequestState]
  BY Typed
<1>2. requests' \in [Requests -> RequestState]
  BY <1>1
<1>3. requests'[r] = x /\ \A q \in Requests \ {r} : requests'[q] = requests[q]
  BY <1>1
<1>4. x = [stage |-> x.stage, print |-> x.print, guarded |-> x.guarded, lease |-> x.lease,
           run |-> x.run, answer |-> x.answer, from |-> x.from, writes |-> x.writes]
  BY DEF RequestState
<1>5. QED
  BY <1>2, <1>3, <1>4 DEF Becomes

LEMMA Goes ==
    ASSUME TypeOK, NEW r \in Requests, NEW stage \in Stages, Goto(r, stage)
    PROVE  Stays(r, stage, requests[r].answer, requests[r].from, requests[r].writes)
<1> DEFINE x == [requests[r] EXCEPT !.stage = stage]
<1>1. requests \in [Requests -> RequestState]
  BY Typed
<1>2. x \in RequestState /\ x.print = requests[r].print
  BY <1>1 DEF RequestState
<1>3. requests' = [requests EXCEPT ![r] = x]
  BY <1>1 DEF Goto
<1>4. /\ x.stage = stage /\ x.guarded = requests[r].guarded
      /\ x.lease = requests[r].lease /\ x.run = requests[r].run
      /\ x.answer = requests[r].answer /\ x.from = requests[r].from
      /\ x.writes = requests[r].writes
  BY <1>1 DEF RequestState
<1> HIDE DEF x
<1>5. QED
  BY <1>2, <1>3, <1>4, Replaced DEF Stays

LEMMA Responds ==
    ASSUME TypeOK, NEW r \in Requests, NEW answer \in Answers,
           NEW from \in Requests \cup {Nobody}, Respond(r, answer, from)
    PROVE  Stays(r, "done", answer, from, requests[r].writes)
<1> DEFINE x == [requests[r] EXCEPT !.stage = "done", !.answer = answer, !.from = from]
<1>1. requests \in [Requests -> RequestState]
  BY Typed
<1>2. x \in RequestState /\ x.print = requests[r].print
  BY <1>1 DEF RequestState, Stages
<1>3. requests' = [requests EXCEPT ![r] = x]
  BY <1>1 DEF Respond
<1>4. /\ x.stage = "done" /\ x.guarded = requests[r].guarded
      /\ x.lease = requests[r].lease /\ x.run = requests[r].run
      /\ x.answer = answer /\ x.from = from /\ x.writes = requests[r].writes
  BY <1>1 DEF RequestState
<1> HIDE DEF x
<1>5. QED
  BY <1>2, <1>3, <1>4, Replaced DEF Stays

LEMMA Runs ==
    ASSUME TypeOK, NEW r \in Requests, NEW guarded \in BOOLEAN, RunHandler(r, guarded)
    PROVE  Becomes(r, "handle", guarded, IF guarded THEN now + Lease ELSE 0, "running",
                   requests[r].answer, requests[r].from, requests[r].writes)
<1> DEFINE lease == IF guarded THEN now + Lease ELSE 0
           x == [requests[r] EXCEPT !.stage = "handle", !.run = "running",
                                    !.guarded = guarded, !.lease = lease]
<1>1. requests \in [Requests -> RequestState] /\ lease \in 0..(MaxTime + Lease)
  BY Typed, IdempotencyAssumption
<1>2. requests' = [requests EXCEPT ![r] = x]
  BY <1>1 DEF RunHandler
<1> HIDE DEF lease
<1>3. x \in RequestState /\ x.print = requests[r].print
  BY <1>1 DEF RequestState, Stages
<1>4. /\ x.stage = "handle" /\ x.guarded = guarded /\ x.lease = lease
      /\ x.run = "running" /\ x.answer = requests[r].answer
      /\ x.from = requests[r].from /\ x.writes = requests[r].writes
  BY <1>1 DEF RequestState
<1> HIDE DEF x
<1>5. Becomes(r, "handle", guarded, lease, "running", requests[r].answer,
              requests[r].from, requests[r].writes)
  BY <1>2, <1>3, <1>4, Replaced
<1>6. QED
  BY <1>5 DEF lease

(* The handler's answer, when it ends and when the timeout has been sent.  *)
Ended(r) == IF TimedOut(r) THEN "timeout" ELSE "own"
Added(r, writes) == IF requests[r].guarded THEN requests[r].writes \cup writes
                                           ELSE requests[r].writes

LEMMA Ends ==
    ASSUME TypeOK, NEW r \in Requests, NEW outcome \in {"succeeded", "failed"},
           NEW writes \in SUBSET {"complete", "drop", "drop503"},
           EndHandler(r, outcome, writes)
    PROVE  Becomes(r, "done", requests[r].guarded, requests[r].lease, outcome, Ended(r),
                   requests[r].from, Added(r, writes))
<1> DEFINE x == [requests[r] EXCEPT !.stage = "done", !.run = outcome,
                                    !.answer = Ended(r), !.writes = Added(r, writes)]
<1>1. requests \in [Requests -> RequestState]
  BY Typed
<1>2. Ended(r) \in Answers /\ Added(r, writes) \in SUBSET {"complete", "drop", "drop503"}
  BY <1>1 DEF Ended, Added, Answers, RequestState
<1>3. requests' = [requests EXCEPT ![r] = x]
  BY <1>1 DEF EndHandler, Ended, Added, TimedOut, RequestState
<1>4. x \in RequestState /\ x.print = requests[r].print
  BY <1>1, <1>2 DEF RequestState, Stages
<1>5. /\ x.stage = "done" /\ x.guarded = requests[r].guarded
      /\ x.lease = requests[r].lease /\ x.run = outcome
      /\ x.answer = Ended(r) /\ x.from = requests[r].from
      /\ x.writes = Added(r, writes)
  BY <1>1 DEF RequestState
<1> HIDE DEF x
<1>6. QED
  BY <1>3, <1>4, <1>5, Replaced

LEMMA TimesOut ==
    ASSUME TypeOK, NEW r \in Requests, sendTimeout(r)
    PROVE  Stays(r, "handle", "timeout", requests[r].from, Added(r, {"drop503"}))
<1> DEFINE x == [requests[r] EXCEPT !.answer = "timeout", !.writes = Added(r, {"drop503"})]
<1>1. requests \in [Requests -> RequestState]
  BY Typed
<1>2. Added(r, {"drop503"}) \in SUBSET {"complete", "drop", "drop503"}
  BY <1>1 DEF Added, RequestState
<1>3. requests' = [requests EXCEPT ![r] = x]
  BY <1>1 DEF sendTimeout, TimeoutAnswer, Added
<1>4. x \in RequestState /\ x.print = requests[r].print
  BY <1>1, <1>2 DEF RequestState, Answers
<1>5. /\ x.stage = "handle" /\ x.guarded = requests[r].guarded
      /\ x.lease = requests[r].lease /\ x.run = requests[r].run
      /\ x.answer = "timeout" /\ x.from = requests[r].from
      /\ x.writes = Added(r, {"drop503"})
  BY <1>1 DEF RequestState, sendTimeout, TimeoutAnswer, At
<1> HIDE DEF x
<1>6. QED
  BY <1>3, <1>4, <1>5, Replaced DEF Stays

LEMMA Writes ==
    ASSUME TypeOK, NEW r \in Requests, NEW w \in requests[r].writes,
           requests' = [requests EXCEPT ![r].writes = @ \ {w}]
    PROVE  Stays(r, requests[r].stage, requests[r].answer, requests[r].from,
                 requests[r].writes \ {w})
<1> DEFINE x == [requests[r] EXCEPT !.writes = requests[r].writes \ {w}]
<1>1. requests \in [Requests -> RequestState]
  BY Typed
<1>2. x \in RequestState /\ x.print = requests[r].print
  BY <1>1 DEF RequestState
<1>3. requests' = [requests EXCEPT ![r] = x]
  BY <1>1
<1>4. /\ x.stage = requests[r].stage /\ x.guarded = requests[r].guarded
      /\ x.lease = requests[r].lease /\ x.run = requests[r].run
      /\ x.answer = requests[r].answer /\ x.from = requests[r].from
      /\ x.writes = requests[r].writes \ {w}
  BY <1>1 DEF RequestState
<1> HIDE DEF x
<1>5. QED
  BY <1>2, <1>3, <1>4, Replaced DEF Stays

LEMMA Crashes ==
    ASSUME TypeOK, NEW r \in Requests, Crash(r)
    PROVE  Stays(r, "done", requests[r].answer, requests[r].from, {})
<1> DEFINE x == [requests[r] EXCEPT !.stage = "done", !.writes = {}]
<1>1. requests \in [Requests -> RequestState]
  BY Typed
<1>2. x \in RequestState /\ x.print = requests[r].print
  BY <1>1 DEF RequestState, Stages
<1>3. requests' = [requests EXCEPT ![r] = x]
  BY <1>1 DEF Crash
<1>4. /\ x.stage = "done" /\ x.guarded = requests[r].guarded
      /\ x.lease = requests[r].lease /\ x.run = requests[r].run
      /\ x.answer = requests[r].answer /\ x.from = requests[r].from
      /\ x.writes = {}
  BY <1>1 DEF RequestState
<1> HIDE DEF x
<1>5. QED
  BY <1>2, <1>3, <1>4, Replaced DEF Stays

-----------------------------------------------------------------------------
(* A step of a request: only its own state changes, what it ran is not     *)
(* taken back, it answers from the row alone, and it is running afterwards *)
(* only if it was, or has claimed the key, or is not guarded.              *)
Advances(r) ==
    /\ requests' \in [Requests -> RequestState]
    /\ \A q \in Requests \ {r} : requests'[q] = requests[q]
    /\ Fits(requests'[r])
    /\ requests[r].run \in {"succeeded", "failed"} => requests'[r].run = requests[r].run
    /\ requests[r].run # "none" =>
           /\ requests'[r].run # "none"
           /\ requests'[r].guarded = requests[r].guarded
           /\ requests'[r].lease = requests[r].lease
           /\ requests[r].answer = "timeout" => requests'[r].answer = "timeout"
    /\ requests'[r].answer = "replay" =>
           \/ requests[r].answer = "replay" /\ requests'[r].from = requests[r].from
           \/ record.status = "complete" /\ requests'[r].from = record.response

(* Whatever it writes, if nothing has disturbed it, is its answer.         *)
WritesAnswer(r) ==
    \/ requests'[r].writes \subseteq requests[r].writes \cup {"complete"}
    \/ requests'[r].run = "failed"
    \/ requests'[r].answer = "timeout"

Claims(r) ==
    /\ record' = Claimed(r) /\ now' = now
    /\ requests[r].run = "none" /\ requests'[r].writes = {}
    /\ requests'[r].stage = "handle" /\ requests'[r].lease = now + Lease

KeepsRow(r) ==
    /\ record' = record /\ now' = now
    /\ requests'[r].stage = "handle" => At(r, "handle") \/ ~requests'[r].guarded
    /\ requests'[r].run # "none" => requests[r].run # "none" \/ ~requests'[r].guarded

LEMMA RequestTyped ==
    ASSUME TypeOK, NEW r \in Requests
    PROVE  requests[r] \in RequestState
BY Typed

LEMMA GoesOn ==
    ASSUME TypeOK, StagesFit, NEW r \in Requests, requests[r].stage \in Waiting,
           NEW stage \in Waiting \cup {"done"}, NEW answer \in Answers,
           NEW from, NEW writes, writes = requests[r].writes,
           answer = "timeout" \/ answer = "own" => FALSE,
           stage \in Waiting => answer = requests[r].answer,
           answer = "replay" => \/ requests[r].answer = "replay" /\ from = requests[r].from
                                \/ record.status = "complete" /\ from = record.response,
           Stays(r, stage, answer, from, writes),
           UNCHANGED <<now, record>>
    PROVE  Advances(r) /\ WritesAnswer(r) /\ KeepsRow(r)
<1>1. requests[r] \in RequestState /\ Fits(requests[r])
  BY RequestTyped DEF StagesFit
<1>2. requests[r].run = "none" /\ requests[r].answer = "none" /\ requests[r].writes = {}
  BY <1>1 DEF Fits
<1>3. QED
  BY <1>1, <1>2 DEF Stays, Becomes, Advances, WritesAnswer, KeepsRow, Fits, Waiting

LEMMA RowTyped ==
    ASSUME TypeOK, record.status # "none"
    PROVE  record \in Row
BY Typed DEF NoRecord

(* The middleware, up to the handler.                                      *)
LEMMA MiddlewareAdvances ==
    ASSUME TypeOK, StagesFit, RowIsAnswer, NEW r \in Requests,
           \/ Arrive(r) \/ getIdempotencyRecord(r) \/ Reread(r)
           \/ LookAgain(r) \/ GiveUpWaiting(r)
           \/ Reclaim(r) /\ Goto(r, "insert") /\ record' = record
           \/ InsertClaim(r) /\ Goto(r, "reread") /\ record' = record
    PROVE  Advances(r) /\ WritesAnswer(r) /\ KeepsRow(r)
<1>1. /\ requests[r].stage \in Waiting
      /\ UNCHANGED <<now, record>>
  BY DEF Arrive, getIdempotencyRecord, Reread, LookAgain, GiveUpWaiting, Reclaim,
         InsertClaim, At, Waiting
<1>2. requests[r] \in RequestState /\ Fits(requests[r])
  BY RequestTyped DEF StagesFit
<1>3. requests[r].answer = "none" /\ requests[r].answer \in Answers
  BY <1>1, <1>2 DEF Fits, Answers
<1>4. \/ \E stage \in Waiting : Goto(r, stage)
      \/ \E answer \in {"conflict", "inProgress"} : Respond(r, answer, Nobody)
      \/ record.status = "complete" /\ ServeRecord(r)
  <2>1. CASE Arrive(r) \/ Reread(r) \/ LookAgain(r) \/ GiveUpWaiting(r)
    BY <2>1 DEF Arrive, Reread, LookAgain, GiveUpWaiting, Waiting, Complete
  <2>2. CASE getIdempotencyRecord(r)
    <3>1. CASE Live /\ record.status # "pending"
      <4>1. record.status = "complete"
        BY <3>1, Typed DEF Live, Row
      <4>2. QED
        BY <2>2, <3>1, <4>1 DEF getIdempotencyRecord
    <3>2. CASE ~(Live /\ record.status # "pending")
      BY <2>2, <3>2 DEF getIdempotencyRecord, Waiting
    <3>3. QED
      BY <3>1, <3>2
  <2>3. CASE Goto(r, "insert") \/ Goto(r, "reread")
    BY <2>3 DEF Waiting
  <2>4. QED
    BY <2>1, <2>2, <2>3
<1>5. CASE \E stage \in Waiting : Goto(r, stage)
  <2>1. PICK stage \in Waiting : Goto(r, stage)
    BY <1>5
  <2>2. stage \in Stages
    BY DEF Stages, Waiting
  <2>3. Stays(r, stage, requests[r].answer, requests[r].from, requests[r].writes)
    BY <2>1, <2>2, Goes
  <2>4. QED
    BY <1>1, <1>3, <2>3, GoesOn
<1>6. CASE \E answer \in {"conflict", "inProgress"} : Respond(r, answer, Nobody)
  <2>1. PICK answer \in {"conflict", "inProgress"} : Respond(r, answer, Nobody)
    BY <1>6
  <2>2. answer \in Answers /\ answer \notin {"timeout", "own", "replay"}
    BY DEF Answers
  <2>3. Stays(r, "done", answer, Nobody, requests[r].writes)
    BY <2>1, <2>2, Responds
  <2>4. QED
    BY <1>1, <2>2, <2>3, GoesOn DEF Waiting
<1>7. CASE record.status = "complete" /\ ServeRecord(r)
  <2>1. record.response \in Requests
    BY <1>7 DEF RowIsAnswer
  <2>2. "replay" \in Answers /\ "replay" \notin {"timeout", "own"}
    BY DEF Answers
  <2>3. Stays(r, "done", "replay", record.response, requests[r].writes)
    BY <1>7, <2>1, <2>2, Responds DEF ServeRecord
  <2>4. QED
    BY <1>1, <1>7, <2>2, <2>3, GoesOn DEF Waiting
<1>8. QED
  BY <1>4, <1>5, <1>6, <1>7

LEMMA ClaimAdvances ==
    ASSUME TypeOK, StagesFit, NEW r \in Requests, requests[r].stage \in Waiting,
           RunHandler(r, TRUE), record' = Claimed(r), now' = now
    PROVE  Advances(r) /\ WritesAnswer(r) /\ Claims(r)
<1>1. requests[r] \in RequestState /\ Fits(requests[r])
  BY RequestTyped DEF StagesFit
<1>2. requests[r].run = "none" /\ requests[r].answer = "none" /\ requests[r].writes = {}
  BY <1>1 DEF Fits
<1>3. Becomes(r, "handle", TRUE, now + Lease, "running",
              requests[r].answer, requests[r].from, requests[r].writes)
  BY Runs
<1>4. QED
  BY <1>2, <1>3 DEF Becomes, Advances, WritesAnswer, Claims, Fits, Waiting

LEMMA BypassAdvances ==
    ASSUME TypeOK, StagesFit, NEW r \in Requests, Bypass(r)
    PROVE  Advances(r) /\ WritesAnswer(r) /\ KeepsRow(r)
<1>1. requests[r] \in RequestState /\ Fits(requests[r])
  BY RequestTyped DEF StagesFit
<1>2. requests[r].run = "none" /\ requests[r].answer = "none" /\ requests[r].writes = {}
  BY <1>1 DEF Fits, Bypass, Waiting
<1>3. Becomes(r, "handle", FALSE, 0, "running",
              requests[r].answer, requests[r].from, requests[r].writes)
  BY Runs DEF Bypass
<1>4. QED
  BY <1>2, <1>3 DEF Becomes, Advances, WritesAnswer, KeepsRow, Fits, Waiting, Bypass

(* The handler and its writes.                                             *)
LEMMA HandlerAdvances ==
    ASSUME TypeOK, StagesFit, NEW r \in Requests,
           \/ HandlerFails(r) \/ HandlerSucceeds(r) \/ sendTimeout(r) \/ Crash(r)
    PROVE  Advances(r) /\ WritesAnswer(r) /\ KeepsRow(r)
<1>1. requests[r] \in RequestState /\ Fits(requests[r])
  BY RequestTyped DEF StagesFit
<1>2. UNCHANGED <<now, record>>
  BY DEF HandlerFails, HandlerSucceeds, sendTimeout, TimeoutAnswer, Crash
<1>3. CASE HandlerFails(r)
  <2>1. Becomes(r, "done", requests[r].guarded, requests[r].lease, "failed", Ended(r),
                requests[r].from, Added(r, {"drop"}))
    BY <1>3, Ends DEF HandlerFails
  <2>2. requests[r].run = "running"
    BY <1>1, <1>3 DEF HandlerFails, At, Fits
  <2>3. "complete" \notin Added(r, {"drop"})
    BY <1>1, <2>2 DEF Fits, Added
  <2>4. QED
    BY <1>1, <1>2, <2>1, <2>2, <2>3 DEF Becomes, Advances, WritesAnswer, KeepsRow, Fits,
       Waiting, Ended, TimedOut
<1>4. CASE HandlerSucceeds(r)
  <2>1. PICK writes \in SUBSET {"complete", "drop", "drop503"} :
            /\ EndHandler(r, "succeeded", writes)
            /\ writes = {"complete"} \/ TimedOut(r)
    BY <1>4 DEF HandlerSucceeds
  <2>2. Becomes(r, "done", requests[r].guarded, requests[r].lease, "succeeded", Ended(r),
                requests[r].from, Added(r, writes))
    BY <2>1, Ends
  <2>3. requests[r].run = "running"
    BY <1>1, <1>4 DEF HandlerSucceeds, At, Fits
  <2>4. Added(r, writes) \subseteq requests[r].writes \cup {"complete"} \/ TimedOut(r)
    BY <2>1 DEF Added
  <2>5. QED
    BY <1>1, <1>2, <2>2, <2>3, <2>4 DEF Becomes, Advances, WritesAnswer, KeepsRow, Fits,
       Waiting, Ended, TimedOut
<1>5. CASE sendTimeout(r)
  <2>1. Stays(r, "handle", "timeout", requests[r].from, Added(r, {"drop503"}))
    BY <1>5, TimesOut
  <2>2. requests[r].run = "running" /\ At(r, "handle")
    BY <1>1, <1>5 DEF sendTimeout, TimeoutAnswer, At, Fits
  <2>3. "complete" \notin Added(r, {"drop503"})
    BY <1>1, <2>2 DEF Fits, Added
  <2>4. QED
    BY <1>1, <1>2, <2>1, <2>2, <2>3 DEF Stays, Becomes, Advances, WritesAnswer, KeepsRow,
       Fits, Waiting
<1>6. CASE Crash(r)
  <2>1. Stays(r, "done", requests[r].answer, requests[r].from, {})
    BY <1>6, Crashes
  <2>2. QED
    BY <1>1, <1>2, <2>1 DEF Stays, Becomes, Advances, WritesAnswer, KeepsRow, Fits, Waiting
<1>7. QED
  BY <1>3, <1>4, <1>5, <1>6

LEMMA WriteAdvances ==
    ASSUME TypeOK, StagesFit, NEW r \in Requests, NEW w \in requests[r].writes,
           requests' = [requests EXCEPT ![r].writes = @ \ {w}]
    PROVE  /\ Advances(r)
           /\ requests'[r].writes \subseteq requests[r].writes
           /\ requests'[r].stage = requests[r].stage
           /\ requests'[r].run = requests[r].run
<1>1. requests[r] \in RequestState /\ Fits(requests[r])
  BY RequestTyped DEF StagesFit
<1>2. Stays(r, requests[r].stage, requests[r].answer, requests[r].from,
            requests[r].writes \ {w})
  BY Writes
<1>3. Fits(requests'[r])
  BY <1>1, <1>2 DEF Stays, Becomes, Fits
<1>4. QED
  BY <1>2, <1>3 DEF Stays, Becomes, Advances

-----------------------------------------------------------------------------
(* What a step of one request means for all of them.                       *)
LEMMA AdvanceKeeps ==
    ASSUME TypeOK, StagesFit, RowIsAnswer, ReplaysAreAnswers,
           NEW r \in Requests, Advances(r)
    PROVE  /\ StagesFit' /\ ReplaysAreAnswers'
           /\ \A q \in Requests : requests[q].run = "succeeded" =>
                                      requests'[q].run = "succeeded"
           /\ Undisturbed' => Undisturbed
<1>1. \A q \in Requests : requests[q] \in RequestState /\ requests'[q] \in RequestState
  BY RequestTyped DEF Advances
<1>2. StagesFit'
  BY DEF Advances, StagesFit
<1>3. \A q \in Requests : requests[q].run = "succeeded" => requests'[q].run = "succeeded"
  BY DEF Advances
<1>4. ReplaysAreAnswers'
  <2>1. SUFFICES ASSUME NEW q \in Requests, requests'[q].answer = "replay"
                 PROVE  /\ requests'[q].from \in Requests
                        /\ requests'[requests'[q].from].run = "succeeded"
    BY DEF ReplaysAreAnswers
  <2>2. \/ requests[q].answer = "replay" /\ requests'[q].from = requests[q].from
        \/ record.status = "complete" /\ requests'[q].from = record.response
    BY <2>1 DEF Advances
  <2>3. QED
    BY <1>3, <2>2 DEF ReplaysAreAnswers, RowIsAnswer
<1>5. ASSUME Undisturbed'
      PROVE  Undisturbed
  <2>1. SUFFICES ASSUME NEW q \in Requests, requests[q].run # "none"
                 PROVE  /\ requests[q].guarded /\ requests[q].answer # "timeout"
                        /\ requests[q].run # "failed"
    BY DEF Undisturbed, Ran, TimedOut
  <2>2. /\ requests'[q].run # "none"
        /\ requests'[q].guarded = requests[q].guarded
        /\ requests[q].answer = "timeout" => requests'[q].answer = "timeout"
        /\ requests[q].run = "failed" => requests'[q].run = "failed"
    BY <2>1 DEF Advances
  <2>3. /\ requests'[q].guarded /\ requests'[q].answer # "timeout"
        /\ requests'[q].run # "failed"
    BY <1>5, <2>2 DEF Undisturbed, Ran, TimedOut
  <2>4. QED
    BY <2>2, <2>3
<1>6. QED
  BY <1>2, <1>3, <1>4, <1>5

LEMMA WritesStay ==
    ASSUME TypeOK, StagesFit, HoldersOwn, Undisturbed, Undisturbed',
           NEW r \in Requests, Advances(r), WritesAnswer(r)
    PROVE  \A q \in Requests : requests'[q].writes \subseteq {"complete"}
<1>1. \A q \in Requests : requests[q].writes \subseteq {"complete"}
  BY DEF HoldersOwn
<1>2. requests'[r].writes \subseteq {"complete"}
  <2>1. CASE requests'[r].writes \subseteq requests[r].writes \cup {"complete"}
    BY <1>1, <2>1
  <2>2. CASE requests'[r].run = "none"
    BY <2>2 DEF Advances, Fits
  <2>3. CASE /\ requests'[r].run # "none"
             /\ requests'[r].run = "failed" \/ requests'[r].answer = "timeout"
    BY <2>3 DEF Undisturbed, Ran, TimedOut
  <2>4. QED
    BY <2>1, <2>2, <2>3 DEF WritesAnswer
<1>3. QED
  BY <1>1, <1>2 DEF Advances

(* The owner of the key through a step that leaves the row alone, through  *)
(* one that claims it, and through any other change of the row.            *)
LEMMA HoldersStay ==
    ASSUME HoldersOwn, Undisturbed' => Undisturbed,
           \A q \in Requests : Holds(q)' => Holds(q) /\ requests'[q].lease = requests[q].lease,
           Undisturbed' => \A q \in Requests : requests'[q].writes \subseteq {"complete"},
           \A q \in Requests : Undisturbed /\ Holds(q) /\ Holds(q)' /\ Owns(q) =>
               /\ record' # NoRecord
               /\ record'.lockedUntil = record.lockedUntil
               /\ record'.expiresAt = record.expiresAt
    PROVE  HoldersOwn'
<1>1. SUFFICES ASSUME Undisturbed'
               PROVE  /\ \A q \in Requests : Holds(q)' => Owns(q)'
                      /\ \A q, s \in Requests : Holds(q)' /\ Holds(s)' => q = s
  BY DEF HoldersOwn
<1>2. \A q \in Requests : Holds(q)' => Owns(q)'
  BY <1>1 DEF HoldersOwn, Owns
<1>3. \A q, s \in Requests : Holds(q)' /\ Holds(s)' => q = s
  BY <1>1 DEF HoldersOwn
<1>4. QED
  BY <1>2, <1>3

LEMMA KeepingStays ==
    ASSUME TypeOK, StagesFit, HoldersOwn, Undisturbed' => Undisturbed,
           NEW r \in Requests, Advances(r), WritesAnswer(r), KeepsRow(r)
    PROVE  HoldersOwn'
<1>1. CASE ~Undisturbed'
  BY <1>1 DEF HoldersOwn
<1>2. CASE Undisturbed'
  <2>1. requests'[r].run # "none" => requests'[r].guarded
    BY <1>2 DEF Undisturbed, Ran
  <2>2. requests'[r].stage = "handle" => requests'[r].run = "running"
    BY DEF Advances, Fits
  <2>3. \A q \in Requests : Holds(q)' => Holds(q) /\ requests'[q].lease = requests[q].lease
    <3>1. SUFFICES ASSUME NEW q \in Requests, requests'[q].stage = "handle",
                          now' <= requests'[q].lease
                   PROVE  /\ requests[q].stage = "handle" /\ now <= requests[q].lease
                          /\ requests'[q].lease = requests[q].lease
      BY DEF Holds, At
    <3>2. CASE q = r
      <4>1. requests[q].stage = "handle"
        BY <2>1, <2>2, <3>1, <3>2 DEF KeepsRow, At
      <4>2. requests[q].run # "none"
        BY <4>1 DEF StagesFit, Fits
      <4>3. QED
        BY <3>1, <3>2, <4>1, <4>2 DEF Advances, KeepsRow
    <3>3. CASE q # r
      BY <3>1, <3>3 DEF Advances, KeepsRow
    <3>4. QED
      BY <3>2, <3>3
  <2>4. \A q \in Requests : requests'[q].writes \subseteq {"complete"}
    BY <1>2, WritesStay
  <2>5. QED
    BY <2>3, <2>4, HoldersStay DEF KeepsRow, Owns
<1>3. QED
  BY <1>1, <1>2

LEMMA ClaimingStays ==
    ASSUME TypeOK, StagesFit, HoldersOwn, Undisturbed' => Undisturbed,
           NEW r \in Requests, Advances(r), WritesAnswer(r), Claims(r),
           record = NoRecord \/ record.lockedUntil < now
    PROVE  HoldersOwn'
<1>1. CASE ~Undisturbed'
  BY <1>1 DEF HoldersOwn
<1>2. CASE Undisturbed'
  <2>1. now \in Nat /\ Lease \in Nat /\ Ttl \in Nat /\ Lease < Ttl
    BY Typed, IdempotencyAssumption
  <2>2. \A q \in Requests : requests[q].lease \in Nat
    BY RequestTyped, IdempotencyAssumption DEF RequestState
  <2>3. \A q \in Requests : ~Holds(q)
    <3>1. SUFFICES ASSUME NEW q \in Requests, Holds(q)
                   PROVE  FALSE
      OBVIOUS
    <3>2. record # NoRecord /\ record.lockedUntil = requests[q].lease
      BY <1>2, <3>1 DEF HoldersOwn, Owns
    <3>3. now <= requests[q].lease
      BY <3>1 DEF Holds
    <3>4. QED
      BY <2>1, <2>2, <3>2, <3>3
  <2>4. \A q \in Requests \ {r} : ~Holds(q)'
    BY <2>3 DEF Holds, At, Advances, Claims
  <2>5. Owns(r)'
    <3>1. /\ record'.lockedUntil = now + Lease /\ record'.expiresAt = now + Ttl
          /\ record' # NoRecord
      BY DEF Claims, Claimed, NoRecord
    <3>2. QED
      BY <2>1, <3>1 DEF Owns, Claims
  <2>6. \A q \in Requests : requests'[q].writes \subseteq {"complete"}
    BY <1>2, WritesStay
  <2>7. QED
    BY <2>4, <2>5, <2>6 DEF HoldersOwn
<1>3. QED
  BY <1>1, <1>2

LEMMA WritingStays ==
    ASSUME TypeOK, StagesFit, HoldersOwn, Undisturbed' => Undisturbed,
           NEW r \in Requests, updateIdempotencyRecord(r), Advances(r),
           requests'[r].writes \subseteq requests[r].writes,
           requests'[r].stage = requests[r].stage
    PROVE  HoldersOwn'
<1>1. CASE ~Undisturbed'
  BY <1>1 DEF HoldersOwn
<1>2. CASE Undisturbed'
  <2>1. \A q \in Requests : requests[q].writes \subseteq {"complete"}
    BY <1>2 DEF HoldersOwn
  <2>2. \A q \in Requests : requests'[q].writes \subseteq {"complete"}
    BY <2>1 DEF Advances
  <2>3. record' = record \/ (/\ record # NoRecord
                             /\ record' = [record EXCEPT !.status = "complete", !.response = r])
    BY <2>1 DEF updateIdempotencyRecord
  <2>4. record # NoRecord =>
            /\ record' # NoRecord /\ record'.lockedUntil = record.lockedUntil
            /\ record'.expiresAt = record.expiresAt
    <3>1. CASE record' = record
      BY <3>1
    <3>2. CASE /\ record # NoRecord
               /\ record' = [record EXCEPT !.status = "complete", !.response = r]
      <4>1. record \in Row
        BY <3>2, Typed
      <4>2. /\ record'.status = "complete" /\ record'.lockedUntil = record.lockedUntil
            /\ record'.expiresAt = record.expiresAt
        BY <3>2, <4>1 DEF Row
      <4>3. NoRecord.status = "none"
        BY DEF NoRecord
      <4>4. QED
        BY <4>2, <4>3
    <3>3. QED
      BY <2>3, <3>1, <3>2
  <2>5. now' = now
    BY DEF updateIdempotencyRecord
  <2>6. \A q \in Requests : Holds(q)' => Holds(q) /\ requests'[q].lease = requests[q].lease
    <3>1. SUFFICES ASSUME NEW q \in Requests, requests'[q].stage = "handle",
                          now' <= requests'[q].lease
                   PROVE  /\ requests[q].stage = "handle" /\ now <= requests[q].lease
                          /\ requests'[q].lease = requests[q].lease
      BY DEF Holds, At
    <3>2. requests[q].stage = "handle"
      BY <3>1 DEF Advances
    <3>3. requests[q].run # "none"
      BY <3>2 DEF StagesFit, Fits
    <3>4. QED
      BY <2>5, <3>1, <3>2, <3>3 DEF Advances
  <2>7. QED
    BY <2>2, <2>4, <2>6, HoldersStay DEF Owns
<1>3. QED
  BY <1>1, <1>2

-----------------------------------------------------------------------------
(* The row through each step.                                              *)
RowTypes == now \in 0..MaxTime /\ record \in Row \cup {NoRecord}

LEMMA AnswerStays ==
    ASSUME RowIsAnswer, record' = record,
           \A q \in Requests : requests[q].run = "succeeded" => requests'[q].run = "succeeded"
    PROVE  RowIsAnswer'
BY DEF RowIsAnswer

LEMMA ClaimTyped ==
    ASSUME TypeOK, NEW r \in Requests, record' = Claimed(r), now' = now
    PROVE  RowTypes' /\ RowIsAnswer'
<1>1. requests[r].print \in Fingerprints
  BY RequestTyped DEF RequestState
<1>2. now \in 0..MaxTime
  BY Typed
<1>3. now + Lease \in 0..(MaxTime + Lease) /\ now + Ttl \in 0..(MaxTime + Ttl)
  BY <1>2, IdempotencyAssumption
<1>4. record' \in Row /\ record'.status = "pending"
  BY <1>1, <1>3 DEF Claimed, Row
<1>5. QED
  BY <1>2, <1>4 DEF RowTypes, RowIsAnswer

LEMMA WriteTyped ==
    ASSUME TypeOK, StagesFit, RowIsAnswer, NEW r \in Requests, updateIdempotencyRecord(r),
           \A q \in Requests : requests[q].run = "succeeded" => requests'[q].run = "succeeded"
    PROVE  RowTypes' /\ RowIsAnswer'
<1>1. now' = now /\ now \in 0..MaxTime
  BY Typed DEF updateIdempotencyRecord
<1>2. PICK w \in requests[r].writes :
          record' = IF record = NoRecord THEN record
                    ELSE IF w = "complete"
                    THEN [record EXCEPT !.status = "complete", !.response = r]
                    ELSE IF record.status = "pending" THEN NoRecord ELSE record
  BY DEF updateIdempotencyRecord
<1>3. CASE record # NoRecord /\ w = "complete"
  <2>1. record \in Row
    BY <1>3, Typed
  <2>2. record' \in Row /\ record'.response = r
    BY <1>2, <1>3, <2>1 DEF Row
  <2>3. requests[r].run = "succeeded"
    BY <1>2, <1>3 DEF StagesFit, Fits
  <2>4. QED
    BY <1>1, <2>2, <2>3 DEF RowTypes, RowIsAnswer
<1>4. CASE record' = record
  BY <1>1, <1>4, Typed, AnswerStays DEF RowTypes
<1>5. CASE record' = NoRecord
  BY <1>1, <1>5 DEF RowTypes, RowIsAnswer, NoRecord
<1>6. QED
  BY <1>2, <1>3, <1>4, <1>5

LEMMA TypedAgain ==
    ASSUME RowTypes', requests' \in [Requests -> RequestState]
    PROVE  TypeOK'
BY DEF RowTypes, TypeOK, Row, RequestState

-----------------------------------------------------------------------------
LEMMA InitIInv == Init => IInv
<1> SUFFICES ASSUME Init
             PROVE  IInv
  OBVIOUS
<1> DEFINE Fresh == [stage : {"new"}, print : Fingerprints, lease : {0}, guarded : {FALSE},
                      run : {"none"}, answer : {"none"}, from : {Nobody}, writes : {{}}]
<1>0. requests \in [Requests -> Fresh]
  BY DEF Init
<1>1. \A r \in Requests :
          /\ requests[r] \in RequestState
          /\ requests[r].stage = "new" /\ requests[r].run = "none"
          /\ requests[r].answer = "none" /\ requests[r].writes = {}
  <2> SUFFICES ASSUME NEW x \in Fresh
               PROVE  /\ x \in RequestState
                      /\ x.stage = "new" /\ x.run = "none"
                      /\ x.answer = "none" /\ x.writes = {}
    BY <1>0
  <2>1. 0 \in 0..(MaxTime + Lease)
    BY IdempotencyAssumption
  <2>2. QED
    BY <2>1 DEF RequestState, Stages, Answers
<1>2. requests \in [Requests -> RequestState]
  BY <1>0, <1>1
<1>3. TypeOK
  BY <1>2, Typed, IdempotencyAssumption DEF Init
<1>4. StagesFit /\ ReplaysAreAnswers
  BY <1>1 DEF StagesFit, Fits, ReplaysAreAnswers
<1>5. RowIsAnswer
  BY DEF Init, RowIsAnswer, NoRecord
<1>6. HoldersOwn
  BY <1>1 DEF HoldersOwn, Holds, At
<1>7. QED
  BY <1>3, <1>4, <1>5, <1>6 DEF IInv

LEMMA RequestStep ==
    ASSUME IInv, NEW r \in Requests,
           \/ Arrive(r) \/ getIdempotencyRecord(r) \/ Reclaim(r) \/ InsertClaim(r)
           \/ Reread(r) \/ Bypass(r) \/ LookAgain(r) \/ GiveUpWaiting(r)
           \/ HandlerFails(r) \/ HandlerSucceeds(r) \/ sendTimeout(r)
           \/ updateIdempotencyRecord(r) \/ Crash(r)
    PROVE  IInv'
<1> USE DEF IInv
<1>1. CASE Advances(r) /\ WritesAnswer(r) /\ KeepsRow(r)
  <2>1. RowTypes'
    BY <1>1, Typed DEF RowTypes, KeepsRow
  <2>2. TypeOK'
    BY <1>1, <2>1, TypedAgain DEF Advances
  <2>3. QED
    BY <1>1, <2>2, AdvanceKeeps, AnswerStays, KeepingStays DEF KeepsRow
<1>2. ASSUME requests[r].stage \in Waiting, RunHandler(r, TRUE), record' = Claimed(r),
             now' = now, record = NoRecord \/ record.lockedUntil < now
      PROVE  IInv'
  <2>1. Advances(r) /\ WritesAnswer(r) /\ Claims(r)
    BY <1>2, ClaimAdvances
  <2>2. RowTypes' /\ RowIsAnswer'
    BY <1>2, ClaimTyped
  <2>3. TypeOK'
    BY <2>1, <2>2, TypedAgain DEF Advances
  <2>4. QED
    BY <1>2, <2>1, <2>2, <2>3, AdvanceKeeps, ClaimingStays
<1>3. CASE updateIdempotencyRecord(r)
  <2>1. PICK w \in requests[r].writes :
            requests' = [requests EXCEPT ![r].writes = @ \ {w}]
    BY <1>3 DEF updateIdempotencyRecord
  <2>2. /\ Advances(r)
        /\ requests'[r].writes \subseteq requests[r].writes
        /\ requests'[r].stage = requests[r].stage
    BY <2>1, WriteAdvances
  <2>3. /\ StagesFit' /\ ReplaysAreAnswers'
        /\ \A q \in Requests : requests[q].run = "succeeded" =>
                                   requests'[q].run = "succeeded"
        /\ Undisturbed' => Undisturbed
    BY <2>2, AdvanceKeeps
  <2>4. RowTypes' /\ RowIsAnswer'
    BY <1>3, <2>3, WriteTyped
  <2>5. TypeOK'
    BY <2>2, <2>4, TypedAgain DEF Advances
  <2>6. HoldersOwn'
    BY <1>3, <2>2, <2>3, WritingStays
  <2>7. QED
    BY <2>3, <2>4, <2>5, <2>6
<1>4. CASE \/ Arrive(r) \/ getIdempotencyRecord(r) \/ Reread(r)
           \/ LookAgain(r) \/ GiveUpWaiting(r)
  BY <1>1, <1>4, MiddlewareAdvances
<1>5. CASE Reclaim(r)
  BY <1>1, <1>2, <1>5, MiddlewareAdvances DEF Reclaim, At, Waiting
<1>6. CASE InsertClaim(r)
  BY <1>1, <1>2, <1>6, MiddlewareAdvances DEF InsertClaim, At, Waiting
<1>7. CASE Bypass(r)
  BY <1>1, <1>7, BypassAdvances
<1>8. CASE HandlerFails(r) \/ HandlerSucceeds(r) \/ sendTimeout(r) \/ Crash(r)
  BY <1>1, <1>8, HandlerAdvances
<1>9. QED
  BY <1>3, <1>4, <1>5, <1>6, <1>7, <1>8

(* Time takes leases away and gives none; the row of a holder is not yet   *)
(* expired.                                                                *)
LEMMA ClockStep ==
    ASSUME IInv, Tick \/ purgeExpiredIdempotencyKeys
    PROVE  IInv'
<1> USE DEF IInv
<1>1. requests' = requests /\ requests \in [Requests -> RequestState]
  BY Typed DEF Tick, purgeExpiredIdempotencyKeys
<1>2. now \in 0..MaxTime /\ now' \in 0..MaxTime /\ now <= now'
  BY Typed, IdempotencyAssumption DEF Tick, purgeExpiredIdempotencyKeys
<1>3. record' = record \/ (record' = NoRecord /\ record.expiresAt < now)
  BY DEF Tick, purgeExpiredIdempotencyKeys
<1>4. RowTypes'
  BY <1>2, <1>3, Typed DEF RowTypes
<1>5. TypeOK'
  BY <1>1, <1>4, TypedAgain
<1>6. StagesFit' /\ ReplaysAreAnswers' /\ (Undisturbed' <=> Undisturbed)
  BY <1>1 DEF StagesFit, ReplaysAreAnswers, Undisturbed, Ran, TimedOut
<1>7. RowIsAnswer'
  BY <1>1, <1>3 DEF RowIsAnswer, NoRecord
<1>8. HoldersOwn'
  <2>1. \A q \in Requests : requests[q].lease \in Nat
    BY RequestTyped, IdempotencyAssumption DEF RequestState
  <2>2. \A q \in Requests : Holds(q)' => Holds(q)
    BY <1>1, <1>2, <2>1, IdempotencyAssumption DEF Holds, At
  <2>3. ASSUME NEW q \in Requests, Holds(q), Owns(q)
        PROVE  record' = record
    <3>1. record \in Row
      BY <2>3, Typed DEF Owns
    <3>2. record.expiresAt \in Nat /\ now \in Nat
      BY <1>2, <3>1, IdempotencyAssumption DEF Row
    <3>3. now <= requests[q].lease /\ requests[q].lease < record.expiresAt
      BY <2>3 DEF Holds, Owns
    <3>4. QED
      BY <1>3, <2>1, <3>2, <3>3
  <2>4. Undisturbed' => \A q \in Requests : requests'[q].writes \subseteq {"complete"}
    BY <1>1, <1>6 DEF HoldersOwn
  <2>5. \A q \in Requests : Undisturbed /\ Holds(q) /\ Holds(q)' /\ Owns(q) =>
            /\ record' # NoRecord /\ record'.lockedUntil = record.lockedUntil
            /\ record'.expiresAt = record.expiresAt
    BY <2>3 DEF Owns
  <2>6. QED
    BY <1>1, <1>6, <2>2, <2>4, <2>5, HoldersStay
<1>9. QED
  BY <1>5, <1>6, <1>7, <1>8

LEMMA NextIInv == IInv /\ [Next]_vars => IInv'
<1> SUFFICES ASSUME IInv, [Next]_vars
             PROVE  IInv'
  OBVIOUS
<1>1. CASE UNCHANGED vars
  BY <1>1 DEF vars, IInv, TypeOK, StagesFit, RowIsAnswer, ReplaysAreAnswers, HoldersOwn,
     Undisturbed, Ran, TimedOut, Holds, Owns, At
<1>2. CASE Next
  BY <1>2, RequestStep, ClockStep DEF Next
<1>3. QED
  BY <1>1, <1>2

(* Every step of the middleware, of a handler, of the purge and of the     *)
(* clock keeps the fields of the row and of the requests, the order of     *)
(* claim, run and write, and the one owner of a live lease.                *)
THEOREM KeyInvariant == Spec => []IInv
BY InitIInv, NextIInv, PTL DEF Spec

(* The row and the requests hold what the columns and the code allow.      *)
THEOREM KeyTypeCorrect == Spec => []TypeOK
<1>1. IInv => TypeOK
  BY DEF IInv
<1>2. QED
  BY <1>1, KeyInvariant, PTL

(* What a duplicate is served is the answer of a handler that succeeded,   *)
(* whatever timed out, crashed or was claimed again in between.            *)
THEOREM ReplaysServeAnswers == Spec => []ReplaysAreAnswers
<1>1. IInv => ReplaysAreAnswers
  BY DEF IInv
<1>2. QED
  BY <1>1, KeyInvariant, PTL

(* Two requests never run their handlers under a live lease, as long as    *)
(* no handler has failed, timed out or run past a broken database.         *)
THEOREM OneRunsUnderTheLease == Spec => []OneLeaseHolder
<1>1. IInv => OneLeaseHolder
  <2> SUFFICES ASSUME IInv, Undisturbed
               PROVE  Cardinality({r \in Requests : Holds(r)}) <= 1
    BY DEF OneLeaseHolder, Holds
  <2> DEFINE S == {r \in Requests : Holds(r)}
  <2>1. \A r, q \in S : r = q
    BY DEF IInv, HoldersOwn
  <2>2. S = {} \/ \E r : S = {r}
    BY <2>1
  <2>3. Cardinality(S) = 0 \/ Cardinality(S) = 1
    BY <2>2, FS_EmptySet, FS_Singleton
  <2>4. QED
    BY <2>3
<1>2. QED
  BY <1>1, KeyInvariant, PTL

(* Only one request has run, so it is the one answered and the one that    *)
(* writes; a duplicate finds neither a free row nor a pending one.         *)
THEOREM AnswerIsKept == Spec => KeptAnswerStays
<1>1. IInv /\ [Next]_vars =>
          [Complete /\ Undisturbed /\ Cardinality(Ran) = 1 => record' = record]_vars
  <2> SUFFICES ASSUME IInv, Next, Complete, Cardinality(Ran) = 1
               PROVE  record' = record
    OBVIOUS
  <2>1. /\ record \in Row /\ record # NoRecord
        /\ record.status = "complete" /\ record.expiresAt > now
    BY Typed DEF IInv, Complete, Live
  <2>2. record.expiresAt \in Nat /\ now \in Nat
    BY <2>1, Typed, IdempotencyAssumption DEF IInv, Row
  <2>3. CASE Tick \/ purgeExpiredIdempotencyKeys
    BY <2>1, <2>2, <2>3 DEF Tick, purgeExpiredIdempotencyKeys
  <2>4. ASSUME NEW r \in Requests, updateIdempotencyRecord(r)
        PROVE  record' = record
    <3>1. PICK w \in requests[r].writes :
              record' = IF w = "complete"
                        THEN [record EXCEPT !.status = "complete", !.response = r]
                        ELSE record
      BY <2>1, <2>4 DEF updateIdempotencyRecord
    <3>2. r \in Ran /\ record.response \in Ran
      BY <2>1, <3>1 DEF IInv, StagesFit, Fits, RowIsAnswer, Ran
    <3>3. IsFiniteSet(Ran)
      BY FS_Subset, IdempotencyAssumption DEF Ran
    <3>4. \E q : Ran = {q}
      BY <3>3, FS_Singleton
    <3>5. record.response = r
      BY <3>2, <3>4
    <3>6. [record EXCEPT !.status = "complete", !.response = r] = record
      BY <2>1, <3>5 DEF Row
    <3>7. QED
      BY <3>1, <3>6
  <2>5. ASSUME NEW r \in Requests, Reclaim(r) \/ InsertClaim(r)
        PROVE  record' = record
    BY <2>1, <2>5 DEF Reclaim, InsertClaim
  <2>6. ASSUME NEW r \in Requests,
               \/ Arrive(r) \/ getIdempotencyRecord(r) \/ Reread(r) \/ Bypass(r)
               \/ LookAgain(r) \/ GiveUpWaiting(r) \/ HandlerFails(r) \/ HandlerSucceeds(r)
               \/ sendTimeout(r) \/ Crash(r)
        PROVE  record' = record
    BY <2>6 DEF Arrive, getIdempotencyRecord, Reread, Bypass, LookAgain, GiveUpWaiting,
       HandlerFails, HandlerSucceeds, sendTimeout, TimeoutAnswer, Crash
  <2>7. QED
    BY <2>3, <2>4, <2>5, <2>6 DEF Next
<1>2. QED
  BY <1>1, KeyInvariant, PTL DEF Spec, KeptAnswerStays
=============================================================================
