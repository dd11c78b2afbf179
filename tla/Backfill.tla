------------------------------- MODULE Backfill -------------------------------
(***************************************************************************)
(* Reindexing (services/reindexService.ts) and replay (replayService.ts)   *)
(* by services/eventBatchProcessor.ts, beside the polls of the indexer,    *)
(* which index.ts starts on a timer whether or not the last one has ended. *)
(* All of them fill the table of events; polls and a finished reindex      *)
(* write the cursor from which the next poll reads.                        *)
(*                                                                         *)
(* Every event is understood here and side effects are left out: module    *)
(* Indexer has both, with one poll.  The process is one; nothing of a job  *)
(* survives it.                                                            *)
(***************************************************************************)
EXTENDS Naturals, FiniteSets, Sequences, FiniteSetsExt

CONSTANTS
    Chain,             \* the ledger of each event, in ledger order
    Tip,               \* the last ledger that closes
    Polls,             \* polls that may overlap
    PageSize,          \* events in one getEvents response
    FinalityMargin,    \* config.indexer.finalityMargin
    BatchSize, CatchupBatchSize, CatchupThreshold,   \* config.reindex
    Ranges,            \* the ranges that jobs are asked for (reindexBodySchema)
    MaxJobs,           \* bound on the jobs that are started
    MaxFaults          \* bound on calls that fail and on crashes

Events == DOMAIN Chain
Ledger(e) == Chain[e]
Jobs == {"reindex", "replay"}
Within(from, to) == {e \in Events : from <= Ledger(e) /\ Ledger(e) <= to}

ASSUME BackfillAssumption ==
    /\ Tip \in Nat \ {0} /\ Chain \in Seq(1..Tip)
    /\ \A d, e \in Events : d <= e => Ledger(d) <= Ledger(e)
    /\ FinalityMargin \in Nat
    /\ {PageSize, BatchSize, CatchupBatchSize} \subseteq Nat \ {0}
    /\ {CatchupThreshold, MaxJobs, MaxFaults} \subseteq Nat
    /\ \A range \in Ranges : {range.from, range.to} \subseteq 1..Tip /\ range.from < range.to

VARIABLES
    closed,      \* the last closed ledger
    cursor,      \* indexer_state.last_ledger
    rows,        \* the events table
    hashed,      \* the rows with a ledger_hash: those that a poll has inserted
    polls,       \* the polls under way
    job,         \* the last reindex and the last replay
    cancelFlag,  \* _cancelFlag
    started, faults,
    disturbed    \* the cursor may be ahead of the table (history)

table == <<cursor, rows, hashed>>
backfillVars == <<closed, table, polls, job, cancelFlag, started, faults, disturbed>>

NoPoll == [step |-> "idle", from |-> 0, todo |-> {}, last |-> 0]

(* What getReindexStatus reports, and where the loop over the batches is.  *)
(* History: has the job been asked to stop, has it inserted a batch since, *)
(* may events of its range be missing, did it begin beyond the next poll?   *)
NoJob == [status |-> "idle", step |-> "none", from |-> 1, to |-> 0, next |-> 1, end |-> 0,
          catchup |-> FALSE, processed |-> 0,
          asked |-> FALSE, late |-> 0, missed |-> FALSE, ahead |-> FALSE]

Running(k) == job[k].status = "running"

From == IF cursor > FinalityMargin + 1 THEN cursor - FinalityMargin ELSE 1

(* Nobody else can write the cursor, or has since the poll began.          *)
Alone(p) ==
    /\ \A q \in Polls \ {p} : polls[q] = NoPoll
    /\ ~\E k \in Jobs : Running(k)
    /\ polls[p].from = From

BackfillInit ==
    /\ closed = 0 /\ cursor = 0 /\ rows = {} /\ hashed = {}
    /\ polls = [p \in Polls |-> NoPoll]
    /\ job = [k \in Jobs |-> NoJob]
    /\ cancelFlag = FALSE /\ started = 0 /\ faults = 0 /\ disturbed = FALSE

Fail == faults < MaxFaults /\ faults' = faults + 1

CloseLedger ==
    /\ closed < Tip /\ closed' = closed + 1
    /\ UNCHANGED <<table, polls, job, cancelFlag, started, faults, disturbed>>

(* One response of getEvents.                                              *)
Page(from) ==
    LET available == Within(from, closed)
    IN  {e \in available : Cardinality({d \in available : d <= e}) <= PageSize}

-----------------------------------------------------------------------------
(* The polls                                                               *)

StartPoll(p) ==
    /\ polls[p].step = "idle"
    /\ polls' = [polls EXCEPT ![p] = [NoPoll EXCEPT !.step = "asking", !.from = From]]
    /\ UNCHANGED <<closed, table, job, cancelFlag, started, faults, disturbed>>

(* A ledger with a row of another event looks replaced, unless the row has *)
(* no hash to compare.                                                     *)
ReplacedLedgers(page) ==
    {Ledger(e) : e \in {e \in page : \E r \in hashed : Ledger(r) = Ledger(e) /\ r # e}}

(* A rollback takes rows that another poll or a job may have passed.       *)
RollBack(p, ledger) ==
    LET kept == Within(1, ledger - 1)
    IN  /\ rows' = rows \cap kept /\ hashed' = hashed \cap kept
        /\ job' = [k \in Jobs |->
               [job[k] EXCEPT !.missed = @ \/ (rows \ kept) \cap Within(job[k].from, job[k].to) # {}]]
        /\ disturbed' = \/ disturbed
                        \/ (rows \ kept # {} /\ ~Alone(p))

ReceivePage(p) ==
    /\ polls[p].step = "asking"
    /\ LET page == Page(polls[p].from)
           replaced == ReplacedLedgers(page)
       IN  /\ polls' = [polls EXCEPT ![p] =
                  IF page = {} THEN NoPoll
                  ELSE [@ EXCEPT !.step = "insert", !.todo = page,
                                 !.last = Ledger(Max(page))]]
           /\ IF replaced = {} THEN UNCHANGED <<rows, hashed, job, disturbed>>
              ELSE RollBack(p, Min(replaced))
    /\ UNCHANGED <<closed, cursor, cancelFlag, started, faults>>

(* INSERT OR IGNORE, one event after the other.                            *)
InsertEvent(p) ==
    /\ polls[p].step = "insert" /\ polls[p].todo # {}
    /\ LET e == Min(polls[p].todo)
       IN  /\ rows' = rows \cup {e}
           /\ hashed' = IF e \in rows THEN hashed ELSE hashed \cup {e}
           /\ polls' = [polls EXCEPT ![p].todo = @ \ {e}]
    /\ UNCHANGED <<closed, cursor, job, cancelFlag, started, faults, disturbed>>

(* Mutant: the cursor is written when the page arrives.                    *)
AdvanceEarly(p) ==
    /\ polls[p].step = "insert"
    /\ cursor' = polls[p].last + 1
    /\ polls' = [polls EXCEPT ![p] = NoPoll]
    /\ UNCHANGED <<closed, rows, hashed, job, cancelFlag, started, faults, disturbed>>

EndPoll(p) ==
    /\ polls[p].step = "insert" /\ polls[p].todo = {}
    /\ cursor' = polls[p].last + 1
    /\ polls' = [polls EXCEPT ![p] = NoPoll]
    /\ UNCHANGED <<closed, rows, hashed, job, cancelFlag, started, faults, disturbed>>

PollFails(p) ==
    /\ polls[p].step # "idle" /\ Fail
    /\ polls' = [polls EXCEPT ![p] = NoPoll]
    /\ UNCHANGED <<closed, table, job, cancelFlag, started, disturbed>>

-----------------------------------------------------------------------------
(* The jobs                                                                *)

(* getBatchSize: a reindex far from its end takes larger batches.  A       *)
(* replay does not.                                                        *)
Catchup(k, j) == k = "reindex" /\ j.to - j.next + 1 > CatchupThreshold

(* The top of the loop, where there is a batch left.                       *)
AskBatch(k, j) ==
    LET size == IF Catchup(k, j) THEN CatchupBatchSize ELSE BatchSize
    IN  [j EXCEPT !.step = "ask", !.catchup = Catchup(k, j),
                  !.end = Min({j.next + size - 1, j.to})]

(* What the loop kept for itself is gone.                                  *)
End(j, status) ==
    [j EXCEPT !.status = status, !.step = "none", !.next = 1, !.end = 0, !.catchup = FALSE,
              !.ahead = FALSE]

(* Mutant: the flag of an earlier cancellation is left up.                 *)
StartKeepingFlag(k, range) ==
    /\ ~Running(k) /\ started < MaxJobs
    /\ LET j == [NoJob EXCEPT !.status = "running", !.from = range.from, !.to = range.to,
                              !.next = range.from, !.ahead = range.from > From]
       IN  job' = [job EXCEPT ![k] =
               IF k = "reindex" /\ cancelFlag THEN End(j, "cancelled") ELSE AskBatch(k, j)]
    /\ started' = started + 1
    /\ UNCHANGED <<closed, table, polls, cancelFlag, faults, disturbed>>

(* startReindex, runReplay; the first call is made at once.                *)
StartJob(k, range) ==
    /\ ~Running(k) /\ started < MaxJobs
    /\ job' = [job EXCEPT ![k] =
           AskBatch(k, [NoJob EXCEPT !.status = "running", !.from = range.from, !.to = range.to,
                                     !.next = range.from, !.ahead = range.from > From])]
    /\ cancelFlag' = IF k = "reindex" THEN FALSE ELSE cancelFlag
    /\ started' = started + 1
    /\ UNCHANGED <<closed, table, polls, faults, disturbed>>

cancelReindex ==
    /\ Running("reindex")
    /\ cancelFlag' = TRUE
    /\ job' = [job EXCEPT !["reindex"].asked = TRUE]
    /\ UNCHANGED <<closed, table, polls, started, faults, disturbed>>

(* What follows a batch: the end, a pause, or at once the next batch.      *)
AfterBatch(k, j) ==
    CASE j.next > j.to -> End(j, "complete")
      [] j.next <= j.to /\ (k = "replay" \/ ~j.catchup) -> [j EXCEPT !.step = "pause"]
      [] OTHER -> IF cancelFlag THEN End(j, "cancelled") ELSE AskBatch(k, j)

(* The batch is inserted in one transaction and counted; a finished reindex*)
(* writes the cursor.                                                      *)
InsertBatch(k, received, missed) ==
    LET counted == [job[k] EXCEPT !.next = job[k].end + 1,
                                  !.processed = job[k].end - job[k].from + 1,
                                  !.missed = @ \/ missed,
                                  !.late = IF job[k].asked THEN @ + 1 ELSE @]
        after == AfterBatch(k, counted)
        written == k = "reindex" /\ after.status = "complete"
    IN  /\ rows' = rows \cup received
        /\ job' = [job EXCEPT ![k] = after]
        /\ cursor' = IF written THEN job[k].to + 1 ELSE cursor
        /\ disturbed' = \/ disturbed
                        \/ (written /\ (after.missed \/ job[k].ahead))
        /\ UNCHANGED hashed

(* A response is cut after a page of events, whatever is still to come.    *)
ReceiveBatch(k) ==
    /\ job[k].step = "ask"
    /\ LET page == Page(job[k].next)
           cut == Cardinality(page) = PageSize /\ Ledger(Max(page)) <= job[k].end
       IN  InsertBatch(k, page \cap Within(job[k].next, job[k].end),
                       cut \/ closed < job[k].end)
    /\ UNCHANGED <<closed, polls, cancelFlag, started, faults>>

(* The call fails and the loop goes on, as if the batch were empty.        *)
BatchIsSkipped(k) ==
    /\ job[k].step = "ask" /\ Fail
    /\ InsertBatch(k, {}, TRUE)
    /\ UNCHANGED <<closed, polls, cancelFlag, started>>

(* Mutant: after the back-off the loop goes on with the next batch.        *)
SkipRateLimited(k) ==
    /\ k = "reindex" /\ job[k].step = "ask" /\ Fail
    /\ job' = [job EXCEPT ![k] =
           IF @.end = @.to THEN End(@, "complete")
           ELSE [@ EXCEPT !.step = "pause", !.next = job[k].end + 1]]
    /\ UNCHANGED <<closed, table, polls, cancelFlag, started, disturbed>>

(* A reindex that is rate-limited asks for the batch again.                *)
RateLimited(k) ==
    /\ k = "reindex" /\ job[k].step = "ask" /\ Fail
    /\ job' = [job EXCEPT ![k].step = "pause"]
    /\ UNCHANGED <<closed, table, polls, cancelFlag, started, disturbed>>

(* batchDelayMs or rateLimitBackoffMs have passed.                         *)
PauseEnds(k) ==
    /\ job[k].step = "pause"
    /\ job' = [job EXCEPT ![k] =
           IF k = "reindex" /\ cancelFlag THEN End(@, "cancelled") ELSE AskBatch(k, @)]
    /\ UNCHANGED <<closed, table, polls, cancelFlag, started, faults, disturbed>>

(* The transaction fails.                                                  *)
JobFails(k) ==
    /\ job[k].step = "ask" /\ Fail
    /\ job' = [job EXCEPT ![k] = End(@, "error")]
    /\ UNCHANGED <<closed, table, polls, cancelFlag, started, disturbed>>

-----------------------------------------------------------------------------
Crash ==
    /\ Fail
    /\ polls' = [p \in Polls |-> NoPoll] /\ job' = [k \in Jobs |-> NoJob]
    /\ cancelFlag' = FALSE
    /\ UNCHANGED <<closed, table, started, disturbed>>

BackfillNext ==
    \/ CloseLedger \/ cancelReindex \/ Crash
    \/ \E p \in Polls : StartPoll(p) \/ ReceivePage(p) \/ InsertEvent(p) \/ EndPoll(p)
                        \/ PollFails(p)
    \/ \E k \in Jobs :
          \/ \E range \in Ranges : StartJob(k, range)
          \/ ReceiveBatch(k) \/ PauseEnds(k) \/ BatchIsSkipped(k) \/ RateLimited(k) \/ JobFails(k)

BackfillSpec == BackfillInit /\ [][BackfillNext]_backfillVars

-----------------------------------------------------------------------------
(* The progress an administrator reads is true, also of a job that was     *)
(* cancelled or failed: what was processed is in the table, across changes *)
(* of the batch size, back-offs and polls at the same time.  The exceptions*)
(* are a rollback, a call that failed, and a batch whose events did not    *)
(* fit the response or whose ledgers had not closed.                       *)
ProgressIsTrue ==
    \A k \in Jobs : ~job[k].missed =>
        Within(job[k].from, job[k].from + job[k].processed - 1) \subseteq rows

(* "The job transitions to 'cancelled' within one batch iteration"         *)
(* (controllers/reindexController.ts): a job that was asked to stop inserts*)
(* at most one more batch, and no job stops that was not asked, however    *)
(* late the request for an earlier one came.                               *)
CancelsAreHeeded ==
    \A k \in Jobs : job[k].late <= 1 /\ (job[k].status = "cancelled" => job[k].asked)

(* Polls that overlap and reindexes write the cursor over one another, each*)
(* from what it has read; still, when the polls have ended, no event below *)
(* the start of the next is missing, as long as no rollback met another    *)
(* poll or job and no reindex completed that missed events or began beyond *)
(* what the next poll was to read.  (The cursor alone is not enough: a     *)
(* page may have cut the last ledger before it.)                           *)
CursorIsBacked ==
    ~disturbed /\ (\A p \in Polls : polls[p] = NoPoll) => Within(1, From - 1) \subseteq rows
=============================================================================
