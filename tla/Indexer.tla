------------------------------- MODULE Indexer -------------------------------
(***************************************************************************)
(* The event indexer (services/indexer.ts): a poll reads contract events   *)
(* from the ledger, records each in the events table and applies it to the *)
(* players and pending milestones; events it does not understand are       *)
(* parked and retried by an administrator.  The pieces of a poll between   *)
(* awaits are steps: anything else may happen, or the process may stop,    *)
(* between two of them.                                                    *)
(*                                                                         *)
(* Polls do not overlap here (index.ts starts one every few seconds        *)
(* whether or not the last has ended), there is one retry at a time, and a *)
(* player has one row.  Broadcasts and webhooks are left out.              *)
(***************************************************************************)
EXTENDS Integers, FiniteSets, Sequences, FiniteSetsExt

CONSTANTS
    Chain,           \* the contract events in ledger order
    Undecodable,     \* which events the deployed build may fail to decode
    TrialPlayers,    \* players a scout may offer a trial
    FinalityMargin,  \* config.indexer.finalityMargin
    PageSize,        \* events in one getEvents response
    MaxFailures,     \* bound on failed statements and crashes
    MaxResets        \* bound on cursor resets by an administrator

Events == DOMAIN Chain
Ledger(e) == Chain[e].ledger
Player(e) == Chain[e].player
Kind(e) == Chain[e].kind
Players == {Player(e) : e \in Events} \cup TrialPlayers

(* The topic of an event is a type the build knows, an alias of one (which *)
(* normalizeSorobanEvent translates) or foreign to it.                     *)
ASSUME IndexerAssumption ==
    /\ Chain \in Seq([ledger : Nat \ {0}, player : Players,
                      kind : {"registered", "submitted", "approved"},
                      topic : {"known", "alias", "foreign"}])
    /\ \A d, e \in Events : d <= e => Ledger(d) <= Ledger(e)
    /\ Undecodable \subseteq SUBSET Events
    /\ FinalityMargin \in Nat /\ PageSize \in Nat \ {0}
    /\ MaxFailures \in Nat /\ MaxResets \in Nat

VARIABLES
    closed,       \* the last closed ledger
    undecodable,  \* the events the first build cannot decode
    deployed,     \* has a build been deployed that understands every event?
    cursor,       \* indexer_state.last_ledger
    rows,         \* the events table
    parked,       \* indexer_unprocessed_events
    linked,       \* players whose row carries the on-chain id
    level,        \* players.progress_level
    pending,      \* pending_milestones
    poll,         \* the poll under way
    retry,        \* the retry of a parked event under way
    failures, resets,
    approved, trialled, rolledBack   \* history: what else moved levels and rows

chainVars == <<closed, undecodable, deployed>>
tables == <<cursor, rows, parked, linked, level, pending>>
budgets == <<failures, resets>>
history == <<approved, trialled, rolledBack>>
vars == <<chainVars, tables, poll, retry, budgets, history>>

(* A row of events: is its type the known one, and did the lookup find the *)
(* player its payload names?                                               *)
EventRow == [event : Events, typed : BOOLEAN, resolved : BOOLEAN]
Milestone == [event : Events, resolved : BOOLEAN]

NoPoll == [step |-> "idle", from |-> 0, todo |-> {}, last |-> 0, hold |-> 0,
           resolved |-> FALSE]
NoRetry == [step |-> "idle", event |-> 0, resolved |-> FALSE]

Init ==
    /\ closed = 0 /\ undecodable \in Undecodable /\ deployed = FALSE
    /\ cursor = 0 /\ rows = {} /\ parked = {} /\ linked = {} /\ pending = {}
    /\ level = [p \in Players |-> 0]
    /\ poll = NoPoll /\ retry = NoRetry
    /\ failures = 0 /\ resets = 0
    /\ approved = {} /\ trialled = {} /\ rolledBack = FALSE

Fail == failures < MaxFailures /\ failures' = failures + 1
-----------------------------------------------------------------------------
CloseLedger ==
    /\ \E e \in Events : closed < Ledger(e)
    /\ closed' = closed + 1
    /\ UNCHANGED <<undecodable, deployed, tables, poll, retry, budgets, history>>

(* TIER_THRESHOLDS.                                                        *)
MinApprovedMilestones == [t \in 0..3 |-> <<0, 1, 3, 6>>[t + 1]]

tierForApprovedMilestones(count) ==
    Max({t \in 0..3 : count >= MinApprovedMilestones[t]})

ApprovedRows(p, table) ==
    {r \in table : Kind(r.event) = "approved" /\ Player(r.event) = p /\ r.typed /\ r.resolved}

(* Mutant: every event of the player counts.                               *)
CountEverything(p, table) == Cardinality({r \in table : Player(r.event) = p})

(* getEventsCount of 'milestone_approved' with the player's id.            *)
ApprovedCount(p, table) == Cardinality(ApprovedRows(p, table))

Recorded(e) == \E r \in rows : r.event = e

Outcome(e) ==
    IF ~deployed /\ e \in undecodable THEN "decode_error"
    ELSE IF ~deployed /\ Chain[e].topic = "foreign" THEN "unknown_type"
    ELSE "applied"

(* The id a payload names: registrations make one, other events look it up *)
(* by the on-chain id.                                                     *)
Resolves(e) == Kind(e) = "registered" \/ Player(e) \in linked

(* INSERT OR IGNORE.                                                       *)
Insert(e, typed, resolved) ==
    IF Recorded(e) THEN rows
    ELSE rows \cup {[event |-> e, typed |-> typed, resolved |-> resolved]}

(* The side effects of an event, with the events table as it is then.      *)
SideEffects(e, resolved, table) ==
    /\ linked' = IF Kind(e) = "registered" THEN linked \cup {Player(e)} ELSE linked
    /\ pending' = IF Kind(e) = "submitted" /\ ~\E m \in pending : m.event = e
                  THEN pending \cup {[event |-> e, resolved |-> resolved]}
                  ELSE pending
    /\ level' = IF Kind(e) = "approved" /\ resolved
                THEN [level EXCEPT ![Player(e)] =
                        tierForApprovedMilestones(ApprovedCount(Player(e), table))]
                ELSE level
-----------------------------------------------------------------------------
(* The poll.                                                               *)

From(c) == IF c > FinalityMargin THEN c - FinalityMargin ELSE 0

StartPoll ==
    /\ poll.step = "idle"
    /\ poll' = [NoPoll EXCEPT !.step = "asking", !.from = From(cursor)]
    /\ UNCHANGED <<chainVars, tables, retry, budgets, history>>

Page(from) ==
    LET available == {e \in Events : from <= Ledger(e) /\ Ledger(e) <= closed}
    IN  {e \in available : Cardinality({d \in available : d <= e}) <= PageSize}

(* No response carries a ledger hash, so what is compared is an identifier *)
(* of the transaction: a ledger with a row of another event looks replaced.*)
ReplacedLedgers(page) ==
    {Ledger(e) : e \in {e \in page : \E r \in rows : /\ Ledger(r.event) = Ledger(e)
                                                     /\ r.event # e}}

rollbackEventsFromLedger(ledger) == {r \in rows : Ledger(r.event) < ledger}

ReceiveNothing ==
    /\ poll.step = "asking" /\ Page(poll.from) = {}
    /\ poll' = NoPoll
    /\ UNCHANGED <<chainVars, tables, retry, budgets, history>>

RollBackReplaced(page) ==
    LET replaced == ReplacedLedgers(page)
    IN  \/ replaced = {} /\ UNCHANGED <<rows, rolledBack>>
        \/ \E ledger \in replaced :
              /\ \A other \in replaced : ledger <= other
              /\ rows' = rollbackEventsFromLedger(ledger)
              /\ rolledBack' = TRUE

ReceivePage ==
    /\ poll.step = "asking"
    /\ LET page == Page(poll.from)
       IN  \E latest \in page :
             /\ \A e \in page : e <= latest
             /\ RollBackReplaced(page)
             /\ poll' = [poll EXCEPT !.step = "event", !.todo = page,
                                     !.last = Ledger(latest)]
    /\ UNCHANGED <<chainVars, cursor, parked, linked, level, pending, retry, budgets,
                   approved, trialled>>

(* The event whose turn it is.                                             *)
AtEvent(step, e) == poll.step = step /\ e \in poll.todo /\ \A d \in poll.todo : e <= d
Handled(e) == [poll EXCEPT !.step = "event", !.todo = @ \ {e}]

(* The ledger of the earliest known event that could not be decoded.       *)
Held(e) ==
    IF Chain[e].topic = "known" /\ (poll.hold = 0 \/ Ledger(e) < poll.hold)
    THEN Ledger(e) ELSE poll.hold

(* recordUnappliedEvent: a failure to write the row is only logged.        *)
Park(e) ==
    \/ parked' = parked \cup {e} /\ UNCHANGED failures
    \/ Fail /\ UNCHANGED parked

DecodeError(e) ==
    /\ AtEvent("event", e) /\ Outcome(e) = "decode_error"
    /\ Park(e)
    /\ poll' = [Handled(e) EXCEPT !.hold = Held(e)]
    /\ UNCHANGED <<chainVars, cursor, rows, linked, level, pending, retry, resets, history>>

UnknownType(e) ==
    /\ AtEvent("event", e) /\ Outcome(e) = "unknown_type"
    /\ Park(e)
    /\ rows' = Insert(e, FALSE, FALSE)
    /\ poll' = Handled(e)
    /\ UNCHANGED <<chainVars, cursor, linked, level, pending, retry, resets, history>>

Lookup(e) ==
    /\ AtEvent("event", e) /\ Outcome(e) = "applied"
    /\ poll' = [poll EXCEPT !.step = "insert", !.resolved = Resolves(e)]
    /\ UNCHANGED <<chainVars, tables, retry, budgets, history>>

(* Mutant: an event delivered again is applied again.                      *)
InsertRowAndApply(e) ==
    /\ AtEvent("insert", e)
    /\ rows' = Insert(e, TRUE, poll.resolved)
    /\ poll' = [poll EXCEPT !.step = "effect"]
    /\ UNCHANGED <<chainVars, cursor, parked, linked, level, pending, retry, budgets,
                   history>>

InsertRow(e) ==
    /\ AtEvent("insert", e)
    /\ rows' = Insert(e, TRUE, poll.resolved)
    /\ poll' = IF Recorded(e) THEN Handled(e) ELSE [poll EXCEPT !.step = "effect"]
    /\ UNCHANGED <<chainVars, cursor, parked, linked, level, pending, retry, budgets,
                   history>>

ApplyEvent(e) ==
    /\ AtEvent("effect", e)
    /\ SideEffects(e, poll.resolved, rows)
    /\ poll' = Handled(e)
    /\ UNCHANGED <<chainVars, cursor, rows, parked, retry, budgets, history>>

(* Mutant: the cursor moves on whatever could not be decoded.              *)
PersistIgnoringHold ==
    /\ poll.step = "event" /\ poll.todo = {}
    /\ cursor' = poll.last + 1
    /\ poll' = NoPoll
    /\ UNCHANGED <<chainVars, rows, parked, linked, level, pending, retry, budgets, history>>

persistLastIndexedLedger ==
    /\ poll.step = "event" /\ poll.todo = {}
    /\ cursor' = IF poll.hold # 0 THEN poll.hold ELSE poll.last + 1
    /\ poll' = NoPoll
    /\ UNCHANGED <<chainVars, rows, parked, linked, level, pending, retry, budgets, history>>

PollStep ==
    \/ StartPoll \/ ReceiveNothing \/ ReceivePage \/ persistLastIndexedLedger
    \/ \E e \in poll.todo : \/ DecodeError(e) \/ UnknownType(e)
                            \/ Lookup(e) \/ InsertRow(e) \/ ApplyEvent(e)

(* A call of the poll throws: the poll ends, its statements stay.          *)
PollFails ==
    /\ poll.step # "idle" /\ Fail
    /\ poll' = NoPoll
    /\ UNCHANGED <<chainVars, tables, retry, resets, history>>
-----------------------------------------------------------------------------
(* replayUnprocessedEvent.                                                 *)

RetryLookup(e) ==
    /\ retry.step = "idle" /\ e \in parked /\ Outcome(e) = "applied"
    /\ retry' = [step |-> "apply", event |-> e, resolved |-> Resolves(e)]
    /\ UNCHANGED <<chainVars, tables, poll, budgets, history>>

RetryApply ==
    /\ retry.step = "apply"
    /\ rows' = Insert(retry.event, TRUE, retry.resolved)
    /\ SideEffects(retry.event, retry.resolved, rows')
    /\ retry' = [retry EXCEPT !.step = "delete"]
    /\ UNCHANGED <<chainVars, cursor, parked, poll, budgets, history>>

deleteUnprocessedEvent ==
    /\ retry.step = "delete"
    /\ parked' = parked \ {retry.event}
    /\ retry' = NoRetry
    /\ UNCHANGED <<chainVars, cursor, rows, linked, level, pending, poll, budgets, history>>

RetryFails ==
    /\ retry.step # "idle" /\ Fail
    /\ retry' = NoRetry
    /\ UNCHANGED <<chainVars, tables, poll, resets, history>>
-----------------------------------------------------------------------------
(* The process stops; a deployment also brings the build that understands  *)
(* every event.                                                            *)
Restart == poll' = NoPoll /\ retry' = NoRetry

Crash ==
    /\ Fail /\ Restart
    /\ UNCHANGED <<chainVars, tables, resets, history>>

Deploy ==
    /\ ~deployed /\ deployed' = TRUE /\ Restart
    /\ UNCHANGED <<closed, undecodable, tables, budgets, history>>

(* The administrator's reindex, to repeat ledgers that were indexed.       *)
ResetCursor(ledger) ==
    /\ resets < MaxResets /\ resets' = resets + 1
    /\ cursor' = ledger
    /\ UNCHANGED <<chainVars, rows, parked, linked, level, pending, poll, retry,
                   failures, history>>

(* A validator approves a pending milestone through the API; a failure     *)
(* after the milestone is removed leaves the level as it was.              *)
approveBulkMilestones(m) ==
    /\ m \in pending /\ pending' = pending \ {m}
    /\ approved' = approved \cup {m.event}
    /\ \/ /\ level' = IF ~m.resolved THEN level
                      ELSE [level EXCEPT ![Player(m.event)] =
                              tierForApprovedMilestones(ApprovedCount(Player(m.event), rows) + 1)]
          /\ UNCHANGED failures
       \/ Fail /\ UNCHANGED level
    /\ UNCHANGED <<chainVars, cursor, rows, parked, linked, poll, retry, resets, trialled,
                   rolledBack>>

(* A scout's trial offer promotes the player at once.                      *)
createTrialOffer(p) ==
    /\ p \in TrialPlayers
    /\ \E r \in rows : Kind(r.event) = "registered" /\ Player(r.event) = p /\ r.typed
    /\ level' = IF p \in linked THEN [level EXCEPT ![p] = 3] ELSE level
    /\ trialled' = trialled \cup {p}
    /\ UNCHANGED <<chainVars, cursor, rows, parked, linked, pending, poll, retry, budgets,
                   approved, rolledBack>>

Next ==
    \/ CloseLedger \/ PollStep \/ PollFails \/ Crash \/ Deploy
    \/ \E e \in Events : RetryLookup(e)
    \/ RetryApply \/ deleteUnprocessedEvent \/ RetryFails
    \/ \E ledger \in 0..cursor : ResetCursor(ledger)
    \/ \E m \in pending : approveBulkMilestones(m)
    \/ \E p \in TrialPlayers : createTrialOffer(p)

Spec == Init /\ [][Next]_vars

(* Polls go on as long as the server runs, and somebody repairs the        *)
(* decoder.  Nothing else has to happen.                                   *)
FairSpec == Spec /\ WF_vars(PollStep) /\ WF_vars(Deploy)
-----------------------------------------------------------------------------
TypeOK ==
    /\ closed \in Nat /\ undecodable \in Undecodable /\ deployed \in BOOLEAN
    /\ cursor \in Nat
    /\ rows \subseteq EventRow /\ parked \subseteq Events
    /\ \A r, s \in rows : r.event = s.event => r = s
    /\ linked \subseteq Players /\ level \in [Players -> 0..3] /\ pending \subseteq Milestone
    /\ poll \in [step : {"idle", "asking", "event", "insert", "effect"}, from : Nat,
                 todo : SUBSET Events, last : Nat, hold : Nat, resolved : BOOLEAN]
    /\ retry \in [step : {"idle", "apply", "delete"}, event : Events \cup {0},
                  resolved : BOOLEAN]
    /\ failures \in 0..MaxFailures /\ resets \in 0..MaxResets
    /\ approved \subseteq Events /\ trialled \subseteq TrialPlayers
    /\ rolledBack \in BOOLEAN

(* No poll passes an event by (the cursor semantics of indexEvents): what  *)
(* the next poll will not ask for any more is in the events table, through *)
(* failures, crashes, rollbacks, decode errors and cut pages.  Only an     *)
(* event that could not be decoded and whose topic is an alias, which does *)
(* not hold the cursor, is merely parked, if that succeeded.               *)
NoEventSkipped ==
    \A e \in Events :
        Ledger(e) < From(cursor) =>
            \/ Recorded(e)
            \/ /\ e \in undecodable /\ Chain[e].topic # "known"
               /\ e \in parked \/ failures > 0

ApprovedOnChain(p) ==
    Cardinality({e \in Events : Kind(e) = "approved" /\ Player(e) = p /\ Ledger(e) <= closed})
ApprovedByHand(p) == IF \E m \in approved : Player(m) = p THEN 1 ELSE 0

(* A player's level is never above what approvals on the ledger, one       *)
(* approval through the API or a trial offer give (applyOne,               *)
(* replayUnprocessedEvent): no event counts twice, however often it is     *)
(* delivered, rolled back, parked and retried.                             *)
LevelIsBacked ==
    \A p \in Players :
        \/ level[p] <= tierForApprovedMilestones(ApprovedOnChain(p) + ApprovedByHand(p))
        \/ p \in trialled

(* An event the first build could not apply.                               *)
MayBeParked(e) == e \in undecodable \/ Chain[e].topic = "foreign"

(* A milestone a validator has approved does not come back for approval,   *)
(* unless a rollback has removed its event or the event was parked: its    *)
(* retry (replayUnprocessedEvent) applies it without asking whether a poll *)
(* has, or is about to.                                                    *)
ApprovedStaysApproved ==
    [][\A m \in pending' \ pending :
          m.event \in approved => rolledBack \/ MayBeParked(m.event)]_vars

(* Again and again every event of the closed ledgers is recorded, decode   *)
(* errors included once the decoder is repaired, save for those            *)
(* NoEventSkipped excepts: failures, rollbacks and resets only delay it.   *)
EventuallyIndexed ==
    []<>(\A e \in Events :
            Ledger(e) <= closed /\ (e \in undecodable => Chain[e].topic = "known")
                => Recorded(e))

(* What indexEvents says of a batch that fails half-way: it is applied     *)
(* again by the next poll, so levels catch up with the recorded approvals. *)
LevelCatchesUp ==
    \A p \in Players :
        []<>(level[p] = tierForApprovedMilestones(ApprovedCount(p, rows)))
=============================================================================
