---------------------------- MODULE IndexerProofs ----------------------------
(***************************************************************************)
(* What Indexer guarantees for every chain of events, every finality       *)
(* margin, every page size and any number of failures and resets.          *)
(***************************************************************************)
EXTENDS Indexer, FiniteSetTheorems, TLAPS

-----------------------------------------------------------------------------
(* The inductive invariant.  Whatever the cursor has passed is accounted   *)
(* for: recorded, or an event that may be left parked, or one whose        *)
(* parking may have failed.  A parked event whose retry is about to delete *)
(* it does not count: a rollback may have removed its row meanwhile.       *)
BeingDeleted(e) == retry.step = "delete" /\ retry.event = e

Covered(e) ==
    \/ Recorded(e)
    \/ /\ e \in undecodable /\ Chain[e].topic # "known"
       /\ failures > 0 \/ (e \in parked /\ ~BeingDeleted(e))

RetryDecodes ==
    retry.step # "idle" => retry.event \in Events /\ Outcome(retry.event) = "applied"

(* Types, with what they need of the events table and the retry.           *)
Types == TypeOK /\ IsFiniteSet(rows) /\ RetryDecodes

PassedCovered == \A e \in Events : Ledger(e) < From(cursor) => Covered(e)

(* A poll starts no later than what is covered, and a rollback removes     *)
(* nothing below its start.                                                *)
StartCovered ==
    poll.step # "idle" =>
        /\ From(cursor) <= poll.from
        /\ poll.step = "asking" => poll.hold = 0
        /\ \A e \in Events : Ledger(e) < poll.from => Covered(e)

(* The batch under way: what lies between its first and its last ledger is *)
(* to be handled, covered, or at or above the ledger the poll will hold.   *)
BatchCovered ==
    poll.step \in {"event", "insert", "effect"} =>
        /\ poll.hold <= poll.last
        /\ \A e \in poll.todo : Ledger(e) <= poll.last
        /\ \A e \in Events :
              poll.from <= Ledger(e) /\ Ledger(e) < poll.last =>
                  e \in poll.todo \/ Covered(e) \/ (poll.hold # 0 /\ poll.hold <= Ledger(e))

InsertedRecorded == \A e \in Events : AtEvent("effect", e) => Recorded(e)

Cover == PassedCovered /\ StartCovered /\ BatchCovered /\ InsertedRecorded

IInv == Types /\ Cover

-----------------------------------------------------------------------------
(* The chain: events are numbered in ledger order and there are finitely   *)
(* many.                                                                   *)
LEMMA ChainFacts ==
    /\ IsFiniteSet(Events)
    /\ \A e \in Events : /\ e \in Nat \ {0} /\ Ledger(e) \in Nat \ {0}
                         /\ Player(e) \in Players
                         /\ Kind(e) \in {"registered", "submitted", "approved"}
                         /\ Chain[e].topic \in {"known", "alias", "foreign"}
    /\ \A d, e \in Events : Ledger(d) < Ledger(e) => d < e
<1>1. Events = 1..Len(Chain) /\ Len(Chain) \in Nat
  BY IndexerAssumption DEF Events
<1> DEFINE Record == [ledger : Nat \ {0}, player : Players,
                      kind : {"registered", "submitted", "approved"},
                      topic : {"known", "alias", "foreign"}]
<1>2. \A e \in Events : Chain[e] \in Record
  <2>1. Chain \in Seq(Record)
    BY IndexerAssumption
  <2> HIDE DEF Record
  <2>2. QED
    BY <1>1, <2>1
<1>3. IsFiniteSet(Events)
  BY <1>1, FS_Interval
<1>4. \A e \in Events : /\ e \in Nat \ {0} /\ Ledger(e) \in Nat \ {0}
                        /\ Player(e) \in Players
                        /\ Kind(e) \in {"registered", "submitted", "approved"}
                        /\ Chain[e].topic \in {"known", "alias", "foreign"}
  BY <1>1, <1>2 DEF Ledger, Player, Kind
<1>5. \A d, e \in Events : Ledger(d) < Ledger(e) => d < e
  BY <1>4, IndexerAssumption
<1>6. QED
  BY <1>3, <1>4, <1>5

(* Tiers are the numbers 0 to 3 and grow with the count.                   *)
LEMMA TierFacts ==
    ASSUME NEW m \in Nat, NEW n \in Nat, m <= n
    PROVE  /\ tierForApprovedMilestones(m) \in 0..3
           /\ tierForApprovedMilestones(m) <= tierForApprovedMilestones(n)
<1> DEFINE Tiers(k) == {t \in 0..3 : k >= MinApprovedMilestones[t]}
           IsTop(k, t) == t \in Tiers(k) /\ \A u \in Tiers(k) : t >= u
<1>1. /\ MinApprovedMilestones[0] = 0 /\ MinApprovedMilestones[1] = 1
      /\ MinApprovedMilestones[2] = 3 /\ MinApprovedMilestones[3] = 6
  BY DEF MinApprovedMilestones
<1>2. ASSUME NEW k \in Nat
      PROVE  IsTop(k, tierForApprovedMilestones(k))
  <2>1. \E t \in 0..3 : IsTop(k, t)
    <3>1. CASE k >= 6
      <4>1. IsTop(k, 3)
        BY <1>1, <3>1
      <4>2. QED
        BY <4>1
    <3>2. CASE k \in 3..5
      <4>1. IsTop(k, 2)
        BY <1>1, <3>2
      <4>2. QED
        BY <4>1
    <3>3. CASE k \in 1..2
      <4>1. IsTop(k, 1)
        BY <1>1, <3>3
      <4>2. QED
        BY <4>1
    <3>4. CASE k = 0
      <4>1. IsTop(k, 0)
        BY <1>1, <3>4
      <4>2. QED
        BY <4>1
    <3>5. QED
      BY <3>1, <3>2, <3>3, <3>4
  <2>2. tierForApprovedMilestones(k) =
          CHOOSE t \in Tiers(k) : \A u \in Tiers(k) : t >= u
    BY DEF tierForApprovedMilestones, Max
  <2>3. QED
    BY <2>1, <2>2
<1>3. IsTop(m, tierForApprovedMilestones(m)) /\ IsTop(n, tierForApprovedMilestones(n))
  BY <1>2
<1>4. Tiers(m) \subseteq Tiers(n)
  BY <1>1
<1>5. QED
  BY <1>3, <1>4

-----------------------------------------------------------------------------
(* An approval count is a number, of any finite table.                     *)
LEMMA CountType ==
    ASSUME NEW table, IsFiniteSet(table), NEW p \in Players
    PROVE  ApprovedCount(p, table) \in Nat
<1>1. ApprovedRows(p, table) \subseteq table
  BY DEF ApprovedRows
<1>2. QED
  BY <1>1, FS_Subset, FS_CardinalityType DEF ApprovedCount

(* INSERT OR IGNORE keeps the key unique and leaves a row of the event.    *)
LEMMA InsertFacts ==
    ASSUME TypeOK, IsFiniteSet(rows),
           NEW e \in Events, NEW typed \in BOOLEAN, NEW resolved \in BOOLEAN
    PROVE  LET table == Insert(e, typed, resolved)
           IN  /\ rows \subseteq table /\ table \subseteq EventRow
               /\ \A r, s \in table : r.event = s.event => r = s
               /\ IsFiniteSet(table)
               /\ \E r \in table : r.event = e
<1> DEFINE row == [event |-> e, typed |-> typed, resolved |-> resolved]
<1>1. row \in EventRow /\ row.event = e
  BY DEF EventRow
<1>2. rows \subseteq EventRow /\ \A r, s \in rows : r.event = s.event => r = s
  BY DEF TypeOK
<1>3. IsFiniteSet(rows \cup {row})
  BY FS_AddElement
<1>4. Insert(e, typed, resolved) = IF Recorded(e) THEN rows ELSE rows \cup {row}
  BY DEF Insert
<1> HIDE DEF row
<1>5. QED
  BY <1>1, <1>2, <1>3, <1>4 DEF Recorded

(* The side effects of an event leave well-typed tables.                   *)
LEMMA SideEffectsType ==
    ASSUME TypeOK, NEW e \in Events, NEW resolved \in BOOLEAN,
           NEW table, IsFiniteSet(table), SideEffects(e, resolved, table)
    PROVE  /\ linked' \subseteq Players
           /\ level' \in [Players -> 0..3]
           /\ pending' \subseteq Milestone
<1>1. Player(e) \in Players
  BY ChainFacts
<1>2. tierForApprovedMilestones(ApprovedCount(Player(e), table)) \in 0..3
  BY <1>1, CountType, TierFacts
<1>3. linked' \subseteq Players
  BY <1>1 DEF SideEffects, TypeOK
<1>4. level' \in [Players -> 0..3]
  BY <1>1, <1>2 DEF SideEffects, TypeOK
<1>5. [event |-> e, resolved |-> resolved] \in Milestone
  BY DEF Milestone
<1>6. pending' \subseteq Milestone
  BY <1>5 DEF SideEffects, TypeOK
<1>7. QED
  BY <1>3, <1>4, <1>6

(* What a page holds: with its last event, every event of the earlier      *)
(* ledgers that the poll asked for.                                        *)
LEMMA PageFacts ==
    ASSUME closed \in Nat, NEW from \in Nat, NEW latest \in Page(from),
           \A e \in Page(from) : e <= latest
    PROVE  /\ Page(from) \subseteq Events
           /\ \A e \in Page(from) : from <= Ledger(e) /\ Ledger(e) <= Ledger(latest)
           /\ \A e \in Events :
                 from <= Ledger(e) /\ Ledger(e) < Ledger(latest) => e \in Page(from)
<1> DEFINE Available == {e \in Events : from <= Ledger(e) /\ Ledger(e) <= closed}
           UpTo(e) == {d \in Available : d <= e}
<1>1. Page(from) = {e \in Available : Cardinality(UpTo(e)) <= PageSize}
  BY DEF Page
<1>2. ASSUME NEW e \in Events, from <= Ledger(e), Ledger(e) < Ledger(latest)
      PROVE  e \in Page(from)
  <2>1. latest \in Available /\ Cardinality(UpTo(latest)) <= PageSize
    BY <1>1
  <2>2. e \in Available /\ e <= latest
    BY <1>2, <2>1, ChainFacts
  <2>3. UpTo(e) \subseteq UpTo(latest)
    BY <2>1, <2>2, ChainFacts
  <2>4. IsFiniteSet(UpTo(latest))
    <3>1. UpTo(latest) \subseteq Events
      OBVIOUS
    <3>2. QED
      BY <3>1, ChainFacts, FS_Subset
  <2> HIDE DEF Available, UpTo
  <2>5. /\ Cardinality(UpTo(e)) <= Cardinality(UpTo(latest))
        /\ Cardinality(UpTo(e)) \in Nat /\ Cardinality(UpTo(latest)) \in Nat
    BY <2>3, <2>4, FS_Subset, FS_CardinalityType
  <2>6. Cardinality(UpTo(e)) <= PageSize
    BY <2>1, <2>5, IndexerAssumption
  <2>7. QED
    BY <1>1, <2>2, <2>6
<1>3. \A e \in Page(from) : e \in Events /\ from <= Ledger(e)
  BY <1>1
<1>4. \A e \in Page(from) : Ledger(e) <= Ledger(latest)
  BY <1>3, IndexerAssumption
<1>5. QED
  BY <1>2, <1>3, <1>4

-----------------------------------------------------------------------------
(* Type correctness.                                                       *)
LEMMA PollKeepsTypes ==
    ASSUME Types, PollStep \/ PollFails
    PROVE  Types'
<1> USE IndexerAssumption
<1>1. CASE StartPoll
  <2>1. From(cursor) \in Nat
    BY DEF Types, TypeOK, From
  <2>2. QED
    BY <1>1, <2>1 DEF StartPoll, NoPoll, Types, TypeOK, RetryDecodes, Outcome,
                      chainVars, tables, budgets, history
<1>2. CASE ReceiveNothing
  BY <1>2 DEF ReceiveNothing, NoPoll, Types, TypeOK, RetryDecodes, Outcome,
              chainVars, tables, budgets, history
<1>3. CASE ReceivePage
  <2> DEFINE page == Page(poll.from)
  <2>1. PICK latest \in page :
          /\ \A e \in page : e <= latest
          /\ RollBackReplaced(page)
          /\ poll' = [poll EXCEPT !.step = "event", !.todo = page, !.last = Ledger(latest)]
    BY <1>3 DEF ReceivePage
  <2>2. page \subseteq Events /\ Ledger(latest) \in Nat
    BY <2>1, PageFacts, ChainFacts DEF Types, TypeOK
  <2>3. rows' \subseteq rows /\ rolledBack' \in BOOLEAN
    BY <2>1 DEF RollBackReplaced, rollbackEventsFromLedger, Types, TypeOK
  <2>4. IsFiniteSet(rows')
    BY <2>3, FS_Subset DEF Types
  <2> HIDE DEF page
  <2>5. poll' \in [step : {"idle", "asking", "event", "insert", "effect"}, from : Nat,
                   todo : SUBSET Events, last : Nat, hold : Nat, resolved : BOOLEAN]
    BY <2>1, <2>2 DEF Types, TypeOK
  <2>6. /\ UNCHANGED <<chainVars, cursor, parked, linked, level, pending, retry, budgets>>
        /\ UNCHANGED <<approved, trialled>>
    BY <1>3 DEF ReceivePage
  <2>7. QED
    BY <2>3, <2>4, <2>5, <2>6 DEF Types, TypeOK, RetryDecodes, Outcome, chainVars, budgets
<1>4. ASSUME NEW e \in Events, DecodeError(e)
      PROVE  Types'
  <2>1. poll' = [Handled(e) EXCEPT !.hold = Held(e)] /\ Park(e)
    BY <1>4 DEF DecodeError
  <2>2. Held(e) \in Nat
    BY ChainFacts DEF Held, Types, TypeOK
  <2>3. poll' \in [step : {"idle", "asking", "event", "insert", "effect"}, from : Nat,
                   todo : SUBSET Events, last : Nat, hold : Nat, resolved : BOOLEAN]
    BY <2>1, <2>2 DEF Handled, Types, TypeOK
  <2>4. parked' \subseteq Events /\ failures' \in 0..MaxFailures
    BY <2>1 DEF Park, Fail, Types, TypeOK
  <2>5. UNCHANGED <<chainVars, cursor, rows, linked, level, pending, retry, resets, history>>
    BY <1>4 DEF DecodeError
  <2>6. QED
    BY <2>3, <2>4, <2>5 DEF Types, TypeOK, RetryDecodes, Outcome, chainVars, history
<1>5. ASSUME NEW e \in Events, UnknownType(e)
      PROVE  Types'
  <2>1. poll' = Handled(e) /\ Park(e) /\ rows' = Insert(e, FALSE, FALSE)
    BY <1>5 DEF UnknownType
  <2>2. poll' \in [step : {"idle", "asking", "event", "insert", "effect"}, from : Nat,
                   todo : SUBSET Events, last : Nat, hold : Nat, resolved : BOOLEAN]
    BY <2>1 DEF Handled, Types, TypeOK
  <2>3. parked' \subseteq Events /\ failures' \in 0..MaxFailures
    BY <2>1 DEF Park, Fail, Types, TypeOK
  <2>4. /\ rows' \subseteq EventRow /\ IsFiniteSet(rows')
        /\ \A r, s \in rows' : r.event = s.event => r = s
    BY <2>1, InsertFacts DEF Types
  <2>5. UNCHANGED <<chainVars, cursor, linked, level, pending, retry, resets, history>>
    BY <1>5 DEF UnknownType
  <2>6. QED
    BY <2>2, <2>3, <2>4, <2>5 DEF Types, TypeOK, RetryDecodes, Outcome, chainVars, history
<1>6. ASSUME NEW e \in Events, Lookup(e)
      PROVE  Types'
  <2>1. poll' \in [step : {"idle", "asking", "event", "insert", "effect"}, from : Nat,
                   todo : SUBSET Events, last : Nat, hold : Nat, resolved : BOOLEAN]
    BY <1>6 DEF Lookup, Resolves, Types, TypeOK
  <2>2. QED
    BY <1>6, <2>1 DEF Lookup, Types, TypeOK, RetryDecodes, Outcome,
                      chainVars, tables, budgets, history
<1>7. ASSUME NEW e \in Events, InsertRow(e)
      PROVE  Types'
  <2>1. /\ rows' = Insert(e, TRUE, poll.resolved)
        /\ poll' = IF Recorded(e) THEN Handled(e) ELSE [poll EXCEPT !.step = "effect"]
    BY <1>7 DEF InsertRow
  <2>2. poll' \in [step : {"idle", "asking", "event", "insert", "effect"}, from : Nat,
                   todo : SUBSET Events, last : Nat, hold : Nat, resolved : BOOLEAN]
    BY <2>1 DEF Handled, Types, TypeOK
  <2>3. poll.resolved \in BOOLEAN
    BY DEF Types, TypeOK
  <2>4. /\ rows' \subseteq EventRow /\ IsFiniteSet(rows')
        /\ \A r, s \in rows' : r.event = s.event => r = s
    BY <2>1, <2>3, InsertFacts DEF Types
  <2>5. UNCHANGED <<chainVars, cursor, parked, linked, level, pending, retry, budgets,
                    history>>
    BY <1>7 DEF InsertRow
  <2>6. QED
    BY <2>2, <2>4, <2>5 DEF Types, TypeOK, RetryDecodes, Outcome, chainVars, budgets, history
<1>8. ASSUME NEW e \in Events, ApplyEvent(e)
      PROVE  Types'
  <2>1. poll' = Handled(e) /\ SideEffects(e, poll.resolved, rows)
    BY <1>8 DEF ApplyEvent
  <2>2. poll' \in [step : {"idle", "asking", "event", "insert", "effect"}, from : Nat,
                   todo : SUBSET Events, last : Nat, hold : Nat, resolved : BOOLEAN]
    BY <2>1 DEF Handled, Types, TypeOK
  <2>3. poll.resolved \in BOOLEAN
    BY DEF Types, TypeOK
  <2>4. /\ linked' \subseteq Players /\ level' \in [Players -> 0..3]
        /\ pending' \subseteq Milestone
    BY <2>1, <2>3, SideEffectsType DEF Types
  <2>5. UNCHANGED <<chainVars, cursor, rows, parked, retry, budgets, history>>
    BY <1>8 DEF ApplyEvent
  <2>6. QED
    BY <2>2, <2>4, <2>5 DEF Types, TypeOK, RetryDecodes, Outcome, chainVars, budgets, history
<1>9. CASE persistLastIndexedLedger
  BY <1>9 DEF persistLastIndexedLedger, NoPoll, Types, TypeOK, RetryDecodes, Outcome,
              chainVars, budgets, history
<1>10. CASE PollFails
  BY <1>10 DEF PollFails, Fail, NoPoll, Types, TypeOK, RetryDecodes, Outcome,
               chainVars, tables, history
<1>11. poll.todo \subseteq Events
  BY DEF Types, TypeOK
<1>12. QED
  BY <1>1, <1>2, <1>3, <1>4, <1>5, <1>6, <1>7, <1>8, <1>9, <1>10, <1>11 DEF PollStep

(* The actions beside the poll, and stuttering, keep the types.            *)
LEMMA OthersKeepTypes ==
    ASSUME Types,
           \/ CloseLedger \/ Crash \/ Deploy
           \/ \E e \in Events : RetryLookup(e)
           \/ RetryApply \/ deleteUnprocessedEvent \/ RetryFails
           \/ \E ledger \in 0..cursor : ResetCursor(ledger)
           \/ \E m \in pending : approveBulkMilestones(m)
           \/ \E p \in TrialPlayers : createTrialOffer(p)
           \/ UNCHANGED vars
    PROVE  Types'
<1> USE IndexerAssumption
<1>1. CASE CloseLedger
  BY <1>1 DEF CloseLedger, Types, TypeOK, RetryDecodes, Outcome, tables, budgets, history
<1>2. CASE Crash
  BY <1>2 DEF Crash, Fail, Restart, NoPoll, NoRetry, Types, TypeOK, RetryDecodes,
              chainVars, tables, history
<1>3. CASE Deploy
  BY <1>3 DEF Deploy, Restart, NoPoll, NoRetry, Types, TypeOK, RetryDecodes,
              tables, budgets, history
<1>4. ASSUME NEW e \in Events, RetryLookup(e)
      PROVE  Types'
  BY <1>4 DEF RetryLookup, Resolves, Types, TypeOK, RetryDecodes, Outcome,
              chainVars, tables, budgets, history
<1>5. CASE RetryApply
  <2>1. /\ retry.step # "idle" /\ retry.resolved \in BOOLEAN
        /\ rows' = Insert(retry.event, TRUE, retry.resolved)
        /\ SideEffects(retry.event, retry.resolved, rows')
        /\ retry' = [retry EXCEPT !.step = "delete"]
        /\ UNCHANGED <<chainVars, cursor, parked, poll, budgets, history>>
    BY <1>5 DEF RetryApply, Types, TypeOK
  <2>2. PICK e \in Events, resolved \in BOOLEAN :
          retry.event = e /\ retry.resolved = resolved
    BY <2>1 DEF Types, RetryDecodes
  <2>3. /\ rows' \subseteq EventRow /\ IsFiniteSet(rows')
        /\ \A r, s \in rows' : r.event = s.event => r = s
    <3>1. rows' = Insert(e, TRUE, resolved)
      BY <2>1, <2>2
    <3>2. QED
      BY <3>1, InsertFacts DEF Types
  <2>4. /\ linked' \subseteq Players /\ level' \in [Players -> 0..3]
        /\ pending' \subseteq Milestone
    <3>1. SideEffects(e, resolved, rows')
      BY <2>1, <2>2
    <3>2. QED
      BY <2>3, <3>1, SideEffectsType DEF Types
  <2>5. retry' \in [step : {"idle", "apply", "delete"}, event : Events \cup {0},
                    resolved : BOOLEAN]
    BY <2>1 DEF Types, TypeOK
  <2>6. RetryDecodes'
    BY <2>1, <2>2 DEF Types, TypeOK, RetryDecodes, Outcome, chainVars
  <2>7. QED
    BY <2>1, <2>3, <2>4, <2>5, <2>6 DEF Types, TypeOK, chainVars, budgets, history
<1>6. CASE deleteUnprocessedEvent
  BY <1>6 DEF deleteUnprocessedEvent, NoRetry, Types, TypeOK, RetryDecodes,
              chainVars, budgets, history
<1>7. CASE RetryFails
  BY <1>7 DEF RetryFails, Fail, NoRetry, Types, TypeOK, RetryDecodes,
              chainVars, tables, history
<1>8. ASSUME NEW ledger \in 0..cursor, ResetCursor(ledger)
      PROVE  Types'
  BY <1>8 DEF ResetCursor, Types, TypeOK, RetryDecodes, Outcome, chainVars, history
<1>9. ASSUME NEW m \in pending, approveBulkMilestones(m)
      PROVE  Types'
  <2>1. m \in Milestone /\ m.event \in Events /\ m.resolved \in BOOLEAN
    BY DEF Types, TypeOK, Milestone
  <2>2. ApprovedCount(Player(m.event), rows) + 1 \in Nat
    BY <2>1, ChainFacts, CountType DEF Types
  <2>3. tierForApprovedMilestones(ApprovedCount(Player(m.event), rows) + 1) \in 0..3
    BY <2>2, TierFacts
  <2>4. level' \in [Players -> 0..3] /\ failures' \in 0..MaxFailures
    BY <1>9, <2>3 DEF approveBulkMilestones, Fail, Types, TypeOK
  <2>5. pending' \subseteq Milestone /\ approved' \subseteq Events
    BY <1>9, <2>1 DEF approveBulkMilestones, Types, TypeOK
  <2>6. UNCHANGED <<chainVars, cursor, rows, parked, linked, poll, retry, resets, trialled,
                    rolledBack>>
    BY <1>9 DEF approveBulkMilestones
  <2>7. QED
    BY <2>4, <2>5, <2>6 DEF Types, TypeOK, RetryDecodes, Outcome, chainVars
<1>10. ASSUME NEW p \in TrialPlayers, createTrialOffer(p)
       PROVE  Types'
  <2>1. level' \in [Players -> 0..3] /\ trialled' \subseteq TrialPlayers
    BY <1>10 DEF createTrialOffer, Types, TypeOK
  <2>2. UNCHANGED <<chainVars, cursor, rows, parked, linked, pending, poll, retry, budgets,
                    approved, rolledBack>>
    BY <1>10 DEF createTrialOffer
  <2>3. QED
    BY <2>1, <2>2 DEF Types, TypeOK, RetryDecodes, Outcome, chainVars, budgets
<1>11. CASE UNCHANGED vars
  BY <1>11 DEF vars, Types, TypeOK, RetryDecodes, Outcome, chainVars, tables, budgets, history
<1>12. QED
  BY <1>1, <1>2, <1>3, <1>4, <1>5, <1>6, <1>7, <1>8, <1>9, <1>10, <1>11

(* The first state is well-typed.                                          *)
LEMMA InitTypes ==
    ASSUME Init
    PROVE  Types
<1>1. level \in [Players -> 0..3] /\ failures \in 0..MaxFailures /\ resets \in 0..MaxResets
  BY IndexerAssumption DEF Init
<1>2. /\ poll \in [step : {"idle", "asking", "event", "insert", "effect"}, from : Nat,
                  todo : SUBSET Events, last : Nat, hold : Nat, resolved : BOOLEAN]
      /\ retry \in [step : {"idle", "apply", "delete"}, event : Events \cup {0},
                    resolved : BOOLEAN]
      /\ RetryDecodes
  BY DEF Init, NoPoll, NoRetry, RetryDecodes
<1>3. IsFiniteSet(rows)
  BY FS_EmptySet DEF Init
<1>4. TypeOK
  BY <1>1, <1>2 DEF Init, TypeOK
<1>5. QED
  BY <1>2, <1>3, <1>4 DEF Types

(* Types is inductive.                                                     *)
LEMMA TypesInductive ==
    ASSUME Types, [Next]_vars
    PROVE  Types'
  BY PollKeepsTypes, OthersKeepTypes DEF Next

(* The variables keep their types (indexEvents, replayUnprocessedEvent,    *)
(* approveBulkMilestones, createTrialOffer): above all a poll never writes *)
(* two rows for one event, and levels stay in the four tiers.              *)
THEOREM TypeCorrect == Spec => []TypeOK
<1>1. Init => Types
  BY InitTypes
<1>2. Types /\ [Next]_vars => Types'
  BY TypesInductive
<1>3. Types => TypeOK
  BY DEF Types
<1>4. QED
  BY <1>1, <1>2, <1>3, PTL DEF Spec

-----------------------------------------------------------------------------
(* Nothing is skipped.  What is covered stays covered, but for what a      *)
(* rollback removes, which is at or above the start of the poll.           *)
LEMMA CoveredStays ==
    ASSUME Types, Next \/ UNCHANGED vars,
           NEW e \in Events, ReceivePage => Ledger(e) < poll.from
    PROVE  /\ Recorded(e) => Recorded(e)'
           /\ Covered(e) => Covered(e)'
<1>1. failures \in Nat /\ poll.todo \subseteq Events /\ pending \subseteq Milestone
  BY IndexerAssumption DEF Types, TypeOK
<1>2. CASE ReceivePage
  <2>1. /\ RollBackReplaced(Page(poll.from))
        /\ UNCHANGED <<chainVars, parked, retry, budgets>>
    BY <1>2 DEF ReceivePage
  <2>2. \A ledger \in ReplacedLedgers(Page(poll.from)) : poll.from <= ledger
    BY DEF ReplacedLedgers, Page
  <2>3. Recorded(e) => Recorded(e)'
    <3>1. SUFFICES ASSUME NEW r \in rows, r.event = e
                   PROVE  r \in rows'
      BY DEF Recorded
    <3>2. CASE rows' = rows
      BY <3>2
    <3>3. ASSUME NEW ledger \in ReplacedLedgers(Page(poll.from)),
                 rows' = rollbackEventsFromLedger(ledger)
          PROVE  r \in rows'
      <4>1. ledger \in Nat /\ Ledger(e) \in Nat /\ poll.from \in Nat
        <5>1. Page(poll.from) \subseteq Events
          BY DEF Page
        <5>2. ledger \in {Ledger(d) : d \in Events}
          BY <5>1 DEF ReplacedLedgers
        <5>3. QED
          BY <5>2, ChainFacts DEF Types, TypeOK
      <4>2. Ledger(r.event) < ledger
        BY <1>2, <2>2, <3>1, <4>1
      <4>3. QED
        BY <3>3, <4>2 DEF rollbackEventsFromLedger
    <3>4. QED
      BY <2>1, <3>2, <3>3 DEF RollBackReplaced
  <2>4. QED
    BY <2>1, <2>3 DEF Covered, BeingDeleted, chainVars, budgets
<1>3. CASE StartPoll \/ ReceiveNothing \/ persistLastIndexedLedger
  BY <1>3 DEF StartPoll, ReceiveNothing, persistLastIndexedLedger, Covered, BeingDeleted,
              Recorded, chainVars, tables, budgets
<1>4. ASSUME NEW d \in Events, DecodeError(d)
      PROVE  /\ Recorded(e) => Recorded(e)'
             /\ Covered(e) => Covered(e)'
  BY <1>1, <1>4 DEF DecodeError, Park, Fail, Covered, BeingDeleted, Recorded, chainVars
<1>5. ASSUME NEW d \in Events, UnknownType(d)
      PROVE  /\ Recorded(e) => Recorded(e)'
             /\ Covered(e) => Covered(e)'
  <2>1. rows \subseteq rows'
    BY <1>5 DEF UnknownType, Insert
  <2>2. Recorded(e) => Recorded(e)'
    BY <2>1 DEF Recorded
  <2>3. /\ UNCHANGED <<undecodable, retry>>
        /\ parked \subseteq parked'
        /\ failures > 0 => failures' > 0
    BY <1>1, <1>5 DEF UnknownType, Park, Fail, chainVars
  <2>4. QED
    BY <2>2, <2>3 DEF Covered, BeingDeleted
<1>6. ASSUME NEW d \in Events, Lookup(d) \/ InsertRow(d) \/ ApplyEvent(d)
      PROVE  /\ Recorded(e) => Recorded(e)'
             /\ Covered(e) => Covered(e)'
  <2>1. rows \subseteq rows'
    BY <1>6 DEF Lookup, InsertRow, Insert, ApplyEvent, tables
  <2>2. QED
    BY <1>6, <2>1 DEF Lookup, InsertRow, ApplyEvent, Covered, BeingDeleted, Recorded,
                      chainVars, tables, budgets
<1>7. CASE PollFails \/ RetryFails \/ Crash
  BY <1>1, <1>7 DEF PollFails, RetryFails, Crash, Restart, Fail, NoRetry, Covered,
                    BeingDeleted, Recorded, chainVars, tables
<1>8. CASE CloseLedger \/ Deploy \/ UNCHANGED vars
  BY <1>8 DEF CloseLedger, Deploy, Restart, NoRetry, Covered, BeingDeleted, Recorded,
              vars, chainVars, tables, budgets
<1>9. ASSUME NEW d \in Events, RetryLookup(d)
      PROVE  /\ Recorded(e) => Recorded(e)'
             /\ Covered(e) => Covered(e)'
  BY <1>9 DEF RetryLookup, Covered, BeingDeleted, Recorded, chainVars, tables, budgets
<1>10. CASE RetryApply
  <2>1. retry.event \in Events /\ rows' = Insert(retry.event, TRUE, retry.resolved)
    BY <1>10 DEF RetryApply, Types, RetryDecodes
  <2>2. /\ rows \subseteq rows'
        /\ \E r \in rows' : r.event = retry.event
    <3>1. CASE Recorded(retry.event)
      BY <2>1, <3>1 DEF Insert, Recorded
    <3>2. CASE ~Recorded(retry.event)
      <4> DEFINE row == [event |-> retry.event, typed |-> TRUE, resolved |-> retry.resolved]
      <4>1. rows' = rows \cup {row}
        BY <2>1, <3>2 DEF Insert
      <4>2. row.event = retry.event
        OBVIOUS
      <4> HIDE DEF row
      <4>3. QED
        BY <4>1, <4>2
    <3>3. QED
      BY <3>1, <3>2
  <2>3. Recorded(e) => Recorded(e)'
    BY <2>2 DEF Recorded
  <2>4. retry'.event = retry.event /\ UNCHANGED <<chainVars, parked, budgets>>
    BY <1>10 DEF RetryApply, Types, TypeOK
  <2>5. BeingDeleted(e)' => Recorded(e)'
    BY <2>2, <2>4 DEF BeingDeleted, Recorded
  <2>6. QED
    BY <2>3, <2>4, <2>5 DEF Covered, chainVars, budgets
<1>11. CASE deleteUnprocessedEvent
  BY <1>11 DEF deleteUnprocessedEvent, NoRetry, Covered, BeingDeleted, Recorded,
               chainVars, budgets
<1>12. ASSUME NEW ledger \in 0..cursor, ResetCursor(ledger)
       PROVE  /\ Recorded(e) => Recorded(e)'
              /\ Covered(e) => Covered(e)'
  BY <1>12 DEF ResetCursor, Covered, BeingDeleted, Recorded, chainVars
<1>13. ASSUME NEW m \in pending, approveBulkMilestones(m)
       PROVE  /\ Recorded(e) => Recorded(e)'
              /\ Covered(e) => Covered(e)'
  BY <1>1, <1>13 DEF approveBulkMilestones, Fail, Covered, BeingDeleted, Recorded, chainVars
<1>14. ASSUME NEW p \in TrialPlayers, createTrialOffer(p)
       PROVE  /\ Recorded(e) => Recorded(e)'
              /\ Covered(e) => Covered(e)'
  BY <1>14 DEF createTrialOffer, Covered, BeingDeleted, Recorded, chainVars, budgets
<1>15. QED
  BY <1>1, <1>2, <1>3, <1>4, <1>5, <1>6, <1>7, <1>8, <1>9, <1>10, <1>11, <1>12, <1>13, <1>14
     DEF Next, PollStep

(* The start of a poll moves with the cursor.                              *)
LEMMA FromMonotone ==
    ASSUME NEW c \in Nat, NEW d \in Nat, d <= c
    PROVE  /\ From(c) \in Nat /\ From(d) \in Nat
           /\ From(d) <= From(c)
  BY IndexerAssumption DEF From

(* A step that ends the poll or leaves it alone, and moves no cursor up.   *)
LEMMA QuietKeepsCover ==
    ASSUME Types, Cover, Next \/ UNCHANGED vars, ~ReceivePage,
           poll' \in {poll, NoPoll}, cursor' \in Nat, cursor' <= cursor
    PROVE  Cover'
<1>1. /\ cursor \in Nat
      /\ \A e \in Events : Ledger(e) \in Nat
  BY ChainFacts DEF Types, TypeOK
<1>2. From(cursor) \in Nat /\ From(cursor)' \in Nat /\ From(cursor)' <= From(cursor)
  <2>1. PICK c \in Nat, d \in Nat : d <= c /\ cursor = c /\ cursor' = d
    BY <1>1
  <2>2. From(c) \in Nat /\ From(d) \in Nat /\ From(d) <= From(c)
    BY <2>1, FromMonotone
  <2>3. From(cursor) = From(c) /\ From(cursor)' = From(d)
    BY <2>1
  <2>4. QED
    BY <2>2, <2>3
<1>3. \A e \in Events : Covered(e) => Covered(e)'
  BY CoveredStays
<1>4. \A e \in Events : Recorded(e) => Recorded(e)'
  BY CoveredStays
<1>5. PassedCovered'
  <2>1. ASSUME NEW e \in Events, Ledger(e) < From(cursor)'
        PROVE  Covered(e)'
    <3>1. Ledger(e) < From(cursor)
      BY <1>1, <1>2, <2>1
    <3>2. QED
      BY <1>3, <3>1 DEF Cover, PassedCovered
  <2>2. QED
    BY <2>1 DEF PassedCovered
<1>6. CASE poll' = NoPoll
  BY <1>5, <1>6 DEF NoPoll, Cover, StartCovered, BatchCovered, InsertedRecorded, AtEvent
<1>7. CASE poll' = poll
  <2>1. StartCovered /\ BatchCovered /\ InsertedRecorded /\ poll.from \in Nat
    BY DEF Cover, Types, TypeOK
  <2>2. poll.step # "idle" => From(cursor)' <= poll.from
    BY <1>2, <2>1 DEF StartCovered
  <2>3. StartCovered'
    BY <1>3, <1>7, <2>1, <2>2 DEF StartCovered
  <2>4. BatchCovered'
    BY <1>3, <1>7, <2>1 DEF BatchCovered
  <2>5. InsertedRecorded'
    BY <1>4, <1>7, <2>1 DEF InsertedRecorded, AtEvent
  <2>6. QED
    BY <1>5, <2>3, <2>4, <2>5 DEF Cover
<1>8. QED
  BY <1>6, <1>7

(* A step of a poll on one event of its batch: the event is still to be    *)
(* handled, or is covered, or the poll will hold its ledger.               *)
LEMMA HandlingKeepsCover ==
    ASSUME Types, Cover, Next, ~ReceivePage, NEW e \in poll.todo,
           {poll.step, poll'.step} \subseteq {"event", "insert", "effect"},
           poll'.from = poll.from, poll'.last = poll.last, cursor' = cursor,
           \/ poll'.hold = poll.hold
           \/ poll'.hold = Ledger(e) /\ (poll.hold = 0 \/ Ledger(e) < poll.hold),
           \/ poll'.todo = poll.todo
           \/ /\ poll'.todo = poll.todo \ {e}
              /\ Covered(e)' \/ (poll'.hold # 0 /\ poll'.hold <= Ledger(e)),
           InsertedRecorded'
    PROVE  Cover'
<1>1. /\ poll.hold \in Nat /\ poll.last \in Nat /\ poll.from \in Nat
      /\ poll.todo \subseteq Events
      /\ \A d \in Events : Ledger(d) \in Nat \ {0}
  BY ChainFacts DEF Types, TypeOK
<1>2. \A d \in Events : Covered(d) => Covered(d)'
  BY CoveredStays
<1>3. PassedCovered'
  BY <1>2 DEF Cover, PassedCovered
<1>4. StartCovered'
  BY <1>2 DEF Cover, StartCovered
<1>5. /\ poll.hold <= poll.last
      /\ \A d \in poll.todo : Ledger(d) <= poll.last
      /\ \A d \in Events :
            poll.from <= Ledger(d) /\ Ledger(d) < poll.last =>
                d \in poll.todo \/ Covered(d) \/ (poll.hold # 0 /\ poll.hold <= Ledger(d))
  BY DEF Cover, BatchCovered
<1>6. poll'.hold <= poll.last
  BY <1>1, <1>5
<1>7. \A d \in poll'.todo : Ledger(d) <= poll.last
  BY <1>5
<1>8. ASSUME NEW d \in Events, poll.from <= Ledger(d), Ledger(d) < poll.last
      PROVE  d \in poll'.todo \/ Covered(d)' \/ (poll'.hold # 0 /\ poll'.hold <= Ledger(d))
  BY <1>1, <1>2, <1>5, <1>8
<1>9. BatchCovered'
  BY <1>6, <1>7, <1>8 DEF BatchCovered
<1>10. QED
  BY <1>3, <1>4, <1>9 DEF Cover

(* A new batch: everything the page passed over is below the start of the  *)
(* poll or at its last ledger.                                             *)
LEMMA ReceivePageKeepsCover ==
    ASSUME Types, Cover, ReceivePage
    PROVE  Cover'
<1>1. /\ poll.step = "asking" /\ poll.from \in Nat /\ closed \in Nat
      /\ From(cursor) <= poll.from /\ poll.hold = 0
      /\ \A e \in Events : Ledger(e) < poll.from => Covered(e)
  BY DEF ReceivePage, Cover, StartCovered, Types, TypeOK
<1>2. PICK latest \in Page(poll.from) :
        /\ \A e \in Page(poll.from) : e <= latest
        /\ poll' = [poll EXCEPT !.step = "event", !.todo = Page(poll.from),
                                !.last = Ledger(latest)]
  BY DEF ReceivePage
<1>3. /\ poll'.step = "event" /\ poll'.todo = Page(poll.from)
      /\ poll'.from = poll.from /\ poll'.last = Ledger(latest) /\ poll'.hold = 0
      /\ cursor' = cursor
  BY <1>1, <1>2 DEF ReceivePage, Types, TypeOK
<1>4. /\ cursor \in Nat /\ From(cursor) \in Nat /\ latest \in Events
      /\ \A e \in Events : Ledger(e) \in Nat \ {0}
  BY ChainFacts, IndexerAssumption, PageFacts, <1>1, <1>2 DEF From, Types, TypeOK
<1>5. \A e \in Events : Ledger(e) < poll.from /\ Covered(e) => Covered(e)'
  BY CoveredStays DEF Next, PollStep
<1>6. PassedCovered'
  BY <1>1, <1>3, <1>4, <1>5 DEF PassedCovered
<1>7. StartCovered'
  BY <1>1, <1>3, <1>5 DEF StartCovered
<1>8. BatchCovered'
  <2>1. /\ \A e \in Page(poll.from) : Ledger(e) <= Ledger(latest)
        /\ \A e \in Events :
              poll.from <= Ledger(e) /\ Ledger(e) < Ledger(latest) => e \in Page(poll.from)
    BY <1>1, <1>2, PageFacts
  <2>2. 0 <= Ledger(latest)
    BY <1>4
  <2>3. QED
    BY <1>3, <2>1, <2>2 DEF BatchCovered
<1>9. InsertedRecorded'
  BY <1>3 DEF InsertedRecorded, AtEvent
<1>10. QED
  BY <1>6, <1>7, <1>8, <1>9 DEF Cover

(* The cursor moves to the ledger the poll holds, or past its last one; as *)
(* the next poll starts a margin earlier, it asks again for the last       *)
(* ledger, which the page may have cut.                                    *)
LEMMA PersistKeepsCover ==
    ASSUME FinalityMargin > 0, Types, Cover, persistLastIndexedLedger
    PROVE  Cover'
<1> DEFINE moved == IF poll.hold # 0 THEN poll.hold ELSE poll.last + 1
<1>1. /\ poll.step = "event" /\ poll.todo = {}
      /\ cursor' = moved /\ poll' = NoPoll
  BY DEF persistLastIndexedLedger
<1>2. /\ poll.hold \in Nat /\ poll.last \in Nat /\ poll.from \in Nat
      /\ FinalityMargin \in Nat
      /\ \A e \in Events : Ledger(e) \in Nat \ {0}
  BY ChainFacts, IndexerAssumption DEF Types, TypeOK
<1>3. /\ poll.hold <= poll.last
      /\ \A e \in Events : Ledger(e) < poll.from => Covered(e)
      /\ \A e \in Events :
            poll.from <= Ledger(e) /\ Ledger(e) < poll.last =>
                Covered(e) \/ (poll.hold # 0 /\ poll.hold <= Ledger(e))
  BY <1>1 DEF Cover, StartCovered, BatchCovered
<1>4. moved \in Nat /\ From(moved) \in Nat
  BY <1>2 DEF From
<1>5. From(moved) <= poll.last /\ (poll.hold # 0 => From(moved) <= poll.hold)
  BY <1>2, <1>3 DEF From
<1>6. \A e \in Events : Ledger(e) < From(moved) => Covered(e)
  <2>1. SUFFICES ASSUME NEW e \in Events, Ledger(e) < From(moved)
                 PROVE  Covered(e)
    OBVIOUS
  <2> HIDE DEF moved
  <2>2. Ledger(e) < poll.last /\ (poll.hold # 0 => Ledger(e) < poll.hold)
    BY <1>2, <1>4, <1>5, <2>1
  <2>3. QED
    BY <1>2, <1>3, <2>2
<1> HIDE DEF moved
<1>7. \A e \in Events : Covered(e) => Covered(e)'
  BY CoveredStays DEF Next, PollStep, persistLastIndexedLedger, ReceivePage
<1>8. From(cursor)' = From(moved)
  BY <1>1
<1>9. PassedCovered'
  BY <1>6, <1>7, <1>8 DEF PassedCovered
<1>10. QED
  BY <1>1, <1>9 DEF NoPoll, Cover, StartCovered, BatchCovered, InsertedRecorded, AtEvent

(* Every step of a poll keeps what is covered.                             *)
LEMMA PollKeepsCover ==
    ASSUME FinalityMargin > 0, Types, Cover, PollStep \/ PollFails
    PROVE  Cover'
<1>1. CASE StartPoll
  <2>1. /\ poll'.step = "asking" /\ poll'.from = From(cursor) /\ poll'.hold = 0
        /\ cursor' = cursor
    BY <1>1 DEF StartPoll, NoPoll, tables
  <2>2. \A e \in Events : Covered(e) => Covered(e)'
    BY <1>1, CoveredStays DEF Next, PollStep, StartPoll, ReceivePage
  <2>3. From(cursor) \in Nat
    BY FromMonotone DEF Types, TypeOK
  <2>4. PassedCovered' /\ StartCovered'
    BY <2>1, <2>2, <2>3 DEF Cover, PassedCovered, StartCovered
  <2>5. BatchCovered' /\ InsertedRecorded'
    BY <2>1 DEF BatchCovered, InsertedRecorded, AtEvent
  <2>6. QED
    BY <2>4, <2>5 DEF Cover
<1>2. CASE ReceiveNothing \/ PollFails
  <2>1. poll' = NoPoll /\ cursor' = cursor
    BY <1>2 DEF ReceiveNothing, PollFails, tables
  <2>2. CASE ReceivePage
    BY <2>2, ReceivePageKeepsCover
  <2>3. CASE ~ReceivePage
    <3>1. cursor' \in Nat /\ cursor' <= cursor
      BY <2>1 DEF Types, TypeOK
    <3>2. QED
      BY <1>2, <2>1, <2>3, <3>1, QuietKeepsCover DEF Next, PollStep
  <2>4. QED
    BY <2>2, <2>3
<1>3. CASE ReceivePage
  BY <1>3, ReceivePageKeepsCover
<1>4. ASSUME NEW e \in poll.todo,
             \/ DecodeError(e) \/ UnknownType(e) \/ Lookup(e)
             \/ InsertRow(e) \/ ApplyEvent(e)
      PROVE  Cover'
  <2>1. /\ e \in Events /\ ~ReceivePage /\ Next
        /\ Ledger(e) \in Nat \ {0} /\ poll.hold \in Nat
    BY <1>4, ChainFacts DEF Next, PollStep, ReceivePage, DecodeError, UnknownType, Lookup,
                            InsertRow, ApplyEvent, AtEvent, Types, TypeOK
  <2>2. \A d \in Events : Recorded(d) => Recorded(d)'
    BY <2>1, CoveredStays
  <2>3. CASE DecodeError(e)
    <3>1. /\ poll.step = "event" /\ poll' = [Handled(e) EXCEPT !.hold = Held(e)]
          /\ Park(e) /\ Outcome(e) = "decode_error"
          /\ UNCHANGED <<cursor, undecodable, retry>>
      BY <2>3 DEF DecodeError, AtEvent, chainVars
    <3>2. /\ poll'.step = "event" /\ poll'.from = poll.from /\ poll'.last = poll.last
          /\ poll'.todo = poll.todo \ {e} /\ poll'.hold = Held(e)
      BY <3>1 DEF Handled, Types, TypeOK
    <3>3. CASE Chain[e].topic = "known"
      <4>1. /\ \/ poll'.hold = poll.hold
               \/ /\ poll'.hold = Ledger(e)
                  /\ poll.hold = 0 \/ Ledger(e) < poll.hold
            /\ poll'.hold # 0 /\ poll'.hold <= Ledger(e)
        BY <2>1, <3>2, <3>3 DEF Held
      <4>2. QED
        BY <2>1, <3>1, <3>2, <4>1, HandlingKeepsCover DEF InsertedRecorded, AtEvent
    <3>4. CASE Chain[e].topic # "known"
      <4>1. poll'.hold = poll.hold
        BY <3>2, <3>4 DEF Held
      <4>2. e \in undecodable /\ ~BeingDeleted(e)
        BY <3>1 DEF Outcome, BeingDeleted, Types, RetryDecodes
      <4>3. failures' > 0 \/ e \in parked'
        BY <3>1, IndexerAssumption DEF Park, Fail, Types, TypeOK
      <4>4. Covered(e)'
        BY <3>1, <3>4, <4>2, <4>3 DEF Covered, BeingDeleted
      <4>5. QED
        BY <2>1, <3>1, <3>2, <4>1, <4>4, HandlingKeepsCover DEF InsertedRecorded, AtEvent
    <3>5. QED
      BY <3>3, <3>4
  <2>4. CASE UnknownType(e)
    <3>1. /\ poll.step = "event" /\ poll' = Handled(e) /\ cursor' = cursor
          /\ rows' = Insert(e, FALSE, FALSE)
      BY <2>4 DEF UnknownType, AtEvent
    <3>2. /\ poll'.step = "event" /\ poll'.from = poll.from /\ poll'.last = poll.last
          /\ poll'.todo = poll.todo \ {e} /\ poll'.hold = poll.hold
      BY <3>1 DEF Handled, Types, TypeOK
    <3>3. Covered(e)'
      BY <2>1, <3>1, InsertFacts DEF Covered, Recorded, Types
    <3>4. QED
      BY <2>1, <3>1, <3>2, <3>3, HandlingKeepsCover DEF InsertedRecorded, AtEvent
  <2>5. CASE Lookup(e)
    <3>1. /\ poll.step = "event" /\ poll'.step = "insert" /\ cursor' = cursor
          /\ poll'.from = poll.from /\ poll'.last = poll.last
          /\ poll'.todo = poll.todo /\ poll'.hold = poll.hold
      BY <2>5 DEF Lookup, AtEvent, tables, Types, TypeOK
    <3>2. QED
      BY <2>1, <3>1, HandlingKeepsCover DEF InsertedRecorded, AtEvent
  <2>6. CASE InsertRow(e)
    <3>1. /\ poll.step = "insert" /\ \A d \in poll.todo : e <= d
          /\ rows' = Insert(e, TRUE, poll.resolved)
          /\ poll' = IF Recorded(e) THEN Handled(e) ELSE [poll EXCEPT !.step = "effect"]
          /\ cursor' = cursor
      BY <2>6 DEF InsertRow, AtEvent
    <3>2. Recorded(e)' /\ Covered(e)'
      <4>1. poll.resolved \in BOOLEAN
        BY DEF Types, TypeOK
      <4>2. QED
        BY <2>1, <3>1, <4>1, InsertFacts DEF Covered, Recorded, Types
    <3>3. /\ poll'.from = poll.from /\ poll'.last = poll.last /\ poll'.hold = poll.hold
          /\ \/ poll'.step = "event" /\ poll'.todo = poll.todo \ {e}
             \/ poll'.step = "effect" /\ poll'.todo = poll.todo
      BY <3>1 DEF Handled, Types, TypeOK
    <3>4. InsertedRecorded'
      <4>1. \A d \in poll.todo : (\A f \in poll.todo : d <= f) => d = e
        <5>1. \A d \in poll.todo : d \in Nat
          BY ChainFacts DEF Types, TypeOK
        <5>2. QED
          BY <3>1, <5>1
      <4>2. QED
        BY <3>2, <3>3, <4>1 DEF InsertedRecorded, AtEvent
    <3>5. QED
      BY <2>1, <3>1, <3>2, <3>3, <3>4, HandlingKeepsCover
  <2>7. CASE ApplyEvent(e)
    <3>1. /\ AtEvent("effect", e) /\ poll.step = "effect" /\ poll' = Handled(e)
          /\ cursor' = cursor
      BY <2>7 DEF ApplyEvent, AtEvent
    <3>2. /\ poll'.step = "event" /\ poll'.from = poll.from /\ poll'.last = poll.last
          /\ poll'.todo = poll.todo \ {e} /\ poll'.hold = poll.hold
      BY <3>1 DEF Handled, Types, TypeOK
    <3>3. Covered(e)'
      BY <2>1, <2>2, <3>1 DEF Cover, InsertedRecorded, Covered
    <3>4. QED
      BY <2>1, <3>1, <3>2, <3>3, HandlingKeepsCover DEF InsertedRecorded, AtEvent
  <2>8. QED
    BY <1>4, <2>3, <2>4, <2>5, <2>6, <2>7
<1>5. CASE persistLastIndexedLedger
  BY <1>5, PersistKeepsCover
<1>6. QED
  BY <1>1, <1>2, <1>3, <1>4, <1>5 DEF PollStep

(* What goes on beside the poll keeps what is covered: no action but the   *)
(* poll moves the cursor up.                                               *)
LEMMA OthersKeepCover ==
    ASSUME Types, Cover, Next \/ UNCHANGED vars, ~PollStep, ~PollFails
    PROVE  Cover'
<1>1. cursor \in Nat
  BY DEF Types, TypeOK
<1>2. CASE CloseLedger \/ Crash \/ Deploy \/ RetryApply \/ deleteUnprocessedEvent \/ RetryFails
  <2>1. poll' \in {poll, NoPoll} /\ cursor' = cursor
    BY <1>2 DEF CloseLedger, Crash, Deploy, Restart, RetryApply, deleteUnprocessedEvent,
                RetryFails, tables
  <2>2. QED
    BY <1>1, <2>1, QuietKeepsCover DEF PollStep
<1>3. CASE \E e \in Events : RetryLookup(e)
  <2>1. poll' = poll /\ cursor' = cursor
    BY <1>3 DEF RetryLookup, tables
  <2>2. QED
    BY <1>1, <2>1, QuietKeepsCover DEF PollStep
<1>4. ASSUME NEW ledger \in 0..cursor, ResetCursor(ledger)
      PROVE  Cover'
  <2>1. poll' = poll /\ cursor' = ledger
    BY <1>4 DEF ResetCursor
  <2>2. cursor' \in Nat /\ cursor' <= cursor
    BY <1>1, <2>1
  <2>3. QED
    BY <2>1, <2>2, QuietKeepsCover DEF PollStep
<1>5. CASE \E m \in pending : approveBulkMilestones(m)
  <2>1. poll' = poll /\ cursor' = cursor
    BY <1>5 DEF approveBulkMilestones
  <2>2. QED
    BY <1>1, <2>1, QuietKeepsCover DEF PollStep
<1>6. CASE \E p \in TrialPlayers : createTrialOffer(p)
  <2>1. poll' = poll /\ cursor' = cursor
    BY <1>6 DEF createTrialOffer
  <2>2. QED
    BY <1>1, <2>1, QuietKeepsCover DEF PollStep
<1>7. CASE UNCHANGED vars
  <2>1. poll' = poll /\ cursor' = cursor
    BY <1>7 DEF vars, tables
  <2>2. QED
    BY <1>1, <2>1, QuietKeepsCover DEF PollStep
<1>8. QED
  BY <1>2, <1>3, <1>4, <1>5, <1>6, <1>7 DEF Next

(* The inductive invariant holds of every behaviour when the margin is not *)
(* zero.                                                                   *)
LEMMA InductiveInvariant ==
    ASSUME FinalityMargin > 0
    PROVE  Spec => []IInv
<1>1. Init => IInv
  <2> SUFFICES ASSUME Init PROVE Cover
    BY InitTypes DEF IInv
  <2>1. From(cursor) = 0 /\ poll.step = "idle"
    BY IndexerAssumption DEF Init, From, NoPoll
  <2>2. QED
    BY <2>1, ChainFacts DEF Cover, PassedCovered, StartCovered, BatchCovered,
                            InsertedRecorded, AtEvent
<1>2. IInv /\ [Next]_vars => IInv'
  <2> SUFFICES ASSUME IInv, [Next]_vars PROVE IInv'
    OBVIOUS
  <2>1. Types'
    BY TypesInductive DEF IInv
  <2>2. Cover'
    <3>1. CASE PollStep \/ PollFails
      BY <3>1, PollKeepsCover DEF IInv
    <3>2. CASE ~PollStep /\ ~PollFails
      BY <3>2, OthersKeepCover DEF IInv
    <3>3. QED
      BY <3>1, <3>2
  <2>3. QED
    BY <2>1, <2>2 DEF IInv
<1>3. QED
  BY <1>1, <1>2, PTL DEF Spec

(* No poll passes an event by (indexEvents and its cursor), through        *)
(* failures, crashes, rollbacks, decode errors, resets and cut pages, for  *)
(* every chain, page size and margin but zero.                             *)
THEOREM NothingSkipped ==
    ASSUME FinalityMargin > 0
    PROVE  Spec => []NoEventSkipped
<1>1. IInv => NoEventSkipped
  BY DEF IInv, Cover, PassedCovered, Covered, NoEventSkipped
<1>2. QED
  BY <1>1, InductiveInvariant, PTL

-----------------------------------------------------------------------------
(* Levels.  Only events of closed ledgers reach the tables, and each is    *)
(* counted by one row at most.                                             *)
SeenClosed ==
    /\ \A r \in rows : Ledger(r.event) <= closed
    /\ \A e \in poll.todo \cup parked : Ledger(e) <= closed
    /\ retry.step # "idle" => Ledger(retry.event) <= closed

ApprovalsUpTo(p, ledger) ==
    {e \in Events : Kind(e) = "approved" /\ Player(e) = p /\ Ledger(e) <= ledger}

(* Approvals on the ledger are finitely many and grow with it.             *)
LEMMA ApprovalsGrow ==
    ASSUME NEW p \in Players, NEW m \in Nat, NEW n \in Nat, m <= n
    PROVE  /\ IsFiniteSet(ApprovalsUpTo(p, m))
           /\ Cardinality(ApprovalsUpTo(p, m)) \in Nat
           /\ Cardinality(ApprovalsUpTo(p, n)) \in Nat
           /\ Cardinality(ApprovalsUpTo(p, m)) <= Cardinality(ApprovalsUpTo(p, n))
<1>1. ApprovalsUpTo(p, m) \subseteq ApprovalsUpTo(p, n) /\ ApprovalsUpTo(p, n) \subseteq Events
  BY ChainFacts DEF ApprovalsUpTo
<1>2. IsFiniteSet(ApprovalsUpTo(p, n))
  BY <1>1, ChainFacts, FS_Subset
<1>3. QED
  BY <1>1, <1>2, FS_Subset, FS_CardinalityType

(* A table with one row per event, all of closed ledgers, counts no more   *)
(* approvals than the ledger holds.                                        *)
LEMMA CountBounded ==
    ASSUME NEW table, table \subseteq EventRow, IsFiniteSet(table),
           \A r, s \in table : r.event = s.event => r = s,
           NEW ledger \in Nat, \A r \in table : Ledger(r.event) <= ledger,
           NEW p \in Players
    PROVE  ApprovedCount(p, table) <= Cardinality(ApprovalsUpTo(p, ledger))
<1> DEFINE S == ApprovedRows(p, table)
           T == ApprovalsUpTo(p, ledger)
           f == [r \in S |-> r.event]
<1>1. S \subseteq table /\ \A r \in S : r.event \in T
  BY DEF ApprovedRows, ApprovalsUpTo, EventRow
<1>2. IsFiniteSet(T)
  BY ApprovalsGrow
<1>3. f \in Injection(S, T)
  <2>1. f \in [S -> T]
    BY <1>1
  <2>2. \A r, s \in S : f[r] = f[s] => r = s
    BY <1>1
  <2>3. QED
    BY <2>1, <2>2 DEF Injection, IsInjective
<1>4. Cardinality(S) <= Cardinality(T)
  BY <1>2, <1>3, FS_Injection
<1>5. QED
  BY <1>4 DEF ApprovedCount

(* Every action keeps SeenClosed: events enter the tables through a page,  *)
(* which holds closed ledgers only.                                        *)
LEMMA SeenClosedStays ==
    ASSUME Types, SeenClosed, Next \/ UNCHANGED vars
    PROVE  SeenClosed'
<1>1. /\ closed \in Nat /\ \A e \in Events : Ledger(e) \in Nat
      /\ rows \subseteq EventRow /\ poll.todo \subseteq Events /\ parked \subseteq Events
  BY ChainFacts DEF Types, TypeOK
<1>2. CASE CloseLedger
  <2>1. /\ closed' = closed + 1
        /\ rows' = rows /\ poll' = poll /\ parked' = parked /\ retry' = retry
    BY <1>2 DEF CloseLedger, tables
  <2>2. \A e \in Events : Ledger(e) <= closed => Ledger(e) <= closed'
    BY <1>1, <2>1
  <2>3. retry.step # "idle" => retry.event \in Events
    BY DEF Types, RetryDecodes
  <2>4. QED
    BY <1>1, <2>1, <2>2, <2>3 DEF SeenClosed, EventRow
<1>3. CASE StartPoll \/ ReceiveNothing \/ persistLastIndexedLedger \/ PollFails \/ Crash
           \/ Deploy \/ deleteUnprocessedEvent \/ RetryFails \/ UNCHANGED vars
  <2>1. UNCHANGED <<closed, rows>> /\ parked' \subseteq parked
    BY <1>3 DEF StartPoll, ReceiveNothing, persistLastIndexedLedger, PollFails, Crash,
                Deploy, deleteUnprocessedEvent, RetryFails, chainVars, tables, vars
  <2>2. poll'.todo = poll.todo \/ poll'.todo = {}
    <3>1. CASE StartPoll
      <4>1. poll' = [NoPoll EXCEPT !.step = "asking", !.from = From(cursor)]
        BY <3>1 DEF StartPoll
      <4>2. QED
        BY <4>1 DEF NoPoll
    <3>2. CASE ~StartPoll
      <4>1. poll' = poll \/ poll' = NoPoll
        BY <1>3, <3>2 DEF ReceiveNothing, persistLastIndexedLedger, PollFails, Crash, Deploy,
                          Restart, deleteUnprocessedEvent, RetryFails, vars
      <4>2. QED
        BY <4>1 DEF NoPoll
    <3>3. QED
      BY <3>1, <3>2
  <2>3. retry' = retry \/ retry'.step = "idle"
    BY <1>3 DEF StartPoll, ReceiveNothing, persistLastIndexedLedger, PollFails, Crash,
                Deploy, Restart, deleteUnprocessedEvent, RetryFails, NoRetry, vars
  <2>4. QED
    BY <2>1, <2>2, <2>3 DEF SeenClosed
<1>4. CASE ReceivePage
  <2>1. /\ poll'.todo = Page(poll.from) /\ RollBackReplaced(Page(poll.from))
        /\ UNCHANGED <<closed, parked, retry>>
    BY <1>4 DEF ReceivePage, chainVars, Types, TypeOK
  <2>2. \A e \in poll'.todo : Ledger(e) <= closed
    BY <2>1 DEF Page
  <2>3. rows' \subseteq rows
    BY <2>1 DEF RollBackReplaced, rollbackEventsFromLedger
  <2>4. QED
    BY <2>1, <2>2, <2>3 DEF SeenClosed
<1>5. ASSUME NEW e \in poll.todo,
             \/ DecodeError(e) \/ UnknownType(e) \/ Lookup(e)
             \/ InsertRow(e) \/ ApplyEvent(e)
      PROVE  SeenClosed'
  <2>1. /\ UNCHANGED <<closed, retry>>
        /\ parked' \subseteq parked \cup {e}
        /\ poll'.todo \subseteq poll.todo
    BY <1>5 DEF DecodeError, UnknownType, Lookup, InsertRow, ApplyEvent, Park, Handled,
                chainVars, tables, Types, TypeOK
  <2>2. \A r \in rows' : r \in rows \/ r.event = e
    BY <1>5 DEF DecodeError, UnknownType, Lookup, InsertRow, ApplyEvent, Insert, tables
  <2>3. QED
    BY <2>1, <2>2 DEF SeenClosed
<1>6. ASSUME NEW e \in Events, RetryLookup(e)
      PROVE  SeenClosed'
  <2>1. /\ UNCHANGED <<closed, rows, parked, poll>>
        /\ e \in parked /\ retry'.event = e
    BY <1>6 DEF RetryLookup, chainVars, tables
  <2>2. QED
    BY <2>1 DEF SeenClosed
<1>7. CASE RetryApply
  <2>1. /\ UNCHANGED <<closed, parked, poll>>
        /\ retry.step # "idle" /\ retry'.event = retry.event
        /\ rows' = Insert(retry.event, TRUE, retry.resolved)
    BY <1>7 DEF RetryApply, chainVars, Types, TypeOK
  <2>2. \A r \in rows' : r \in rows \/ r.event = retry.event
    BY <2>1 DEF Insert
  <2>3. QED
    BY <2>1, <2>2 DEF SeenClosed
<1>8. CASE \/ \E ledger \in 0..cursor : ResetCursor(ledger)
           \/ \E m \in pending : approveBulkMilestones(m)
           \/ \E p \in TrialPlayers : createTrialOffer(p)
  BY <1>8 DEF ResetCursor, approveBulkMilestones, createTrialOffer, SeenClosed, chainVars
<1>9. QED
  BY <1>2, <1>3, <1>4, <1>5, <1>6, <1>7, <1>8 DEF Next, PollStep

(* A level stays, or is set from no more than the approvals that back it,  *)
(* or belongs to a player with a trial offer.                              *)
Backing(p) == ApprovedOnChain(p) + ApprovedByHand(p)

Backed(p) ==
    \/ level[p] <= tierForApprovedMilestones(Backing(p))
    \/ p \in trialled

(* Approvals on the ledger and through the API only become more.           *)
LEMMA BackingGrows ==
    ASSUME Types, Types', closed <= closed', approved \subseteq approved',
           NEW p \in Players
    PROVE  /\ Backing(p) \in Nat /\ Backing(p)' \in Nat
           /\ Backing(p) <= Backing(p)'
           /\ Cardinality(ApprovalsUpTo(p, closed')) <= Backing(p)'
<1>1. closed \in Nat /\ closed' \in Nat
  BY DEF Types, TypeOK
<1> DEFINE before == Cardinality(ApprovalsUpTo(p, closed))
           after == Cardinality(ApprovalsUpTo(p, closed'))
<1>2. before \in Nat /\ after \in Nat /\ before <= after
  BY <1>1, ApprovalsGrow
<1>3. ApprovedOnChain(p) = before /\ ApprovedOnChain(p)' = after
  BY DEF ApprovedOnChain, ApprovalsUpTo
<1>4. /\ ApprovedByHand(p) \in 0..1 /\ ApprovedByHand(p)' \in 0..1
      /\ ApprovedByHand(p) <= ApprovedByHand(p)'
  BY DEF ApprovedByHand
<1>5. Backing(p) = before + ApprovedByHand(p) /\ Backing(p)' = after + ApprovedByHand(p)'
  BY <1>3 DEF Backing
<1> HIDE DEF before, after
<1>6. QED
  BY <1>2, <1>4, <1>5 DEF before, after

(* A level set from no more than its backing is backed.                    *)
LEMMA BackedStays ==
    ASSUME Types, Types', closed <= closed', approved \subseteq approved',
           trialled \subseteq trialled', NEW p \in Players, Backed(p),
           \/ level'[p] = level[p]
           \/ \E n \in Nat : /\ level'[p] = tierForApprovedMilestones(n)
                           /\ n <= Backing(p)'
           \/ p \in trialled'
    PROVE  Backed(p)'
<1>1. /\ Backing(p) \in Nat /\ Backing(p)' \in Nat
      /\ Backing(p) <= Backing(p)'
  BY BackingGrows
<1>2. PICK m \in Nat, n \in Nat : m = Backing(p) /\ n = Backing(p)' /\ m <= n
  BY <1>1
<1>3. CASE level'[p] = level[p]
  <2>1. /\ tierForApprovedMilestones(m) \in 0..3 /\ tierForApprovedMilestones(n) \in 0..3
        /\ tierForApprovedMilestones(m) <= tierForApprovedMilestones(n)
    BY <1>2, TierFacts
  <2>2. level[p] \in 0..3
    BY DEF Types, TypeOK
  <2>3. level[p] <= tierForApprovedMilestones(m) \/ p \in trialled
    BY <1>2 DEF Backed
  <2>4. level'[p] <= tierForApprovedMilestones(n) \/ p \in trialled'
    BY <1>3, <2>1, <2>2, <2>3
  <2>5. QED
    BY <1>2, <2>4 DEF Backed
<1>4. CASE \E k \in Nat : level'[p] = tierForApprovedMilestones(k) /\ k <= Backing(p)'
  <2>1. PICK k \in Nat : level'[p] = tierForApprovedMilestones(k) /\ k <= n
    BY <1>2, <1>4
  <2>2. tierForApprovedMilestones(k) <= tierForApprovedMilestones(n)
    BY <2>1, TierFacts
  <2>3. QED
    BY <1>2, <2>1, <2>2 DEF Backed
<1>5. CASE p \in trialled'
  BY <1>5 DEF Backed
<1>6. QED
  BY <1>3, <1>4, <1>5

(* Every action leaves every level backed.                                 *)
LEMMA LevelsStayBacked ==
    ASSUME Types, Types', SeenClosed', Next \/ UNCHANGED vars,
           \A p \in Players : Backed(p)
    PROVE  \A p \in Players : Backed(p)'
<1> SUFFICES ASSUME NEW p \in Players PROVE Backed(p)'
  OBVIOUS
<1>1. closed \in Nat /\ closed' \in Nat /\ level \in [Players -> 0..3]
  BY DEF Types, TypeOK
<1>2. /\ ApprovedCount(p, rows') \in Nat
      /\ ApprovedCount(p, rows') <= Cardinality(ApprovalsUpTo(p, closed'))
  <2>1. /\ rows' \subseteq EventRow /\ IsFiniteSet(rows')
        /\ \A r, s \in rows' : r.event = s.event => r = s
        /\ \A r \in rows' : Ledger(r.event) <= closed'
    BY DEF Types, TypeOK, SeenClosed
  <2>2. QED
    BY <1>1, <2>1, CountType, CountBounded
<1>3. CASE UNCHANGED level /\ closed' \in {closed, closed + 1}
           /\ UNCHANGED <<approved, trialled>>
  BY <1>1, <1>3, BackedStays
<1>4. ASSUME NEW e \in Events, NEW resolved \in BOOLEAN, SideEffects(e, resolved, rows'),
             UNCHANGED <<closed, approved, trialled>>
      PROVE  Backed(p)'
  <2>1. Cardinality(ApprovalsUpTo(p, closed')) <= Backing(p)' /\ Backing(p)' \in Nat
        /\ Cardinality(ApprovalsUpTo(p, closed')) \in Nat
    BY <1>1, <1>4, BackingGrows, ApprovalsGrow
  <2>2. \/ level'[p] = level[p]
        \/ level'[p] = tierForApprovedMilestones(ApprovedCount(p, rows'))
    BY <1>1, <1>4 DEF SideEffects
  <2>3. ApprovedCount(p, rows') <= Backing(p)'
    BY <1>2, <2>1
  <2>4. QED
    BY <1>1, <1>2, <1>4, <2>2, <2>3, BackedStays
<1>5. ASSUME NEW m \in pending, approveBulkMilestones(m)
      PROVE  Backed(p)'
  <2>1. /\ UNCHANGED <<closed, rows, trialled>> /\ approved' = approved \cup {m.event}
        /\ \/ level' = level
           \/ level' = [level EXCEPT ![Player(m.event)] =
                           tierForApprovedMilestones(ApprovedCount(Player(m.event), rows) + 1)]
    BY <1>5 DEF approveBulkMilestones, chainVars
  <2>2. CASE level'[p] = level[p]
    BY <1>1, <2>1, <2>2, BackedStays
  <2>3. CASE level'[p] # level[p]
    <3>1. /\ Player(m.event) = p
          /\ level'[p] = tierForApprovedMilestones(ApprovedCount(p, rows') + 1)
      BY <1>1, <2>1, <2>3
    <3>2. ApprovedByHand(p)' = 1
      BY <2>1, <3>1 DEF ApprovedByHand
    <3>3. Backing(p)' = Cardinality(ApprovalsUpTo(p, closed')) + 1
      BY <3>2 DEF Backing, ApprovedOnChain, ApprovalsUpTo
    <3>4. Cardinality(ApprovalsUpTo(p, closed')) \in Nat
      BY <1>1, ApprovalsGrow
    <3>5. ApprovedCount(p, rows') + 1 \in Nat /\ ApprovedCount(p, rows') + 1 <= Backing(p)'
      BY <1>2, <3>3, <3>4
    <3>6. QED
      BY <1>1, <2>1, <3>1, <3>5, BackedStays
  <2>4. QED
    BY <2>2, <2>3
<1>6. ASSUME NEW q \in TrialPlayers, createTrialOffer(q)
      PROVE  Backed(p)'
  <2>1. /\ UNCHANGED <<closed, approved>> /\ trialled' = trialled \cup {q}
        /\ level'[p] = level[p] \/ p = q
    BY <1>1, <1>6 DEF createTrialOffer, chainVars
  <2>2. QED
    BY <1>1, <2>1, BackedStays
<1>7. CASE ReceivePage
  BY <1>3, <1>7 DEF ReceivePage, chainVars
<1>8. CASE \E e \in poll.todo : ApplyEvent(e)
  <2>1. PICK e \in poll.todo : ApplyEvent(e)
    BY <1>8
  <2>2. /\ e \in Events /\ poll.resolved \in BOOLEAN
        /\ SideEffects(e, poll.resolved, rows') /\ UNCHANGED <<closed, approved, trialled>>
    BY <2>1 DEF ApplyEvent, chainVars, history, Types, TypeOK
  <2>3. QED
    BY <1>4, <2>2
<1>9. CASE RetryApply
  <2>1. /\ retry.event \in Events /\ retry.resolved \in BOOLEAN
        /\ SideEffects(retry.event, retry.resolved, rows')
        /\ UNCHANGED <<closed, approved, trialled>>
    BY <1>9 DEF RetryApply, chainVars, history, Types, TypeOK, RetryDecodes
  <2>2. QED
    BY <1>4, <2>1
<1>10. CASE \/ CloseLedger \/ StartPoll \/ ReceiveNothing \/ persistLastIndexedLedger
            \/ PollFails \/ Crash \/ Deploy \/ deleteUnprocessedEvent \/ RetryFails
            \/ UNCHANGED vars
  BY <1>3, <1>10 DEF CloseLedger, StartPoll, ReceiveNothing, persistLastIndexedLedger,
                     PollFails, Crash, Deploy, deleteUnprocessedEvent, RetryFails,
                     chainVars, tables, history, vars
<1>11. CASE \/ \E e \in poll.todo : \/ DecodeError(e) \/ UnknownType(e)
                                   \/ Lookup(e) \/ InsertRow(e)
            \/ \E e \in Events : RetryLookup(e)
            \/ \E ledger \in 0..cursor : ResetCursor(ledger)
  BY <1>3, <1>11 DEF DecodeError, UnknownType, Lookup, InsertRow, RetryLookup, ResetCursor,
                     chainVars, tables, history
<1>12. QED
  BY <1>5, <1>6, <1>7, <1>8, <1>9, <1>10, <1>11 DEF Next, PollStep

(* No event counts twice towards a level (applyOne and                     *)
(* replayUnprocessedEvent), however often it is delivered, rolled back,    *)
(* parked and retried, for every chain and every margin.                   *)
THEOREM LevelsBacked == Spec => []LevelIsBacked
<1> DEFINE Inv == Types /\ SeenClosed /\ \A p \in Players : Backed(p)
<1>1. Init => Inv
  <2> SUFFICES ASSUME Init PROVE Inv
    OBVIOUS
  <2>1. Types
    BY InitTypes
  <2>2. SeenClosed
    BY DEF Init, NoPoll, NoRetry, SeenClosed
  <2>3. ASSUME NEW p \in Players
        PROVE  Backed(p)
    <3>1. level[p] = 0
      BY DEF Init
    <3>2. ApprovedOnChain(p) = Cardinality(ApprovalsUpTo(p, closed)) /\ closed \in Nat
      BY DEF Init, ApprovedOnChain, ApprovalsUpTo
    <3>3. Backing(p) \in Nat
      BY <3>2, ApprovalsGrow DEF Backing, ApprovedByHand
    <3>4. tierForApprovedMilestones(Backing(p)) \in 0..3
      BY <3>3, TierFacts
    <3>5. QED
      BY <3>1, <3>4 DEF Backed
  <2>4. QED
    BY <2>1, <2>2, <2>3
<1>2. Inv /\ [Next]_vars => Inv'
  BY TypesInductive, SeenClosedStays, LevelsStayBacked
<1>3. Inv => LevelIsBacked
  BY DEF Backed, Backing, LevelIsBacked
<1>4. QED
  BY <1>1, <1>2, <1>3, PTL DEF Spec

-----------------------------------------------------------------------------
(* Approvals through the API.  Without a rollback every milestone that is  *)
(* pending or was approved has its event recorded; the event a poll has    *)
(* recorded and is about to apply was recorded anew, so it is neither; and *)
(* what a retry applies was parked.                                        *)
ParkedRightly ==
    /\ \A e \in parked : MayBeParked(e)
    /\ retry.step # "idle" => MayBeParked(retry.event)

Known(e) == e \in approved \/ \E m \in pending : m.event = e

KnownRecorded == ~rolledBack => \A e \in Events : Known(e) => Recorded(e)

AppliedAnew ==
    \A e \in Events :
        AtEvent("effect", e) =>
            rolledBack \/ (Recorded(e) /\ (Known(e) => MayBeParked(e)))

Approvals == ParkedRightly /\ KnownRecorded /\ AppliedAnew

(* Steps that move no milestone, remove no row and put no event before the *)
(* poll to be applied.                                                     *)
LEMMA CalmKeepsApprovals ==
    ASSUME Approvals, UNCHANGED <<undecodable, approved, pending>>,
           \/ rows \subseteq rows' /\ UNCHANGED rolledBack
           \/ rolledBack',
           \A e \in parked' \ parked : MayBeParked(e),
           retry'.step # "idle" => MayBeParked(retry'.event),
           poll' = poll \/ poll'.step # "effect"
    PROVE  Approvals'
<1>1. ParkedRightly'
  BY DEF Approvals, ParkedRightly, MayBeParked
<1>2. \A e \in Events : Known(e)' <=> Known(e)
  BY DEF Known
<1>3. rolledBack' \/ \A e \in Events : Recorded(e) => Recorded(e)'
  BY DEF Recorded
<1>4. KnownRecorded'
  BY <1>2, <1>3 DEF Approvals, KnownRecorded
<1>5. AppliedAnew'
  BY <1>2, <1>3 DEF Approvals, AppliedAnew, AtEvent, MayBeParked
<1>6. QED
  BY <1>1, <1>4, <1>5 DEF Approvals

(* Side effects make at most one milestone pending, of the event itself.   *)
LEMMA PendingGrows ==
    ASSUME NEW e, NEW resolved, NEW table, SideEffects(e, resolved, table)
    PROVE  pending' = pending \/ pending' = pending \cup {[event |-> e, resolved |-> resolved]}
  BY DEF SideEffects

(* The poll's row is new, so nobody has approved its event yet.            *)
LEMMA InsertKeepsApprovals ==
    ASSUME Types, Approvals, NEW e \in Events, InsertRow(e)
    PROVE  Approvals'
<1>1. /\ UNCHANGED <<undecodable, approved, pending, rolledBack, parked, retry>>
      /\ AtEvent("insert", e)
      /\ rows' = Insert(e, TRUE, poll.resolved)
  BY DEF InsertRow, chainVars, history
<1>2. rows \subseteq rows' /\ Recorded(e)'
  BY <1>1, InsertFacts DEF Types, TypeOK, Recorded
<1>3. retry'.step # "idle" => MayBeParked(retry'.event)
  BY <1>1 DEF Approvals, ParkedRightly
<1>4. CASE Recorded(e)
  <2>1. poll' = Handled(e) /\ poll'.step = "event"
    BY <1>4 DEF InsertRow, Handled, Types, TypeOK
  <2>2. QED
    BY <1>1, <1>2, <1>3, <2>1, CalmKeepsApprovals
<1>5. CASE ~Recorded(e)
  <2>1. poll'.todo = poll.todo
    BY <1>5 DEF InsertRow, Types, TypeOK
  <2>2. ParkedRightly'
    BY <1>1 DEF Approvals, ParkedRightly, MayBeParked
  <2>3. \A d \in Events : (Known(d)' <=> Known(d)) /\ (Recorded(d) => Recorded(d)')
    BY <1>1, <1>2 DEF Known, Recorded
  <2>4. KnownRecorded'
    BY <1>1, <2>3 DEF Approvals, KnownRecorded
  <2>5. ASSUME NEW d \in Events, AtEvent("effect", d)'
        PROVE  d = e
    <3>1. d \in poll.todo /\ e \in poll.todo /\ d <= e /\ e <= d
      BY <1>1, <2>1, <2>5 DEF AtEvent
    <3>2. QED
      BY <3>1, ChainFacts
  <2>6. rolledBack \/ ~Known(e)
    BY <1>5 DEF Approvals, KnownRecorded
  <2>7. AppliedAnew'
    BY <1>1, <1>2, <2>3, <2>5, <2>6 DEF AppliedAnew
  <2>8. QED
    BY <2>2, <2>4, <2>7 DEF Approvals
<1>6. QED
  BY <1>4, <1>5

(* A milestone that comes back.                                            *)
ComesBack(m) == m \in pending' \ pending /\ m.event \in approved

(* What the poll applies has been recorded anew.                           *)
LEMMA ApplyKeepsApprovals ==
    ASSUME Types, Approvals, NEW e \in Events, ApplyEvent(e)
    PROVE  /\ Approvals'
           /\ \A m : ComesBack(m) => rolledBack \/ MayBeParked(m.event)
<1>1. /\ UNCHANGED <<undecodable, approved, rolledBack, rows, parked, retry>>
      /\ AtEvent("effect", e) /\ SideEffects(e, poll.resolved, rows)
      /\ poll' = Handled(e) /\ poll'.step = "event"
  BY DEF ApplyEvent, chainVars, history, Handled, Types, TypeOK
<1>2. pending' = pending \/ pending' = pending \cup {[event |-> e, resolved |-> poll.resolved]}
  BY <1>1, PendingGrows
<1>3. rolledBack \/ (Recorded(e) /\ (Known(e) => MayBeParked(e)))
  BY <1>1 DEF Approvals, AppliedAnew
<1>4. \A m : ComesBack(m) => rolledBack \/ MayBeParked(m.event)
  BY <1>2, <1>3 DEF ComesBack, Known
<1>5. \A d \in Events : (Known(d)' => Known(d) \/ d = e) /\ (Recorded(d)' <=> Recorded(d))
  BY <1>1, <1>2 DEF Known, Recorded
<1>6. KnownRecorded'
  BY <1>1, <1>3, <1>5 DEF Approvals, KnownRecorded
<1>7. ParkedRightly'
  BY <1>1 DEF Approvals, ParkedRightly, MayBeParked
<1>8. AppliedAnew'
  BY <1>1 DEF AppliedAnew, AtEvent
<1>9. QED
  BY <1>4, <1>6, <1>7, <1>8 DEF Approvals

(* What a retry applies was parked.                                        *)
LEMMA RetryKeepsApprovals ==
    ASSUME Types, Approvals, RetryApply
    PROVE  /\ Approvals'
           /\ \A m : ComesBack(m) => rolledBack \/ MayBeParked(m.event)
<1> PICK e \in Events : e = retry.event
  BY DEF RetryApply, Types, RetryDecodes
<1>1. /\ UNCHANGED <<undecodable, approved, rolledBack, parked, poll>>
      /\ MayBeParked(e) /\ retry'.event = e
      /\ rows' = Insert(e, TRUE, retry.resolved)
      /\ SideEffects(e, retry.resolved, rows')
  BY DEF RetryApply, chainVars, history, Types, TypeOK, Approvals, ParkedRightly
<1>2. pending' = pending \/ pending' = pending \cup {[event |-> e, resolved |-> retry.resolved]}
  BY <1>1, PendingGrows
<1>3. \A m : ComesBack(m) => rolledBack \/ MayBeParked(m.event)
  BY <1>1, <1>2 DEF ComesBack
<1>4. rows \subseteq rows' /\ Recorded(e)'
  BY <1>1, InsertFacts DEF Types, TypeOK, Recorded
<1>5. \A d \in Events : (Known(d)' => Known(d) \/ d = e) /\ (Recorded(d) => Recorded(d)')
  <2>1. \A d \in Events : Known(d)' => Known(d) \/ d = e
    BY <1>1, <1>2 DEF Known
  <2>2. \A d \in Events : Recorded(d) => Recorded(d)'
    BY <1>4 DEF Recorded
  <2>3. QED
    BY <2>1, <2>2
<1>6. KnownRecorded'
  BY <1>1, <1>4, <1>5 DEF Approvals, KnownRecorded
<1>7. ParkedRightly'
  BY <1>1 DEF Approvals, ParkedRightly, MayBeParked
<1>8. \A d \in Events : MayBeParked(d)' <=> MayBeParked(d)
  BY <1>1 DEF MayBeParked
<1>9. \A d \in Events : AtEvent("effect", d)' => AtEvent("effect", d)
  BY <1>1 DEF AtEvent
<1>10. AppliedAnew'
  BY <1>1, <1>5, <1>8, <1>9 DEF Approvals, AppliedAnew
<1>11. QED
  BY <1>3, <1>6, <1>7, <1>10 DEF Approvals

(* Every action keeps the invariant, and what it makes pending again is    *)
(* excepted.                                                               *)
LEMMA ApprovalsStay ==
    ASSUME Types, Approvals, Next \/ UNCHANGED vars
    PROVE  /\ Approvals'
           /\ \A m : ComesBack(m) => rolledBack \/ MayBeParked(m.event)
<1>1. retry.step # "idle" => MayBeParked(retry.event)
  BY DEF Approvals, ParkedRightly
<1> DEFINE Calm == /\ UNCHANGED <<undecodable, approved, pending, rolledBack>>
                   /\ rows \subseteq rows'
                   /\ \A e \in parked' \ parked : MayBeParked(e)
                   /\ \/ retry' = retry \/ retry'.step = "idle"
                      \/ MayBeParked(retry'.event)
                   /\ poll' = poll \/ poll'.step # "effect"
           Goal == /\ Approvals'
                   /\ \A m : ComesBack(m) => rolledBack \/ MayBeParked(m.event)
<1>2. Calm => Goal
  <2> SUFFICES ASSUME Calm PROVE Goal
    OBVIOUS
  <2>1. retry'.step # "idle" => MayBeParked(retry'.event)
    BY <1>1
  <2>2. Approvals'
    BY <2>1, CalmKeepsApprovals
  <2>3. QED
    BY <2>2 DEF ComesBack
<1> SUFFICES Goal
  OBVIOUS
<1> HIDE DEF Goal
<1>3. CASE \/ CloseLedger \/ StartPoll \/ ReceiveNothing \/ persistLastIndexedLedger
           \/ PollFails \/ Crash \/ Deploy \/ deleteUnprocessedEvent \/ RetryFails
           \/ UNCHANGED vars
  <2>1. /\ UNCHANGED <<undecodable, approved, pending, rolledBack, rows>>
        /\ parked' \subseteq parked
        /\ retry' = retry \/ retry' = NoRetry
        /\ poll' = poll \/ poll' = NoPoll \/ poll'.step = "asking"
    BY <1>3 DEF CloseLedger, StartPoll, ReceiveNothing, persistLastIndexedLedger, NoPoll,
                PollFails, Crash, Deploy, Restart, deleteUnprocessedEvent, RetryFails,
                chainVars, tables, history, vars
  <2>2. Calm
    BY <2>1 DEF NoPoll, NoRetry
  <2>3. QED
    BY <1>2, <2>2
<1>4. CASE ReceivePage
  <2>1. /\ UNCHANGED <<undecodable, approved, pending, parked, retry>> /\ poll'.step = "event"
        /\ (UNCHANGED <<rows, rolledBack>>) \/ rolledBack'
    BY <1>4 DEF ReceivePage, RollBackReplaced, chainVars, Types, TypeOK
  <2>2. Approvals'
    BY <1>1, <2>1, CalmKeepsApprovals
  <2>3. QED
    BY <2>1, <2>2 DEF Goal, ComesBack
<1>5. ASSUME NEW e \in poll.todo, DecodeError(e) \/ UnknownType(e) \/ Lookup(e)
      PROVE  Goal
  <2>1. /\ UNCHANGED <<undecodable, approved, pending, rolledBack, retry>>
        /\ rows \subseteq rows' /\ poll'.step # "effect"
    <3>1. CASE DecodeError(e)
      BY <3>1 DEF DecodeError, Handled, chainVars, history, Types, TypeOK
    <3>2. CASE UnknownType(e)
      BY <3>2 DEF UnknownType, Handled, Insert, chainVars, history, Types, TypeOK
    <3>3. CASE Lookup(e)
      BY <3>3 DEF Lookup, chainVars, tables, history, Types, TypeOK
    <3>4. QED
      BY <1>5, <3>1, <3>2, <3>3
  <2>2. \/ parked' \subseteq parked
        \/ MayBeParked(e) /\ parked' \subseteq parked \cup {e}
    BY <1>5 DEF DecodeError, UnknownType, Lookup, Park, Outcome, MayBeParked, tables
  <2>3. Calm
    BY <2>1, <2>2
  <2>4. QED
    BY <1>2, <2>3
<1>6. ASSUME NEW e \in Events, RetryLookup(e)
      PROVE  Goal
  <2>1. MayBeParked(retry'.event)
    BY <1>6 DEF RetryLookup, Approvals, ParkedRightly
  <2>2. Calm
    BY <1>6, <2>1 DEF RetryLookup, chainVars, tables, history
  <2>3. QED
    BY <1>2, <2>2
<1>7. ASSUME NEW ledger \in 0..cursor, ResetCursor(ledger)
      PROVE  Goal
  <2>1. Calm
    BY <1>7 DEF ResetCursor, chainVars, history
  <2>2. QED
    BY <1>2, <2>1
<1>8. ASSUME NEW p \in TrialPlayers, createTrialOffer(p)
      PROVE  Goal
  <2>1. Calm
    BY <1>8 DEF createTrialOffer, chainVars
  <2>2. QED
    BY <1>2, <2>1
<1>9. ASSUME NEW n \in pending, approveBulkMilestones(n)
      PROVE  Goal
  <2>1. /\ UNCHANGED <<undecodable, rolledBack, rows, parked, retry, poll>>
        /\ pending' = pending \ {n} /\ approved' = approved \cup {n.event}
    BY <1>9 DEF approveBulkMilestones, chainVars
  <2>2. \A d \in Events : (Known(d)' => Known(d)) /\ (Recorded(d)' <=> Recorded(d))
                          /\ (AtEvent("effect", d)' <=> AtEvent("effect", d))
                          /\ (MayBeParked(d)' <=> MayBeParked(d))
    BY <2>1 DEF Known, Recorded, AtEvent, MayBeParked
  <2>3. KnownRecorded' /\ AppliedAnew'
    BY <2>1, <2>2 DEF Approvals, KnownRecorded, AppliedAnew
  <2>4. ParkedRightly'
    BY <2>1 DEF Approvals, ParkedRightly, MayBeParked
  <2>5. QED
    BY <2>1, <2>3, <2>4 DEF Goal, Approvals, ComesBack
<1>10. CASE \E e \in poll.todo : InsertRow(e)
  <2>1. UNCHANGED pending
    BY <1>10 DEF InsertRow
  <2>2. poll.todo \subseteq Events
    BY DEF Types, TypeOK
  <2>3. QED
    BY <1>10, <2>1, <2>2, InsertKeepsApprovals DEF Goal, ComesBack
<1>11. CASE \E e \in poll.todo : ApplyEvent(e)
  <2>1. poll.todo \subseteq Events
    BY DEF Types, TypeOK
  <2>2. QED
    BY <1>11, <2>1, ApplyKeepsApprovals DEF Goal
<1>12. CASE RetryApply
  BY <1>12, RetryKeepsApprovals DEF Goal
<1>13. QED
  <2> HIDE DEF Calm
  <2>1. CASE PollStep
    BY <1>3, <1>4, <1>5, <1>10, <1>11, <2>1 DEF PollStep
  <2>2. CASE ~PollStep
    BY <1>3, <1>6, <1>7, <1>8, <1>9, <1>12, <2>2 DEF Next
  <2>3. QED
    BY <2>1, <2>2

(* A milestone a validator has approved comes back for approval only       *)
(* through a rollback (indexEvents) or the retry of a parked event         *)
(* (replayUnprocessedEvent), for every chain and any number of resets,     *)
(* failures and restarts.                                                  *)
THEOREM ApprovedStays == Spec => ApprovedStaysApproved
<1> DEFINE Inv == Types /\ Approvals
<1>1. Init => Inv
  <2> SUFFICES ASSUME Init PROVE Inv
    OBVIOUS
  <2>1. Approvals
    BY DEF Init, NoPoll, NoRetry, Approvals, ParkedRightly, KnownRecorded, Known,
           AppliedAnew, AtEvent
  <2>2. QED
    BY <2>1, InitTypes
<1>2. Inv /\ [Next]_vars => Inv'
  BY TypesInductive, ApprovalsStay
<1>3. Inv /\ [Next]_vars =>
        [\A m \in pending' \ pending :
            m.event \in approved => rolledBack \/ MayBeParked(m.event)]_vars
  BY ApprovalsStay DEF ComesBack
<1>4. QED
  BY <1>1, <1>2, <1>3, PTL DEF Spec, ApprovedStaysApproved
=============================================================================
