# TLA+ models of ScoutOff

ScoutOff connects football scouts with young players. Its state lives in five Soroban (Stellar) smart
contracts under `contracts/` (Rust) and in the database of a Node.js backend under `src/` (TypeScript), which
indexes the contracts' events, serves queries and runs privileged operations. This directory holds TLA+ modules
of both, the TLC configurations that check them and TLAPS proofs about them. `PROJECT.json` gives, for every
definition, the lines of code it stands for; for every property, a plausible bug of the code that breaks it.

## 1. Inventory

### On chain (`contracts/`)

| component | state | operations | hard to get right |
|---|---|---|---|
| roles (`shared/src/access.rs`, embedded in every contract) | members per role, the role that administers each role, a counter of root admins | `initialize`, `initialize_roles` (instances older than roles), `grant_role`, `revoke_role`, `renounce_role`, `set_role_admin` | the counter is kept beside the membership keys; roles administer roles |
| register (`register/src/lib.rs`) | player records and wallet index, each in persistent *or* legacy instance storage, counter, migration cursor, allowlist of updaters | `register_player`, `update_profile`, `migrate_players`, `update_progress_level`, allowlist, pause | a migration in batches, with calls between the batches |
| progress (`progress/src/lib.rs`) | validators, milestones, list per player | validators, `submit_milestone`, `approve_milestone` | approval writes here and in the register contract |
| subscription (`subscription/src/lib.rs`) | subscription per scout, paid contacts, fee rate, accounted fee balance | `subscribe`, `cancel_subscription`, `pay_to_contact`, `withdraw_fees`, `set_platform_fee_bps` | token and accounting are two books |
| connection (`connection/src/lib.rs`) | connections, offers, lists of both | `create_connection`, `close_connection`, `log_trial_offer`, paginated lists | access is decided by another contract and lapses; records and lists are separate keys |
| player token (`player_token/src/lib.rs`) | supply, balances, holder pages, the old holder list, pending payouts | issue, buy, distribute a fee page by page, migrate the old list | holders are added and moved between two pages of one payout |

The contracts call each other: `progress.approve_milestone` and `connection.log_trial_offer` call
`register.update_progress_level`; `connection` reads access from `subscription`; `subscription` moves tokens.
An invocation with everything it calls is atomic and a failed one changes nothing, so what interleaves is the
order of invocations.

### Backend (`src/`)

| component | state | operations | hard to get right |
|---|---|---|---|
| admin multi-signature (`services/adminMultiSig.ts`, `db/repositories/adminActions.ts`) | action row with a signature count, signature rows | propose, approve, expire, run | statements of concurrent requests interleave, no transaction |
| idempotency (`middleware/idempotency.ts`, `timeout.ts`, `utils/inflightLock.ts`, repository) | row per key: pending or complete, lease, expiry | claim, re-claim, serve, complete, release, purge | outcome written late; the timeout answers while the handler runs on |
| indexer (`services/indexer.ts`, `eventOrdering.ts`, `tierPromotion.ts`) | event rows, derived tables, cursor, ledger hashes | poll, insert, apply, roll back, advance cursor, dispatch | duplicates, crashes between insert, side effects, cursor and webhooks; reorganisations |
| reindex and replay (`reindexService.ts`, `replayService.ts`, `eventBatchProcessor.ts`) | progress of each job, a cancel flag | batches over a ledger range, cancel | RPC errors that look like empty batches; jobs beside polls that overlap, all writing one table and one cursor |
| webhooks (`webhooks.ts`, `webhookHealth.ts`, `webhookDeadLetterJob.ts`, three controllers) | subscriptions with a streak of failures and a status, a circuit breaker each (in memory), dead letters with claims | dispatch, deliver, dead-letter, sweep, requeue, purge, suspend, reactivate | concurrent deliveries and sweeps, lists read earlier, crashes of a claimant |
| circuit breaker (`utils/circuitBreaker.ts`) | state, failure count, open time | call, succeed, fail, cool down | half-open; calls that end late |
| payments and withdrawals (`stellarPayments.ts`, `stellarWithdrawals.ts`, `stellarCore.ts`, `scoutController.ts`, `trialOfferController.ts`, `adminFeesController.ts`) | the platform account's sequence number and transactions, rows for unlocks, subscriptions, offers and withdrawals, a flag per process | build, simulate, submit, poll, record | a reply lost, a transaction included late, a row that cannot be written |
| audit log (`services/audit.ts`, `db/repositories/audit.ts`, `auditVerify.ts`, `auditChainVerifier.ts`) and its retention (`retention.ts`) | a hash chain of rows, checkpoints of archived prefixes, progress of the verification | append, archive, prune, verify in full and incrementally, report | two processes at each; the chain's beginning moves into the archive |
| IPFS pins (`services/ipfs.ts`, `db/repositories/pendingPins.ts`) | a table that is mutex, mailbox and queue at once; cache and requests in flight per process | pin, poll, queue, retry, reconcile | the mutex's holder crashes; jobs work on rows read earlier |
| authentication (`sep10.ts`, `tokenBlocklist.ts`, `walletBlocklist.ts`, `apiKeyService.ts`) | nonces, revoked tokens in cache and database | challenge, verify, refresh, revoke | single use; cache against database |
| streaming (`eventBroadcaster.ts`), caches, rate limits and reputation, field re-encryption, tier divergence job, feature flags | in memory, Redis or tables | publish, subscribe, evict, count, sweep | stale reads, windows |
| remaining Stellar clients, controllers, routes, GraphQL, database drivers, migrations, TypeScript client, Helm, scripts | none of their own | parse, format, call | covered where the components above call them |

What makes each component correct is in section 3; PROJECT.json lists each hazard at its line with the
properties that would catch it.

## 2. Modules

| module | models | state and actions |
|---|---|---|
| `AccessControl` | `shared/src/access.rs` | one variable per storage key (membership keys as a set per role); one action per entry point |
| `Platform` | what the contracts share | pause flags, page arithmetic |
| `Register`, `Progress`, `Subscription`, `Connection` | the contract of that name | one variable per `DataKey`, one action per entry point; only successful invocations are actions |
| `ScoutOffContracts` | the four contracts together | `Progress` and `Connection` call `Register!update_progress_level` inside their own actions |
| `AdminMultiSig` | `services/adminMultiSig.ts` | requests with a program counter: one action per awaited statement, `Abort` at every one |
| `Idempotency` | the idempotency middleware, lock, timeout and repository | same; `writes` holds the outcome writes that were started and not awaited |
| `Indexer` | `services/indexer.ts`, `eventOrdering.ts`, `tierPromotion.ts` and the two controllers that also write levels | the chain is a constant sequence of events; one poll and one retry with a program counter, one action per piece between awaits; `PollFails`, `Crash` and `Deploy` between any two |
| `Backfill` | reindex, replay, `eventBatchProcessor.ts`, and overlapping polls | both jobs and several polls over one table of events: one action per piece between awaits; flags and progress are lost in a crash |
| `CircuitBreaker` | `utils/circuitBreaker.ts` | operators on one breaker: admit, succeed, fail, cool down; its owner applies them |
| `Webhooks` | `services/webhook*.ts`, the two controllers and repositories of webhooks | a server process that dispatches, delivers and answers administrators; each sweep of the dead-letter job with a program counter over the list it has read; breakers are lost in a crash, rows are not |
| `DeadLetterQueue` | what `docs/webhooks.md` promises of the queue | the abstract specification `Webhooks` implements: a letter waits, is in one worker's hands, is done or gone |
| `PlatformAccount` | `stellarCore.ts` and the Stellar network | the account that signs everything: a transaction takes a sequence number when it is built, is accepted or not, is included, succeeds or fails, or expires |
| `Settlement` | the controllers and services that pay, offer and withdraw | requests with a program counter over the awaited calls; the handlers of ten operations share the steps of building, sending and polling, and differ in what they check and record |
| `PlayerToken` | `player_token/src/lib.rs` | one action per entry point; balances, holder pages, the unmigrated list, what every page of every transfer has paid |
| `AuditLog` | appends, archive and retention, `GET /audit/verify` | rows with an ideal hash (the sequence of what was hashed); the retention of each process with a step per transaction |
| `AuditVerifier` | `services/auditChainVerifier.ts` over `AuditLog` | the runs of several processes batch by batch, their kept progress, reports |
| `PendingPins` | `services/ipfs.ts`, `pendingPins.ts` | requests for one document with a program counter, one action per statement or upload; the two jobs over the rows they have listed |
| `ContractsProofs`, `AdminProofs`, `IdempotencyProofs`, `IndexerProofs`, `WebhooksProofs`, `SettlementProofs`, `AuditVerifierProofs`, `PendingPinsProofs` | | theorems about the module of that name (`ContractsProofs`: `ScoutOffContracts`, `AccessControl` and `PlayerToken`; `AdminProofs`: `AdminMultiSig` and `Backfill`; `AuditVerifierProofs`: also `AuditLog`) |
| `MC*` | | instances for TLC |

Roles are a constant in the composed contracts: their operations never change a role table, and a history of
grants and revocations only disables calls. Positions, regions, URIs beyond identity, tags, timestamps, events
and formatting are left out. Time is a counter: ledgers on chain, abstract units against lease and expiry in the
backend; a tick may happen between any two steps, which covers slow and stopped processes.

## 3. Runs

| run | bounds | properties | shows |
|---|---|---|---|
| `roles` | 3 accounts, 3 roles, counter limit 2 | `AdminCountExact`, `RootNeverOrphaned`, `RootChangedByRootOnly` | no history of role changes miscounts, orphans or hijacks the root role, fresh or upgraded instance alike |
| `tiers` | 2 players, 2 wallets, 2 milestones of 3 types, 1 validator, 1 scout, batches of one player, allowlist of 2 | `WalletsAndPlayersAgree`, `MigrationLeavesNothingBehind`, `LevelIsEarned`, `ProfilesSurviveEveryStep` | records survive a migration that interleaves with everything else; a level is what approvals and offers justify |
| `payments` | 2 scouts, 2 players, 2 tokens each, fees of 0, 1 and 2 tokens, 2 ledgers, pages of one entry | `FeeBalanceBacked`, `EveryContactPaidFor`, `ListsMatchRecords` | accounted fees are there to withdraw; nobody uses another's access; what is read page by page agrees with the records |
| `player_token` | 3 holders, pages of 2, supply 4, fees of 2 and 5, 2 transfers, 2 holders of the old list | `HoldersListedOnce`, `PayoutsAddUp` | a holder is in one page once, and what a transfer pays out in its pages is never more than its fee, in any order of purchases, pages and migration steps |
| `multisig` | 4 requests, 3 admins and an outsider, threshold 2, expiry | `OnlyProposerCountsTwice`, `RunsNearQuorum` | concurrent approvals, of one wallet or of several, count each signature once, but for a proposer who approves while its proposal is under way (section 5): it is counted twice, and what runs is then at most one signature short, never more |
| `idempotency` | 3 requests, lease 1, time to live 3, time 4 | `OneLeaseHolder`, `ReplaysAreAnswers`, `KeptAnswerStays` | one handler at a time under a lease; replays are final answers; a kept answer stays |
| `indexer` | 4 events in 3 ledgers, margin of 1 ledger, pages of 3, one failure or crash, one cursor reset, one deployment | `NoEventSkipped`, `LevelIsBacked`, `ApprovedStaysApproved`, `EventuallyIndexed` | no poll passes an event by; no event counts twice; everything decodable is recorded again and again |
| `webhooks` | 2 events, 1 subscription, 2 sweeps, 1 requeue, breaker threshold 1, suspension after 2, 1 automatic retry, 1 crash, pages of one row | `BreakersMatchStreaks`, `StatusMatchesStreak`, `NothingDropped`, `SuspendedUntilPinged`, `SweepsTryTheirPage`, `ImplementsQueue` | what was dispatched is delivered, in the table or purged; a suspension lasts until a ping; a process made to sweep again and again tries the due letters of its page; the table implements `DeadLetterQueue` |
| `settlement` | 3 requests in nine mixes of the ten operations, 2 processes that may crash | `RecordsAreBacked`, `AnswersAreTrue`, `OneWithdrawalAtATime`, `UnlocksAreAnswered` | a row goes back to a transaction that succeeded; who is refused has moved nothing; withdrawals of a process exclude each other |
| `audit` | 3 events, archives of one row, verification batches of 2, 1 batch per incremental run, report batches of 2, 1 edited row or damaged checkpoint, 1 run broken off, 2 processes that archive and 2 that verify | `HistoryIsComplete`, `VerifyIsExact`, `CheckpointIsGenuine`, `EditsAreReported` | archive and log together are what was appended; what `GET /audit/verify` answers is true: "ok", "tampered", cut off by the deadline, or refused for its checkpoint; kept progress is genuine; an edit is reported, also of a row that had been verified |
| `pins` | 2 requests in one process or two, the jobs of one process, rows one at a time, 1 attempt, 1 crash or failed statement | `PayloadsAreKept`, `NothingWaitsForever` | a document put in the table is pinned or still there; every request ends and every row is pinned or used up |
| `reindex` | 4 events in 3 ledgers, margin of 1 ledger, pages of 2, 2 polls, 2 jobs over one of two ranges in batches of 1 or 2, 1 failed call or crash | `ProgressIsTrue`, `CancelsAreHeeded`, `CursorIsBacked` | what a job reports processed is in the table; a cancellation stops its own job and in time; jobs and polls that write the cursor over one another leave nothing behind, but for the exceptions of section 5 |

*Why the bounds are enough.* The hazards are interactions of two or three parties. Two players suffice for a
batch boundary, with one legacy and one new record; two scouts for one using the other's payment; a page of one
entry makes every list of two cross a boundary. Three approvals against a threshold of two give approvers
before, at and beyond the threshold, three requests of one key a claimant, a waiter and a retry; the clock is
long enough to pass the lease and the expiry once each. `tiers` pauses register, progress and subscription,
`payments` connection, so every switch is exercised without multiplying the two runs.

The indexer's four events are the smallest chain with two events in one ledger (which it takes for a
reorganisation whenever it reads that ledger again), one it may fail to decode under an alias (the cursor moves
on) or under its own name (the cursor is held), one of an unknown type and one it reads again without a
rollback. A page must hold more events than the ledgers of the margin: with fewer, every poll reads the same page
and `EventuallyIndexed` fails, in the code as in the model (100 events in 10 ledgers with the defaults).

In `webhooks` a threshold of 1 makes every failure open the breaker and a limit of 2 lets a streak pass both limits;
one retry shows the first sweep and the exhausted row. A sweep reads the 200 newest rows of any status; a page of one
with two letters is the smallest that hides a due letter behind a newer row. In `settlement` a mix
pairs the operations that share something: the flag, the row of a scout, an offer, the account's sequence number. In
`player_token` three holders fill a page and begin another. The batches of `audit` are smaller than the log, so every
run is interrupted by appends and pruning, and the hash is ideal: two contents never collide.
Behind the service's back the content of a row may be changed, or of the latest checkpoint a column other than its id, or
its archive file; rows are not removed or exchanged, and a row's own hashes stay. Archives of two rows and
a fourth event are in `MCAuditSafety.cfg` (3.3 million states up to symmetry, the three invariants); with liveness,
which symmetry would not be sound for, they take too long for a run. Which rows of the log are old enough is left open
(any prefix). In `pins` one document suffices, because nothing relates two hashes; what a run of a job has listed is
one row, which may be gone, resolved or under another's hands when the job comes to it. `PayloadsAreKept` also holds
with two attempts (1.4 million states), and for any bounds by the theorem below.

`reindex` has the indexer's chain without decoding or side effects, so that two polls fit. Batches of 1 and 2 in a
range of 3 ledgers give a change of batch size; two jobs give a reindex after a cancelled one and a replay beside a
reindex; pages of 2 cut a ledger. Polls are interchangeable (`SYMMETRY`).

*Preconditions in the properties.* `OneLeaseHolder` and `KeptAnswerStays` speak of histories in which no handler
failed, timed out or ran past a broken database (`Undisturbed`): after those the code forgets the key on
purpose. What that costs, `MCIdempotencyDocs` shows (section 5).

*Fairness.* The indexer's run assumes weak fairness of the polling steps (`index.ts` polls on a timer and catches
what a poll throws) and of the deployment of a repaired decoder. `webhooks` assumes only that a sweep which has begun goes on
(`WF(SweepGoesOn)`: its awaited calls return or time out). At this commit nothing starts the job
(`docs/background-jobs.md:124`), so no sweep is ever required: `SweepsTryTheirPage` is about the behaviours in which
one process starts sweeps again and again, as an operator may. `settlement` assumes that an awaited call returns, because RPC and database
calls have timeouts, and that the network includes or expires what it has accepted. `audit` assumes that
verification runs are started and go on (a timer) and that the time of a full run comes; the retention job may
stop for ever. `pins` assumes that calls of `pinJson` return or time out (`IPFS_HTTP_TIMEOUT_MS`), that its 30
seconds pass, and that the retry job is started by its timer; the reconciliation posts without a timeout and
is not relied on. Failures, crashes, resets and edits are bounded by constants and never required. The other
runs (`reindex` among them) are about safety and assume none. Deadlock is not checked
where the bounds let the system stop (all requests done, the clock at its bound).

## 4. Proofs

Eight modules prove, for all values of the constants, 35 of the 40 properties the runs check on small instances; the
named assumptions of the modules are the only ones, except where a theorem states another. Every inductive invariant
below was first checked by TLC on the instance of its run.

`ContractsProofs` proves, for any number of accounts and roles, what `roles` checks on three. The inductive
invariant `RolesInv` adds to the properties that the root role administers itself (otherwise a grant could be authorised by
another role) and that before the table exists all roles are empty; the counter's theorem rests on the library's
facts about cardinalities of finite sets. `RootDecidedByRoot` is an action property from the same invariant.

For the four contracts together it has four invariants, each inductive over the steps of all of them.

- `Money` (`FeesAreBacked`): the accounted balance is what the contract's account holds. A fee moves tokens and books
  together; the proof needs that the scout who pays is not the contract itself and that the fee manager is
  another account (`SubscriptionAssumption`: a contract signs no transaction). `ContactsArePaidFor` adds `Contacts`:
  access is checked when a connection is opened and may lapse later, but what opened it (a paid contact, a
  subscription of one's own) is never taken away.
- `Records` (`WalletsAndPlayersStayOne`, `MigrationsFinish`, `ProfilesSurvive`): ids are dense, every record is in
  exactly one storage, wallet and record name each other wherever either is, and what is left in the old storage is ahead
  of the migration's cursor (`LeftoversAhead`). The last is what makes completion true: a registration or an update
  between two batches must not leave anything behind the cursor.
- `Ladder` (`LevelsAreEarned`): a level is the highest that an approved milestone or an offer grants, or the one an old
  deployment brought. Approval and level are written by two contracts in one invocation, so the step lemma
  (`EarnedMoves`) relates both records before and after.
- `Lists` (`ListsAreRead`): the lists hold each record once. What a client reads is a recursion over pages
  (`ReadAllPages`), about which no induction theorem of the library can be cited; the proof states its solution, the
  rest of the list from the page on (`AllPagesAreTheList`), and refutes the last page that would differ, which
  exists because the natural numbers are well-founded (`FirstOf`).

Its last part is about `PlayerToken` (`TokenTypesHold`, `EveryHolderListedOnce`, `FeesAreSharedOut`), from
`PlayerTokenAssumption`: finite sets, and an old list that names nobody twice. The inductive invariant
`TokenInv` has two halves.

- `Holdings`: the list of pages followed by the old list is injective. A purchase appends a new holder to the last page
  or a new one, which inserts in the middle of that list (`HolderAppended`); a migration step takes a piece from the old
  list to the end of the pages, and the entries stay the same (`HoldersAppended`, `PieceMoved`). Nothing is sold or
  distributed before the tokens are issued (`NothingBeforeIssue`): an issue must not reset a total.
- `Payouts`: `PayoutsAddUp` with the fact that a payout pending on a page was put there by a transfer that has
  processed the page (`PayoutsHaveTransfers`). Without it the first payout of a page could overwrite
  something that no transfer accounts for.

Sums over sets, and folds altogether, have no theorems in the library, and its induction theorems cannot be instantiated.
The proofs state induction about sets of numbers and of subsets (`EveryNumber`, `EverySubset`), from the
well-foundedness of the naturals; the recursive function behind a fold is then shown to be defined (`FoldIsDefined`), and with it
what a sum becomes when one summand changes (`SumChanges`), that a part is at most the whole
(`PartOfSum`) and that the sum of ones counts (`SumCounts`): the holders of an old list have one token each.

`AdminProofs` proves `CountsAreSigned` and `RunsAreApproved`, without a hypothesis, as what the code keeps: the counter is
ahead of the signatures on file by at most one, and only if a proposer approved before its own proposal signed
(`overtaken`, a history variable). The rules of the comments in the code, which say more, are false (section 5). The
invariant says that the row precedes everything that counts on it (`RowFirst`), that only admins sign
(`SignersAreAdmins`), that nothing is counted twice before the one proposal has signed
(`ProposalSignsOnce`: there is no second double count), and that a request which has seen the threshold has seen it in signatures on file and the double
count (`QuorumSeen`). `OneRun`: the insertion of a signature lets one request of a wallet through. No run
repeats it.

Its second part is about the jobs an administrator starts, `Backfill`, from `BackfillAssumption`:

- `ProgressReportsAreTrue`: a running job has processed exactly what lies before its next batch (`JobsFit`). A batch that
  is not said to miss events is whole: a page is cut from the front (`PageContents`), so one that is full but ends
  behind the batch, or one that is not full, has all of it (`WholeBatch`). The second case counts: the first event a page leaves out has as
  many before it as a page takes.
- `CancellationsAreHeeded`: while a reindex runs the flag is up exactly if it was asked to stop (`FlagsFit`); a batch
  inserted after that is followed by a look at the flag on every path, with or without a pause.
- `BackfilledCursorIsBacked`: whoever will write the cursor, a poll or a reindex, started from where nothing was missing
  (`TableBacked`), so it does not matter which writes last. It needs a margin of at least 1, like `NothingSkipped`; TLC finds
  `CursorIsBacked` violated with 0. `BackfillTypeCorrect` gives the types.

`IndexerProofs` proves type correctness and three properties of the run `indexer` for every chain of events, set of undecodable events,
page size, margin and number of failures, crashes and resets.

- `TypeCorrect` (`TypeOK`, which no run needs to repeat): with the finiteness of the events table and the fact that a retry decodes its event (`Types`).
- `NothingSkipped`: a poll reads the cursor at its start and moves it up at its end, so
  `NoEventSkipped` is not inductive. `IInv` says what a poll owes in between: what lies below its start is
  covered, and what lies between its start and the last ledger of its page is still to be handled, covered, or at
  or above the ledger it will hold (`StartCovered`, `BatchCovered`). *Covered* means recorded or excepted; a parked
  event whose retry is about to delete it does not count, because a rollback may have taken its row meanwhile. The
  crux is the end of a poll, where the page may have cut its last ledger: the next poll starts a margin earlier and
  asks for that ledger again. That needs a margin of at least 1, the theorem's assumption. `config.ts:964` accepts 0,
  and then `NoEventSkipped` fails (TLC finds it with pages of one event). The default is 10.
- `LevelsBacked`: only events of closed ledgers reach the tables, rows have distinct events, so the approvals a
  table counts map one to one into those on the ledger; tiers grow with the count.
- `ApprovedStays`: the event that would set an approved milestone back is its submission. It applies only in the step after
  its row was inserted anew (`AppliedAnew`), so its approval has not been read yet; a row is gone only after a rollback,
  and a retry, which applies regardless, has only parked events in hand (`ParkedRightly`, `KnownRecorded`).

`WebhooksProofs`: `BreakersAreTrue`, `StreaksAreTrue` and the action property `SuspensionsLast` follow from one invariant
about the rows, because the code updates streak and status in one statement. `NothingIsDropped` and `QueueImplemented`
need `LInv`: a letter that is in progress is in the hands of the one sweep that claimed it (`ClaimsAreHeld`), and a
letter's status is true of its delivery (`LettersAreTrue`). The refinement theorem maps the initial states and
every step to `DeadLetterQueue`, one lemma per action; fairness is not used.

`SettlementProofs`: for any assignment of jobs and processes to requests (`SettlementAssumption`). The ten operations
share their steps, so the invariant relates two positions: how far a request is and how far its transaction is
(`StagesFit`). `RecordsBacked` and `AnswersTrue` rest on it, with what a request has read and will write to being still
there (`TargetsFit`). `WithdrawalsExclude` says that a flag is up while exactly one request holds it; a set of
holders with one element or none is counted by the library's theorems.

`AuditVerifierProofs`: a live row is the row as it was logged or with its content changed, at the position its id says
(`LogFollows`); the archives are intact and reach from the first event to where the live rows begin
(`ArchivesReach`); so is what a replica has in memory between archiving and deleting (`BatchesIntact`), which is why the
comparison with the selected rows and the checkpoint before the deletion suffices. The central lemma,
`WalkFindsEdits`, says what the walk over such rows finds: the edited ones and no others. `HistoryComplete` follows, and
`VerifyExact` for every report there may be: cut off after any batch (`ReportNamesEdits`), or without a snapshot. The
snapshot throws if the latest checkpoint's signature or archive does not fit, if either cannot be read, or if live rows
overlap the archives; the last never happens (`SnapshotTaken`). The endpoint answers "tampered" in all these cases, also
to a database that fails: the theorem says such a report is told apart by naming row 0, and that no other one is
affected. `CheckpointTrue` adds that a run which goes on holds the hash of the event it has
come to (`WalksGenuine`), in which batches enter only as live rows. That a walk which finds broken links has a first
one is well-foundedness of the naturals (`FirstOf`). Hashes are ideal, as in the model.

`IdempotencyProofs`: a request has run as far as its stage says and writes what its run came to (`StagesFit`), so
a row that is complete names a handler that succeeded (`RowIsAnswer`), and `ReplaysServeAnswers` follows. For
`OneRunsUnderTheLease` the row has to remember the lease: whoever runs under a live lease owns a row with exactly
that lease and a later expiry (`HoldersOwn`), so neither the purge nor a re-claim can take it. That needs the
lease to be shorter than the life of the key, the assumption of the module. `Undisturbed` is a precondition of both the
property and `HoldersOwn`; that it is never regained once lost (`AdvanceKeeps`) makes the invariant inductive. In
`AnswerIsKept` the one request that has run is the one answered and the only one with a write to make.

`PendingPinsProofs` proves `PayloadsKept == Spec => []PayloadsAreKept` from `PendingPinsAssumption` alone. The
property is not inductive: the last statement of a request deletes rows by the document's hash, whoever inserted
them. The invariant `IInv` adds the types of the rows and requests, that a request about to set the CID has its document
pinned (`ResolvesPinned`), and that before a request deletes, the document is pinned, or a row without the hash holds
it, or the queue could not be written (`DeletesSafe`). Most steps take nothing out of the table and
unpin nothing (`Growing`), and one lemma (`GrowingKeepsIInv`) deals with them; the two that delete, `ReleaseLock` and
`RetryRow`, are proved by themselves. What the jobs have listed does not matter: an update by id changes a row or none
(`UpdatedRow`).

Every invariant and every action property of the runs is proved. Liveness and `ENABLED` are out of the prover's
reach: the five liveness properties (`EventuallyIndexed`, `SweepsTryTheirPage`, `UnlocksAreAnswered`,
`EditsAreReported`, `NothingWaitsForever`) stay with TLC.

## 5. Findings

Twelve disagreements between documents and code have a configuration beside the modules with the documented rule as its
property; TLC finds each violated (`tlc -config MCX.cfg MODULE`). A configuration for several rules checks one at a time,
the others are commented out. They are not among the runs of PROJECT.json, which hold:

| configuration, and the module or the property | documented | what the code does |
|---|---|---|
| `MCUpdaters`, `MCScoutOffContracts` | `contracts/register/src/lib.rs:623-633`: "Any address in the authorized-updaters allowlist [...] may call this" | the loop (`:665`) calls `require_auth` on the first entry and breaks: only the first listed contract can raise a level. `deploy.sh:74-75` lists PROGRESS, then CONNECTION, so `log_trial_offer` fails there; the test of two updaters mocks all authorizations |
| `MCAdminMultiSigDocs`: `NoSignatureCountedTwice` | `adminMultiSig.ts:364`: "The same wallet cannot count twice" | `proposeAction` (`:344`) increments the count whether or not its signature was inserted; a proposer who approves in between is counted twice |
| `MCAdminMultiSigDocs`: `RunsHaveQuorum` | `adminMultiSig.ts:363-366`: each signer must be a distinct admin wallet, and the operation runs once the threshold is reached | the same race: the 503 of `timeout.ts` is sent while the proposal still runs, so its proposer can approve between the insertion of the row and `:344`; one wallet then makes two of two and the operation runs with a single signature |
| `MCAdminMultiSigDocs`: `RunsExactlyOnce` | `adminMultiSig.ts:365-366`: "the privileged on-chain operation runs exactly once" | the count is reread, the status is not (`:460`): two approvers at the threshold both run it |
| `MCIdempotencyDocs`: `KeySubmitsOnce` | `routes/scout.ts:188-189`: "duplicate requests with the same key never submit a second blockchain transaction" | the 503 of `timeout.ts:41` deletes the pending key while the handler goes on; the retry submits again |
| `MCIdempotencyDocs`: `ReplaysMatchRequest` | `idempotency.ts:27-34`: a different request "is rejected with 409" | a request that loses the claim is served the winner's answer without the comparison (`:179`) |
| `MCSideEffects`, `MCIndexer` | `indexer.ts:454-458`: "a mid-batch failure just gets safely reprocessed on the next poll" | the row is inserted first; the next poll takes the event for a duplicate (`:577`) and its side effects are lost |
| `MCStaleLocks`, `MCWebhooks`: `DueLettersAreTried` | `docs/background-jobs.md:118-119`: the job re-attempts "delivery of pending dead letters older than 10 minutes" | even where the job is started (`StartedSpec`), a sweep reads the newest 200 rows of any status (`webhookDeadLetterJob.ts:89`), and replayed rows stay in the table: older pending letters behind a full page are passed over for ever |
| `MCStaleLocks`, `MCWebhooks`: `StaleLocksAreRecovered` | `webhookDeadLetterJob.ts:106`: "Recover stale locks from crashed workers" | the recovery walks the eligible rows, which are pending, and skips pending rows: a claimed row stays `in_progress` for ever |
| `MCSettlementDocs`: `CancelledOffersAreTerminal` | `docs/tier-promotion.md:213`: cancelled offers are terminal | `respondToTrialOffer` (`trialOffers.ts:56`) updates without looking at the status and overwrites a cancellation that came after the handler's read |
| `MCSettlementDocs`: `FlagIsCleared` | `adminFeesController.ts:66-69`: the flag is "cleared after the call settles" | the confirmation is polled without a bound (`stellarWithdrawals.ts:176`): a transaction that never appears keeps the flag up |
| `MCAuditSafety`: `OnlyEditsAreReported` | `docs/audit-log.md:326-329`: "If retention/archival is introduced later, seed the checkpoint from the archive boundary" | retention was introduced; a full run still starts from the genesis hash (`auditChainVerifier.ts:211`), takes the first row after an archive for tampered, reports it and does not reach the rows after it; the next runs are full again |

Divergences that no configuration states:

- Contracts and indexer. A trial offer sets level 3 in the database and the next indexed approval lowers it again, against `docs/tier-promotion.md:89-90` ("Tier can only increase"); an approved milestone comes back as pending when a rollback delivers its submission again, which is why `ApprovedStaysApproved` excepts rollbacks; a retry of a parked submission (`indexer.ts:831-836`) applies it whether or not it inserted the row, so beside a poll that is inserting the same event after a deployment it can set an approved milestone back, which is why the property excepts parked events; an event of an unknown type that is retried after a deployment does not count, because its row keeps the old type; a cursor reset during a poll is overwritten at its end; the finality margin is documented (`.env.example:579-581`) as ledgers held back from the tip, while the code holds none back and reads the margin again; `close_connection` documents "only the scout or admin may call" and always refuses the admin; `filter_players_page` walks `PlayerList`, which `register_player` no longer writes, so on a fresh deployment it is empty; the lease of a pending key can be re-claimed according to the middleware's comment, but a retry finds the pending row first and waits instead.
- Multi-signature. A failed operation goes back to pending "so an operator can retry" (`adminMultiSig.ts`, near line
  447), but a wallet that has signed is refused as a duplicate: when all have signed nobody can.
- Circuit breaker. Half-open admits every caller, though `docs/webhooks.md:631-632` and `circuitBreaker.ts:10` speak of
  a single probe.
- Webhooks. A sweep reads the subscriptions once, so one suspended meanwhile still receives
  (`docs/webhooks.md:637-638`); overlapping sweeps can exceed `MAX_AUTO_RETRIES`, and a requeue claims nothing and
  writes back the attempts it had read plus three; the header of the job and `docs/background-jobs.md:120` say a success deletes the row, the code marks
  it replayed; `dispatchEventWebhook` ignores the filter of event
  types (`docs/data-model.md:69`).
- Settlement. `createTrialOffer` sets no expiry (`docs/tier-promotion.md:173`); the fallback for an offer whose row is
  missing matches any offer of the player; cancelling ends only the latest subscription row, and renewing a row that was
  cancelled meanwhile leaves a paid renewal without a live row; the administrator's action does not take the flag of the
  two endpoints, and the first version records no withdrawal; after `NETWORK_ERROR` the flag is free while the
  transaction may still be included.
- Player token. Payouts are kept per player and page, not per transfer: the next transfer overwrites what was not
  claimed (`lib.rs:566-571`). A purchase by a holder of a later page between two pages can have a page refused
  for ever; a page processed before it has holders is never paid.
- Audit. A full run over an emptied table sets the kept progress back to the beginning. `GET /audit/verify` answers
  "tampered" to any failure of its snapshot (`auditVerify.ts:69-74`), a database error included, and reads the archive
  of the latest checkpoint only: a damaged earlier one goes unnoticed.
- Pins. "Only the instance that succeeds the INSERT proceeds to upload [...] no duplicate upload occurs"
  (`ipfs.ts:24-41`, and "exactly one Pinata API call", `:177-178`), but a loser reads the CID and the lock in two
  statements (`:245`, `:251`): when the winner resolves the row in between, the loser sees neither and uploads
  again; a loser past 30 seconds uploads and deletes the winner's row; the retry job uploads lock rows too. The
  winner's upload carries the abort signal of its own client's request, so a client that hangs up fails all that wait in
  the process. The reconciliation looks uploads up by a `hash` key that no upload sets. If the insert into
  the queue fails, the lock's row, the only copy left, is deleted all the same (`unqueued` in the model).
- Reindexing. An RPC error makes a batch look empty (`eventBatchProcessor.ts:150`) and the job counts its ledgers as
  processed; so does a response that is cut before the batch ends (`getEvents` is not asked for the next page). A reindex
  then moves the cursor past what is missing, and so does one that begins beyond the next poll, although "the indexer
  resumes from `toLedger + 1`" (`docs/runbook.md:134-135`) is written as if nothing were before it. A
  rollback in a poll that another poll has overtaken, or beside a job, leaves rows missing below the cursor. These are
  the exceptions (`missed`, `ahead`, `disturbed`) in the properties of `Backfill`, which hold otherwise. Rows are
  inserted without side effects, so later polls take the events for duplicates; live polls are not paused
  (`docs/reindexing.md:208`); `docs/runbook.md:154-156` says a replay repairs tiers.

## 6. Not modelled

`upgrade`, storage time-to-live and event emission of the contracts; threshold 1 of the multi-signature; the
effects of overlapping polls on the derived tables (`Backfill` has their effects on events and cursor) and the dispatch of webhooks from it (`Webhooks` begins where
an event has been handed over); the delivery history, alerts and signatures of webhooks; the tables other than the
audit log that retention deletes, each in one transaction; the side table of personal data and the export of
the audit log; `pinFile`, unpinning and gateways. Authentication, rate limits, caches,
streaming and the tier divergence job keep single rows, counters or caches with short handlers. The largest files of
the repository by far are generated or declarative: the typed client (`clients/typescript/src/schema.ts`), the
configuration, metrics, routes with their OpenAPI comments, GraphQL types. They hold no behaviour to model, which is
why the map covers a small share of the lines.

## 7. Plan

1. Overlapping polls with side effects.
2. Authentication (challenge, refresh, revocation) and the field re-encryption job.
3. Compositions: `Idempotency` over `Settlement`; `Indexer` handing events to `Webhooks`.
