------------------------- MODULE AuditVerifierProofs -------------------------
(***************************************************************************)
(* The audit log, its archives and its verification, for any number of     *)
(* replicas and verifiers and any batches: the history is complete, the    *)
(* administrator's check is exact, and the progress that the verification  *)
(* keeps is genuine.                                                       *)
(***************************************************************************)
EXTENDS AuditVerifier, FiniteSetTheorems, SequenceTheorems,
        WellFoundedInduction, TLAPS

Hash == Seq(Nat)
Row == [id : Nat, content : Nat, prev : Hash, hash : Hash]

(* Event n as it was logged, and the states its row may be in.             *)
Logged(n) == [id |-> n, content |-> n, prev |-> Genuine(n - 1), hash |-> Genuine(n)]
RowsOf(n) == {Logged(n), [Logged(n) EXCEPT !.content = Edited]}

(* The live rows are the last of the events.                               *)
Archived == lastId - Len(auditLog)
LogFollows ==
    /\ auditLog \in Seq(Row)
    /\ lastId \in Nat
    /\ Archived \in Nat
    /\ \A i \in 1..Len(auditLog) : auditLog[i] \in RowsOf(Archived + i)

(* Rows as they were logged, that follow the events told by a hash.        *)
Intact(rows, previous) ==
    /\ rows \in Seq(Row) /\ rows # <<>>
    /\ previous \in Hash /\ previous = Genuine(Len(previous))
    /\ \A i \in 1..Len(rows) : rows[i] = Logged(Len(previous) + i)

CheckpointRow == [last_id : Nat, last_hash : Hash, previous_hash : Hash, rows : Seq(Row)]
IsArchive(c) ==
    /\ c \in CheckpointRow
    /\ Intact(c.rows, c.previous_hash)
    /\ c.last_id = Len(c.previous_hash) + Len(c.rows)
    /\ c.last_hash = Genuine(c.last_id)

(* The archives reach from the first event to where the live rows begin.   *)
ArchivesReach ==
    /\ \A c \in checkpoints :
          /\ IsArchive(c)
          /\ c.last_id <= Archived
          /\ c.previous_hash = <<>>
                \/ \E d \in checkpoints : d.last_id = Len(c.previous_hash)
    /\ Archived > 0 => \E c \in checkpoints : c.last_id = Archived

BatchState == [step : {"idle", "archived"}, rows : Seq(Row), previous : Hash]
BatchesIntact ==
    /\ retention \in [Replicas -> BatchState]
    /\ \A p \in Replicas : retention[p].step = "archived" =>
          Intact(retention[p].rows, retention[p].previous)

RunState == [step : {"idle", "walk", "report", "persist"}, mode : {"full", "incremental"},
             cursorId : Nat, prevHash : Hash, lastFullRun : {"never", "recent", "due"},
             batches : Int, brokenAt : Nat]
ProgressState == [lastId : Nat, lastHash : Hash, lastFullRun : {"never", "recent", "due"}]

(* A run that goes on has come to an event with its hash.                  *)
WalksGenuine ==
    /\ progress \in ProgressState
    /\ runs \in [Verifiers -> RunState]
    /\ \A v \in Verifiers : runs[v].step \in {"walk", "persist"} =>
          runs[v].prevHash = Genuine(runs[v].cursorId)

LogInv == LogFollows /\ ArchivesReach /\ BatchesIntact
IInv == LogInv /\ WalksGenuine /\ CheckpointIsGenuine

-----------------------------------------------------------------------------
(* What the hashes are.                                                    *)
LEMMA GenuineIsHash ==
    ASSUME NEW n \in Nat
    PROVE  /\ Genuine(n) \in Hash
           /\ Len(Genuine(n)) = n
           /\ \A i \in 1..n : Genuine(n)[i] = i
  <1>1. Genuine(n) \in [1..n -> Nat]
    BY DEF Genuine
  <1>2. Genuine(n) \in Hash
    BY <1>1, SeqDef DEF Hash
  <1>3. Len(Genuine(n)) \in Nat /\ DOMAIN Genuine(n) = 1..Len(Genuine(n))
    BY <1>2, LenProperties DEF Hash
  <1>4. DOMAIN Genuine(n) = 1..n
    BY <1>1
  <1>5. Len(Genuine(n)) = n
    <2>1. PICK m \in Nat : m = Len(Genuine(n))
      BY <1>3
    <2>2. \A i \in Nat : i \in 1..m <=> i \in 1..n
      BY <1>3, <1>4, <2>1
    <2>3. m \in 1..m <=> m \in 1..n
      BY <2>2
    <2>4. n \in 1..m <=> n \in 1..n
      BY <2>2
    <2> QED
      BY <2>1, <2>3, <2>4
  <1> QED
    BY <1>2, <1>5 DEF Genuine

LEMMA GenuineBegins == Genuine(0) = <<>>
  <1>1. Genuine(0) \in Seq(Nat) /\ Len(Genuine(0)) = 0
    BY GenuineIsHash DEF Hash
  <1> QED
    BY <1>1, EmptySeq

(* A hash is of as many events as it is long.                              *)
LEMMA GenuineDiffers ==
    ASSUME NEW m \in Nat, NEW n \in Nat, Genuine(m) = Genuine(n)
    PROVE  m = n
  BY GenuineIsHash

(* The chain goes on with its next event and no other.                     *)
LEMMA GenuineGoesOn ==
    ASSUME NEW n \in Nat, NEW x \in Nat
    PROVE  computeChainHash(x, Genuine(n)) = Genuine(n + 1) <=> x = n + 1
  <1> DEFINE longer == computeChainHash(x, Genuine(n))
  <1>1. /\ Genuine(n) \in Seq(Nat) /\ Len(Genuine(n)) = n
        /\ \A i \in 1..n : Genuine(n)[i] = i
    BY GenuineIsHash DEF Hash
  <1>2. /\ Genuine(n + 1) \in Seq(Nat) /\ Len(Genuine(n + 1)) = n + 1
        /\ \A i \in 1..(n + 1) : Genuine(n + 1)[i] = i
    BY GenuineIsHash DEF Hash
  <1>3. /\ longer \in Seq(Nat) /\ Len(longer) = n + 1
        /\ \A i \in 1..n : longer[i] = i
        /\ longer[n + 1] = x
    BY <1>1, AppendProperties DEF computeChainHash
  <1>4. ASSUME x = n + 1 PROVE longer = Genuine(n + 1)
    <2>1. \A i \in 1..Len(longer) : longer[i] = Genuine(n + 1)[i]
      BY <1>2, <1>3, <1>4
    <2> HIDE DEF longer
    <2> QED
      BY <2>1, <1>2, <1>3, SeqEqual
  <1> HIDE DEF longer
  <1>5. longer = Genuine(n + 1) => x = n + 1
    BY <1>2, <1>3
  <1> QED
    BY <1>4, <1>5 DEF longer

-----------------------------------------------------------------------------
(* What a row of event n is.                                               *)
LEMMA RowFacts ==
    ASSUME NEW n \in Nat \ {0}, NEW row \in RowsOf(n)
    PROVE  /\ row \in Row
           /\ row.id = n /\ row.prev = Genuine(n - 1) /\ row.hash = Genuine(n)
           /\ row.content = Edited \/ row = Logged(n)
           /\ row = Logged(n) => row.content = n /\ row.content # Edited
           /\ row.content \in Nat
           /\ [row EXCEPT !.content = Edited] \in RowsOf(n)
  <1>1. Genuine(n) \in Hash /\ Genuine(n - 1) \in Hash
    BY GenuineIsHash
  <1>2. Logged(n) \in Row
    BY <1>1 DEF Logged, Row
  <1>3. [Logged(n) EXCEPT !.content = Edited] \in Row
    BY <1>2 DEF Edited, Row
  <1>4. row = Logged(n) \/ row = [Logged(n) EXCEPT !.content = Edited]
    BY DEF RowsOf
  <1>5. [row EXCEPT !.content = Edited] = [Logged(n) EXCEPT !.content = Edited]
    BY <1>4 DEF Logged
  <1> QED
    BY <1>2, <1>3, <1>4, <1>5 DEF Logged, Row, RowsOf, Edited

LEMMA LoggedIsRow == ASSUME NEW n PROVE Logged(n) \in RowsOf(n)
  BY DEF RowsOf

(* Of rows that follow the events told by a hash, the walk finds just the  *)
(* edited ones.                                                            *)
LEMMA WalkFindsEdits ==
    ASSUME NEW rows \in Seq(Row), NEW b \in Nat,
           \A i \in 1..Len(rows) : rows[i] \in RowsOf(b + i)
    PROVE  BrokenLinks(rows, Genuine(b)) = {i \in 1..Len(rows) : rows[i].content = Edited}
  <1> DEFINE expected(i) == LastHash(SubSeq(rows, 1, i - 1), Genuine(b))
  <1>0. Len(rows) \in Nat
    BY LenProperties
  <1>1. ASSUME NEW i \in 1..Len(rows)
        PROVE  expected(i) = Genuine(b + i - 1)
    <2> DEFINE walked == SubSeq(rows, 1, i - 1)
    <2>1. \A j \in 1..(i - 1) : rows[j] \in Row
      BY <1>0, RowFacts
    <2>2. /\ walked \in Seq(Row)
          /\ Len(walked) = IF 1 <= i - 1 THEN i - 1 ELSE 0
          /\ \A j \in 1..(i - 1) : walked[j] = rows[j]
      BY <1>0, <2>1, SubSeqProperties
    <2>3. CASE i = 1
      <3>1. walked = <<>>
        BY <2>2, <2>3, EmptySeq
      <3> QED
        BY <3>1, <2>3 DEF LastHash
    <2>4. CASE i # 1
      <3>1. Len(walked) = i - 1 /\ i - 1 \in 1..Len(rows) /\ i - 1 \in 1..(i - 1)
        BY <1>0, <2>2, <2>4
      <3> HIDE DEF walked
      <3>2. walked # <<>>
        BY <1>0, <3>1, EmptySeq
      <3>3. expected(i) = rows[i - 1].hash
        BY <2>2, <3>1, <3>2 DEF LastHash, walked
      <3>4. PICK n \in Nat \ {0} : n = b + (i - 1)
        BY <1>0, <2>4
      <3>5. rows[i - 1] \in RowsOf(n)
        BY <3>1, <3>4
      <3>6. rows[i - 1].hash = Genuine(n)
        BY <3>5, RowFacts
      <3>7. n = b + i - 1
        BY <1>0, <3>4
      <3> QED
        BY <3>3, <3>6, <3>7
    <2> QED
      BY <2>3, <2>4
  <1> HIDE DEF expected
  <1>2. ASSUME NEW i \in 1..Len(rows)
        PROVE  /\ rows[i].prev = expected(i)
               /\ rows[i].hash = computeChainHash(rows[i].content, expected(i))
                     <=> rows[i].content # Edited
    <2>1. b + i \in Nat \ {0} /\ b + i - 1 \in Nat /\ b + i = (b + i - 1) + 1
      BY <1>0
    <2>2. /\ rows[i].prev = Genuine(b + i - 1) /\ rows[i].hash = Genuine(b + i)
          /\ rows[i].content \in Nat
          /\ rows[i].content = Edited \/ rows[i].content = b + i
      <3>1. PICK n \in Nat \ {0} : n = b + i
        BY <2>1
      <3>2. rows[i] \in RowsOf(n)
        BY <3>1
      <3>3. n - 1 = b + i - 1
        BY <1>0, <3>1
      <3>4. /\ rows[i].prev = Genuine(n - 1) /\ rows[i].hash = Genuine(n)
            /\ rows[i].content \in Nat
            /\ rows[i].content = Edited \/ rows[i].content = n
        BY <3>2, RowFacts
      <3> QED
        BY <3>1, <3>3, <3>4
    <2>3. computeChainHash(rows[i].content, Genuine(b + i - 1)) = Genuine(b + i)
             <=> rows[i].content = b + i
      BY <2>1, <2>2, GenuineGoesOn
    <2> QED
      BY <1>1, <2>1, <2>2, <2>3 DEF Edited
  <1> QED
    BY <1>2 DEF BrokenLinks, expected

-----------------------------------------------------------------------------
(* The live rows, one by one.                                              *)
LEMMA LiveRows ==
    ASSUME LogFollows
    PROVE  /\ Len(auditLog) \in Nat /\ lastId = Archived + Len(auditLog)
           /\ \A i \in 1..Len(auditLog) :
                 /\ auditLog[i] \in Row
                 /\ Archived + i \in Nat \ {0}
                 /\ auditLog[i].id = Archived + i
                 /\ auditLog[i].hash = Genuine(Archived + i)
                 /\ auditLog[i].content = Edited \/ auditLog[i] = Logged(Archived + i)
                 /\ auditLog[i].content # Edited => auditLog[i] = Logged(Archived + i)
                 /\ [auditLog[i] EXCEPT !.content = Edited] \in RowsOf(Archived + i)
  <1>1. Len(auditLog) \in Nat
    BY LenProperties DEF LogFollows
  <1>2. lastId = Archived + Len(auditLog)
    BY <1>1 DEF LogFollows, Archived
  <1>3. ASSUME NEW i \in 1..Len(auditLog)
        PROVE  /\ auditLog[i] \in Row
               /\ Archived + i \in Nat \ {0}
               /\ auditLog[i].id = Archived + i
               /\ auditLog[i].hash = Genuine(Archived + i)
               /\ auditLog[i].content = Edited \/ auditLog[i] = Logged(Archived + i)
               /\ auditLog[i].content # Edited => auditLog[i] = Logged(Archived + i)
               /\ [auditLog[i] EXCEPT !.content = Edited] \in RowsOf(Archived + i)
    <2>1. Archived + i \in Nat \ {0}
      BY <1>1 DEF LogFollows
    <2>2. auditLog[i] \in RowsOf(Archived + i)
      BY DEF LogFollows
    <2> QED
      BY <2>1, <2>2, RowFacts
  <1> QED
    BY <1>1, <1>2, <1>3

LEMMA ArchiveIsLong ==
    ASSUME NEW c, IsArchive(c)
    PROVE  /\ c.last_id \in Nat \ {0}
           /\ Len(c.previous_hash) \in Nat
           /\ Len(c.rows) \in Nat \ {0}
  <1>1. /\ c.rows \in Seq(Row) /\ c.rows # <<>>
        /\ c.previous_hash \in Seq(Nat)
        /\ c.last_id = Len(c.previous_hash) + Len(c.rows)
    BY DEF IsArchive, Intact, Hash
  <1>2. Len(c.rows) \in Nat \ {0} /\ Len(c.previous_hash) \in Nat
    BY <1>1, EmptySeq, LenProperties
  <1>3. ASSUME NEW m \in Nat, NEW n \in Nat \ {0} PROVE m + n \in Nat \ {0}
    OBVIOUS
  <1>4. Len(c.previous_hash) + Len(c.rows) \in Nat \ {0}
    BY <1>2, <1>3
  <1> QED
    BY <1>1, <1>2, <1>4

(* The latest checkpoint tells of the archived events.                     *)
LEMMA LatestIsGenuine ==
    ASSUME LogFollows, ArchivesReach
    PROVE  latestAuditCheckpoint = Genuine(Archived)
  <1>1. CASE checkpoints = {}
    <2>1. Archived = 0
      BY <1>1 DEF ArchivesReach, LogFollows
    <2> QED
      BY <1>1, <2>1, GenuineBegins DEF latestAuditCheckpoint, GENESIS_HASH
  <1>2. CASE checkpoints # {}
    <2>1. \A c \in checkpoints : /\ c.last_id \in Nat \ {0} /\ c.last_id <= Archived
                                 /\ c.last_hash = Genuine(c.last_id)
      BY ArchiveIsLong DEF ArchivesReach, IsArchive
    <2>2. Archived > 0
      BY <1>2, <2>1 DEF LogFollows
    <2>3. PICK c \in checkpoints : c.last_id = Archived
      BY <2>2 DEF ArchivesReach
    <2>4. IsLatest(c)
      BY <2>1, <2>3 DEF IsLatest
    <2>5. \A d \in checkpoints : IsLatest(d) => d.last_id = Archived
      BY <2>1, <2>3 DEF LogFollows, IsLatest
    <2>6. (CHOOSE d \in checkpoints : IsLatest(d)).last_hash = Genuine(Archived)
      BY <2>1, <2>3, <2>4, <2>5
    <2> QED
      BY <1>2, <2>6 DEF latestAuditCheckpoint
  <1> QED
    BY <1>1, <1>2

(* An append goes on where the chain has come to.                          *)
LEMMA LastIsGenuine ==
    ASSUME LogFollows, ArchivesReach
    PROVE  LastHash(auditLog, latestAuditCheckpoint) = Genuine(lastId)
  <1>1. CASE auditLog = <<>>
    <2>1. Len(auditLog) = 0
      BY <1>1, EmptySeq
    <2>2. Archived = lastId
      BY <2>1 DEF Archived, LogFollows
    <2> QED
      BY <1>1, <2>2, LatestIsGenuine DEF LastHash
  <1>2. CASE auditLog # <<>>
    <2>1. Len(auditLog) \in 1..Len(auditLog)
      BY <1>2, EmptySeq DEF LogFollows
    <2> QED
      BY <1>2, <2>1, LiveRows DEF LastHash
  <1> QED
    BY <1>1, <1>2

-----------------------------------------------------------------------------
(* What the operations do to the log.                                      *)
LEMMA InsertExtends ==
    ASSUME LogFollows, ArchivesReach, insertAuditLog
    PROVE  LogFollows' /\ Archived' = Archived
  <1> DEFINE row == [id |-> lastId + 1, content |-> lastId + 1, prev |-> Genuine(lastId),
                     hash |-> computeChainHash(lastId + 1, Genuine(lastId))]
  <1>1. lastId \in Nat /\ lastId + 1 \in Nat \ {0} /\ lastId + 1 - 1 = lastId
    BY DEF LogFollows
  <1>2. computeChainHash(lastId + 1, Genuine(lastId)) = Genuine(lastId + 1)
    BY <1>1, GenuineGoesOn
  <1>3. row = Logged(lastId + 1)
    BY <1>1, <1>2 DEF Logged
  <1>4. row \in RowsOf(lastId + 1) /\ row \in Row
    <2> HIDE DEF row
    <2>1. PICK n \in Nat \ {0} : n = lastId + 1
      BY <1>1
    <2>2. row \in RowsOf(n)
      BY <1>3, <2>1, LoggedIsRow
    <2> QED
      BY <2>1, <2>2, RowFacts
  <1>5. auditLog' = Append(auditLog, row) /\ lastId' = lastId + 1
    BY LastIsGenuine DEF insertAuditLog
  <1> HIDE DEF row
  <1>6. /\ auditLog' \in Seq(Row)
        /\ Len(auditLog') = Len(auditLog) + 1
        /\ \A i \in 1..Len(auditLog) : auditLog'[i] = auditLog[i]
        /\ auditLog'[Len(auditLog) + 1] = row
    BY <1>4, <1>5, AppendProperties DEF LogFollows
  <1>7. Archived' = Archived
    BY <1>1, <1>5, <1>6, LiveRows DEF Archived
  <1>8. ASSUME NEW i \in 1..Len(auditLog')
        PROVE  auditLog'[i] \in RowsOf(Archived + i)
    <2>1. CASE i \in 1..Len(auditLog)
      BY <1>6, <2>1 DEF LogFollows
    <2>2. CASE i = Len(auditLog) + 1
      <3>1. Archived + i = lastId + 1
        BY <2>2, LiveRows DEF LogFollows
      <3> QED
        BY <1>4, <1>6, <2>2, <3>1
    <2> QED
      BY <1>6, <2>1, <2>2, LiveRows
  <1> QED
    BY <1>1, <1>5, <1>6, <1>7, <1>8 DEF LogFollows

LEMMA EditStays ==
    ASSUME LogFollows, EditRow
    PROVE  LogFollows' /\ Archived' = Archived
  <1>1. PICK i \in 1..Len(auditLog) : auditLog' = [auditLog EXCEPT ![i].content = Edited]
    BY DEF EditRow
  <1> DEFINE row == [auditLog[i] EXCEPT !.content = Edited]
  <1>2. Archived + i \in Nat \ {0} /\ row \in RowsOf(Archived + i)
    BY <1>1, LiveRows
  <1>3. row \in Row
    BY <1>2, RowFacts
  <1>4. auditLog' = [auditLog EXCEPT ![i] = row]
    BY <1>1
  <1> HIDE DEF row
  <1>5. /\ auditLog' \in Seq(Row)
        /\ Len(auditLog') = Len(auditLog)
        /\ \A j \in 1..Len(auditLog) : auditLog'[j] = IF j = i THEN row ELSE auditLog[j]
    <2> DEFINE edited == [auditLog EXCEPT ![i] = row]
    <2>1. auditLog \in Seq(Row)
      BY DEF LogFollows
    <2>2. /\ edited \in Seq(Row)
          /\ Len(edited) = Len(auditLog)
          /\ \A j \in 1..Len(auditLog) : edited[j] = IF j = i THEN row ELSE auditLog[j]
      BY <1>3, <2>1, ExceptSeq
    <2>3. auditLog' = edited
      BY <1>4
    <2> HIDE DEF edited
    <2> QED
      BY <2>2, <2>3
  <1>6. lastId' = lastId
    BY DEF EditRow
  <1>7. Archived' = Archived
    BY <1>5, <1>6 DEF Archived
  <1>8. \A j \in 1..Len(auditLog) : auditLog'[j] \in RowsOf(Archived + j)
    BY <1>2, <1>5 DEF LogFollows
  <1> QED
    BY <1>5, <1>6, <1>7, <1>8 DEF LogFollows

LEMMA PrefixFacts ==
    ASSUME LogFollows, NEW rows \in Prefixes
    PROVE  /\ rows \in Seq(Row) /\ rows # <<>>
           /\ Len(rows) \in 1..Len(auditLog)
           /\ \A i \in 1..Len(rows) : rows[i] = auditLog[i]
  <1>1. Len(auditLog) \in Nat /\ auditLog \in Seq(Row)
    BY LiveRows DEF LogFollows
  <1>2. PICK n \in 1..Len(auditLog) : rows = SubSeq(auditLog, 1, n)
    BY <1>1, AuditLogAssumption DEF Prefixes
  <1>3. \A i \in 1..n : auditLog[i] \in Row
    BY <1>1, <1>2, LiveRows
  <1>4. /\ rows \in Seq(Row) /\ Len(rows) = n
        /\ \A i \in 1..n : rows[i] = auditLog[i]
    BY <1>1, <1>2, <1>3, SubSeqProperties
  <1>5. rows # <<>>
    BY <1>4, EmptySeq
  <1> QED
    BY <1>4, <1>5

(* A batch that the job archives is as it was logged.                      *)
LEMMA BatchIsIntact ==
    ASSUME LogFollows, ArchivesReach, NEW rows \in Prefixes,
           archiveAudit(rows, latestAuditCheckpoint)
    PROVE  Intact(rows, latestAuditCheckpoint)
  <1>1. latestAuditCheckpoint = Genuine(Archived) /\ Archived \in Nat
    BY LatestIsGenuine DEF LogFollows
  <1>2. Genuine(Archived) \in Hash /\ Len(Genuine(Archived)) = Archived
    BY <1>1, GenuineIsHash
  <1>3. /\ rows \in Seq(Row) /\ rows # <<>>
        /\ Len(rows) \in 1..Len(auditLog)
        /\ \A i \in 1..Len(rows) : rows[i] = auditLog[i]
    BY PrefixFacts
  <1>4. \A i \in 1..Len(rows) : i \in 1..Len(auditLog)
    BY <1>3, LiveRows
  <1>5. \A i \in 1..Len(rows) : rows[i] \in RowsOf(Archived + i)
    BY <1>3, <1>4 DEF LogFollows
  <1>6. {i \in 1..Len(rows) : rows[i].content = Edited} = {}
    BY <1>1, <1>3, <1>5, WalkFindsEdits DEF archiveAudit
  <1>7. \A i \in 1..Len(rows) : rows[i] = Logged(Archived + i)
    BY <1>3, <1>4, <1>6, LiveRows
  <1> QED
    BY <1>1, <1>2, <1>3, <1>7 DEF Intact

LEMMA PrunePrefix ==
    ASSUME LogFollows, ArchivesReach, BatchesIntact, NEW p \in Replicas,
           retention[p].step = "archived", retention[p].rows \in Prefixes,
           latestAuditCheckpoint = retention[p].previous,
           checkpoints' = checkpoints \cup {Checkpoint(p)},
           DeletePrefix(Len(retention[p].rows)), lastId' = lastId
    PROVE  LogFollows' /\ ArchivesReach'
  <1> DEFINE rows == retention[p].rows
             previous == retention[p].previous
             n == Len(rows)
             c == Checkpoint(p)
  <1>1. /\ Len(auditLog) \in Nat /\ auditLog \in Seq(Row) /\ Archived \in Nat
        /\ lastId = Archived + Len(auditLog)
    BY LiveRows DEF LogFollows
  <1>2. /\ rows \in Seq(Row) /\ rows # <<>> /\ n \in 1..Len(auditLog)
        /\ \A i \in 1..n : rows[i] = auditLog[i]
    BY PrefixFacts
  <1>3. /\ previous = Genuine(Archived) /\ Len(previous) = Archived
        /\ previous \in Hash
    BY <1>1, LatestIsGenuine, GenuineIsHash
  <1>4. Intact(rows, previous)
    BY DEF BatchesIntact
  <1>5. auditLog' = SubSeq(auditLog, n + 1, Len(auditLog))
    BY DEF DeletePrefix
  <1> HIDE DEF n
  <1>6. \A i \in (n + 1)..Len(auditLog) : auditLog[i] \in Row
    BY <1>1, <1>2, LiveRows
  <1>7. /\ auditLog' \in Seq(Row)
        /\ Len(auditLog') = Len(auditLog) - n
        /\ \A i \in 1..(Len(auditLog) - n) : auditLog'[i] = auditLog[n + i]
    <2>1. n + 1 \in Int /\ Len(auditLog) \in Int
      BY <1>1, <1>2
    <2>2. /\ auditLog' \in Seq(Row)
          /\ Len(auditLog') = IF n + 1 <= Len(auditLog) THEN Len(auditLog) - (n + 1) + 1 ELSE 0
          /\ \A i \in 1..(Len(auditLog) - (n + 1) + 1) : auditLog'[i] = auditLog[n + 1 + i - 1]
      BY <1>5, <1>6, <2>1, SubSeqProperties
    <2>3. Len(auditLog) - (n + 1) + 1 = Len(auditLog) - n
      BY <1>1, <1>2
    <2>4. \A i \in 1..(Len(auditLog) - n) : n + 1 + i - 1 = n + i
      BY <1>1, <1>2
    <2>5. ASSUME NEW i \in 1..(Len(auditLog) - n) PROVE auditLog'[i] = auditLog[n + i]
      <3>1. auditLog'[i] = auditLog[n + 1 + i - 1]
        BY <2>2, <2>3
      <3> QED
        BY <2>4, <3>1
    <2>6. Len(auditLog') = Len(auditLog) - n
      <3>1. ASSUME NEW a \in Nat, NEW b \in 1..a
            PROVE  (IF b + 1 <= a THEN a - (b + 1) + 1 ELSE 0) = a - b
        OBVIOUS
      <3>2. (IF n + 1 <= Len(auditLog) THEN Len(auditLog) - (n + 1) + 1 ELSE 0)
               = Len(auditLog) - n
        BY <1>1, <1>2, <3>1
      <3> QED
        BY <2>2, <3>2
    <2> QED
      BY <2>2, <2>5, <2>6
  <1>8. Archived' = Archived + n
    BY <1>1, <1>2, <1>7 DEF Archived
  <1>9. LogFollows'
    <2>1. ASSUME NEW i \in 1..Len(auditLog')
          PROVE  auditLog'[i] \in RowsOf(Archived' + i)
      <3>1. n + i \in 1..Len(auditLog) /\ Archived' + i = Archived + (n + i)
        BY <1>1, <1>2, <1>7, <1>8
      <3>2. auditLog'[i] = auditLog[n + i]
        BY <1>7
      <3>3. auditLog[n + i] \in RowsOf(Archived + (n + i))
        BY <3>1 DEF LogFollows
      <3> QED
        BY <3>1, <3>2, <3>3
    <2>2. lastId' \in Nat /\ Archived' \in Nat
      BY <1>1, <1>2, <1>8
    <2> QED
      BY <1>7, <2>1, <2>2 DEF LogFollows
  <1>10. IsArchive(c) /\ c.last_id = Archived + n /\ c.previous_hash = previous
    <2>1. n \in 1..Len(rows) /\ n = Len(rows)
      BY <1>2 DEF n
    <2>2. rows[n] = Logged(Archived + n)
      BY <1>3, <1>4, <2>1 DEF Intact
    <2>3. c = [last_id |-> Archived + n, last_hash |-> Genuine(Archived + n),
               previous_hash |-> previous, rows |-> rows]
      BY <1>2, <2>1, <2>2 DEF Checkpoint, LastHash, Logged
    <2>4. Archived + n \in Nat
      BY <1>1, <1>2
    <2>5. Genuine(Archived + n) \in Hash
      BY <2>4, GenuineIsHash
    <2> HIDE DEF c, rows, previous
    <2>6. c \in CheckpointRow
      BY <1>2, <1>3, <2>3, <2>4, <2>5 DEF CheckpointRow
    <2> QED
      BY <1>3, <1>4, <2>1, <2>3, <2>6 DEF IsArchive
  <1> HIDE DEF c, rows, previous
  <1>11. checkpoints' = checkpoints \cup {c}
    BY DEF c
  <1>12. ASSUME NEW d \in checkpoints
         PROVE  /\ IsArchive(d) /\ d.last_id <= Archived'
                /\ d.previous_hash = <<>>
                      \/ \E e \in checkpoints' : e.last_id = Len(d.previous_hash)
    <2>1. IsArchive(d) /\ d.last_id <= Archived /\ d.last_id \in Nat
      BY ArchiveIsLong DEF ArchivesReach
    <2>2. d.last_id <= Archived'
      BY <1>1, <1>2, <1>8, <2>1
    <2> QED
      BY <1>11, <2>1, <2>2 DEF ArchivesReach
  <1>13. c.previous_hash = <<>> \/ \E e \in checkpoints' : e.last_id = Len(c.previous_hash)
    <2>1. CASE Archived = 0
      BY <1>3, <1>10, <2>1, GenuineBegins
    <2>2. CASE Archived > 0
      BY <1>3, <1>10, <1>11, <2>2 DEF ArchivesReach
    <2> QED
      BY <1>1, <2>1, <2>2
  <1>14. c.last_id <= Archived'
    BY <1>1, <1>2, <1>8, <1>10
  <1>15. \E e \in checkpoints' : e.last_id = Archived'
    BY <1>8, <1>10, <1>11
  <1>16. \A d \in checkpoints' :
            /\ IsArchive(d) /\ d.last_id <= Archived'
            /\ d.previous_hash = <<>>
                  \/ \E e \in checkpoints' : e.last_id = Len(d.previous_hash)
    BY <1>10, <1>11, <1>12, <1>13, <1>14
  <1> QED
    BY <1>9, <1>15, <1>16 DEF ArchivesReach

LEMMA PruneKeeps ==
    ASSUME LogInv, NEW p \in Replicas, pruneBatch(p)
    PROVE  LogInv'
  <1>1. retention[p].step = "archived" /\ lastId' = lastId
        /\ SetRetention(p, IdleRetention)
    BY DEF pruneBatch
  <1>2. BatchesIntact'
    <2>1. <<>> \in Seq(Row) /\ <<>> \in Hash
      BY EmptySeq DEF Hash
    <2>2. IdleRetention \in BatchState /\ IdleRetention.step = "idle"
      BY <2>1 DEF IdleRetention, BatchState, GENESIS_HASH
    <2> QED
      BY <1>1, <2>2 DEF LogInv, BatchesIntact, SetRetention
  <1>3. CASE /\ retention[p].rows \in Prefixes
             /\ latestAuditCheckpoint = retention[p].previous
             /\ checkpoints' = checkpoints \cup {Checkpoint(p)}
             /\ DeletePrefix(Len(retention[p].rows))
    BY <1>1, <1>2, <1>3, PrunePrefix DEF LogInv
  <1>4. CASE UNCHANGED <<auditLog, checkpoints>>
    BY <1>1, <1>2, <1>4 DEF LogInv, LogFollows, ArchivesReach, Archived
  <1> QED
    BY <1>3, <1>4 DEF pruneBatch

LEMMA SelectKeeps ==
    ASSUME LogInv, NEW p \in Replicas, selectBatch(p)
    PROVE  LogInv'
  <1>1. LogFollows' /\ ArchivesReach'
    BY DEF selectBatch, logVars, LogInv, LogFollows, ArchivesReach, Archived
  <1>2. PICK rows \in Prefixes :
           /\ archiveAudit(rows, latestAuditCheckpoint)
           /\ SetRetention(p, [step |-> "archived", rows |-> rows,
                               previous |-> latestAuditCheckpoint])
    BY DEF selectBatch
  <1>3. Intact(rows, latestAuditCheckpoint)
    BY <1>2, BatchIsIntact DEF LogInv
  <1> DEFINE batch == [step |-> "archived", rows |-> rows, previous |-> latestAuditCheckpoint]
  <1>4. batch \in BatchState /\ Intact(batch.rows, batch.previous)
    BY <1>3 DEF BatchState, Intact
  <1>5. retention' = [retention EXCEPT ![p] = batch]
    BY <1>2 DEF SetRetention
  <1> HIDE DEF batch
  <1>6. BatchesIntact'
    BY <1>4, <1>5 DEF LogInv, BatchesIntact
  <1> QED
    BY <1>1, <1>6 DEF LogInv

LEMMA FailureKeeps ==
    ASSUME LogInv, NEW p \in Replicas, RetentionFails(p)
    PROVE  LogInv'
  <1>1. LogFollows' /\ ArchivesReach'
    BY DEF RetentionFails, logVars, LogInv, LogFollows, ArchivesReach, Archived
  <1>2. <<>> \in Seq(Row) /\ <<>> \in Hash
    BY EmptySeq DEF Hash
  <1>3. IdleRetention \in BatchState /\ IdleRetention.step = "idle"
    BY <1>2 DEF IdleRetention, BatchState, GENESIS_HASH
  <1>4. BatchesIntact'
    BY <1>3 DEF RetentionFails, LogInv, BatchesIntact, SetRetention
  <1> QED
    BY <1>1, <1>4 DEF LogInv

(* An append or an edit, with what the job has selected and archived left  *)
(* alone.                                                                  *)
LEMMA WriteKeeps ==
    ASSUME LogInv, insertAuditLog \/ EditRow, UNCHANGED <<checkpoints, retention>>
    PROVE  LogInv'
  <1>1. LogFollows' /\ Archived' = Archived
    BY InsertExtends, EditStays DEF LogInv
  <1>2. ArchivesReach'
    BY <1>1 DEF LogInv, ArchivesReach
  <1>3. BatchesIntact'
    BY DEF LogInv, BatchesIntact
  <1> QED
    BY <1>1, <1>2, <1>3 DEF LogInv

LEMMA LogRests ==
    ASSUME LogInv, UNCHANGED auditVars
    PROVE  LogInv'
  BY DEF auditVars, LogInv, LogFollows, ArchivesReach, BatchesIntact, Archived

LEMMA LogBegins == Init => LogInv
  <1> SUFFICES ASSUME Init PROVE LogInv
    OBVIOUS
  <1>1. <<>> \in Seq(Row) /\ Len(<<>>) = 0 /\ <<>> \in Hash
    BY EmptySeq DEF Hash
  <1>2. /\ auditLog = <<>> /\ lastId = 0 /\ checkpoints = {}
        /\ retention = [p \in Replicas |-> IdleRetention]
    BY DEF Init, AuditInit
  <1>3. IdleRetention \in BatchState /\ IdleRetention.step = "idle"
    BY <1>1 DEF IdleRetention, BatchState, GENESIS_HASH
  <1>4. BatchesIntact
    BY <1>2, <1>3 DEF BatchesIntact
  <1>5. LogFollows
    BY <1>1, <1>2 DEF LogFollows, Archived
  <1>6. ArchivesReach
    BY <1>1, <1>2 DEF ArchivesReach, Archived
  <1> QED
    BY <1>4, <1>5, <1>6 DEF LogInv

LEMMA LogSteps == LogInv /\ [Next]_vars => LogInv'
  <1> SUFFICES ASSUME LogInv, [Next]_vars PROVE LogInv'
    OBVIOUS
  <1>1. CASE logAuditEvent
    BY <1>1, WriteKeeps DEF logAuditEvent
  <1>2. CASE EditRow
    BY <1>2, WriteKeeps DEF EditRow
  <1>3. ASSUME NEW p \in Replicas, RetentionStep(p) PROVE LogInv'
    BY <1>3, SelectKeeps, FailureKeeps, PruneKeeps DEF RetentionStep
  <1>4. ASSUME NEW v \in Verifiers, reportBreak(v) PROVE LogInv'
    <2>1. CASE insertAuditLog
      BY <1>4, <2>1, WriteKeeps DEF reportBreak
    <2>2. CASE UNCHANGED logVars
      BY <1>4, <2>2, LogRests DEF reportBreak, logVars, auditVars
    <2> QED
      BY <1>4, <2>1, <2>2 DEF reportBreak
  <1>5. CASE UNCHANGED auditVars
    BY <1>5, LogRests
  <1>6. ASSUME NEW v \in Verifiers,
               \/ StartRun(v) \/ runAuditChainVerification(v)
               \/ persistCheckpoint(v) \/ BreakOff(v)
        PROVE  UNCHANGED auditVars
    BY <1>6 DEF StartRun, runAuditChainVerification, persistCheckpoint, BreakOff
  <1>7. FullRunFallsDue => UNCHANGED auditVars
    BY DEF FullRunFallsDue
  <1>8. UNCHANGED vars => UNCHANGED auditVars
    BY DEF vars
  <1>9. CASE DamageCheckpoint
    BY <1>9 DEF DamageCheckpoint, logVars, LogInv, LogFollows, ArchivesReach,
                BatchesIntact, Archived
  <1> QED
    BY <1>1, <1>2, <1>3, <1>4, <1>5, <1>6, <1>7, <1>8, <1>9 DEF Next, VerifierStep

-----------------------------------------------------------------------------
(* What is logged is all there: the ids of the archives and of the live    *)
(* rows follow each other from the first event to the last, and what is    *)
(* archived is as it was logged (pruneBatch re-reads what it has archived  *)
(* before it deletes).                                                     *)
LEMMA CompleteInLog == LogInv => HistoryIsComplete
  <1> SUFFICES ASSUME LogInv PROVE HistoryIsComplete
    OBVIOUS
  <1>1. /\ Len(auditLog) \in Nat /\ lastId \in Nat /\ Archived \in Nat
        /\ Archived = lastId - Len(auditLog)
        /\ \A i \in 1..Len(auditLog) : auditLog[i].id = Archived + i
    BY LiveRows DEF LogInv, LogFollows, Archived
  <1>2. ASSUME NEW c \in checkpoints
        PROVE  /\ \A i \in 1..Len(c.rows) : c.rows[i].content = c.rows[i].id
               /\ c.last_hash = Genuine(c.last_id)
               /\ c.previous_hash = Genuine(c.rows[1].id - 1)
               /\ [i \in 1..Len(c.rows) |-> c.rows[i].id]
                     = [i \in 1..Len(c.rows) |-> c.rows[1].id + i - 1]
               /\ c.rows[1].id = 1 \/ \E d \in checkpoints : d.last_id = c.rows[1].id - 1
               /\ c.last_id <= Archived
    <2> DEFINE b == Len(c.previous_hash)
    <2>1. IsArchive(c) /\ c.last_id <= Archived
      BY DEF LogInv, ArchivesReach
    <2>2. b \in Nat /\ Len(c.rows) \in Nat \ {0}
      BY <2>1, ArchiveIsLong
    <2>3. /\ c.previous_hash = Genuine(b) /\ c.last_hash = Genuine(c.last_id)
          /\ \A i \in 1..Len(c.rows) : c.rows[i] = Logged(b + i)
      BY <2>1 DEF IsArchive, Intact
    <2>4. c.previous_hash = <<>> \/ \E d \in checkpoints : d.last_id = b
      BY DEF LogInv, ArchivesReach
    <2>5. c.previous_hash = <<>> => b = 0
      BY EmptySeq
    <2> HIDE DEF b
    <2>6. \A i \in 1..Len(c.rows) : c.rows[i].id = b + i /\ c.rows[i].content = b + i
      <3>1. \A n : Logged(n).id = n /\ Logged(n).content = n
        BY DEF Logged
      <3> QED
        BY <2>3, <3>1
    <2>7. c.rows[1].id = b + 1 /\ c.rows[1].id - 1 = b
      BY <2>2, <2>6
    <2>8. \A i \in 1..Len(c.rows) : c.rows[i].id = c.rows[1].id + i - 1
      BY <2>2, <2>6, <2>7
    <2>9. [i \in 1..Len(c.rows) |-> c.rows[i].id]
             = [i \in 1..Len(c.rows) |-> c.rows[1].id + i - 1]
      BY <2>8
    <2>10. c.rows[1].id = 1 \/ \E d \in checkpoints : d.last_id = c.rows[1].id - 1
      BY <2>4, <2>5, <2>7
    <2> QED
      BY <2>1, <2>3, <2>6, <2>7, <2>9, <2>10
  <1>3. Len(auditLog) < lastId => \E c \in checkpoints : c.last_id = lastId - Len(auditLog)
    BY <1>1 DEF LogInv, ArchivesReach
  <1> QED
    BY <1>1, <1>2, <1>3 DEF HistoryIsComplete

(* Theorem.  Whichever replicas archive and whatever is appended or edited *)
(* in between, nothing that was logged is lost or told twice               *)
(* (insertAuditLog, pruneBatch).                                           *)
THEOREM HistoryComplete == Spec => []HistoryIsComplete
  BY LogBegins, LogSteps, CompleteInLog, PTL DEF Spec

(* What a walk over n of the live rows reports: the edited ones, by ids    *)
(* that are not the one which stands for the checkpoint.                   *)
LEMMA ReportNamesEdits ==
    ASSUME LogInv, NEW n \in 0..Len(auditLog)
    PROVE  /\ {auditLog[i].id :
                  i \in {j \in BrokenLinks(auditLog, latestAuditCheckpoint) : j <= n}}
                = EditedIds \cap {auditLog[i].id : i \in 1..n}
           /\ CheckpointViolation \notin EditedIds
           /\ BrokenLinks(auditLog, latestAuditCheckpoint) = {} <=> EditedIds = {}
  <1>1. /\ Len(auditLog) \in Nat /\ Archived \in Nat /\ auditLog \in Seq(Row)
        /\ \A i \in 1..Len(auditLog) : auditLog[i] \in RowsOf(Archived + i)
        /\ \A i \in 1..Len(auditLog) : auditLog[i].id = Archived + i
    BY LiveRows DEF LogInv, LogFollows
  <1>2. latestAuditCheckpoint = Genuine(Archived)
    BY LatestIsGenuine DEF LogInv
  <1>3. BrokenLinks(auditLog, latestAuditCheckpoint)
           = {i \in 1..Len(auditLog) : auditLog[i].content = Edited}
    BY <1>1, <1>2, WalkFindsEdits
  <1> DEFINE at == {i \in 1..Len(auditLog) : auditLog[i].content = Edited}
             id(i) == auditLog[i].id
  <1>4. EditedIds = {id(i) : i \in at}
    BY DEF EditedIds
  <1>5. /\ at \subseteq 1..Len(auditLog) /\ 1..n \subseteq 1..Len(auditLog)
        /\ \A i \in at : i \in 1..n <=> i <= n
    BY <1>1
  <1>6. \A i, j \in 1..Len(auditLog) : id(i) = id(j) => i = j
    BY <1>1
  <1>7. \A i \in 1..Len(auditLog) : id(i) # CheckpointViolation
    BY <1>1 DEF CheckpointViolation
  <1> HIDE DEF at, id
  <1>8. {id(i) : i \in {j \in at : j <= n}} = {id(i) : i \in at} \cap {id(i) : i \in 1..n}
    BY <1>5, <1>6
  <1>9. CheckpointViolation \notin {id(i) : i \in at}
    BY <1>5, <1>7
  <1>10. at = {} <=> {id(i) : i \in at} = {}
    OBVIOUS
  <1> QED
    BY <1>3, <1>4, <1>8, <1>9, <1>10 DEF at, id

(* Archives and live rows do not overlap: that alone never refuses the     *)
(* snapshot.                                                               *)
LEMMA SnapshotTaken ==
    ASSUME LogInv, NEW readable \in BOOLEAN
    PROVE  auditSnapshot(readable)
              <=> readable /\ ~LatestIsDamaged("row") /\ ~LatestIsDamaged("archive")
  <1>1. \A c \in checkpoints : c.last_id \in Nat /\ c.last_id <= Archived
    BY ArchiveIsLong DEF LogInv, ArchivesReach
  <1>2. /\ Len(auditLog) \in Nat /\ Archived \in Nat
        /\ \A i \in 1..Len(auditLog) : auditLog[i].id = Archived + i
    BY LiveRows DEF LogInv, LogFollows
  <1>3. \A i \in 1..Len(auditLog), c \in checkpoints : auditLog[i].id > c.last_id
    BY <1>1, <1>2
  <1> QED
    BY <1>3 DEF auditSnapshot, SignatureFits

LEMMA ExactInLog == LogInv => VerifyIsExact
  <1> SUFFICES ASSUME LogInv, NEW readable \in BOOLEAN,
                      NEW report \in verifyAuditChainFull(readable)
               PROVE  LET undamaged == ~LatestIsDamaged("row") /\ ~LatestIsDamaged("archive")
                          checked == {auditLog[i].id : i \in 1..report.rows_checked}
                      IN  /\ report = NoSnapshot <=> ~(readable /\ undamaged)
                          /\ report # NoSnapshot =>
                                report.violations = EditedIds \cap checked
                          /\ report.status = "ok" => undamaged /\ EditedIds = {}
                          /\ report.status = "tampered" /\ undamaged /\ readable =>
                                EditedIds # {}
    BY DEF VerifyIsExact
  <1>1. CASE ~auditSnapshot(readable)
    <2>1. report = NoSnapshot /\ report.status # "ok"
      BY <1>1 DEF verifyAuditChainFull, NoSnapshot
    <2> QED
      BY <1>1, <2>1, SnapshotTaken
  <1>2. CASE auditSnapshot(readable)
    <2>1. PICK n \in 0..Len(auditLog), status \in {"ok", "tampered", "timeout"} :
             /\ report = Report(status, n)
             /\ status # "timeout" =>
                   status = IF BrokenLinks(auditLog, latestAuditCheckpoint) = {}
                            THEN "ok" ELSE "tampered"
      <3>1. Len(auditLog) \in Nat
        BY LiveRows DEF LogInv
      <3> QED
        BY <1>2, <3>1 DEF verifyAuditChainFull
    <2>2. /\ report.status = status /\ report.rows_checked = n
          /\ report.violations = EditedIds \cap {auditLog[i].id : i \in 1..n}
      BY <2>1, ReportNamesEdits DEF Report
    <2>3. report # NoSnapshot
      BY <2>2, ReportNamesEdits DEF NoSnapshot
    <2>4. status # "timeout" => status = IF EditedIds = {} THEN "ok" ELSE "tampered"
      BY <2>1, ReportNamesEdits
    <2> QED
      BY <1>2, <2>2, <2>3, <2>4, SnapshotTaken
  <1> QED
    BY <1>1, <1>2

(* Theorem.  Whatever has been archived, appended, edited or damaged, an   *)
(* administrator's report names the edited among the rows it has checked,  *)
(* or the checkpoint just when it is damaged or cannot be read, and says   *)
(* "ok" only where nothing is wrong (verifyAuditChainFull).                *)
THEOREM VerifyExact == Spec => []VerifyIsExact
  BY LogBegins, LogSteps, ExactInLog, PTL DEF Spec

-----------------------------------------------------------------------------
(* A batch of the verification is a run of live rows.                      *)
LEMMA BatchRows ==
    ASSUME LogFollows, NEW cursorId \in Nat
    PROVE  LET rows == getAuditLogRowsAfterId(cursorId)
           IN  /\ rows \in Seq(Row)
               /\ rows # <<>> => \E n \in 1..lastId :
                     rows[Len(rows)].id = n /\ rows[Len(rows)].hash = Genuine(n)
  <1> DEFINE read == {i \in 1..Len(auditLog) : auditLog[i].id <= cursorId}
             before == Cardinality(read)
             last == IF before + VerifyBatch < Len(auditLog) THEN before + VerifyBatch
                     ELSE Len(auditLog)
             rows == getAuditLogRowsAfterId(cursorId)
  <1>1. Len(auditLog) \in Nat /\ auditLog \in Seq(Row)
    BY LiveRows DEF LogFollows
  <1>2. before \in Nat
    <2>1. IsFiniteSet(1..Len(auditLog))
      BY <1>1, FS_Interval
    <2>2. read \in SUBSET (1..Len(auditLog))
      OBVIOUS
    <2> HIDE DEF read
    <2>3. IsFiniteSet(read)
      BY <2>1, <2>2, FS_Subset
    <2> QED
      BY <2>3, FS_CardinalityType
  <1>3. rows = SubSeq(auditLog, before + 1, last)
    BY DEF getAuditLogRowsAfterId
  <1> HIDE DEF before, rows
  <1>4. last \in Nat /\ last <= Len(auditLog)
    BY <1>1, <1>2, AuditVerifierAssumption
  <1> HIDE DEF last
  <1>5. \A i \in (before + 1)..last : auditLog[i] \in Row
    BY <1>1, <1>2, <1>4, LiveRows
  <1>6. /\ rows \in Seq(Row)
        /\ Len(rows) = IF before + 1 <= last THEN last - (before + 1) + 1 ELSE 0
        /\ \A i \in 1..(last - (before + 1) + 1) : rows[i] = auditLog[before + 1 + i - 1]
    <2>1. before + 1 \in Int /\ last \in Int
      BY <1>2, <1>4
    <2> QED
      BY <1>3, <1>5, <2>1, SubSeqProperties
  <1>7. ASSUME rows # <<>>
        PROVE  \E n \in 1..lastId :
                  rows[Len(rows)].id = n /\ rows[Len(rows)].hash = Genuine(n)
    <2>1. Len(rows) # 0
      BY <1>6, <1>7, EmptySeq
    <2>2. /\ before + 1 <= last
          /\ Len(rows) \in 1..(last - (before + 1) + 1)
          /\ before + 1 + Len(rows) - 1 = last
      BY <1>2, <1>4, <1>6, <2>1
    <2>3. rows[Len(rows)] = auditLog[last]
      BY <1>6, <2>2
    <2>4. last \in 1..Len(auditLog)
      BY <1>1, <1>2, <1>4, <2>2
    <2>5. auditLog[last].id = Archived + last /\ auditLog[last].hash = Genuine(Archived + last)
      BY <2>4, LiveRows
    <2>6. Archived + last \in 1..lastId
      BY <1>1, <2>4, LiveRows DEF LogFollows
    <2> QED
      BY <2>3, <2>5, <2>6
  <1> QED
    BY <1>6, <1>7 DEF rows

(* Of the links that a walk finds broken there is a first.                 *)
LEMMA FirstOf ==
    ASSUME NEW S, S \subseteq Nat, S # {}
    PROVE  \E i \in S : \A j \in S : i <= j
  <1>1. PICK i \in S : \A j \in S : <<j, i>> \notin OpToRel(<, Nat)
    BY NatLessThanWellFounded, WFMin
  <1>2. \A j \in S : ~(j < i)
    BY <1>1 DEF OpToRel
  <1> QED
    BY <1>2

-----------------------------------------------------------------------------
(* What the verification does.                                             *)
RunFits(r) == r \in RunState /\ (r.step \in {"walk", "persist"} =>
                                    r.prevHash = Genuine(r.cursorId))

LEMMA IdleFits == RunFits(IdleRun) /\ IdleRun.step = "idle"
  <1>1. GENESIS_HASH \in Hash
    BY EmptySeq DEF GENESIS_HASH, Hash
  <1> QED
    BY <1>1 DEF RunFits, RunState, IdleRun

LEMMA RunSet ==
    ASSUME WalksGenuine, NEW v \in Verifiers, NEW r, RunFits(r), SetRun(v, r),
           progress' = progress
    PROVE  WalksGenuine'
  <1>1. runs' = [runs EXCEPT ![v] = r] /\ r \in RunState
    BY DEF SetRun, RunFits
  <1>2. runs' \in [Verifiers -> RunState]
    BY <1>1 DEF WalksGenuine
  <1>3. \A w \in Verifiers : runs'[w] = IF w = v THEN r ELSE runs[w]
    BY <1>1 DEF WalksGenuine
  <1>4. \A w \in Verifiers : runs'[w].step \in {"walk", "persist"} =>
            runs'[w].prevHash = Genuine(runs'[w].cursorId)
    BY <1>3 DEF WalksGenuine, RunFits
  <1> QED
    BY <1>2, <1>4 DEF WalksGenuine

LEMMA StartFits ==
    ASSUME WalksGenuine, CheckpointIsGenuine, NEW v \in Verifiers, StartRun(v)
    PROVE  WalksGenuine' /\ CheckpointIsGenuine'
  <1>1. /\ progress.lastId \in Nat /\ progress.lastHash \in Hash
        /\ progress.lastFullRun \in {"never", "recent", "due"}
    BY DEF WalksGenuine, ProgressState
  <1> DEFINE full == [IdleRun EXCEPT !.step = "walk"]
             incremental == [IdleRun EXCEPT !.step = "walk", !.mode = "incremental",
                                 !.cursorId = progress.lastId, !.prevHash = progress.lastHash,
                                 !.lastFullRun = progress.lastFullRun]
  <1>2. RunFits(full)
    BY IdleFits, GenuineBegins DEF RunFits, RunState, IdleRun, GENESIS_HASH
  <1>3. RunFits(incremental)
    <2>1. ASSUME NEW c \in Nat, NEW h \in Hash, NEW f \in {"never", "recent", "due"},
                 NEW r \in RunState, h = Genuine(c)
          PROVE  RunFits([r EXCEPT !.step = "walk", !.mode = "incremental", !.cursorId = c,
                              !.prevHash = h, !.lastFullRun = f])
      BY <2>1 DEF RunFits, RunState
    <2>2. IdleRun \in RunState /\ progress.lastHash = Genuine(progress.lastId)
      BY IdleFits DEF RunFits, CheckpointIsGenuine
    <2> QED
      BY <1>1, <2>1, <2>2, Zenon
  <1>4. SetRun(v, IF decideMode = "full" THEN full ELSE incremental) /\ progress' = progress
    BY DEF StartRun
  <1> HIDE DEF full, incremental
  <1>5. WalksGenuine'
    BY <1>2, <1>3, <1>4, RunSet
  <1> QED
    BY <1>4, <1>5 DEF CheckpointIsGenuine

LEMMA WalkFits ==
    ASSUME LogInv, WalksGenuine, CheckpointIsGenuine, NEW v \in Verifiers,
           runAuditChainVerification(v)
    PROVE  WalksGenuine' /\ CheckpointIsGenuine'
  <1> DEFINE run == runs[v]
             rows == getAuditLogRowsAfterId(run.cursorId)
             broken == BrokenLinks(rows, run.prevHash)
             first == CHOOSE i \in broken : \A j \in broken : i <= j
             report == [IdleRun EXCEPT !.step = "report", !.brokenAt = rows[first].id]
  <1>1. /\ run \in RunState /\ run.step = "walk" /\ run.prevHash = Genuine(run.cursorId)
        /\ run.cursorId \in Nat
    BY DEF WalksGenuine, RunState, runAuditChainVerification
  <1>2. progress' = progress
    BY DEF runAuditChainVerification
  <1>3. IF broken = {} THEN SetRun(v, Advance(v, rows)) ELSE SetRun(v, report)
    BY DEF runAuditChainVerification
  <1>4. /\ rows \in Seq(Row)
        /\ rows # <<>> => \E n \in 1..lastId :
              rows[Len(rows)].id = n /\ rows[Len(rows)].hash = Genuine(n)
    BY <1>1, BatchRows DEF LogInv
  <1>5. Len(rows) \in Nat
    BY <1>4, LenProperties
  <1>6. ASSUME broken # {} PROVE RunFits(report)
    <2>1. broken \subseteq 1..Len(rows)
      BY DEF BrokenLinks
    <2> HIDE DEF broken, rows
    <2>5. broken \subseteq Nat
      BY <1>5, <2>1
    <2>2. \E i \in broken : \A j \in broken : i <= j
      BY <1>6, <2>5, FirstOf
    <2>3. first \in 1..Len(rows)
      BY <2>1, <2>2
    <2>4. rows[first].id \in Nat
      <3> HIDE DEF first
      <3>1. rows[first] \in Row
        BY <1>4, <2>3, ElementOfSeq
      <3> QED
        BY <3>1 DEF Row
    <2> HIDE DEF first
    <2> QED
      BY <2>4, IdleFits DEF RunFits, RunState, IdleRun
  <1>7. RunFits(Advance(v, rows))
    <2>1. ASSUME NEW c \in Nat, NEW h \in Hash, NEW b \in Int, NEW s \in {"walk", "persist"},
                 h = Genuine(c)
          PROVE  RunFits([run EXCEPT !.cursorId = c, !.prevHash = h, !.batches = b, !.step = s])
      BY <1>1, <2>1 DEF RunFits, RunState
    <2> HIDE DEF rows
    <2> DEFINE c == IF rows = <<>> THEN run.cursorId ELSE rows[Len(rows)].id
               h == LastHash(rows, run.prevHash)
               b == IF run.mode = "full" THEN 0 ELSE run.batches + 1
               s == IF \/ Len(rows) < VerifyBatch
                       \/ run.mode = "incremental" /\ run.batches + 1 = MaxBatches
                    THEN "persist" ELSE "walk"
    <2>2. c \in Nat /\ h \in Hash /\ h = Genuine(c)
      <3>1. CASE rows = <<>>
        BY <1>1, <3>1 DEF LastHash, RunState
      <3>2. CASE rows # <<>>
        <4>1. PICK n \in 1..lastId :
                 rows[Len(rows)].id = n /\ rows[Len(rows)].hash = Genuine(n)
          BY <1>4, <3>2
        <4>2. n \in Nat /\ Genuine(n) \in Hash
          BY GenuineIsHash DEF LogInv, LogFollows
        <4> QED
          BY <3>2, <4>1, <4>2 DEF LastHash
      <3> QED
        BY <3>1, <3>2
    <2>3. b \in Int /\ s \in {"walk", "persist"}
      BY <1>1 DEF RunState
    <2>4. Advance(v, rows)
             = [run EXCEPT !.cursorId = c, !.prevHash = h, !.batches = b, !.step = s]
      BY <1>1 DEF Advance, RunState
    <2> HIDE DEF c, h, b, s
    <2>5. RunFits([run EXCEPT !.cursorId = c, !.prevHash = h, !.batches = b, !.step = s])
      BY <2>1, <2>2, <2>3, Zenon
    <2> QED
      BY <2>4, <2>5, Zenon
  <1> HIDE DEF broken, report
  <1>8. WalksGenuine'
    BY <1>2, <1>3, <1>6, <1>7, RunSet
  <1> QED
    BY <1>2, <1>8 DEF CheckpointIsGenuine

LEMMA PersistFits ==
    ASSUME WalksGenuine, NEW v \in Verifiers, persistCheckpoint(v)
    PROVE  WalksGenuine' /\ CheckpointIsGenuine'
  <1>1. /\ runs[v] \in RunState
        /\ runs[v].prevHash = Genuine(runs[v].cursorId)
    BY DEF WalksGenuine, persistCheckpoint
  <1>2. progress' \in ProgressState /\ CheckpointIsGenuine'
    BY <1>1 DEF persistCheckpoint, ProgressState, RunState, CheckpointIsGenuine
  <1>3. runs' = [runs EXCEPT ![v] = IdleRun]
    BY DEF persistCheckpoint, SetRun
  <1>4. WalksGenuine'
    BY <1>2, <1>3, IdleFits DEF WalksGenuine, RunFits
  <1> QED
    BY <1>2, <1>4

LEMMA BreakOffFits ==
    ASSUME WalksGenuine, CheckpointIsGenuine, NEW v \in Verifiers, BreakOff(v)
    PROVE  WalksGenuine' /\ CheckpointIsGenuine'
  <1>1. progress' = progress
    BY DEF BreakOff
  <1>2. runs[v] \in RunState
    BY DEF WalksGenuine
  <1>3. CASE SetRun(v, IdleRun)
    BY <1>1, <1>3, IdleFits, RunSet DEF CheckpointIsGenuine
  <1>4. CASE runs[v].step = "walk" /\ SetRun(v, [runs[v] EXCEPT !.step = "persist"])
    <2>1. RunFits([runs[v] EXCEPT !.step = "persist"])
      BY <1>2, <1>4 DEF WalksGenuine, RunFits, RunState
    <2>2. WalksGenuine'
      BY <1>1, <1>4, <2>1, RunSet
    <2> QED
      BY <1>1, <2>2 DEF CheckpointIsGenuine
  <1> QED
    BY <1>3, <1>4 DEF BreakOff

LEMMA DueFits ==
    ASSUME WalksGenuine, CheckpointIsGenuine, FullRunFallsDue
    PROVE  WalksGenuine' /\ CheckpointIsGenuine'
  <1>1. /\ progress' \in ProgressState
        /\ progress'.lastId = progress.lastId /\ progress'.lastHash = progress.lastHash
    BY DEF WalksGenuine, FullRunFallsDue, ProgressState
  <1>2. ASSUME NEW r \in RunState PROVE [r EXCEPT !.lastFullRun = "due"] \in RunState
    BY <1>2 DEF RunState
  <1>3. runs' = [v \in Verifiers |->
           IF runs[v].lastFullRun = "recent" THEN [runs[v] EXCEPT !.lastFullRun = "due"]
           ELSE runs[v]]
    BY DEF FullRunFallsDue
  <1>4. \A v \in Verifiers : runs[v] \in RunState
    BY DEF WalksGenuine
  <1>5. runs' \in [Verifiers -> RunState]
    BY <1>2, <1>3, <1>4
  <1>6. \A v \in Verifiers : /\ runs'[v].step = runs[v].step
                             /\ runs'[v].prevHash = runs[v].prevHash
                             /\ runs'[v].cursorId = runs[v].cursorId
    BY <1>3, <1>4 DEF RunState
  <1>7. WalksGenuine'
    BY <1>1, <1>5, <1>6 DEF WalksGenuine
  <1> QED
    BY <1>1, <1>7 DEF CheckpointIsGenuine

LEMMA WalkBegins == Init => WalksGenuine /\ CheckpointIsGenuine
  <1> SUFFICES ASSUME Init PROVE WalksGenuine /\ CheckpointIsGenuine
    OBVIOUS
  <1>1. GENESIS_HASH \in Hash
    BY EmptySeq DEF GENESIS_HASH, Hash
  <1>2. /\ progress = [lastId |-> 0, lastHash |-> GENESIS_HASH, lastFullRun |-> "never"]
        /\ runs = [v \in Verifiers |-> IdleRun]
    BY DEF Init
  <1>3. WalksGenuine
    BY <1>1, <1>2, IdleFits DEF WalksGenuine, RunFits, ProgressState
  <1>4. CheckpointIsGenuine
    BY <1>2, GenuineBegins DEF CheckpointIsGenuine, GENESIS_HASH
  <1> QED
    BY <1>3, <1>4

LEMMA WalkSteps ==
    LogInv /\ WalksGenuine /\ CheckpointIsGenuine /\ [Next]_vars
        => WalksGenuine' /\ CheckpointIsGenuine'
  <1> SUFFICES ASSUME LogInv, WalksGenuine, CheckpointIsGenuine, [Next]_vars
               PROVE  WalksGenuine' /\ CheckpointIsGenuine'
    OBVIOUS
  <1>1. CASE UNCHANGED verifierVars
    BY <1>1 DEF verifierVars, WalksGenuine, CheckpointIsGenuine
  <1>2. ASSUME NEW v \in Verifiers, VerifierStep(v)
        PROVE  WalksGenuine' /\ CheckpointIsGenuine'
    <2>1. CASE StartRun(v)
      BY <2>1, StartFits
    <2>2. CASE runAuditChainVerification(v)
      BY <2>2, WalkFits
    <2>3. CASE reportBreak(v)
      BY <2>3, IdleFits, RunSet DEF reportBreak, CheckpointIsGenuine
    <2>4. CASE persistCheckpoint(v)
      BY <2>4, PersistFits
    <2> QED
      BY <1>2, <2>1, <2>2, <2>3, <2>4 DEF VerifierStep
  <1>3. ASSUME NEW v \in Verifiers, BreakOff(v)
        PROVE  WalksGenuine' /\ CheckpointIsGenuine'
    BY <1>3, BreakOffFits
  <1>4. CASE FullRunFallsDue
    BY <1>4, DueFits
  <1>5. UNCHANGED vars => UNCHANGED verifierVars
    BY DEF vars
  <1> QED
    BY <1>1, <1>2, <1>3, <1>4, <1>5 DEF Next

(* Theorem.  The id and the hash that runAuditChainVerification keeps as   *)
(* its progress belong together, whichever runs of whichever processes     *)
(* have written them and whatever was archived since.                      *)
THEOREM CheckpointTrue == Spec => []CheckpointIsGenuine
  BY LogBegins, LogSteps, WalkBegins, WalkSteps, PTL DEF Spec

=============================================================================
