----------------------- MODULE StorageRecoveryProofs -----------------------
(***************************************************************************)
(* Proofs about StorageRecovery for every table, batch size and bound.     *)
(* StandbyInv says where the two sides may differ, RangeInv and ContentInv *)
(* what the certificates are worth, PromotionInv what a promotion leaves.  *)
(***************************************************************************)
EXTENDS StorageRecovery, TLAPS

\* What the writes and the journal are made of.
DataType ==
  /\ counter \in Nat
  /\ pending \in [RowIds -> Nat]
  /\ \A r \in RowIds : pending[r] <= counter
  /\ pg \in [RowIds -> Row \cup {None}]
  /\ sqlite \in [RowIds -> Row \cup {None}]

\* PostgreSQL's primary key is unique.
UniqueKeys ==
  \A r, s \in RowIds : pg[r] # None /\ pg[s] # None /\ pg[r].key = pg[s].key => r = s

\* Where the generation stands when the mirror holds something.
PhaseInv ==
  /\ triggers \in {"original", "guards", "restored"}
  /\ owner = "none" => triggers = "original"
  /\ triggers = "original" => ~pgOpen
  /\ triggers = "guards" => owner = "active" /\ sqliteWrites = 0
  /\ triggers = "original" /\ sqliteWrites = 0 => sqlite = pg
  /\ sqliteWrites \in Nat
  /\ job.at = "restored" => triggers = "restored"
  /\ owner \in {"restored", "removed"} => triggers = "restored"
  /\ triggers = "original" => verified = None
  /\ job.at = "prepared" => triggers = "original" /\ sqliteWrites = 0 /\ owner = "active"
  /\ job.at \in {"apply", "ack", "certify"} => ValidFile

\* A batch read and not yet applied: each of its changes is still pending, an
\* unchanged one was read as it is now, and a row that has taken an observed
\* key since has a change of its own.
ApplyInv == job.at = "apply" =>
  LET B == DOMAIN job.observed
  IN /\ B \subseteq RowIds /\ DOMAIN job.changes = B
     /\ \A r \in B : /\ pending[r] # 0
                     /\ job.changes[r] \in Nat /\ job.changes[r] <= counter
                     /\ job.observed[r] \in Row \cup {None}
                     /\ pending[r] = job.changes[r] => job.observed[r] = pg[r]
     /\ \A r \in B, q \in RowIds :
          q # r /\ pg[q] # None /\ job.observed[r] # None
          /\ pg[q].key = job.observed[r].key => pending[q] # 0

\* A batch applied and not yet acknowledged: where its change is still the
\* latest the standby shows it.
AckInv == job.at = "ack" =>
  /\ DOMAIN job.changes \subseteq RowIds \cap job.touched
  /\ \A r \in DOMAIN job.changes :
       /\ job.changes[r] \in Nat /\ job.changes[r] <= counter
       /\ pending[r] = job.changes[r] => sqlite[r] = pg[r]

\* Until an application writes to the SQLite file, before, during and after it
\* is guarded, a row that differs from PostgreSQL has a pending change.
MirrorInv ==
  sqliteWrites = 0 => \A r \in RowIds : sqlite[r] # pg[r] => pending[r] # 0

\* The invariant of replay.
StandbyInv == DataType /\ UniqueKeys /\ PhaseInv /\ ApplyInv /\ AckInv /\ MirrorInv

\* The recorded intervals are disjoint, and a chunk that has been read lies in a
\* dirty one or in a gap between them.
RangeInv ==
  /\ \A c \in ranges :
       /\ c.low \in Extent /\ c.high \in c.low..MaxRow /\ c.valid \in BOOLEAN
       /\ c = Certificate(c.low, c.high, c.valid, c.rows)
  /\ \A c, d \in ranges : c # d => c.low > d.high \/ d.low > c.high
  /\ job.at = "certify" =>
       /\ job.low \in Extent /\ job.end \in job.low..MaxRow /\ job.high \in job.low..job.end
       /\ job.existing \in BOOLEAN /\ job.pending \in BOOLEAN
       /\ job.existing => \E c \in ranges : c.low = job.low /\ c.high = job.end /\ ~c.valid
       /\ ~job.existing => job.low..job.end \cap Covered = {}

\* A valid certificate over rows without pending changes states what PostgreSQL
\* holds, until an application writes to the SQLite file.
ContentInv ==
  sqliteWrites = 0 => \A c \in ranges :
    c.valid /\ ~ChunkPending(c.low, c.high) => c.rows = Content(pg, c.low, c.high)

\* The journal is empty from the promotion's SQLite commit to its record, and
\* for ever after it; the archive holds what was certified then.
PromotionInv ==
  /\ job.at = "restored" => owner = "active"
  /\ job.at = "restored" \/ owner \in {"restored", "removed"} => NothingPending
  /\ job.at = "cleaned" \/ archive # None => owner = "removed"
  /\ owner = "removed" =>
       /\ archive = [certificates |-> archive.certificates, removed |-> archive.removed]
       /\ sqliteWrites = 0 =>
            \A c \in archive.certificates : c.rows = Content(sqlite, c.low, c.high)

\* The counters stay within their bounds.
CountInv ==
  /\ counter \in 0..MaxWrites /\ verified \in 0..counter \cup {None}
  /\ owner \in {"none", "active", "restored", "removed"}
  /\ sqliteWrites \in 0..MaxStray /\ pgOpen \in BOOLEAN
  /\ job.at \in {"idle", "prepared", "apply", "ack", "certify", "restored", "cleaned"}
  /\ cursor \in Extent \cup {None}
  /\ faults \in 0..MaxFaults

LEMMA InitStandby == Init => StandbyInv
<1> SUFFICES ASSUME Init PROVE StandbyInv
  OBVIOUS
<1> USE RecoveryAssumption DEF Init
<1>1. pg \in [RowIds -> Row \cup {None}]
  BY DEF Row
<1>2. DataType /\ UniqueKeys
  BY <1>1 DEF DataType, UniqueKeys
<1>3. PhaseInv /\ ApplyInv /\ AckInv /\ MirrorInv
  BY DEF PhaseInv, ApplyInv, AckInv, MirrorInv, Idle, ValidFile
<1> QED  BY <1>2, <1>3 DEF StandbyInv

\* A captured transaction: what it changes becomes pending with a new sequence.
LEMMA CapturedStep ==
  ASSUME StandbyInv, NEW changed \in SUBSET RowIds, Capture(changed),
         pg' \in [RowIds -> Row \cup {None}],
         \A r \in RowIds \ changed : pg'[r] = pg[r],
         UniqueKeys'
  PROVE  StandbyInv'
<1> USE DEF StandbyInv
<1>1. DataType'
  BY DEF DataType, Capture
<1>2. /\ \A r \in changed : pending'[r] = counter + 1
      /\ \A r \in RowIds \ changed : pending'[r] = pending[r]
      /\ counter' = counter + 1 /\ counter \in Nat
      /\ \A r \in RowIds : pending[r] \in Nat /\ pending[r] <= counter
      /\ UNCHANGED <<sqlite, ranges, stateVars, sqliteWrites, pgOpen, job>>
  BY DEF DataType, Capture
<1>3. PhaseInv'
  BY <1>2 DEF PhaseInv, Capture, ValidFile, stateVars
<1>4. MirrorInv'
  BY <1>2 DEF MirrorInv, ValidFile, stateVars
<1>5. AckInv'
  BY <1>2 DEF AckInv
<1>6. ApplyInv'
  <2> SUFFICES ASSUME job.at = "apply" PROVE ApplyInv'
    BY <1>2 DEF ApplyInv
  <2> DEFINE B == DOMAIN job.observed
  <2>1. \A r \in B : /\ r \in RowIds /\ pending'[r] # 0
                     /\ job.changes[r] \in Nat /\ job.changes[r] <= counter'
                     /\ job.observed[r] \in Row \cup {None}
                     /\ pending'[r] = job.changes[r] => job.observed[r] = pg'[r]
    BY <1>2 DEF ApplyInv
  <2>2. \A r \in B, q \in RowIds :
          q # r /\ pg'[q] # None /\ job.observed[r] # None
          /\ pg'[q].key = job.observed[r].key => pending'[q] # 0
    BY <1>2 DEF ApplyInv
  <2>3. B \subseteq RowIds /\ DOMAIN job.changes = B
    BY DEF ApplyInv
  <2> QED  BY <1>2, <2>1, <2>2, <2>3 DEF ApplyInv
<1> QED  BY <1>1, <1>3, <1>4, <1>5, <1>6

LEMMA WriteStep ==
  ASSUME StandbyInv, Write
  PROVE  StandbyInv'
<1> USE RecoveryAssumption
<1>1. /\ counter \in Nat /\ pg \in [RowIds -> Row \cup {None}] /\ UniqueKeys
  BY DEF StandbyInv, DataType
<1>2. ASSUME NEW r \in RowIds, UpdateRow(r) PROVE StandbyInv'
  <2>1. Capture({r}) /\ counter + 1 \in -1..MaxWrites
    BY <1>1, <1>2 DEF UpdateRow, Capture
  <2>2. pg' \in [RowIds -> Row \cup {None}] /\ \A s \in RowIds \ {r} : pg'[s] = pg[s]
    BY <1>1, <1>2, <2>1 DEF UpdateRow, Row
  <2>3. \A s \in RowIds : /\ pg'[s] # None => pg[s] # None
                          /\ pg'[s] # None => pg'[s].key = pg[s].key
    BY <1>1, <1>2 DEF UpdateRow, Row
  <2>4. UniqueKeys'
    BY <1>1, <2>3 DEF UniqueKeys
  <2> QED  BY <2>1, <2>2, <2>4, CapturedStep
<1>3. ASSUME NEW r \in RowIds, DeleteRow(r) PROVE StandbyInv'
  <2>1. pg' \in [RowIds -> Row \cup {None}] /\ \A s \in RowIds \ {r} : pg'[s] = pg[s]
    BY <1>1, <1>3 DEF DeleteRow
  <2>2. UniqueKeys'
    BY <1>1, <1>3 DEF UniqueKeys, DeleteRow
  <2>3. Capture({r})
    BY <1>3 DEF DeleteRow
  <2> QED  BY <2>1, <2>2, <2>3, CapturedStep
<1>4. ASSUME NEW r \in RowIds, NEW k \in Keys, InsertRow(r, k) PROVE StandbyInv'
  <2>1. Capture({r}) /\ counter + 1 \in -1..MaxWrites
    BY <1>1, <1>4 DEF InsertRow, Capture
  <2>2. pg' \in [RowIds -> Row \cup {None}] /\ \A s \in RowIds \ {r} : pg'[s] = pg[s]
    BY <1>1, <1>4, <2>1 DEF InsertRow, Row
  <2>3. \A s \in RowIds : pg[s] # None => pg[s].key # k
    BY <1>4 DEF InsertRow, KeysOf, Present
  <2>4. pg'[r].key = k
    BY <1>1, <1>4 DEF InsertRow
  <2>5. UniqueKeys'
    BY <1>1, <2>2, <2>3, <2>4 DEF UniqueKeys
  <2> QED  BY <2>1, <2>2, <2>5, CapturedStep
<1>5. ASSUME NEW r \in RowIds, NEW s \in RowIds, MoveRow(r, s) PROVE StandbyInv'
  <2>1. Capture({r, s}) /\ counter + 1 \in -1..MaxWrites /\ r # s
    BY <1>1, <1>5 DEF MoveRow, Capture
  <2>2. [pg[r] EXCEPT !.write = counter + 1] \in Row
    BY <1>1, <1>5, <2>1 DEF MoveRow, Row
  <2>3. pg' \in [RowIds -> Row \cup {None}] /\ \A q \in RowIds \ {r, s} : pg'[q] = pg[q]
    BY <1>1, <1>5, <2>2 DEF MoveRow
  <2>4. pg'[r] = None /\ pg'[s].key = pg[r].key /\ pg[r] # None
    BY <1>1, <1>5, <2>1, <2>2 DEF MoveRow, Row
  <2>5. UniqueKeys'
    BY <1>1, <2>1, <2>3, <2>4 DEF UniqueKeys
  <2> QED  BY <2>1, <2>3, <2>5, CapturedStep
<1> QED  BY <1>2, <1>3, <1>4, <1>5 DEF Write

\* Reading a batch: it is pending, as read, and keys are unique at that moment.
LEMMA SnapshotStep ==
  ASSUME StandbyInv, SnapshotChanges
  PROVE  StandbyInv'
<1> USE DEF StandbyInv
<1>1. /\ job'.at = "apply" /\ Batch \subseteq RowIds
      /\ job'.changes = [r \in Batch |-> pending[r]]
      /\ job'.observed = [r \in Batch |-> pg[r]]
      /\ ValidFile
      /\ UNCHANGED <<dataVars, journalVars, ranges, stateVars, sqliteWrites, pgOpen>>
  BY DEF SnapshotChanges, Batch
<1>2. \A r \in Batch : pending[r] # 0
  BY DEF Batch
<1>3. DataType' /\ UniqueKeys' /\ MirrorInv'
  BY <1>1 DEF DataType, UniqueKeys, MirrorInv, ValidFile, dataVars, journalVars, stateVars
<1>4. PhaseInv' /\ AckInv'
  BY <1>1 DEF PhaseInv, AckInv, ValidFile, dataVars, stateVars
<1>5. ApplyInv'
  BY <1>1, <1>2 DEF ApplyInv, DataType, UniqueKeys, dataVars, journalVars
<1> QED  BY <1>3, <1>4, <1>5

\* Applying it: an observed row is right or still pending; a displaced one was
\* already different from PostgreSQL, hence pending.
LEMMA ApplyStep ==
  ASSUME StandbyInv, ApplyChanges
  PROVE  StandbyInv'
<1> USE DEF StandbyInv
<1> DEFINE obs == job.observed
           B == DOMAIN obs
<1>1. /\ job.at = "apply" /\ ValidFile
      /\ job'.at = "ack" /\ job'.changes = job.changes /\ B \subseteq job'.touched
      /\ UNCHANGED <<pg, journalVars, ranges, stateVars, sqliteWrites, pgOpen>>
      /\ sqlite' = [r \in RowIds |-> IF r \in B THEN obs[r]
                                     ELSE IF r \in Displaced(obs) THEN None ELSE sqlite[r]]
  BY DEF ApplyChanges
<1>2. /\ B \subseteq RowIds /\ DOMAIN job.changes = B
      /\ \A r \in B : /\ pending[r] # 0
                      /\ job.changes[r] \in Nat /\ job.changes[r] <= counter
                      /\ obs[r] \in Row \cup {None}
                      /\ pending[r] = job.changes[r] => obs[r] = pg[r]
      /\ \A r \in B, q \in RowIds :
           q # r /\ pg[q] # None /\ obs[r] # None /\ pg[q].key = obs[r].key => pending[q] # 0
  BY <1>1 DEF ApplyInv
<1>3. sqlite' \in [RowIds -> Row \cup {None}]
  BY <1>1, <1>2 DEF DataType
<1>4. DataType' /\ UniqueKeys'
  BY <1>1, <1>3 DEF DataType, UniqueKeys, journalVars
<1>5. \A q \in RowIds : sqlite'[q] # pg[q] => pending[q] # 0
  <2> SUFFICES ASSUME NEW q \in RowIds, sqlite'[q] # pg[q], pending[q] = 0 PROVE FALSE
    OBVIOUS
  <2>1. q \notin B
    BY <1>2
  <2>2. sqlite[q] = pg[q]
    BY <1>1 DEF MirrorInv, PhaseInv, ValidFile
  <2>3. q \in Displaced(obs)
    BY <1>1, <2>1, <2>2
  <2>4. PICK r \in B : obs[r] # None /\ obs[r].key = sqlite[q].key /\ sqlite[q] # None
    BY <2>3 DEF Displaced, Present
  <2> QED  BY <1>2, <2>1, <2>2, <2>4
<1>6. MirrorInv'
  BY <1>1, <1>5 DEF MirrorInv, journalVars
<1>7. \A r \in B : sqlite'[r] = obs[r]
  BY <1>1, <1>2
<1>8. AckInv' /\ ApplyInv'
  BY <1>1, <1>2, <1>7 DEF AckInv, ApplyInv, journalVars
<1>9. PhaseInv'
  BY <1>1 DEF PhaseInv, ValidFile, stateVars
<1> QED  BY <1>4, <1>6, <1>8, <1>9

LEMMA AcknowledgeStep ==
  ASSUME StandbyInv, Acknowledge
  PROVE  StandbyInv'
<1> USE DEF StandbyInv
<1>1. /\ job.at = "ack" /\ job' = Idle
      /\ pending' = [r \in RowIds |-> IF Acked(r, job.changes) THEN 0 ELSE pending[r]]
      /\ UNCHANGED <<dataVars, counter, stateVars, sqliteWrites, pgOpen>>
  BY DEF Acknowledge
<1>2. DataType' /\ UniqueKeys'
  BY <1>1 DEF DataType, UniqueKeys, dataVars
<1>3. \A r \in RowIds : Acked(r, job.changes) => sqlite[r] = pg[r]
  BY <1>1 DEF AckInv, Acked
<1>4. MirrorInv'
  BY <1>1, <1>3 DEF MirrorInv, ValidFile, dataVars, stateVars
<1>5. PhaseInv' /\ ApplyInv' /\ AckInv'
  BY <1>1 DEF PhaseInv, ApplyInv, AckInv, Idle, ValidFile, dataVars, stateVars
<1> QED  BY <1>2, <1>4, <1>5

\* The steps that touch neither side's rows nor the journal, and leave the
\* mirror with nothing or with a chunk to certify.
LEMMA ControlStep ==
  ASSUME StandbyInv,
         UNCHANGED <<dataVars, journalVars>>,
         job'.at \notin {"apply", "ack"},
         sqliteWrites' = sqliteWrites,
         PhaseInv'
  PROVE  StandbyInv'
<1> USE DEF StandbyInv
<1>1. DataType' /\ UniqueKeys' /\ ApplyInv' /\ AckInv'
  BY DEF DataType, UniqueKeys, ApplyInv, AckInv, dataVars, journalVars
<1>2. MirrorInv'
  BY DEF MirrorInv, dataVars, journalVars
<1> QED  BY <1>1, <1>2

LEMMA StrayStep ==
  ASSUME StandbyInv, NEW r \in RowIds, StrayWrite(r)
  PROVE  StandbyInv'
<1> USE DEF StandbyInv
<1>1. /\ triggers # "guards" /\ job.at # "prepared" /\ sqlite[r] # None
      /\ sqlite' = [sqlite EXCEPT ![r].write = -1]
      /\ sqliteWrites' = sqliteWrites + 1 /\ sqliteWrites \in Nat
      /\ UNCHANGED <<pg, journalVars, ranges, stateVars, pgOpen, job>>
  BY DEF StrayWrite, PhaseInv
<1>2. [sqlite[r] EXCEPT !.write = -1] \in Row
  BY <1>1, RecoveryAssumption DEF DataType, Row
<1>3. DataType' /\ UniqueKeys'
  BY <1>1, <1>2 DEF DataType, UniqueKeys, journalVars
<1>4. PhaseInv'
  BY <1>1 DEF PhaseInv, ValidFile, stateVars
<1>5. job.at \notin {"apply", "ack"}
  BY <1>1 DEF PhaseInv, ValidFile
<1>6. ApplyInv' /\ AckInv' /\ MirrorInv'
  BY <1>1, <1>5 DEF ApplyInv, AckInv, MirrorInv, ValidFile, stateVars
<1> QED  BY <1>3, <1>4, <1>6

LEMMA StandbyStep == StandbyInv /\ [Next]_vars => StandbyInv'
<1> SUFFICES ASSUME StandbyInv, [Next]_vars PROVE StandbyInv'
  OBVIOUS
<1>p. PhaseInv
  BY DEF StandbyInv
<1>1. CASE Write
  BY <1>1, WriteStep
<1>2. CASE \E r \in RowIds : StrayWrite(r)
  BY <1>2, StrayStep
<1>3. CASE Replay
  BY <1>3, SnapshotStep, ApplyStep, AcknowledgeStep DEF Replay
<1>4. CASE OperatePg \/ VerifyBarrier
  <2>1. CASE OperatePg
    <3>1. UNCHANGED <<dataVars, journalVars, stateVars, sqliteWrites, job>>
      BY <2>1 DEF OperatePg
    <3>2. triggers = "original" => ~pgOpen /\ ~pgOpen'
      BY <2>1, <1>p DEF OperatePg, PhaseInv
    <3>3. PhaseInv'
      BY <3>1, <3>2, <1>p DEF PhaseInv, ValidFile, dataVars, stateVars
    <3> QED
      BY <3>1, <3>3 DEF StandbyInv, DataType, UniqueKeys, ApplyInv, AckInv, MirrorInv,
                  ValidFile, dataVars, journalVars, stateVars
  <2>2. CASE VerifyBarrier
    <3>1. UNCHANGED <<dataVars, journalVars, owner, triggers, sqliteWrites, pgOpen, job>>
          /\ triggers = "guards"
      BY <2>2 DEF VerifyBarrier, ValidFile
    <3>2. PhaseInv'
      BY <3>1, <1>p DEF PhaseInv, ValidFile, dataVars
    <3> QED
      BY <3>1, <3>2 DEF StandbyInv, DataType, UniqueKeys, ApplyInv, AckInv, MirrorInv,
                  ValidFile, dataVars, journalVars
  <2> QED  BY <1>4, <2>1, <2>2
<1>5. CASE Prepare \/ PrepareCommit \/ FinishGuardInstallation
  BY <1>5, <1>p, ControlStep
  DEF Prepare, PrepareCommit, FinishGuardInstallation, PhaseInv, Idle, ValidFile, dataVars
<1>6. CASE Reconcile
  BY <1>6, <1>p, ControlStep
  DEF Reconcile, ReadChunk, CertifyChunk, PhaseInv, Idle, ValidFile, dataVars, stateVars
<1>7. CASE RestoreTriggers \/ RecordRestored \/ AbortCleanup \/ AbortFinish
  <2>1. CASE RestoreTriggers
    <3>1. verified = counter /\ counter \in Nat /\ verified # None
      BY <2>1, RecoveryAssumption DEF RestoreTriggers, VerifiedNow, StandbyInv, DataType
    <3>2. triggers # "original" /\ owner = "active"
      BY <2>1, <3>1, <1>p DEF RestoreTriggers, PhaseInv
    <3>3. /\ triggers' = IF triggers = "guards" THEN "restored" ELSE triggers
          /\ job' = [at |-> "restored"] /\ sqliteWrites = 0
          /\ UNCHANGED <<dataVars, journalVars, owner, verified, sqliteWrites, pgOpen>>
      BY <2>1 DEF RestoreTriggers
    <3>4. PhaseInv'
      BY <3>1, <3>2, <3>3, <1>p DEF PhaseInv, ValidFile, dataVars
    <3> QED  BY <3>3, <3>4, ControlStep
  <2>2. CASE RecordRestored
    BY <2>2, <1>p, ControlStep DEF RecordRestored, PhaseInv, Idle, ValidFile, dataVars
  <2>3. CASE AbortCleanup
    BY <2>3, <1>p, ControlStep DEF AbortCleanup, PhaseInv, Idle, ValidFile, dataVars
  <2>4. CASE AbortFinish
    BY <2>4, <1>p, ControlStep DEF AbortFinish, PhaseInv, Idle, ValidFile, dataVars
  <2> QED  BY <1>7, <2>1, <2>2, <2>3, <2>4
<1>8. CASE Crash
  BY <1>8, <1>p, ControlStep DEF Crash, PhaseInv, Idle, ValidFile, dataVars, stateVars
<1>9. CASE UNCHANGED vars
  BY <1>9 DEF StandbyInv, DataType, UniqueKeys, PhaseInv, ApplyInv, AckInv, MirrorInv,
              ValidFile, vars, dataVars, journalVars, stateVars
<1> QED
  BY <1>1, <1>2, <1>3, <1>4, <1>5, <1>6, <1>7, <1>8, <1>9 DEF Next

-----------------------------------------------------------------------------
(* Types and certificates.                                                  *)

LEMMA SameContent ==
  ASSUME NEW t, NEW u, NEW low, NEW high,
         \A r \in RowIds \cap low..high : t[r] = u[r]
  PROVE  Content(t, low, high) = Content(u, low, high)
BY DEF Content, Present

LEMMA MirroredContent ==
  ASSUME MirrorInv, sqliteWrites = 0, NEW low, NEW high, ~ChunkPending(low, high)
  PROVE  Content(sqlite, low, high) = Content(pg, low, high)
<1>1. \A r \in RowIds \cap low..high : sqlite[r] = pg[r]
  BY DEF MirrorInv, ChunkPending
<1> QED  BY <1>1, SameContent

LEMMA CountStep == StandbyInv /\ CountInv /\ RangeInv /\ [Next]_vars => CountInv'
<1> SUFFICES ASSUME StandbyInv, CountInv, RangeInv, [Next]_vars PROVE CountInv'
  OBVIOUS
<1> USE RecoveryAssumption DEF CountInv
<1>1. CASE Write
  <2>1. PICK changed : Capture(changed)
    BY <1>1 DEF Write, UpdateRow, DeleteRow, InsertRow, MoveRow
  <2> QED  BY <2>1 DEF Capture, stateVars
<1>2. CASE \E r \in RowIds : StrayWrite(r)
  BY <1>2 DEF StrayWrite, journalVars, stateVars
<1>3. CASE Replay
  BY <1>3 DEF Replay, SnapshotChanges, ApplyChanges, Acknowledge, Idle, journalVars, stateVars
<1>4. CASE Reconcile
  BY <1>4 DEF Reconcile, ReadChunk, CertifyChunk, Idle, RangeInv, Extent, journalVars, stateVars
<1>5. CASE OperatePg
  <2>1. pgOpen' \in BOOLEAN
    BY <1>5 DEF OperatePg
  <2> QED  BY <1>5, <2>1 DEF OperatePg, journalVars, stateVars
<1>10. CASE Crash
  BY <1>10 DEF Crash, Idle, journalVars, stateVars
<1>6. CASE Prepare \/ PrepareCommit \/ FinishGuardInstallation
  BY <1>6 DEF Prepare, PrepareCommit, FinishGuardInstallation, Idle, journalVars
<1>7. CASE VerifyBarrier \/ RestoreTriggers \/ RecordRestored
  BY <1>7 DEF VerifyBarrier, RestoreTriggers, RecordRestored, Idle, journalVars
<1>8. CASE AbortCleanup \/ AbortFinish
  BY <1>8 DEF AbortCleanup, AbortFinish, Idle, journalVars
<1>9. CASE UNCHANGED vars
  BY <1>9 DEF vars, journalVars, stateVars
<1> QED
  BY <1>1, <1>2, <1>3, <1>4, <1>5, <1>6, <1>7, <1>8, <1>9, <1>10 DEF Next

\* A job of the reconciliation is a dirty certificate or lies between them.
LEMMA JobsFit ==
  ASSUME RangeInv, CountInv, NEW j \in NextJobs(cursor)
  PROVE  /\ j.low \in Extent /\ j.high \in Extent /\ j.existing \in BOOLEAN
         /\ j.existing => \E c \in ranges : c.low = j.low /\ c.high = j.high /\ ~c.valid
         /\ ~j.existing => j.low..j.high \cap Covered = {}
<1> USE RecoveryAssumption DEF Extent
<1> DEFINE Fits(k) ==
      /\ k.low \in Extent /\ k.high \in Extent /\ k.existing \in BOOLEAN
      /\ k.existing => \E c \in ranges : c.low = k.low /\ c.high = k.high /\ ~c.valid
      /\ ~k.existing => k.low..k.high \cap Covered = {}
<1>1. ASSUME NEW k \in RangeJobs PROVE Fits(k)
  <2>1. CASE k \in Gaps
    BY <2>1 DEF Gaps, Job
  <2>2. CASE k \notin Gaps
    <3>1. PICK c \in ranges : ~c.valid /\ k = [low |-> c.low, high |-> c.high, existing |-> TRUE]
      BY <1>1, <2>2 DEF RangeJobs
    <3>2. c.low \in 0..MaxRow /\ c.high \in c.low..MaxRow
      BY DEF RangeInv
    <3> QED  BY <3>1, <3>2
  <2> QED  BY <2>1, <2>2
<1>2. ASSUME NEW k \in RangeJobs, ~k.existing, cursor # None, k.low <= cursor, k.high > cursor
      PROVE  Fits([k EXCEPT !.low = cursor + 1]) /\ Fits([k EXCEPT !.high = cursor])
  <2>1. k \in Gaps
    BY <1>2 DEF RangeJobs
  <2>2. k \in Job /\ cursor \in Extent
    BY <1>2, <2>1 DEF Gaps, CountInv
  <2>3. /\ [k EXCEPT !.low = cursor + 1].low = cursor + 1
        /\ [k EXCEPT !.low = cursor + 1].high = k.high
        /\ [k EXCEPT !.high = cursor].low = k.low
        /\ [k EXCEPT !.high = cursor].high = cursor
        /\ [k EXCEPT !.low = cursor + 1].existing = k.existing
        /\ [k EXCEPT !.high = cursor].existing = k.existing
    BY <2>2 DEF Job
  <2>4. k.low..k.high \cap Covered = {} /\ k.low \in 0..MaxRow /\ k.high \in 0..MaxRow
    BY <1>1, <1>2
  <2>5. cursor + 1..k.high \subseteq k.low..k.high /\ k.low..cursor \subseteq k.low..k.high
    BY <1>2, <2>2, <2>4
  <2>6. k.existing \in BOOLEAN /\ cursor + 1 \in Extent
    BY <1>2, <2>2, <2>4 DEF Job
  <2> QED  BY <1>2, <2>2, <2>3, <2>4, <2>5, <2>6
<1>3. CASE cursor = None
  BY <1>1, <1>3 DEF NextJobs, After, Before
<1>4. CASE cursor # None
  <2>1. \/ j \in RangeJobs
        \/ \E k \in RangeJobs : /\ ~k.existing /\ k.low <= cursor /\ k.high > cursor
                                /\ j \in {[k EXCEPT !.low = cursor + 1], [k EXCEPT !.high = cursor]}
    BY <1>4 DEF NextJobs, After, Before
  <2> QED  BY <1>1, <1>2, <1>4, <2>1
<1> QED  BY <1>3, <1>4

\* Only an acknowledgement and a certified chunk change the certificates.
LEMMA CertificatesChange ==
  ASSUME [Next]_vars, ~Acknowledge, ~CertifyChunk
  PROVE  UNCHANGED ranges
<1>1. CASE Write
  BY <1>1 DEF Write, UpdateRow, DeleteRow, InsertRow, MoveRow, Capture
<1>2. CASE OperatePg \/ Crash \/ (\E r \in RowIds : StrayWrite(r))
  BY <1>2 DEF OperatePg, Crash, StrayWrite
<1>3. CASE Replay \/ Reconcile
  BY <1>3 DEF Replay, Reconcile, SnapshotChanges, ApplyChanges, ReadChunk
<1>4. CASE Prepare \/ PrepareCommit \/ FinishGuardInstallation \/ VerifyBarrier
  BY <1>4 DEF Prepare, PrepareCommit, FinishGuardInstallation, VerifyBarrier
<1>5. CASE RestoreTriggers \/ RecordRestored \/ AbortCleanup \/ AbortFinish
  BY <1>5 DEF RestoreTriggers, RecordRestored, AbortCleanup, AbortFinish
<1> QED  BY <1>1, <1>2, <1>3, <1>4, <1>5 DEF Next, vars

\* Only reading a chunk makes the mirror hold one.
LEMMA ChunkHeld ==
  ASSUME [Next]_vars, ~ReadChunk, job'.at = "certify"
  PROVE  UNCHANGED job
<1>1. CASE Write
  BY <1>1 DEF Write, UpdateRow, DeleteRow, InsertRow, MoveRow, Capture
<1>2. CASE OperatePg \/ Crash \/ (\E r \in RowIds : StrayWrite(r))
  BY <1>2 DEF OperatePg, Crash, StrayWrite, Idle
<1>3. CASE Replay \/ CertifyChunk
  BY <1>3 DEF Replay, CertifyChunk, SnapshotChanges, ApplyChanges, Acknowledge, Idle
<1>4. CASE Prepare \/ PrepareCommit \/ FinishGuardInstallation \/ VerifyBarrier
  BY <1>4 DEF Prepare, PrepareCommit, FinishGuardInstallation, VerifyBarrier, Idle
<1>5. CASE RestoreTriggers \/ RecordRestored \/ AbortCleanup \/ AbortFinish
  BY <1>5 DEF RestoreTriggers, RecordRestored, AbortCleanup, AbortFinish, Idle
<1> QED  BY <1>1, <1>2, <1>3, <1>4, <1>5 DEF Next, Reconcile, vars

LEMMA InvalidatedFields ==
  ASSUME RangeInv, NEW touched, NEW d \in Invalidated(touched)
  PROVE  \E c \in ranges :
           /\ d = Certificate(d.low, d.high, d.valid, d.rows)
           /\ d.low = c.low /\ d.high = c.high /\ d.rows = c.rows /\ d.valid \in BOOLEAN
           /\ d.valid => c.valid /\ touched \cap (c.low..c.high) = {}
<1>1. PICK c \in ranges : d = [c EXCEPT !.valid = @ /\ touched \cap (c.low..c.high) = {}]
  BY DEF Invalidated
<1> DEFINE b == c.valid /\ touched \cap (c.low..c.high) = {}
<1>2. b \in BOOLEAN
  OBVIOUS
<1>3. d = [c EXCEPT !.valid = b]
  BY <1>1
<1> HIDE DEF b
<1>4. d = Certificate(c.low, c.high, b, c.rows)
  BY <1>3 DEF RangeInv, Certificate
<1>5. d.low = c.low /\ d.high = c.high /\ d.rows = c.rows /\ d.valid = b
  BY <1>4 DEF Certificate
<1>6. b => c.valid /\ touched \cap (c.low..c.high) = {}
  BY DEF b
<1> QED  BY <1>2, <1>4, <1>5, <1>6

\* Splitting and certifying keeps the recorded intervals apart.
LEMMA CertifiedFit ==
  ASSUME RangeInv, job.at = "certify"
  PROVE  /\ \A c \in Certified :
              /\ c.low \in Extent /\ c.high \in c.low..MaxRow /\ c.valid \in BOOLEAN
              /\ c = Certificate(c.low, c.high, c.valid, c.rows)
         /\ \A c, d \in Certified : c # d => c.low > d.high \/ d.low > c.high
<1> USE RecoveryAssumption DEF Extent
<1> DEFINE Cut == job.existing /\ job.high < job.end
           Upper == Certificate(job.high + 1, job.end, FALSE, NoRows)
           Old(c) == c \in ranges /\ c.low # job.low
<1>1. /\ job.low \in 0..MaxRow /\ job.end \in job.low..MaxRow /\ job.high \in job.low..job.end
      /\ job.existing \in BOOLEAN /\ job.pending \in BOOLEAN
  BY DEF RangeInv
<1>2. ASSUME NEW c, Old(c) PROVE c.low > job.end \/ c.high < job.low
  <2>1. c.low \in 0..MaxRow /\ c.high \in c.low..MaxRow
    BY <1>2 DEF RangeInv
  <2>2. CASE job.existing
    <3>1. PICK d \in ranges : d.low = job.low /\ d.high = job.end
      BY <2>2 DEF RangeInv
    <3> QED  BY <1>1, <1>2, <2>1, <3>1 DEF RangeInv
  <2>3. CASE ~job.existing
    <3>1. job.low..job.end \cap c.low..c.high = {}
      BY <1>2, <2>3 DEF RangeInv, Covered
    <3>2. c.low \notin job.low..job.end /\ job.low \notin c.low..c.high
      BY <1>1, <2>1, <3>1
    <3> QED  BY <1>1, <2>1, <3>2
  <2> QED  BY <1>1, <2>2, <2>3
<1>3. CASE job.pending /\ ~Cut
  <2>1. Certified \subseteq ranges
    BY <1>3 DEF Certified
  <2> QED  BY <2>1 DEF RangeInv
<1>4. CASE ~(job.pending /\ ~Cut)
  <2> DEFINE v == ~job.pending
             rows == IF job.pending THEN NoRows ELSE job.rows
             Lower == Certificate(job.low, job.high, v, rows)
  <2>1. v \in BOOLEAN /\ \A c \in Certified : Old(c) \/ (Cut /\ c = Upper) \/ c = Lower
    <3>1. CASE job.pending
      <4>1. v = FALSE /\ rows = NoRows
        BY <3>1
      <4> QED  BY <1>1, <1>4, <3>1, <4>1 DEF Certified
    <3>2. CASE ~job.pending
      <4>1. v = TRUE /\ rows = job.rows
        BY <3>2
      <4> QED  BY <1>1, <3>2, <4>1 DEF Certified
    <3> QED  BY <3>1, <3>2
  <2> HIDE DEF v, rows
  <2>2. /\ Lower.low = job.low /\ Lower.high = job.high /\ Lower.valid = v /\ Lower.rows = rows
        /\ Upper.low = job.high + 1 /\ Upper.high = job.end /\ Upper.valid = FALSE /\ Upper.rows = NoRows
        /\ Lower = Certificate(Lower.low, Lower.high, Lower.valid, Lower.rows)
        /\ Upper = Certificate(Upper.low, Upper.high, Upper.valid, Upper.rows)
    BY DEF Certificate
  <2> HIDE DEF Lower, Upper
  <2>3. \A c \in Certified :
          /\ c.low \in 0..MaxRow /\ c.high \in c.low..MaxRow /\ c.valid \in BOOLEAN
          /\ c = Certificate(c.low, c.high, c.valid, c.rows)
    <3> SUFFICES ASSUME NEW c \in Certified
                 PROVE  /\ c.low \in 0..MaxRow /\ c.high \in c.low..MaxRow /\ c.valid \in BOOLEAN
                        /\ c = Certificate(c.low, c.high, c.valid, c.rows)
      OBVIOUS
    <3>1. CASE Old(c)
      BY <3>1 DEF RangeInv
    <3>2. CASE Cut /\ c = Upper
      <4>1. c.low \in 0..MaxRow /\ c.high \in c.low..MaxRow
        BY <1>1, <2>2, <3>2
      <4> QED  BY <2>2, <3>2, <4>1
    <3>3. CASE c = Lower
      <4>1. c.low \in 0..MaxRow /\ c.high \in c.low..MaxRow
        BY <1>1, <2>2, <3>3
      <4> QED  BY <2>1, <2>2, <3>3, <4>1
    <3> QED  BY <2>1, <3>1, <3>2, <3>3
  <2>4. ASSUME NEW c \in Certified, NEW d \in Certified, c # d
        PROVE  c.low > d.high \/ d.low > c.high
    <3> DEFINE Apart(x, y) == x.low > y.high \/ y.low > x.high
    <3>1. CASE Old(c) /\ Old(d)
      BY <2>4, <3>1 DEF RangeInv
    <3>2. ASSUME NEW x \in Certified, Old(x)
          PROVE  /\ Apart(x, Lower) /\ Apart(Lower, x)
                 /\ Cut => Apart(x, Upper) /\ Apart(Upper, x)
      <4>1. x.low \in 0..MaxRow /\ x.high \in x.low..MaxRow
        BY <2>3
      <4>2. x.low > job.end \/ x.high < job.low
        BY <1>2, <3>2
      <4> QED  BY <1>1, <2>2, <4>1, <4>2
    <3>3. Cut => Apart(Lower, Upper) /\ Apart(Upper, Lower)
      BY <1>1, <2>2
    <3>4. c = Lower \/ Old(c) \/ (Cut /\ c = Upper)
      BY <2>1, <2>4
    <3>5. d = Lower \/ Old(d) \/ (Cut /\ d = Upper)
      BY <2>1, <2>4
    <3>6. CASE Old(c) /\ ~Old(d)
      BY <3>2, <3>5, <3>6
    <3>7. CASE ~Old(c) /\ Old(d)
      BY <3>2, <3>4, <3>7
    <3>8. CASE ~Old(c) /\ ~Old(d)
      BY <2>4, <3>3, <3>4, <3>5, <3>8
    <3> QED  BY <3>1, <3>6, <3>7, <3>8
  <2> QED  BY <2>3, <2>4
<1> QED  BY <1>3, <1>4

LEMMA RangeStep == StandbyInv /\ CountInv /\ RangeInv /\ [Next]_vars => RangeInv'
<1> SUFFICES ASSUME StandbyInv, CountInv, RangeInv, [Next]_vars PROVE RangeInv'
  OBVIOUS
<1> USE RecoveryAssumption
<1>1. CASE CertifyChunk
  BY <1>1, CertifiedFit DEF CertifyChunk, RangeInv, Idle, Certificate
<1>2. CASE Acknowledge
  <2>1. /\ job' = Idle /\ ranges' = Invalidated(job.touched)
    BY <1>2 DEF Acknowledge
  <2>2. \A d \in ranges' : \E c \in ranges :
          /\ d = Certificate(d.low, d.high, d.valid, d.rows)
          /\ d.low = c.low /\ d.high = c.high /\ d.valid \in BOOLEAN
          /\ d = [c EXCEPT !.valid = @ /\ job.touched \cap (c.low..c.high) = {}]
    <3>1. ASSUME NEW d \in ranges'
          PROVE  \E c \in ranges : d = [c EXCEPT !.valid = @ /\ job.touched \cap (c.low..c.high) = {}]
      BY <2>1 DEF Invalidated
    <3> QED  BY <2>1, <3>1, InvalidatedFields DEF RangeInv, Certificate
  <2>3. \A c, d \in ranges : c.low = d.low => c = d
    BY DEF RangeInv, Extent
  <2> QED  BY <2>1, <2>2, <2>3 DEF RangeInv, Idle, Certificate
<1>3. CASE ReadChunk
  <2>1. PICK j \in NextJobs(cursor) : \E high \in j.low..j.high :
          /\ job' = [at |-> "certify", low |-> j.low, high |-> high, end |-> j.high,
                     existing |-> j.existing, pending |-> ChunkPending(j.low, high),
                     rows |-> Content(pg, j.low, high)]
          /\ UNCHANGED ranges
    BY <1>3 DEF ReadChunk
  <2>2. \A high : ChunkPending(j.low, high) \in BOOLEAN
    BY DEF ChunkPending
  <2>3. /\ j.low \in 0..MaxRow /\ j.high \in 0..MaxRow /\ j.existing \in BOOLEAN
        /\ j.existing => \E c \in ranges : c.low = j.low /\ c.high = j.high /\ ~c.valid
        /\ ~j.existing => j.low..j.high \cap Covered = {}
    BY JobsFit DEF Extent
  <2>4. PICK high \in j.low..j.high :
          job' = [at |-> "certify", low |-> j.low, high |-> high, end |-> j.high,
                  existing |-> j.existing, pending |-> ChunkPending(j.low, high),
                  rows |-> Content(pg, j.low, high)]
    BY <2>1
  <2>5. j.high \in j.low..MaxRow
    BY <2>3, <2>4
  <2> QED  BY <2>1, <2>2, <2>3, <2>4, <2>5 DEF RangeInv, Extent, Covered
<1>4. CASE ~CertifyChunk /\ ~Acknowledge /\ ~ReadChunk
  BY <1>4, CertificatesChange, ChunkHeld DEF RangeInv, Covered
<1> QED  BY <1>1, <1>2, <1>3, <1>4

\* The writers: what a captured transaction leaves pending covers all it changed.
LEMMA WriteCaptured ==
  ASSUME StandbyInv, Write
  PROVE  \E changed \in SUBSET RowIds :
           /\ Capture(changed)
           /\ \A r \in RowIds \ changed : pg'[r] = pg[r]
<1>1. pg \in [RowIds -> Row \cup {None}]
  BY DEF StandbyInv, DataType
<1>2. ASSUME NEW r \in RowIds, UpdateRow(r) \/ DeleteRow(r) \/ \E k \in Keys : InsertRow(r, k)
      PROVE  Capture({r}) /\ \A q \in RowIds \ {r} : pg'[q] = pg[q]
  BY <1>1, <1>2 DEF UpdateRow, DeleteRow, InsertRow
<1>3. ASSUME NEW r \in RowIds, NEW s \in RowIds, MoveRow(r, s)
      PROVE  Capture({r, s}) /\ \A q \in RowIds \ {r, s} : pg'[q] = pg[q]
  BY <1>1, <1>3 DEF MoveRow
<1>4. PICK r \in RowIds : \/ UpdateRow(r) \/ DeleteRow(r) \/ \E k \in Keys : InsertRow(r, k)
                          \/ \E s \in RowIds : MoveRow(r, s)
  BY DEF Write
<1>5. CASE UpdateRow(r) \/ DeleteRow(r) \/ \E k \in Keys : InsertRow(r, k)
  <2>1. {r} \in SUBSET RowIds
    OBVIOUS
  <2> QED  BY <1>2, <1>5, <2>1
<1>6. CASE \E s \in RowIds : MoveRow(r, s)
  <2>1. PICK s \in RowIds : MoveRow(r, s)
    BY <1>6
  <2>2. {r, s} \in SUBSET RowIds
    OBVIOUS
  <2> QED  BY <1>3, <2>1, <2>2
<1> QED  BY <1>4, <1>5, <1>6

LEMMA ContentStep == StandbyInv /\ RangeInv /\ ContentInv /\ [Next]_vars => ContentInv'
<1> SUFFICES ASSUME StandbyInv, RangeInv, ContentInv, [Next]_vars, sqliteWrites' = 0
             PROVE  ContentInv'
  BY DEF ContentInv
<1>1. CASE Write
  <2>1. PICK changed \in SUBSET RowIds : Capture(changed) /\ \A r \in RowIds \ changed : pg'[r] = pg[r]
    BY <1>1, WriteCaptured
  <2>2. /\ UNCHANGED <<ranges, sqliteWrites>> /\ counter \in Nat
        /\ pending' = [r \in RowIds |-> IF r \in changed THEN counter + 1 ELSE pending[r]]
    BY <2>1 DEF Capture, StandbyInv, DataType
  <2>3. ASSUME NEW low, NEW high, ~ChunkPending(low, high)'
        PROVE  ~ChunkPending(low, high) /\ Content(pg, low, high)' = Content(pg, low, high)
    <3>1. \A r \in RowIds \cap low..high : pending'[r] = 0 /\ r \notin changed /\ pending[r] = 0
      BY <2>2, <2>3 DEF ChunkPending
    <3>2. \A r \in RowIds \cap low..high : pg'[r] = pg[r]
      BY <2>1, <3>1
    <3> QED  BY <3>1, <3>2, SameContent DEF ChunkPending
  <2> QED  BY <2>2, <2>3 DEF ContentInv
<1>2. CASE Acknowledge
  <2>1. /\ ranges' = Invalidated(job.touched) /\ UNCHANGED <<pg, sqliteWrites>>
        /\ pending' = [r \in RowIds |-> IF Acked(r, job.changes) THEN 0 ELSE pending[r]]
        /\ DOMAIN job.changes \subseteq job.touched
    BY <1>2 DEF Acknowledge, StandbyInv, AckInv, dataVars
  <2>2. ASSUME NEW d \in ranges', d.valid, ~ChunkPending(d.low, d.high)'
        PROVE  d.rows = Content(pg, d.low, d.high)
    <3>2. PICK c \in ranges : /\ d.low = c.low /\ d.high = c.high /\ d.rows = c.rows
                              /\ c.valid /\ job.touched \cap (c.low..c.high) = {}
      BY <2>1, <2>2, InvalidatedFields
    <3>3. ~ChunkPending(c.low, c.high)
      BY <2>1, <2>2, <3>2 DEF ChunkPending, Acked
    <3> QED  BY <2>1, <3>2, <3>3 DEF ContentInv
  <2> QED  BY <2>1, <2>2 DEF ContentInv, Content, Present
<1>3. CASE CertifyChunk
  <2>1. /\ job.at = "certify" /\ ranges' = Certified /\ UNCHANGED <<pg, sqlite, pending, sqliteWrites>>
        /\ ~job.pending => Content(sqlite, job.low, job.high) = job.rows
    BY <1>3 DEF CertifyChunk, dataVars, journalVars
  <2>2. ASSUME NEW c \in Certified, c.valid, ~ChunkPending(c.low, c.high)
        PROVE  c.rows = Content(pg, c.low, c.high)
    <3>1. CASE c \in ranges
      BY <2>1, <2>2, <3>1 DEF ContentInv
    <3>2. CASE c \notin ranges
      <4>1. ~job.pending /\ c = Certificate(job.low, job.high, TRUE, job.rows)
        BY <2>2, <3>2 DEF Certified, Certificate
      <4>2. c.low = job.low /\ c.high = job.high /\ c.rows = job.rows
        BY <4>1 DEF Certificate
      <4> QED  BY <2>1, <2>2, <4>1, <4>2, MirroredContent DEF StandbyInv
    <3> QED  BY <3>1, <3>2
  <2> QED  BY <2>1, <2>2 DEF ContentInv, Content, Present, ChunkPending
<1>4. CASE ~Write /\ ~Acknowledge /\ ~CertifyChunk
  <2>1. UNCHANGED ranges
    BY <1>4, CertificatesChange
  <2>2. sqliteWrites = 0 /\ UNCHANGED <<pg, pending>>
    <3>1. ASSUME NEW r \in RowIds, StrayWrite(r) PROVE FALSE
      BY <3>1 DEF StrayWrite, StandbyInv, PhaseInv
    <3>2. CASE OperatePg \/ Crash \/ UNCHANGED vars
      BY <3>2 DEF OperatePg, Crash, vars, dataVars, journalVars
    <3>3. CASE Replay \/ Reconcile
      BY <1>4, <3>3 DEF Replay, Reconcile, SnapshotChanges, ApplyChanges, ReadChunk, dataVars, journalVars
    <3>4. CASE Prepare \/ PrepareCommit \/ FinishGuardInstallation \/ VerifyBarrier
      BY <3>4 DEF Prepare, PrepareCommit, FinishGuardInstallation, VerifyBarrier, dataVars, journalVars
    <3>5. CASE RestoreTriggers \/ RecordRestored \/ AbortCleanup \/ AbortFinish
      BY <3>5 DEF RestoreTriggers, RecordRestored, AbortCleanup, AbortFinish, dataVars, journalVars
    <3> QED  BY <1>4, <3>1, <3>2, <3>3, <3>4, <3>5 DEF Next
  <2> QED  BY <2>1, <2>2 DEF ContentInv, Content, Present, ChunkPending
<1> QED  BY <1>1, <1>2, <1>3, <1>4

\* What a promotion and an abort rest on, once they hold it, no step takes away.
LEMMA PromotionStep ==
  StandbyInv /\ ContentInv /\ PromotionInv /\ [Next]_vars => PromotionInv'
<1> SUFFICES ASSUME StandbyInv, ContentInv, PromotionInv, [Next]_vars PROVE PromotionInv'
  OBVIOUS
<1>1. CASE Write
  <2>1. PICK changed : Capture(changed)
    BY <1>1, WriteCaptured
  <2>2. /\ owner = "active" /\ job.at # "restored"
        /\ UNCHANGED <<owner, job, archive>>
    BY <2>1 DEF Capture, stateVars
  <2> QED  BY <2>2 DEF PromotionInv
<1>2. CASE \E r \in RowIds : StrayWrite(r)
  <2>1. sqliteWrites' # 0 /\ UNCHANGED <<pending, owner, job, archive>>
    BY <1>2 DEF StrayWrite, StandbyInv, PhaseInv, journalVars, stateVars
  <2> QED  BY <2>1 DEF PromotionInv, NothingPending
<1>3. CASE Replay \/ Reconcile
  <2>1. /\ ValidFile => owner = "active"
        /\ job.at \in {"apply", "ack", "certify"} => owner = "active"
    BY DEF StandbyInv, PhaseInv, ValidFile
  <2>2. owner = "active" /\ owner' = "active" /\ job'.at \notin {"restored", "cleaned"} /\ UNCHANGED archive
    BY <1>3, <2>1
    DEF Replay, Reconcile, SnapshotChanges, ApplyChanges, Acknowledge, ReadChunk, CertifyChunk, Idle, stateVars
  <2> QED  BY <2>2 DEF PromotionInv
<1>4. CASE OperatePg \/ Crash \/ VerifyBarrier \/ Prepare \/ PrepareCommit \/ FinishGuardInstallation
           \/ UNCHANGED vars
  <2>1. /\ UNCHANGED <<sqlite, pending, sqliteWrites, archive>>
        /\ job' = job \/ job'.at \notin {"restored", "cleaned"}
        /\ owner' = owner \/ (owner = "none" /\ owner' = "active")
    BY <1>4 DEF OperatePg, Crash, VerifyBarrier, Prepare, PrepareCommit, FinishGuardInstallation,
                Idle, vars, dataVars, journalVars, stateVars
  <2> QED  BY <2>1 DEF PromotionInv, NothingPending, Content, Present
<1>5. CASE RestoreTriggers
  <2>1. /\ owner = "active" /\ NothingPending /\ job' = [at |-> "restored"]
        /\ UNCHANGED <<pending, owner, archive>>
    BY <1>5 DEF RestoreTriggers, VerifiedNow, journalVars
  <2> QED  BY <2>1 DEF PromotionInv, NothingPending
<1>6. CASE RecordRestored
  <2>1. /\ job.at = "restored" /\ owner' = "restored" /\ job' = Idle
        /\ UNCHANGED <<sqlite, pending, sqliteWrites, archive>>
    BY <1>6 DEF RecordRestored, dataVars, journalVars
  <2>2. owner # "removed"
    BY <2>1 DEF PromotionInv
  <2> QED  BY <2>1, <2>2 DEF PromotionInv, NothingPending, Idle
<1>7. CASE AbortCleanup
  <2>1. /\ NothingPending /\ sqliteWrites = 0 /\ \A c \in ranges : c.valid
        /\ archive' = [certificates |-> ranges, removed |-> FALSE]
        /\ owner' = "removed" /\ job' = [at |-> "cleaned"]
        /\ UNCHANGED <<sqlite, pending, sqliteWrites>>
    BY <1>7 DEF AbortCleanup, AllCertified, VerifiedNow, dataVars, journalVars
  <2>2. \A c \in ranges : c.rows = Content(sqlite, c.low, c.high)
    <3>1. ASSUME NEW c \in ranges PROVE ~ChunkPending(c.low, c.high)
      BY <2>1 DEF NothingPending, ChunkPending
    <3> QED  BY <2>1, <3>1, MirroredContent DEF ContentInv, StandbyInv
  <2> QED  BY <2>1, <2>2 DEF PromotionInv, NothingPending, Content, Present
<1>8. CASE AbortFinish
  <2>1. /\ owner = "removed" /\ archive' = [archive EXCEPT !.removed = TRUE] /\ job' = Idle
        /\ UNCHANGED <<sqlite, pending, sqliteWrites, owner>>
    BY <1>8 DEF AbortFinish, PromotionInv, dataVars, journalVars
  <2>2. archive' = [certificates |-> archive.certificates, removed |-> TRUE]
    BY <2>1 DEF PromotionInv
  <2>3. archive'.certificates = archive.certificates /\ archive'.removed = TRUE
    BY <2>2
  <2>4. archive' = [certificates |-> archive'.certificates, removed |-> archive'.removed]
    BY <2>2, <2>3
  <2> QED  BY <2>1, <2>3, <2>4 DEF PromotionInv, NothingPending, Idle, Content, Present
<1> QED  BY <1>1, <1>2, <1>3, <1>4, <1>5, <1>6, <1>7, <1>8 DEF Next

LEMMA InitRanges == Init => RangeInv /\ ContentInv /\ PromotionInv /\ CountInv
<1> SUFFICES ASSUME Init PROVE RangeInv /\ ContentInv /\ PromotionInv /\ CountInv
  OBVIOUS
<1> USE RecoveryAssumption DEF Init
<1>1. RangeInv
  BY DEF RangeInv, Extent, Certificate, Idle
<1>2. ContentInv
  BY DEF ContentInv
<1>3. PromotionInv
  BY DEF PromotionInv, NothingPending, Idle
<1>4. pgOpen \in BOOLEAN
  OBVIOUS
<1>5. CountInv
  BY <1>4 DEF CountInv, Idle
<1> QED  BY <1>1, <1>2, <1>3, <1>5

-----------------------------------------------------------------------------
(* The theorems.                                                            *)

\* Every invariant together: each step uses several of them.
RecoveryInv == StandbyInv /\ RangeInv /\ ContentInv /\ PromotionInv /\ CountInv

LEMMA RecoveryInvariant == Spec => []RecoveryInv
<1>1. Init => RecoveryInv
  BY InitStandby, InitRanges DEF RecoveryInv
<1>2. RecoveryInv /\ [Next]_vars => RecoveryInv'
  BY StandbyStep, RangeStep, ContentStep, PromotionStep, CountStep DEF RecoveryInv
<1> QED  BY <1>1, <1>2, PTL DEF Spec

\* The state of the mirror, its certificates and the chunk it holds are well
\* formed: recorded intervals stay disjoint however they are split.
THEOREM TypeCorrect == Spec => []TypeOK
<1>1. RecoveryInv => TypeOK
  <2> SUFFICES ASSUME RecoveryInv PROVE TypeOK
    OBVIOUS
  <2>1. pending \in [RowIds -> 0..counter]
    BY DEF RecoveryInv, StandbyInv, DataType
  <2> QED  BY <2>1 DEF RecoveryInv, StandbyInv, DataType, PhaseInv, RangeInv, CountInv, TypeOK, Table
<1> QED  BY <1>1, RecoveryInvariant, PTL

\* While the standby is guarded a row that differs from PostgreSQL has a
\* pending change: replay, its crashes and concurrent writers lose nothing.
THEOREM ChangesKept == Spec => []NoChangeLost
<1>1. RecoveryInv => NoChangeLost
  BY DEF RecoveryInv, StandbyInv, PhaseInv, MirrorInv, NoChangeLost, ValidFile
<1> QED  BY <1>1, RecoveryInvariant, PTL

\* What verify_barrier relies on: a valid certificate over quiet rows states
\* the content of both sides, whatever was replayed, written or split since.
THEOREM CertificatesHold == Spec => []CertificatesTrue
<1>1. RecoveryInv => CertificatesTrue
  <2> SUFFICES ASSUME RecoveryInv, ValidFile,
                      NEW c \in ranges, c.valid, ~ChunkPending(c.low, c.high)
               PROVE  /\ c.rows = Content(sqlite, c.low, c.high)
                      /\ c.rows = Content(pg, c.low, c.high)
    BY DEF CertificatesTrue
  <2>1. sqliteWrites = 0
    BY DEF RecoveryInv, StandbyInv, PhaseInv, ValidFile
  <2> QED  BY <2>1, MirroredContent DEF RecoveryInv, StandbyInv, ContentInv
<1> QED  BY <1>1, RecoveryInvariant, PTL

\* The promoted SQLite file is PostgreSQL's content and the abort archive's
\* certificates describe it, until the file's own application writes.
THEOREM PromotionExact == Spec => []PromotedEqualsPostgres
<1>1. RecoveryInv => PromotedEqualsPostgres
  <2> SUFFICES ASSUME RecoveryInv, owner \in {"restored", "removed"}, sqliteWrites = 0
               PROVE  /\ sqlite = pg
                      /\ archive # None =>
                           \A c \in archive.certificates : c.rows = Content(sqlite, c.low, c.high)
    BY DEF PromotedEqualsPostgres
  <2>1. \A r \in RowIds : sqlite[r] = pg[r]
    BY DEF RecoveryInv, StandbyInv, MirrorInv, PromotionInv, NothingPending
  <2>2. sqlite = pg
    BY <2>1 DEF RecoveryInv, StandbyInv, DataType
  <2> QED  BY <2>2 DEF RecoveryInv, PromotionInv
<1> QED  BY <1>1, RecoveryInvariant, PTL

=============================================================================
