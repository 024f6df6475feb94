--------------------------- MODULE StorageRecovery ---------------------------
(***************************************************************************)
(* The guarded SQLite standby of one PostgreSQL schema                     *)
(* (storage_recovery.py, storage_recovery_worker.py): prepare, bounded     *)
(* replay of captured changes, range certificates, the verification        *)
(* barrier, promotion of the SQLite file and removal of the generation.    *)
(*                                                                         *)
(* One table.  A row is its primary key and the change that wrote it; it   *)
(* lives under a hidden rowid, which an update may change and a later      *)
(* insert may reuse.  One RecoveryMirror exists per schema (a session      *)
(* advisory lock), so its operations are sequential; writers are not.      *)
(***************************************************************************)
EXTENDS Integers, FiniteSets

CONSTANTS
  Keys,        \* primary keys
  MaxRow,      \* rowids are 1..MaxRow; 0 is the bound of an empty table
  BatchRows,   \* batch_rows
  None,
  MaxWrites,   \* bound: PostgreSQL changes captured
  MaxStray,    \* bound: writes of an application on the SQLite file
  MaxFaults    \* bound: crashes of the mirror's process

ASSUME RecoveryAssumption ==
  /\ MaxRow \in Nat \ {0} /\ BatchRows \in Nat \ {0}
  /\ MaxWrites \in Nat /\ MaxStray \in Nat /\ MaxFaults \in Nat
  /\ None \notin Int

VARIABLES
  pg, sqlite,     \* the table's content on either side
  pending,        \* _changes: sequence of the latest unacknowledged change, or 0
  counter,        \* sequence of the latest captured change
  ranges,         \* certificates
  owner,          \* state of the recovery generation
  verified,       \* last_verified_seq
  triggers,       \* which triggers the SQLite file carries
  sqliteWrites,   \* writes its own triggers counted since the forward barrier
  archive,        \* the abort archive's certificates, once saved
  pgOpen,         \* has the operator PostgreSQL writers running?
  job,            \* what the mirror holds between two transactions
  cursor,         \* _range_cursors
  faults

dataVars == <<pg, sqlite>>
journalVars == <<pending, counter>>
stateVars == <<owner, verified, triggers, archive>>
vars == <<dataVars, journalVars, ranges, stateVars, sqliteWrites, pgOpen, job, cursor, faults>>

RowIds == 1..MaxRow
Extent == 0..MaxRow
Row == [key : Keys, write : -1..MaxWrites]
Table == [RowIds -> Row \cup {None}]
Present(t) == {r \in RowIds : t[r] # None}
KeysOf(t) == {t[r].key : r \in Present(t)}
\* Content of an interval: what its digest and row count stand for.
Content(t, low, high) == [r \in Present(t) \cap low..high |-> t[r]]

Idle == [at |-> "idle"]
NothingPending == \A r \in RowIds : pending[r] = 0

TypeOK ==
  /\ pg \in Table /\ sqlite \in Table
  /\ pending \in [RowIds -> 0..counter] /\ counter \in 0..MaxWrites
  /\ \A c \in ranges : c.low \in Extent /\ c.high \in c.low..MaxRow /\ c.valid \in BOOLEAN
  /\ \A c, d \in ranges : c # d => c.low > d.high \/ d.low > c.high
  /\ owner \in {"none", "active", "restored", "removed"}
  /\ verified \in 0..counter \cup {None}
  /\ triggers \in {"original", "guards", "restored"}
  /\ sqliteWrites \in 0..MaxStray
  /\ pgOpen \in BOOLEAN
  /\ job.at \in {"idle", "prepared", "apply", "ack", "certify", "restored", "cleaned"}
  /\ cursor \in Extent \cup {None}
  /\ faults \in 0..MaxFaults

\* The forward barrier: both sides equal, the first rowid certified, nobody
\* writing.
Init ==
  /\ \E k \in Keys : pg = [r \in RowIds |-> IF r = 1 THEN [key |-> k, write |-> 0] ELSE None]
  /\ sqlite = pg
  /\ pending = [r \in RowIds |-> 0] /\ counter = 0
  /\ ranges = {[low |-> 1, high |-> 1, valid |-> TRUE, rows |-> Content(pg, 1, 1)]}
  /\ owner = "none" /\ verified = None /\ triggers = "original" /\ archive = None
  /\ sqliteWrites = 0 /\ pgOpen = FALSE /\ job = Idle /\ cursor = None /\ faults = 0

-----------------------------------------------------------------------------
(* Writers.                                                                 *)

\* A PostgreSQL transaction and its capture trigger: refused unless the
\* generation is active, made to wait by the barrier's advisory lock.
Capture(changed) ==
  /\ pgOpen /\ owner = "active" /\ job.at # "restored"
  /\ counter < MaxWrites
  /\ counter' = counter + 1
  /\ pending' = [r \in RowIds |-> IF r \in changed THEN counter + 1 ELSE pending[r]]
  /\ UNCHANGED <<sqlite, ranges, stateVars, sqliteWrites, pgOpen, job, cursor, faults>>

InsertRow(r, k) ==
  /\ pg[r] = None /\ k \notin KeysOf(pg)
  /\ Capture({r})
  /\ pg' = [pg EXCEPT ![r] = [key |-> k, write |-> counter + 1]]

UpdateRow(r) ==
  /\ pg[r] # None
  /\ Capture({r})
  /\ pg' = [pg EXCEPT ![r].write = counter + 1]

DeleteRow(r) ==
  /\ pg[r] # None
  /\ Capture({r})
  /\ pg' = [pg EXCEPT ![r] = None]

\* An update that changes the hidden rowid records both identities.
MoveRow(r, s) ==
  /\ pg[r] # None /\ pg[s] = None
  /\ Capture({r, s})
  /\ pg' = [pg EXCEPT ![s] = [pg[r] EXCEPT !.write = counter + 1], ![r] = None]

\* An application writes to the SQLite file: the promoted one, or one that
\* should not be running.  The guards refuse it, an open transaction delays it.
StrayWrite(r) ==
  /\ sqliteWrites < MaxStray
  /\ triggers # "guards" /\ job.at \notin {"prepared", "cleaned"}
  /\ sqlite[r] # None
  /\ sqlite' = [sqlite EXCEPT ![r].write = -1]
  /\ sqliteWrites' = sqliteWrites + 1
  /\ UNCHANGED <<pg, journalVars, ranges, stateVars, pgOpen, job, cursor, faults>>

\* The operator starts PostgreSQL writers once prepare has returned, and stops
\* them whenever he likes.
OperatePg ==
  /\ ~pgOpen => owner = "active" /\ triggers # "original"
  /\ pgOpen' = ~pgOpen
  /\ UNCHANGED <<dataVars, journalVars, ranges, stateVars, sqliteWrites, job, cursor, faults>>

-----------------------------------------------------------------------------
(* prepare: PostgreSQL commits the generation first, then SQLite its guards. *)

Prepare ==
  /\ job = Idle /\ owner = "none"
  /\ sqliteWrites = 0
  /\ owner' = "active"
  /\ job' = [at |-> "prepared"]
  /\ UNCHANGED <<dataVars, journalVars, ranges, verified, triggers, archive, sqliteWrites, pgOpen, cursor, faults>>

PrepareCommit ==
  /\ job.at = "prepared"
  /\ triggers' = "guards" /\ job' = Idle
  /\ UNCHANGED <<dataVars, journalVars, ranges, owner, verified, archive, sqliteWrites, pgOpen, cursor, faults>>

\* prepare again after a crash between the two commits.
FinishGuardInstallation ==
  /\ job = Idle /\ owner = "active"
  /\ triggers = "original" /\ sqliteWrites = 0
  /\ triggers' = "guards"
  /\ UNCHANGED <<dataVars, journalVars, ranges, owner, verified, archive, sqliteWrites, pgOpen, job, cursor, faults>>

\* _validate_file(active=True): the generation is active and the file still
\* carries the guards (its schema version is the recorded one).
ValidFile == owner = "active" /\ triggers = "guards"

-----------------------------------------------------------------------------
(* replay: one snapshot, one SQLite commit, one conditional acknowledgement. *)

\* The first BatchRows entries of the journal in (seq, row) order.
Batch == {r \in RowIds :
  /\ pending[r] # 0
  /\ Cardinality({q \in RowIds : /\ pending[q] # 0
                                 /\ \/ pending[q] < pending[r]
                                    \/ pending[q] = pending[r] /\ q < r}) < BatchRows}

SnapshotChanges ==
  /\ job = Idle /\ ValidFile
  /\ Batch # {}
  /\ job' = [at |-> "apply", changes |-> [r \in Batch |-> pending[r]],
             observed |-> [r \in Batch |-> pg[r]]]
  /\ UNCHANGED <<dataVars, journalVars, ranges, stateVars, sqliteWrites, pgOpen, cursor, faults>>

\* A row of the file whose primary key the batch observed under another rowid.
Displaced(observed) == {q \in Present(sqlite) \ DOMAIN observed :
  \E r \in DOMAIN observed : observed[r] # None /\ observed[r].key = sqlite[q].key}

\* _apply: obsolete identities of the whole batch go first, then each row is
\* upserted by primary key and takes its rowid.
ApplyChanges ==
  /\ job.at = "apply" /\ ValidFile
  /\ LET observed == job.observed
     IN /\ sqlite' = [r \in RowIds |-> IF r \in DOMAIN observed THEN observed[r]
                                       ELSE IF r \in Displaced(observed) THEN None ELSE sqlite[r]]
        /\ job' = [at |-> "ack", changes |-> job.changes,
                   touched |-> DOMAIN observed \cup Displaced(observed)]
  /\ UNCHANGED <<pg, journalVars, ranges, stateVars, sqliteWrites, pgOpen, cursor, faults>>

\* Mutant: certificates survive a replayed change.
CertificatesKept(touched) == IF touched = {} THEN {} ELSE ranges
Invalidated(touched) ==
  {[c EXCEPT !.valid = @ /\ touched \cap (c.low..c.high) = {}] : c \in ranges}

\* Mutant: the acknowledgement ignores the sequence it read.
AckedAlways(r, changes) == r \in DOMAIN changes
\* DELETE ... WHERE seq = the sequence this batch read.
Acked(r, changes) == r \in DOMAIN changes /\ pending[r] = changes[r]

Acknowledge ==
  /\ job.at = "ack"
  /\ ranges' = Invalidated(job.touched)
  /\ pending' = [r \in RowIds |-> IF Acked(r, job.changes) THEN 0 ELSE pending[r]]
  /\ job' = Idle
  /\ UNCHANGED <<dataVars, counter, stateVars, sqliteWrites, pgOpen, cursor, faults>>

-----------------------------------------------------------------------------
(* reconcile_ranges: certify one bounded chunk at a time.                   *)

\* _bounds over both sides, (0, 0) when both are empty, and the recorded ranges:
\* the interval they span is what has to be certified.
Bounds == LET rows == Present(pg) \cup Present(sqlite) IN IF rows = {} THEN {0} ELSE rows
Covered == UNION {c.low..c.high : c \in ranges}
Span == {r \in Extent : \E a, b \in Bounds \cup Covered : a <= r /\ r <= b}

\* _range_jobs: dirty certificates, and the gaps between and around them.
Job == [low : Extent, high : Extent, existing : BOOLEAN]
Gaps == LET open == Span \ Covered
        IN {g \in Job : /\ ~g.existing
                        /\ g.low <= g.high /\ g.low..g.high \subseteq open
                        /\ g.low - 1 \notin open /\ g.high + 1 \notin open}
RangeJobs ==
  {[low |-> c.low, high |-> c.high, existing |-> TRUE] : c \in {d \in ranges : ~d.valid}}
  \cup Gaps

\* The jobs after the cursor, then those before it; a gap may be cut by it.
After(c) == IF c = None THEN RangeJobs
            ELSE {j \in RangeJobs : j.low > c}
                 \cup {[j EXCEPT !.low = c + 1] : j \in {g \in RangeJobs : ~g.existing /\ g.low <= c /\ g.high > c}}
Before(c) == IF c = None THEN {}
             ELSE {j \in RangeJobs : j.low <= c /\ (j.existing \/ j.high <= c)}
                  \cup {[j EXCEPT !.high = c] : j \in {g \in RangeJobs : ~g.existing /\ g.low <= c /\ g.high > c}}
\* Mutant: a pass never returns to what lies before its cursor.
NextJobsAhead(c) == After(c)
NextJobs(c) == IF After(c) # {} THEN After(c) ELSE Before(c)

\* The chunk of a job: up to the last of the first BatchRows present rows, or
\* all of it when no row is left behind.
IsChunkEnd(j, high) ==
  LET rows == Present(pg) \cap j.low..j.high
      before == {q \in rows : q <= high}
  IN IF Cardinality(rows) <= BatchRows THEN high = j.high
     ELSE high \in rows /\ Cardinality(before) = BatchRows

ChunkPending(low, high) == \E r \in RowIds \cap low..high : pending[r] # 0

\* One read-only snapshot: is a change pending, and if not the rows.
ReadChunk ==
  /\ job = Idle /\ ValidFile
  /\ \E j \in NextJobs(cursor) :
       /\ \A k \in NextJobs(cursor) : j.low <= k.low
       /\ \E high \in j.low..j.high :
            /\ IsChunkEnd(j, high)
            /\ job' = [at |-> "certify", low |-> j.low, high |-> high, end |-> j.high,
                       existing |-> j.existing, pending |-> ChunkPending(j.low, high),
                       rows |-> Content(pg, j.low, high)]
  /\ UNCHANGED <<dataVars, journalVars, ranges, stateVars, sqliteWrites, pgOpen, cursor, faults>>

Certificate(low, high, valid, rows) == [low |-> low, high |-> high, valid |-> valid, rows |-> rows]
NoRows == Content(pg, 1, 0)

\* Mutant: a split forgets to shorten the certificate it splits.
CertifiedLong ==
  {c \in ranges : c.low # job.low}
  \cup (IF job.existing /\ job.high < job.end
        THEN {Certificate(job.high + 1, job.end, FALSE, NoRows)} ELSE {})
  \cup (IF job.pending THEN {c \in ranges : c.low = job.low}
        ELSE {Certificate(job.low, job.end, TRUE, job.rows)})

\* A dirty certificate larger than the chunk is split; an unchanged chunk gets
\* a valid one.
Certified ==
  LET cut == job.existing /\ job.high < job.end
  IN {c \in ranges : c.low # job.low}
     \cup (IF cut THEN {Certificate(job.high + 1, job.end, FALSE, NoRows)} ELSE {})
     \cup (IF ~job.pending THEN {Certificate(job.low, job.high, TRUE, job.rows)}
           ELSE IF cut THEN {Certificate(job.low, job.high, FALSE, NoRows)}
           ELSE {c \in ranges : c.low = job.low})

\* Compare with the standby (a difference would raise) and record the result.
CertifyChunk ==
  /\ job.at = "certify"
  /\ ~job.pending => Content(sqlite, job.low, job.high) = job.rows
  /\ ranges' = Certified
  /\ cursor' = job.high
  /\ job' = Idle
  /\ UNCHANGED <<dataVars, journalVars, stateVars, sqliteWrites, pgOpen, faults>>

-----------------------------------------------------------------------------
(* verify_barrier, restore_sqlite, abort: under the writers' advisory lock. *)

\* Certificates are read, not recomputed: contiguous, valid, covering both
\* sides, with nothing pending.
AllCertified ==
  /\ NothingPending
  /\ ranges # {} /\ \A c \in ranges : c.valid
  /\ Covered = Span

VerifyBarrier ==
  /\ job = Idle /\ ValidFile
  /\ AllCertified
  /\ verified' = counter
  /\ UNCHANGED <<dataVars, journalVars, ranges, owner, triggers, archive, sqliteWrites, pgOpen, job, cursor, faults>>

\* Mutant: any earlier verification is good enough.
VerifiedOnce == verified # None
VerifiedNow == verified = counter /\ NothingPending

\* The SQLite side of a promotion: guards out, original triggers back; or a
\* retry that finds that done and nothing written since.
RestoreTriggers ==
  /\ job = Idle /\ owner = "active"
  /\ VerifiedNow
  /\ sqliteWrites = 0
  /\ triggers' = IF triggers = "guards" THEN "restored" ELSE triggers
  /\ job' = [at |-> "restored"]
  /\ UNCHANGED <<dataVars, journalVars, ranges, owner, verified, archive, sqliteWrites, pgOpen, cursor, faults>>

\* PostgreSQL records it, and its capture trigger refuses writers from now on.
RecordRestored ==
  /\ job.at = "restored"
  /\ owner' = "restored"
  /\ job' = Idle
  /\ UNCHANGED <<dataVars, journalVars, ranges, verified, triggers, archive, sqliteWrites, pgOpen, cursor, faults>>

\* The archive is durable before PostgreSQL drops the generation.
AbortCleanup ==
  /\ job = Idle /\ owner = "restored"
  /\ VerifiedNow /\ sqliteWrites = 0 /\ AllCertified
  /\ archive' = [certificates |-> ranges, removed |-> FALSE]
  /\ owner' = "removed"
  /\ job' = [at |-> "cleaned"]
  /\ UNCHANGED <<dataVars, journalVars, ranges, verified, triggers, sqliteWrites, pgOpen, cursor, faults>>

\* The archive is marked; a retry first finds the SQLite file unchanged.
AbortFinish ==
  /\ \/ job.at = "cleaned"
     \/ job = Idle /\ owner = "removed" /\ ~archive.removed /\ sqliteWrites = 0
  /\ archive' = [archive EXCEPT !.removed = TRUE]
  /\ job' = Idle
  /\ UNCHANGED <<dataVars, journalVars, ranges, owner, verified, triggers, sqliteWrites, pgOpen, cursor, faults>>

-----------------------------------------------------------------------------
\* The mirror's process dies at any seam: open transactions roll back, locks
\* are released, the cursors of its object are gone.
Crash ==
  /\ faults < MaxFaults /\ faults' = faults + 1
  /\ job' = Idle /\ cursor' = None
  /\ UNCHANGED <<dataVars, journalVars, ranges, stateVars, sqliteWrites, pgOpen>>

Write == \E r \in RowIds :
  \/ UpdateRow(r) \/ DeleteRow(r)
  \/ \E k \in Keys : InsertRow(r, k)
  \/ \E s \in RowIds : MoveRow(r, s)
Replay == SnapshotChanges \/ ApplyChanges \/ Acknowledge
Reconcile == ReadChunk \/ CertifyChunk

Next ==
  \/ Write \/ OperatePg
  \/ \E r \in RowIds : StrayWrite(r)
  \/ Prepare \/ PrepareCommit \/ FinishGuardInstallation
  \/ Replay \/ Reconcile
  \/ VerifyBarrier \/ RestoreTriggers \/ RecordRestored
  \/ AbortCleanup \/ AbortFinish
  \/ Crash

Spec == Init /\ [][Next]_vars

\* The worker repeats its pass for ever (PM2 restarts it): replay in each one,
\* reconciliation whenever replay left the journal short of a full batch.
LiveSpec ==
  /\ Spec
  /\ SF_vars(SnapshotChanges) /\ WF_vars(ApplyChanges) /\ WF_vars(Acknowledge)
  /\ WF_vars(ReadChunk) /\ WF_vars(CertifyChunk)

-----------------------------------------------------------------------------
(* Properties.                                                              *)

\* While the standby is guarded every row that differs from PostgreSQL has a
\* pending change: no committed write is lost, whatever crashed between the
\* SQLite commit and the acknowledgement or was written meanwhile.
NoChangeLost ==
  ValidFile => \A r \in RowIds : sqlite[r] # pg[r] => pending[r] # 0

\* A valid certificate over rows without pending changes states the content of
\* both sides - what verify_barrier relies on instead of reading the rows.
CertificatesTrue ==
  ValidFile => \A c \in ranges :
    c.valid /\ ~ChunkPending(c.low, c.high) =>
      /\ c.rows = Content(sqlite, c.low, c.high)
      /\ c.rows = Content(pg, c.low, c.high)

\* A promoted file holds every PostgreSQL write and nothing else until its own
\* application writes, and so do the certificates the abort archive hands back
\* to the forward migration.
PromotedEqualsPostgres ==
  owner \in {"restored", "removed"} /\ sqliteWrites = 0 =>
    /\ sqlite = pg
    /\ archive # None => \A c \in archive.certificates : c.rows = Content(sqlite, c.low, c.high)

\* Once PostgreSQL writers stay away the standby becomes ready for the barrier,
\* by bounded chunks, from any backlog and in spite of restarts of the worker.
StandbyBecomesReady ==
  ValidFile /\ ~pgOpen ~> AllCertified \/ pgOpen \/ ~ValidFile

=============================================================================
