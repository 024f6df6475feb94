--------------------------- MODULE StorageMigration ---------------------------
(***************************************************************************)
(* The shadow import of one SQLite file into PostgreSQL                    *)
(* (storage_migration.py, storage_migration_worker.py): the change         *)
(* journal, the backfill against live writers, replay, range certificates  *)
(* and the final barrier.                                                  *)
(*                                                                         *)
(* One table with a business key, whose rows live under hidden rowids.  A  *)
(* row is its key and the write that made it.  An advisory lock keeps one  *)
(* importer per schema, so its operations are sequential; the application  *)
(* that writes to the SQLite file is not.                                  *)
(***************************************************************************)
EXTENDS Integers, FiniteSets, FiniteSetsExt

CONSTANTS
  Keys,        \* primary keys
  MaxRow,      \* rowids are 1..MaxRow
  BatchRows,   \* batch_rows
  Replaces,    \* may a writer use INSERT OR REPLACE once the journal is installed?
  None,
  MaxWrites,   \* bound: writes of the application
  MaxFaults    \* bound: crashes of the importer

\* An update of a rowid journals two rows under one sequence number, which
\* replay never splits: a batch has room for both.
MigrationAssumption ==
  /\ MaxRow \in Nat \ {0} /\ BatchRows \in Nat \ {0, 1}
  /\ Replaces \in BOOLEAN /\ MaxWrites \in Nat /\ MaxFaults \in Nat
  /\ None \notin Int

VARIABLES
  source, target,  \* content of the table on either side
  journal,         \* _changes: sequence of the latest unacknowledged change, or 0
  counter,         \* writes so far; from the installation on, the counter row
  displaced,       \* history: rowids that a REPLACE emptied behind the journal
  stage,           \* how far the import is, from its control rows
  highRow, lastRow,\* bounds of the backfill
  ranges,          \* certificates
  work,            \* what the importer holds between two transactions
  cursor,          \* _range_cursors
  report,          \* what verify_barrier returned, or None
  crashes

sideVars == <<source, target>>
writeVars == <<counter, displaced>>
controlVars == <<stage, highRow, lastRow>>
vars == <<sideVars, journal, writeVars, controlVars, ranges, work, cursor, report, crashes>>

RowIds == 1..MaxRow
Present(t) == {r \in RowIds : t[r] # None}
KeysOf(t) == {t[r].key : r \in Present(t)}
RowOf(t, k) == CHOOSE r \in Present(t) : t[r].key = k
Content(t, low, high) == [r \in Present(t) \cap low..high |-> t[r]]
Top(t) == IF Present(t) = {} THEN 0 ELSE Max(Present(t))
Bottom(t) == IF Present(t) = {} THEN 1 ELSE Min(Present(t))

Idle == [at |-> "idle"]
Importing == stage \in {"journal", "backfill", "copied", "indexed"}
\* Mutant: the flags of the certificates are trusted.
PendingTrusted == \E c \in ranges : ~c.valid
Pending == \E r \in RowIds : journal[r] # 0

TypeOK ==
  /\ source \in [RowIds -> [key : Keys, write : 0..MaxWrites] \cup {None}]
  /\ target \in [RowIds -> [key : Keys, write : 0..MaxWrites] \cup {None}]
  /\ journal \in [RowIds -> 0..counter] /\ counter \in 0..MaxWrites
  /\ displaced \subseteq RowIds \ Present(source)
  /\ stage \in {"none", "schema", "journal", "backfill", "copied", "indexed"}
  /\ highRow \in 0..MaxRow /\ lastRow \in 0..MaxRow
  /\ \A c, d \in ranges : c # d => c.low > d.high \/ d.low > c.high
  /\ work.at \in {"idle", "copy", "apply", "ack", "certify"}
  /\ cursor \in 0..MaxRow \cup {None}
  /\ report \in 0..counter \cup {None}
  /\ crashes \in 0..MaxFaults

Init ==
  /\ \E k \in Keys : source = [r \in RowIds |-> IF r = 1 THEN [key |-> k, write |-> 0] ELSE None]
  /\ target = [r \in RowIds |-> None]
  /\ journal = [r \in RowIds |-> 0] /\ counter = 0 /\ displaced = {}
  /\ stage = "none" /\ highRow = 0 /\ lastRow = 0
  /\ ranges = {} /\ work = Idle /\ cursor = None /\ report = None /\ crashes = 0

-----------------------------------------------------------------------------
(* The application.  The triggers journal OLD and NEW rowids of an update,  *)
(* the one rowid of an insert or a delete; hidden are the rowids a write    *)
(* empties without a trigger.                                               *)

Changed(rows, hidden) ==
  /\ counter < MaxWrites
  /\ counter' = counter + 1
  /\ journal' = IF Importing THEN [r \in RowIds |-> IF r \in rows THEN counter + 1 ELSE journal[r]]
                ELSE journal
  /\ displaced' = IF Importing THEN (displaced \ rows) \cup hidden ELSE displaced
  /\ UNCHANGED <<target, controlVars, ranges, work, cursor, report, crashes>>

NewRow(k) == [key |-> k, write |-> counter + 1]

\* SQLite gives an ordinary rowid above the largest one.
InsertRow(k) ==
  /\ k \notin KeysOf(source) /\ Top(source) < MaxRow
  /\ Changed({Top(source) + 1}, {})
  /\ source' = [source EXCEPT ![Top(source) + 1] = NewRow(k)]

UpdateRow(r) ==
  /\ source[r] # None
  /\ Changed({r}, {})
  /\ source' = [source EXCEPT ![r].write = counter + 1]

DeleteRow(r) ==
  /\ source[r] # None
  /\ Changed({r}, {})
  /\ source' = [source EXCEPT ![r] = None]

MoveRow(r, s) ==
  /\ source[r] # None /\ source[s] = None
  /\ Changed({r, s}, {})
  /\ source' = [source EXCEPT ![s] = NewRow(source[r].key), ![r] = None]

\* REPLACE inserts above the largest rowid and removes the old row without
\* its DELETE trigger (recursive_triggers is off).
ReplaceRow(k) ==
  /\ stage \in {"none", "schema"} \/ Replaces
  /\ k \in KeysOf(source) /\ Top(source) < MaxRow
  /\ Changed({Top(source) + 1}, {RowOf(source, k)})
  /\ source' = [source EXCEPT ![RowOf(source, k)] = None, ![Top(source) + 1] = NewRow(k)]

-----------------------------------------------------------------------------
(* prepare: the owned schema, the journal, then the bounds of the backfill. *)

CreateSchema ==
  /\ stage = "none"
  /\ stage' = "schema"
  /\ UNCHANGED <<sideVars, journal, writeVars, highRow, lastRow, ranges, work, cursor, report, crashes>>

InstallJournal ==
  /\ stage = "schema"
  /\ stage' = "journal"
  /\ UNCHANGED <<sideVars, journal, writeVars, highRow, lastRow, ranges, work, cursor, report, crashes>>

PlanTable ==
  /\ stage = "journal"
  /\ highRow' = Top(source) /\ lastRow' = Bottom(source) - 1
  /\ stage' = "backfill"
  /\ UNCHANGED <<sideVars, journal, writeVars, ranges, work, cursor, report, crashes>>

-----------------------------------------------------------------------------
(* Rows into PostgreSQL.                                                    *)

\* Rows in rowid order, each upserted by key; its rowid goes with it.  The
\* rowid column is unique: a row cannot take a rowid that another key holds
\* and has not left yet.
Upsertable(t, rows) == \A r \in DOMAIN rows \cap Present(t) :
  \/ t[r].key = rows[r].key
  \/ \E q \in DOMAIN rows : q < r /\ rows[q].key = t[r].key
Upserted(t, rows) ==
  LET keys == {rows[r].key : r \in DOMAIN rows}
  IN [r \in RowIds |-> IF r \in DOMAIN rows THEN rows[r]
                       ELSE IF t[r] # None /\ t[r].key \in keys THEN None ELSE t[r]]

\* What a certificate says; its digest and row count are read by nobody.
Certificate(low, high, valid) == [low |-> low, high |-> high, valid |-> valid]
Recorded(cs, c) == {d \in cs : d.low # c.low} \cup {c}

\* backfill: the next rows of the source, read without a snapshot of the rest.
ReadBackfill ==
  /\ work = Idle /\ stage = "backfill"
  /\ LET left == Present(source) \cap (lastRow + 1)..highRow
         take == {r \in left : Cardinality({q \in left : q <= r}) <= BatchRows}
     IN work' = [at |-> "copy", rows |-> [r \in take |-> source[r]]]
  /\ UNCHANGED <<sideVars, journal, writeVars, controlVars, ranges, cursor, report, crashes>>

\* One PostgreSQL transaction: upsert, compare the interval with the rows just
\* read, certify it, advance the checkpoint.
CopyRows ==
  /\ work.at = "copy"
  /\ LET rows == work.rows
         end == IF DOMAIN rows = {} THEN highRow ELSE Max(DOMAIN rows)
     IN /\ Upsertable(target, rows)
        /\ target' = Upserted(target, rows)
        /\ end > lastRow => Content(target', lastRow + 1, end) = rows
        /\ ranges' = IF end > lastRow THEN Recorded(ranges, Certificate(lastRow + 1, end, TRUE))
                     ELSE ranges
        /\ lastRow' = end
        /\ stage' = IF DOMAIN rows = {} THEN "copied" ELSE stage
  /\ work' = Idle
  /\ UNCHANGED <<source, journal, writeVars, highRow, cursor, report, crashes>>

BuildIndexes ==
  /\ work = Idle /\ stage = "copied"
  /\ stage' = "indexed"
  /\ UNCHANGED <<sideVars, journal, writeVars, highRow, lastRow, ranges, work, cursor, report, crashes>>

-----------------------------------------------------------------------------
(* replay.                                                                  *)

\* The first BatchRows entries in (seq, row) order, without the last sequence
\* number if some of its entries stayed behind.
NotAfter(q, r) == journal[q] < journal[r] \/ (journal[q] = journal[r] /\ q <= r)
Ahead(r) == {q \in RowIds : journal[q] # 0 /\ NotAfter(q, r)}
FirstRows == {r \in RowIds : journal[r] # 0 /\ Cardinality(Ahead(r)) <= BatchRows}
Batch == {r \in FirstRows : \A q \in RowIds : journal[q] = journal[r] => q \in FirstRows}

ReadBatch ==
  /\ work = Idle /\ stage \in {"copied", "indexed"}
  /\ Batch # {}
  /\ work' = [at |-> "apply", changes |-> [r \in Batch |-> journal[r]],
              observed |-> [r \in Batch |-> source[r]]]
  /\ UNCHANGED <<sideVars, journal, writeVars, controlVars, ranges, cursor, report, crashes>>

Live(observed) == [r \in {q \in DOMAIN observed : observed[q] # None} |-> observed[r]]
LiveKeys(observed) == {observed[r].key : r \in DOMAIN Live(observed)}

\* The journalled rowids, and where PostgreSQL still holds their live keys.
Affected(observed) == DOMAIN observed \cup
  {r \in Present(target) : target[r].key \in LiveKeys(observed)}

Invalidated(rows) == {[c EXCEPT !.valid = @ /\ rows \cap c.low..c.high = {}] : c \in ranges}

\* The rowids of the batch are cleared, except rows whose key is live in it.
Cleared(observed) == [r \in RowIds |->
  IF r \in DOMAIN observed /\ target[r] # None /\ target[r].key \notin LiveKeys(observed)
  THEN None ELSE target[r]]

ApplyBatch ==
  /\ work.at = "apply"
  /\ LET observed == work.observed
     IN /\ Upsertable(Cleared(observed), Live(observed))
        /\ target' = Upserted(Cleared(observed), Live(observed))
        /\ ranges' = Invalidated(Affected(observed))
  /\ work' = [at |-> "ack", changes |-> work.changes]
  /\ UNCHANGED <<source, journal, writeVars, controlVars, cursor, report, crashes>>

\* Mutant: the acknowledgement forgets which change it replayed.
AckedBlind(changes) == [r \in RowIds |-> IF r \in DOMAIN changes THEN 0 ELSE journal[r]]
Acked(changes) == [r \in RowIds |->
  IF r \in DOMAIN changes /\ journal[r] = changes[r] THEN 0 ELSE journal[r]]

AckChanges ==
  /\ work.at = "ack"
  /\ journal' = Acked(work.changes)
  /\ work' = Idle
  /\ UNCHANGED <<sideVars, writeVars, controlVars, ranges, cursor, report, crashes>>

-----------------------------------------------------------------------------
(* reconcile_ranges.                                                        *)

\* _range_plan: dirty certificates and uncovered intervals, from the edges of
\* both sides and of the certificates.
Edges == Present(source) \cup Present(target) \cup {c.low : c \in ranges} \cup {c.high : c \in ranges}
Extent == IF Edges = {} THEN {0} ELSE Min(Edges)..Max(Edges)
Covered == UNION {c.low..c.high : c \in ranges}
Bare == Extent \ Covered
RangeJobs ==
  {[low |-> c.low, high |-> c.high, existing |-> TRUE] : c \in {d \in ranges : ~d.valid}}
  \cup {[low |-> low, high |-> Max({h \in Bare : low..h \subseteq Bare}), existing |-> FALSE] :
          low \in {b \in Bare : b - 1 \notin Bare}}

\* A bounded pass goes on after its cursor and then starts over; a gap that
\* the cursor cuts is two jobs.
Ahead0(j) == cursor = None \/ j.low > cursor
Cut == {j \in RangeJobs : ~Ahead0(j) /\ ~j.existing /\ j.high > cursor}
After == {j \in RangeJobs : Ahead0(j)} \cup {[j EXCEPT !.low = cursor + 1] : j \in Cut}
Before == {j \in RangeJobs : ~Ahead0(j)}
NextJobs == IF After # {} THEN After ELSE Before
FirstJob == CHOOSE j \in NextJobs : \A k \in NextJobs : j.low <= k.low

ChunkEnd(j) ==
  LET rows == Present(source) \cap j.low..j.high
      fits == {r \in rows : Cardinality({q \in rows : q <= r}) <= BatchRows}
  IN IF Cardinality(fits) = BatchRows THEN Max(fits) ELSE j.high

ChunkPending(low, high) == \E r \in RowIds \cap low..high : journal[r] # 0

ReadChunk ==
  /\ work = Idle /\ stage = "indexed"
  /\ NextJobs # {}
  /\ LET j == FirstJob
         end == ChunkEnd(j)
     IN work' = [at |-> "certify", low |-> j.low, high |-> end, end |-> j.high,
                 existing |-> j.existing, pending |-> ChunkPending(j.low, end),
                 rows |-> Content(source, j.low, end)]
  /\ UNCHANGED <<sideVars, journal, writeVars, controlVars, ranges, cursor, report, crashes>>

\* An oversized dirty certificate is split, both halves dirty; a chunk that
\* was quiet is compared with PostgreSQL and certified, or the pass fails.
CertifyChunk ==
  /\ work.at = "certify"
  /\ ~work.pending => Content(target, work.low, work.high) = work.rows
  /\ LET split == work.existing /\ work.high < work.end
         halves == IF split THEN Recorded(Recorded(ranges, Certificate(work.low, work.high, FALSE)),
                                          Certificate(work.high + 1, work.end, FALSE))
                   ELSE ranges
     IN ranges' = IF work.pending THEN halves
                  ELSE Recorded(halves, Certificate(work.low, work.high, TRUE))
  /\ cursor' = work.high /\ work' = Idle
  /\ UNCHANGED <<sideVars, journal, writeVars, controlVars, report, crashes>>

-----------------------------------------------------------------------------
\* verify_barrier reads certificates instead of rows.  Its transaction on the
\* source and its later look at the counter refuse a write in between.
Barrier ==
  /\ work = Idle /\ stage = "indexed"
  /\ ~Pending
  /\ ranges # {} /\ \A c \in ranges : c.valid
  /\ Covered = Min(Covered)..Max(Covered)
  /\ Present(source) \cup Present(target) \subseteq Covered
  /\ report' = counter
  /\ UNCHANGED <<sideVars, journal, writeVars, controlVars, ranges, work, cursor, crashes>>

\* The importer dies; what it held and its cursors are gone.
Crash ==
  /\ crashes < MaxFaults /\ crashes' = crashes + 1
  /\ work' = Idle /\ cursor' = None
  /\ UNCHANGED <<sideVars, journal, writeVars, controlVars, ranges, report>>

Write ==
  \/ \E k \in Keys : InsertRow(k) \/ ReplaceRow(k)
  \/ \E r \in RowIds : UpdateRow(r) \/ DeleteRow(r) \/ \E s \in RowIds : MoveRow(r, s)
Prepare == CreateSchema \/ InstallJournal \/ PlanTable
Backfill == ReadBackfill \/ CopyRows \/ BuildIndexes
Replay == ReadBatch \/ ApplyBatch \/ AckChanges
Reconcile == ReadChunk \/ CertifyChunk

Next == Write \/ Prepare \/ Backfill \/ Replay \/ Reconcile \/ Barrier \/ Crash

Spec == Init /\ [][Next]_vars

-----------------------------------------------------------------------------
(* Properties.                                                              *)

\* What verify_barrier (storage_migration.py:704-752) reports although it
\* reads no row: as long as its sequence is the source's, PostgreSQL holds the
\* source's content.  This is so while no writer uses INSERT OR REPLACE.
VerdictTrue == report = counter => source = target

\* With INSERT OR REPLACE too: as long as the sequence that the barrier
\* reports is the source's, PostgreSQL holds every row of the source as the
\* source has it, and nothing more than rows a REPLACE removed unseen.
NothingMissing == report = counter => \A r \in RowIds :
  source[r] = target[r] \/ (source[r] = None /\ r \in displaced)

\* After the backfill, whatever the writers did during it, a row that differs
\* is journalled, or a REPLACE removed it unseen: the backfill's bound leaves
\* nothing behind, and an acknowledgement never takes a change that came after
\* its batch.
NoChangeLost == stage \in {"copied", "indexed"} => \A r \in RowIds :
  source[r] # target[r] => journal[r] # 0 \/ r \in displaced

=============================================================================
