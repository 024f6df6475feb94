------------------------ MODULE StorageMigrationProofs ------------------------
(***************************************************************************)
(* The two safety properties of the shadow import, for every table size,   *)
(* batch size, number of writes and number of crashes, whether or not      *)
(* writers use INSERT OR REPLACE: no change of the writers is lost         *)
(* (NoChangeLost), and at the barrier's verdict nothing is missing in      *)
(* PostgreSQL (NothingMissing).                                            *)
(*                                                                         *)
(* The argument speaks of clean rows: the journal does not name them and   *)
(* no REPLACE emptied them unseen.  A write changes a row, it journals it  *)
(* or it displaces it, so whatever the importer read of a row that is      *)
(* still clean, or whose entry is still the one it read, is what the       *)
(* source holds; keys are unique, so the upsert of such a row takes no     *)
(* other clean row's place in PostgreSQL.  A displaced row is absent from  *)
(* the source.  Certificates play no part: the barrier is right because of *)
(* the journal, and where it is wrong they do not help (VerdictTrue, which *)
(* needs Replaces = FALSE; the run migration_replace refutes it otherwise).*)
(***************************************************************************)
EXTENDS StorageMigration, FiniteSetTheorems, WellFoundedInduction, TLAPS

Rows == [key : Keys, write : 0..MaxWrites] \cup {None}
Tables == [RowIds -> Rows]

\* What TypeOK says of the variables this argument needs.
StateType ==
  /\ source \in Tables /\ target \in Tables
  /\ counter \in Nat /\ counter <= MaxWrites
  /\ journal \in [RowIds -> 0..counter]
  /\ stage \in {"none", "schema", "journal", "backfill", "copied", "indexed"}
  /\ highRow \in 0..MaxRow /\ lastRow \in 0..MaxRow
  /\ report \in 0..counter \cup {None}

\* The primary key of the source.
UniqueKeys == \A q, r \in RowIds :
  source[q] # None /\ source[r] # None /\ source[q].key = source[r].key => q = r

\* A row that neither the journal nor a REPLACE stands for.
Clean(r) == journal[r] = 0 /\ r \notin displaced

\* A displaced row is gone from the source; there is none before the journal
\* is installed, and none where nobody replaces.
DisplacedInv ==
  /\ \A r \in displaced : r \in RowIds /\ source[r] = None
  /\ stage \in {"none", "schema"} => displaced = {}
  /\ ~Replaces => displaced = {}

\* Before the backfill PostgreSQL is empty; during it, the rows that differ
\* and are clean lie between the checkpoint and the bound.
StageInv ==
  /\ stage \in {"none", "schema", "journal"} => \A r \in RowIds : target[r] = None
  /\ stage = "backfill" =>
       /\ lastRow <= highRow
       /\ \A r \in RowIds : r > lastRow => target[r] = None
       /\ \A r \in RowIds :
            Clean(r) /\ source[r] # target[r] => lastRow < r /\ r <= highRow

\* The rows of a backfill batch: the next rows of the source, as far as the
\* journal does not say otherwise.
CopyInv == work.at = "copy" =>
  /\ stage = "backfill"
  /\ \A r \in DOMAIN work.rows :
       /\ r \in RowIds /\ lastRow < r /\ r <= highRow
       /\ work.rows[r] \in Rows /\ work.rows[r] # None
       /\ Clean(r) => source[r] = work.rows[r]
  /\ \A r \in RowIds :
       /\ r \notin DOMAIN work.rows /\ Clean(r)
       /\ lastRow < r /\ r <= highRow
       /\ DOMAIN work.rows = {} \/ \E q \in DOMAIN work.rows : r <= q
       => source[r] = None
  /\ \A q \in DOMAIN work.rows : \A r \in RowIds :
       Clean(r) /\ source[r] # None /\ source[r].key = work.rows[q].key => r = q

\* What replay read of its batch is still so where the entry is still the one
\* it read, and no clean row has a key of the batch.
ApplyInv == work.at = "apply" =>
  /\ stage \in {"copied", "indexed"}
  /\ DOMAIN work.observed = DOMAIN work.changes
  /\ \A r \in DOMAIN work.observed :
       /\ r \in RowIds /\ journal[r] # 0
       /\ work.observed[r] \in Rows
       /\ work.changes[r] \in 1..counter
       /\ journal[r] = work.changes[r] /\ r \notin displaced => source[r] = work.observed[r]
  /\ \A r \in DOMAIN work.observed : \A q \in RowIds :
       Clean(q) /\ source[q] # None /\ work.observed[r] # None
       => source[q].key # work.observed[r].key

\* Once it is applied, PostgreSQL holds it.
AckInv == work.at = "ack" =>
  /\ stage \in {"copied", "indexed"}
  /\ \A r \in DOMAIN work.changes :
       /\ r \in RowIds /\ work.changes[r] \in 1..counter
       /\ journal[r] = work.changes[r] /\ r \notin displaced => source[r] = target[r]

\* While the reported sequence is the source's, nothing is left to replay.
VerdictInv == report = counter =>
  /\ stage = "indexed"
  /\ \A r \in RowIds : journal[r] = 0
  /\ work.at \in {"idle", "certify"}

MigrationInv ==
  /\ StateType
  /\ UniqueKeys
  /\ DisplacedInv
  /\ StageInv
  /\ NoChangeLost
  /\ CopyInv
  /\ ApplyInv
  /\ AckInv
  /\ VerdictInv

-----------------------------------------------------------------------------
(* Sets of rowids.                                                          *)

\* A set of numbers that is not empty has a lowest one.
LEMMA LowestIn ==
  ASSUME NEW S, S \subseteq Nat, S # {}
  PROVE  \E x \in S : \A y \in S : x <= y
<1>1. IsWellFoundedOn(OpToRel(<, Nat), Nat)
  BY NatLessThanWellFounded
<1>2. PICK x \in S : \A y \in S : ~(<<y, x>> \in OpToRel(<, Nat))
  BY <1>1, WFMin
<1>3. \A y \in S : ~(y < x)
  <2> TAKE y \in S
  <2>1. y \in Nat /\ x \in Nat
    OBVIOUS
  <2>2. ~(<<y, x>> \in OpToRel(<, Nat))
    BY <1>2
  <2> QED
    BY <2>1, <2>2 DEF OpToRel
<1> QED
  BY <1>3

\* A bounded one has a highest: the lowest distance from the bound.
LEMMA HighestIn ==
  ASSUME NEW n \in Nat, NEW S, S \subseteq 0..n, S # {}
  PROVE  \E x \in S : \A y \in S : x >= y
<1> DEFINE D == {n - x : x \in S}
<1>1. D # {}
  OBVIOUS
<1>2. D \subseteq Nat
  <2>1. \A x \in S : n - x \in Nat
    OBVIOUS
  <2> QED
    BY <2>1
<1>3. PICK d \in D : \A e \in D : d <= e
  <2> HIDE DEF D
  <2> QED
    BY <1>1, <1>2, LowestIn
<1>4. PICK x \in S : d = n - x
  BY <1>3
<1>5. \A y \in S : x >= y
  <2> TAKE y \in S
  <2>1. n - y \in D
    OBVIOUS
  <2>2. d <= n - y
    BY <1>3, <2>1
  <2> QED
    BY <1>4, <2>2
<1> QED
  BY <1>5

\* Max and Min of the community modules are chosen so.
LEMMA MaxIs ==
  ASSUME NEW n \in Nat, NEW S, S \subseteq 0..n, S # {}
  PROVE  Max(S) \in S /\ \A y \in S : Max(S) >= y
BY HighestIn DEF Max

LEMMA MinIs ==
  ASSUME NEW S, S \subseteq Nat, S # {}
  PROVE  Min(S) \in S /\ \A y \in S : Min(S) <= y
BY LowestIn DEF Min

\* The rows of a table lie between its bottom and its top.
LEMMA TopBounds ==
  ASSUME MigrationAssumption, NEW t
  PROVE  /\ Top(t) \in 0..MaxRow
         /\ \A r \in RowIds : t[r] # None => r <= Top(t)
<1>1. Present(t) \subseteq 0..MaxRow /\ MaxRow \in Nat
  BY DEF Present, RowIds, MigrationAssumption
<1>2. CASE Present(t) = {}
  BY <1>1, <1>2 DEF Top, Present, MigrationAssumption
<1>3. CASE Present(t) # {}
  <2>1. Max(Present(t)) \in Present(t) /\ \A y \in Present(t) : Max(Present(t)) >= y
    BY <1>1, <1>3, MaxIs
  <2>2. Top(t) = Max(Present(t))
    BY <1>3 DEF Top
  <2>3. \A r \in RowIds : t[r] # None => Top(t) >= r
    BY <2>1, <2>2 DEF Present
  <2>4. Top(t) \in 0..MaxRow
    BY <1>1, <2>1, <2>2
  <2> QED
    BY <1>1, <2>3, <2>4 DEF RowIds
<1> QED
  BY <1>2, <1>3

LEMMA BottomBounds ==
  ASSUME MigrationAssumption, NEW t
  PROVE  /\ Bottom(t) - 1 \in 0..MaxRow /\ Bottom(t) - 1 <= Top(t)
         /\ \A r \in RowIds : t[r] # None => Bottom(t) - 1 < r
<1>1. Present(t) \subseteq Nat /\ MaxRow \in Nat
  BY DEF Present, RowIds, MigrationAssumption
<1>2. CASE Present(t) = {}
  BY <1>1, <1>2 DEF Bottom, Top, Present
<1>3. CASE Present(t) # {}
  <2>1. Min(Present(t)) \in Present(t) /\ \A y \in Present(t) : Min(Present(t)) <= y
    BY <1>1, <1>3, MinIs
  <2>2. Bottom(t) = Min(Present(t))
    BY <1>3 DEF Bottom
  <2>3. Bottom(t) \in RowIds /\ t[Bottom(t)] # None
    BY <2>1, <2>2 DEF Present
  <2>4. Bottom(t) <= Top(t) /\ Top(t) \in 0..MaxRow
    BY <2>3, TopBounds
  <2>5. \A r \in RowIds : t[r] # None => Bottom(t) <= r
    BY <2>1, <2>2 DEF Present
  <2> QED
    BY <1>1, <2>3, <2>4, <2>5 DEF RowIds
<1> QED
  BY <1>2, <1>3

\* The rowid above the top is free.
LEMMA AboveTop ==
  ASSUME MigrationAssumption, NEW t, Top(t) < MaxRow
  PROVE  Top(t) + 1 \in RowIds /\ t[Top(t) + 1] = None
<1>1. Top(t) \in 0..MaxRow /\ MaxRow \in Nat
  BY TopBounds DEF MigrationAssumption
<1>2. Top(t) + 1 \in RowIds
  BY <1>1 DEF RowIds
<1>3. ~(Top(t) + 1 <= Top(t))
  BY <1>1
<1> QED
  BY <1>2, <1>3, TopBounds

-----------------------------------------------------------------------------
(* The writers.                                                             *)

\* The types a write must keep, besides the content of the source.
LEMMA WriteTypes ==
  ASSUME MigrationAssumption, MigrationInv, NEW R \in SUBSET RowIds, NEW H,
         Changed(R, H), source' \in Tables
  PROVE  StateType'
<1>1. /\ counter \in Nat /\ MaxWrites \in Nat /\ counter < MaxWrites
      /\ counter' = counter + 1 /\ journal \in [RowIds -> 0..counter]
  BY DEF MigrationInv, StateType, Changed, MigrationAssumption
<1>2. /\ target' = target /\ stage' = stage /\ highRow' = highRow
      /\ lastRow' = lastRow /\ report' = report
  BY DEF Changed, controlVars
<1>3. \A r \in RowIds : journal[r] \in 0..counter + 1 /\ counter + 1 \in 0..counter + 1
  BY <1>1
<1>4. journal' \in [RowIds -> 0..counter + 1]
  BY <1>1, <1>3 DEF Changed
<1>5. report' \in 0..counter + 1 \cup {None}
  BY <1>1, <1>2 DEF MigrationInv, StateType
<1>6. counter' \in Nat /\ counter' <= MaxWrites
  BY <1>1
<1>7. /\ target \in Tables /\ highRow \in 0..MaxRow /\ lastRow \in 0..MaxRow
      /\ stage \in {"none", "schema", "journal", "backfill", "copied", "indexed"}
  BY DEF MigrationInv, StateType
<1> QED
  BY <1>1, <1>2, <1>4, <1>5, <1>6, <1>7 DEF StateType

\* After the write the reported sequence is an old one.
LEMMA WriteVerdict ==
  ASSUME MigrationAssumption, MigrationInv, NEW R \in SUBSET RowIds, NEW H, Changed(R, H)
  PROVE  VerdictInv'
<1>1. counter \in Nat /\ counter' = counter + 1 /\ report' = report
  BY DEF MigrationInv, StateType, Changed
<1>2. report \in 0..counter \cup {None} /\ None \notin Int
  BY DEF MigrationInv, StateType, MigrationAssumption
<1>3. report' # counter'
  BY <1>1, <1>2
<1> QED
  BY <1>3 DEF VerdictInv

\* Before the journal is installed PostgreSQL is empty and the importer idle.
LEMMA QuietWrite ==
  ASSUME MigrationAssumption, MigrationInv, NEW R \in SUBSET RowIds, NEW H,
         stage \in {"none", "schema"},
         Changed(R, H), source' \in Tables, UniqueKeys'
  PROVE  MigrationInv'
<1>1. StateType' /\ VerdictInv'
  BY WriteTypes, WriteVerdict
<1>2. stage' = stage /\ target' = target /\ work' = work
  BY DEF Changed, controlVars
<1>3. StageInv' /\ NoChangeLost'
  BY <1>2 DEF MigrationInv, StageInv, NoChangeLost
<1>5. displaced = {} /\ displaced' = displaced
  BY DEF MigrationInv, DisplacedInv, Changed, Importing
<1>6. DisplacedInv'
  BY <1>5 DEF DisplacedInv
<1>4. CopyInv' /\ ApplyInv' /\ AckInv'
  BY <1>2 DEF MigrationInv, CopyInv, ApplyInv, AckInv
<1> QED
  BY <1>1, <1>3, <1>4, <1>6 DEF MigrationInv

\* Once it is, a write changes only rows it journals and rows it displaces, and
\* its entries are newer than any the importer has read.
LEMMA JournalledWrite ==
  ASSUME MigrationAssumption, MigrationInv, NEW R \in SUBSET RowIds, NEW H \in SUBSET RowIds, Importing,
         Changed(R, H), source' \in Tables, UniqueKeys',
         \A r \in H : source'[r] = None, H # {} => Replaces,
         \A r \in RowIds \ (R \cup H) : source'[r] = source[r]
  PROVE  MigrationInv'
<1>1. StateType' /\ VerdictInv'
  BY WriteTypes, WriteVerdict
<1>2. /\ stage' = stage /\ target' = target /\ work' = work
      /\ highRow' = highRow /\ lastRow' = lastRow
  BY DEF Changed, controlVars
<1>3. counter \in Nat /\ counter' = counter + 1 /\ journal \in [RowIds -> 0..counter]
  BY DEF MigrationInv, StateType, Changed
<1>4. /\ \A r \in R : journal'[r] = counter + 1
      /\ \A r \in RowIds \ R : journal'[r] = journal[r]
  BY <1>3 DEF Changed
<1>13. displaced' = (displaced \ R) \cup H
  BY DEF Changed
<1>14. \A r \in RowIds \ R : r \notin displaced' => r \notin displaced /\ r \notin R \cup H
  BY <1>13
<1>5. \A r \in RowIds : Clean(r)' => Clean(r) /\ source'[r] = source[r]
  BY <1>3, <1>4, <1>14 DEF Clean
<1>6. \A r \in RowIds : journal[r] # 0 => journal'[r] # 0
  BY <1>3, <1>4
<1>7. \A r \in RowIds, n \in 1..counter :
        journal'[r] = n /\ r \notin displaced'
        => journal[r] = n /\ r \notin displaced /\ source'[r] = source[r]
  BY <1>3, <1>4, <1>14
<1>8. \A n \in 1..counter : n \in 1..counter'
  BY <1>3
<1>9. StageInv' /\ NoChangeLost'
  <2>1. StageInv'
    BY <1>2, <1>5 DEF MigrationInv, StageInv, Importing
  <2>2. NoChangeLost'
    BY <1>2, <1>5 DEF MigrationInv, NoChangeLost, Clean
  <2> QED
    BY <2>1, <2>2
<1>10. CopyInv'
  <2>1. SUFFICES ASSUME work.at = "copy"
                 PROVE  CopyInv'
    BY <1>2 DEF CopyInv
  <2>2. /\ stage = "backfill"
        /\ \A r \in DOMAIN work.rows :
             /\ r \in RowIds /\ lastRow < r /\ r <= highRow
             /\ work.rows[r] \in Rows /\ work.rows[r] # None
             /\ Clean(r) => source[r] = work.rows[r]
    BY <2>1 DEF MigrationInv, CopyInv
  <2>3. \A r \in RowIds :
          /\ r \notin DOMAIN work.rows /\ Clean(r)
          /\ lastRow < r /\ r <= highRow
          /\ DOMAIN work.rows = {} \/ \E q \in DOMAIN work.rows : r <= q
          => source[r] = None
    BY <2>1 DEF MigrationInv, CopyInv
  <2>4. \A q \in DOMAIN work.rows : \A r \in RowIds :
          Clean(r) /\ source[r] # None /\ source[r].key = work.rows[q].key => r = q
    BY <2>1 DEF MigrationInv, CopyInv
  <2>5. \A r \in DOMAIN work.rows : Clean(r)' => source'[r] = work.rows[r]
    BY <2>2, <1>5
  <2>6. \A q \in DOMAIN work.rows : \A r \in RowIds :
          Clean(r)' /\ source'[r] # None /\ source'[r].key = work.rows[q].key => r = q
    BY <2>4, <1>5
  <2>7. \A r \in RowIds :
          /\ r \notin DOMAIN work.rows /\ Clean(r)'
          /\ lastRow < r /\ r <= highRow
          /\ DOMAIN work.rows = {} \/ \E q \in DOMAIN work.rows : r <= q
          => source'[r] = None
    BY <2>3, <1>5
  <2> QED
    BY <1>2, <2>2, <2>5, <2>6, <2>7 DEF CopyInv
<1>11. ApplyInv'
  <2>1. SUFFICES ASSUME work.at = "apply"
                 PROVE  ApplyInv'
    BY <1>2 DEF ApplyInv
  <2>2. /\ stage \in {"copied", "indexed"}
        /\ DOMAIN work.observed = DOMAIN work.changes
        /\ \A r \in DOMAIN work.observed :
             /\ r \in RowIds /\ journal[r] # 0
             /\ work.observed[r] \in Rows
             /\ work.changes[r] \in 1..counter
             /\ journal[r] = work.changes[r] /\ r \notin displaced => source[r] = work.observed[r]
    BY <2>1 DEF MigrationInv, ApplyInv
  <2>3. \A r \in DOMAIN work.observed : \A q \in RowIds :
          Clean(q) /\ source[q] # None /\ work.observed[r] # None
          => source[q].key # work.observed[r].key
    BY <2>1 DEF MigrationInv, ApplyInv
  <2>4. \A r \in DOMAIN work.observed :
          journal'[r] = work.changes[r] /\ r \notin displaced' => source'[r] = work.observed[r]
    BY <2>2, <1>7
  <2>5. \A r \in DOMAIN work.observed : \A q \in RowIds :
          Clean(q)' /\ source'[q] # None /\ work.observed[r] # None
          => source'[q].key # work.observed[r].key
    BY <2>3, <1>5
  <2>6. \A r \in DOMAIN work.observed : journal'[r] # 0 /\ work.changes[r] \in 1..counter'
    BY <2>2, <1>6, <1>8
  <2> QED
    BY <1>2, <2>2, <2>4, <2>5, <2>6 DEF ApplyInv
<1>12. AckInv'
  <2>1. SUFFICES ASSUME work.at = "ack"
                 PROVE  AckInv'
    BY <1>2 DEF AckInv
  <2>2. /\ stage \in {"copied", "indexed"}
        /\ \A r \in DOMAIN work.changes :
             /\ r \in RowIds /\ work.changes[r] \in 1..counter
             /\ journal[r] = work.changes[r] /\ r \notin displaced => source[r] = target[r]
    BY <2>1 DEF MigrationInv, AckInv
  <2>3. \A r \in DOMAIN work.changes :
          /\ work.changes[r] \in 1..counter'
          /\ journal'[r] = work.changes[r] /\ r \notin displaced' => source'[r] = target[r]
    BY <2>2, <1>7, <1>8
  <2> QED
    BY <1>2, <2>2, <2>3 DEF AckInv
<1>15. DisplacedInv'
  <2>1. ASSUME NEW r \in displaced'
        PROVE  r \in RowIds /\ source'[r] = None
    BY <1>13 DEF MigrationInv, DisplacedInv
  <2>2. ~Replaces => displaced' = {}
    BY <1>13 DEF MigrationInv, DisplacedInv
  <2> QED
    BY <1>2, <2>1, <2>2 DEF DisplacedInv, Importing
<1> QED
  BY <1>1, <1>9, <1>10, <1>11, <1>12, <1>15 DEF MigrationInv

LEMMA JournalOrQuiet ==
  ASSUME MigrationAssumption, MigrationInv, NEW R \in SUBSET RowIds,
         Changed(R, {}), source' \in Tables, UniqueKeys',
         \A r \in RowIds \ R : source'[r] = source[r]
  PROVE  MigrationInv'
<1>1. Importing \/ stage \in {"none", "schema"}
  BY DEF MigrationInv, StateType, Importing
<1> QED
  BY <1>1, QuietWrite, JournalledWrite

LEMMA NewRowType ==
  ASSUME MigrationAssumption, MigrationInv, counter < MaxWrites, NEW k \in Keys
  PROVE  NewRow(k) \in Rows /\ NewRow(k).key = k
<1>1. counter + 1 \in 0..MaxWrites
  BY DEF MigrationInv, StateType, MigrationAssumption
<1> QED
  BY <1>1 DEF NewRow, Rows

LEMMA InsertStep ==
  ASSUME MigrationAssumption, MigrationInv, NEW k \in Keys, InsertRow(k)
  PROVE  MigrationInv'
<1> DEFINE top == Top(source) + 1
<1>1. /\ Changed({top}, {}) /\ counter < MaxWrites
      /\ source' = [source EXCEPT ![top] = NewRow(k)]
  BY DEF InsertRow, Changed
<1>2. top \in RowIds /\ source \in Tables
  BY AboveTop DEF InsertRow, MigrationInv, StateType
<1>3. NewRow(k) \in Rows /\ NewRow(k).key = k
  BY <1>1, NewRowType
<1> HIDE DEF top
<1>4. source' \in Tables /\ source'[top] = NewRow(k)
  BY <1>1, <1>2, <1>3 DEF Tables
<1>5. \A r \in RowIds \ {top} : source'[r] = source[r]
  BY <1>1, <1>2 DEF Tables
<1>6. \A r \in RowIds : source[r] # None => source[r].key # k
  BY DEF InsertRow, KeysOf, Present
<1>7. UniqueKeys'
  <2> SUFFICES ASSUME NEW q \in RowIds, NEW r \in RowIds,
                      source'[q] # None, source'[r] # None,
                      source'[q].key = source'[r].key
               PROVE  q = r
    BY DEF UniqueKeys
  <2>1. CASE q = top \/ r = top
    BY <2>1, <1>3, <1>4, <1>5, <1>6
  <2>2. CASE q # top /\ r # top
    BY <2>2, <1>5 DEF MigrationInv, UniqueKeys
  <2> QED
    BY <2>1, <2>2
<1> QED
  BY <1>1, <1>2, <1>4, <1>5, <1>7, JournalOrQuiet

LEMMA UpdateStep ==
  ASSUME MigrationAssumption, MigrationInv, NEW s \in RowIds, UpdateRow(s)
  PROVE  MigrationInv'
<1>1. /\ Changed({s}, {}) /\ counter < MaxWrites /\ source[s] # None
      /\ source' = [source EXCEPT ![s] = [@ EXCEPT !.write = counter + 1]]
  BY DEF UpdateRow, Changed
<1>2. source \in Tables
  BY DEF MigrationInv, StateType
<1>3. source[s] \in [key : Keys, write : 0..MaxWrites]
  BY <1>1, <1>2 DEF Tables, Rows
<1>4. counter + 1 \in 0..MaxWrites
  BY <1>1 DEF MigrationInv, StateType, MigrationAssumption
<1>5. /\ [source[s] EXCEPT !.write = counter + 1] \in [key : Keys, write : 0..MaxWrites]
      /\ [source[s] EXCEPT !.write = counter + 1].key = source[s].key
  BY <1>3, <1>4
<1>6. source' \in Tables /\ source'[s].key = source[s].key
  BY <1>1, <1>2, <1>5 DEF Tables, Rows
<1>7. \A r \in RowIds \ {s} : source'[r] = source[r]
  BY <1>1, <1>2 DEF Tables
<1>8. UniqueKeys'
  BY <1>1, <1>6, <1>7 DEF MigrationInv, UniqueKeys
<1> QED
  BY <1>1, <1>6, <1>7, <1>8, JournalOrQuiet

LEMMA DeleteStep ==
  ASSUME MigrationAssumption, MigrationInv, NEW s \in RowIds, DeleteRow(s)
  PROVE  MigrationInv'
<1>1. Changed({s}, {}) /\ source' = [source EXCEPT ![s] = None] /\ source \in Tables
  BY DEF DeleteRow, MigrationInv, StateType
<1>2. source' \in Tables /\ source'[s] = None
  BY <1>1 DEF Tables, Rows
<1>3. \A r \in RowIds \ {s} : source'[r] = source[r]
  BY <1>1 DEF Tables
<1>4. UniqueKeys'
  BY <1>2, <1>3 DEF MigrationInv, UniqueKeys
<1> QED
  BY <1>1, <1>2, <1>3, <1>4, JournalOrQuiet

LEMMA MoveStep ==
  ASSUME MigrationAssumption, MigrationInv, NEW r \in RowIds, NEW s \in RowIds,
         MoveRow(r, s)
  PROVE  MigrationInv'
<1>1. /\ Changed({r, s}, {}) /\ counter < MaxWrites
      /\ source[r] # None /\ source[s] = None
      /\ source' = [source EXCEPT ![s] = NewRow(source[r].key), ![r] = None]
  BY DEF MoveRow, Changed
<1>2. source \in Tables /\ r # s
  BY <1>1 DEF MigrationInv, StateType
<1>3. source[r].key \in Keys
  BY <1>1, <1>2 DEF Tables, Rows
<1> DEFINE k == source[r].key
<1>4. NewRow(k) \in Rows /\ NewRow(k).key = k
  BY <1>1, <1>3, NewRowType
<1>5. /\ source' \in Tables /\ source'[s] = NewRow(k) /\ source'[r] = None
      /\ \A q \in RowIds \ {r, s} : source'[q] = source[q]
  <2> HIDE DEF k
  <2>1. None \in Rows
    BY DEF Rows
  <2>2. source' = [source EXCEPT ![s] = NewRow(k), ![r] = None]
    BY <1>1 DEF k
  <2> QED
    BY <1>2, <1>4, <2>1, <2>2 DEF Tables
<1>6. UniqueKeys'
  <2> SUFFICES ASSUME NEW p \in RowIds, NEW q \in RowIds,
                      source'[p] # None, source'[q] # None,
                      source'[p].key = source'[q].key
               PROVE  p = q
    BY DEF UniqueKeys
  <2>1. p # r /\ q # r
    BY <1>5
  <2>2. \A x \in RowIds \ {r, s} : source[x] # None => source[x].key # k
    BY <1>1 DEF MigrationInv, UniqueKeys
  <2>3. CASE p = s \/ q = s
    BY <2>1, <2>2, <2>3, <1>4, <1>5
  <2>4. CASE p # s /\ q # s
    BY <2>1, <2>4, <1>5 DEF MigrationInv, UniqueKeys
  <2> QED
    BY <2>3, <2>4
<1>7. \A q \in RowIds \ {r, s} : source'[q] = source[q]
  BY <1>5
<1>8. {r, s} \in SUBSET RowIds
  OBVIOUS
<1> QED
  BY <1>1, <1>5, <1>6, <1>7, <1>8, JournalOrQuiet

\* A replacement is quiet before the journal is installed and displaces the
\* row it removes afterwards.
LEMMA ReplaceStep ==
  ASSUME MigrationAssumption, MigrationInv, NEW k \in Keys,
         ReplaceRow(k)
  PROVE  MigrationInv'
<1> DEFINE top == Top(source) + 1
<1> DEFINE old == RowOf(source, k)
<1>1. /\ stage \in {"none", "schema"} \/ Replaces
      /\ Changed({top}, {old}) /\ counter < MaxWrites
      /\ source' = [source EXCEPT ![old] = None, ![top] = NewRow(k)]
  BY DEF ReplaceRow, Changed
<1>2. top \in RowIds /\ source[top] = None /\ source \in Tables
  BY AboveTop DEF ReplaceRow, MigrationInv, StateType
<1>3. old \in RowIds /\ source[old] # None /\ source[old].key = k
  <2>1. \E r \in Present(source) : source[r].key = k
    BY DEF ReplaceRow, KeysOf
  <2> QED
    BY <2>1 DEF RowOf, Present
<1>4. NewRow(k) \in Rows /\ NewRow(k).key = k
  BY <1>1, NewRowType
<1> HIDE DEF top, old
<1>5. /\ source' \in Tables /\ source'[top] = NewRow(k) /\ source'[old] = None
      /\ \A q \in RowIds \ {old, top} : source'[q] = source[q]
  <2>1. None \in Rows /\ old # top
    BY <1>2, <1>3 DEF Rows
  <2> QED
    BY <1>1, <1>2, <1>3, <1>4, <2>1 DEF Tables
<1>6. UniqueKeys'
  <2> SUFFICES ASSUME NEW p \in RowIds, NEW q \in RowIds,
                      source'[p] # None, source'[q] # None,
                      source'[p].key = source'[q].key
               PROVE  p = q
    BY DEF UniqueKeys
  <2>1. p # old /\ q # old
    BY <1>5
  <2>2. \A x \in RowIds \ {old, top} : source[x] # None => source[x].key # k
    BY <1>3 DEF MigrationInv, UniqueKeys
  <2>3. CASE p = top \/ q = top
    BY <2>1, <2>2, <2>3, <1>4, <1>5
  <2>4. CASE p # top /\ q # top
    BY <2>1, <2>4, <1>5 DEF MigrationInv, UniqueKeys
  <2> QED
    BY <2>3, <2>4
<1>7. {top} \in SUBSET RowIds /\ {old} \in SUBSET RowIds
  BY <1>2, <1>3
<1>8. CASE stage \in {"none", "schema"}
  <2>1. Changed({top}, {old}) /\ source' \in Tables
    BY <1>1, <1>5
  <2> QED
    BY <1>6, <1>7, <1>8, <2>1, QuietWrite
<1>9. CASE stage \notin {"none", "schema"}
  <2>1. Importing /\ Replaces
    BY <1>1, <1>9 DEF MigrationInv, StateType, Importing
  <2>2. \A r \in {old} : source'[r] = None
    BY <1>5
  <2>3. \A q \in RowIds \ ({top} \cup {old}) : source'[q] = source[q]
    BY <1>5
  <2> QED
    BY <1>1, <1>5, <1>6, <1>7, <2>1, <2>2, <2>3, JournalledWrite
<1> QED
  BY <1>8, <1>9

LEMMA WriteStep ==
  ASSUME MigrationAssumption, MigrationInv, Write
  PROVE  MigrationInv'
BY InsertStep, UpdateStep, DeleteStep, MoveStep, ReplaceStep DEF Write

-----------------------------------------------------------------------------
(* prepare.                                                                 *)

LEMMA PrepareStep ==
  ASSUME MigrationAssumption, MigrationInv, Prepare
  PROVE  MigrationInv'
<1>1. /\ source' = source /\ target' = target /\ journal' = journal
      /\ counter' = counter /\ displaced' = displaced /\ report' = report /\ work' = work
  BY DEF Prepare, CreateSchema, InstallJournal, PlanTable, sideVars, writeVars
<1>2. /\ stage \in {"none", "schema", "journal"}
      /\ stage' \in {"schema", "journal", "backfill"}
      /\ highRow' \in 0..MaxRow /\ lastRow' \in 0..MaxRow
      /\ stage' = "schema" => stage = "none"
      /\ stage' = "backfill" => lastRow' = Bottom(source) - 1 /\ highRow' = Top(source)
  BY TopBounds, BottomBounds
     DEF Prepare, CreateSchema, InstallJournal, PlanTable, MigrationInv, StateType
<1>3. StateType'
  BY <1>1, <1>2 DEF MigrationInv, StateType
<1>4. UniqueKeys' /\ DisplacedInv' /\ NoChangeLost' /\ VerdictInv'
  BY <1>1, <1>2 DEF MigrationInv, UniqueKeys, DisplacedInv, NoChangeLost, VerdictInv
<1>5. \A r \in RowIds : target[r] = None
  BY <1>2 DEF MigrationInv, StageInv
<1>6. \A r \in RowIds : source[r] # None => Bottom(source) - 1 < r /\ r <= Top(source)
  BY TopBounds, BottomBounds
<1>7. Bottom(source) - 1 <= Top(source)
  BY BottomBounds
<1>8. StageInv'
  BY <1>1, <1>2, <1>5, <1>6, <1>7 DEF StageInv
<1>9. CopyInv' /\ ApplyInv' /\ AckInv'
  BY <1>1, <1>2 DEF MigrationInv, CopyInv, ApplyInv, AckInv
<1> QED
  BY <1>3, <1>4, <1>8, <1>9 DEF MigrationInv

-----------------------------------------------------------------------------
(* backfill.                                                                *)

\* A batch holds the lowest of the rows that are left, and is empty only when
\* none is.
LEMMA LowestTaken ==
  ASSUME MigrationAssumption, NEW left \in SUBSET RowIds,
         NEW take, take = {r \in left : Cardinality({q \in left : q <= r}) <= BatchRows}
  PROVE  /\ \A r \in take : \A q \in left : q <= r => q \in take
         /\ take = {} => left = {}
<1>1. IsFiniteSet(RowIds)
  BY FS_Interval DEF RowIds, MigrationAssumption
<1>2. IsFiniteSet(left) /\ RowIds \subseteq Nat
  <2>1. IsFiniteSet(left)
    BY <1>1, FS_Subset
  <2> QED
    BY <2>1 DEF RowIds
<1> DEFINE Below(r) == {q \in left : q <= r}
<1>3. \A r \in left : IsFiniteSet(Below(r)) /\ Cardinality(Below(r)) \in Nat
  <2> TAKE r \in left
  <2>1. Below(r) \in SUBSET left
    OBVIOUS
  <2> QED
    BY <1>2, <2>1, FS_Subset, FS_CardinalityType
<1>4. \A r \in take : \A q \in left : q <= r => q \in take
  <2> SUFFICES ASSUME NEW r \in take, NEW q \in left, q <= r
               PROVE  q \in take
    OBVIOUS
  <2>1. r \in left /\ Cardinality(Below(r)) <= BatchRows
    OBVIOUS
  <2>2. \A p \in left : p <= q => p <= r
    BY <1>2, <2>1
  <2>3. Below(q) \in SUBSET Below(r)
    BY <2>2
  <2>4. Cardinality(Below(q)) <= Cardinality(Below(r))
    <3>1. IsFiniteSet(Below(r))
      BY <1>3, <2>1
    <3> HIDE DEF Below
    <3> QED
      BY <2>3, <3>1, FS_Subset
  <2>5. /\ Cardinality(Below(q)) \in Nat /\ Cardinality(Below(r)) \in Nat
        /\ BatchRows \in Nat
    <3>1. q \in left /\ r \in left
      BY <2>1
    <3> HIDE DEF Below
    <3> QED
      BY <1>3, <3>1 DEF MigrationAssumption
  <2>6. Cardinality(Below(q)) <= BatchRows
    <3> HIDE DEF Below
    <3> QED
      BY <2>1, <2>4, <2>5
  <2> QED
    BY <2>6
<1>5. ASSUME left # {}
      PROVE  take # {}
  <2>1. PICK x \in left : \A y \in left : x <= y
    BY <1>2, <1>5, LowestIn
  <2>2. Below(x) = {x}
    <3>1. \A y \in left : y <= x => y = x
      BY <1>2, <2>1
    <3>2. x <= x
      BY <1>2
    <3> QED
      BY <3>1, <3>2
  <2>3. Cardinality(Below(x)) = 1
    BY <2>2, FS_Singleton
  <2>4. 1 <= BatchRows
    BY DEF MigrationAssumption
  <2> QED
    BY <2>3, <2>4
<1> QED
  BY <1>4, <1>5

LEMMA ReadBackfillStep ==
  ASSUME MigrationAssumption, MigrationInv, ReadBackfill
  PROVE  MigrationInv'
<1> DEFINE left == Present(source) \cap (lastRow + 1)..highRow
           take == {r \in left : Cardinality({q \in left : q <= r}) <= BatchRows}
           rows == [r \in take |-> source[r]]
<1>1. /\ stage = "backfill" /\ work' = [at |-> "copy", rows |-> rows]
      /\ source' = source /\ target' = target /\ journal' = journal
      /\ counter' = counter /\ displaced' = displaced /\ report' = report /\ stage' = stage
      /\ highRow' = highRow /\ lastRow' = lastRow
  BY DEF ReadBackfill, sideVars, writeVars, controlVars
<1>2. left \in SUBSET RowIds
  BY DEF Present
<1>3. lastRow \in Nat /\ highRow \in Nat /\ RowIds \subseteq Nat
  BY DEF MigrationInv, StateType, RowIds
<1>4. \A r \in RowIds : r \in left <=> source[r] # None /\ lastRow < r /\ r <= highRow
  BY <1>3 DEF Present
<1>5. take \subseteq left
  OBVIOUS
<1>6. /\ \A r \in take : \A q \in left : q <= r => q \in take
      /\ take = {} => left = {}
  <2> HIDE DEF left
  <2> QED
    BY <1>2, LowestTaken
<1>7. \A r \in take : source[r] \in Rows
  BY <1>2, <1>5 DEF MigrationInv, StateType, Tables
<1> HIDE DEF left, take
<1>8. DOMAIN rows = take /\ \A r \in take : rows[r] = source[r]
  OBVIOUS
<1> HIDE DEF rows
<1>9. work'.at = "copy" /\ work'.rows = rows
  BY <1>1
<1>10. /\ StateType' /\ UniqueKeys' /\ DisplacedInv' /\ StageInv' /\ NoChangeLost'
  BY <1>1 DEF MigrationInv, StateType, UniqueKeys, DisplacedInv, StageInv, NoChangeLost, Clean
<1>11. ApplyInv' /\ AckInv' /\ VerdictInv'
  BY <1>1, <1>9 DEF MigrationInv, ApplyInv, AckInv, VerdictInv
<1>12. CopyInv'
  <2>1. \A r \in take :
          /\ r \in RowIds /\ lastRow < r /\ r <= highRow
          /\ rows[r] \in Rows /\ rows[r] # None
          /\ source[r] = rows[r]
    BY <1>2, <1>4, <1>5, <1>7, <1>8
  <2>2. ASSUME NEW r \in RowIds, r \notin take, lastRow < r, r <= highRow,
               take = {} \/ \E q \in take : r <= q
        PROVE  source[r] = None
    BY <1>4, <1>6, <2>2
  <2>3. \A q \in take : \A r \in RowIds :
          source[r] # None /\ source[r].key = rows[q].key => r = q
    BY <2>1, <1>8 DEF MigrationInv, UniqueKeys
  <2> QED
    BY <1>1, <1>8, <1>9, <2>1, <2>2, <2>3 DEF CopyInv
<1> QED
  BY <1>10, <1>11, <1>12 DEF MigrationInv

\* An upsert of rows keeps the tables and leaves every other key alone.
LEMMA UpsertIs ==
  ASSUME NEW t \in Tables, NEW rows, DOMAIN rows \subseteq RowIds,
         \A r \in DOMAIN rows : rows[r] \in Rows
  PROVE  /\ Upserted(t, rows) \in Tables
         /\ \A r \in DOMAIN rows : Upserted(t, rows)[r] = rows[r]
         /\ \A r \in RowIds \ DOMAIN rows :
              \/ Upserted(t, rows)[r] = t[r]
              \/ /\ Upserted(t, rows)[r] = None
                 /\ t[r] # None /\ \E q \in DOMAIN rows : t[r].key = rows[q].key
         /\ \A r \in RowIds \ DOMAIN rows : \A q \in DOMAIN rows :
              t[r] # None /\ t[r].key = rows[q].key => Upserted(t, rows)[r] = None
<1> DEFINE keys == {rows[r].key : r \in DOMAIN rows}
           Put(r) == IF r \in DOMAIN rows THEN rows[r]
                     ELSE IF t[r] # None /\ t[r].key \in keys THEN None ELSE t[r]
<1>1. Upserted(t, rows) = [r \in RowIds |-> Put(r)]
  BY DEF Upserted
<1>2. \A r \in RowIds : Put(r) \in Rows
  BY DEF Tables, Rows
<1>3. Upserted(t, rows) \in Tables
  <2> HIDE DEF Put
  <2> QED
    BY <1>1, <1>2 DEF Tables
<1>4. \A r \in RowIds : Upserted(t, rows)[r] = Put(r)
  BY <1>1
<1>5. \A r \in DOMAIN rows : Upserted(t, rows)[r] = rows[r]
  BY <1>4
<1>6. ASSUME NEW r \in RowIds \ DOMAIN rows
      PROVE  \/ Upserted(t, rows)[r] = t[r]
             \/ /\ Upserted(t, rows)[r] = None
                /\ t[r] # None /\ \E q \in DOMAIN rows : t[r].key = rows[q].key
  BY <1>4
<1>7. ASSUME NEW r \in RowIds \ DOMAIN rows, NEW q \in DOMAIN rows,
             t[r] # None, t[r].key = rows[q].key
      PROVE  Upserted(t, rows)[r] = None
  BY <1>4, <1>7
<1> QED
  BY <1>3, <1>5, <1>6, <1>7

LEMMA CopyStep ==
  ASSUME MigrationAssumption, MigrationInv, CopyRows
  PROVE  MigrationInv'
<1> DEFINE rows == work.rows
           D == DOMAIN rows
           end == IF D = {} THEN highRow ELSE Max(D)
<1>1. /\ work.at = "copy" /\ work' = Idle
      /\ target' = Upserted(target, rows) /\ lastRow' = end
      /\ stage' = IF D = {} THEN "copied" ELSE stage
      /\ source' = source /\ journal' = journal /\ counter' = counter /\ displaced' = displaced
      /\ highRow' = highRow /\ report' = report
  BY DEF CopyRows, writeVars
<1>2. /\ stage = "backfill"
      /\ \A r \in D : /\ r \in RowIds /\ lastRow < r /\ r <= highRow
                      /\ rows[r] \in Rows /\ rows[r] # None
                      /\ Clean(r) => source[r] = rows[r]
  BY <1>1 DEF MigrationInv, CopyInv
<1>3. ASSUME NEW r \in RowIds, r \notin D, Clean(r), lastRow < r, r <= highRow,
             D = {} \/ \E q \in D : r <= q
      PROVE  source[r] = None
  BY <1>1, <1>3 DEF MigrationInv, CopyInv
<1>4. \A q \in D : \A r \in RowIds :
        Clean(r) /\ source[r] # None /\ source[r].key = rows[q].key => r = q
  BY <1>1 DEF MigrationInv, CopyInv
<1>5. /\ lastRow <= highRow
      /\ \A r \in RowIds : r > lastRow => target[r] = None
      /\ \A r \in RowIds :
           Clean(r) /\ source[r] # target[r] => lastRow < r /\ r <= highRow
  BY <1>2 DEF MigrationInv, StageInv
<1>6. /\ lastRow \in Nat /\ highRow \in 0..MaxRow /\ RowIds \subseteq 0..MaxRow
      /\ target \in Tables /\ MaxRow \in Nat
  BY DEF MigrationInv, StateType, RowIds, MigrationAssumption
<1>7. /\ end \in 0..MaxRow /\ lastRow <= end /\ end <= highRow
      /\ \A r \in D : r <= end
      /\ D = {} => end = highRow
      /\ D # {} => end \in D
  <2>1. CASE D = {}
    BY <2>1, <1>5, <1>6
  <2>2. CASE D # {}
    <3>1. D \subseteq 0..MaxRow
      BY <1>2, <1>6
    <3>2. Max(D) \in D /\ \A r \in D : Max(D) >= r
      <4> HIDE DEF D
      <4> QED
        BY <1>6, <2>2, <3>1, MaxIs
    <3>3. end = Max(D)
      BY <2>2
    <3> HIDE DEF end, D, rows
    <3>4. \A r \in D : r <= end
      BY <1>6, <3>1, <3>2, <3>3
    <3>5. end \in D /\ end \in 0..MaxRow
      BY <3>1, <3>2, <3>3
    <3>6. lastRow < end /\ end <= highRow
      BY <1>2, <3>5
    <3>7. lastRow <= end
      BY <1>6, <3>5, <3>6
    <3> QED
      BY <2>2, <3>4, <3>5, <3>6, <3>7
  <2> QED
    BY <2>1, <2>2
<1>8. D \subseteq RowIds /\ \A r \in D : rows[r] \in Rows
  BY <1>2
<1> HIDE DEF end, rows
<1>9. /\ target' \in Tables
      /\ \A r \in D : target'[r] = rows[r]
      /\ \A r \in RowIds \ D :
           \/ target'[r] = target[r]
           \/ /\ target'[r] = None
              /\ target[r] # None /\ \E q \in D : target[r].key = rows[q].key
  BY <1>1, <1>6, <1>8, UpsertIs
<1> HIDE DEF D
<1>10. \A r \in RowIds : r > end => target'[r] = None
  <2> SUFFICES ASSUME NEW r \in RowIds, r > end
               PROVE  target'[r] = None
    OBVIOUS
  <2>1. r \notin D /\ r > lastRow
    BY <1>6, <1>7
  <2> QED
    BY <2>1, <1>5, <1>9
<1>11. \A r \in RowIds :
         Clean(r) /\ source[r] # target'[r] => end < r /\ r <= highRow
  <2> SUFFICES ASSUME NEW r \in RowIds, Clean(r), ~(end < r /\ r <= highRow)
               PROVE  source[r] = target'[r]
    OBVIOUS
  <2>1. CASE r \in D
    BY <2>1, <1>2, <1>9
  <2>2. CASE r \notin D /\ r <= lastRow
    <3>1. source[r] = target[r]
      BY <2>2, <1>5, <1>6
    <3>2. \A q \in D : q # r
      BY <2>2
    <3>3. ~(target[r] # None /\ \E q \in D : target[r].key = rows[q].key)
      BY <3>1, <3>2, <1>4
    <3> QED
      BY <2>2, <3>1, <3>3, <1>9
  <2>3. CASE r \notin D /\ lastRow < r /\ r <= end
    <3>1. source[r] = None
      BY <2>3, <1>3, <1>6, <1>7
    <3>2. target[r] = None
      BY <2>3, <1>5, <1>6
    <3> QED
      BY <2>3, <3>1, <3>2, <1>9
  <2>4. CASE r \notin D /\ r > highRow
    <3>1. source[r] = target[r] /\ target[r] = None
      BY <2>4, <1>5, <1>6
    <3> QED
      BY <2>4, <3>1, <1>9
  <2>5. r \in Nat /\ end \in Nat /\ lastRow \in Nat /\ highRow \in Nat
    BY <1>6, <1>7
  <2> QED
    BY <2>1, <2>2, <2>3, <2>4, <2>5
<1>12. stage' \in {"backfill", "copied"} /\ (stage' = "copied" => end = highRow)
  BY <1>1, <1>2, <1>7
<1>13. StateType'
  <2>1. highRow' \in 0..MaxRow /\ lastRow' \in 0..MaxRow
    BY <1>1, <1>6, <1>7
  <2> QED
    BY <1>1, <1>9, <1>12, <2>1 DEF MigrationInv, StateType
<1>14. UniqueKeys' /\ DisplacedInv'
  BY <1>1, <1>12 DEF MigrationInv, UniqueKeys, DisplacedInv
<1>15. StageInv'
  BY <1>1, <1>7, <1>10, <1>11, <1>12 DEF StageInv, Clean
<1>16. NoChangeLost'
  <2>1. SUFFICES ASSUME stage' \in {"copied", "indexed"}, NEW r \in RowIds,
                        source[r] # target'[r], Clean(r)
                 PROVE  FALSE
    BY <1>1 DEF NoChangeLost, Clean
  <2>2. end = highRow
    BY <2>1, <1>12
  <2>3. end < r /\ r <= highRow
    BY <2>1, <1>11
  <2>4. r \in Nat /\ end \in Nat
    BY <1>6, <1>7
  <2> QED
    BY <2>2, <2>3, <2>4
<1>17. VerdictInv'
  BY <1>1, <1>2 DEF MigrationInv, VerdictInv
<1>18. CopyInv' /\ ApplyInv' /\ AckInv'
  BY <1>1 DEF CopyInv, ApplyInv, AckInv, Idle
<1> QED
  BY <1>13, <1>14, <1>15, <1>16, <1>17, <1>18 DEF MigrationInv

\* Every other step of the importer keeps the two tables and the stage's part.
LEMMA BuildStep ==
  ASSUME MigrationAssumption, MigrationInv, BuildIndexes
  PROVE  MigrationInv'
<1>1. /\ stage = "copied" /\ stage' = "indexed" /\ work = Idle /\ work' = work
      /\ source' = source /\ target' = target /\ journal' = journal
      /\ counter' = counter /\ displaced' = displaced /\ highRow' = highRow /\ lastRow' = lastRow
      /\ report' = report
  BY DEF BuildIndexes, sideVars, writeVars
<1>2. StateType' /\ UniqueKeys' /\ DisplacedInv' /\ StageInv' /\ NoChangeLost'
  BY <1>1 DEF MigrationInv, StateType, UniqueKeys, DisplacedInv, StageInv, NoChangeLost, Clean
<1>3. VerdictInv'
  BY <1>1 DEF MigrationInv, VerdictInv
<1>4. CopyInv' /\ ApplyInv' /\ AckInv'
  BY <1>1 DEF CopyInv, ApplyInv, AckInv, Idle
<1> QED
  BY <1>2, <1>3, <1>4 DEF MigrationInv

-----------------------------------------------------------------------------
(* replay.                                                                  *)

\* Only journalled rows are replayed.
LEMMA BatchJournalled == \A r \in Batch : r \in RowIds /\ journal[r] # 0
BY DEF Batch, FirstRows

LEMMA ReadBatchStep ==
  ASSUME MigrationAssumption, MigrationInv, ReadBatch
  PROVE  MigrationInv'
<1> DEFINE changes == [r \in Batch |-> journal[r]]
           observed == [r \in Batch |-> source[r]]
<1>1. /\ stage \in {"copied", "indexed"} /\ Batch # {}
      /\ work' = [at |-> "apply", changes |-> changes, observed |-> observed]
      /\ source' = source /\ target' = target /\ journal' = journal
      /\ counter' = counter /\ displaced' = displaced /\ report' = report /\ stage' = stage
      /\ highRow' = highRow /\ lastRow' = lastRow
  BY DEF ReadBatch, sideVars, writeVars, controlVars
<1>2. /\ DOMAIN changes = Batch /\ DOMAIN observed = Batch
      /\ \A r \in Batch : changes[r] = journal[r] /\ observed[r] = source[r]
  OBVIOUS
<1> HIDE DEF changes, observed
<1>3. work'.at = "apply" /\ work'.changes = changes /\ work'.observed = observed
  BY <1>1
<1>4. /\ source \in Tables /\ journal \in [RowIds -> 0..counter] /\ counter \in Nat
  BY DEF MigrationInv, StateType
<1>5. StateType' /\ UniqueKeys' /\ DisplacedInv' /\ StageInv' /\ NoChangeLost'
  BY <1>1 DEF MigrationInv, StateType, UniqueKeys, DisplacedInv, StageInv, NoChangeLost, Clean
<1>6. CopyInv' /\ AckInv'
  BY <1>3 DEF CopyInv, AckInv
<1>7. VerdictInv'
  <2>1. \E r \in RowIds : journal[r] # 0
    BY <1>1, BatchJournalled
  <2> QED
    BY <1>1, <2>1 DEF MigrationInv, VerdictInv
<1>8. ApplyInv'
  <2>1. \A r \in Batch : r \in RowIds /\ journal[r] # 0
    BY BatchJournalled
  <2> HIDE DEF Batch
  <2>2. \A r \in Batch : observed[r] \in Rows /\ changes[r] \in 1..counter
    BY <1>2, <1>4, <2>1 DEF Tables
  <2>3. \A r \in Batch : \A q \in RowIds :
          Clean(q) /\ source[q] # None /\ observed[r] # None
          => source[q].key # observed[r].key
    BY <1>2, <2>1 DEF MigrationInv, UniqueKeys, Clean
  <2> QED
    BY <1>1, <1>2, <1>3, <2>1, <2>2, <2>3 DEF ApplyInv, Clean
<1> QED
  BY <1>5, <1>6, <1>7, <1>8 DEF MigrationInv

\* On the rows of a batch PostgreSQL then holds what was read; a row outside
\* it changes only if it had a key of the batch.
LEMMA ApplyIs ==
  ASSUME target \in Tables, NEW observed, DOMAIN observed \subseteq RowIds,
         \A r \in DOMAIN observed : observed[r] \in Rows
  PROVE  /\ Upserted(Cleared(observed), Live(observed)) \in Tables
         /\ \A r \in DOMAIN observed :
              Upserted(Cleared(observed), Live(observed))[r] = observed[r]
         /\ \A r \in RowIds \ DOMAIN observed :
              \/ Upserted(Cleared(observed), Live(observed))[r] = target[r]
              \/ /\ target[r] # None
                 /\ \E q \in DOMAIN observed :
                      observed[q] # None /\ target[r].key = observed[q].key
<1> DEFINE D == DOMAIN observed
           live == Live(observed)
           t == Cleared(observed)
           u == Upserted(t, live)
<1>1. /\ \A q : q \in DOMAIN live <=> q \in D /\ observed[q] # None
      /\ \A q \in DOMAIN live : live[q] = observed[q]
  BY DEF Live
<1>2. \A q \in DOMAIN live : observed[q].key \in LiveKeys(observed)
  BY DEF LiveKeys
<1>3. \A k \in LiveKeys(observed) : \E q \in DOMAIN live : k = observed[q].key
  BY DEF LiveKeys
<1>4. t \in Tables
  BY DEF Cleared, Tables, Rows
<1>5. \A r \in RowIds \ D : t[r] = target[r]
  BY DEF Cleared
<1>6. \A r \in D : t[r] = None \/ t[r].key \in LiveKeys(observed)
  BY DEF Cleared
<1> HIDE DEF live, t
<1>7. DOMAIN live \subseteq RowIds /\ \A r \in DOMAIN live : live[r] \in Rows
  BY <1>1
<1>8. /\ u \in Tables
      /\ \A r \in DOMAIN live : u[r] = live[r]
      /\ \A r \in RowIds \ DOMAIN live :
           \/ u[r] = t[r]
           \/ /\ u[r] = None
              /\ t[r] # None /\ \E q \in DOMAIN live : t[r].key = live[q].key
      /\ \A r \in RowIds \ DOMAIN live : \A q \in DOMAIN live :
           t[r] # None /\ t[r].key = live[q].key => u[r] = None
  BY <1>4, <1>7, UpsertIs
<1> HIDE DEF u
<1>9. \A r \in D : u[r] = observed[r]
  <2> SUFFICES ASSUME NEW r \in D
               PROVE  u[r] = observed[r]
    OBVIOUS
  <2>1. CASE observed[r] # None
    BY <2>1, <1>1, <1>8
  <2>2. CASE observed[r] = None
    <3>1. r \in RowIds \ DOMAIN live
      BY <2>2, <1>1
    <3>2. CASE t[r] = None
      BY <3>1, <3>2, <2>2, <1>8
    <3>3. CASE t[r] # None
      <4>1. PICK q \in DOMAIN live : t[r].key = live[q].key
        BY <3>3, <1>1, <1>3, <1>6
      <4> QED
        BY <3>1, <3>3, <4>1, <2>2, <1>8
    <3> QED
      BY <3>2, <3>3
  <2> QED
    BY <2>1, <2>2
<1>10. \A r \in RowIds \ D :
         \/ u[r] = target[r]
         \/ /\ target[r] # None
            /\ \E q \in D : observed[q] # None /\ target[r].key = observed[q].key
  <2> SUFFICES ASSUME NEW r \in RowIds \ D, u[r] # target[r]
               PROVE  /\ target[r] # None
                      /\ \E q \in D : observed[q] # None /\ target[r].key = observed[q].key
    OBVIOUS
  <2>1. t[r] = target[r] /\ r \in RowIds \ DOMAIN live
    BY <1>1, <1>5
  <2>2. t[r] # None /\ \E q \in DOMAIN live : t[r].key = live[q].key
    BY <2>1, <1>8
  <2> QED
    BY <2>1, <2>2, <1>1
<1> QED
  BY <1>8, <1>9, <1>10 DEF u, live, t

LEMMA ApplyStep ==
  ASSUME MigrationAssumption, MigrationInv, ApplyBatch
  PROVE  MigrationInv'
<1> DEFINE observed == work.observed
           changes == work.changes
           D == DOMAIN observed
<1>1. /\ work.at = "apply" /\ work' = [at |-> "ack", changes |-> changes]
      /\ target' = Upserted(Cleared(observed), Live(observed))
      /\ source' = source /\ journal' = journal /\ counter' = counter /\ displaced' = displaced
      /\ stage' = stage /\ highRow' = highRow /\ lastRow' = lastRow
      /\ report' = report
  BY DEF ApplyBatch, controlVars, writeVars
<1>2. /\ stage \in {"copied", "indexed"} /\ D = DOMAIN changes
      /\ \A r \in D : /\ r \in RowIds /\ journal[r] # 0
                      /\ observed[r] \in Rows
                      /\ changes[r] \in 1..counter
                      /\ journal[r] = changes[r] /\ r \notin displaced
                         => source[r] = observed[r]
  BY <1>1 DEF MigrationInv, ApplyInv
<1>3. \A r \in D : \A q \in RowIds :
        Clean(q) /\ source[q] # None /\ observed[r] # None
        => source[q].key # observed[r].key
  BY <1>1 DEF MigrationInv, ApplyInv
<1>4. \A r \in RowIds : source[r] # target[r] => ~Clean(r)
  BY <1>2 DEF MigrationInv, NoChangeLost, Clean
<1>5. target \in Tables
  BY DEF MigrationInv, StateType
<1> HIDE DEF observed, changes
<1>6. /\ target' \in Tables
      /\ \A r \in D : target'[r] = observed[r]
      /\ \A r \in RowIds \ D :
           \/ target'[r] = target[r]
           \/ /\ target[r] # None
              /\ \E q \in D : observed[q] # None /\ target[r].key = observed[q].key
  BY <1>1, <1>2, <1>5, ApplyIs
<1>7. work'.at = "ack" /\ work'.changes = changes
  BY <1>1
<1>8. StateType' /\ UniqueKeys' /\ DisplacedInv' /\ StageInv'
  BY <1>1, <1>2, <1>6 DEF MigrationInv, StateType, UniqueKeys, DisplacedInv, StageInv, Clean
<1>9. NoChangeLost'
  <2>1. SUFFICES ASSUME NEW r \in RowIds, Clean(r)
                 PROVE  source[r] = target'[r]
    BY <1>1 DEF NoChangeLost, Clean
  <2>2. r \notin D /\ source[r] = target[r]
    BY <2>1, <1>2, <1>4 DEF Clean
  <2>3. ~(/\ target[r] # None
          /\ \E q \in D : observed[q] # None /\ target[r].key = observed[q].key)
    BY <2>1, <2>2, <1>3
  <2> QED
    BY <2>2, <2>3, <1>6
<1>10. AckInv'
  BY <1>1, <1>2, <1>6, <1>7 DEF AckInv
<1>11. CopyInv' /\ ApplyInv'
  BY <1>7 DEF CopyInv, ApplyInv
<1>12. VerdictInv'
  BY <1>1 DEF MigrationInv, VerdictInv
<1> QED
  BY <1>8, <1>9, <1>10, <1>11, <1>12 DEF MigrationInv

\* An acknowledgement clears an entry only where the tables agree.
LEMMA AckStep ==
  ASSUME MigrationAssumption, MigrationInv, AckChanges
  PROVE  MigrationInv'
<1> DEFINE changes == work.changes
<1>1. /\ work.at = "ack" /\ work' = Idle /\ journal' = Acked(changes)
      /\ source' = source /\ target' = target /\ counter' = counter /\ displaced' = displaced
      /\ stage' = stage /\ highRow' = highRow /\ lastRow' = lastRow
      /\ report' = report
  BY DEF AckChanges, sideVars, writeVars, controlVars
<1>2. /\ stage \in {"copied", "indexed"}
      /\ \A r \in DOMAIN changes :
           journal[r] = changes[r] /\ r \notin displaced => source[r] = target[r]
  BY <1>1 DEF MigrationInv, AckInv
<1>3. journal \in [RowIds -> 0..counter] /\ counter \in Nat
  BY DEF MigrationInv, StateType
<1> HIDE DEF changes
<1>4. journal' \in [RowIds -> 0..counter]
  BY <1>1, <1>3 DEF Acked
<1>5. \A r \in RowIds : journal'[r] = 0 =>
        journal[r] = 0 \/ (r \in DOMAIN changes /\ journal[r] = changes[r])
  BY <1>1 DEF Acked
<1>6. StateType' /\ UniqueKeys' /\ DisplacedInv' /\ StageInv'
  BY <1>1, <1>2, <1>4 DEF MigrationInv, StateType, UniqueKeys, DisplacedInv, StageInv, Clean
<1>7. NoChangeLost'
  BY <1>1, <1>2, <1>5 DEF MigrationInv, NoChangeLost
<1>8. CopyInv' /\ ApplyInv' /\ AckInv'
  BY <1>1 DEF CopyInv, ApplyInv, AckInv, Idle
<1>9. VerdictInv'
  BY <1>1 DEF MigrationInv, VerdictInv
<1> QED
  BY <1>6, <1>7, <1>8, <1>9 DEF MigrationInv

-----------------------------------------------------------------------------
(* Reconciliation, the barrier, a crash.                                    *)

LEMMA ReconcileStep ==
  ASSUME MigrationAssumption, MigrationInv, Reconcile
  PROVE  MigrationInv'
<1>1. /\ source' = source /\ target' = target /\ journal' = journal
      /\ counter' = counter /\ displaced' = displaced /\ stage' = stage /\ highRow' = highRow
      /\ lastRow' = lastRow /\ report' = report
  BY DEF Reconcile, ReadChunk, CertifyChunk, sideVars, writeVars, controlVars
<1>2. work'.at \in {"idle", "certify"}
  <2>1. CASE ReadChunk
    <3>1. work'.at = "certify"
      BY <2>1 DEF ReadChunk
    <3> QED
      BY <3>1
  <2>2. CASE CertifyChunk
    BY <2>2 DEF CertifyChunk, Idle
  <2> QED
    BY <2>1, <2>2 DEF Reconcile
<1>3. StateType' /\ UniqueKeys' /\ DisplacedInv' /\ StageInv' /\ NoChangeLost'
  BY <1>1 DEF MigrationInv, StateType, UniqueKeys, DisplacedInv, StageInv, NoChangeLost, Clean
<1>4. CopyInv' /\ ApplyInv' /\ AckInv'
  BY <1>2 DEF CopyInv, ApplyInv, AckInv
<1>5. VerdictInv'
  BY <1>1, <1>2 DEF MigrationInv, VerdictInv
<1> QED
  BY <1>3, <1>4, <1>5 DEF MigrationInv

\* The barrier sees an empty journal.
LEMMA BarrierStep ==
  ASSUME MigrationAssumption, MigrationInv, Barrier
  PROVE  MigrationInv'
<1>1. /\ source' = source /\ target' = target /\ journal' = journal
      /\ counter' = counter /\ displaced' = displaced /\ stage' = stage /\ highRow' = highRow
      /\ lastRow' = lastRow /\ work' = work
      /\ work = Idle /\ stage = "indexed" /\ report' = counter
      /\ \A r \in RowIds : journal[r] = 0
  BY DEF Barrier, Pending, sideVars, writeVars, controlVars
<1>2. counter \in Nat
  BY DEF MigrationInv, StateType
<1>4. StateType' /\ UniqueKeys' /\ DisplacedInv' /\ StageInv' /\ NoChangeLost'
  BY <1>1, <1>2 DEF MigrationInv, StateType, UniqueKeys, DisplacedInv, StageInv, NoChangeLost, Clean
<1>5. CopyInv' /\ ApplyInv' /\ AckInv'
  BY <1>1 DEF CopyInv, ApplyInv, AckInv, Idle
<1>6. VerdictInv'
  BY <1>1 DEF VerdictInv, Idle
<1> QED
  BY <1>4, <1>5, <1>6 DEF MigrationInv

LEMMA CrashStep ==
  ASSUME MigrationAssumption, MigrationInv, Crash
  PROVE  MigrationInv'
<1>1. /\ source' = source /\ target' = target /\ journal' = journal
      /\ counter' = counter /\ displaced' = displaced /\ stage' = stage /\ highRow' = highRow
      /\ lastRow' = lastRow /\ report' = report /\ work' = Idle
  BY DEF Crash, sideVars, writeVars, controlVars
<1>2. StateType' /\ UniqueKeys' /\ DisplacedInv' /\ StageInv' /\ NoChangeLost'
  BY <1>1 DEF MigrationInv, StateType, UniqueKeys, DisplacedInv, StageInv, NoChangeLost, Clean
<1>3. CopyInv' /\ ApplyInv' /\ AckInv' /\ VerdictInv'
  BY <1>1 DEF MigrationInv, CopyInv, ApplyInv, AckInv, VerdictInv, Idle
<1> QED
  BY <1>2, <1>3 DEF MigrationInv

-----------------------------------------------------------------------------
(* The theorems.                                                            *)

LEMMA MigrationInit ==
  ASSUME MigrationAssumption, Init
  PROVE  MigrationInv
<1>1. PICK k \in Keys :
        source = [r \in RowIds |-> IF r = 1 THEN [key |-> k, write |-> 0] ELSE None]
  BY DEF Init
<1>2. MaxWrites \in Nat /\ MaxRow \in Nat /\ None \notin Int
  BY DEF MigrationAssumption
<1>3. [key |-> k, write |-> 0] \in Rows /\ None \in Rows
  BY <1>2 DEF Rows
<1>4. source \in Tables
  BY <1>1, <1>3 DEF Tables
<1>5. /\ target = [r \in RowIds |-> None] /\ journal = [r \in RowIds |-> 0]
      /\ counter = 0 /\ displaced = {} /\ stage = "none" /\ highRow = 0 /\ lastRow = 0
      /\ work = Idle /\ report = None
  BY DEF Init
<1>6. StateType
  <2>1. target \in Tables
    BY <1>3, <1>5 DEF Tables
  <2>2. journal \in [RowIds -> 0..counter] /\ report \in 0..counter \cup {None}
    BY <1>5
  <2>3. /\ counter \in Nat /\ counter <= MaxWrites
        /\ highRow \in 0..MaxRow /\ lastRow \in 0..MaxRow
    BY <1>2, <1>5
  <2> QED
    BY <1>4, <1>5, <2>1, <2>2, <2>3 DEF StateType
<1>7. UniqueKeys /\ DisplacedInv
  BY <1>1, <1>5 DEF UniqueKeys, DisplacedInv
<1>8. StageInv /\ NoChangeLost
  BY <1>5 DEF StageInv, NoChangeLost
<1>9. CopyInv /\ ApplyInv /\ AckInv
  BY <1>5 DEF CopyInv, ApplyInv, AckInv, Idle
<1>10. VerdictInv
  BY <1>2, <1>5 DEF VerdictInv
<1> QED
  BY <1>6, <1>7, <1>8, <1>9, <1>10 DEF MigrationInv

LEMMA MigrationStep ==
  ASSUME MigrationAssumption, MigrationInv, [Next]_vars
  PROVE  MigrationInv'
<1>1. CASE Write
  BY <1>1, WriteStep
<1>2. CASE Prepare
  BY <1>2, PrepareStep
<1>3. CASE Backfill
  BY <1>3, ReadBackfillStep, CopyStep, BuildStep DEF Backfill
<1>4. CASE Replay
  BY <1>4, ReadBatchStep, ApplyStep, AckStep DEF Replay
<1>5. CASE Reconcile
  BY <1>5, ReconcileStep
<1>6. CASE Barrier
  BY <1>6, BarrierStep
<1>7. CASE Crash
  BY <1>7, CrashStep
<1>8. CASE UNCHANGED vars
  <2>1. /\ source' = source /\ target' = target /\ journal' = journal
        /\ counter' = counter /\ displaced' = displaced /\ stage' = stage /\ highRow' = highRow
        /\ lastRow' = lastRow /\ report' = report /\ work' = work
    BY <1>8 DEF vars, sideVars, writeVars, controlVars
  <2>2. StateType' /\ UniqueKeys' /\ DisplacedInv' /\ StageInv' /\ NoChangeLost'
    BY <2>1 DEF MigrationInv, StateType, UniqueKeys, DisplacedInv, StageInv, NoChangeLost, Clean
  <2>3. CopyInv' /\ ApplyInv' /\ AckInv' /\ VerdictInv'
    BY <2>1 DEF MigrationInv, CopyInv, ApplyInv, AckInv, VerdictInv, Clean
  <2> QED
    BY <2>2, <2>3 DEF MigrationInv
<1> QED
  BY <1>1, <1>2, <1>3, <1>4, <1>5, <1>6, <1>7, <1>8 DEF Next

\* The inductive invariant holds of every execution, whatever the writers of
\* the SQLite file do, INSERT OR REPLACE included, while the importer copies,
\* replays and crashes (storage_migration.py).
THEOREM MigrationSafe ==
  ASSUME MigrationAssumption
  PROVE  Spec => []MigrationInv
<1>1. Init => MigrationInv
  BY MigrationInit
<1>2. MigrationInv /\ [Next]_vars => MigrationInv'
  BY MigrationStep
<1> QED
  BY <1>1, <1>2, PTL DEF Spec

\* A row that differs between the two databases after the backfill is named by
\* the journal or was removed unseen by a REPLACE: the backfill leaves nothing
\* behind, and the acknowledgement of a batch (ack_changes) takes no later
\* change with it.
THEOREM ChangesJournalled ==
  ASSUME MigrationAssumption
  PROVE  Spec => []NoChangeLost
<1>1. MigrationInv => NoChangeLost
  BY DEF MigrationInv
<1> QED
  BY <1>1, MigrationSafe, PTL

\* While the sequence it reports is the source's, a barrier's verdict has an
\* empty journal behind it, and what differs then was displaced.
LEMMA VerdictRows ==
  ASSUME MigrationInv, report = counter, NEW r \in RowIds
  PROVE  source[r] = target[r] \/ (source[r] = None /\ r \in displaced)
<1>1. stage = "indexed" /\ journal[r] = 0
  BY DEF MigrationInv, VerdictInv
<1>2. source[r] # target[r] => r \in displaced
  BY <1>1 DEF MigrationInv, NoChangeLost
<1> QED
  BY <1>2 DEF MigrationInv, DisplacedInv

\* verify_barrier reads certificates and no row, and still nothing is missing
\* in PostgreSQL as long as the sequence it reports is the source's: it holds
\* every row of the source, and besides them only what a REPLACE removed
\* unseen (telegram_alerts.py:392, chain_stream.py:854).
THEOREM BarrierMissesNothing ==
  ASSUME MigrationAssumption
  PROVE  Spec => []NothingMissing
<1>1. MigrationInv => NothingMissing
  BY VerdictRows DEF NothingMissing
<1> QED
  BY <1>1, MigrationSafe, PTL

\* Where no writer uses INSERT OR REPLACE behind the journal the verdict is
\* what it says: both databases hold the same rows.  The condition is needed
\* and the code does not meet it: migration_replace is the counterexample.
COROLLARY BarrierExactWithoutReplace ==
  ASSUME MigrationAssumption, Replaces = FALSE
  PROVE  Spec => []VerdictTrue
<1>1. MigrationInv => VerdictTrue
  <2>1. SUFFICES ASSUME MigrationInv, report = counter
                 PROVE  source = target
    BY DEF VerdictTrue
  <2>2. displaced = {} /\ source \in Tables /\ target \in Tables
    BY <2>1 DEF MigrationInv, DisplacedInv, StateType
  <2>3. \A r \in RowIds : source[r] = target[r]
    BY <2>1, <2>2, VerdictRows
  <2> QED
    BY <2>2, <2>3 DEF Tables
<1> QED
  BY <1>1, MigrationSafe, PTL

=============================================================================
