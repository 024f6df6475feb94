--------------------------- MODULE ServingProofs ---------------------------
(*************************************************************************)
(* What the API process keeps between its readers and the databases: the *)
(* in-process detail cache (DetailCache), whose data is what a full read *)
(* would give and, when it counts as fresh, not older than the latest    *)
(* announced event; the demand leases (DemandLeases), whose flush task   *)
(* implements the coalescing writer of LatestValue; the live chart       *)
(* (ChartFeed), which reflects every event up to its cursor unless one   *)
(* of four races happened; and the shared read model (ReadModel), whose  *)
(* answers are publications that were verified in storage recently.      *)
(*************************************************************************)
EXTENDS DetailCache, DemandLeases, ChartFeed, ReadModel, FiniteSetTheorems, TLAPS

-----------------------------------------------------------------------------
(* The detail cache.                                                        *)

\* Bodies the present database can hold.
Known == {Never} \cup {<<database, n>> : n \in 1..lastId}

\* The outbox keeps the last rows of the present database without a hole, and
\* every item's latest write, unless it is older than the first row.
OutboxInv ==
  /\ \A e \in outbox : e \in [id : 1..lastId, item : Items]
  /\ \E low \in 1..lastId + 1 :
       /\ {e.id : e \in outbox} = low..lastId
       /\ lastId > 0 => low <= lastId
       /\ \A i \in Items : content[i][2] >= low => [id |-> content[i][2], item |-> i] \in outbox

ContentInv == content \in [Items -> Known]

\* Facts captured at a cursor: what differs was written after it.
AsOf(facts, cursor) == \A i \in Items : facts[i] = content[i] \/ content[i][2] > cursor

SharedInv == shared # None =>
  /\ shared \in [database : 0..database, cursor : 0..MaxWrites, facts : [Items -> Writes]]
  /\ shared.database = database => shared.cursor <= lastId /\ AsOf(shared.facts, shared.cursor)

TaskInv == task # None =>
  /\ task = [generation |-> task.generation, facts |-> task.facts, cursor |-> task.cursor]
  /\ task.generation \in 0..generation
  /\ task.facts # None =>
       /\ task.cursor \in 0..lastId /\ task.facts \in [Items -> Writes]
       /\ AsOf(task.facts, task.cursor)

\* Later than the latest announced event, or the same.
Newer(facts) == \A i \in Items :
  facts[i] = announced[i] \/ (facts[i][1] = database /\ facts[i][2] > announced[i][2])

FreshInv ==
  /\ announced \in [Items -> Known] /\ Newer(content)
  /\ current => Newer(data)
  /\ task # None /\ task.facts # None /\ task.generation = generation => Newer(data)

CacheInv == CacheTypeOK /\ OutboxInv /\ ContentInv /\ SharedInv /\ TaskInv /\ FreshInv

\* Retention keeps the last row: what the outbox holds ends with the last write.
LEMMA OutboxEnds ==
  ASSUME lastId \in Nat, OutboxInv, NEW low \in 1..lastId + 1,
         {e.id : e \in outbox} = low..lastId, lastId > 0 => low <= lastId
  PROVE  /\ outbox = {} <=> lastId = 0
         /\ High = lastId
         /\ outbox # {} => Min({e.id : e \in outbox}) = low
<1>1. outbox = {} <=> lastId = 0
  <2>1. CASE lastId = 0
    BY <2>1 DEF OutboxInv
  <2>2. CASE lastId > 0
    <3>1. low \in low..lastId
      BY <2>2
    <3>2. \E e \in outbox : e.id = low
      BY <3>1
    <3> QED  BY <2>2, <3>2
  <2> QED  BY <2>1, <2>2
<1>2. ASSUME lastId > 0
      PROVE  Max(low..lastId) = lastId /\ Min(low..lastId) = low
  <2>1. low \in low..lastId /\ lastId \in low..lastId
    BY <1>2
  <2>2. \A x \in low..lastId : (\A y \in low..lastId : x >= y) <=> x = lastId
    BY <2>1
  <2>3. \A x \in low..lastId : (\A y \in low..lastId : x =< y) <=> x = low
    BY <2>1
  <2>4. Max(low..lastId) = lastId
    BY <2>1, <2>2 DEF Max
  <2>5. Min(low..lastId) = low
    BY <2>1, <2>3 DEF Min
  <2> QED  BY <2>4, <2>5
<1>3. outbox # {} => High = Max(low..lastId) /\ Min({e.id : e \in outbox}) = Min(low..lastId)
  BY DEF High
<1>4. outbox = {} => High = 0
  BY DEF High
<1> QED  BY <1>1, <1>2, <1>3, <1>4

\* What the incremental capture shares is what it would read.
LEMMA CaptureReads ==
  ASSUME CacheInv
  PROVE  Captured = content
<1> USE DEF CacheInv
<1>1. CASE ~Reusable
  BY <1>1 DEF Captured
<1>2. CASE Reusable
  <2> DEFINE changed == {e.item : e \in {f \in outbox : f.id > shared.cursor}}
  <2>1. /\ lastId \in Nat /\ shared.cursor \in Nat /\ shared.facts \in [Items -> Writes]
        /\ shared.cursor <= lastId /\ AsOf(shared.facts, shared.cursor)
    BY <1>2, CacheAssumption DEF Reusable, SharedInv, CacheTypeOK
  <2>2. PICK low \in 1..lastId + 1 :
          /\ {e.id : e \in outbox} = low..lastId
          /\ lastId > 0 => low <= lastId
          /\ \A i \in Items : content[i][2] >= low => [id |-> content[i][2], item |-> i] \in outbox
    BY DEF OutboxInv
  <2>3. lastId > 0 => low <= shared.cursor + 1
    BY <1>2, <2>1, <2>2, OutboxEnds DEF Reusable
  <2>4. ASSUME NEW i \in Items, i \notin changed PROVE shared.facts[i] = content[i]
    <3>1. SUFFICES ASSUME content[i][2] > shared.cursor PROVE FALSE
      BY <2>1 DEF AsOf
    <3>2. content[i][2] \in 0..lastId
      BY <2>1 DEF ContentInv, Known, Never
    <3>3. content[i][2] >= low
      BY <2>1, <2>3, <3>1, <3>2
    <3>4. [id |-> content[i][2], item |-> i] \in outbox
      BY <2>2, <3>3
    <3> QED  BY <2>4, <3>1, <3>4
  <2>5. Captured = [i \in Items |-> IF i \in changed THEN content[i] ELSE shared.facts[i]]
    BY <1>2 DEF Captured
  <2>6. \A i \in Items : (IF i \in changed THEN content[i] ELSE shared.facts[i]) = content[i]
    BY <2>4
  <2>7. content = [i \in Items |-> content[i]]
    BY DEF ContentInv
  <2> HIDE DEF changed
  <2> QED  BY <2>5, <2>6, <2>7
<1> QED  BY <1>1, <1>2

LEMMA CacheInvInit == CacheInit => CacheInv
<1> SUFFICES ASSUME CacheInit PROVE CacheInv
  OBVIOUS
<1> USE CacheAssumption DEF CacheInit
<1>1. CacheTypeOK
  <2>1. content \in [Items -> Writes] /\ data \in [Items -> Writes] /\ announced \in [Items -> Writes]
    BY DEF Writes
  <2>2. current \in BOOLEAN
    OBVIOUS
  <2> QED  BY <2>1, <2>2 DEF CacheTypeOK
<1>2. OutboxInv
  <2>1. {e.id : e \in outbox} = 1..0
    OBVIOUS
  <2>2. \A i \in Items : content[i][2] = 0
    BY DEF Never
  <2> QED  BY <2>1, <2>2 DEF OutboxInv
<1>3. ContentInv /\ SharedInv /\ TaskInv /\ FreshInv
  BY DEF ContentInv, SharedInv, TaskInv, FreshInv, Newer, Known
<1> QED  BY <1>1, <1>2, <1>3 DEF CacheInv

\* A write: its row is the outbox's new last one.
LEMMA WriteStep ==
  ASSUME CacheInv, NEW i \in Items, WriteFact(i)
  PROVE  CacheInv'
<1> USE CacheAssumption DEF CacheInv
<1>1. /\ lastId \in 0..MaxWrites - 1 /\ lastId' = lastId + 1 /\ database \in 0..MaxReopens
      /\ content' = [content EXCEPT ![i] = <<database, lastId + 1>>]
      /\ outbox' = outbox \cup {[id |-> lastId + 1, item |-> i]}
      /\ UNCHANGED <<database, shared, data, current, generation, announced, task>>
  BY DEF WriteFact, CacheTypeOK
<1>2. Known' = Known \cup {<<database, lastId + 1>>} /\ Known' \subseteq Writes
  BY <1>1 DEF Known, Writes, Never
<1>3. /\ content' \in [Items -> Known'] /\ announced \in [Items -> Known']
      /\ \A k \in Items : content'[k] = IF k = i THEN <<database, lastId + 1>> ELSE content[k]
  BY <1>1, <1>2 DEF ContentInv, FreshInv
<1>4. \A k \in Items : /\ content[k][2] \in 0..lastId /\ announced[k][2] \in 0..lastId
                       /\ content'[k] = content[k] \/ (content'[k][1] = database /\ content'[k][2] = lastId + 1)
  BY <1>1, <1>3 DEF ContentInv, FreshInv, Known, Never
<1>5. CacheTypeOK'
  BY <1>1, <1>2, <1>3 DEF CacheTypeOK
<1>6. OutboxInv'
  <2>1. PICK low \in 1..lastId + 1 :
          /\ {e.id : e \in outbox} = low..lastId
          /\ lastId > 0 => low <= lastId
          /\ \A k \in Items : content[k][2] >= low => [id |-> content[k][2], item |-> k] \in outbox
    BY DEF OutboxInv
  <2>2. {e.id : e \in outbox'} = {e.id : e \in outbox} \cup {lastId + 1}
    <3> DEFINE new == [id |-> lastId + 1, item |-> i]
    <3>1. new.id = lastId + 1 /\ outbox' = outbox \cup {new}
      BY <1>1
    <3> HIDE DEF new
    <3> QED  BY <3>1
  <2>3. low..lastId + 1 = (low..lastId) \cup {lastId + 1}
    BY <1>1
  <2>4. \A k \in Items : content'[k][2] >= low => [id |-> content'[k][2], item |-> k] \in outbox'
    BY <1>1, <1>3, <2>1
  <2>5. \A e \in outbox' : e \in [id : 1..lastId + 1, item : Items]
    BY <1>1 DEF OutboxInv
  <2>6. low \in 1..lastId' + 1 /\ low <= lastId'
    BY <1>1
  <2>7. {e.id : e \in outbox'} = low..lastId'
    BY <1>1, <2>1, <2>2, <2>3
  <2> QED  BY <1>1, <2>4, <2>5, <2>6, <2>7 DEF OutboxInv
<1>7. ContentInv'
  BY <1>3 DEF ContentInv
<1>8. ASSUME NEW facts, NEW cursor \in 0..lastId, AsOf(facts, cursor) PROVE AsOf(facts, cursor)'
  BY <1>1, <1>4, <1>8 DEF AsOf
<1>9. SharedInv'
  BY <1>1, <1>8 DEF SharedInv
<1>10. TaskInv'
  BY <1>1, <1>8 DEF TaskInv
<1>11. FreshInv'
  <2>1. Newer(content)'
    BY <1>1, <1>4 DEF FreshInv, Newer
  <2>2. Newer(data)' <=> Newer(data)
    BY <1>1 DEF Newer
  <2> QED  BY <1>1, <1>3, <2>1, <2>2 DEF FreshInv
<1> QED  BY <1>5, <1>6, <1>7, <1>9, <1>10, <1>11

\* Retention: what stays is a shorter tail that still ends with the last row.
LEMMA PruneStep ==
  ASSUME CacheInv, PruneOutbox
  PROVE  CacheInv'
<1> USE CacheAssumption DEF CacheInv
<1>1. PICK cut \in outbox : cut.id < lastId /\ outbox' = {f \in outbox : f.id > cut.id}
  BY DEF PruneOutbox
<1>2. UNCHANGED <<content, lastId, database, shared, data, current, generation, announced, task>>
  BY DEF PruneOutbox
<1>3. lastId \in Nat /\ cut.id \in 1..lastId
  BY DEF CacheTypeOK
<1>4. OutboxInv'
  <2>1. PICK low \in 1..lastId + 1 :
          /\ {e.id : e \in outbox} = low..lastId
          /\ \A k \in Items : content[k][2] >= low => [id |-> content[k][2], item |-> k] \in outbox
    BY DEF OutboxInv
  <2>2. cut.id >= low
    BY <1>1, <2>1
  <2>3. {e.id : e \in outbox'} = cut.id + 1..lastId
    <3>1. ASSUME NEW n \in cut.id + 1..lastId PROVE \E e \in outbox' : e.id = n
      <4>1. n \in low..lastId
        BY <1>3, <2>2, <3>1
      <4>2. PICK e \in outbox : e.id = n
        BY <2>1, <4>1
      <4> QED  BY <1>1, <1>3, <3>1, <4>2
    <3>2. ASSUME NEW e \in outbox' PROVE e.id \in cut.id + 1..lastId
      BY <1>1, <1>3 DEF OutboxInv
    <3> QED  BY <3>1, <3>2
  <2>4. \A k \in Items : content[k][2] \in 0..lastId
    BY <1>3 DEF ContentInv, Known, Never
  <2>5. ASSUME NEW k \in Items, content[k][2] >= cut.id + 1
        PROVE  [id |-> content[k][2], item |-> k] \in outbox'
    <3>1. content[k][2] >= low /\ content[k][2] > cut.id
      BY <1>3, <2>2, <2>4, <2>5
    <3>2. [id |-> content[k][2], item |-> k] \in outbox
      BY <2>1, <3>1
    <3> QED  BY <1>1, <3>1, <3>2
  <2>6. cut.id + 1 \in 1..lastId + 1 /\ cut.id + 1 <= lastId
    BY <1>1, <1>3
  <2>7. \A e \in outbox' : e \in [id : 1..lastId, item : Items]
    BY <1>1 DEF OutboxInv
  <2> QED  BY <1>2, <2>3, <2>5, <2>6, <2>7 DEF OutboxInv
<1>5. CacheTypeOK'
  BY <1>1, <1>2 DEF CacheTypeOK
<1> QED
  BY <1>2, <1>4, <1>5
  DEF ContentInv, Known, SharedInv, TaskInv, AsOf, FreshInv, Newer

\* Another database: nothing of it is captured yet.
LEMMA ReplaceStep ==
  ASSUME CacheInv, ReplaceDatabase
  PROVE  CacheInv'
<1> USE CacheAssumption DEF CacheInv
<1>1. /\ database \in 0..MaxReopens - 1 /\ database' = database + 1
      /\ task = None /\ outbox' = {} /\ lastId' = 0 /\ current' = FALSE
      /\ content' = [i \in Items |-> Never] /\ announced' = [i \in Items |-> Never]
      /\ UNCHANGED <<shared, data, generation, task>>
  BY DEF ReplaceDatabase, CacheTypeOK
<1>2. CacheTypeOK'
  <2>1. content' \in [Items -> Writes] /\ announced' \in [Items -> Writes]
    BY <1>1 DEF Writes
  <2>2. shared # None => shared.cursor \in 0..MaxWrites /\ shared.database \in 0..database'
    BY <1>1 DEF CacheTypeOK
  <2>3. current' \in BOOLEAN
    BY <1>1
  <2> QED  BY <1>1, <2>1, <2>2, <2>3 DEF CacheTypeOK
<1>3. OutboxInv'
  <2>1. {e.id : e \in outbox'} = 1..lastId'
    BY <1>1
  <2>2. \A i \in Items : content'[i][2] = 0
    BY <1>1 DEF Never
  <2> QED  BY <1>1, <2>1, <2>2 DEF OutboxInv
<1>4. SharedInv'
  BY <1>1 DEF SharedInv
<1>5. FreshInv' /\ ContentInv' /\ TaskInv'
  BY <1>1 DEF FreshInv, ContentInv, TaskInv, Known, Newer
<1> QED  BY <1>2, <1>3, <1>4, <1>5

\* The capture reads the latest content, at the cursor it belongs to.
LEMMA CaptureStep ==
  ASSUME CacheInv, CaptureFacts
  PROVE  CacheInv'
<1> USE CacheAssumption DEF CacheInv
<1>1. Captured = content
  BY CaptureReads
<1>2. High = lastId /\ lastId \in 0..MaxWrites
  <2>1. lastId \in 0..MaxWrites /\ lastId \in Nat
    BY DEF CacheTypeOK
  <2>2. PICK low \in 1..lastId + 1 :
          {e.id : e \in outbox} = low..lastId /\ (lastId > 0 => low <= lastId)
    BY DEF OutboxInv
  <2> QED  BY <2>1, <2>2, OutboxEnds
<1>3. /\ task # None /\ task.facts = None /\ data' = content
      /\ task' = [task EXCEPT !.facts = content, !.cursor = lastId]
      /\ UNCHANGED <<content, outbox, lastId, database, shared, current, generation, announced>>
  BY <1>1, <1>2 DEF CaptureFacts, factVars
<1>4. task' = [generation |-> task.generation, facts |-> content, cursor |-> lastId]
  BY <1>3 DEF TaskInv
<1>5. content \in [Items -> Writes]
  BY DEF CacheTypeOK
<1>6. CacheTypeOK'
  BY <1>3, <1>4, <1>5 DEF CacheTypeOK
<1>7. AsOf(content, lastId)
  BY DEF AsOf
<1>8. TaskInv'
  <2>1. /\ task'.generation = task.generation /\ task'.facts = content /\ task'.cursor = lastId
        /\ task' = [generation |-> task'.generation, facts |-> task'.facts, cursor |-> task'.cursor]
    BY <1>4
  <2>2. task.generation \in 0..generation /\ lastId \in 0..lastId
    BY <1>2, <1>3 DEF TaskInv
  <2>3. AsOf(task.facts, task.cursor)'
    BY <1>3, <2>1 DEF AsOf
  <2> QED  BY <1>3, <1>5, <2>1, <2>2, <2>3 DEF TaskInv
<1>9. FreshInv'
  BY <1>3 DEF FreshInv, Newer, Known
<1>10. OutboxInv' /\ ContentInv' /\ SharedInv'
  BY <1>3 DEF OutboxInv, ContentInv, SharedInv, Known, AsOf
<1> QED  BY <1>6, <1>8, <1>9, <1>10

\* The captured facts become the shared view.
LEMMA PublishStep ==
  ASSUME CacheInv, PublishReload
  PROVE  CacheInv'
<1> USE CacheAssumption DEF CacheInv
<1>1. /\ task # None /\ task.facts # None /\ task' = None
      /\ shared' = [database |-> database, cursor |-> task.cursor, facts |-> task.facts]
      /\ current' = (task.generation = generation)
      /\ UNCHANGED <<content, outbox, lastId, database, data, generation, announced>>
  BY DEF PublishReload, FreshAfter, factVars
<1>2. /\ task.cursor \in 0..lastId /\ task.facts \in [Items -> Writes]
      /\ AsOf(task.facts, task.cursor)
      /\ lastId \in 0..MaxWrites /\ database \in 0..MaxReopens
  BY <1>1 DEF TaskInv, CacheTypeOK
<1>3. /\ shared'.database = database /\ shared'.cursor = task.cursor
      /\ shared'.facts = task.facts
  BY <1>1
<1>4. shared' \in [database : 0..database, cursor : 0..MaxWrites, facts : [Items -> Writes]]
  BY <1>1, <1>2
<1>5. SharedInv'
  BY <1>1, <1>2, <1>3, <1>4 DEF SharedInv, AsOf
<1>6. current' \in BOOLEAN
  BY <1>1
<1>7. CacheTypeOK'
  BY <1>1, <1>2, <1>3, <1>6 DEF CacheTypeOK
<1>8. FreshInv'
  BY <1>1 DEF FreshInv, Newer, Known
<1>9. OutboxInv' /\ ContentInv' /\ TaskInv'
  BY <1>1 DEF OutboxInv, ContentInv, TaskInv, Known
<1> QED  BY <1>5, <1>7, <1>8, <1>9

\* An event: whatever was read before it no longer counts as fresh.
LEMMA InvalidateStep ==
  ASSUME CacheInv, Invalidate
  PROVE  CacheInv'
<1> USE CacheAssumption DEF CacheInv
<1>1. /\ generation \in 0..MaxInvalidates - 1 /\ generation' = generation + 1
      /\ current' = FALSE /\ announced' = content
      /\ UNCHANGED <<content, outbox, lastId, database, shared, data, task>>
  BY DEF Invalidate, CacheTypeOK, factVars
<1>2. task # None => task.generation \in 0..generation /\ task.generation # generation'
  BY <1>1 DEF TaskInv
<1>3. current' \in BOOLEAN
  BY <1>1
<1>4. CacheTypeOK'
  BY <1>1, <1>2, <1>3 DEF CacheTypeOK
<1>5. TaskInv'
  BY <1>1, <1>2 DEF TaskInv, AsOf
<1>6. FreshInv'
  BY <1>1, <1>2 DEF FreshInv, Newer, ContentInv, Known
<1>7. OutboxInv' /\ ContentInv' /\ SharedInv'
  BY <1>1 DEF OutboxInv, ContentInv, SharedInv, Known, AsOf
<1> QED  BY <1>4, <1>5, <1>6, <1>7

LEMMA CacheInvStep == CacheInv /\ [CacheNext]_cacheVars => CacheInv'
<1> SUFFICES ASSUME CacheInv, [CacheNext]_cacheVars PROVE CacheInv'
  OBVIOUS
<1> USE CacheAssumption
<1>1. CASE StartReload
  <2>1. /\ task' = [generation |-> generation, facts |-> None, cursor |-> 0]
        /\ UNCHANGED <<content, outbox, lastId, database, shared, data, current, generation, announced>>
    BY <1>1 DEF StartReload, factVars
  <2>2. task'.facts = None /\ task'.generation = generation /\ generation \in Nat
    BY <2>1 DEF CacheInv, CacheTypeOK
  <2>3. CacheTypeOK'
    BY <2>1, <2>2 DEF CacheInv, CacheTypeOK
  <2>4. TaskInv'
    BY <2>1, <2>2 DEF TaskInv
  <2> QED
    BY <2>1, <2>2, <2>3, <2>4
    DEF CacheInv, OutboxInv, ContentInv, SharedInv, FreshInv, Known, AsOf, Newer
\* The reload fails, or the data expires.
<1>2. CASE FailReload \/ Expire
  <2>1. /\ UNCHANGED <<content, outbox, lastId, database, shared, data, generation, announced>>
        /\ task' \in {task, None}
        /\ current' = current \/ current' = FALSE
    BY <1>2 DEF FailReload, Expire, factVars
  <2>2. current' \in BOOLEAN /\ (current' => current)
    <3>1. current \in BOOLEAN
      BY DEF CacheInv, CacheTypeOK
    <3>2. current' = current \/ current' = FALSE
      BY <2>1
    <3>3. CASE current' = current
      BY <3>1, <3>3
    <3>4. CASE current' = FALSE
      BY <3>4
    <3> QED  BY <3>2, <3>3, <3>4
  <2>3. CacheTypeOK'
    BY <2>1, <2>2 DEF CacheInv, CacheTypeOK
  <2>4. FreshInv'
    BY <2>1, <2>2 DEF CacheInv, FreshInv, Newer, Known
  <2> QED
    BY <2>1, <2>3, <2>4
    DEF CacheInv, OutboxInv, ContentInv, SharedInv, TaskInv, Known, AsOf
<1>3. CASE UNCHANGED cacheVars
  BY <1>3
  DEF cacheVars, factVars, CacheInv, CacheTypeOK, OutboxInv, ContentInv, SharedInv, TaskInv,
      FreshInv, Known, AsOf, Newer
<1> QED
  BY <1>1, <1>2, <1>3, WriteStep, PruneStep, ReplaceStep, CaptureStep, PublishStep, InvalidateStep
  DEF CacheNext

LEMMA CacheInvariant == CacheSpec => []CacheInv
BY CacheInvInit, CacheInvStep, PTL DEF CacheSpec

\* Every variable of the shared read model keeps its type.
THEOREM CacheTypes == CacheSpec => []CacheTypeOK
<1>1. CacheInv => CacheTypeOK
  BY DEF CacheInv
<1> QED  BY <1>1, CacheInvariant, PTL

\* ProjectionFacts.capture: a capture that reads only the changed items again
\* ends with what a full read would have, whatever retention removed from the
\* outbox and whichever database took the place of the one read before.
THEOREM CaptureReadsAll == CacheSpec => CaptureExact
<1>1. CacheInv /\ [CacheNext]_cacheVars =>
        [(task # None /\ task' # None /\ task'.facts # task.facts) => task'.facts = content]_cacheVars
  <2> SUFFICES ASSUME CacheInv, CacheNext, task # None, task' # None, task'.facts # task.facts
               PROVE  task'.facts = content
    OBVIOUS
  <2>1. CASE CaptureFacts
    <3>1. task' = [task EXCEPT !.facts = content, !.cursor = High]
      BY <2>1, CaptureReads DEF CaptureFacts
    <3> QED  BY <3>1 DEF CacheInv, TaskInv
  <2>2. CASE ~CaptureFacts
    BY <2>2 DEF CacheNext, WriteFact, PruneOutbox, ReplaceDatabase, StartReload, PublishReload,
                FailReload, Invalidate, Expire
  <2> QED  BY <2>1, <2>2
<1> QED  BY <1>1, CacheInvariant, PTL DEF CacheSpec, CaptureExact

\* reload_data: a reload that was reading while an event came does not mark
\* itself fresh, so what counts as fresh is at least as new as the event.
THEOREM FreshData == CacheSpec => []FreshAfterEvent
<1>1. CacheInv => FreshAfterEvent
  BY DEF CacheInv, FreshInv, Newer, FreshAfterEvent
<1> QED  BY <1>1, CacheInvariant, PTL

-----------------------------------------------------------------------------
(* The demand leases.                                                      *)

\* Times are those of leases already accepted; a pending lease is the newest.
ValueInv ==
  /\ clock \in 1..MaxClock
  /\ pending \in [Keys -> Nat] /\ rows \in [Keys -> Nat]
  /\ \A k \in Keys : pending[k] <= clock + Lifetime /\ rows[k] <= clock + Lifetime
  /\ \A k \in Keys : pending[k] # 0 => rows[k] <= pending[k]

\* A batch is a snapshot that may have been overtaken by newer leases, never by
\* newer rows; once committed it is what is stored, unless it had lapsed.
BatchInv ==
  /\ flush.at \in {"off", "dead", "sleep", "write", "pop"}
  /\ flush.at \in {"write", "pop"} =>
       /\ flush = [at |-> flush.at, batch |-> flush.batch]
       /\ \A k \in Keys : k \in DOMAIN flush.batch =>
            flush.batch[k] \in Nat /\ 0 < flush.batch[k] /\ flush.batch[k] <= pending[k]
  /\ flush.at = "write" =>
       \A k \in Keys : k \in DOMAIN flush.batch => rows[k] <= flush.batch[k]
  /\ flush.at = "pop" => \A k \in Keys : k \in DOMAIN flush.batch =>
       rows[k] = flush.batch[k] \/ (rows[k] = 0 /\ flush.batch[k] < clock - Lifetime)

\* Nothing is written to the research database after the new version's first
\* commit.
LegacyInv ==
  /\ createdAt \in Nat /\ createdAt <= clock /\ legacy \in [Keys -> Nat]
  /\ \A k \in Keys : legacy[k] <= (IF createdAt = 0 THEN clock ELSE createdAt) + Lifetime

LeaseInv == ValueInv /\ BatchInv /\ LegacyInv

LEMMA LeaseInvInit == LeaseInit => LeaseInv
BY LeaseAssumption DEF LeaseInit, LeaseInv, ValueInv, BatchInv, LegacyInv, Off

\* What one committed batch does to a row, whether it is pruned with it or not.
LEMMA CommittedRow ==
  ASSUME LeaseInv, CommitBatch
  PROVE  /\ rows' \in [Keys -> Nat]
         /\ \A k \in Keys :
              LET stored == IF k \in DOMAIN flush.batch THEN flush.batch[k] ELSE rows[k]
              IN rows'[k] = stored \/ (rows'[k] = 0 /\ stored < clock - Lifetime)
<1> USE LeaseAssumption DEF LeaseInv, ValueInv
<1> DEFINE stored(i) == IF i \in DOMAIN flush.batch THEN flush.batch[i] ELSE rows[i]
<1>1. \A i \in Keys : stored(i) \in Nat
  BY DEF CommitBatch, BatchInv
<1>2. CASE rows' = [i \in Keys |-> stored(i)]
  BY <1>1, <1>2
<1>3. CASE \E now \in 1..clock :
             rows' = [i \in Keys |-> IF Lapsed(stored(i), now) THEN 0 ELSE stored(i)]
  <2>1. PICK now \in 1..clock :
          rows' = [i \in Keys |-> IF Lapsed(stored(i), now) THEN 0 ELSE stored(i)]
    BY <1>3
  <2>2. \A k \in Keys : Lapsed(stored(k), now) => stored(k) < clock - Lifetime
    BY <1>1 DEF Lapsed
  <2>3. rows' \in [Keys -> Nat]
    BY <1>1, <2>1
  <2> QED  BY <2>1, <2>2, <2>3
<1>4. \/ rows' = [i \in Keys |-> stored(i)]
      \/ \E now \in 1..clock :
           rows' = [i \in Keys |-> IF Lapsed(stored(i), now) THEN 0 ELSE stored(i)]
  <2>1. [i \in Keys |-> IF i \in DOMAIN flush.batch THEN flush.batch[i] ELSE rows[i]]
          = [i \in Keys |-> stored(i)]
    OBVIOUS
  <2> QED  BY DEF CommitBatch
<1> QED  BY <1>2, <1>3, <1>4

LEMMA LeaseInvStep == LeaseInv /\ [LeaseNext]_leaseVars => LeaseInv'
<1> SUFFICES ASSUME LeaseInv, [LeaseNext]_leaseVars PROVE LeaseInv'
  OBVIOUS
<1> USE LeaseAssumption DEF LeaseInv, ValueInv, BatchInv, LegacyInv
<1>1. CASE Tick
  BY <1>1 DEF Tick
<1>2. ASSUME NEW k \in Keys, LegacyLease(k) PROVE LeaseInv'
  BY <1>2 DEF LegacyLease
<1>3. ASSUME NEW k \in Keys, PublishLease(k) PROVE LeaseInv'
  <2>1. /\ pending' = [pending EXCEPT ![k] = clock + Lifetime]
        /\ UNCHANGED <<clock, rows, createdAt, legacy>>
        /\ flush' = flush \/ flush' = Sleeping
    BY <1>3 DEF PublishLease
  <2>2. ValueInv' /\ LegacyInv'
    BY <2>1
  <2>3. BatchInv'
    BY <2>1 DEF Sleeping
  <2> QED  BY <2>2, <2>3
<1>4. CASE TakeBatch
  <2>1. PICK keys \in SUBSET Queued : flush' = [at |-> "write", batch |-> [k \in keys |-> pending[k]]]
    BY <1>4 DEF TakeBatch
  <2>2. \A k \in Keys : k \in DOMAIN flush'.batch =>
          pending[k] # 0 /\ flush'.batch[k] = pending[k]
    BY <2>1 DEF Queued
  <2>3. UNCHANGED <<clock, pending, rows, createdAt, legacy>> /\ flush'.at = "write"
    BY <1>4, <2>1 DEF TakeBatch
  <2>4. flush' = [at |-> flush'.at, batch |-> flush'.batch]
    BY <2>1
  <2> QED  BY <2>2, <2>3, <2>4
<1>5. CASE CommitBatch
  <2>1. /\ flush.at = "write" /\ flush' = [flush EXCEPT !.at = "pop"]
        /\ UNCHANGED <<clock, pending, legacy>>
        /\ createdAt' = IF createdAt = 0 THEN clock ELSE createdAt
    BY <1>5 DEF CommitBatch
  <2>2. flush'.at = "pop" /\ flush'.batch = flush.batch
        /\ flush' = [at |-> flush'.at, batch |-> flush'.batch]
    BY <2>1
  <2>3. /\ rows' \in [Keys -> Nat]
        /\ \A k \in Keys :
             /\ rows'[k] <= clock + Lifetime
             /\ pending[k] # 0 => rows'[k] <= pending[k]
             /\ k \in DOMAIN flush.batch =>
                  rows'[k] = flush.batch[k] \/ (rows'[k] = 0 /\ flush.batch[k] < clock - Lifetime)
    BY <2>1, <1>5, CommittedRow
  <2>4. ValueInv' /\ LegacyInv'
    BY <2>1, <2>3
  <2>5. BatchInv'
    BY <2>1, <2>2, <2>3
  <2> QED  BY <2>4, <2>5
<1>6. CASE PopBatch
  <2>1. /\ UNCHANGED <<clock, rows, createdAt, legacy>> /\ flush' \in {Off, Sleeping}
        /\ \A k \in Keys : pending'[k] \in {0, pending[k]}
        /\ pending' \in [Keys -> Nat]
    BY <1>6 DEF PopBatch
  <2> QED  BY <2>1 DEF Off, Sleeping
<1>7. CASE BusyBatch \/ TaskDies \/ StopWriter
  <2>1. /\ UNCHANGED <<clock, rows, createdAt, legacy>> /\ flush' \in {Sleeping, Dead}
        /\ pending' = pending \/ pending' = [k \in Keys |-> 0]
    BY <1>7 DEF BusyBatch, TaskDies, StopWriter
  <2> QED  BY <2>1 DEF Sleeping, Dead
<1>8. CASE UNCHANGED leaseVars
  BY <1>8 DEF leaseVars
<1> QED
  BY <1>1, <1>2, <1>3, <1>4, <1>5, <1>6, <1>7, <1>8 DEF LeaseNext, Flush

-----------------------------------------------------------------------------
(* The refinement: each step is one of the coalescing writer's, or none.    *)

Lapse == IF clock > Lifetime THEN clock - Lifetime ELSE 0
Latest == [k \in Keys |-> IF pending[k] # 0 THEN pending[k] ELSE rows[k]]

LEMMA AbstractInit == LeaseInit => Coalesced!Init
<1> SUFFICES ASSUME LeaseInit PROVE Coalesced!Init
  OBVIOUS
<1>1. clock = 1 /\ rows = [k \in Keys |-> 0] /\ pending = [k \in Keys |-> 0]
  BY DEF LeaseInit
<1>2. Lapse = 0 /\ Latest = [k \in Keys |-> 0]
  BY <1>1, LeaseAssumption DEF Lapse, Latest
<1> QED  BY <1>1, <1>2 DEF Coalesced!Init, Lapse, Latest

\* The abstract actions in terms of the mapping.
LEMMA AbstractStep ==
  ASSUME \/ UNCHANGED <<Lapse, Latest, rows>>
         \/ Lapse' \in Lapse..MaxClock + Lifetime /\ UNCHANGED <<Latest, rows>>
         \/ \E k \in Keys : /\ \E v \in Latest[k] + 1..MaxClock + Lifetime :
                                 Latest' = [Latest EXCEPT ![k] = v]
                            /\ UNCHANGED <<Lapse, rows>>
         \/ /\ rows' \in [Keys -> 0..MaxClock + Lifetime]
            /\ \A k \in Keys : \/ rows[k] <= rows'[k] /\ rows'[k] <= Latest[k]
                               \/ rows'[k] = 0 /\ rows[k] < Lapse
            /\ Latest' \in [Keys -> 0..MaxClock + Lifetime]
            /\ \A k \in Keys : \/ Latest'[k] = Latest[k]
                               \/ Latest'[k] = 0 /\ Latest[k] < Lapse
            /\ UNCHANGED Lapse
         \/ Latest' = rows /\ UNCHANGED <<Lapse, rows>>
  PROVE  [Coalesced!Next]_(Coalesced!vars)
BY DEF Coalesced!Next, Coalesced!Lapse, Coalesced!Accept, Coalesced!Store,
       Coalesced!Forget, Coalesced!vars, Lapse, Latest

LEMMA LeaseRefines == LeaseInv /\ LeaseInv' /\ [LeaseNext]_leaseVars => [Coalesced!Next]_(Coalesced!vars)
<1> SUFFICES ASSUME LeaseInv, LeaseInv', [LeaseNext]_leaseVars
             PROVE  [Coalesced!Next]_(Coalesced!vars)
  OBVIOUS
<1> USE LeaseAssumption DEF LeaseInv, ValueInv
<1>1. /\ Lapse \in Nat /\ Latest \in [Keys -> Nat]
      /\ \A k \in Keys : Latest[k] <= clock + Lifetime /\ rows[k] <= Latest[k]
  BY DEF Lapse, Latest
<1>2. CASE Tick
  <2>1. clock' = clock + 1 /\ UNCHANGED <<pending, rows>>
    BY <1>2 DEF Tick
  <2>2. Lapse' \in Lapse..MaxClock + Lifetime /\ UNCHANGED <<Latest, rows>>
    BY <2>1 DEF Lapse, Latest
  <2> QED  BY <2>2, AbstractStep
<1>3. ASSUME NEW k \in Keys, LegacyLease(k) PROVE [Coalesced!Next]_(Coalesced!vars)
  BY <1>3, AbstractStep DEF LegacyLease, Lapse, Latest
<1>4. ASSUME NEW k \in Keys, PublishLease(k) PROVE [Coalesced!Next]_(Coalesced!vars)
  <2>1. pending' = [pending EXCEPT ![k] = clock + Lifetime] /\ UNCHANGED <<clock, rows>>
    BY <1>4 DEF PublishLease
  <2>2. Latest' = [Latest EXCEPT ![k] = clock + Lifetime]
    <3>1. clock + Lifetime # 0
      OBVIOUS
    <3>2. \A i \in Keys : pending'[i] = IF i = k THEN clock + Lifetime ELSE pending[i]
      BY <2>1
    <3>3. Latest' = [i \in Keys |-> IF i = k THEN clock + Lifetime ELSE Latest[i]]
      BY <2>1, <3>1, <3>2 DEF Latest
    <3> QED  BY <1>1, <3>3
  <2>3. UNCHANGED <<Lapse, rows>>
    BY <2>1 DEF Lapse
  <2>4. CASE Latest[k] = clock + Lifetime
    <3>1. Latest' = Latest
      BY <1>1, <2>2, <2>4
    <3> QED  BY <2>3, <3>1, AbstractStep
  <2>5. CASE Latest[k] # clock + Lifetime
    <3>1. clock + Lifetime \in Latest[k] + 1..MaxClock + Lifetime
      BY <1>1, <2>5
    <3> QED  BY <2>2, <2>3, <3>1, AbstractStep
  <2> QED  BY <2>4, <2>5
\* What is stored or given up within a batch.
<1>5. ASSUME \A k \in Keys : \/ rows[k] <= rows'[k] /\ rows'[k] <= Latest[k]
                             \/ rows'[k] = 0 /\ rows[k] < Lapse,
             \A k \in Keys : \/ Latest'[k] = Latest[k]
                             \/ Latest'[k] = 0 /\ Latest[k] < Lapse,
             UNCHANGED clock
      PROVE  [Coalesced!Next]_(Coalesced!vars)
  <2>1. rows' \in [Keys -> 0..MaxClock + Lifetime] /\ Latest' \in [Keys -> 0..MaxClock + Lifetime]
    BY DEF Latest
  <2>2. UNCHANGED Lapse
    BY <1>5 DEF Lapse
  <2> QED  BY <1>5, <2>1, <2>2, AbstractStep
<1>6. CASE CommitBatch
  <2>1. UNCHANGED <<clock, pending>> /\ flush.at = "write"
    BY <1>6 DEF CommitBatch
  <2>2. ASSUME NEW k \in Keys
        PROVE  /\ \/ rows[k] <= rows'[k] /\ rows'[k] <= Latest[k]
                  \/ rows'[k] = 0 /\ rows[k] < Lapse
               /\ \/ Latest'[k] = Latest[k]
                  \/ Latest'[k] = 0 /\ Latest[k] < Lapse
    <3>1. CASE k \in DOMAIN flush.batch
      <4>1. /\ 0 < flush.batch[k] /\ flush.batch[k] <= pending[k] /\ rows[k] <= flush.batch[k]
            /\ flush.batch[k] \in Nat
        BY <2>1, <3>1 DEF BatchInv
      <4>2. rows'[k] = flush.batch[k] \/ (rows'[k] = 0 /\ flush.batch[k] < clock - Lifetime)
        BY <1>6, <3>1, CommittedRow
      <4> QED  BY <2>1, <4>1, <4>2 DEF Latest, Lapse
    <3>2. CASE k \notin DOMAIN flush.batch
      <4>1. rows'[k] = rows[k] \/ (rows'[k] = 0 /\ rows[k] < clock - Lifetime)
        BY <1>6, <3>2, CommittedRow
      <4> QED  BY <1>1, <2>1, <4>1 DEF Latest, Lapse
    <3> QED  BY <3>1, <3>2
  <2> QED  BY <1>5, <2>1, <2>2
<1>7. CASE PopBatch
  <2>1. /\ UNCHANGED <<clock, rows>> /\ flush.at = "pop"
        /\ pending' = [k \in Keys |-> IF k \in Done(flush.batch) THEN 0 ELSE pending[k]]
    BY <1>7 DEF PopBatch
  <2>2. ASSUME NEW k \in Keys
        PROVE  Latest'[k] = Latest[k] \/ (Latest'[k] = 0 /\ Latest[k] < Lapse)
    <3>1. CASE k \in Done(flush.batch)
      <4>1. /\ pending[k] = flush.batch[k] /\ flush.batch[k] \in Nat /\ 0 < flush.batch[k]
            /\ rows[k] = flush.batch[k] \/ (rows[k] = 0 /\ flush.batch[k] < clock - Lifetime)
        BY <2>1, <3>1 DEF BatchInv, Done
      <4>2. Latest[k] = flush.batch[k] /\ Latest'[k] = rows[k]
        BY <2>1, <3>1, <4>1 DEF Latest
      <4> QED  BY <4>1, <4>2 DEF Lapse
    <3>2. CASE k \notin Done(flush.batch)
      BY <2>1, <3>2 DEF Latest
    <3> QED  BY <3>1, <3>2
  <2>3. \A k \in Keys : rows[k] <= rows'[k] /\ rows'[k] <= Latest[k]
    BY <1>1, <2>1
  <2> QED  BY <1>5, <2>1, <2>2, <2>3
<1>8. CASE StopWriter
  <2>1. UNCHANGED <<clock, rows>> /\ pending' = [k \in Keys |-> 0]
    BY <1>8 DEF StopWriter
  <2>2. Latest' = rows /\ UNCHANGED <<Lapse, rows>>
    BY <2>1 DEF Latest, Lapse
  <2> QED  BY <2>2, AbstractStep
<1>9. CASE TakeBatch \/ BusyBatch \/ TaskDies \/ UNCHANGED leaseVars
  <2>1. UNCHANGED <<clock, pending, rows>>
    BY <1>9 DEF TakeBatch, BusyBatch, TaskDies, leaseVars
  <2> QED  BY <2>1, AbstractStep DEF Lapse, Latest
<1> QED
  BY <1>2, <1>3, <1>4, <1>6, <1>7, <1>8, <1>9 DEF LeaseNext, Flush

\* publish_lease and _flush implement the coalescing writer: a stored lease was
\* accepted, is never overwritten by an older one - although batches are
\* snapshots, may be repeated after a busy database and are pruned - and an
\* accepted one is lost only by lapsing or with its process.
THEOREM WriterRefined == LeaseSpec => ImplementsLatestValue
BY LeaseInvInit, LeaseInvStep, AbstractInit, LeaseRefines, PTL
DEF LeaseSpec, ImplementsLatestValue, Coalesced!Spec

\* all_lease_kv: after the overlap with the research database has ended, nothing
\* alive can be left there.
THEOREM LeasesSeen == LeaseSpec => []LiveLeaseSeen
<1>1. LeaseInv => LiveLeaseSeen
  BY LeaseAssumption
  DEF LeaseInv, ValueInv, LegacyInv, LiveLeaseSeen, Leases, Overlap, Alive
<1> QED  BY <1>1, LeaseInvInit, LeaseInvStep, PTL DEF LeaseSpec

-----------------------------------------------------------------------------
(* The live chart.  A stream takes the events behind its cursor from the    *)
(* journal up to `high` and from the queue of the reader behind it; what    *)
(* the reader has passed (ReadUpTo) is in the queue or drawn, so that the   *)
(* least of the queue is the next the chart lacks.                          *)

\* What a stream holds, by its stage; a chart has a stream only while it is open.
StreamShape ==
  \/ response = NoResponse
  \/ response = [at |-> "opening"] /\ tab.at = "open"
  \/ /\ response \in [at : {"joined", "bounded", "replay", "live"}, last : 0..written,
                      high : 0..written, page : SUBSET own, queue : SUBSET own,
                      closed : BOOLEAN]
     /\ tab.at = "open"
     /\ response.at \in {"joined", "bounded"} => response.last = tab.cursor
     /\ response.at = "replay" => \A e \in response.page : e <= response.high

ReadShape == read # NoRead =>
  \/ read.cursor = NoRead
  \/ read.upTo \in 0..written /\ read.cursor \in {0, read.upTo}

ChartShape ==
  /\ written \in 0..MaxEvents /\ removed \in 0..written
  /\ own \subseteq 1..written /\ resets \subseteq own /\ shown \subseteq own
  /\ hub \in [task : {"none", "starting", "running", "dead"}, cursor : 0..written]
  /\ ready \in BOOLEAN /\ hurt \in BOOLEAN /\ chartFaults \in 0..MaxChartFaults
  /\ tab \in [at : {"loading", "asked", "open"}, cursor : 0..written, known : 0..written]
  /\ StreamShape /\ ReadShape

\* The chart reflects what its cursor and its snapshot cover.
Seen(n) == \A e \in own : e <= n => e \in shown

\* What a running reader will not read again.
ReadUpTo == IF hub.task = "running" THEN Larger(hub.cursor, removed) ELSE hub.cursor

\* What comes behind the replay and was read is in the queue, which has no hole.
QueueInv == Resumed /\ ~response.closed =>
  \A e \in own : Base < e =>
     /\ e <= ReadUpTo => e \in response.queue \cup shown
     /\ \A f \in response.queue : e < f => e \in response.queue \cup shown

ReplayInv ==
  /\ response.at = "bounded" =>
       /\ tab.cursor <= response.high
       /\ \A e \in own : e <= response.high => e \in shown \/ removed < e
  /\ response.at = "replay" =>
       /\ tab.cursor <= response.high
       /\ \A e \in own : e <= response.high => e \in shown \cup response.page
  /\ response.at = "live" => tab.cursor <= response.last /\ Seen(response.last)

ChartInv ==
  tab.at = "open" /\ ~hurt => Seen(tab.cursor) /\ Seen(tab.known) /\ QueueInv /\ ReplayInv

LEMMA ChartShapeInit == ASSUME ChartAssumption PROVE ChartInit => ChartShape
<1> SUFFICES ASSUME ChartInit PROVE ChartShape
  OBVIOUS
<1> USE DEF ChartAssumption, ChartInit, Loading
<1>1. StreamShape /\ ReadShape
  BY DEF StreamShape, ReadShape
<1>2. hub \in [task : {"none", "starting", "running", "dead"}, cursor : 0..written]
  OBVIOUS
<1>3. tab \in [at : {"loading", "asked", "open"}, cursor : 0..written, known : 0..written]
  OBVIOUS
<1>4. written \in 0..MaxEvents /\ removed \in 0..written /\ chartFaults \in 0..MaxChartFaults
  OBVIOUS
<1>5. own \subseteq 1..written /\ resets \subseteq own /\ shown \subseteq own
  OBVIOUS
<1>6. ready \in BOOLEAN /\ hurt \in BOOLEAN
  OBVIOUS
<1> QED  BY <1>1, <1>2, <1>3, <1>4, <1>5, <1>6 DEF ChartShape

\* Every step keeps the shape.
LEMMA ChartShapeStep ==
  ASSUME ChartAssumption, ChartShape, [ChartNext]_chartVars
  PROVE  ChartShape'
<1> USE DEF chartJournalVars, chartHubVars, tabVars, ChartJournal, LastEvent, NoResponse
<1>0. written \in Int /\ removed \in Int /\ hub.cursor \in Int /\ tab.cursor \in Int /\ tab.known \in Int
  BY DEF ChartShape
<1>load. Loading \in [at : {"loading"}, cursor : {0}, known : {0}] /\ 0 \in 0..written
  BY <1>0 DEF ChartShape, Loading
<1>reset. ASSUME ResetTab PROVE ChartShape'
  BY <1>reset, <1>load DEF ResetTab, ChartShape, StreamShape, ReadShape
<1>1. ASSUME NEW mine \in BOOLEAN, NEW reset \in BOOLEAN, WriteEvent(mine, reset) PROVE ChartShape'
  <2> USE <1>1 DEF WriteEvent
  <2>1. own \subseteq own' /\ resets' \subseteq own' /\ own' \subseteq 1..written'
    BY <1>0 DEF ChartShape
  <2>2. StreamShape'
    BY <1>0, <2>1 DEF ChartShape, StreamShape
  <2>3. ReadShape'
    BY <1>0 DEF ChartShape, ReadShape
  <2> QED  BY <1>0, <2>1, <2>2, <2>3 DEF ChartShape, ChartAssumption
<1>2. ASSUME NEW n \in ChartJournal, PruneJournal(n) PROVE ChartShape'
  BY <1>0, <1>2 DEF PruneJournal, ChartShape, StreamShape, ReadShape
<1>3. CASE StartHub
  BY <1>3 DEF StartHub, ChartShape, StreamShape, ReadShape
<1>4. CASE OpenJournal
  BY <1>0, <1>4 DEF OpenJournal, ChartShape, StreamShape, ReadShape, Resumed
<1>5. CASE HubRead
  <2> USE <1>5 DEF HubRead
  <2> DEFINE before == Larger(hub.cursor, removed)
             newest == Smaller(written, before + ReadLimit)
  <2>1. newest \in 0..written
    BY <1>0 DEF ChartShape, Larger, Smaller, ChartAssumption
  <2>2. StreamShape'
    BY DEF ChartShape, StreamShape, Deliver, Attached
  <2> QED  BY <2>1, <2>2 DEF ChartShape, ReadShape
<1>6. CASE HubFails
  BY <1>6 DEF HubFails, ChartShape, StreamShape, ReadShape, ChartAssumption
<1>7. CASE AskSnapshot
  BY <1>7 DEF AskSnapshot, ChartShape, StreamShape, ReadShape
<1>8. CASE OtherAsks
  BY <1>8 DEF OtherAsks, ChartShape, StreamShape, ReadShape
<1>9. CASE ReadDatabase
  BY <1>0, <1>9 DEF ReadDatabase, ChartShape, StreamShape, ReadShape
<1>10. CASE SnapshotShown
  <2> USE <1>10 DEF SnapshotShown
  <2>1. read.upTo \in 0..written /\ read.cursor \in 0..written
    BY DEF ChartShape, ReadShape
  <2>2. Reflected(read.upTo) \subseteq own
    BY DEF Reflected
  <2>3. CASE tab.at = "asked"
    <3>1. tab' \in [at : {"open"}, cursor : 0..written, known : 0..written]
          /\ shown' \subseteq own
      BY <2>1, <2>2, <2>3
    <3>2. StreamShape' /\ ReadShape'
      BY <2>3 DEF ChartShape, StreamShape, ReadShape
    <3> QED  BY <2>3, <3>1, <3>2 DEF ChartShape
  <2>4. CASE tab.at # "asked"
    BY <2>4 DEF ChartShape, StreamShape, ReadShape
  <2> QED  BY <2>3, <2>4
<1>11. CASE LoadFails
  BY <1>11 DEF LoadFails, ChartShape, StreamShape, ReadShape, ChartAssumption
<1>12. CASE OpenStream
  BY <1>12 DEF OpenStream, ChartShape, StreamShape, ReadShape
<1>13. CASE JoinHub
  <2> USE <1>13 DEF JoinHub
  <2>1. tab.at = "open"
    BY DEF ChartShape, StreamShape
  <2> QED  BY <2>1, <1>0 DEF ChartShape, StreamShape, ReadShape
<1>14. CASE CheckBounds
  <2>1. CASE ResetTab
    BY <2>1, <1>reset
  <2>2. CASE ~ResetTab
    <3>1. /\ response' = [response EXCEPT !.at = "bounded", !.high = LastEvent]
          /\ LastEvent \in 0..written
      BY <1>14, <2>2, <1>0 DEF CheckBounds, ChartShape
    <3>2. /\ response \in [at : {"joined"}, last : 0..written, high : 0..written,
                      page : SUBSET own, queue : SUBSET own, closed : BOOLEAN]
          /\ tab.at = "open" /\ response.last = tab.cursor
      BY <1>14 DEF CheckBounds, ChartShape, StreamShape
    <3>3. response' \in [at : {"bounded"}, last : 0..written, high : 0..written,
                      page : SUBSET own, queue : SUBSET own, closed : BOOLEAN]
          /\ response'.last = response.last
      BY <3>1, <3>2
    <3>4. tab' = tab /\ written' = written /\ own' = own
      BY <1>14, <2>2 DEF CheckBounds
    <3>5. StreamShape'
      BY <3>2, <3>3, <3>4 DEF StreamShape
    <3> QED  BY <1>14, <2>2, <3>5 DEF CheckBounds, ChartShape, ReadShape
  <2> QED  BY <2>1, <2>2
<1>15. CASE ReadReplay
  <2>1. CASE ResetTab
    BY <2>1, <1>reset
  <2>2. CASE ~ResetTab
    <3> DEFINE replayed == {e \in ChartJournal : response.last < e /\ e <= response.high}
    <3>1. response' = [response EXCEPT !.at = "replay", !.page = replayed \cap own]
      BY <1>15, <2>2 DEF ReadReplay
    <3>2. /\ response \in [at : {"bounded"}, last : 0..written, high : 0..written,
                      page : SUBSET own, queue : SUBSET own, closed : BOOLEAN]
          /\ tab.at = "open"
      BY <1>15 DEF ReadReplay, ChartShape, StreamShape
    <3>3. response' \in [at : {"replay"}, last : 0..written, high : 0..written,
                      page : SUBSET own, queue : SUBSET own, closed : BOOLEAN]
          /\ \A e \in response'.page : e <= response'.high
      BY <3>1, <3>2
    <3>4. tab' = tab /\ written' = written /\ own' = own
      BY <1>15, <2>2 DEF ReadReplay
    <3>5. StreamShape'
      BY <3>2, <3>3, <3>4 DEF StreamShape
    <3> QED  BY <1>15, <2>2, <3>5 DEF ReadReplay, ChartShape, ReadShape
  <2> QED  BY <2>1, <2>2
<1>draw. ASSUME NEW e \in own, NEW next, Draw(e, next), written' = written,
                 removed' = removed, own' = own, resets' = resets, UNCHANGED <<chartHubVars, read, chartFaults>>,
                 tab.at = "open",
                 next \in [at : {"replay", "live"}, last : 0..written, high : 0..written,
                           page : SUBSET own, queue : SUBSET own, closed : BOOLEAN],
                 \A f \in next.page : next.at = "replay" => f <= next.high
          PROVE ChartShape'
  <2>1. e \in 0..written
    BY <1>draw, <1>0 DEF ChartShape
  <2>2. CASE e \in resets
    BY <1>draw, <1>load, <2>2 DEF Draw, ChartShape, StreamShape, ReadShape
  <2>3. CASE e \notin resets
    <3>1. tab' = [tab EXCEPT !.cursor = Larger(e, @)] /\ response' = next
      BY <1>draw, <2>3 DEF Draw
    <3>2. Larger(e, tab.cursor) \in 0..written
      BY <2>1, <1>0 DEF ChartShape, Larger
    <3>3. StreamShape'
      BY <1>draw, <3>1 DEF ChartShape, StreamShape
    <3>4. ReadShape'
      BY <1>draw DEF ChartShape, ReadShape
    <3> QED  BY <1>draw, <2>3, <3>1, <3>2, <3>3, <3>4 DEF Draw, ChartShape
  <2> QED  BY <2>2, <2>3
<1>16. CASE SendReplay
  <2>1. tab.at = "open" /\ response \in [at : {"replay"}, last : 0..written, high : 0..written,
                           page : SUBSET own, queue : SUBSET own, closed : BOOLEAN]
        /\ \A e \in response.page : e <= response.high
    BY <1>16 DEF SendReplay, ChartShape, StreamShape
  <2>2. CASE response.page = {} /\ response' = [response EXCEPT !.at = "live", !.last = response.high, !.high = 0]
             /\ UNCHANGED <<tabVars, hurt>>
    <3>0. response' \in [at : {"live"}, last : 0..written, high : 0..written,
                      page : SUBSET own, queue : SUBSET own, closed : BOOLEAN]
      BY <2>1, <2>2, <1>load
    <3>1. StreamShape'
      BY <1>16, <2>1, <2>2, <3>0 DEF SendReplay, StreamShape
    <3> QED  BY <1>16, <2>2, <3>1 DEF SendReplay, ChartShape, ReadShape
  <2>3. ASSUME NEW e \in response.page, Draw(e, [response EXCEPT !.page = @ \ {e}])
        PROVE  ChartShape'
    BY <1>draw, <1>16, <2>1, <2>3 DEF SendReplay
  <2> QED  BY <1>16, <2>2, <2>3 DEF SendReplay
<1>17. CASE SendLive
  <2>1. tab.at = "open" /\ response \in [at : {"live"}, last : 0..written, high : 0..written,
                           page : SUBSET own, queue : SUBSET own, closed : BOOLEAN]
    BY <1>17 DEF SendLive, ChartShape, StreamShape
  <2>2. PICK e \in response.queue :
          \/ response' = [response EXCEPT !.queue = @ \ {e}] /\ UNCHANGED <<tabVars, hurt>>
          \/ Draw(e, [response EXCEPT !.queue = @ \ {e}, !.last = e])
    BY <1>17, <2>1 DEF SendLive
  <2>3. e \in own /\ e \in 0..written
    BY <2>1, <1>0 DEF ChartShape
  <2>4. CASE response' = [response EXCEPT !.queue = @ \ {e}] /\ UNCHANGED <<tabVars, hurt>>
    BY <1>17, <1>0, <2>1, <2>4 DEF SendLive, ChartShape, StreamShape, ReadShape
  <2>5. CASE Draw(e, [response EXCEPT !.queue = @ \ {e}, !.last = e])
    BY <1>draw, <1>17, <2>1, <2>3, <2>5 DEF SendLive
  <2> QED  BY <2>2, <2>4, <2>5
<1>18. CASE SlowConsumer
  BY <1>18, <1>reset DEF SlowConsumer
<1>19. CASE Heartbeat
  BY <1>0, <1>19 DEF Heartbeat, Larger, ChartShape, StreamShape, ReadShape
<1>20. CASE HubLost
  BY <1>20, <1>reset DEF HubLost
<1>21. CASE ConnectionEnds
  BY <1>21 DEF ConnectionEnds, ChartShape, StreamShape, ReadShape, ChartAssumption
<1>22. CASE QueryRestarts
  <2>1. hub' \in [task : {"none"}, cursor : {0}] /\ 0 \in 0..written
    BY <1>22, <1>0 DEF QueryRestarts, ChartShape
  <2>2. tab' \in [at : {"loading", "asked", "open"}, cursor : 0..written, known : 0..written]
    BY <1>22 DEF QueryRestarts, ChartShape
  <2>3. StreamShape' /\ ReadShape'
    BY <1>22 DEF QueryRestarts, StreamShape, ReadShape
  <2>4. chartFaults' \in 0..MaxChartFaults
    BY <1>22 DEF QueryRestarts, ChartShape, ChartAssumption
  <2>5. ready' \in BOOLEAN
    BY <1>22, Zenon DEF QueryRestarts
  <2> QED  BY <1>22, <2>1, <2>2, <2>3, <2>4, <2>5 DEF QueryRestarts, ChartShape
<1>23. CASE UNCHANGED chartVars
  BY <1>23 DEF chartVars, ChartShape, StreamShape, ReadShape
<1> QED
  BY <1>1, <1>2, <1>3, <1>4, <1>5, <1>6, <1>7, <1>8, <1>9, <1>10, <1>11, <1>12, <1>13,
     <1>14, <1>15, <1>16, <1>17, <1>18, <1>19, <1>20, <1>21, <1>22, <1>23 DEF ChartNext

\* The chart, its stream and the reader have their types (ChartFeed).
THEOREM ChartTypes == ASSUME ChartAssumption PROVE ChartSpec => []ChartTypeOK
<1>1. ChartSpec => []ChartShape
  BY ChartShapeInit, ChartShapeStep, PTL DEF ChartSpec
<1>2. ChartShape => ChartTypeOK
  BY DEF ChartShape, ChartTypeOK, StreamShape, Attached, NoResponse
<1> QED  BY <1>1, <1>2, PTL

LEMMA ChartInvInit == ChartInit => ChartInv
  BY DEF ChartInit, ChartInv, Loading

\* Every step keeps what the chart reflects.
LEMMA ChartInvStep ==
  ASSUME ChartAssumption, ChartShape, ChartShape', ChartInv, [ChartNext]_chartVars
  PROVE  ChartInv'
<1> USE DEF chartJournalVars, chartHubVars, tabVars
<1>0. /\ written \in Nat /\ removed \in Nat /\ removed <= written
      /\ hub.cursor \in Nat /\ hub.cursor <= written
      /\ tab.cursor \in Nat /\ tab.known \in Nat
      /\ own \subseteq Int /\ \A e \in own : 1 <= e /\ e <= written
  BY DEF ChartShape
\* A stream beyond its bounds.
<1>live. Resumed => /\ response.last \in Nat /\ response.high \in Nat
                    /\ response.last <= written /\ response.high <= written
                    /\ response.queue \subseteq own /\ response.page \subseteq own
                    /\ response.closed \in BOOLEAN
  BY DEF ChartShape, StreamShape, Resumed, NoResponse
<1>rec. Attached => response \in [at : {"joined", "bounded", "replay", "live"}, last : 0..written,
                                   high : 0..written, page : SUBSET own, queue : SUBSET own,
                                   closed : BOOLEAN]
  BY DEF ChartShape, StreamShape, Attached, NoResponse
<1>reset. ASSUME ResetTab PROVE ChartInv'
  BY <1>reset DEF ResetTab, ChartInv, Loading
<1>idle. ASSUME UNCHANGED <<written, own, shown, hub, removed, tab, hurt, response>> PROVE ChartInv'
  BY <1>idle DEF ChartInv, Seen, QueueInv, ReplayInv, Resumed, Base, ReadUpTo
<1> SUFFICES ASSUME tab'.at = "open", ~hurt' PROVE ChartInv'
  BY DEF ChartInv
\* Before the step as well, when the step neither opens the chart nor clears its mark.
<1>was. ASSUME tab.at = "open", ~hurt
        PROVE  Seen(tab.cursor) /\ Seen(tab.known) /\ QueueInv /\ ReplayInv
  BY <1>was DEF ChartInv
<1>1. ASSUME NEW mine \in BOOLEAN, NEW reset \in BOOLEAN, WriteEvent(mine, reset) PROVE ChartInv'
  <2> USE <1>1 DEF WriteEvent
  <2>1. own' \subseteq own \cup {written + 1}
    OBVIOUS
  <2>2. tab.at = "open" /\ ~hurt
    OBVIOUS
  <2>3. tab.cursor <= written /\ tab.known <= written
    BY DEF ChartShape
  <2>4. Seen(tab.cursor)' /\ Seen(tab.known)'
    BY <1>0, <1>was, <2>1, <2>2, <2>3 DEF Seen
  <2>5. ReadUpTo \in Nat /\ ReadUpTo <= written /\ ReadUpTo' = ReadUpTo
    BY <1>0 DEF ReadUpTo, Larger
  <2>was. QueueInv /\ ReplayInv
    BY <1>was, <2>2
  <2>6. QueueInv'
    <3>1. SUFFICES ASSUME Resumed, ~response.closed, NEW e \in own', Base < e
                   PROVE  /\ e <= ReadUpTo => e \in response.queue \cup shown
                          /\ \A f \in response.queue : e < f => e \in response.queue \cup shown
      BY <2>5 DEF QueueInv, Resumed, Base
    <3>2. CASE e \in own
      BY <2>was, <3>1, <3>2 DEF QueueInv
    <3>3. CASE e = written + 1
      <4>1. ~(e <= ReadUpTo) /\ \A f \in own : ~(e < f)
        BY <1>0, <2>5, <3>3
      <4> QED  BY <1>live, <3>1, <4>1
    <3> QED  BY <2>1, <3>2, <3>3
  <2>7. ReplayInv'
    <3>1. Resumed => \A e \in own' : e <= response.high \/ e <= response.last => e \in own
      BY <1>0, <1>live, <2>1
    <3> QED  BY <2>was, <3>1 DEF ReplayInv, Seen, Resumed
  <2> QED  BY <2>4, <2>6, <2>7 DEF ChartInv
<1>2. ASSUME NEW n \in ChartJournal, PruneJournal(n) PROVE ChartInv'
  <2> USE <1>2 DEF PruneJournal
  <2>1. tab.at = "open" /\ ~hurt /\ ~(response.at = "bounded" /\ response.last < n)
    OBVIOUS
  <2>2. n \in Nat /\ removed < n /\ (hub.task = "running" => n <= hub.cursor)
    BY <1>0 DEF ChartJournal
  <2>3. ReadUpTo' <= ReadUpTo /\ ReadUpTo' \in Nat /\ ReadUpTo \in Nat
    BY <1>0, <2>2 DEF ReadUpTo, Larger
  <2>4. QueueInv'
    BY <1>0, <1>was, <1>live, <2>1, <2>3 DEF QueueInv, Resumed, Base
  <2>5. response.at = "bounded" => response.last = tab.cursor /\ n <= tab.cursor
    BY <1>0, <2>1, <2>2 DEF ChartShape, StreamShape, NoResponse
  <2>was. ReplayInv /\ Seen(tab.cursor)
    BY <1>was, <2>1
  <2>6. ReplayInv'
    <3>1. response.at = "bounded" => \A e \in own : e <= response.high => e \in shown \/ n < e
      BY <1>0, <2>was, <2>2, <2>5 DEF Seen
    <3> QED  BY <2>was, <3>1 DEF ReplayInv, Seen
  <2> QED  BY <1>was, <2>1, <2>4, <2>6 DEF ChartInv, Seen
<1>3. CASE StartHub
  <2>1. ReadUpTo' = ReadUpTo
    BY <1>3 DEF StartHub, ReadUpTo, ChartShape
  <2> QED  BY <1>3, <1>was, <2>1 DEF StartHub, ChartInv, Seen, QueueInv, ReplayInv, Resumed, Base
<1>4. CASE OpenJournal
  <2> USE <1>4 DEF OpenJournal
  <2>1. tab.at = "open" /\ ~hurt /\ ~(Resumed /\ hub.cursor < written /\ Base < written)
    OBVIOUS
  <2>2. ReadUpTo = hub.cursor /\ ReadUpTo' = written
    BY <1>0 DEF ReadUpTo, Larger, LastEvent, ChartJournal
  <2>3. QueueInv'
    BY <1>0, <1>was, <1>live, <2>1, <2>2 DEF QueueInv, Resumed, Base
  <2> QED  BY <1>was, <2>1, <2>3 DEF ChartInv, Seen, ReplayInv
<1>5. CASE HubRead
  <2> USE <1>5 DEF HubRead
  <2> DEFINE before == Larger(hub.cursor, removed)
             newest == Smaller(written, before + ReadLimit)
             fresh == {e \in own : before < e /\ e <= newest}
  <2>1. tab.at = "open" /\ ~hurt
    OBVIOUS
  <2>2. before \in Nat /\ newest \in Nat /\ ReadUpTo = before /\ ReadUpTo' = newest
        /\ before < newest
    BY <1>0 DEF ReadUpTo, Larger, Smaller, ChartAssumption, ChartShape
  <2>3. CASE ~(Attached /\ ~response.closed)
    BY <1>was, <2>1, <2>3 DEF ChartInv, Seen, QueueInv, ReplayInv, Resumed, Attached
  <2>4. CASE Attached /\ ~response.closed
    <3>1. response' = Deliver(response.queue \cup fresh)
      BY <2>4
    <3>2. \/ response' = [response EXCEPT !.closed = TRUE, !.queue = {}]
          \/ response' = [response EXCEPT !.queue = @ \cup fresh]
      BY <3>1 DEF Deliver
    <3>3. /\ response'.at = response.at /\ response'.last = response.last
          /\ response'.high = response.high /\ response'.page = response.page
      BY <3>2, <1>rec, <2>4
    <3>4. ReplayInv'
      BY <3>3, <1>was, <2>1 DEF ReplayInv, Seen
    <3>5. QueueInv'
      <4>0. SUFFICES ASSUME Resumed, ~response'.closed, NEW e \in own, Base < e
                     PROVE  /\ e <= newest => e \in response'.queue \cup shown
                            /\ \A f \in response'.queue : e < f => e \in response'.queue \cup shown
        BY <3>3, <2>2 DEF QueueInv, Resumed, Base
      <4>1. response'.queue = response.queue \cup fresh
        BY <3>2, <1>rec, <2>4, <4>0
      <4>2. e \in Int /\ (e <= before => e \in response.queue \cup shown)
        BY <1>0, <1>was, <2>1, <2>2, <2>4, <4>0 DEF QueueInv
      <4>3. e <= newest => e \in response'.queue \cup shown
        <5> HIDE DEF before, newest
        <5> QED  BY <2>2, <4>1, <4>2
      <4>4. ASSUME NEW f \in response.queue, e < f PROVE e \in response.queue \cup shown
        BY <1>was, <2>1, <2>4, <4>0, <4>4 DEF QueueInv
      <4>5. ASSUME NEW f \in fresh, e < f PROVE e <= newest
        BY <1>0, <2>2, <4>2, <4>5
      <4> QED  BY <4>1, <4>3, <4>4, <4>5
    <3> QED  BY <3>4, <3>5, <1>was, <2>1 DEF ChartInv, Seen
  <2> QED  BY <2>3, <2>4
<1>6. CASE HubFails
  <2>1. ReadUpTo' <= ReadUpTo
    BY <1>0, <1>6 DEF HubFails, ReadUpTo, Larger, ChartShape
  <2> QED  BY <1>0, <1>6, <1>was, <2>1 DEF HubFails, ChartInv, Seen, QueueInv, ReplayInv, Resumed, Base, ReadUpTo, Larger
<1>7. CASE AskSnapshot
  BY <1>7 DEF AskSnapshot, ChartInv
<1>8. CASE OtherAsks
  BY <1>8, <1>idle DEF OtherAsks
<1>9. CASE ReadDatabase
  BY <1>9, <1>idle DEF ReadDatabase
<1>10. CASE SnapshotShown
  <2> USE <1>10 DEF SnapshotShown
  <2>1. CASE tab.at = "asked"
    <3>1. response.at = "none"
      BY <2>1 DEF ChartShape, StreamShape, NoResponse
    <3>2. read.upTo \in Nat /\ read.cursor \in {0, read.upTo}
      BY DEF ChartShape, ReadShape
    <3>3. tab'.cursor = read.cursor /\ tab'.known = read.upTo /\ shown' = Reflected(read.upTo)
      BY <2>1
    <3>4. Seen(tab.cursor)' /\ Seen(tab.known)'
      BY <3>2, <3>3, <1>0 DEF Seen, Reflected
    <3> QED  BY <3>1, <3>4 DEF ChartInv, QueueInv, ReplayInv, Resumed
  <2>2. CASE tab.at # "asked"
    BY <2>2, <1>idle
  <2> QED  BY <2>1, <2>2
<1>11. CASE LoadFails
  <2>1. CASE tab.at = "asked"
    BY <2>1, <1>11 DEF LoadFails, ChartShape
  <2>2. CASE tab.at # "asked"
    BY <2>2, <1>11, <1>idle DEF LoadFails
  <2> QED  BY <2>1, <2>2
<1>12. CASE OpenStream
  BY <1>12, <1>was DEF OpenStream, ChartInv, Seen, QueueInv, ReplayInv, Resumed
<1>13. CASE JoinHub
  BY <1>13, <1>was DEF JoinHub, ChartInv, Seen, QueueInv, ReplayInv, Resumed
<1>14. CASE CheckBounds
  <2>1. CASE ResetTab
    BY <2>1, <1>reset
  <2>2. CASE ~ResetTab
    <3>1. /\ ~(JournalExpired(response.last) \/ response.last > LastEvent)
          /\ response' = [response EXCEPT !.at = "bounded", !.high = LastEvent]
          /\ ~hurt /\ ~(ChartJournal = {} /\ tab.known < written)
          /\ tab' = tab /\ UNCHANGED <<written, removed, own, hub, shown>>
      BY <1>14, <2>2 DEF CheckBounds
    <3>2. /\ response.last = tab.cursor
          /\ response'.at = "bounded" /\ response'.high = LastEvent
          /\ response'.queue = response.queue /\ response.queue \subseteq own
      BY <1>14, <3>1 DEF CheckBounds, ChartShape, StreamShape, NoResponse
    <3>3. Seen(tab.cursor) /\ Seen(tab.known)
      BY <1>was, <3>1
    <3>4. CASE ChartJournal = {}
      <4>1. own \subseteq shown
        BY <1>0, <3>1, <3>3, <3>4 DEF Seen
      <4> QED  BY <1>0, <3>1, <3>2, <3>3, <3>4, <4>1 DEF ChartInv, Seen, QueueInv, ReplayInv, LastEvent
    <3>5. CASE ChartJournal # {}
      <4>1. LastEvent = written /\ removed <= tab.cursor /\ tab.cursor <= written
        BY <1>0, <3>1, <3>2, <3>5 DEF LastEvent, FirstEvent, JournalExpired, ChartShape
      <4>2. QueueInv'
        BY <1>0, <3>1, <3>2, <4>1 DEF QueueInv, Base
      <4>3. ReplayInv'
        BY <1>0, <3>1, <3>2, <3>3, <4>1 DEF ReplayInv, Seen
      <4> QED  BY <3>1, <3>3, <4>2, <4>3 DEF ChartInv, Seen
    <3> QED  BY <3>4, <3>5
  <2> QED  BY <2>1, <2>2
<1>15. CASE ReadReplay
  <2>1. CASE ResetTab
    BY <2>1, <1>reset
  <2>2. CASE ~ResetTab
    <3> DEFINE replayed == {e \in ChartJournal : response.last < e /\ e <= response.high}
    <3>1. /\ response' = [response EXCEPT !.at = "replay", !.page = replayed \cap own]
          /\ ~hurt /\ tab' = tab /\ UNCHANGED <<written, removed, own, hub, shown>>
      BY <1>15, <2>2 DEF ReadReplay
    <3>2. /\ response.last = tab.cursor /\ response.last \in Nat
          /\ response'.at = "replay" /\ response'.high = response.high
          /\ response'.queue = response.queue /\ response'.page = replayed \cap own
          /\ response'.closed = response.closed
      BY <1>0, <1>15, <3>1 DEF ReadReplay, ChartShape, StreamShape, NoResponse
    <3>3. Seen(tab.cursor) /\ Seen(tab.known) /\ QueueInv /\ ReplayInv
      BY <1>was, <3>1
    <3>4. QueueInv'
      BY <1>15, <3>1, <3>2, <3>3 DEF ReadReplay, QueueInv, Base, Resumed, ReadUpTo
    <3>5. ReplayInv'
      BY <1>15, <1>0, <1>live, <3>1, <3>2, <3>3 DEF ReadReplay, ReplayInv, Seen, ChartJournal, Resumed
    <3> QED  BY <3>1, <3>3, <3>4, <3>5 DEF ChartInv, Seen
  <2> QED  BY <2>1, <2>2
\* A frame is drawn: all of the chart's events up to it are reflected then.
<1>draw. ASSUME NEW e \in own, NEW next, Draw(e, next), e \notin resets => Resumed,
                UNCHANGED <<written, removed, own, resets, hub>>,
                ~hurt => \A d \in own : d <= e => d \in shown \cup {e}
         PROVE  /\ response' = next /\ tab' = [tab EXCEPT !.cursor = Larger(e, @)]
                /\ shown' = shown \cup {e} /\ tab.at = "open" /\ ~hurt
                /\ Seen(tab.cursor)' /\ Seen(tab.known)' /\ Seen(e)'
  <2>1. e \notin resets
    BY <1>draw DEF Draw, Loading
  <2>2. /\ response' = next /\ tab' = [tab EXCEPT !.cursor = Larger(e, @)]
        /\ shown' = shown \cup {e} /\ hurt' = hurt
    BY <1>draw, <2>1 DEF Draw
  <2>3. tab.at = "open" /\ tab'.cursor = Larger(e, tab.cursor) /\ tab'.known = tab.known
    BY <2>2 DEF ChartShape
  <2>4. Seen(tab.cursor) /\ Seen(tab.known)
    BY <1>was, <2>2, <2>3
  <2> QED  BY <1>0, <1>draw, <2>2, <2>3, <2>4 DEF Seen, Larger
<1>16. CASE SendReplay
  <2>0. response.at = "replay" /\ Resumed /\ Base = response.high
        /\ UNCHANGED <<written, removed, own, resets, hub>>
    BY <1>16 DEF SendReplay, Resumed, Base
  <2>1. CASE response.page = {} /\ response' = [response EXCEPT !.at = "live", !.last = response.high, !.high = 0]
             /\ UNCHANGED <<tabVars, hurt>>
    <3>1. Seen(tab.cursor) /\ Seen(tab.known) /\ QueueInv /\ ReplayInv
      BY <1>was, <2>1
    <3>2. /\ response'.at = "live" /\ response'.last = response.high
          /\ response'.queue = response.queue /\ response'.closed = response.closed
      BY <2>0, <2>1, <1>rec DEF Attached
    <3>3. QueueInv'
      BY <2>0, <2>1, <3>1, <3>2 DEF QueueInv, Base, Resumed, ReadUpTo
    <3>4. ReplayInv'
      BY <2>0, <2>1, <3>1, <3>2 DEF ReplayInv, Seen
    <3> QED  BY <2>0, <2>1, <3>1, <3>3, <3>4 DEF ChartInv, Seen
  <2>2. ASSUME NEW e \in response.page, First(e, response.page),
               Draw(e, [response EXCEPT !.page = @ \ {e}])
        PROVE  ChartInv'
    <3>1. e \in own /\ e <= response.high /\ response.high \in Nat
      BY <2>0, <1>live DEF ChartShape, StreamShape, NoResponse
    <3>2. ~hurt => \A d \in own : d <= e => d \in shown \cup {e}
      <4> SUFFICES ASSUME ~hurt, NEW d \in own, d <= e PROVE d \in shown \cup {e}
        OBVIOUS
      <4>1. tab.at = "open"
        BY <2>0 DEF ChartShape, StreamShape, NoResponse
      <4>2. d \in shown \cup response.page
        <5>1. ReplayInv
          BY <1>was, <4>1
        <5>2. d \in Int /\ e \in Int
          BY <1>0, <3>1
        <5>3. d <= response.high
          BY <3>1, <5>2
        <5> QED  BY <2>0, <5>1, <5>3 DEF ReplayInv
      <4> QED  BY <1>0, <2>2, <3>1, <4>2 DEF First
    <3>3. /\ response' = [response EXCEPT !.page = @ \ {e}] /\ tab' = [tab EXCEPT !.cursor = Larger(e, @)]
          /\ shown' = shown \cup {e} /\ tab.at = "open" /\ ~hurt
          /\ Seen(tab.cursor)' /\ Seen(tab.known)' /\ Seen(e)'
      BY <1>draw, <2>0, <2>2, <3>1, <3>2
    <3>4. /\ response'.at = "replay" /\ response'.high = response.high
          /\ response'.queue = response.queue /\ response'.closed = response.closed
          /\ response'.page = response.page \ {e}
      BY <2>0, <3>3, <1>rec DEF Attached
    <3>5. tab'.cursor = Larger(e, tab.cursor)
      BY <3>3 DEF ChartShape
    <3>6. QueueInv /\ ReplayInv
      BY <1>was, <3>3
    <3>7. QueueInv'
      BY <2>0, <3>3, <3>4, <3>6 DEF QueueInv, Base, Resumed, ReadUpTo
    <3>8. ReplayInv'
      BY <1>0, <2>0, <3>1, <3>3, <3>4, <3>5, <3>6 DEF ReplayInv, Larger
    <3> QED  BY <3>3, <3>7, <3>8 DEF ChartInv
  <2> QED  BY <1>16, <2>1, <2>2 DEF SendReplay
<1>17. CASE SendLive
  <2>0. response.at = "live" /\ ~response.closed /\ Resumed /\ Base = response.last
        /\ UNCHANGED <<written, removed, own, resets, hub>>
    BY <1>17 DEF SendLive, Resumed, Base
  <2>taken. \A e : [[response EXCEPT !.queue = @ \ {e}] EXCEPT !.last = e]
                   = [response EXCEPT !.queue = @ \ {e}, !.last = e]
    BY <1>rec, <2>0 DEF Attached
  <2>send. \E e \in response.queue :
          /\ First(e, response.queue)
          /\ IF e <= response.last
             THEN response' = [response EXCEPT !.queue = @ \ {e}] /\ UNCHANGED <<tabVars, hurt>>
             ELSE Draw(e, [[response EXCEPT !.queue = @ \ {e}] EXCEPT !.last = e])
    BY <1>17, Zenon DEF SendLive
  <2>1. PICK e \in response.queue :
          /\ First(e, response.queue)
          /\ IF e <= response.last
             THEN response' = [response EXCEPT !.queue = @ \ {e}] /\ UNCHANGED <<tabVars, hurt>>
             ELSE Draw(e, [response EXCEPT !.queue = @ \ {e}, !.last = e])
    BY <2>taken, <2>send, Zenon
  <2>2. e \in own /\ e \in Nat /\ response.last \in Nat
    <3>1. response.queue \subseteq own /\ response.last \in Nat
      BY <1>live, <2>0
    <3>2. e \in own
      BY <2>1, <3>1
    <3>3. e \in Int /\ 1 <= e
      BY <1>0, <3>2, Zenon
    <3> QED  BY <3>1, <3>2, <3>3
  <2>3. CASE e <= response.last
    <3>1. Seen(tab.cursor) /\ Seen(tab.known) /\ QueueInv /\ ReplayInv
      BY <1>was, <2>1, <2>3
    <3>2. /\ response'.at = "live" /\ response'.last = response.last
          /\ response'.queue = response.queue \ {e} /\ response'.closed = response.closed
      BY <2>0, <2>1, <2>3, <1>rec DEF Attached
    <3>3. QueueInv'
      BY <1>0, <2>0, <2>1, <2>2, <2>3, <3>1, <3>2 DEF QueueInv, Base, Resumed, ReadUpTo
    <3>4. ReplayInv'
      BY <2>0, <2>1, <2>3, <3>1, <3>2 DEF ReplayInv, Seen
    <3> QED  BY <2>0, <2>1, <2>3, <3>1, <3>3, <3>4 DEF ChartInv, Seen
  <2>4. CASE ~(e <= response.last)
    <3>1. ~hurt => \A d \in own : d <= e => d \in shown \cup {e}
      <4> SUFFICES ASSUME ~hurt, NEW d \in own, d <= e PROVE d \in shown \cup {e}
        OBVIOUS
      <4>1. tab.at = "open"
        BY <2>0 DEF ChartShape, StreamShape, NoResponse
      <4>2. Seen(response.last)
        BY <1>was, <2>0, <4>1 DEF ReplayInv
      <4>3. response.last < d /\ d < e => d \in response.queue \cup shown
        BY <1>was, <2>0, <4>1 DEF QueueInv
      <4> QED  BY <1>0, <2>1, <2>2, <4>2, <4>3 DEF First, Seen
    <3>2. Draw(e, [response EXCEPT !.queue = @ \ {e}, !.last = e])
      BY <2>1, <2>4
    <3>3. /\ response' = [response EXCEPT !.queue = @ \ {e}, !.last = e]
          /\ tab' = [tab EXCEPT !.cursor = Larger(e, @)]
          /\ shown' = shown \cup {e} /\ tab.at = "open" /\ ~hurt
          /\ Seen(tab.cursor)' /\ Seen(tab.known)' /\ Seen(e)'
      BY <1>draw, <2>0, <2>2, <3>1, <3>2
    <3>4. /\ response'.at = "live" /\ response'.last = e
          /\ response'.queue = response.queue \ {e} /\ response'.closed = response.closed
      BY <2>0, <3>3, <1>rec DEF Attached
    <3>5. tab'.cursor = Larger(e, tab.cursor)
      BY <3>3 DEF ChartShape
    <3>6. QueueInv /\ ReplayInv
      BY <1>was, <3>3
    <3>7. QueueInv'
      BY <1>0, <2>0, <2>1, <2>2, <2>4, <3>3, <3>4, <3>6 DEF QueueInv, Base, Resumed, ReadUpTo
    <3>8. ReplayInv'
      BY <1>0, <2>0, <2>2, <2>4, <3>3, <3>4, <3>5, <3>6 DEF ReplayInv, Larger
    <3> QED  BY <3>3, <3>7, <3>8 DEF ChartInv
  <2> QED  BY <2>3, <2>4
<1>18. CASE SlowConsumer
  BY <1>18, <1>reset DEF SlowConsumer
<1>19. CASE Heartbeat
  <2> DEFINE last == Larger(response.last, hub.cursor)
  <2>0. response.at = "live" /\ ~response.closed /\ Resumed /\ Base = response.last
        /\ UNCHANGED <<written, removed, own, resets, hub, shown>>
    BY <1>19 DEF Heartbeat, Resumed, Base
  <2>1. /\ ~hurt /\ \A e \in response.queue : ~(e > response.last)
        /\ response' = [response EXCEPT !.last = last]
        /\ tab' = [tab EXCEPT !.cursor = Larger(last, @)]
    BY <1>19 DEF Heartbeat
  <2>2. /\ response'.at = "live" /\ response'.last = last
        /\ response'.queue = response.queue /\ response'.closed = response.closed
    BY <2>0, <2>1, <1>rec DEF Attached
  <2>3. tab.at = "open" /\ tab'.cursor = Larger(last, tab.cursor) /\ tab'.known = tab.known
    BY <2>1 DEF ChartShape
  <2>4. Seen(tab.cursor) /\ Seen(tab.known) /\ QueueInv /\ ReplayInv
    BY <1>was, <2>1, <2>3
  <2>5. hub.cursor <= ReadUpTo
    BY <1>0 DEF ReadUpTo, Larger
  <2>6. response.last \in Nat /\ last \in Nat /\ ReadUpTo \in Nat /\ response.queue \subseteq own
    BY <1>0, <1>live, <2>0 DEF Larger, ReadUpTo
  <2>7. \A e \in own : e <= last => e \in shown
    <3> SUFFICES ASSUME NEW e \in own, e <= last, response.last < e PROVE e \in shown
      BY <1>0, <2>0, <2>4, <2>6 DEF ReplayInv, Seen
    <3>1. e <= ReadUpTo
      BY <1>0, <2>5, <2>6 DEF Larger
    <3>2. e \in response.queue \cup shown
      BY <2>0, <2>4, <3>1 DEF QueueInv
    <3>3. e \in Int
      BY <1>0
    <3> QED  BY <2>1, <2>6, <3>2, <3>3
  <2>8. tab.cursor <= response.last
    BY <2>0, <2>4 DEF ReplayInv
  <2>9. QueueInv'
    <3>0. response.last <= last
      BY <1>0, <2>6 DEF Larger
    <3> HIDE DEF last
    <3>1. \A e \in own : last < e => response.last < e
      BY <1>0, <2>6, <3>0
    <3>2. ReadUpTo' = ReadUpTo
      BY <2>0 DEF ReadUpTo
    <3> QED  BY <2>0, <2>2, <2>4, <3>1, <3>2 DEF QueueInv, Base, Resumed
  <2>10. ReplayInv' /\ Seen(tab.cursor)'
    <3>1. tab'.cursor = last
      BY <1>0, <2>3, <2>6, <2>8 DEF Larger
    <3> HIDE DEF last
    <3>2. \A e \in own' : e <= last => e \in shown'
      BY <2>0, <2>7
    <3> QED  BY <2>2, <2>6, <3>1, <3>2 DEF ReplayInv, Seen
  <2> QED  BY <2>0, <2>3, <2>4, <2>9, <2>10 DEF ChartInv, Seen
<1>20. CASE HubLost
  BY <1>20, <1>reset DEF HubLost
<1>21. CASE ConnectionEnds
  BY <1>21, <1>was DEF ConnectionEnds, ChartInv, Seen, QueueInv, ReplayInv, Resumed, NoResponse
<1>22. CASE QueryRestarts
  <2>1. tab.at = "open" /\ tab' = tab
    BY <1>22 DEF QueryRestarts, ChartShape
  <2> QED  BY <1>22, <1>was, <2>1 DEF QueryRestarts, ChartInv, Seen, QueueInv, ReplayInv, Resumed, NoResponse
<1>23. CASE UNCHANGED chartVars
  BY <1>23, <1>idle DEF chartVars
<1> QED
  BY <1>1, <1>2, <1>3, <1>4, <1>5, <1>6, <1>7, <1>8, <1>9, <1>10, <1>11, <1>12, <1>13,
     <1>14, <1>15, <1>16, <1>17, <1>18, <1>19, <1>20, <1>21, <1>22, <1>23 DEF ChartNext

\* A chart that is open reflects every event of its pool up to its cursor,
\* for any limits of queue, replay and read, any number of events and faults,
\* unless one of the four races happened (market_frames, MarketHub.run).
THEOREM ChartIsComplete == ASSUME ChartAssumption PROVE ChartSpec => []ChartComplete
<1>1. ChartShape /\ ChartInv => ChartComplete
  BY DEF ChartInv, ChartComplete, Seen
<1> QED
  BY <1>1, ChartShapeInit, ChartShapeStep, ChartInvInit, ChartInvStep, PTL DEF ChartSpec


-----------------------------------------------------------------------------
(* The shared read model.  A copy that is stamped with a time of            *)
(* verification was in storage then, but for the length of a read: that     *)
(* survives every hand over, and a publication that leaves storage leaves   *)
(* behind when it did.                                                      *)

Phases == {"idle", "captured", "stamped", "committed"}

BridgeShape ==
  /\ bridge \in [pc : Phases, known : Publications \cup {NoCopy}, manifest : Manifests \cup {NoCopy},
                 seen : Publications \cup {NoCopy}, readAt : 0..MaxModelClock]
  /\ bridge.pc = "captured" => bridge.seen \in Publications
  /\ bridge.pc \in {"stamped", "committed"} => bridge.manifest \in Manifests

CacheShape == cached # NoCopy =>
  cached \in [publication : Publications, shared : BOOLEAN, verifiedAt : -1..MaxModelClock]

RefreshShape == refresh # NoCopy =>
  refresh \in [manifest : Manifests, pc : {"body", "prepare"}, started : 0..MaxModelClock]

ModelShape ==
  /\ modelClock \in 0..MaxModelClock /\ source \in Publications
  /\ left \in [Publications -> -1..MaxModelClock]
  /\ \A p \in Publications : left[p] <= modelClock
  /\ BridgeShape /\ CacheShape /\ RefreshShape
  /\ postgres \in Manifests \cup {NoCopy} /\ redis \in Manifests \cup {NoCopy}
  /\ waiting \in BOOLEAN /\ modelFaults \in 0..MaxModelFaults

\* Storage counts on: what it held lies behind what it holds.
Behind(p, q) == p.epoch < q.epoch \/ (p.epoch = q.epoch /\ p.revision < q.revision)
Gone == {p \in Publications : left[p] # NeverLeft}
HistoryInv ==
  /\ IsFiniteSet(Gone) /\ source.epoch + source.revision <= Cardinality(Gone) + 1
  /\ \A p \in Gone : Behind(p, source)

\* Storage held p at some time not before t.
HeldSince(p, t) == p = source \/ t <= left[p]
Held(m) == m.checkedAt <= modelClock /\ HeldSince(m.publication, m.checkedAt - SlowRead)

CapturedInv == bridge.pc = "captured" =>
  /\ bridge.readAt <= modelClock /\ modelClock - bridge.readAt <= SlowRead
  /\ HeldSince(bridge.seen, bridge.readAt)

HeldInv ==
  /\ postgres # NoCopy => Held(postgres)
  /\ redis # NoCopy => Held(redis)
  /\ bridge.manifest # NoCopy => Held(bridge.manifest)
  /\ cached # NoCopy /\ cached.shared => Held(Manifest(cached.publication, cached.verifiedAt))
  /\ refresh # NoCopy => Held(refresh.manifest)

ServedInv == served \in 0..(MaxModelClock + 1) /\ served <= MaxVerifiedAge + SlowRead

ModelInv == ModelShape /\ HistoryInv /\ CapturedInv /\ HeldInv /\ ServedInv

\* What is held was in storage not long before its time of verification.
LEMMA HeldIs ==
  ASSUME ModelAssumption, ModelShape, NEW p \in Publications, NEW t \in Int,
         t <= modelClock, HeldSince(p, t - SlowRead)
  PROVE  /\ Age(p) \in 0..(MaxModelClock + 1)
         /\ t - SlowRead <= modelClock - Age(p)
<1>1. CASE p = source
  BY <1>1 DEF ModelAssumption, ModelShape, Age
<1>2. CASE p # source
  <2>1. left[p] \in -1..MaxModelClock /\ left[p] <= modelClock
    BY DEF ModelShape
  <2> QED
    BY <1>2, <2>1 DEF ModelAssumption, ModelShape, Age, HeldSince
<1> QED
  BY <1>1, <1>2

\* An answer that was verified recently was in storage recently.
LEMMA AnswerIs ==
  ASSUME ModelAssumption, ModelShape, NEW p \in Publications, NEW t \in Int,
         t <= modelClock, HeldSince(p, t - SlowRead), modelClock - t <= MaxVerifiedAge, Answer(p)
  PROVE  ServedInv'
<1>1. Age(p) \in 0..(MaxModelClock + 1) /\ t - SlowRead <= modelClock - Age(p)
  BY HeldIs
<1> QED
  BY <1>1 DEF ModelAssumption, ModelShape, Answer, ServedInv

LEMMA StorageAnswerIs == ASSUME ModelAssumption, ModelShape, Answer(source) PROVE ServedInv'
BY DEF ModelAssumption, ModelShape, Answer, ServedInv, Age

LEMMA ModelBegins == ASSUME ModelAssumption, ModelInit PROVE ModelInv
<1> USE DEF ModelAssumption, ModelInit
<1>1. [epoch |-> 0, revision |-> 1] \in Publications
  BY DEF Publications
<1>2. ModelShape
  <2>1. BridgeShape
    BY DEF BridgeShape, Rest, Phases
  <2>2. CacheShape /\ RefreshShape
    BY DEF CacheShape, RefreshShape
  <2>3. left \in [Publications -> -1..MaxModelClock] /\ \A p \in Publications : left[p] <= 0
    BY DEF NeverLeft
  <2>4. modelClock = 0 /\ modelClock \in 0..MaxModelClock /\ modelFaults \in 0..MaxModelFaults
    OBVIOUS
  <2>5. source \in Publications
    BY <1>1
  <2>6. postgres \in Manifests \cup {NoCopy} /\ redis \in Manifests \cup {NoCopy} /\ waiting \in BOOLEAN
    OBVIOUS
  <2> QED
    BY <2>1, <2>2, <2>3, <2>4, <2>5, <2>6 DEF ModelShape
<1>3. HistoryInv
  <2>1. Gone = {}
    BY DEF Gone
  <2>2. IsFiniteSet(Gone) /\ Cardinality(Gone) = 0
    BY <2>1, FS_EmptySet
  <2> QED
    BY <2>1, <2>2 DEF HistoryInv
<1>4. CapturedInv /\ HeldInv /\ ServedInv
  BY DEF CapturedInv, HeldInv, ServedInv, Rest
<1> QED
  BY <1>2, <1>3, <1>4 DEF ModelInv

\* Storage changes hands.
LEMMA ReplaceKeeps ==
  ASSUME ModelAssumption, ModelInv, NEW q \in [epoch : Nat, revision : Nat \ {0}], Replace(q),
         Behind(source, q), q.epoch + q.revision <= source.epoch + source.revision + 1
  PROVE  ModelInv'
<1> USE DEF ModelInv, Replace
<1>1. UNCHANGED <<modelClock, bridge, postgres, redis, queryVars, modelFaults>>
  OBVIOUS
<1>2. /\ source \in Publications /\ modelClock \in Nat /\ modelClock <= MaxModelClock
      /\ left \in [Publications -> -1..MaxModelClock]
      /\ \A p \in Publications : left[p] <= modelClock
  BY DEF ModelShape, ModelAssumption
<1>3. Gone' = Gone \cup {source} /\ source \notin Gone
  <2>1. source \notin Gone
    BY <1>2 DEF HistoryInv, Behind, Publications
  <2>2. \A p \in Publications : left'[p] = IF p = source THEN modelClock ELSE left[p]
    BY <1>2
  <2>3. modelClock # NeverLeft
    BY <1>2 DEF NeverLeft
  <2> QED
    BY <1>2, <2>1, <2>2, <2>3 DEF Gone
<1>4. IsFiniteSet(Gone') /\ Cardinality(Gone') = Cardinality(Gone) + 1 /\ Cardinality(Gone) \in Nat
  <2>1. IsFiniteSet(Gone)
    BY DEF HistoryInv
  <2> QED
    BY <1>3, <2>1, FS_AddElement, FS_CardinalityType
<1>5. Replacements = Cardinality(Gone)
  BY DEF Replacements, Gone
<1>6. q \in Publications
  <2>1. Cardinality(Gone) < MaxReplacements
    BY <1>5
  <2>2. source.epoch \in Nat /\ source.revision \in Nat
    BY <1>2 DEF Publications, ModelAssumption
  <2>3. q.epoch + q.revision <= MaxReplacements + 1
    BY <1>4, <2>1, <2>2 DEF HistoryInv, ModelAssumption
  <2>4. q.epoch \in 0..MaxReplacements /\ q.revision \in 1..(MaxReplacements + 1)
    BY <2>3 DEF ModelAssumption
  <2> QED
    BY <2>4 DEF Publications
<1>7. \A p, t : HeldSince(p, t) /\ t \in Int /\ t <= modelClock /\ p \in Publications => HeldSince(p, t)'
  BY <1>2, <1>6 DEF HeldSince
<1>8. ModelShape'
  <2>1. BridgeShape' /\ CacheShape' /\ RefreshShape'
    BY <1>1 DEF ModelShape, BridgeShape, CacheShape, RefreshShape, queryVars
  <2>2. left' \in [Publications -> -1..MaxModelClock]
    BY <1>2
  <2>3. \A p \in Publications : left'[p] <= modelClock'
    BY <1>1, <1>2
  <2> QED
    BY <1>1, <1>6, <2>1, <2>2, <2>3 DEF ModelShape, queryVars
<1>9. HistoryInv'
  <2>1. source' = q
    OBVIOUS
  <2>2. \A p \in Gone : Behind(p, q)
    <3> TAKE p \in Gone
    <3>1. Behind(p, source) /\ p \in Publications
      BY DEF HistoryInv, Gone
    <3> QED
      BY <1>2, <3>1 DEF Behind, Publications, ModelAssumption
  <2>3. source.epoch \in Nat /\ source.revision \in Nat
    BY <1>2 DEF Publications, ModelAssumption
  <2>4. q.epoch + q.revision <= Cardinality(Gone') + 1
    BY <1>4, <2>3 DEF HistoryInv
  <2> QED
    BY <1>3, <1>4, <2>1, <2>2, <2>4 DEF HistoryInv
<1>10. CapturedInv'
  BY <1>1, <1>7 DEF CapturedInv, ModelShape, BridgeShape
<1>11. \A m \in [publication : Publications, checkedAt : Int] : Held(m) => Held(m)'
  BY <1>1, <1>2, <1>7 DEF Held, ModelAssumption
<1>12. HeldInv'
  BY <1>1, <1>11 DEF HeldInv, ModelShape, BridgeShape, CacheShape, RefreshShape, Manifests, Manifest, queryVars
<1>13. ServedInv'
  BY <1>1 DEF ServedInv, queryVars
<1> QED
  BY <1>8, <1>9, <1>10, <1>12, <1>13

LEMMA NewRevisionKeeps == ASSUME ModelAssumption, ModelInv, NewRevision PROVE ModelInv'
<1> DEFINE q == [source EXCEPT !.revision = @ + 1]
<1>1. source \in Publications
  BY DEF ModelInv, ModelShape
<1>2. q \in [epoch : Nat, revision : Nat \ {0}] /\ q.epoch = source.epoch /\ q.revision = source.revision + 1
  BY <1>1 DEF Publications, ModelAssumption
<1>3. Behind(source, q) /\ q.epoch + q.revision <= source.epoch + source.revision + 1
  BY <1>1, <1>2 DEF Behind, Publications, ModelAssumption
<1>4. Replace(q)
  BY DEF NewRevision
<1> HIDE DEF q
<1> QED
  BY <1>2, <1>3, <1>4, ReplaceKeeps

LEMMA NewDatabaseKeeps ==
  ASSUME ModelAssumption, ModelInv, NEW r \in 1..MaxReplacements, NewDatabase(r) PROVE ModelInv'
<1> DEFINE q == [epoch |-> source.epoch + 1, revision |-> r]
<1>1. source \in Publications
  BY DEF ModelInv, ModelShape
<1>2. q \in [epoch : Nat, revision : Nat \ {0}] /\ q.epoch = source.epoch + 1 /\ q.revision = r
  BY <1>1 DEF Publications, ModelAssumption
<1>3. Behind(source, q) /\ q.epoch + q.revision <= source.epoch + source.revision + 1
  BY <1>1, <1>2 DEF Behind, Publications, ModelAssumption, NewDatabase
<1>4. Replace(q)
  BY DEF NewDatabase
<1> HIDE DEF q
<1> QED
  BY <1>2, <1>3, <1>4, ReplaceKeeps

\* The clock.
LEMMA ModelTickKeeps == ASSUME ModelAssumption, ModelInv, ModelTick PROVE ModelInv'
<1> USE DEF ModelInv, ModelTick
<1>1. /\ UNCHANGED <<source, left, bridge, postgres, redis, queryVars, modelFaults>>
      /\ modelClock \in Nat /\ modelClock' = modelClock + 1 /\ modelClock' <= MaxModelClock
  BY DEF ModelShape, ModelAssumption, storageVars
<1>2. ModelShape'
  <2>1. BridgeShape' /\ CacheShape' /\ RefreshShape'
    BY <1>1 DEF ModelShape, BridgeShape, CacheShape, RefreshShape, queryVars
  <2>2. \A p \in Publications : left'[p] <= modelClock'
    BY <1>1 DEF ModelShape
  <2> QED
    BY <1>1, <2>1, <2>2 DEF ModelShape, queryVars, ModelAssumption
<1>3. HistoryInv'
  BY <1>1 DEF HistoryInv, Gone
<1>4. CapturedInv'
  BY <1>1 DEF CapturedInv, HeldSince, ModelShape, BridgeShape, ModelAssumption
<1>5. \A m \in [publication : Publications, checkedAt : Int] : Held(m) => Held(m)'
  BY <1>1 DEF Held, HeldSince
<1>6. HeldInv'
  BY <1>1, <1>5 DEF HeldInv, ModelShape, BridgeShape, CacheShape, RefreshShape, Manifests, Manifest, queryVars
<1>7. ServedInv'
  BY <1>1 DEF ServedInv, queryVars
<1> QED
  BY <1>2, <1>3, <1>4, <1>6, <1>7

\* A step that leaves clock and storage alone keeps the history; what was held
\* is held still.
Quiet == UNCHANGED <<modelClock, source, left>>

LEMMA QuietKeeps ==
  ASSUME ModelInv, Quiet
  PROVE  HistoryInv' /\ \A m : Held(m) <=> Held(m)'
<1>1. HistoryInv'
  BY DEF ModelInv, Quiet, HistoryInv, Gone
<1>2. \A m : Held(m) <=> Held(m)'
  BY DEF Quiet, Held, HeldSince
<1> QED
  BY <1>1, <1>2

LEMMA BridgeQuiet ==
  ASSUME ModelAssumption, ModelInv, Quiet, UNCHANGED queryVars, modelFaults' \in 0..MaxModelFaults,
         BridgeShape', postgres' \in Manifests \cup {NoCopy}, redis' \in Manifests \cup {NoCopy},
         CapturedInv',
         postgres' # NoCopy => Held(postgres'), redis' # NoCopy => Held(redis'),
         bridge'.manifest # NoCopy => Held(bridge'.manifest)
  PROVE  ModelInv'
<1> USE DEF ModelInv
<1>1. HistoryInv' /\ \A m : Held(m) <=> Held(m)'
  BY QuietKeeps
<1>2. ModelShape'
  BY DEF Quiet, queryVars, ModelShape, CacheShape, RefreshShape
<1>3. HeldInv'
  <2>1. (postgres # NoCopy => Held(postgres))' /\ (redis # NoCopy => Held(redis))'
    BY DEF Quiet, Held, HeldSince
  <2>2. (bridge.manifest # NoCopy => Held(bridge.manifest))'
    BY DEF Quiet, Held, HeldSince
  <2>3. (cached # NoCopy /\ cached.shared => Held(Manifest(cached.publication, cached.verifiedAt)))'
    BY DEF Quiet, Held, HeldSince, queryVars, HeldInv
  <2>4. (refresh # NoCopy => Held(refresh.manifest))'
    BY DEF Quiet, Held, HeldSince, queryVars, HeldInv
  <2> QED
    BY <2>1, <2>2, <2>3, <2>4 DEF HeldInv
<1>4. ServedInv'
  BY DEF ServedInv, queryVars
<1> QED
  BY <1>1, <1>2, <1>3, <1>4

\* The bridge.
LEMMA CaptureKeeps == ASSUME ModelAssumption, ModelInv, CapturePublication PROVE ModelInv'
<1> USE DEF ModelInv, CapturePublication
<1>1. Quiet /\ UNCHANGED <<queryVars, postgres, redis, modelFaults>>
  BY DEF Quiet, storageVars
<1>2. BridgeShape' /\ bridge'.manifest = bridge.manifest
  BY DEF ModelShape, BridgeShape, Phases
<1>3. CapturedInv'
  BY <1>1 DEF CapturedInv, ModelShape, BridgeShape, HeldSince, Quiet, ModelAssumption
<1> QED
  BY <1>1, <1>2, <1>3, BridgeQuiet DEF ModelShape, HeldInv

LEMMA StampKeeps == ASSUME ModelAssumption, ModelInv, StampManifest PROVE ModelInv'
<1> USE DEF ModelInv, StampManifest
<1>1. Quiet /\ UNCHANGED <<queryVars, postgres, redis, modelFaults>>
  BY DEF Quiet, storageVars
<1>2. PICK p : p = IF Unchanged THEN bridge.known ELSE bridge.seen
  OBVIOUS
<1>3. p = bridge.seen /\ p \in Publications
  BY <1>2 DEF ModelShape, BridgeShape, Unchanged, SamePublication
<1>4. Manifest(p, modelClock) \in Manifests
  BY <1>3 DEF ModelShape, Manifest, Manifests
<1>5. bridge' = [bridge EXCEPT !.pc = "stamped", !.readAt = 0, !.manifest = Manifest(p, modelClock)]
  BY <1>2
<1>6. BridgeShape' /\ bridge'.manifest = Manifest(p, modelClock) /\ bridge'.pc = "stamped"
  <2> DEFINE m == Manifest(p, modelClock)
  <2> HIDE DEF m
  <2>1. m \in Manifests \cup {NoCopy} /\ 0 \in 0..MaxModelClock /\ "stamped" \in Phases
    BY <1>4 DEF m, Phases, ModelAssumption
  <2>2. bridge' = [bridge EXCEPT !.pc = "stamped", !.readAt = 0, !.manifest = m]
    BY <1>5 DEF m
  <2>3. bridge' \in [pc : Phases, known : Publications \cup {NoCopy}, manifest : Manifests \cup {NoCopy},
                     seen : Publications \cup {NoCopy}, readAt : 0..MaxModelClock]
        /\ bridge'.manifest = m /\ bridge'.pc = "stamped"
    BY <2>1, <2>2 DEF ModelShape, BridgeShape
  <2> QED
    BY <1>4, <2>3 DEF m, BridgeShape
<1>7. Held(Manifest(p, modelClock))
  <2>1. bridge.readAt \in Nat /\ modelClock \in Nat /\ SlowRead \in Nat
    BY DEF ModelShape, BridgeShape, ModelAssumption
  <2>2. modelClock - SlowRead <= bridge.readAt /\ HeldSince(p, bridge.readAt)
    BY <1>3, <2>1 DEF CapturedInv
  <2>3. left[p] \in Int
    BY <1>3 DEF ModelShape
  <2>4. HeldSince(p, modelClock - SlowRead)
    BY <2>1, <2>2, <2>3 DEF HeldSince
  <2> QED
    BY <2>1, <2>4 DEF Held, Manifest
<1>8. CapturedInv'
  BY <1>6 DEF CapturedInv
<1> QED
  BY <1>1, <1>6, <1>7, <1>8, BridgeQuiet DEF ModelShape, HeldInv

LEMMA CommitKeepsModel == ASSUME ModelAssumption, ModelInv, CommitPostgres PROVE ModelInv'
<1> USE DEF ModelInv, CommitPostgres
<1>1. Quiet /\ UNCHANGED <<queryVars, redis, modelFaults>>
  BY DEF Quiet, storageVars
<1>2. bridge.manifest \in Manifests /\ bridge.manifest.publication \in Publications
  BY DEF ModelShape, BridgeShape, Manifests
<1>3. BridgeShape' /\ bridge'.manifest = bridge.manifest /\ bridge'.pc = "committed"
  BY <1>2 DEF ModelShape, BridgeShape, Phases
<1>4. CapturedInv'
  BY <1>3 DEF CapturedInv
<1> QED
  BY <1>1, <1>2, <1>3, <1>4, BridgeQuiet DEF ModelShape, HeldInv

\* The bridge begins anew, with or without what it knows.
LEMMA RestIs ==
  ASSUME ModelAssumption, ModelInv, NEW k \in Publications \cup {NoCopy},
         bridge' = [Rest EXCEPT !.known = k]
  PROVE  BridgeShape' /\ CapturedInv' /\ bridge'.manifest = NoCopy
BY DEF ModelAssumption, BridgeShape, CapturedInv, Rest, Phases

LEMMA TurnFailsKeeps == ASSUME ModelAssumption, ModelInv, TurnFails PROVE ModelInv'
<1> USE DEF ModelInv, TurnFails
<1>1. Quiet /\ UNCHANGED <<queryVars, redis>> /\ modelFaults' \in 0..MaxModelFaults
  BY DEF Quiet, storageVars, ModelFault, ModelShape, ModelAssumption
<1>2. BridgeShape' /\ CapturedInv' /\ bridge'.manifest = NoCopy
  <2>1. bridge.known \in Publications \cup {NoCopy}
    BY DEF ModelShape, BridgeShape
  <2> QED
    BY <2>1, RestIs
<1>3. postgres' \in Manifests \cup {NoCopy} /\ (postgres' # NoCopy => Held(postgres'))
  <2>1. CASE UNCHANGED postgres
    BY <2>1 DEF ModelShape, HeldInv
  <2>2. CASE bridge.pc = "stamped" /\ Committable /\ postgres' = bridge.manifest
    BY <2>2 DEF ModelShape, BridgeShape, HeldInv
  <2> QED
    BY <2>1, <2>2
<1> QED
  BY <1>1, <1>2, <1>3, BridgeQuiet DEF ModelShape, HeldInv

LEMMA CacheRedisKeeps == ASSUME ModelAssumption, ModelInv, CacheRedis PROVE ModelInv'
<1> USE DEF ModelInv, CacheRedis
<1>1. Quiet /\ UNCHANGED <<queryVars, postgres, modelFaults>>
  BY DEF Quiet, storageVars
<1>2. BridgeShape' /\ CapturedInv' /\ bridge'.manifest = NoCopy
  <2>1. bridge.known \in Publications \cup {NoCopy}
    BY DEF ModelShape, BridgeShape
  <2> QED
    BY <2>1, RestIs
<1>3. redis' \in Manifests \cup {NoCopy} /\ (redis' # NoCopy => Held(redis'))
  BY DEF ModelShape, BridgeShape, HeldInv
<1> QED
  BY <1>1, <1>2, <1>3, BridgeQuiet DEF ModelShape, HeldInv

LEMMA ForgetKeeps ==
  ASSUME ModelAssumption, ModelInv, BridgeCrashes \/ RedisForgets PROVE ModelInv'
<1> USE DEF ModelInv
<1>1. CASE BridgeCrashes
  <2>1. Quiet /\ UNCHANGED <<queryVars, postgres, redis>> /\ modelFaults' \in 0..MaxModelFaults
    BY <1>1 DEF BridgeCrashes, Quiet, storageVars, ModelFault, ModelShape, ModelAssumption
  <2>2. bridge' = [Rest EXCEPT !.known = NoCopy]
    BY <1>1 DEF BridgeCrashes, Rest
  <2>3. BridgeShape' /\ CapturedInv' /\ bridge'.manifest = NoCopy
    BY <2>2, RestIs
  <2> QED
    BY <2>1, <2>3, BridgeQuiet DEF ModelShape, HeldInv
<1>2. CASE RedisForgets
  <2>1. Quiet /\ UNCHANGED <<queryVars, postgres, bridge, modelFaults>> /\ redis' = NoCopy
    BY <1>2 DEF RedisForgets, Quiet, storageVars
  <2>2. BridgeShape' /\ CapturedInv'
    BY <2>1 DEF ModelShape, BridgeShape, CapturedInv, HeldSince, Quiet
  <2> QED
    BY <2>1, <2>2, BridgeQuiet DEF ModelShape, HeldInv
<1> QED
  BY <1>1, <1>2

-----------------------------------------------------------------------------
\* A query process: what it keeps is held, and so is what it answers.
LEMMA QueryQuiet ==
  ASSUME ModelAssumption, ModelInv, Quiet, UNCHANGED <<bridge, postgres, redis, modelFaults>>,
         CacheShape', RefreshShape', waiting' \in BOOLEAN, ServedInv',
         cached' # NoCopy /\ cached'.shared => Held(Manifest(cached'.publication, cached'.verifiedAt)),
         refresh' # NoCopy => Held(refresh'.manifest)
  PROVE  ModelInv'
<1> USE DEF ModelInv
<1>1. HistoryInv'
  BY QuietKeeps
<1>2. ModelShape'
  BY DEF Quiet, ModelShape, BridgeShape
<1>3. CapturedInv'
  BY DEF CapturedInv, HeldSince, Quiet
<1>4. HeldInv'
  <2>1. (postgres # NoCopy => Held(postgres))' /\ (redis # NoCopy => Held(redis))'
    BY DEF Quiet, Held, HeldSince, HeldInv
  <2>2. (bridge.manifest # NoCopy => Held(bridge.manifest))'
    BY DEF Quiet, Held, HeldSince, HeldInv
  <2>3. (cached # NoCopy /\ cached.shared => Held(Manifest(cached.publication, cached.verifiedAt)))'
    BY DEF Quiet, Held, HeldSince
  <2>4. (refresh # NoCopy => Held(refresh.manifest))'
    BY DEF Quiet, Held, HeldSince
  <2> QED
    BY <2>1, <2>2, <2>3, <2>4 DEF HeldInv
<1> QED
  BY <1>1, <1>2, <1>3, <1>4

LEMMA ReadStorageIs ==
  ASSUME ModelAssumption, ModelInv, ReadStorage
  PROVE  /\ CacheShape' /\ ServedInv'
         /\ cached' # NoCopy /\ cached'.shared => Held(Manifest(cached'.publication, cached'.verifiedAt))
<1>1. cached' = [publication |-> source, shared |-> FALSE, verifiedAt |-> NeverLeft] /\ Answer(source)
  BY DEF ReadStorage
<1>2. CacheShape' /\ ~cached'.shared
  BY <1>1 DEF ModelInv, ModelShape, CacheShape, NeverLeft, ModelAssumption
<1>3. ServedInv'
  BY <1>1, StorageAnswerIs DEF ModelInv
<1> QED
  BY <1>2, <1>3

LEMMA PreparedIs ==
  ASSUME ModelAssumption, NEW m \in Manifests, Held(m), cached' = Prepared(m)
  PROVE  /\ CacheShape'
         /\ cached' # NoCopy /\ cached'.shared => Held(Manifest(cached'.publication, cached'.verifiedAt))
<1>1. cached' = [publication |-> m.publication, shared |-> TRUE, verifiedAt |-> m.checkedAt]
  BY DEF Prepared
<1>2. m.publication \in Publications /\ m.checkedAt \in 0..MaxModelClock
  BY DEF Manifests
<1>3. CacheShape'
  BY <1>1, <1>2 DEF CacheShape, ModelAssumption
<1> QED
  BY <1>1, <1>3 DEF Held, Manifest

LEMMA RequestKeeps == ASSUME ModelAssumption, ModelInv, Request PROVE ModelInv'
<1> USE DEF ModelInv
<1>1. Quiet /\ UNCHANGED <<bridge, postgres, redis, modelFaults>>
  BY DEF Request, Quiet, storageVars
<1>2. CASE ReadStorage /\ UNCHANGED <<waiting, refresh>>
  <2>1. RefreshShape' /\ waiting' \in BOOLEAN /\ (refresh' # NoCopy => Held(refresh'.manifest))
    BY <1>2 DEF ModelShape, RefreshShape, HeldInv
  <2> QED
    BY <1>1, <1>2, <2>1, ReadStorageIs, QueryQuiet
<1>3. ASSUME NEW m \in Found,
             \/ /\ cached # NoCopy /\ cached.shared /\ cached.publication = m.publication
                /\ cached' = Prepared(m) /\ Answer(m.publication) /\ UNCHANGED <<waiting, refresh>>
             \/ /\ cached # NoCopy /\ cached.shared => cached.publication # m.publication
                /\ refresh' = IF refresh = NoCopy
                              THEN [manifest |-> m, pc |-> "body", started |-> modelClock] ELSE refresh
                /\ UNCHANGED cached
                /\ IF CanFinishPrevious(m, refresh'.started)
                   THEN Answer(cached.publication) /\ UNCHANGED waiting
                   ELSE waiting' = TRUE /\ UNCHANGED served
      PROVE  ModelInv'
  <2>1. m \in Manifests /\ Held(m) /\ modelClock - m.checkedAt <= MaxVerifiedAge
    BY DEF Found, UsableManifest, Valid, ModelShape, HeldInv
  <2>2. m.publication \in Publications /\ m.checkedAt \in Int
    BY <2>1 DEF Manifests
  <2>3. CASE cached' = Prepared(m) /\ Answer(m.publication) /\ UNCHANGED <<waiting, refresh>>
    <3>1. ServedInv'
      BY <2>1, <2>2, <2>3, AnswerIs DEF Held
    <3>2. RefreshShape' /\ waiting' \in BOOLEAN /\ (refresh' # NoCopy => Held(refresh'.manifest))
      BY <2>3 DEF ModelShape, RefreshShape, HeldInv
    <3> QED
      BY <1>1, <2>1, <2>3, <3>1, <3>2, PreparedIs, QueryQuiet
  <2>4. CASE /\ refresh' = IF refresh = NoCopy
                           THEN [manifest |-> m, pc |-> "body", started |-> modelClock] ELSE refresh
             /\ UNCHANGED cached
             /\ IF CanFinishPrevious(m, refresh'.started)
                THEN Answer(cached.publication) /\ UNCHANGED waiting
                ELSE waiting' = TRUE /\ UNCHANGED served
    <3>1. RefreshShape' /\ (refresh' # NoCopy => Held(refresh'.manifest))
      <4>1. CASE refresh = NoCopy
        <5>1. refresh' = [manifest |-> m, pc |-> "body", started |-> modelClock]
          BY <2>4, <4>1
        <5>2. modelClock \in 0..MaxModelClock
          BY DEF ModelShape
        <5> QED
          BY <2>1, <5>1, <5>2 DEF RefreshShape
      <4>2. CASE refresh # NoCopy
        BY <2>4, <4>2 DEF ModelShape, RefreshShape, HeldInv
      <4> QED
        BY <4>1, <4>2
    <3>2. CacheShape' /\ (cached' # NoCopy /\ cached'.shared =>
                            Held(Manifest(cached'.publication, cached'.verifiedAt)))
      BY <2>4 DEF ModelShape, CacheShape, HeldInv
    <3>3. waiting' \in BOOLEAN
      BY <2>4 DEF ModelShape
    <3>4. ServedInv'
      <4>1. CASE CanFinishPrevious(m, refresh'.started)
        <5>1. /\ Answer(cached.publication) /\ cached # NoCopy /\ cached.shared
              /\ modelClock - cached.verifiedAt <= MaxVerifiedAge
          BY <2>4, <4>1 DEF CanFinishPrevious
        <5>2. cached.publication \in Publications /\ cached.verifiedAt \in Int
          BY <5>1 DEF ModelShape, CacheShape, ModelAssumption
        <5>3. cached.verifiedAt <= modelClock /\ HeldSince(cached.publication, cached.verifiedAt - SlowRead)
          BY <5>1 DEF HeldInv, Held, Manifest
        <5> QED
          BY <5>1, <5>2, <5>3, AnswerIs
      <4>2. CASE ~CanFinishPrevious(m, refresh'.started)
        BY <2>4, <4>2 DEF ServedInv
      <4> QED
        BY <4>1, <4>2
    <3> QED
      BY <1>1, <3>1, <3>2, <3>3, <3>4, QueryQuiet
  <2> QED
    BY <1>3, <2>3, <2>4
<1> QED
  BY <1>2, <1>3 DEF Request

LEMMA NoSharedKeeps ==
  ASSUME ModelAssumption, ModelInv, NoShared, Quiet, UNCHANGED <<bridge, postgres, redis, modelFaults>>
  PROVE  ModelInv'
<1>1. refresh' = NoCopy /\ waiting' = FALSE
  BY DEF NoShared
<1>2. RefreshShape' /\ waiting' \in BOOLEAN
  BY <1>1 DEF RefreshShape
<1>3. CASE waiting
  BY <1>1, <1>2, <1>3, ReadStorageIs, QueryQuiet DEF NoShared
<1>4. CASE ~waiting
  <2>1. UNCHANGED <<cached, served>>
    BY <1>4 DEF NoShared
  <2>2. CacheShape' /\ ServedInv' /\ (cached' # NoCopy /\ cached'.shared =>
                                        Held(Manifest(cached'.publication, cached'.verifiedAt)))
    BY <2>1 DEF ModelInv, ModelShape, CacheShape, ServedInv, HeldInv
  <2> QED
    BY <1>1, <1>2, <2>2, QueryQuiet
<1> QED
  BY <1>3, <1>4

LEMMA FetchKeeps == ASSUME ModelAssumption, ModelInv, FetchBody PROVE ModelInv'
<1>1. Quiet /\ UNCHANGED <<bridge, postgres, redis, modelFaults>>
  BY DEF FetchBody, Quiet, storageVars
<1>2. CASE NoShared
  BY <1>1, <1>2, NoSharedKeeps
<1>3. CASE refresh' = [refresh EXCEPT !.pc = "prepare"] /\ UNCHANGED <<cached, waiting, served>>
  <2>1. refresh # NoCopy
    BY DEF FetchBody
  <2>2. refresh \in [manifest : Manifests, pc : {"body", "prepare"}, started : 0..MaxModelClock] /\ Held(refresh.manifest)
    BY <2>1 DEF ModelInv, ModelShape, RefreshShape, HeldInv
  <2>3. RefreshShape' /\ refresh'.manifest = refresh.manifest
    BY <1>3, <2>2 DEF RefreshShape
  <2>4. CacheShape' /\ ServedInv' /\ waiting' \in BOOLEAN
        /\ (cached' # NoCopy /\ cached'.shared => Held(Manifest(cached'.publication, cached'.verifiedAt)))
    BY <1>3 DEF ModelInv, ModelShape, CacheShape, ServedInv, HeldInv
  <2> QED
    BY <1>1, <2>2, <2>3, <2>4, QueryQuiet
<1> QED
  BY <1>2, <1>3 DEF FetchBody

LEMMA FinishKeeps == ASSUME ModelAssumption, ModelInv, FinishRefresh PROVE ModelInv'
<1>1. Quiet /\ UNCHANGED <<bridge, postgres, redis, modelFaults>>
  BY DEF FinishRefresh, Quiet, storageVars
<1>2. CASE ~StillValid(refresh.manifest)
  BY <1>1, <1>2, NoSharedKeeps DEF FinishRefresh
<1>3. CASE StillValid(refresh.manifest)
  <2> DEFINE m == refresh.manifest
  <2>1. refresh # NoCopy
    BY DEF FinishRefresh
  <2>2. m \in Manifests /\ Held(m)
    BY <2>1 DEF ModelInv, ModelShape, RefreshShape, HeldInv
  <2>3. cached' = Prepared(m) /\ refresh' = NoCopy /\ waiting' = FALSE
        /\ IF waiting THEN Answer(m.publication) ELSE UNCHANGED served
    BY <1>3 DEF FinishRefresh
  <2>4. m.publication \in Publications /\ m.checkedAt \in Int
    BY <2>2 DEF Manifests
  <2>5. modelClock - m.checkedAt <= MaxVerifiedAge
    BY <1>3, <2>2 DEF StillValid, Valid, ModelAssumption
  <2> HIDE DEF m
  <2>6. ServedInv'
    <3>1. CASE waiting
      <4>1. m.checkedAt <= modelClock /\ HeldSince(m.publication, m.checkedAt - SlowRead)
        BY <2>2 DEF Held
      <4>2. Answer(m.publication)
        BY <2>3, <3>1
      <4> QED
        BY <2>4, <2>5, <4>1, <4>2, AnswerIs DEF ModelInv
    <3>2. CASE ~waiting
      BY <2>3, <3>2 DEF ModelInv, ServedInv
    <3> QED
      BY <3>1, <3>2
  <2>7. RefreshShape' /\ waiting' \in BOOLEAN
    BY <2>3 DEF RefreshShape
  <2> QED
    BY <1>1, <2>2, <2>3, <2>6, <2>7, PreparedIs, QueryQuiet
<1> QED
  BY <1>2, <1>3

LEMMA EvictedKeeps == ASSUME ModelAssumption, ModelInv, Evicted PROVE ModelInv'
<1>1. Quiet /\ UNCHANGED <<bridge, postgres, redis, modelFaults, waiting, refresh, served>> /\ cached' = NoCopy
  BY DEF Evicted, Quiet, storageVars
<1>2. CacheShape' /\ RefreshShape' /\ waiting' \in BOOLEAN /\ ServedInv' /\ (refresh' # NoCopy => Held(refresh'.manifest))
  BY <1>1 DEF ModelInv, ModelShape, CacheShape, RefreshShape, ServedInv, HeldInv
<1> QED
  BY <1>1, <1>2, QueryQuiet

LEMMA ModelStep == ASSUME ModelAssumption, ModelInv, [ModelNext]_modelVars PROVE ModelInv'
<1>1. CASE UNCHANGED modelVars
  BY <1>1 DEF modelVars, storageVars, queryVars, ModelInv, ModelShape, BridgeShape, CacheShape, RefreshShape,
     HistoryInv, Gone, CapturedInv, HeldSince, HeldInv, Held, ServedInv
<1>2. CASE ModelNext
  BY <1>2, ModelTickKeeps, NewRevisionKeeps, NewDatabaseKeeps, CaptureKeeps, StampKeeps, CommitKeepsModel,
     TurnFailsKeeps, CacheRedisKeeps, ForgetKeeps, RequestKeeps, FetchKeeps, FinishKeeps, EvictedKeeps
  DEF ModelNext
<1> QED
  BY <1>1, <1>2

\* read_projection_json and the bridge: whatever is cached, prepared, renewed or
\* replaced on the way, every copy was in storage at its time of verification,
\* but for a read, and no answer is older than a verification may be.
THEOREM AnswersAreVerified == ASSUME ModelAssumption PROVE ModelSpec => []AnswersVerified
<1>1. ModelInv => AnswersVerified
  <2> SUFFICES ASSUME ModelInv PROVE AnswersVerified
    OBVIOUS
  <2>1. ASSUME NEW m \in Copies
        PROVE  m.publication \in Publications /\ m.checkedAt \in Int /\ Held(m)
    BY <2>1 DEF Copies, ModelInv, ModelShape, BridgeShape, CacheShape, RefreshShape, HeldInv, Manifests, Manifest, ModelAssumption
  <2>2. \A m \in Copies : m.checkedAt - SlowRead <= modelClock - Age(m.publication)
    BY <2>1, HeldIs DEF Held, ModelInv
  <2> QED
    BY <2>2 DEF AnswersVerified, ModelInv, ServedInv
<1> QED
  BY <1>1, ModelBegins, ModelStep, PTL DEF ModelSpec

\* Type invariant of storage, bridge, copies and query process.
THEOREM ModelTypes == ASSUME ModelAssumption PROVE ModelSpec => []ModelTypeOK
<1>1. ModelInv => ModelTypeOK
  BY DEF ModelInv, ModelShape, BridgeShape, CacheShape, RefreshShape, ServedInv, ModelTypeOK, Phases
<1> QED
  BY <1>1, ModelBegins, ModelStep, PTL DEF ModelSpec
=============================================================================
