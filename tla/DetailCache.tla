----------------------------- MODULE DetailCache -----------------------------
(***************************************************************************)
(* The shared read model of one API process (state.py): DashboardData is   *)
(* reloaded from one read snapshot, incrementally over a cached fact view, *)
(* while other processes write facts, retention removes outbox rows, the   *)
(* database is reopened and the event tailer invalidates what was read.    *)
(***************************************************************************)
EXTENDS Integers, FiniteSets, FiniteSetsExt

CONSTANTS
  Items,          \* facts
  None,
  MaxWrites,      \* bound: writes of facts
  MaxReopens,     \* bound: replacements of the database
  MaxInvalidates  \* bound: projection.delta events

ASSUME CacheAssumption ==
  MaxWrites \in Nat /\ MaxReopens \in Nat /\ MaxInvalidates \in Nat

VARIABLES
  content,    \* facts: the write that made the body of each item
  outbox,     \* change_outbox
  lastId,     \* its AUTOINCREMENT
  database,   \* identity of the connection and file
  shared,     \* _shared_fact_cache, or None
  data,       \* DATA, as its facts
  current,    \* _loaded_at is recent
  generation, \* _invalidate_generation
  announced,  \* content when the latest event was announced
  task        \* _reload_task, or None

factVars == <<content, outbox, lastId, database>>
cacheVars == <<factVars, shared, data, current, generation, announced, task>>

\* A write is numbered by its database and its outbox row.
Never == <<0, 0>>
Writes == {Never} \cup ((0..MaxReopens) \X (1..MaxWrites))

CacheTypeOK ==
  /\ content \in [Items -> Writes] /\ data \in [Items -> Writes] /\ announced \in [Items -> Writes]
  /\ lastId \in 0..MaxWrites /\ database \in 0..MaxReopens
  /\ \A e \in outbox : e.id \in 1..lastId /\ e.item \in Items
  /\ shared # None => shared.cursor \in 0..MaxWrites /\ shared.database \in 0..database
  /\ current \in BOOLEAN /\ generation \in 0..MaxInvalidates
  /\ task # None => task.generation \in 0..generation /\ task.facts \in [Items -> Writes] \cup {None}

CacheInit ==
  /\ content = [i \in Items |-> Never] /\ outbox = {} /\ lastId = 0 /\ database = 0
  /\ shared = None /\ data = [i \in Items |-> Never] /\ current = FALSE
  /\ generation = 0 /\ announced = content /\ task = None

-----------------------------------------------------------------------------
(* Other processes.                                                         *)

\* The trigger adds the change in the writer's transaction.
WriteFact(i) ==
  /\ lastId < MaxWrites
  /\ content' = [content EXCEPT ![i] = <<database, lastId + 1>>]
  /\ outbox' = outbox \cup {[id |-> lastId + 1, item |-> i]} /\ lastId' = lastId + 1
  /\ UNCHANGED <<database, shared, data, current, generation, announced, task>>

\* Retention follows the projection's cursor, not this process's; it keeps the
\* last rows.
PruneOutbox ==
  /\ \E e \in outbox : /\ e.id < lastId
                       /\ outbox' = {f \in outbox : f.id > e.id}
  /\ UNCHANGED <<content, lastId, database, shared, data, current, generation, announced, task>>

\* The database behind the path is another one (a restore): its content is
\* older or unknown and its outbox counts again from the start.
ReplaceDatabase ==
  /\ database < MaxReopens /\ task = None
  /\ database' = database + 1 /\ outbox' = {} /\ lastId' = 0
  /\ content' = [i \in Items |-> Never] /\ announced' = [i \in Items |-> Never]
  /\ current' = FALSE
  /\ UNCHANGED <<shared, data, generation, task>>

-----------------------------------------------------------------------------
(* Reloading.                                                               *)

High == IF outbox = {} THEN 0 ELSE Max({e.id : e \in outbox})

\* Mutant: the cached view is trusted whichever database it was read from.
ReusableAnywhere ==
  /\ shared # None
  /\ shared.cursor <= High
  /\ outbox # {} => Min({e.id : e \in outbox}) <= shared.cursor + 1
\* May the cached view be brought up to date from the outbox?
Reusable ==
  /\ shared # None /\ shared.database = database
  /\ shared.cursor <= High
  /\ outbox # {} => Min({e.id : e \in outbox}) <= shared.cursor + 1

\* ProjectionFacts.capture: changed items are read again, the rest is shared.
Captured ==
  LET changed == {e.item : e \in {f \in outbox : f.id > shared.cursor}}
  IN IF Reusable THEN [i \in Items |-> IF i \in changed THEN content[i] ELSE shared.facts[i]]
     ELSE content

\* reload_data: a running reload is joined, otherwise one is started.
StartReload ==
  /\ task = None
  /\ task' = [generation |-> generation, facts |-> None, cursor |-> 0]
  /\ UNCHANGED <<factVars, shared, data, current, generation, announced>>

\* _reload_shared_snapshot up to the rendering of DATA.
CaptureFacts ==
  /\ task # None /\ task.facts = None
  /\ task' = [task EXCEPT !.facts = Captured, !.cursor = High]
  /\ data' = Captured
  /\ UNCHANGED <<factVars, shared, current, generation, announced>>

\* Mutant: the snapshot counts as fresh whatever was announced meanwhile.
FreshAlways(t) == TRUE
FreshAfter(t) == t.generation = generation

PublishReload ==
  /\ task # None /\ task.facts # None
  /\ shared' = [database |-> database, cursor |-> task.cursor, facts |-> task.facts]
  /\ current' = FreshAfter(task)
  /\ task' = None
  /\ UNCHANGED <<factVars, data, generation, announced>>

\* The reload fails or is cancelled; the cached view stays the last good one.
FailReload ==
  /\ task # None /\ task' = None
  /\ UNCHANGED <<factVars, shared, data, current, generation, announced>>

\* The tailer announces a projection.delta, which other processes published.
Invalidate ==
  /\ generation < MaxInvalidates
  /\ generation' = generation + 1 /\ current' = FALSE /\ announced' = content
  /\ UNCHANGED <<factVars, shared, data, task>>

\* max_age passes.
Expire ==
  /\ current /\ current' = FALSE
  /\ UNCHANGED <<factVars, shared, data, generation, announced, task>>

CacheNext ==
  \/ \E i \in Items : WriteFact(i)
  \/ PruneOutbox \/ ReplaceDatabase
  \/ StartReload \/ CaptureFacts \/ PublishReload \/ FailReload
  \/ Invalidate \/ Expire

CacheSpec == CacheInit /\ [][CacheNext]_cacheVars

-----------------------------------------------------------------------------
(* Properties.                                                              *)

\* An incremental reload reads exactly what a full one would have read,
\* whatever retention, other processes and a replaced file did to the outbox.
CaptureExact ==
  [][(task # None /\ task' # None /\ task'.facts # task.facts) => task'.facts = content]_cacheVars

\* Data that counts as fresh is not older than the latest announced event: a
\* reload that was reading while the event came must not mark itself fresh.
FreshAfterEvent ==
  current => \A i \in Items : data[i] = announced[i] \/ (data[i][1] = database /\ data[i][2] > announced[i][2])

=============================================================================
