------------------------------ MODULE Projection ------------------------------
(***************************************************************************)
(* Publication of the dashboard projection (realtime_projection.py,        *)
(* projection_facts.py): facts and their change_outbox, publishers that    *)
(* build from a consistent read and publish with a short compare-and-write *)
(* transaction, the journal of projection deltas, retention of the outbox, *)
(* and the derived views recomputed from projection_dirty.                 *)
(*                                                                         *)
(* A fact is its version.  The body of a publication is the version of     *)
(* every fact the dashboard shows; trades and candles ("tape") are in the  *)
(* outbox and not in the body.                                             *)
(***************************************************************************)
EXTENDS Integers, Sequences, FiniteSets, SequencesExt, FiniteSetsExt

CONSTANTS
  View,           \* facts a dashboard shows
  Tape,           \* trades and candles: direct stream events, no dashboard rows
  Publishers,     \* processes that may run projection_tick
  OutboxOverlap,  \* consumed outbox ids kept (1000)
  Nothing,
  MaxChanges,     \* bound: committed fact changes
  MaxExpiry,      \* bound: publications after which none expires any more
  MaxTruncate,    \* bound: outbox truncations by maintenance or recovery
  MaxTickFaults   \* bound: failed or unconfirmed commits, crashes, failed turns

VARIABLES
  facts,          \* committed version of every fact
  log,            \* history: fact of every outbox id ever committed, with its version
  changeOutbox,   \* ids in change_outbox
  events,         \* realtime_events: [kind, ...] at each id
  row,            \* dashboard_projection
  bodies,         \* history: the body of each revision
  builds,         \* publications so far; stands for built_at
  memory,         \* _committed_projection and _committed_facts of each process
  work,           \* what _projection_tick_once holds between its two transactions
  dirty,          \* projection_dirty: generation of each token, or Nothing
  derived,        \* version each derived view was computed from
  turn,           \* what refresh_derived holds between its three steps
  truncations, tickFaults

sourceVars == <<facts, log, changeOutbox>>
rowVars == <<row, bodies, builds>>
derivedVars == <<dirty, derived, turn>>
publicationVars ==
  <<sourceVars, events, rowVars, memory, work, derivedVars, truncations, tickFaults>>

Facts == View \cup Tape
Bodies == [View -> 0..MaxChanges]
NoMemory == [stamp |-> Nothing, body |-> Nothing, input |-> Nothing, facts |-> Nothing]
NoTurn == [seen |-> <<>>, data |-> Nothing]

Newest(S) == IF S = {} THEN 0 ELSE Max(S)

Rows == [revision : Nat, cursor : Nat, input : 0..MaxChanges, built : Nat, body : Bodies]

ProjectionAssumption ==
  /\ View \cap Tape = {}
  /\ Nothing \notin Nat \cup Bodies \cup Rows \cup (Nat \X Nat \X Nat)
  /\ OutboxOverlap \in Nat \ {0} /\ MaxChanges \in Nat /\ MaxExpiry \in Nat
  /\ MaxTruncate \in Nat /\ MaxTickFaults \in Nat

Input(r) == IF r = Nothing THEN 0 ELSE r.input
\* The body of a publication is identified by revision, cursor and built_at.
Stamp(r) == <<r.revision, r.cursor, r.built>>

PublicationTypeOK ==
  /\ facts \in [Facts -> 0..MaxChanges]
  /\ log \in Seq([fact : Facts, version : 1..MaxChanges])
  /\ changeOutbox \subseteq 1..Len(log)
  /\ row \in Rows \cup {Nothing}
  /\ Len(bodies) = (IF row = Nothing THEN 0 ELSE row.revision)
  /\ \A i \in 1..Len(bodies) : bodies[i] \in Bodies
  /\ builds \in Nat
  /\ DOMAIN memory = Publishers /\ DOMAIN work = Publishers
  /\ \A p \in Publishers : memory[p].body \in Bodies \cup {Nothing}
                        /\ memory[p].facts \in Bodies \cup {Nothing}
  /\ dirty \in [View -> 0..MaxChanges \cup {Nothing}]
  /\ derived \in Bodies
  /\ truncations \in 0..MaxTruncate /\ tickFaults \in 0..MaxTickFaults

PublicationInit ==
  /\ facts = [f \in Facts |-> 0] /\ log = <<>> /\ changeOutbox = {} /\ events = <<>>
  /\ row = Nothing /\ bodies = <<>> /\ builds = 0
  /\ memory = [p \in Publishers |-> NoMemory] /\ work = [p \in Publishers |-> Nothing]
  /\ dirty = [f \in View |-> Nothing] /\ derived = [f \in View |-> 0] /\ turn = NoTurn
  /\ truncations = 0 /\ tickFaults = 0

-----------------------------------------------------------------------------
(* Collectors and maintenance of the outbox.                                *)

\* A collector's transaction changes a fact; the trigger appends to the outbox
\* and enqueue_event to the journal before it commits.
ChangeFact(f) ==
  /\ Len(log) < MaxChanges
  /\ facts' = [facts EXCEPT ![f] = @ + 1]
  /\ log' = Append(log, [fact |-> f, version |-> facts[f] + 1])
  /\ changeOutbox' = changeOutbox \cup {Len(log) + 1}
  /\ events' = Append(events, [kind |-> "fact", fact |-> f, version |-> facts[f] + 1])
  /\ UNCHANGED <<rowVars, memory, work, derivedVars, truncations, tickFaults>>

\* prune_consumed_outbox: a batch, lowest ids first, of the rows consumed by a
\* committed publication but for the newest Overlap of them.
PruneConsumed ==
  /\ row # Nothing
  /\ \E n \in changeOutbox :
       /\ n <= row.input - OutboxOverlap
       /\ changeOutbox' = {i \in changeOutbox : i > n}
  /\ UNCHANGED <<facts, log, events, rowVars, memory, work, derivedVars, truncations, tickFaults>>

\* Maintenance or recovery outside this process removes unconsumed changes.
\* It finds a positive watermark: while that is 0, an emptied outbox cannot be
\* told from one never written to.
TruncateOutbox ==
  /\ truncations < MaxTruncate /\ truncations' = truncations + 1
  /\ Input(row) > 0
  /\ \E n \in changeOutbox : changeOutbox' = {i \in changeOutbox : i > n}
  /\ UNCHANGED <<facts, log, events, rowVars, memory, work, derivedVars, tickFaults>>

-----------------------------------------------------------------------------
(* _projection_tick_once.                                                   *)

Contiguous(r) ==
  /\ Input(r) <= Newest(changeOutbox)
  /\ changeOutbox = {} \/ \E i \in changeOutbox : i <= Input(r) + 1
Changes(r) == {log[i].fact : i \in {j \in changeOutbox : j > Input(r)}}

\* Mutant: parsed facts are kept although the outbox lost changes.
CaptureTrusting(p) ==
  IF memory[p].input = Input(row)
  THEN [f \in View |-> IF f \in Changes(row) THEN facts[f] ELSE memory[p].facts[f]]
  ELSE [f \in View |-> facts[f]]

\* ProjectionFacts.capture: the facts last published, with the changed ones
\* read again, if they belong to the row's input cursor and no change is
\* missing from the outbox; else every fact.
Capture(p) ==
  IF Contiguous(row) /\ memory[p].input = Input(row)
  THEN [f \in View |-> IF f \in Changes(row) THEN facts[f] ELSE memory[p].facts[f]]
  ELSE [f \in View |-> facts[f]]

\* The published body a delta starts from: remembered, or parsed again if the
\* row is not the one this process committed.
Previous(p) ==
  IF row = Nothing THEN Nothing
  ELSE IF memory[p].stamp = Stamp(row) THEN memory[p].body
  ELSE row.body

\* One read transaction: the row, the outbox, the journal's head and the facts.
\* `stale` says whether built_at is older than expiry_ms.
BeginTick(p) ==
  /\ work[p] = Nothing
  /\ \E stale \in IF builds < MaxExpiry THEN BOOLEAN ELSE {FALSE} :
       LET current == row # Nothing /\ Contiguous(row) /\ ~stale
       IN /\ ~(current /\ Newest(changeOutbox) <= Input(row))
          /\ work' = [work EXCEPT ![p] =
               [old |-> row, high |-> Newest(changeOutbox), cursor |-> Len(events),
                contiguous |-> Contiguous(row), changes |-> Changes(row),
                tapeOnly |-> current /\ Changes(row) # {} /\ Changes(row) \subseteq Tape,
                previous |-> Previous(p),
                payload |-> Capture(p)]]
  /\ UNCHANGED <<sourceVars, events, rowVars, memory, derivedVars, truncations, tickFaults>>

\* Mutant: the write transaction overwrites whatever was published meanwhile.
UnchangedBlind(w) == w # Nothing
UnchangedBase(w) == w # Nothing /\ row = w.old

\* A publication in another process came first: roll back and retry.
AbortTick(p) ==
  /\ work[p] # Nothing /\ ~UnchangedBase(work[p])
  /\ work' = [work EXCEPT ![p] = Nothing]
  /\ UNCHANGED <<sourceVars, events, rowVars, memory, derivedVars, truncations, tickFaults>>

\* Only trades and candles changed: advance the input cursor, nothing else.
CommitTape(p) ==
  LET w == work[p]
  IN /\ UnchangedBase(w) /\ w.tapeOnly
     /\ row' = [row EXCEPT !.input = w.high]
     /\ memory' = [memory EXCEPT ![p].input = IF @ = Input(w.old) THEN w.high ELSE @]
     /\ work' = [work EXCEPT ![p] = Nothing]
     /\ UNCHANGED <<sourceVars, events, bodies, builds, derivedVars, truncations, tickFaults>>

Affected(w) == IF w.previous = Nothing THEN View ELSE {f \in View : w.previous[f] # w.payload[f]}

\* Mutant: a token already waiting keeps its older generation.
QueuedOnce(f, generation) == IF dirty[f] = Nothing THEN generation ELSE dirty[f]
\* _queue_derived: generation = MAX(generation, excluded.generation).
QueuedAt(f, generation) ==
  IF dirty[f] = Nothing \/ dirty[f] < generation THEN generation ELSE dirty[f]

\* The delta is appended in the transaction that replaces the row.  Changes
\* that only matter to other pages (invalidations) publish a revision as well.
WritePublication(w) ==
  \E invalidating \in (IF w.changes \cap View # {} THEN BOOLEAN ELSE {~w.contiguous}) :
    LET changed == w.previous # w.payload \/ invalidating
        base == IF w.old = Nothing THEN 0 ELSE w.old.revision
        revision == IF changed THEN base + 1 ELSE base
    IN /\ builds' = builds + 1
       /\ row' = [revision |-> revision, cursor |-> w.cursor, input |-> w.high,
                  built |-> builds + 1, body |-> w.payload]
       /\ IF changed
          THEN /\ events' = Append(events, [kind |-> "delta", base |-> base,
                      edits |-> {f \in View : w.previous = Nothing \/ w.previous[f] # w.payload[f]},
                      body |-> w.payload])
               /\ bodies' = Append(bodies, w.payload)
          ELSE UNCHANGED <<events, bodies>>
       /\ dirty' = [f \in View |-> IF f \in Affected(w) THEN QueuedAt(f, w.high) ELSE dirty[f]]

\* Commit, then remember what was committed.
CommitTick(p) ==
  LET w == work[p]
  IN /\ UnchangedBase(w) /\ ~w.tapeOnly
     /\ WritePublication(w)
     /\ memory' = [memory EXCEPT ![p] = [stamp |-> Stamp(row'), body |-> w.payload,
                                         input |-> w.high, facts |-> w.payload]]
     /\ work' = [work EXCEPT ![p] = Nothing]
     /\ UNCHANGED <<sourceVars, derived, turn, truncations, tickFaults>>

TickFault == tickFaults < MaxTickFaults /\ tickFaults' = tickFaults + 1

\* The database committed and the process never learnt it.
CommitUnconfirmed(p) ==
  LET w == work[p]
  IN /\ TickFault
     /\ UnchangedBase(w) /\ ~w.tapeOnly
     /\ WritePublication(w)
     /\ work' = [work EXCEPT ![p] = Nothing]
     /\ UNCHANGED <<sourceVars, memory, derived, turn, truncations>>

\* A write that failed and rolled back, or a turn cut by its time limit.
FailTick(p) ==
  /\ TickFault
  /\ work[p] # Nothing
  /\ work' = [work EXCEPT ![p] = Nothing]
  /\ UNCHANGED <<sourceVars, events, rowVars, memory, derivedVars, truncations>>

\* The process restarts with empty caches.
Restart(p) ==
  /\ TickFault
  /\ work' = [work EXCEPT ![p] = Nothing]
  /\ memory' = [memory EXCEPT ![p] = NoMemory]
  /\ UNCHANGED <<sourceVars, events, rowVars, derivedVars, truncations>>

-----------------------------------------------------------------------------
(* refresh_derived.                                                         *)

\* Select a bounded batch of dirty tokens, oldest generation first.
BeginDerive ==
  /\ turn = NoTurn
  /\ \E f \in View :
       /\ dirty[f] # Nothing
       /\ \A g \in View : dirty[g] # Nothing => dirty[f] <= dirty[g]
       /\ turn' = [seen |-> <<f, dirty[f]>>, data |-> Nothing]
  /\ UNCHANGED <<sourceVars, events, rowVars, memory, work, dirty, derived, truncations, tickFaults>>

\* DashboardData().reload(): the facts as they are now.
ReadDerive ==
  /\ turn.seen # <<>> /\ turn.data = Nothing
  /\ turn' = [turn EXCEPT !.data = facts[turn.seen[1]]]
  /\ UNCHANGED <<sourceVars, events, rowVars, memory, work, dirty, derived, truncations, tickFaults>>

\* Mutant: the acknowledged token is deleted whatever its generation.
ClearedAlways(f, generation) == TRUE
\* DELETE ... WHERE generation <= the generation this turn selected.
Cleared(f, generation) == dirty[f] # Nothing /\ dirty[f] <= generation

\* The derived views are written, then the token is acknowledged.
AckDerive ==
  /\ turn.data # Nothing
  /\ LET f == turn.seen[1]
     IN /\ derived' = [derived EXCEPT ![f] = turn.data]
        /\ dirty' = [dirty EXCEPT ![f] = IF Cleared(f, turn.seen[2]) THEN Nothing ELSE @]
  /\ turn' = NoTurn
  /\ UNCHANGED <<sourceVars, events, rowVars, memory, work, truncations, tickFaults>>

FailDerive ==
  /\ TickFault
  /\ turn # NoTurn
  /\ turn' = NoTurn
  /\ UNCHANGED <<sourceVars, events, rowVars, memory, work, dirty, derived, truncations>>

-----------------------------------------------------------------------------
ProjectionTick(p) == BeginTick(p) \/ AbortTick(p) \/ CommitTape(p) \/ CommitTick(p)
Derive == BeginDerive \/ ReadDerive \/ AckDerive

PublicationNext ==
  \/ \E f \in Facts : ChangeFact(f)
  \/ PruneConsumed \/ TruncateOutbox
  \/ \E p \in Publishers : ProjectionTick(p) \/ CommitUnconfirmed(p) \/ FailTick(p) \/ Restart(p)
  \/ Derive \/ FailDerive

PublicationSpec == PublicationInit /\ [][PublicationNext]_publicationVars

\* spawn_loop repeats both jobs for ever; collectors, maintenance and faults
\* need not act.
PublicationLiveSpec ==
  PublicationSpec /\ WF_publicationVars(Derive)
  /\ \A p \in Publishers : WF_publicationVars(ProjectionTick(p))

-----------------------------------------------------------------------------
(* Properties.                                                              *)

\* A publication shows the fact of every change in ids.
Shows(body, ids) ==
  \A i \in ids : log[i].fact \in View => body[log[i].fact] >= log[i].version
\* The same for events of the journal.
ShowsEvents(body, ids) ==
  \A i \in ids : events[i].kind = "fact" /\ events[i].fact \in View
                   => body[events[i].fact] >= events[i].version

\* A publication shows every change at or below its input cursor and the fact
\* of every journal event at or below its cursor: a browser that replays from
\* that cursor misses nothing, whatever was written while it was built.  The
\* exception is an input cursor that is 0 again after a truncation: a process
\* may then reuse what it parsed under the first cursor 0.
BodyCoversCursors ==
  row # Nothing =>
    /\ Shows(row.body, 1..row.input)
    /\ row.input > 0 \/ truncations = 0 => ShowsEvents(row.body, 1..row.cursor)

\* Each delta in the journal leads from the revision it names as its base to
\* the next one exactly; every revision has its delta, and they are in order.
DeltaAt(i) ==
  LET delta == events[i]
  IN /\ delta.base + 1 \in 1..Len(bodies)
     /\ \A f \in View : bodies[delta.base + 1][f] =
          IF f \in delta.edits THEN delta.body[f] ELSE bodies[delta.base][f]
Deltas == {i \in 1..Len(events) : events[i].kind = "delta"}
DeltaChain ==
  /\ \A i \in Deltas : DeltaAt(i)
  /\ \A r \in 1..Len(bodies) : \E i \in Deltas : events[i].base = r - 1
  /\ \A i, j \in Deltas : i < j => events[i].base < events[j].base

\* A token that is not waiting in projection_dirty was derived from data at
\* least as new as what the dashboard shows, as long as no change was removed
\* from the outbox unread (a truncation lowers the watermark that generations
\* are made of, and an acknowledgement may then erase a newer token).
DerivedNotBehindWhole ==
  truncations = 0 /\ row # Nothing =>
    \A f \in View : dirty[f] = Nothing => derived[f] >= row.body[f]

\* What a publication promises its readers: it covers its cursors, the deltas
\* chain, and no derived view is left behind it.
PublicationSound == BodyCoversCursors /\ DeltaChain /\ DerivedNotBehindWhole

\* Every change of a fact reaches the dashboard and its derived view.
ChangesArrive ==
  \A f \in View, v \in 1..MaxChanges :
    facts[f] >= v ~> (row # Nothing /\ row.body[f] >= v /\ derived[f] >= v)

=============================================================================
