----------------------------- MODULE DemandLeases -----------------------------
(***************************************************************************)
(* Demand leases of one API process (demand_leases.py): request handlers   *)
(* put coalesced hints into a bounded map, one task flushes it to a        *)
(* sidecar database, collectors read the sidecar and, for one lease        *)
(* lifetime, what an older version left in the research database.          *)
(*                                                                         *)
(* A lease is its expiry time; time is counted in units of a lifetime.     *)
(***************************************************************************)
EXTENDS Integers, FiniteSets

CONSTANTS
  Keys,        \* leases: kind and id
  Lifetime,    \* of a lease, and LEGACY_WINDOW_MS
  BatchSize,   \* leases per flush
  MaxPending,  \* capacity of _pending
  MaxClock,    \* bound: time
  MaxFailures  \* bound: failing transactions, dying tasks, stops

ASSUME LeaseAssumption ==
  /\ Lifetime \in Nat \ {0} /\ MaxClock \in Nat \ {0} /\ MaxFailures \in Nat
  /\ BatchSize \in Nat \ {0} /\ MaxPending \in Nat /\ IsFiniteSet(Keys)

VARIABLES
  clock,
  pending,         \* _pending: the body of each key, 0 if it has none
  ahead,           \* _pending: the keys inserted before each key
  flush,           \* the _flush task: at its end, dead, asleep, or writing a batch
  rows, createdAt, \* the sidecar; 0 before its schema exists
  legacy,          \* leases in the research database
  failures

leaseVars == <<clock, pending, ahead, flush, rows, createdAt, legacy, failures>>

Times == 0..MaxClock + Lifetime
Off == [at |-> "off"]
Dead == [at |-> "dead"]
Sleeping == [at |-> "sleep"]
Alive(v) == v >= clock
Queued == {k \in Keys : pending[k] # 0}

LeaseTypeOK ==
  /\ clock \in 1..MaxClock /\ failures \in 0..MaxFailures
  /\ pending \in [Keys -> Times] /\ Cardinality(Queued) <= MaxPending
  /\ ahead \in [Keys -> SUBSET Queued] /\ \A k \in Keys : k \notin ahead[k]
  /\ flush.at \in {"off", "dead", "sleep", "write", "pop"}
  /\ rows \in [Keys -> Times] /\ createdAt \in 0..clock /\ legacy \in [Keys -> Times]

LeaseInit ==
  /\ clock = 1 /\ pending = [k \in Keys |-> 0] /\ ahead = [k \in Keys |-> {}] /\ flush = Off
  /\ rows = [k \in Keys |-> 0] /\ createdAt = 0
  /\ legacy = [k \in Keys |-> 0] /\ failures = 0

Tick ==
  /\ clock < MaxClock /\ clock' = clock + 1
  /\ UNCHANGED <<pending, ahead, flush, rows, createdAt, legacy, failures>>

\* An older version leaves leases in the research database until this one
\* takes over.
LegacyLease(k) ==
  /\ createdAt = 0
  /\ legacy' = [legacy EXCEPT ![k] = clock + Lifetime]
  /\ UNCHANGED <<clock, pending, ahead, flush, rows, createdAt, failures>>

\* publish_lease: coalesce, drop new keys while the map is full, keep one task.
PublishLease(k) ==
  /\ k \in Queued \/ Cardinality(Queued) < MaxPending
  /\ ahead' = IF k \in Queued THEN ahead ELSE [ahead EXCEPT ![k] = Queued]
  /\ pending' = [pending EXCEPT ![k] = clock + Lifetime]
  /\ flush' = IF flush \in {Off, Dead} THEN Sleeping ELSE flush
  /\ UNCHANGED <<clock, rows, createdAt, legacy, failures>>

-----------------------------------------------------------------------------
(* _flush.                                                                  *)

\* After its pause the task takes the oldest entries as they are now, as many
\* as a batch may have.
TakeBatch ==
  /\ flush = Sleeping
  /\ \E keys \in SUBSET Queued :
       /\ Cardinality(keys) <= BatchSize
       /\ keys = Queued \/ Cardinality(keys) = BatchSize
       /\ \A k \in keys : ahead[k] \subseteq keys
       /\ flush' = [at |-> "write", batch |-> [k \in keys |-> pending[k]]]
  /\ UNCHANGED <<clock, pending, ahead, rows, createdAt, legacy, failures>>

\* Mutant: leases are pruned the moment they expire.
LapsedNow(v, now) == v < now
Lapsed(v, now) == v < now - Lifetime

\* One transaction; leases that expired a window before the time it was begun
\* may be pruned with it.
CommitBatch ==
  /\ flush.at = "write"
  /\ LET stored == [k \in Keys |-> IF k \in DOMAIN flush.batch THEN flush.batch[k] ELSE rows[k]]
     IN \/ rows' = stored
        \/ \E now \in 1..clock :
             rows' = [k \in Keys |-> IF Lapsed(stored[k], now) THEN 0 ELSE stored[k]]
  /\ createdAt' = IF createdAt = 0 THEN clock ELSE createdAt
  /\ flush' = [flush EXCEPT !.at = "pop"]
  /\ UNCHANGED <<clock, pending, ahead, legacy, failures>>

\* OperationalError: before the commit, or after it while the connection closes.
BusyBatch ==
  /\ flush.at \in {"write", "pop"} /\ failures < MaxFailures /\ failures' = failures + 1
  /\ flush' = Sleeping
  /\ UNCHANGED <<clock, pending, ahead, rows, createdAt, legacy>>

\* Mutant: everything of the batch is dropped, newer values too.
DoneBlind(batch) == DOMAIN batch
\* Entries that were not replaced while the batch was written.
Done(batch) == {k \in DOMAIN batch : pending[k] = batch[k]}

PopBatch ==
  /\ flush.at = "pop"
  /\ LET done == Done(flush.batch)
     IN /\ pending' = [k \in Keys |-> IF k \in done THEN 0 ELSE pending[k]]
        /\ ahead' = [k \in Keys |-> IF k \in done THEN {} ELSE ahead[k] \ done]
        /\ flush' = IF Queued \subseteq done THEN Off ELSE Sleeping
  /\ UNCHANGED <<clock, rows, createdAt, legacy, failures>>

\* Any other exception ends the task; the next lease starts another one.
TaskDies ==
  /\ flush.at = "write" /\ failures < MaxFailures /\ failures' = failures + 1
  /\ flush' = Dead
  /\ UNCHANGED <<clock, pending, ahead, rows, createdAt, legacy>>

\* stop_lease_writer, or the process dies.
StopWriter ==
  /\ failures < MaxFailures /\ failures' = failures + 1
  /\ flush' = Dead /\ pending' = [k \in Keys |-> 0] /\ ahead' = [k \in Keys |-> {}]
  /\ UNCHANGED <<clock, rows, createdAt, legacy>>

Flush == TakeBatch \/ CommitBatch \/ PopBatch

LeaseNext ==
  \/ Tick
  \/ \E k \in Keys : LegacyLease(k) \/ PublishLease(k)
  \/ Flush \/ BusyBatch \/ TaskDies \/ StopWriter

LeaseFairness == WF_leaseVars(Flush)
LeaseSpec == LeaseInit /\ [][LeaseNext]_leaseVars
LeaseLiveSpec == LeaseSpec /\ LeaseFairness

-----------------------------------------------------------------------------
(* all_lease_kv.                                                            *)

\* Mutant: the overlap ends with the first lease of the new version.
OverlapOver == createdAt = 0
Overlap == createdAt = 0 \/ clock <= createdAt + Lifetime

Leases == [k \in Keys |-> IF Overlap /\ legacy[k] > rows[k] THEN legacy[k] ELSE rows[k]]

-----------------------------------------------------------------------------
(* Properties.                                                              *)

\* No live lease that either version stored is hidden from the collectors.
LiveLeaseSeen == \A k \in Keys : (Alive(rows[k]) \/ Alive(legacy[k])) =>
  Leases[k] >= rows[k] /\ Leases[k] >= legacy[k]

\* The task implements the coalescing writer: what it stores is never older
\* than what is stored, although batches are snapshots and may be repeated.
Coalesced == INSTANCE LatestValue WITH
  MaxValue <- MaxClock + Lifetime,
  lapsed <- IF clock > Lifetime THEN clock - Lifetime ELSE 0,
  latest <- [k \in Keys |-> IF pending[k] # 0 THEN pending[k] ELSE rows[k]],
  durable <- rows
ImplementsLatestValue == Coalesced!Spec

\* A running task stores every lease, however often the database was busy and
\* whatever else is published meanwhile.
LeaseStored == \A k \in Keys : \A v \in Times :
  (pending[k] = v /\ flush # Dead) ~> (rows[k] >= v \/ v < clock - Lifetime \/ flush = Dead)

=============================================================================
