------------------------------- MODULE LiveQueue -------------------------------
(***************************************************************************)
(* The bounded queue between the socket and process_log (collectors/        *)
(* chain_stream.py): pools somebody is watching go first, in bursts, a      *)
(* removal at the head of its pool goes before both, and an event whose     *)
(* processing failed is kept apart and taken again before any other.        *)
(***************************************************************************)
EXTENDS Integers, SequencesExt, FiniteSetsExt

CONSTANTS
  Pools,
  QueueMax,       \* self.queue
  BurstMax,       \* WATCHED_POOL_BURST
  NoEvent,
  MaxEvents,      \* bound: events of a pool
  MaxQueueFaults  \* bound: lost connections and failed events

VARIABLES
  link,     \* the socket: down, draining the old queue, or live
  queue,    \* self.queue: [pool, n, removed], n numbers a pool's events
  retry,    \* retry_event
  busy,     \* the event process_log is working on
  watched,  \* watched_pools
  burst,    \* watched_burst
  sent,     \* how many events of a pool the node has sent
  passed,   \* history: hot events taken in a row while a cold one was queued
  queueFaults

queueVars == <<link, queue, retry, busy, watched, burst, sent, passed, queueFaults>>

LiveEvents == [pool : Pools, n : 1..MaxEvents, removed : BOOLEAN]

ASSUME QueueAssumption ==
  QueueMax \in Nat /\ BurstMax \in Nat /\ MaxEvents \in Nat /\ NoEvent \notin LiveEvents

QueueTypeOK ==
  /\ link \in {"down", "draining", "live"}
  /\ queue \in Seq(LiveEvents) /\ Len(queue) <= QueueMax
  /\ {retry, busy} \subseteq LiveEvents \cup {NoEvent} /\ watched \subseteq Pools
  /\ burst \in Nat /\ passed \in Nat /\ sent \in [Pools -> 0..MaxEvents]

QueueInit ==
  /\ link = "live" /\ queue = <<>> /\ retry = NoEvent /\ busy = NoEvent
  /\ watched = {} /\ burst = 0 /\ passed = 0
  /\ sent = [p \in Pools |-> 0] /\ queueFaults = 0

\* Mutant: the queue takes one more.
RoomOver == Len(queue) <= QueueMax
Room == Len(queue) < QueueMax

\* reader: an event that finds the queue full closes the connection; what the
\* socket loses is left to the replay.
Arrive(p, removed) ==
  /\ link = "live" /\ sent[p] < MaxEvents
  /\ sent' = [sent EXCEPT ![p] = @ + 1]
  /\ IF Room
     THEN queue' = Append(queue, [pool |-> p, n |-> sent[p] + 1, removed |-> removed]) /\ UNCHANGED link
     ELSE link' = "down" /\ UNCHANGED queue
  /\ UNCHANGED <<retry, busy, watched, burst, passed, queueFaults>>

Disconnect ==
  /\ link # "down" /\ queueFaults < MaxQueueFaults /\ queueFaults' = queueFaults + 1 /\ link' = "down"
  /\ UNCHANGED <<queue, retry, busy, watched, burst, sent, passed>>

\* recover_live_queue: subscribe again when nothing old is left.
Connect ==
  /\ link = "down" /\ busy = NoEvent /\ link' = "draining"
  /\ UNCHANGED <<queue, retry, busy, watched, burst, sent, passed, queueFaults>>

Subscribe ==
  /\ link = "draining" /\ queue = <<>> /\ retry = NoEvent /\ busy = NoEvent /\ link' = "live"
  /\ UNCHANGED <<queue, retry, busy, watched, burst, sent, passed, queueFaults>>

RefreshWatches(pools) ==
  /\ watched' = pools /\ watched' # watched
  /\ UNCHANGED <<link, queue, retry, busy, burst, sent, passed, queueFaults>>

\* The oldest queued event of each pool, by position.
Heads == {i \in DOMAIN queue : \A j \in 1..i - 1 : queue[j].pool # queue[i].pool}
Hot(i) == queue[i].pool \in watched
Cold == {i \in Heads : ~Hot(i)}
FirstOf(S) == IF S = {} THEN 0 ELSE Min(S)

\* Mutant: a removal is looked for anywhere in the queue.
RemovalAnywhere == FirstOf({i \in DOMAIN queue : queue[i].removed})
\* Only a removal that no earlier event of its pool precedes.
Removal == FirstOf({i \in Heads : queue[i].removed})

\* A removal of a watched pool counts in the burst.
RemovalFirst(i) == ~Hot(i) \/ burst < BurstMax \/ Cold = {}

Selected ==
  IF watched = {} THEN 1
  ELSE IF Removal # 0 /\ RemovalFirst(Removal) THEN Removal
  ELSE IF burst >= BurstMax /\ Cold # {} THEN Min(Cold)
  ELSE IF Heads \ Cold # {} THEN Min(Heads \ Cold) ELSE 1

\* take_live_event and record_live_event
TakeLive ==
  /\ link # "down" /\ busy = NoEvent /\ retry = NoEvent /\ queue # <<>>
  /\ busy' = queue[Selected] /\ queue' = RemoveAt(queue, Selected)
  /\ burst' = IF Hot(Selected) THEN burst + 1 ELSE 0
  /\ passed' = IF ~Hot(Selected) THEN 0 ELSE IF Cold # {} THEN passed + 1 ELSE passed
  /\ UNCHANGED <<link, retry, watched, sent, queueFaults>>

TakeRetry ==
  /\ link # "down" /\ busy = NoEvent /\ retry # NoEvent
  /\ busy' = retry /\ retry' = NoEvent
  /\ UNCHANGED <<link, queue, watched, burst, sent, passed, queueFaults>>

\* process_queued
Processed ==
  /\ busy # NoEvent /\ busy' = NoEvent
  /\ UNCHANGED <<link, queue, retry, watched, burst, sent, passed, queueFaults>>

\* The failed head is kept apart: the reader may have filled its place.
FailLive ==
  /\ busy # NoEvent /\ queueFaults < MaxQueueFaults /\ queueFaults' = queueFaults + 1
  /\ retry' = busy /\ busy' = NoEvent /\ link' = "down"
  /\ UNCHANGED <<queue, watched, burst, sent, passed>>

QueueNext ==
  \/ \E p \in Pools, removed \in BOOLEAN : Arrive(p, removed)
  \/ \E pools \in SUBSET Pools : RefreshWatches(pools)
  \/ Disconnect \/ Connect \/ Subscribe
  \/ TakeLive \/ TakeRetry \/ Processed \/ FailLive

QueueSpec == QueueInit /\ [][QueueNext]_queueVars

-----------------------------------------------------------------------------
\* The events of one pool are processed in the order of their arrival, a failed
\* one again before its successors: a removal never overtakes the log it undoes,
\* whatever is watched and however often the socket breaks.
PoolOrder ==
  \A e \in {busy, retry} \ {NoEvent} : \A i \in DOMAIN queue :
    queue[i].pool = e.pool => queue[i].n > e.n

\* Watched pools do not starve the others: no cold event is passed over by more
\* than BurstMax hot events in a row, removals among them.
ColdNotStarved == passed <= BurstMax

\* Both: order within a pool, and no starvation between pools.
QueueFair == PoolOrder /\ ColdNotStarved

=============================================================================
