------------------------------ MODULE ChainStream ------------------------------
(***************************************************************************)
(* ChainPoolStream (collectors/chain_stream.py): swaps of verified pools    *)
(* arrive twice, as a live subscription and as ranges that a replay reads   *)
(* behind a durable cursor, while the chain reorganises, the socket breaks  *)
(* and the process restarts.                                                *)
(*                                                                         *)
(* One pool, at most one swap per block: a swap is its block.  A block is   *)
(* its height and the fork that made it, which also stands for its hash.   *)
(***************************************************************************)
EXTENDS Integers, SequencesExt, FiniteSetsExt

CONSTANTS
  MaxHeight,      \* bound: length of the chain
  MaxForks,       \* bound: reorganisations
  Quiet,          \* blocks without a swap
  QueueMax,       \* self.queue
  RangeBlocks,    \* range_blocks
  MaxRanges,      \* max_ranges of one pass
  Depth,          \* initial_depth
  Confirmations,  \* <CHAIN>_TRADE_CONFIRMATIONS, and the deepest reorganisation
  Weather,        \* what may happen: a set of subsets of {"loss", "live reorg"}
  None,
  MaxFaults       \* bound: lost connections, failed reads, restarts

VARIABLES
  chain, forks,   \* fork of each height; reorganisations so far
  weather,
  link,           \* the socket: down, draining the old queue, or live
  wire,           \* subscription messages not yet read
  queue, retry,   \* self.queue, retry_event
  removed,        \* removed_revisions
  work,           \* what process_log holds for either consumer
  replay,         \* what _catch_up holds
  stored,         \* swaps with their trade, candles and raw log
  confirmed,      \* stored swaps of finality "confirmed"
  cursor,         \* chain-stream-cursor
  faults

nodeVars == <<chain, forks, weather>>
liveVars == <<queue, retry>>
storeVars == <<stored, confirmed>>
vars == <<nodeVars, link, wire, liveVars, removed, work, replay, storeVars, cursor, faults>>

Blocks == (1..MaxHeight) \X (0..MaxForks)
Height(b) == b[1]
At(h) == <<h, chain[h]>>
Canonical(b) == Height(b) <= Len(chain) /\ At(Height(b)) = b
Swaps(from, to) == {At(h) : h \in from..to} \ Quiet
Message(b, gone) == [block |-> b, removed |-> gone]
Nothing == [live |-> None, replay |-> None]

TypeOK ==
  /\ chain \in Seq(0..MaxForks) /\ Len(chain) <= MaxHeight /\ forks \in 0..MaxForks
  /\ weather \in Weather /\ link \in {"down", "draining", "live"}
  /\ Len(queue) <= QueueMax
  /\ \A m \in ToSet(wire) \cup ToSet(queue) : m.block \in Blocks /\ m.removed \in BOOLEAN
  /\ stored \subseteq Blocks \ Quiet /\ confirmed \subseteq stored
  /\ replay # None => replay.step \in {"fetch", "store", "certify"}
  /\ cursor # None => Height(cursor.hash) >= cursor.from - 1

Init ==
  /\ chain = <<0>> /\ forks = 0 /\ weather \in Weather
  /\ link = "down" /\ wire = <<>> /\ queue = <<>> /\ retry = None
  /\ removed = [b \in Blocks |-> 0] /\ work = Nothing /\ replay = None
  /\ stored = {} /\ confirmed = {} /\ cursor = None /\ faults = 0

-----------------------------------------------------------------------------
(* The node.                                                                *)

Sent(messages) == IF link = "live" THEN wire \o SelectSeq(messages, LAMBDA m : m.block \notin Quiet)
                  ELSE wire

Mine ==
  /\ Len(chain) < MaxHeight
  /\ chain' = Append(chain, Last(chain))
  /\ wire' = Sent(<<Message(<<Len(chain) + 1, Last(chain)>>, FALSE)>>)
  /\ UNCHANGED <<forks, weather, link, liveVars, removed, work, replay, storeVars, cursor, faults>>

\* The blocks from h on are replaced: a removal for each, then the new ones.
Reorganise(h) ==
  /\ forks < MaxForks /\ h \in (Len(chain) - Confirmations + 1)..Len(chain) /\ h > 1
  /\ link # "live" \/ "live reorg" \in weather
  /\ forks' = forks + 1
  /\ chain' = [i \in 1..Len(chain) |-> IF i >= h THEN forks + 1 ELSE chain[i]]
  /\ wire' = Sent([i \in 1..Len(chain) - h + 1 |-> Message(At(h + i - 1), TRUE)]
               \o [i \in 1..Len(chain) - h + 1 |-> Message(<<h + i - 1, forks + 1>>, FALSE)])
  /\ UNCHANGED <<weather, link, liveVars, removed, work, replay, storeVars, cursor, faults>>

-----------------------------------------------------------------------------
(* retract_block and process_log.                                           *)

\* Trades, candles and raw log of the block's swap go, its revision rises.
RetractBlocks(gone) ==
  /\ stored' = stored \ gone /\ confirmed' = confirmed \ gone
  /\ removed' = [b \in Blocks |-> IF b \in gone THEN removed[b] + 1 ELSE removed[b]]

\* A block that was removed before must have rejoined the canonical chain.
Rejoined(b) == removed[b] = 0 \/ Canonical(b)

\* process_log up to the mutation lock, for a swap that is not processed.
\* log_header finds a canonical block; of an orphan a node may give the header
\* by hash, or another block at that height.
Look(who, b) ==
  IF b \in stored \/ ~Rejoined(b)
  THEN \/ UNCHANGED <<work, removed, storeVars>>
       \/ b \notin stored /\ RetractBlocks({b}) /\ UNCHANGED work
  ELSE \/ /\ work' = [work EXCEPT ![who] = [block |-> b, revision |-> removed[b]]]
          /\ UNCHANGED <<removed, storeVars>>
       \/ ~Canonical(b) /\ RetractBlocks({b}) /\ UNCHANGED work

\* Mutant: the revision is not compared again under the lock.
StillValidAlways(w) == w # None
\* No removal ran while the metadata was awaited.
StillValid(w) == removed[w.block] = w.revision

\* process_log under the mutation lock.
Store(who) ==
  /\ work[who] # None
  /\ stored' = IF StillValid(work[who]) THEN stored \cup {work[who].block} ELSE stored
  /\ work' = [work EXCEPT ![who] = None]
  /\ UNCHANGED <<nodeVars, link, wire, liveVars, removed, replay, confirmed, cursor, faults>>

-----------------------------------------------------------------------------
(* run, reader, recover_live_queue: the live subscription.                  *)

Connect ==
  /\ link = "down" /\ work.live = None
  /\ link' = IF queue = <<>> /\ retry = None THEN "live" ELSE "draining"
  /\ UNCHANGED <<nodeVars, wire, liveVars, removed, work, replay, storeVars, cursor, faults>>

\* A new log subscription starts only after the old queue was drained.
Subscribe ==
  /\ link = "draining" /\ queue = <<>> /\ retry = None /\ work.live = None
  /\ link' = "live"
  /\ UNCHANGED <<nodeVars, wire, liveVars, removed, work, replay, storeVars, cursor, faults>>

\* The connection ends: unread messages are lost, the replay is cancelled, the
\* queue is kept.
Drop ==
  /\ link' = "down" /\ wire' = <<>> /\ replay' = None
  /\ work' = [work EXCEPT !.replay = None]

Disconnect ==
  /\ link # "down" /\ "loss" \in weather /\ faults < MaxFaults /\ faults' = faults + 1
  /\ Drop
  /\ UNCHANGED <<nodeVars, liveVars, removed, storeVars, cursor>>

\* Overflow closes the connection.
Read ==
  /\ wire # <<>> /\ (Len(queue) < QueueMax \/ "loss" \in weather)
  /\ IF Len(queue) < QueueMax
     THEN /\ queue' = Append(queue, Head(wire)) /\ wire' = Tail(wire)
          /\ UNCHANGED <<link, replay, work>>
     ELSE Drop /\ UNCHANGED queue
  /\ UNCHANGED <<nodeVars, retry, removed, storeVars, cursor, faults>>

Pending == IF retry # None THEN <<retry>> \o queue ELSE queue

\* The head of the queue; a removal retracts its block at once.
TakeLive ==
  /\ link # "down" /\ work.live = None /\ Pending # <<>>
  /\ retry' = None /\ queue' = IF retry # None THEN queue ELSE Tail(queue)
  /\ IF Head(Pending).removed
     THEN RetractBlocks({Head(Pending).block}) /\ UNCHANGED work
     ELSE Look("live", Head(Pending).block)
  /\ UNCHANGED <<nodeVars, link, wire, replay, cursor, faults>>

\* Processing fails: the event is kept for the next connection.
FailLive ==
  /\ work.live # None /\ "loss" \in weather /\ faults < MaxFaults /\ faults' = faults + 1
  /\ retry' = Message(work.live.block, FALSE)
  /\ link' = "down" /\ wire' = <<>> /\ replay' = None /\ work' = Nothing
  /\ UNCHANGED <<nodeVars, queue, removed, storeVars, cursor>>

\* The process ends and starts again.
Restart ==
  /\ "loss" \in weather /\ faults < MaxFaults /\ faults' = faults + 1
  /\ link' = "down" /\ wire' = <<>> /\ queue' = <<>> /\ retry' = None
  /\ removed' = [b \in Blocks |-> 0] /\ work' = Nothing /\ replay' = None
  /\ UNCHANGED <<nodeVars, storeVars, cursor>>

-----------------------------------------------------------------------------
(* _catch_up.                                                               *)

\* The newest earlier checkpoint that is still canonical.
Rewinds == {b \in ToSet(Front(cursor.anchors)) : Canonical(b)}
Rewound == CHOOSE b \in Rewinds : \A c \in Rewinds : Height(c) <= Height(b)

Above(h) == {b \in stored : Height(b) > h}

\* With no checkpoint, the pass starts Depth blocks below the head.
StartPass ==
  /\ link = "live" /\ replay = None
  /\ LET first == Max({1, Len(chain) - Depth})
     IN \/ /\ cursor = None
           /\ replay' = [step |-> "fetch", ranges |-> 1, start |-> first, from |-> first,
                         head |-> Len(chain),
                         anchors |-> IF first > 1 THEN <<At(first - 1)>> ELSE <<>>]
           /\ UNCHANGED <<removed, storeVars>>
        \/ /\ cursor # None /\ Canonical(cursor.hash) /\ Height(cursor.hash) < Len(chain)
           /\ replay' = [step |-> "fetch", ranges |-> 1, start |-> Height(cursor.hash) + 1,
                         from |-> cursor.from, head |-> Len(chain), anchors |-> cursor.anchors]
           /\ UNCHANGED <<removed, storeVars>>
        \/ /\ cursor # None /\ ~Canonical(cursor.hash) /\ Rewinds # {}
           /\ RetractBlocks(Above(Height(Rewound)))
           /\ replay' = [step |-> "fetch", ranges |-> 1, start |-> Height(Rewound) + 1,
                         from |-> cursor.from, head |-> Len(chain),
                         anchors |-> SelectSeq(cursor.anchors,
                                               LAMBDA b : Height(b) <= Height(Rewound))]
  /\ UNCHANGED <<nodeVars, link, wire, liveVars, work, cursor, faults>>

\* The anchor of the range's end, and its logs.
FetchRange ==
  /\ replay # None /\ replay.step = "fetch"
  /\ LET end == Min({replay.head, replay.start + RangeBlocks - 1})
     IN replay' = [step |-> "store", ranges |-> replay.ranges, start |-> replay.start,
                   from |-> replay.from, head |-> replay.head, anchors |-> replay.anchors,
                   before |-> At(end), found |-> Swaps(replay.start, end),
                   todo |-> Swaps(replay.start, end)]
  /\ UNCHANGED <<nodeVars, link, wire, liveVars, removed, work, storeVars, cursor, faults>>

ReplayLog ==
  /\ replay # None /\ replay.step = "store" /\ work.replay = None
  /\ \E b \in replay.todo :
       /\ \A c \in replay.todo : Height(b) <= Height(c)
       /\ replay' = [replay EXCEPT !.todo = @ \ {b}]
       /\ Look("replay", b)
  /\ UNCHANGED <<nodeVars, link, wire, liveVars, cursor, faults>>

AbortRange == replay' = None /\ UNCHANGED <<removed, storeVars>>

\* The range's last block is still canonical.
SameAnchor == Canonical(replay.before)

\* The canonical hash of a height is that of its log, or is read from the node.
Orphans ==
  {b \in stored : /\ Height(b) \in replay.start..Height(replay.before)
                  /\ b \notin replay.found
                  /\ (\E c \in replay.found : Height(c) = Height(b)) \/ ~Canonical(b)}

\* retract_orphans, after the first look at the anchor.
Sweep ==
  /\ replay # None /\ replay.step = "store" /\ replay.todo = {} /\ work.replay = None
  /\ IF SameAnchor
     THEN RetractBlocks(Orphans) /\ replay' = [replay EXCEPT !.step = "certify"]
     ELSE AbortRange
  /\ UNCHANGED <<nodeVars, link, wire, liveVars, work, cursor, faults>>

\* The cursor advances; the pass goes on with the next range.
Certify ==
  /\ replay # None /\ replay.step = "certify"
  /\ LET anchors == Append(replay.anchors, replay.before)
         next == Height(replay.before) + 1
     IN IF SameAnchor
        THEN /\ cursor' = [hash |-> replay.before, from |-> replay.from, anchors |-> anchors]
             /\ replay' = IF replay.ranges < MaxRanges /\ next <= replay.head
                          THEN [step |-> "fetch", ranges |-> replay.ranges + 1, start |-> next,
                                from |-> replay.from, head |-> replay.head, anchors |-> anchors]
                          ELSE None
        ELSE replay' = None /\ UNCHANGED cursor
  /\ UNCHANGED <<nodeVars, link, wire, liveVars, removed, work, storeVars, faults>>

-----------------------------------------------------------------------------
(* confirm_recent_trades.                                                   *)

Confirmable(b) == Height(b) <= Len(chain) - Confirmations /\ Canonical(b)

Confirm(b) ==
  /\ link = "live" /\ b \notin confirmed /\ Confirmable(b)
  /\ confirmed' = confirmed \cup {b}
  /\ UNCHANGED <<nodeVars, link, wire, liveVars, removed, work, replay, stored, cursor, faults>>

Next ==
  \/ Mine \/ \E h \in 1..MaxHeight : Reorganise(h)
  \/ Connect \/ Subscribe \/ Disconnect \/ Read
  \/ TakeLive \/ Store("live") \/ FailLive \/ Restart
  \/ StartPass \/ FetchRange \/ ReplayLog \/ Store("replay") \/ Sweep \/ Certify
  \/ \E b \in stored : Confirm(b)

Spec == Init /\ [][Next]_vars

-----------------------------------------------------------------------------
(* Properties.                                                              *)

\* "The pools cursor proves contiguous historical coverage": once everything
\* received is processed, the interval below a canonical cursor holds exactly
\* the canonical swaps, whatever was lost, replayed twice or orphaned; and no
\* orphan is left anywhere when no message was lost.
Processed == wire = <<>> /\ Pending = <<>> /\ work = Nothing
CertifiedExact ==
  Processed =>
    /\ cursor # None /\ Canonical(cursor.hash) =>
         {b \in stored : Height(b) \in cursor.from..Height(cursor.hash)} =
         Swaps(cursor.from, Height(cursor.hash))
    /\ "loss" \notin weather => \A b \in stored : Canonical(b)

=============================================================================
