---------------------------- MODULE PoolCoverage ----------------------------
(*************************************************************************)
(* What the chain collector claims to have seen of a pool that was added  *)
(* while it ran (chain_stream.py): the pool's own backfill from its floor, *)
(* the common replay lane, and the intervals of time in which every swap  *)
(* was decoded, from which a volume is later called complete              *)
(* (product_history.py).  Backfill and lane take turns in one task, which  *)
(* ends with its connection.  How live logs travel is in ChainStream; here *)
(* they are stored when they are sent and removals come later.            *)
(*************************************************************************)
EXTENDS Integers, FiniteSets, FiniteSetsExt, Functions, Sequences

CONSTANTS
  None,
  Second,      \* height -> second of its block (the same on every fork)
  RangeBlocks, \* blocks of one range (100 or 300 in the code)
  Quiet,       \* blocks without a swap of the pool
  Weather,     \* what may happen: subsets of {"loss", "live reorg"}
  MaxForks, MaxFaults \* bounds

VARIABLES
  chain, forks,  \* fork of each height; reorganisations so far
  weather,
  link,          \* the socket: "down", or subscribed "without" or "with" the pool
  floor,         \* streamBackfillFromBlock once the pool is known, or None
  undo,          \* removals on their way
  stored,        \* blocks whose swap is stored
  coverage,      \* facts pool-time-coverage: identity -> interval
  backfill,      \* pool-stream-backfill: block and hash, or None
  complete,      \* pool-stream-coverage is written
  cursor, anchors, \* chain-stream-cursor
  turn,          \* what the replay task holds, or None
  faults

nodeVars == <<chain, forks, weather>>
marks == <<backfill, complete, cursor, anchors>>
facts == <<stored, coverage>>
vars == <<nodeVars, link, floor, undo, facts, marks, turn, faults>>

Heights == DOMAIN Second
Blocks == Heights \X (0..MaxForks)
At(h) == <<h, chain[h]>>
Height(b) == b[1]
Canonical(b) == Height(b) <= Len(chain) /\ At(Height(b)) = b
Swaps(from, to) == {At(h) : h \in from..to} \ Quiet

TypeOK ==
  /\ chain \in Seq(0..MaxForks) /\ Len(chain) <= Len(Second) /\ weather \in Weather
  /\ link \in {"down", "without", "with"} /\ floor \in Heights \cup {None}
  /\ stored \subseteq Blocks \ Quiet /\ undo \subseteq Blocks
  /\ \A i \in DOMAIN coverage : coverage[i].start <= Height(coverage[i].hash) /\ coverage[i].hash \in Blocks
  /\ backfill \in Blocks \cup {None} /\ cursor \in Blocks \cup {None} /\ anchors \subseteq Blocks
  /\ complete \in BOOLEAN

Init ==
  /\ chain = <<0, 0>> /\ forks = 0 /\ weather \in Weather
  /\ link = "down" /\ floor = None /\ undo = {}
  /\ stored = {} /\ coverage = <<>>
  /\ backfill = None /\ complete = FALSE /\ cursor = None /\ anchors = {At(1)}
  /\ turn = None /\ faults = 0

------------------------------------------------------------------------------
(* The node and the connection                                            *)

Live(blocks) == IF link = "with" THEN stored \cup (blocks \ Quiet) ELSE stored

Mine ==
  /\ Len(chain) < Len(Second) /\ chain' = Append(chain, chain[Len(chain)])
  /\ stored' = Live({<<Len(chain) + 1, chain[Len(chain)]>>})
  /\ UNCHANGED <<forks, weather, link, floor, undo, coverage, marks, turn, faults>>

Reorganise(h) ==
  /\ forks < MaxForks /\ forks' = forks + 1 /\ h \in 2..Len(chain)
  /\ link # "down" => "live reorg" \in weather
  /\ chain' = [i \in DOMAIN chain |-> IF i >= h THEN forks + 1 ELSE chain[i]]
  /\ stored' = Live({<<i, forks + 1>> : i \in h..Len(chain)})
  /\ undo' = IF link = "with" THEN undo \cup (stored \cap {At(i) : i \in h..Len(chain)}) ELSE undo
  /\ UNCHANGED <<weather, link, floor, coverage, marks, turn, faults>>

Connect ==
  /\ link = "down" /\ link' = IF floor = None THEN "without" ELSE "with"
  /\ UNCHANGED <<nodeVars, floor, undo, facts, marks, turn, faults>>

\* The catalogue has a new pool: the connection is opened anew for it.
AddPool(f) ==
  /\ floor = None /\ f \in 2..Len(chain) /\ floor' = f
  /\ link' = "down" /\ turn' = None
  /\ UNCHANGED <<nodeVars, undo, facts, marks, faults>>

\* The connection breaks, or the process starts again.
Disconnect ==
  /\ "loss" \in weather /\ faults < MaxFaults /\ faults' = faults + 1
  /\ link # "down" /\ link' = "down" /\ undo' = {} /\ turn' = None
  /\ UNCHANGED <<nodeVars, floor, facts, marks>>

------------------------------------------------------------------------------
(* Retraction and time coverage                                           *)

Cut(height) == Restrict(coverage, {i \in DOMAIN coverage : Height(coverage[i].hash) <= height})

\* retract_block for each of these: the intervals that reach it are void.
Retract(blocks) ==
  LET gone == blocks \cap stored
  IN /\ stored' = stored \ gone
     /\ coverage' = IF gone = {} THEN coverage ELSE Cut(Min({Height(b) : b \in gone}) - 1)

Removal(b) ==
  /\ b \in undo /\ undo' = undo \ {b} /\ Retract({b})
  /\ UNCHANGED <<nodeVars, link, floor, marks, turn, faults>>

\* The interval that reaches furthest.
Latest ==
  IF DOMAIN coverage = {} THEN None
  ELSE CHOOSE i \in DOMAIN coverage : \A j \in DOMAIN coverage : Height(coverage[j].hash) <= Height(coverage[i].hash)

\* Whole seconds between two blocks: both boundary seconds may have others.
After(h) == Second[h] + 1
UpTo(h) == Second[h]
Before(h) == Second[h] - 1

AdjacentInTime(old, start, previous) == Height(old.hash) + 1 = start
Adjacent(old, start, previous) == Height(old.hash) + 1 = start /\ old.hash = previous

\* record_time_coverage: <<identity, interval>>, or None.
Patch(start, end, previous, swaps) ==
  LET new == [from |-> After(Height(previous)), through |-> Before(Height(end)),
              start |-> start, hash |-> end, count |-> Cardinality(swaps)]
      i == Latest
      old == coverage[i]
  IN IF new.through < new.from \/ ~(swaps \subseteq stored) THEN None
     ELSE IF i = None THEN <<0, new>>
     ELSE IF Adjacent(old, start, previous)
     THEN <<i, [new EXCEPT !.from = old.from, !.start = old.start, !.count = @ + old.count]>>
     ELSE IF old.start <= start /\ Height(end) <= Height(old.hash) THEN None
     ELSE <<start, new>>

Upsert(patch) == [i \in DOMAIN coverage \cup {patch[1]} |-> IF i = patch[1] THEN patch[2] ELSE coverage[i]]

------------------------------------------------------------------------------
(* One turn: a range of the pool's backfill, then one of the lane          *)

Idle == turn = None
In(who, step) == turn # None /\ turn.who = who /\ turn.step = step
Step(step) == turn # None /\ turn.step = step

LaneNext == turn' = [who |-> "lane", step |-> "start", head |-> turn.head]

\* reconcile_step reads the head once.
StartTurn ==
  /\ Idle /\ link # "down"
  /\ turn' = [who |-> IF floor # None /\ ~complete THEN "pool" ELSE "lane", step |-> "start", head |-> Len(chain)]
  /\ UNCHANGED <<nodeVars, link, floor, undo, facts, marks, faults>>

RangeOf(who, start, addressed) ==
  [who |-> who, step |-> "anchor", head |-> turn.head, start |-> start, addressed |-> addressed]

\* backfill_pending_pools: on from its checkpoint, or again from the floor.
StartPool ==
  /\ In("pool", "start")
  /\ LET start == IF backfill # None /\ Canonical(backfill) /\ Height(backfill) >= floor
                  THEN Height(backfill) + 1 ELSE floor
     IN IF start > turn.head
        THEN /\ complete' = (link = "with") /\ LaneNext
        ELSE /\ turn' = RangeOf("pool", start, TRUE) /\ UNCHANGED complete
  /\ UNCHANGED <<nodeVars, link, floor, undo, facts, backfill, cursor, anchors, faults>>

\* _catch_up: a cursor off the chain goes back to its newest canonical anchor.
StartLane ==
  /\ In("lane", "start")
  /\ LET good == {b \in anchors : Canonical(b)}
         rewind == CHOOSE b \in good : \A c \in good : Height(c) <= Height(b)
         lost == cursor # None /\ ~Canonical(cursor)
         start == IF cursor = None THEN 2 ELSE IF lost THEN Height(rewind) + 1 ELSE Height(cursor) + 1
     IN /\ IF lost
           THEN /\ stored' = {b \in stored : Height(b) <= Height(rewind)}
                /\ coverage' = Cut(Height(rewind))
                /\ anchors' = {b \in anchors : Height(b) <= Height(rewind)}
           ELSE UNCHANGED <<facts, anchors>>
        /\ turn' = IF start > turn.head THEN None ELSE RangeOf("lane", start, floor # None)
  /\ UNCHANGED <<nodeVars, link, floor, undo, backfill, complete, cursor, faults>>

ReadAnchor ==
  /\ Step("anchor")
  /\ turn' = [who |-> turn.who, step |-> "logs", head |-> turn.head, start |-> turn.start, addressed |-> turn.addressed,
              before |-> At(Min({turn.head, turn.start + RangeBlocks - 1}))]
  /\ UNCHANGED <<nodeVars, link, floor, undo, facts, marks, faults>>

\* eth_getLogs and process_log for each.
StoreLogs ==
  /\ Step("logs")
  /\ LET found == IF turn.addressed THEN Swaps(turn.start, Height(turn.before)) ELSE {}
     IN /\ stored' = stored \cup found
        /\ turn' = [who |-> turn.who, step |-> "check", head |-> turn.head, start |-> turn.start, addressed |-> turn.addressed,
                    before |-> turn.before, found |-> found]
  /\ UNCHANGED <<nodeVars, link, floor, undo, coverage, marks, faults>>

\* The range failed: the lane has its turn all the same.
Abort == IF turn.who = "pool" THEN LaneNext ELSE turn' = None

\* The anchor again, then retract_orphans over the range.
Check ==
  /\ Step("check")
  /\ IF Canonical(turn.before)
     THEN /\ Retract({b \in stored : Height(b) \in turn.start..Height(turn.before) /\ ~Canonical(b)})
          /\ turn' = [turn EXCEPT !.step = IF turn.addressed THEN "record" ELSE "advance"]
          /\ undo' = undo \cap stored'
     ELSE Abort /\ UNCHANGED <<facts, undo>>
  /\ UNCHANGED <<nodeVars, link, floor, marks, faults>>

\* The facts are read, then the patch is written.
Record ==
  /\ Step("record")
  /\ IF turn.who = "lane" /\ ~Canonical(turn.before) THEN Abort
     ELSE LET patch == Patch(turn.start, turn.before, At(turn.start - 1), turn.found)
          IN turn' = [who |-> turn.who, step |-> IF patch = None THEN "advance" ELSE "write", head |-> turn.head,
                      start |-> turn.start, addressed |-> TRUE, before |-> turn.before, patch |-> patch]
  /\ UNCHANGED <<nodeVars, link, floor, undo, facts, marks, faults>>

Write ==
  /\ Step("write") /\ coverage' = Upsert(turn.patch)
  /\ turn' = [turn EXCEPT !.step = "advance", !.patch = None]
  /\ UNCHANGED <<nodeVars, link, floor, undo, stored, marks, faults>>

ReachedAny == link = "with"
\* Only at the head, and with the subscription in force, nothing is missed after it.
Reached == Height(turn.before) = turn.head /\ link = "with"

AdvancePool ==
  /\ In("pool", "advance") /\ LaneNext
  /\ backfill' = turn.before /\ complete' = Reached
  /\ UNCHANGED <<nodeVars, link, floor, undo, facts, cursor, anchors, faults>>

AdvanceLane ==
  /\ In("lane", "advance") /\ turn' = None
  /\ cursor' = turn.before /\ anchors' = anchors \cup {turn.before}
  /\ UNCHANGED <<nodeVars, link, floor, undo, facts, backfill, complete, faults>>

Next ==
  \/ Mine \/ \E h \in Heights : Reorganise(h) \/ AddPool(h)
  \/ Connect \/ Disconnect \/ \E b \in undo : Removal(b)
  \/ StartTurn \/ StartPool \/ StartLane
  \/ ReadAnchor \/ StoreLogs \/ Check \/ Record \/ Write
  \/ AdvancePool \/ AdvanceLane

Spec == Init /\ [][Next]_vars

------------------------------------------------------------------------------
\* interval_covered of the volume query, for one second.
Covered(c, second) == c.from <= second /\ second <= c.through

\* An interval whose last block is canonical tells the truth about each of its
\* seconds - a canonical swap is stored, what is stored is canonical - however
\* ranges were repeated, cut short or read around a reorganisation.
CoverageTrue ==
  undo = {} =>
    \A i \in DOMAIN coverage : Canonical(coverage[i].hash) =>
      /\ \A b \in Blocks \ Quiet :
           Height(b) <= Len(chain) /\ Covered(coverage[i], Second[Height(b)]) => (b \in stored <=> Canonical(b))
      /\ coverage[i].count = Cardinality(Swaps(coverage[i].start, Height(coverage[i].hash)))

\* Once the backfill is complete, its pool has every swap from the floor up to
\* the lane's canonical cursor ("Completion is recorded only after the
\* WebSocket has subscribed to the address and a canonical replay reaches the
\* head"): backfill, subscription and lane leave nothing between them.
NothingBetween ==
  undo = {} /\ complete /\ cursor # None /\ Canonical(cursor) =>
    Swaps(floor, Height(cursor)) \subseteq stored

CoverageKnown == CoverageTrue /\ NothingBetween
=============================================================================
