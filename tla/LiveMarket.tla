------------------------------- MODULE LiveMarket -------------------------------
(***************************************************************************)
(* HotMarketStream (collectors/live_market.py): the recent scan of the      *)
(* selected pools, which certifies block ranges pool by pool, beside live   *)
(* logs, removals, catalogue refreshes and a reorganising chain.            *)
(*                                                                         *)
(* A pool has at most one swap per block.  A block is its height and the    *)
(* fork that made it, which also stands for its hash.                       *)
(***************************************************************************)
EXTENDS Integers, Sequences, FiniteSetsExt

CONSTANTS
  HotPools, Bases,   \* pools of the catalogue, sides of a pool that can be selected
  Quiet,          \* <<pool, block>> without a swap
  PageSize,       \* pools of one page (8)
  MaxPages,       \* max_pages (4)
  EventBudget,    \* event_budget (64)
  Lookback,       \* heights behind the head a new pool starts at (31)
  RangeBlocks,    \* longest range of a page (300)
  AnchorRace,     \* may the chain replace an anchor after its comparison and
                  \* before the last range that relies on it has its end read?
  Nil,
  MaxTip, MaxForks, MaxSelections, MaxScans, MaxRecentFaults   \* bounds

LiveAssumption ==
  /\ {PageSize, RangeBlocks, MaxTip} \subseteq Nat \ {0}
  /\ {MaxPages, EventBudget, Lookback} \subseteq Nat
  /\ {MaxForks, MaxSelections, MaxScans, MaxRecentFaults} \subseteq Nat
  /\ AnchorRace \in BOOLEAN /\ Bases # {} /\ IsFiniteSet(HotPools)

VARIABLES
  recentChain, forks,   \* fork of each height; reorganisations so far
  selected,       \* self.pools with selected_bases: the bases of each pool
  generation,     \* selection_generation
  moved,          \* recent_reorg_generation is not what the page read
  raw, done,      \* chain_stream_logs: <<pool, block>>, and those with processed = 1
  recentTrades,         \* <<pool, base, block>>
  proof,          \* pool-live-cursor and the candle-meta poolScan written with it
  lock,           \* height whose removal retract_block is at, holding self.lock
  orphaned,       \* replaced blocks whose removal the node may still announce
  scan,           \* locals of scan_recent_pools
  scans, recentFaults

recentChainVars == <<recentChain, forks, orphaned>>
choice == <<selected, generation>>
tape == <<raw, done, recentTrades>>
bounds == <<scans, recentFaults>>
recentVars == <<recentChainVars, choice, moved, tape, proof, lock, scan, bounds>>

Blocks == (1..MaxTip) \X (0..MaxForks)
Height(b) == b[1]
Tip == Len(recentChain)
At(h) == <<h, recentChain[h]>>
Canonical(b) == Height(b) <= Tip /\ At(Height(b)) = b
\* eth_getLogs of a page: the canonical swaps of its pools.
Swaps(pools, from, to) == (pools \X {At(h) : h \in from..to}) \ Quiet
BlockOf(log) == log[2]
Chosen == {p \in HotPools : selected[p] # {}}

RecentTypeOK ==
  /\ Len(recentChain) \in 1..MaxTip /\ selected \in [HotPools -> SUBSET Bases]
  /\ generation \in 0..MaxSelections /\ moved \in BOOLEAN
  /\ done \subseteq raw /\ raw \subseteq HotPools \X Blocks
  /\ recentTrades \subseteq HotPools \X Bases \X Blocks
  /\ \A p \in HotPools : proof[p] # Nil =>
       proof[p].hash \in Blocks /\ {proof[p].from, proof[p].coverageFrom} \subseteq 1..MaxTip
  /\ lock = Nil \/ lock \in 1..MaxTip
  /\ orphaned \subseteq Blocks
  /\ scan # Nil => scan.pc \in {"page", "anchor", "fetch", "process", "verify", "sweep", "persist"}

RecentInit ==
  /\ recentChain = <<0>> /\ forks = 0 /\ orphaned = {}
  /\ \E b \in Bases : selected = [p \in HotPools |-> {b}]
  /\ generation = 0 /\ moved = FALSE
  /\ raw = {} /\ done = {} /\ recentTrades = {} /\ proof = [p \in HotPools |-> Nil]
  /\ lock = Nil /\ scan = Nil /\ scans = 0 /\ recentFaults = 0

-----------------------------------------------------------------------------
(* The node.                                                                *)

\* Anchors whose comparison this page or a later one of the scan relies on
\* until it has read the end of its range; later the end is compared again.
Compared == IF scan # Nil /\ (scan.pc \in {"anchor", "fetch"} \/ scan.todo # {})
            THEN scan.canonical ELSE {}

Mine ==
  /\ Tip < MaxTip /\ recentChain' = Append(recentChain, recentChain[Tip])
  /\ UNCHANGED <<forks, orphaned, choice, moved, tape, proof, lock, scan, bounds>>

Reorganise(h) ==
  /\ forks < MaxForks /\ h \in 2..Tip /\ forks' = forks + 1
  /\ (\E b \in Compared : h <= Height(b)) => AnchorRace
  /\ recentChain' = [i \in 1..Tip |-> IF i >= h THEN forks + 1 ELSE recentChain[i]]
  /\ orphaned' = orphaned \cup {At(i) : i \in h..Tip}
  /\ UNCHANGED <<choice, moved, tape, proof, lock, scan, bounds>>

-----------------------------------------------------------------------------
(* process_log and retract_block, both under self.lock.                     *)

\* ChainStream has the steps of process_log before the lock.
Stored(log) ==
  /\ lock = Nil /\ selected[log[1]] # {} /\ log \notin done
  /\ raw' = raw \cup {log} /\ done' = done \cup {log}
  /\ recentTrades' = recentTrades \cup {<<log[1], base, BlockOf(log)>> : base \in selected[log[1]]}

LiveLog(p, h) ==
  /\ h \in 1..Tip /\ <<p, At(h)>> \notin Quiet /\ Stored(<<p, At(h)>>)
  /\ UNCHANGED <<recentChainVars, choice, moved, proof, lock, scan, bounds>>

\* The trades and raw logs of the block go; the proofs above it follow.
Retracted(b) ==
  /\ lock = Nil /\ moved' = (scan # Nil)
  /\ raw' = {log \in raw : BlockOf(log) # b} /\ done' = {log \in done : BlockOf(log) # b}
  /\ recentTrades' = {t \in recentTrades : t[3] # b}
  /\ lock' = IF \E log \in raw : BlockOf(log) = b THEN Height(b) ELSE Nil

AnnouncedRemoval(b) ==
  /\ b \in orphaned /\ Retracted(b) /\ orphaned' = orphaned \ {b}
  /\ UNCHANGED <<recentChain, forks, choice, proof, scan, bounds>>

Invalid(p) == [proof EXCEPT ![p].ok = FALSE]

\* _invalidate_recent_proofs: every proof that ends at or above the block.
InvalidateProofs ==
  /\ lock # Nil /\ lock' = Nil
  /\ proof' = [p \in HotPools |-> IF proof[p] # Nil /\ Height(proof[p].hash) >= lock
                               THEN Invalid(p)[p] ELSE proof[p]]
  /\ UNCHANGED <<recentChainVars, choice, moved, tape, scan, bounds>>

\* A pool that gains a base reads its recent raw logs again.
RefreshCatalogue(chosen) ==
  /\ lock = Nil /\ generation < MaxSelections /\ chosen # selected
  /\ selected' = chosen /\ generation' = generation + 1
  /\ done' = {log \in done : chosen[log[1]] \subseteq selected[log[1]]
                             \/ Height(BlockOf(log)) < Tip - Lookback - 1}
  /\ UNCHANGED <<recentChainVars, moved, raw, recentTrades, proof, lock, scan, bounds>>

-----------------------------------------------------------------------------
(* scan_recent_pools.                                                       *)

Raise == scan' = Nil /\ moved' = FALSE
Still == UNCHANGED <<recentChainVars, choice, tape, proof, lock, bounds>>
ScanSame == Still /\ UNCHANGED moved

StartScan ==
  /\ scan = Nil /\ scans < MaxScans /\ scans' = scans + 1
  /\ scan' = [pc |-> "page", head |-> Tip, generation |-> generation, current |-> proof,
              todo |-> Chosen, pages |-> 0, canonical |-> {}, used |-> 0, pools |-> {},
              from |-> 0, to |-> 0, before |-> Nil, logs |-> {}, left |-> 0, rows |-> {}]
  /\ UNCHANGED <<recentChainVars, choice, moved, tape, proof, lock, recentFaults>>

AnchorOf(h) == LET read == {b \in scan.canonical : Height(b) = h}
               IN IF read = {} THEN At(h) ELSE CHOOSE b \in read : TRUE
HoldsProof(p) == scan.current[p] # Nil /\ scan.current[p].ok
\* The canonical block at the height a proof ends, read once in a scan.
Anchor(p) == AnchorOf(Height(scan.current[p].hash))
FirstBlock(p) ==
  LET old == scan.current[p]
      recent == Max({1, scan.head - Lookback})
      next == Height(old.hash) + 1
  IN IF HoldsProof(p) /\ old.bases = selected[p] /\ scan.head - next < RangeBlocks
     THEN Min({next, scan.head}) ELSE recent

\* The anchors of the page's proofs are compared; one read serves every page.
StartPage(pools) ==
  /\ scan # Nil /\ scan.pc = "page" /\ scan.todo # {} /\ scan.pages < MaxPages
  /\ scan.generation = generation
  /\ pools \subseteq scan.todo /\ Cardinality(pools) = Min({PageSize, Cardinality(scan.todo)})
  /\ \A p \in pools : HoldsProof(p) => Anchor(p) = scan.current[p].hash
  /\ \E from \in {FirstBlock(p) : p \in pools} :
       /\ \A p \in pools : from <= FirstBlock(p)
       /\ scan' = [scan EXCEPT !.pc = "anchor", !.pools = pools, !.todo = @ \ pools,
                     !.pages = @ + 1, !.from = from, !.to = Min({scan.head, from + RangeBlocks - 1}),
                     !.canonical = @ \cup {Anchor(p) : p \in {q \in pools : HoldsProof(q)}}]
  /\ moved' = FALSE /\ Still

\* A proof whose anchor was replaced is withdrawn, and the scan ends.
AnchorLost(p) ==
  /\ scan # Nil /\ scan.pc = "page" /\ scan.pages < MaxPages /\ scan.generation = generation
  /\ p \in scan.todo /\ HoldsProof(p)
  /\ Anchor(p) # scan.current[p].hash
  /\ proof' = Invalid(p) /\ Raise
  /\ UNCHANGED <<recentChainVars, choice, tape, lock, bounds>>

EndScan ==
  /\ scan # Nil /\ scan.pc = "page" /\ Raise
  /\ scan.todo = {} \/ scan.pages = MaxPages \/ scan.generation # generation
  /\ Still

ReadAnchor ==
  /\ scan # Nil /\ scan.pc = "anchor"
  /\ scan' = [scan EXCEPT !.pc = "fetch", !.before = At(scan.to)] /\ ScanSame

\* More unprocessed logs than the budget has left halve the range.
FetchLogs ==
  /\ scan # Nil /\ scan.pc = "fetch"
  /\ LET logs == Swaps(scan.pools, scan.from, scan.to)
         remaining == EventBudget - scan.used
     IN IF Cardinality(logs \ done) <= remaining \/ scan.from = scan.to
        THEN scan' = [scan EXCEPT !.pc = "process", !.logs = logs, !.left = remaining]
        ELSE scan' = [scan EXCEPT !.pc = "anchor", !.to = scan.from + (@ - scan.from) \div 2]
  /\ ScanSame

ProcessNext ==
  /\ scan # Nil /\ scan.pc = "process" /\ scan.left > 0
  /\ \E log \in scan.logs \ done :
       /\ \A other \in scan.logs \ done : Height(BlockOf(log)) <= Height(BlockOf(other))
       /\ Stored(log) /\ scan' = [scan EXCEPT !.used = @ + 1, !.left = @ - 1]
  /\ UNCHANGED <<recentChainVars, choice, moved, proof, lock, bounds>>

\* Out of logs, of budget or of time: a partial page certifies nothing.
Settle ==
  /\ scan # Nil /\ scan.pc = "process"
  /\ scan' = [scan EXCEPT !.pc = IF scan.logs \subseteq done THEN "verify" ELSE "page"]
  /\ ScanSame

\* Mutant: the end of the range is not compared with what it was before the logs.
SameEndAlways == scan.before # Nil
SameEnd == At(scan.to) = scan.before

Hash(h) == LET read == {BlockOf(log) : log \in scan.logs} \cap ({h} \X (0..MaxForks))
           IN IF read = {} THEN At(h) ELSE CHOOSE b \in read : TRUE
OrphanRows == {log \in raw : log[1] \in scan.pools /\ Height(BlockOf(log)) \in scan.from..scan.to
                             /\ Hash(Height(BlockOf(log))) # BlockOf(log)}

VerifyTrades ==
  /\ scan # Nil /\ scan.pc = "verify"
  /\ IF SameEnd /\ \A log \in scan.logs : \A base \in selected[log[1]] :
                      <<log[1], base, BlockOf(log)>> \in recentTrades
     THEN scan' = [scan EXCEPT !.pc = "sweep", !.rows = OrphanRows] /\ UNCHANGED moved ELSE Raise
  /\ Still

\* An orphan found in the range is retracted as if the node had announced it.
SweepOrphan ==
  /\ scan # Nil /\ scan.pc = "sweep"
  /\ \E log \in scan.rows : Retracted(BlockOf(log)) /\ scan' = [scan EXCEPT !.rows = @ \ {log}]
  /\ UNCHANGED <<recentChainVars, choice, proof, bounds>>

Recheck ==
  /\ scan # Nil /\ scan.pc = "sweep" /\ scan.rows = {}
  /\ IF SameEnd
     THEN scan' = [scan EXCEPT !.pc = "persist", !.before = At(scan.to)] /\ UNCHANGED moved
     ELSE Raise
  /\ Still

\* Neither the selection nor the chain moved under the page, as far as known.
StillCurrent == scan.generation = generation /\ ~moved

Contiguous(p) == HoldsProof(p) /\ scan.from <= Height(scan.current[p].hash) + 1
                 /\ scan.current[p].bases = selected[p]

PersistProofs ==
  /\ scan # Nil /\ scan.pc = "persist" /\ lock = Nil
  /\ IF StillCurrent
     THEN /\ proof' = [p \in HotPools |-> IF p \notin scan.pools THEN proof[p] ELSE
                [hash |-> scan.before, from |-> scan.from, ok |-> TRUE, bases |-> selected[p],
                 coverageFrom |-> IF Contiguous(p) THEN scan.current[p].coverageFrom ELSE scan.from]]
          /\ scan' = [scan EXCEPT !.pc = "page"] /\ UNCHANGED moved
     ELSE Raise /\ UNCHANGED proof
  /\ UNCHANGED <<recentChainVars, choice, tape, lock, bounds>>

\* A read that fails ends the scan, a restart also forgets what is in memory.
ScanFails ==
  /\ scan # Nil /\ recentFaults < MaxRecentFaults /\ recentFaults' = recentFaults + 1 /\ Raise
  /\ UNCHANGED <<recentChainVars, choice, tape, proof, lock, scans>>

Restart ==
  /\ recentFaults < MaxRecentFaults /\ recentFaults' = recentFaults + 1 /\ Raise /\ lock' = Nil
  /\ UNCHANGED <<recentChainVars, choice, tape, proof, scans>>

RecentNext ==
  \/ Mine \/ (\E h \in 1..MaxTip : Reorganise(h))
  \/ (\E p \in HotPools, h \in 1..MaxTip : LiveLog(p, h))
  \/ (\E b \in Blocks : AnnouncedRemoval(b)) \/ InvalidateProofs
  \/ (\E chosen \in [HotPools -> SUBSET Bases] : RefreshCatalogue(chosen))
  \/ StartScan \/ (\E pools \in SUBSET HotPools : StartPage(pools))
  \/ (\E p \in HotPools : AnchorLost(p))
  \/ EndScan \/ ReadAnchor \/ FetchLogs \/ ProcessNext \/ Settle \/ VerifyTrades
  \/ SweepOrphan \/ Recheck \/ PersistProofs \/ ScanFails \/ Restart

RecentSpec == RecentInit /\ [][RecentNext]_recentVars

-----------------------------------------------------------------------------
Holds(p, from) ==
  \A b \in {At(h) : h \in from..Height(proof[p].hash)} :
    <<p, b>> \notin Quiet => \A base \in proof[p].bases : <<p, base, b>> \in recentTrades

\* While the block it ends at is canonical, the range a page certified and the
\* coverage it joined hold a trade for every swap and selected base
\* (scan_recent_pools: dense blocks "cannot advance or certify coverage until
\* every log is durable").
ProofExact ==
  \A p \in HotPools : proof[p] # Nil /\ proof[p].ok /\ Canonical(proof[p].hash)
                   => Holds(p, proof[p].from) /\ Holds(p, proof[p].coverageFrom)
=============================================================================
