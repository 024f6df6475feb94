---------------------------- MODULE MCCollection ----------------------------
(***************************************************************************)
(* From the chain and the exchange to the stored market. The components    *)
(* below share no state and call none of each other's operations, so their *)
(* product would only multiply their interleavings: a behaviour picks one  *)
(* of them and lets the others stand still, and TLC explores each          *)
(* component completely.                                                   *)
(***************************************************************************)
EXTENDS Integers, Sequences, FiniteSets, TLC, StorageMigration, LiveQueue, LiveMarket, StoreWriter, MarketWriter

CONSTANTS k1, k2, q1, q2

VARIABLES
  part,  \* the component of this behaviour
  chainChain, chainForks, chainWeather, chainLink, chainWire, chainQueue,
  chainRetry, removed, chainWork, replay, chainStored, confirmed, chainCursor,
  chainFaults,
  tapeClock, logs, tapeTrades, acc, candle, current, tapeWatched, tapeWork,
  due, tapeAccepted, retracts, tapeFaults,
  height, factoryBranch, events, factoryCursor, factoryPool, factoryRelation,
  round, reorgs, factoryFaults,
  issued, venueLink, venueWire, venueQueue, venueTrades, venueGap, checkpoint,
  live, recovery, venueFaults,
  verdictBranch, classified, verdictPool, verdictRelation, candidate, memory,
  verdictPending, covered, stream, repair, heavy, visited, crossed, turns,
  verdictFaults,
  poolChain, poolForks, poolWeather, poolLink, floor, undo, poolStored,
  poolCoverage, backfill, complete, poolCursor, anchors, turn, poolFaults,
  kind, endpoint, ws, rpcClock, call, rate, verified, fallbackUntil, seen,
  foreign, pace, rpcFaults,
  day, manifest, localPools, indexGap, scanFact, indexCoverage, page,
  chainTurn, since, pollAt, localChanges,
  statusPending, statusTask, recent, lastError, reports, open, statusFaults

migrationState ==
  <<source, target, journal, counter, displaced, stage, highRow, lastRow,
    ranges, work, cursor, report, crashes>>

chainState ==
  <<chainChain, chainForks, chainWeather, chainLink, chainWire, chainQueue,
    chainRetry, removed, chainWork, replay, chainStored, confirmed, chainCursor,
    chainFaults>>

tapeState ==
  <<tapeClock, logs, tapeTrades, acc, candle, current, tapeWatched, tapeWork,
    due, tapeAccepted, retracts, tapeFaults>>

queueState ==
  <<link, queue, retry, busy, watched, burst, sent, passed, queueFaults>>

factoryState ==
  <<height, factoryBranch, events, factoryCursor, factoryPool, factoryRelation,
    round, reorgs, factoryFaults>>

recentState ==
  <<recentChain, forks, selected, generation, moved, raw, done, recentTrades,
    proof, lock, orphaned, scan, scans, recentFaults>>

venueState ==
  <<issued, venueLink, venueWire, venueQueue, venueTrades, venueGap, checkpoint,
    live, recovery, venueFaults>>

verdictState ==
  <<verdictBranch, classified, verdictPool, verdictRelation, candidate, memory,
    verdictPending, covered, stream, repair, heavy, visited, crossed, turns,
    verdictFaults>>

writerState ==
  <<task, gate, jobs, tx, writer, identity, committed, storeFaults>>

bufferState ==
  <<inbox, pending, todo, pc, trades, announced, quote, retention, cutoff,
    candidates, offers, accepted, cut, marketFaults>>

poolState ==
  <<poolChain, poolForks, poolWeather, poolLink, floor, undo, poolStored,
    poolCoverage, backfill, complete, poolCursor, anchors, turn, poolFaults>>

rpcState ==
  <<kind, endpoint, ws, rpcClock, call, rate, verified, fallbackUntil, seen,
    foreign, pace, rpcFaults>>

indexState ==
  <<day, manifest, localPools, indexGap, scanFact, indexCoverage, page,
    chainTurn, since, pollAt, localChanges>>

statusState ==
  <<statusPending, statusTask, recent, lastError, reports, open, statusFaults>>

Chain == INSTANCE ChainStream WITH
  MaxHeight <- 3, MaxForks <- 1, Quiet <- {<<2, 1>>}, QueueMax <- 2,
  RangeBlocks <- 1, MaxRanges <- 2, Depth <- 1, Confirmations <- 1,
  Weather <- {{"loss"}, {"live reorg"}}, MaxFaults <- 1, chain <- chainChain,
  forks <- chainForks, weather <- chainWeather, link <- chainLink,
  wire <- chainWire, queue <- chainQueue, retry <- chainRetry,
  work <- chainWork, stored <- chainStored, cursor <- chainCursor,
  faults <- chainFaults

Tape == INSTANCE TradeTape WITH
  Time <- <<0, 0, 1>>, NumMarkets <- 1, Width <- [base |-> 1, wide |-> 2],
  BaseBars <- {"base"}, MaxLate <- 1, Retain <- 3, LogRetain <- 2,
  MaxClock <- 4, MaxFaults <- 1, MaxRetracts <- 1, clock <- tapeClock,
  trades <- tapeTrades, watched <- tapeWatched, work <- tapeWork,
  accepted <- tapeAccepted, faults <- tapeFaults

Factory == INSTANCE FactoryDiscovery WITH
  MaxHeight <- 4, ForkAt <- 2, CreatedAt <- 2, MovedTo <- 3, BatchBlocks <- 2,
  MaxRanges <- 2, Confirmations <- 1, MaxReorgs <- 2, MaxFaults <- 1,
  branch <- factoryBranch, cursor <- factoryCursor, pool <- factoryPool,
  relation <- factoryRelation, faults <- factoryFaults

Venue == INSTANCE ExchangeStream WITH
  QueueMax <- 2, WireMax <- 2, BatchMax <- 1, PageLimit <- 1, MaxPages <- 2,
  EarlyLoss <- FALSE, MaxId <- 5, MaxFaults <- 2, link <- venueLink,
  wire <- venueWire, queue <- venueQueue, trades <- venueTrades,
  gap <- venueGap, faults <- venueFaults

Judge == INSTANCE PoolVerdict WITH
  MaxAttempts <- 1, MaxForks <- 1, MaxTurns <- 2, MaxFaults <- 1,
  branch <- verdictBranch, pool <- verdictPool, relation <- verdictRelation,
  pending <- verdictPending, faults <- verdictFaults

Cover == INSTANCE PoolCoverage WITH
  Second <- <<0, 2, 2, 4>>, RangeBlocks <- 2, Quiet <- {<<3, 0>>},
  Weather <- {{"loss"}, {"live reorg"}}, MaxForks <- 1, MaxFaults <- 1,
  chain <- poolChain, forks <- poolForks, weather <- poolWeather,
  link <- poolLink, stored <- poolStored, coverage <- poolCoverage,
  cursor <- poolCursor, faults <- poolFaults

Rpc == INSTANCE ChainRpc WITH
  Kinds <- {"bnb", "public", "plain"}, HttpReads <- TRUE, Base <- 1,
  Slowest <- 4, Quiet <- 4, LongestDelay <- 2, FallbackTime <- 1,
  RetryAfter <- {0, 3}, MaxClock <- 5, MaxFaults <- 1, clock <- rpcClock,
  faults <- rpcFaults

Scan == INSTANCE IndexScan WITH
  Listed <- [a |-> {q1}, b |-> {}], Manifests <- <<<<"a", "b">>, <<"a">>>>,
  PageLimit <- 1, FailureLimit <- 1, GapLimit <- 1, Lifetime <- 0,
  NumChains <- 2, MaxDay <- 2, MaxLocalChanges <- 1, gap <- indexGap,
  coverage <- indexCoverage

Status == INSTANCE ChainStatus WITH
  MaxReports <- 3, MaxFaults <- 1, pending <- statusPending,
  task <- statusTask, faults <- statusFaults

writerLane == [t \in {k1, k2, "quote"} |-> IF t = "quote" THEN "quotes" ELSE "shared"]

writerGate == [c \in {"shared", "quotes"} |-> c]

ASSUME MigrationAssumption

ASSUME Tape!TapeAssumption

ASSUME QueueAssumption

ASSUME LiveAssumption

ASSUME StoreAssumption

ASSUME MarketAssumption

ASSUME Scan!IndexAssumption

AllInit ==
  /\ part \in {"migration", "chain", "tape", "queue", "factory", "recent", "venue", "verdict", "writer", "buffer", "pool", "rpc", "index", "status"}
  /\ Init
  /\ Chain!Init
  /\ Tape!Init
  /\ QueueInit
  /\ Factory!Init
  /\ RecentInit
  /\ Venue!Init
  /\ Judge!Init
  /\ StoreInit
  /\ MarketInit
  /\ Cover!Init
  /\ Rpc!Init
  /\ Scan!IndexInit
  /\ Status!Init
  /\ part # "migration" => source[1].key = k1
  /\ part # "chain" => chainWeather = {"loss"}
  /\ part # "pool" => poolWeather = {"loss"}
  /\ part # "rpc" => kind = "bnb"

allVars == <<part, migrationState, chainState, tapeState, queueState, factoryState, recentState, venueState, verdictState, writerState, bufferState, poolState, rpcState, indexState, statusState>>

AllNext ==
  \/ part = "migration" /\ Next
     /\ UNCHANGED <<part, chainState, tapeState, queueState, factoryState, recentState, venueState, verdictState, writerState, bufferState, poolState, rpcState, indexState, statusState>>
  \/ part = "chain" /\ Chain!Next
     /\ UNCHANGED <<part, migrationState, tapeState, queueState, factoryState, recentState, venueState, verdictState, writerState, bufferState, poolState, rpcState, indexState, statusState>>
  \/ part = "tape" /\ Tape!Next
     /\ UNCHANGED <<part, migrationState, chainState, queueState, factoryState, recentState, venueState, verdictState, writerState, bufferState, poolState, rpcState, indexState, statusState>>
  \/ part = "queue" /\ QueueNext
     /\ UNCHANGED <<part, migrationState, chainState, tapeState, factoryState, recentState, venueState, verdictState, writerState, bufferState, poolState, rpcState, indexState, statusState>>
  \/ part = "factory" /\ Factory!Next
     /\ UNCHANGED <<part, migrationState, chainState, tapeState, queueState, recentState, venueState, verdictState, writerState, bufferState, poolState, rpcState, indexState, statusState>>
  \/ part = "recent" /\ RecentNext
     /\ UNCHANGED <<part, migrationState, chainState, tapeState, queueState, factoryState, venueState, verdictState, writerState, bufferState, poolState, rpcState, indexState, statusState>>
  \/ part = "venue" /\ Venue!Next
     /\ UNCHANGED <<part, migrationState, chainState, tapeState, queueState, factoryState, recentState, verdictState, writerState, bufferState, poolState, rpcState, indexState, statusState>>
  \/ part = "verdict" /\ Judge!Next
     /\ UNCHANGED <<part, migrationState, chainState, tapeState, queueState, factoryState, recentState, venueState, writerState, bufferState, poolState, rpcState, indexState, statusState>>
  \/ part = "writer" /\ StoreNext
     /\ UNCHANGED <<part, migrationState, chainState, tapeState, queueState, factoryState, recentState, venueState, verdictState, bufferState, poolState, rpcState, indexState, statusState>>
  \/ part = "buffer" /\ MarketNext
     /\ UNCHANGED <<part, migrationState, chainState, tapeState, queueState, factoryState, recentState, venueState, verdictState, writerState, poolState, rpcState, indexState, statusState>>
  \/ part = "pool" /\ Cover!Next
     /\ UNCHANGED <<part, migrationState, chainState, tapeState, queueState, factoryState, recentState, venueState, verdictState, writerState, bufferState, rpcState, indexState, statusState>>
  \/ part = "rpc" /\ Rpc!Next
     /\ UNCHANGED <<part, migrationState, chainState, tapeState, queueState, factoryState, recentState, venueState, verdictState, writerState, bufferState, poolState, indexState, statusState>>
  \/ part = "index" /\ Scan!IndexNext
     /\ UNCHANGED <<part, migrationState, chainState, tapeState, queueState, factoryState, recentState, venueState, verdictState, writerState, bufferState, poolState, rpcState, statusState>>
  \/ part = "status" /\ Status!Next
     /\ UNCHANGED <<part, migrationState, chainState, tapeState, queueState, factoryState, recentState, venueState, verdictState, writerState, bufferState, poolState, rpcState, indexState>>

AllSpec == AllInit /\ [][AllNext]_allVars

\* Every variable of the component at work keeps its type.
TypesOK ==
  /\ part = "migration" => TypeOK
  /\ part = "chain" => Chain!TypeOK
  /\ part = "tape" => Tape!TypeOK
  /\ part = "queue" => QueueTypeOK
  /\ part = "factory" => Factory!TypeOK
  /\ part = "recent" => RecentTypeOK
  /\ part = "venue" => Venue!TypeOK
  /\ part = "verdict" => Judge!TypeOK
  /\ part = "writer" => StoreTypeOK
  /\ part = "buffer" => MarketTypeOK
  /\ part = "pool" => Cover!TypeOK
  /\ part = "rpc" => Rpc!TypeOK
  /\ part = "index" => Scan!IndexTypeOK
  /\ part = "status" => Status!TypeOK

\* The certified interval holds exactly the canonical swaps (_catch_up).
CertifiedExact == part = "chain" => Chain!CertifiedExact

\* A candle counts the swaps of its period once each, whatever came late,
\* twice or was removed, and the current candle is the stored row of its
\* period; every trade of a removable block is reachable from its raw log.
CandlesTrue == part = "tape" => Tape!CandlesTrue /\ Tape!EveryTradeRetractable

\* A trade missing between stored ones is on its way or some replay will
\* fetch it (recover_market).
GapsKnown == part = "venue" => Venue!GapsKnown

\* Below a canonical cursor the evidence is that of the canonical chain, a
\* matched event has its verified relation; no turn revives the relation of a
\* pool whose proof was revoked, and the pool is proved anew.
RelationsProved ==
  /\ part = "factory" => Factory!EvidenceSound
  /\ part = "verdict" => Judge!QuarantineKept

\* What the collector reports of its feed is so: a pool's coverage names only
\* swaps it holds, the reads of a chain keep their rate and accept no foreign
\* chain, no failure is lost among the coalesced reports, and a comparison
\* with the index that calls itself complete has heard every token and passed
\* over no pool.
FeedSound ==
  /\ part = "pool" => Cover!CoverageKnown
  /\ part = "rpc" => Rpc!RateKept /\ Rpc!NoForeignChain
  /\ part = "status" => Status!FailureKept
  /\ part = "index" => Scan!IndexSound

=============================================================================
