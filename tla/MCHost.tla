------------------------------- MODULE MCHost -------------------------------
(***************************************************************************)
(* What keeps the host's promises: the guarded standby of its database,    *)
(* the loops of the collector process, its oracle and quotation rounds,    *)
(* the histories fetched for it, and the requests both runtimes and the    *)
(* users of the API are counted for. The components below share no state   *)
(* and call none of each other's operations, so their product would only   *)
(* multiply their interleavings: a behaviour picks one of them and lets    *)
(* the others stand still, and TLC explores each component completely.     *)
(***************************************************************************)
EXTENDS Integers, Sequences, FiniteSets, TLC, StorageRecovery

CONSTANTS k1, k2, q1, q2

VARIABLES
  part,  \* the component of this behaviour
  loopsClock, busy, loopsOwner, phase, loopsTask, loopsRound, probes,
  loopsFaults,
  oracleClock, published, oracleSamples, turnPhase, position, waited, forced,
  calls, answer, due, oracleAsked, oracleFaults,
  assetNow, asset, assetSamples, assetJob, turn, ran, assetUsed, newest,
  slack, mishaps,
  made, historyNow, stored, gaps, coverage, tradeAt, buckets, historyRound,
  historyFaults,
  candleClock, queue, candles, tail, meta, refresh, first, pushes, refreshes,
  candleFaults,
  accessClock, account, open, keys, accessUsed, attempts, signups,
  accessAsked, granted, born, accessFaults,
  day, slot, callsUsed, lane, local, remaining, callsTask, charged, sent,
  counted, staged, callsFaults

recoveryState ==
  <<pg, sqlite, pending, counter, ranges, owner, verified, triggers,
    sqliteWrites, archive, pgOpen, job, cursor, faults>>

loopsState ==
  <<loopsClock, busy, loopsOwner, phase, loopsTask, loopsRound, probes,
    loopsFaults>>

oracleState ==
  <<oracleClock, published, oracleSamples, turnPhase, position, waited, forced,
    calls, answer, due, oracleAsked, oracleFaults>>

assetState ==
  <<assetNow, asset, assetSamples, assetJob, turn, ran, assetUsed, newest,
    slack, mishaps>>

historyState ==
  <<made, historyNow, stored, gaps, coverage, tradeAt, buckets, historyRound,
    historyFaults>>

candleState ==
  <<candleClock, queue, candles, tail, meta, refresh, first, pushes, refreshes,
    candleFaults>>

accessState ==
  <<accessClock, account, open, keys, accessUsed, attempts, signups,
    accessAsked, granted, born, accessFaults>>

callsState ==
  <<day, slot, callsUsed, lane, local, remaining, callsTask, charged, sent,
    counted, staged, callsFaults>>

Loops == INSTANCE CollectorLoops WITH
  Processes <- {"a", "b"}, Chains <- <<"196", "56">>, Interval <- 1,
  Delay <- 0, Ceiling <- 2, Stagger <- 1, PollTime <- 1, RoundTime <- 1,
  MaxClock <- 4, MaxFaults <- 2, clock <- loopsClock, owner <- loopsOwner,
  task <- loopsTask, round <- loopsRound, faults <- loopsFaults

Oracle == INSTANCE OracleAnchor WITH
  Feeds <- <<"a", "b">>, CallsPerFeed <- 4, MaxRoundCalls <- 8,
  WaitSteps <- 1, ForceAge <- 2, MaxQuoteAge <- 1, MaxWindowRows <- 2,
  Horizon <- 1, MaxSamples <- 1, MaxFeedRounds <- 2, MaxOracleClock <- 3,
  MaxOracleFaults <- 1, samples <- oracleSamples, asked <- oracleAsked

Asset == INSTANCE AssetQuotes WITH
  Tokens <- {k1, k2}, CoreCount <- 1, Batch <- 1, PerSlot <- 1,
  CoreEvery <- 1, BaseEvery <- 2, Published <- 2, Soon <- 1, Spacing <- 1,
  Minute <- 1, Hour <- 2, MostFailures <- 2, Anchored <- 1, Bucket <- 1,
  Values <- {1}, Clocked <- {k1}, Streamed <- {k1}, Lags <- {0, 3},
  Delays <- {0}, Start <- 3, MaxClock <- 6, MaxMishaps <- 1, now <- assetNow,
  samples <- assetSamples, job <- assetJob, used <- assetUsed

History == INSTANCE TradeHistory WITH
  PageSize <- 2, Keep <- 3, Width <- 2, Weather <- {}, MaxTrades <- 4,
  MaxNow <- 5, MaxFaults <- 1, now <- historyNow, round <- historyRound,
  faults <- historyFaults

Candle == INSTANCE CandleHistory WITH
  Width <- 2, PageMax <- 2, Overlap <- 1, QueueMax <- 1, BatchRows <- 1,
  Weather <- {}, MaxClock <- 5, MaxPushes <- 1, MaxRefreshes <- 2,
  MaxFaults <- 1, clock <- candleClock, faults <- candleFaults

Access == INSTANCE DeveloperAccess WITH
  Users <- {k1, k2}, Keys <- {q1, q2}, Threads <- {"a", "b"}, PerMinute <- 1,
  PerDay <- 1, DayLength <- 2, MaxActiveKeys <- 1, MaxAttempts <- 2,
  MaxSignups <- 1, MaxClock <- 2, MaxAdmissions <- 2, MaxFaults <- 1,
  clock <- accessClock, used <- accessUsed, asked <- accessAsked,
  faults <- accessFaults

Calls == INSTANCE RequestBudget WITH
  Class <- [p1 |-> "critical", n1 |-> "background", n2 |-> "interactive"],
  PyTasks <- {"p1"}, NodeTasks <- {"n1", "n2"}, Allowances <- {q1},
  Skips <- {}, Laned <- {"n1"},
  Stages <- [p1 |-> {}, n1 |-> {q1}, n2 |-> {q1}],
  Cap <- [background |-> 1, interactive |-> 2, critical |-> 2],
  RoundLimit <- 1, LaneLimit <- 1, AllowanceLimit <- 2, MaxAttempts <- 1,
  MaxDays <- 2, MaxRounds <- 1, MaxFaults <- 1, used <- callsUsed,
  task <- callsTask, faults <- callsFaults

ASSUME Oracle!OracleAssumption

AllInit ==
  /\ part \in {"recovery", "loops", "oracle", "asset", "history", "candle", "access", "calls"}
  /\ Init
  /\ Loops!Init
  /\ Oracle!OracleInit
  /\ Asset!Init
  /\ History!Init
  /\ Candle!Init
  /\ Access!Init
  /\ Calls!Init
  /\ part # "recovery" => pg[1].key = "a"

allVars == <<part, recoveryState, loopsState, oracleState, assetState, historyState, candleState, accessState, callsState>>

AllNext ==
  \/ part = "recovery" /\ Next
     /\ UNCHANGED <<part, loopsState, oracleState, assetState, historyState, candleState, accessState, callsState>>
  \/ part = "loops" /\ Loops!Next
     /\ UNCHANGED <<part, recoveryState, oracleState, assetState, historyState, candleState, accessState, callsState>>
  \/ part = "oracle" /\ Oracle!OracleNext
     /\ UNCHANGED <<part, recoveryState, loopsState, assetState, historyState, candleState, accessState, callsState>>
  \/ part = "asset" /\ Asset!Next
     /\ UNCHANGED <<part, recoveryState, loopsState, oracleState, historyState, candleState, accessState, callsState>>
  \/ part = "history" /\ History!Next
     /\ UNCHANGED <<part, recoveryState, loopsState, oracleState, assetState, candleState, accessState, callsState>>
  \/ part = "candle" /\ Candle!Next
     /\ UNCHANGED <<part, recoveryState, loopsState, oracleState, assetState, historyState, accessState, callsState>>
  \/ part = "access" /\ Access!Next
     /\ UNCHANGED <<part, recoveryState, loopsState, oracleState, assetState, historyState, candleState, callsState>>
  \/ part = "calls" /\ Calls!Next
     /\ UNCHANGED <<part, recoveryState, loopsState, oracleState, assetState, historyState, candleState, accessState>>

AllSpec == AllInit /\ [][AllNext]_allVars

\* One process owns the collectors and no loop is starved; every market field
\* shows the newest quotation of it, each sample one that was given, a
\* quotation round that counts as a success left a fresh price, and while
\* nothing fails no price outlives its freshness; a trade is valued with the
\* oracle round before it, however long the collector was busy.
LoopsAndQuotesSound ==
  /\ part = "loops" => Loops!TypeOK /\ Loops!LoopsSound
  /\ part = "asset" => Asset!TypeOK /\ Asset!QuotesKept
  /\ part = "oracle" => Oracle!OracleTypeOK /\ Oracle!AnchorSound

\* An interval recorded as watched misses no trade and a complete bar counts
\* every trade of its period; a candle holds the trades up to the time it is
\* shown as observed, and every bar since the first page is stored or in the
\* known gap.
HistoriesTrue ==
  /\ part = "history" => History!TypeOK /\ History!HistoryTrue
  /\ part = "candle" => Candle!TypeOK /\ Candle!CandlesHonest

\* The counters of a user's calls, keys and signups are those let through and
\* keep their limits; no request goes to the provider that its ledger did not
\* count, and no reserve, round, lane or stage is overdrawn.
LimitsKept ==
  /\ part = "access" => Access!TypeOK /\ Access!QuotaKept
  /\ part = "calls" => Calls!TypeOK /\ Calls!RequestsCharged

=============================================================================
