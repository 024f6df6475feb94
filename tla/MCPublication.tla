--------------------------- MODULE MCPublication ---------------------------
(***************************************************************************)
(* From a committed change to the reader: journal and stream, dashboard    *)
(* publication, browser page; demand leases, in-process detail cache, read *)
(* model, live chart, alerts, comparisons, mentions. The components below  *)
(* share no state and call none of each other's operations, so their       *)
(* product would only multiply their interleavings: a behaviour picks one  *)
(* of them and lets the others stand still, and TLC explores each          *)
(* component completely.                                                   *)
(***************************************************************************)
EXTENDS Integers, Sequences, FiniteSets, TLC, EventStream, Projection, DemandLeases, DetailCache, ReadModel, Comparisons, ChartFeed

CONSTANTS c1, c2, p1, p2, v1, t1, k1, k2, q1, q2

VARIABLES
  part,  \* the component of this behaviour
  deltas, oldest, scope, epoch, page, buffer, floor, polls, pageCursor, open,
  drops,
  alertsClock, alertsJournal, low, alertsCursor, flags, seeded, binding,
  alertsOutbox, budget, send, arrived, latest, hurried, alertsFaults,
  published, gone, postsCursor, stale, blocked, reads, mentioned, active,
  poll, lookup, day, used, spent, postsFaults

streamState ==
  <<allocated, inflight, journal, audience, committed, snapshot, tailCursor,
    tailRows, subscribed, queue, conn, wire, phase, lastEventId, reflected,
    faults>>

viewsState ==
  <<facts, log, changeOutbox, events, row, bodies, builds, memory, work, dirty,
    derived, turn, truncations, tickFaults>>

pageState ==
  <<deltas, oldest, scope, epoch, page, buffer, floor, polls, pageCursor, open,
    drops>>

leaseState ==
  <<clock, pending, ahead, flush, rows, createdAt, legacy, failures>>

cacheState ==
  <<content, outbox, lastId, database, shared, data, current, generation,
    announced, task>>

modelState ==
  <<modelClock, source, left, bridge, postgres, redis, cached, waiting, refresh,
    served, modelFaults>>

alertsState ==
  <<alertsClock, alertsJournal, low, alertsCursor, flags, seeded, binding,
    alertsOutbox, budget, send, arrived, latest, hurried, alertsFaults>>

compareState ==
  <<instant, token, reference, observations, refreshing, alert, packet,
    signalled, evaluated>>

chartState ==
  <<written, removed, own, resets, hub, ready, response, read, tab, shown, hurt,
    chartFaults>>

postsState ==
  <<published, gone, postsCursor, stale, blocked, reads, mentioned, active,
    poll, lookup, day, used, spent, postsFaults>>

Page == INSTANCE DashboardView WITH
  Rows <- {v1}, Scopes <- {c1, c2}, BufferFrames <- 2, MaxRevision <- 3,
  MaxEpochs <- 1, MaxDrops <- 1, cursor <- pageCursor

Alerts == INSTANCE TelegramAlerts WITH
  MaxAttempts <- 2, DailyLimit <- 1, Cooldown <- 2, EventAge <- 1,
  QueueLifetime <- 2, Interrupted <- 1, DayLength <- 3, MaxId <- 4,
  MaxClock <- 4, MaxFaults <- 1, clock <- alertsClock,
  journal <- alertsJournal, cursor <- alertsCursor, outbox <- alertsOutbox,
  faults <- alertsFaults

Social == INSTANCE SocialMentions WITH
  PageSize <- 1, PageCost <- 2, PollLimit <- 3, DailyLimit <- 4,
  Weather <- {}, MaxPosts <- 2, MaxDays <- 2, MaxFaults <- 1,
  cursor <- postsCursor, faults <- postsFaults

ASSUME StreamAssumption

ASSUME ProjectionAssumption

ASSUME ModelAssumption

ASSUME ComparisonAssumption

ASSUME ChartAssumption

AllInit ==
  /\ part \in {"stream", "views", "page", "lease", "cache", "model", "alerts", "compare", "chart", "posts"}
  /\ Init
  /\ PublicationInit
  /\ Page!Init
  /\ LeaseInit
  /\ CacheInit
  /\ ModelInit
  /\ Alerts!Init
  /\ ComparisonInit
  /\ ChartInit
  /\ Social!Init
  /\ part # "compare" => token.price = 0

allVars == <<part, streamState, viewsState, pageState, leaseState, cacheState, modelState, alertsState, compareState, chartState, postsState>>

AllNext ==
  \/ part = "stream" /\ Next
     /\ UNCHANGED <<part, viewsState, pageState, leaseState, cacheState, modelState, alertsState, compareState, chartState, postsState>>
  \/ part = "views" /\ PublicationNext
     /\ UNCHANGED <<part, streamState, pageState, leaseState, cacheState, modelState, alertsState, compareState, chartState, postsState>>
  \/ part = "page" /\ Page!Next
     /\ UNCHANGED <<part, streamState, viewsState, leaseState, cacheState, modelState, alertsState, compareState, chartState, postsState>>
  \/ part = "lease" /\ LeaseNext
     /\ UNCHANGED <<part, streamState, viewsState, pageState, cacheState, modelState, alertsState, compareState, chartState, postsState>>
  \/ part = "cache" /\ CacheNext
     /\ UNCHANGED <<part, streamState, viewsState, pageState, leaseState, modelState, alertsState, compareState, chartState, postsState>>
  \/ part = "model" /\ ModelNext
     /\ UNCHANGED <<part, streamState, viewsState, pageState, leaseState, cacheState, alertsState, compareState, chartState, postsState>>
  \/ part = "alerts" /\ Alerts!Next
     /\ UNCHANGED <<part, streamState, viewsState, pageState, leaseState, cacheState, modelState, compareState, chartState, postsState>>
  \/ part = "compare" /\ ComparisonNext
     /\ UNCHANGED <<part, streamState, viewsState, pageState, leaseState, cacheState, modelState, alertsState, chartState, postsState>>
  \/ part = "chart" /\ ChartNext
     /\ UNCHANGED <<part, streamState, viewsState, pageState, leaseState, cacheState, modelState, alertsState, compareState, postsState>>
  \/ part = "posts" /\ Social!Next
     /\ UNCHANGED <<part, streamState, viewsState, pageState, leaseState, cacheState, modelState, alertsState, compareState, chartState>>

AllSpec == AllInit /\ [][AllNext]_allVars

\* Every variable of the component at work keeps its type.
TypesOK ==
  /\ part = "stream" => TypeOK
  /\ part = "views" => PublicationTypeOK
  /\ part = "page" => Page!TypeOK
  /\ part = "lease" => LeaseTypeOK
  /\ part = "cache" => CacheTypeOK
  /\ part = "model" => ModelTypeOK
  /\ part = "alerts" => Alerts!TypeOK
  /\ part = "compare" => ComparisonTypeOK
  /\ part = "chart" => ChartTypeOK
  /\ part = "posts" => Social!TypeOK

\* Every row is shown as of the revision the page names or the later one it
\* was merged at, and no frame is missing from a streaming page
\* (dashboard.js, acceptSnapshot and applyProjection).
PageConsistent == part = "page" => Page!PageConsistent

\* Each alert goes out at most once, in its rhythm, to the chat that is
\* bound, for a transition that happened; every post up to the checkpoint has
\* its facts, and every read was paid for.
AlertsAndMentionsKept ==
  /\ part = "alerts" => Alerts!AlertsSound
  /\ part = "posts" => Social!MentionsKept

=============================================================================
