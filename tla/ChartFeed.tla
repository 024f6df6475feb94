----------------------------- MODULE ChartFeed -----------------------------
(***************************************************************************)
(* The live chart of one pool: its journal in the market database, the     *)
(* one reader of a query process that serves all charts (MarketHub), the   *)
(* stream of one chart (api/live_market.py, market_frames) and the tab     *)
(* that draws it (live-market-stream.js, CandleChart.vue).                  *)
(*                                                                         *)
(* Abstracted: the rows of a chart are the set of events they reflect.     *)
(* Queue, replay page and journal hold ids in ascending order, so a set is *)
(* read from its minimum.  A frame is received when it is sent, or never:  *)
(* the connection keeps the order and loses what is under way at its end.  *)
(* One chart; others share the reader and the database reads with it.      *)
(***************************************************************************)
EXTENDS Integers, FiniteSets

CONSTANTS
  QueueLimit,   \* QUEUE_LIMIT
  ReplayLimit,  \* REPLAY_LIMIT
  ReadLimit,    \* rows of one read of the hub
  NoRead,
  MaxEvents, MaxChartFaults

ChartAssumption ==
  /\ QueueLimit \in Nat \ {0} /\ ReplayLimit \in Nat /\ ReadLimit \in Nat \ {0}
  /\ MaxEvents \in Nat /\ MaxChartFaults \in Nat

VARIABLES
  written,   \* the last id given to an event (AUTOINCREMENT)
  removed,   \* events up to here left the journal
  own,       \* the events of this chart's pool and bar
  resets,    \* ... that withdraw candles (candle-reset)
  hub,       \* the reader: its task and cursor
  ready,     \* hub.ready
  response,  \* the stream of this chart
  read,      \* the shared database read in flight
  tab,       \* what the tab is doing, its cursor
  shown,     \* the events the chart reflects
  hurt,      \* history: since the last snapshot one of four races happened
  chartFaults

chartJournalVars == <<written, removed, own, resets>>
chartHubVars == <<hub, ready>>
tabVars == <<tab, shown>>
chartVars == <<chartJournalVars, chartHubVars, response, read, tabVars, hurt, chartFaults>>

Larger(a, b) == IF a >= b THEN a ELSE b
Smaller(a, b) == IF a <= b THEN a ELSE b

ChartJournal == removed + 1..written
FirstEvent == IF ChartJournal = {} THEN 0 ELSE removed + 1
LastEvent == IF ChartJournal = {} THEN 0 ELSE written

NoResponse == [at |-> "none"]
Loading == [at |-> "loading", cursor |-> 0, known |-> 0]
\* Among hub.clients.
Attached == response.at \notin {"none", "opening"}
\* What the replay is for ends here, and the queue begins.
Base == IF response.at = "live" THEN response.last ELSE response.high
Resumed == response.at \in {"bounded", "replay", "live"}

ChartInit ==
  /\ written = 0 /\ removed = 0 /\ own = {} /\ resets = {}
  /\ hub = [task |-> "none", cursor |-> 0] /\ ready = FALSE
  /\ response = NoResponse /\ read = NoRead
  /\ tab = Loading /\ shown = {}
  /\ hurt = FALSE /\ chartFaults = 0

-----------------------------------------------------------------------------
(* The journal.                                                             *)

\* A candle, or the withdrawal of candles, of this chart or of another one.
WriteEvent(mine, reset) ==
  /\ written < MaxEvents /\ written' = written + 1
  /\ own' = IF mine THEN own \cup {written + 1} ELSE own
  /\ resets' = IF mine /\ reset THEN resets \cup {written + 1} ELSE resets
  /\ UNCHANGED <<removed, chartHubVars, response, read, tabVars, hurt, chartFaults>>

\* prune_journal: the oldest ids, by number or by age.  It stays behind a hub
\* that runs: the hub reads ten times a second, what goes is an hour old.  The
\* replay is a statement of its own: retention may come between it and the bounds.
PruneJournal(n) ==
  /\ n \in ChartJournal /\ (hub.task = "running" => n <= hub.cursor)
  /\ removed' = n
  /\ hurt' = (hurt \/ (response.at = "bounded" /\ response.last < n))
  /\ UNCHANGED <<written, own, resets, chartHubVars, response, read, tabVars, chartFaults>>

-----------------------------------------------------------------------------
(* MarketHub.                                                               *)

\* start(), by any chart's request.  Charts that are attached have heard
\* nothing of what was written since the task died.
StartHub ==
  /\ hub.task \in {"none", "dead"} /\ hub' = [hub EXCEPT !.task = "starting"]
  /\ UNCHANGED <<chartJournalVars, ready, response, read, tabVars, hurt, chartFaults>>

\* run() begins behind the newest event.
OpenJournal ==
  /\ hub.task = "starting" /\ hub' = [task |-> "running", cursor |-> LastEvent]
  /\ ready' = TRUE
  /\ hurt' = (hurt \/ (Resumed /\ hub.cursor < written /\ Base < written))
  /\ UNCHANGED <<chartJournalVars, response, read, tabVars, chartFaults>>

\* Mutant: a full queue drops the frame and says nothing.
KeepFull(queue) ==
  IF Cardinality(queue) > QueueLimit THEN response ELSE [response EXCEPT !.queue = queue]
\* A full queue is replaced by the order to begin again.
Deliver(queue) ==
  IF Cardinality(queue) > QueueLimit
  THEN [response EXCEPT !.closed = TRUE, !.queue = {}]
  ELSE [response EXCEPT !.queue = queue]

\* One read and its delivery, with no await between the rows.
HubRead ==
  /\ hub.task = "running"
  /\ LET before == Larger(hub.cursor, removed)
         newest == Smaller(written, before + ReadLimit)
     IN /\ before < newest /\ hub' = [hub EXCEPT !.cursor = newest]
        /\ response' = IF Attached /\ ~response.closed
                       THEN Deliver(response.queue \cup {e \in own : before < e /\ e <= newest})
                       ELSE response
  /\ UNCHANGED <<chartJournalVars, ready, read, tabVars, hurt, chartFaults>>

\* A read fails; nothing restarts the task but the next request.
HubFails ==
  /\ hub.task \in {"starting", "running"} /\ hub' = [hub EXCEPT !.task = "dead"]
  /\ chartFaults < MaxChartFaults /\ chartFaults' = chartFaults + 1
  /\ UNCHANGED <<chartJournalVars, ready, response, read, tabVars, hurt>>

-----------------------------------------------------------------------------
(* _snapshot: one database read for all who ask while it is in flight.      *)

AskSnapshot ==
  /\ tab.at = "loading" /\ tab' = [tab EXCEPT !.at = "asked"]
  /\ read' = IF read = NoRead THEN [cursor |-> NoRead, upTo |-> 0] ELSE read
  /\ UNCHANGED <<chartJournalVars, chartHubVars, response, shown, hurt, chartFaults>>

\* Another chart of the pool asks.
OtherAsks ==
  /\ read = NoRead /\ read' = [cursor |-> NoRead, upTo |-> 0]
  /\ UNCHANGED <<chartJournalVars, chartHubVars, response, tabVars, hurt, chartFaults>>

\* _snapshot_database: candles and the journal's end in one read transaction.
ReadDatabase ==
  /\ read # NoRead /\ read.cursor = NoRead
  /\ read' = [cursor |-> LastEvent, upTo |-> written]
  /\ UNCHANGED <<chartJournalVars, chartHubVars, response, tabVars, hurt, chartFaults>>

Reflected(n) == {e \in own : e <= n}

\* loadCandles: the chart begins with the snapshot and connects behind it.
SnapshotShown ==
  /\ read # NoRead /\ read.cursor # NoRead /\ read' = NoRead
  /\ IF tab.at = "asked"
     THEN /\ tab' = [at |-> "open", cursor |-> read.cursor, known |-> read.upTo]
          /\ shown' = Reflected(read.upTo) /\ hurt' = FALSE
     ELSE UNCHANGED <<tabVars, hurt>>
  /\ UNCHANGED <<chartJournalVars, chartHubVars, response, chartFaults>>

LoadFails ==
  /\ read # NoRead /\ read' = NoRead
  /\ tab' = IF tab.at = "asked" THEN [tab EXCEPT !.at = "loading"] ELSE tab
  /\ chartFaults < MaxChartFaults /\ chartFaults' = chartFaults + 1
  /\ UNCHANGED <<chartJournalVars, chartHubVars, response, shown, hurt>>

-----------------------------------------------------------------------------
(* market_frames.                                                           *)

OpenStream ==
  /\ tab.at = "open" /\ response = NoResponse
  /\ response' = [at |-> "opening"]
  /\ UNCHANGED <<chartJournalVars, chartHubVars, read, tabVars, hurt, chartFaults>>

\* hub.start(), hub.ready, hub.clients.add
JoinHub ==
  /\ response.at = "opening" /\ ready
  /\ hub' = IF hub.task \in {"none", "dead"} THEN [hub EXCEPT !.task = "starting"] ELSE hub
  /\ response' = [at |-> "joined", last |-> tab.cursor, high |-> 0, page |-> {},
                  queue |-> {}, closed |-> FALSE]
  /\ UNCHANGED <<chartJournalVars, ready, read, tabVars, hurt, chartFaults>>

\* A reset frame: onReset drops the rows and loads a snapshot.
ResetTab ==
  /\ tab' = Loading /\ shown' = {} /\ hurt' = FALSE /\ response' = NoResponse
  /\ UNCHANGED <<chartJournalVars, chartHubVars, read, chartFaults>>

\* Mutant: one id too few.
ExpiredLate(last) == FirstEvent # 0 /\ last < FirstEvent - 2
JournalExpired(last) == FirstEvent # 0 /\ last < FirstEvent - 1

\* The bounds of the journal, the hello frame, and what cannot be resumed.  An
\* empty journal has no floor: a cursor of 0 passes as present.
CheckBounds ==
  /\ response.at = "joined"
  /\ IF JournalExpired(response.last) \/ response.last > LastEvent
     THEN ResetTab
     ELSE /\ response' = [response EXCEPT !.at = "bounded", !.high = LastEvent]
          /\ hurt' = (hurt \/ (ChartJournal = {} /\ tab.known < written))
          /\ UNCHANGED <<chartJournalVars, chartHubVars, read, tabVars, chartFaults>>

ReadReplay ==
  /\ response.at = "bounded"
  /\ LET rows == {e \in ChartJournal : response.last < e /\ e <= response.high}
     IN IF Cardinality(rows) > ReplayLimit
        THEN ResetTab
        ELSE /\ response' = [response EXCEPT !.at = "replay", !.page = rows \cap own]
             /\ UNCHANGED <<chartJournalVars, chartHubVars, read, tabVars, hurt, chartFaults>>

\* onCandle, or onReset for withdrawn candles.
Draw(e, next) ==
  IF e \in resets
  THEN response' = NoResponse /\ tab' = Loading /\ shown' = {} /\ hurt' = FALSE
  ELSE /\ response' = next /\ tab' = [tab EXCEPT !.cursor = Larger(e, @)]
       /\ shown' = shown \cup {e} /\ UNCHANGED hurt

First(e, s) == e \in s /\ \A f \in s : e <= f

SendReplay ==
  /\ response.at = "replay"
  /\ \/ /\ response.page = {}
        /\ response' = [response EXCEPT !.at = "live", !.last = response.high, !.high = 0]
        /\ UNCHANGED <<tabVars, hurt>>
     \/ \E e \in response.page :
          First(e, response.page) /\ Draw(e, [response EXCEPT !.page = @ \ {e}])
  /\ UNCHANGED <<chartJournalVars, chartHubVars, read, chartFaults>>

\* The next of the queue; what the replay had already is passed over.
SendLive ==
  /\ response.at = "live" /\ ~response.closed
  /\ \E e \in response.queue :
       /\ First(e, response.queue)
       /\ LET rest == [response EXCEPT !.queue = @ \ {e}]
          IN IF e <= response.last
             THEN response' = rest /\ UNCHANGED <<tabVars, hurt>>
             ELSE Draw(e, [rest EXCEPT !.last = e])
  /\ UNCHANGED <<chartJournalVars, chartHubVars, read, chartFaults>>

SlowConsumer ==
  /\ response.at = "live" /\ response.closed /\ ResetTab

\* Fifteen seconds without a frame: the cursor moves to the hub's.  A frame put
\* between the timeout and the turn of this task is then passed over.
Heartbeat ==
  /\ response.at = "live" /\ ~response.closed
  /\ hurt' = (hurt \/ \E e \in response.queue : e > response.last)
  /\ LET last == Larger(response.last, hub.cursor)
     IN /\ response' = [response EXCEPT !.last = last]
        /\ tab' = [tab EXCEPT !.cursor = Larger(last, @)]
  /\ hub.task # "dead"
  /\ UNCHANGED <<chartJournalVars, chartHubVars, read, shown, chartFaults>>

\* The timeout finds the hub's task ended.
HubLost ==
  /\ response.at = "live" /\ ~response.closed /\ hub.task = "dead" /\ ResetTab

\* The connection ends; the tab connects again with its own cursor.
ConnectionEnds ==
  /\ response # NoResponse /\ response' = NoResponse
  /\ chartFaults < MaxChartFaults /\ chartFaults' = chartFaults + 1
  /\ UNCHANGED <<chartJournalVars, chartHubVars, read, tabVars, hurt>>

\* The query process starts anew.
QueryRestarts ==
  /\ hub' = [task |-> "none", cursor |-> 0] /\ ready' = FALSE
  /\ response' = NoResponse /\ read' = NoRead
  /\ tab' = IF tab.at = "asked" THEN [tab EXCEPT !.at = "loading"] ELSE tab
  /\ chartFaults < MaxChartFaults /\ chartFaults' = chartFaults + 1
  /\ UNCHANGED <<chartJournalVars, shown, hurt>>

ChartNext ==
  \/ \E mine, reset \in BOOLEAN : WriteEvent(mine, reset)
  \/ \E n \in ChartJournal : PruneJournal(n)
  \/ StartHub \/ OpenJournal \/ HubRead \/ HubFails
  \/ AskSnapshot \/ OtherAsks \/ ReadDatabase \/ SnapshotShown \/ LoadFails
  \/ OpenStream \/ JoinHub \/ CheckBounds \/ ReadReplay
  \/ SendReplay \/ SendLive \/ SlowConsumer \/ Heartbeat \/ HubLost
  \/ ConnectionEnds \/ QueryRestarts

ChartSpec == ChartInit /\ [][ChartNext]_chartVars

-----------------------------------------------------------------------------
ChartTypeOK ==
  /\ written \in 0..MaxEvents /\ removed \in 0..written
  /\ own \subseteq 1..written /\ resets \subseteq own /\ shown \subseteq own
  /\ hub.task \in {"none", "starting", "running", "dead"} /\ hub.cursor \in 0..written
  /\ ready \in BOOLEAN /\ hurt \in BOOLEAN /\ chartFaults \in 0..MaxChartFaults
  /\ tab.at \in {"loading", "asked", "open"} /\ tab.cursor \in 0..written
  /\ Attached => /\ response.queue \subseteq own /\ response.page \subseteq own

\* A chart that is open reflects every event of its pool up to its cursor.
ChartComplete ==
  tab.at = "open" /\ ~hurt => \A e \in own : e <= tab.cursor => e \in shown

=============================================================================
