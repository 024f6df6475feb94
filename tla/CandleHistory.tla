---------------------------- MODULE CandleHistory ----------------------------
(*************************************************************************)
(* The candles of one exchange market and bar: live candles, written by  *)
(* the stream's writer (market_streams.py, flush), and pages of history  *)
(* read on demand (api/candles.py, candle_series, called by the          *)
(* collector of collectors/candles.py).  Both write the candles and the  *)
(* candle-meta fact; readers show a candle with the time up to which it  *)
(* was observed, taken from that fact (observation_rows).                *)
(*                                                                       *)
(* A candle is the moment up to which it holds the trades of its period; *)
(* at every moment somebody trades, and a trade at clock c is not yet in *)
(* what the exchange says at c.  Live messages are in order; those of a  *)
(* dead socket are lost.                                                 *)
(*************************************************************************)
EXTENDS Integers, Sequences, FiniteSets, FiniteSetsExt

CONSTANTS
  Width,       \* length of a bar
  PageMax,     \* bars of a page (1000 in the code)
  Overlap,     \* bars a refresh reads again (3)
  QueueMax,    \* live candles under way
  BatchRows,   \* rows of a transaction (64)
  Weather,     \* of "slow": a bar may close between the exchange's answer and
               \* its parsing; "late fault": a refresh may end between its writes
  MaxClock,    \* bound: the clock
  MaxPushes,   \* bound: updates of open candles
  MaxRefreshes,\* bound: refreshes
  MaxFaults    \* bound: failed and interrupted refreshes

VARIABLES
  clock,      \* time; the exchange's is the same
  queue,      \* live candles on their way to the writer
  candles,    \* stored: bar -> [upTo, confirmed]
  tail,       \* the market-candle fact: the latest live candle
  meta,       \* the candle-meta fact
  refresh,    \* the refresh at work
  first,      \* history: the first bar of the first page, or -1
  pushes, refreshes, faults

vars == <<clock, queue, candles, tail, meta, refresh, first, pushes, refreshes, faults>>

Bars == 0..(MaxClock \div Width)
BarOf(t) == t \div Width
End(b) == (b + 1) * Width
Idle == [pc |-> "idle"]
NoGap == [from |-> 1, to |-> 0]
GapBars(g) == g.from..g.to
Never == -1

NoMeta == [requestAt |-> Never, from |-> Never, tailAt |-> Never, sourceAt |-> Never,
           live |-> Never, gap |-> NoGap]

TypeOK ==
  /\ clock \in 0..MaxClock
  /\ \A i \in DOMAIN queue : queue[i].bar \in Bars /\ queue[i].at \in 0..MaxClock
  /\ Len(queue) <= QueueMax /\ DOMAIN candles \subseteq Bars
  /\ \A b \in DOMAIN candles : candles[b].upTo \in 0..MaxClock /\ candles[b].confirmed \in BOOLEAN
  /\ meta.requestAt \in -1..MaxClock /\ meta.sourceAt \in -1..MaxClock
  /\ refresh.pc \in {"idle", "asked", "answered", "store", "older", "note"}

Init ==
  /\ clock = 0 /\ queue = <<>>
  /\ candles = <<>> /\ tail = [bar |-> Never, at |-> Never, final |-> FALSE] /\ meta = NoMeta
  /\ refresh = Idle /\ first = Never /\ pushes = 0 /\ refreshes = 0 /\ faults = 0

\* The moments of bar b whose trades are in a candle read at moment u.
Content(b, u) == {t \in (b * Width)..(End(b) - 1) : t < u}

Fault == faults < MaxFaults /\ faults' = faults + 1

------------------------------------------------------------------------------
(* The exchange                                                           *)

Message(b, at) == [bar |-> b, at |-> at, final |-> End(b) <= at]

Sent(m) == Len(queue) < QueueMax /\ queue' = Append(queue, m)

\* An update of the open candle.
Push ==
  /\ pushes < MaxPushes /\ pushes' = pushes + 1
  /\ Sent(Message(BarOf(clock), clock))
  /\ UNCHANGED <<clock, candles, tail, meta, refresh, first, refreshes, faults>>

\* Time passes; the end of a bar sends its last candle, unless the socket is
\* down.
Tick ==
  /\ clock < MaxClock
  /\ "slow" \notin Weather /\ refresh.pc = "answered" => BarOf(clock + 1) = BarOf(clock)
  /\ clock' = clock + 1
  /\ IF BarOf(clock + 1) # BarOf(clock) THEN Sent(Message(BarOf(clock), clock + 1)) \/ UNCHANGED queue
     ELSE UNCHANGED queue
  /\ UNCHANGED <<candles, tail, meta, refresh, first, pushes, refreshes, faults>>

------------------------------------------------------------------------------
(* The writer of live candles                                             *)

\* Covered by a page that was asked for after the message was sent.
BehindHistory(m) ==
  /\ meta.from # Never /\ meta.from <= m.bar /\ m.bar <= meta.tailAt
  /\ m.at <= meta.requestAt

Outdated(m) ==
  \/ BehindHistory(m)
  \/ m.bar \in DOMAIN candles /\ candles[m.bar].confirmed /\ ~m.final
  \/ tail.bar = m.bar /\ (tail.at > m.at \/ (tail.final /\ ~m.final))

\* One transaction (coalescing is the matter of MarketWriter).
WriteLive ==
  LET m == Head(queue)
  IN /\ queue # <<>>
     /\ queue' = Tail(queue)
     /\ IF Outdated(m) THEN UNCHANGED <<candles, tail, meta>>
        ELSE /\ candles' = [b \in DOMAIN candles \cup {m.bar} |->
                              IF b = m.bar THEN [upTo |-> m.at, confirmed |-> m.final] ELSE candles[b]]
             /\ IF m.bar >= tail.bar
                THEN tail' = m /\ meta' = [meta EXCEPT !.sourceAt = Max({@, m.at}), !.live = m.bar]
                ELSE UNCHANGED <<tail, meta>>
     /\ UNCHANGED <<clock, refresh, first, pushes, refreshes, faults>>

------------------------------------------------------------------------------
(* A refresh of the history                                               *)

\* exchange_history_limit: the bars since the last page, and some again.
Limit(m) == IF m.tailAt = Never THEN PageMax
            ELSE Min({PageMax, Max({Overlap, BarOf(clock) - m.tailAt + Overlap})})

Ask ==
  /\ refresh = Idle /\ refreshes < MaxRefreshes
  /\ refreshes' = refreshes + 1
  /\ refresh' = [pc |-> "asked", started |-> clock, previous |-> meta, limit |-> Limit(meta)]
  /\ UNCHANGED <<clock, queue, candles, tail, meta, first, pushes, faults>>

Page(limit) == {b \in Bars : b <= BarOf(clock) /\ b > BarOf(clock) - limit}

\* The exchange answers with the candles as they are.
Answer ==
  /\ refresh.pc = "asked"
  /\ refresh' = [pc |-> "answered", started |-> refresh.started, previous |-> refresh.previous,
                 readAt |-> clock, page |-> Page(refresh.limit)]
  /\ UNCHANGED <<clock, queue, candles, tail, meta, first, pushes, refreshes, faults>>

\* A bar that is over by the local clock counts as confirmed.
Rows(page, readAt) == [b \in page |-> [upTo |-> readAt, confirmed |-> End(b) <= clock]]
AllowedBlind(rows, started) == DOMAIN rows

\* A live candle since the request leaves only confirmed rows.
Allowed(rows, started) ==
  IF meta.sourceAt > started THEN {b \in DOMAIN rows : rows[b].confirmed} ELSE DOMAIN rows

Between(previous, rows) ==
  [from |-> previous.tailAt + 1, to |-> Min(DOMAIN rows) - 1]

\* exchange_gap_window: what lies between the old tail and this page joins
\* the gap that is already known.
GapWindow(previous, rows) ==
  LET old == previous.gap
      new == Between(previous, rows)
  IN IF previous.tailAt = Never \/ DOMAIN rows = {} \/ GapBars(new) = {} THEN old
     ELSE IF GapBars(old) = {} THEN new
     ELSE [from |-> Min({new.from, old.from}), to |-> Max({new.to, old.to})]

\* After the page: first the gap, if there is one, then the fact.
AfterPage(r, rows) ==
  LET gap == GapWindow(r.previous, rows)
  IN IF GapBars(gap) = {}
     THEN [pc |-> "note", started |-> r.started, gap |-> NoGap, ok |-> TRUE, previous |-> r.previous]
     ELSE [pc |-> "older", started |-> r.started, gap |-> gap, previous |-> r.previous]

Parse ==
  LET rows == Rows(refresh.page, refresh.readAt)
      kept == Allowed(rows, refresh.started)
  IN /\ refresh.pc = "answered"
     /\ refresh' = IF kept = {} THEN AfterPage(refresh, <<>>)
                   ELSE [pc |-> "store", started |-> refresh.started, previous |-> refresh.previous,
                         rows |-> [b \in kept |-> rows[b]], todo |-> kept]
     /\ UNCHANGED <<clock, queue, candles, tail, meta, first, pushes, refreshes, faults>>

\* CANDLE_UPDATE_WHERE: an unconfirmed row never replaces a confirmed one.
Supersedes(b, row) == b \notin DOMAIN candles \/ ~candles[b].confirmed \/ row.confirmed

Upserted(rows, batch) ==
  [b \in DOMAIN candles \cup batch |->
     IF b \in batch /\ Supersedes(b, rows[b]) THEN rows[b] ELSE candles[b]]

Batch(todo) == {b \in todo : Cardinality({x \in todo : x < b}) < BatchRows}

\* A transaction of the page: a newer page or a newer live candle is looked
\* for again; the clocks of the history move with what is stored.
StorePage ==
  LET rows == refresh.rows
      batch == Batch(refresh.todo) \cap Allowed(rows, refresh.started)
      rest == refresh.todo \ Batch(refresh.todo)
  IN /\ refresh.pc = "store"
     /\ meta.requestAt <= refresh.started
     /\ candles' = Upserted(rows, batch)
     /\ meta' = IF batch = {} THEN meta
                ELSE [meta EXCEPT !.requestAt = refresh.started, !.from = Min(DOMAIN rows),
                                  !.tailAt = Max(batch)]
     /\ first' = IF first = Never /\ batch # {} THEN Min(DOMAIN rows) ELSE first
     /\ refresh' = IF rest = {} THEN AfterPage(refresh, rows) ELSE [refresh EXCEPT !.todo = rest]
     /\ UNCHANGED <<clock, queue, tail, pushes, refreshes, faults>>

\* One page of the gap; if it is not answered the gap stays as it is.
ReadGap ==
  LET gap == refresh.gap
      end == Min({gap.to, gap.from + PageMax - 1})
      rows == Rows(gap.from..end, clock)
      batch == Allowed(rows, refresh.started)
      Left(g) == [pc |-> "note", started |-> refresh.started, gap |-> g, ok |-> TRUE,
                  previous |-> refresh.previous]
  IN /\ refresh.pc = "older"
     /\ \/ /\ refresh' = Left([gap EXCEPT !.from = end + 1])
           /\ candles' = Upserted(rows, batch) /\ UNCHANGED faults
        \/ /\ Fault /\ refresh' = Left(gap) /\ UNCHANGED candles
     /\ UNCHANGED <<clock, queue, tail, meta, first, pushes, refreshes>>

\* The request fails: what the fact said before the request is noted again.
Refuse ==
  /\ refresh.pc = "asked" /\ Fault
  /\ refresh' = [pc |-> "note", started |-> refresh.started, gap |-> NoGap, ok |-> FALSE,
                 previous |-> refresh.previous]
  /\ UNCHANGED <<clock, queue, candles, tail, meta, first, pushes, refreshes>>

Over(fact, noted) ==
  [f \in DOMAIN fact |-> IF f # "gap" /\ noted[f] = Never THEN fact[f] ELSE noted[f]]

\* _put_history_meta: the fact wins when it moved since the request, except
\* for the gap of a page that is the latest.
Note ==
  LET r == refresh
      older == Max({meta.sourceAt, meta.requestAt}) > r.started
      base == IF r.ok \/ older THEN meta ELSE Over(meta, r.previous)
      gap == IF meta.requestAt <= r.started /\ (r.ok \/ r.previous # NoMeta)
             THEN IF r.ok THEN r.gap ELSE r.previous.gap
             ELSE base.gap
  IN /\ r.pc = "note"
     /\ meta' = [base EXCEPT !.gap = gap]
     /\ refresh' = Idle
     /\ UNCHANGED <<clock, queue, candles, tail, first, pushes, refreshes, faults>>

\* The turn of the collector ends, or its process.
CutShort ==
  /\ refresh.pc \in {"asked", "answered"} \cup
       (IF "late fault" \in Weather THEN {"store", "older", "note"} ELSE {})
  /\ Fault
  /\ refresh' = Idle
  /\ UNCHANGED <<clock, queue, candles, tail, meta, first, pushes, refreshes>>

Next ==
  \/ Push \/ Tick
  \/ WriteLive
  \/ Ask \/ Answer \/ Parse \/ StorePage \/ ReadGap \/ Refuse \/ Note \/ CutShort

Spec == Init /\ [][Next]_vars

------------------------------------------------------------------------------
\* observation_rows: up to when a stored candle is said to be observed.
ObservedAt(b) ==
  Max({IF meta.from # Never /\ meta.from <= b /\ b <= meta.tailAt THEN meta.requestAt ELSE 0,
       IF b = meta.live THEN meta.sourceAt ELSE 0})

\* A candle holds every trade of its period up to the time it is shown as
\* observed ("snapshot watermarks are observations"), a confirmed one all its
\* trades; and every bar since the first page is stored or in the known gap
\* (the live writer and the refresh overtake each other at every step).
CandlesHonest ==
  /\ \A b \in DOMAIN candles :
       /\ Content(b, ObservedAt(b)) \subseteq Content(b, candles[b].upTo)
       /\ candles[b].confirmed => Content(b, candles[b].upTo) = Content(b, End(b))
  /\ refresh.pc \notin {"store", "older", "note"} =>
       \A b \in Bars : first # Never /\ first <= b /\ b <= meta.tailAt =>
         b \in DOMAIN candles \cup GapBars(meta.gap)
=============================================================================
