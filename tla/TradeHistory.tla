---------------------------- MODULE TradeHistory ----------------------------
(*************************************************************************)
(* The trade history of one asset (collectors/trades.py and the trade    *)
(* tables of db.py).  A round reads the newest page of the provider,     *)
(* notes the gap below it when the page does not reach the newest stored *)
(* trade, walks one older gap back by one page, and rebuilds the bars.   *)
(* trade_coverage holds the intervals the collector claims to have       *)
(* watched without a gap; a closed bar inside them is published as       *)
(* complete, and an empty one as a proven zero.                          *)
(*                                                                       *)
(* A trade is its number at the provider.  The rounds of an asset never  *)
(* overlap (_inflight), and a turn that expires cancels its round at     *)
(* whatever it waits for.  Left out: the rate of rounds (queue.due), the *)
(* trades announced to open pages, the seven days of retention.          *)
(*************************************************************************)
EXTENDS Integers, Sequences, FiniteSets, FiniteSetsExt

CONSTANTS
  PageSize,    \* trades on a page of the provider (100 in the code)
  Keep,        \* trades the provider still lists
  Width,       \* length of a bar
  Weather,     \* of "tie": two trades may carry the same time; "late fault": a
               \* round may end between its writes; "busy": a page of trades may
               \* happen while the head is on its way
  MaxTrades,   \* bound: trades made
  MaxNow,      \* bound: the clock
  MaxFaults    \* bound: rounds cut short and pages refused

VARIABLES
  made,      \* the provider's trades: the time of each
  now,       \* the clock; a trade carries the time it was made at
  stored,    \* trades: the numbers of the stored ones
  gaps,      \* the stored trade-gaps checkpoint
  coverage,  \* trade_coverage: intervals <<start, end>>
  tradeAt,   \* asset.tradeAt, 0 before the first full round
  buckets,   \* trade_buckets: the closed bars marked complete, with their trades
  round,     \* the round at work
  faults

vars == <<made, now, stored, gaps, coverage, tradeAt, buckets, round, faults>>

Trades == 1..Len(made)
Idle == [pc |-> "idle"]
Any(kind) == kind \in Weather

TimesOf(S) == {made[i] : i \in S}

\* The page of trades older than trade i, newest first at the provider.
Page(i) == {j \in Trades : j < i /\ j >= i - PageSize /\ j > Len(made) - Keep}

Covers(S, s, e) == \A t \in s..(e - 1) : \E iv \in S : iv[1] <= t /\ t < iv[2]

TypeOK ==
  /\ made \in Seq(1..MaxNow) /\ now \in 1..MaxNow
  /\ stored \subseteq Trades /\ tradeAt \in 0..MaxNow
  /\ \A g \in gaps : g.from \in 0..MaxNow /\ g.to \in 0..MaxNow /\ g.cursor \in Trades
  /\ coverage \subseteq (0..MaxNow) \X (0..MaxNow)
  /\ \A b \in DOMAIN buckets : buckets[b] \subseteq Trades
  /\ round.pc \in {"idle", "head", "store", "note", "cover", "walk", "older",
                   "advance", "save", "rebuild", "patch"}
  /\ faults \in 0..MaxFaults

Init ==
  /\ made = <<>> /\ now = 1 /\ stored = {} /\ gaps = {} /\ coverage = {}
  /\ tradeAt = 0 /\ buckets = <<>> /\ round = Idle /\ faults = 0

------------------------------------------------------------------------------
\* Somebody trades at the provider.
Trade ==
  /\ Len(made) < MaxTrades
  /\ round.pc = "head" /\ ~Any("busy") =>
       Cardinality({i \in Trades : made[i] >= round.observed}) + 1 < PageSize
  /\ made' = Append(made, now)
  /\ \E later \in IF Any("tie") THEN {0, 1} ELSE {1} : now + later <= MaxNow /\ now' = now + later
  /\ UNCHANGED <<stored, gaps, coverage, tradeAt, buckets, round, faults>>

Wait ==
  /\ now < MaxNow
  /\ now' = now + 1
  /\ UNCHANGED <<made, stored, gaps, coverage, tradeAt, buckets, round, faults>>

\* A round reads the asset, its newest stored trade and the gap checkpoint.
Start ==
  /\ round = Idle
  /\ round' = [pc |-> "head", observed |-> now, since |-> tradeAt, gaps |-> gaps,
               target |-> IF stored = {} THEN 0 ELSE Max(TimesOf(stored))]
  /\ UNCHANGED <<made, now, stored, gaps, coverage, tradeAt, buckets, faults>>

\* merge_gaps keeps an interval that is already there under its identity.
Merged(existing, gap) ==
  IF \E g \in existing : g.id = gap.id THEN existing ELSE existing \cup {gap}

\* A full page that does not reach the newest stored trade leaves a gap, a
\* full first page one down to the start of the history.
GapBelow(head) ==
  Cardinality(head) >= PageSize /\ Min(TimesOf(head)) > round.target

ReadHead ==
  LET head == Page(Len(made) + 1)
      gap == IF GapBelow(head)
             THEN LET oldest == Min(TimesOf(head))
                  IN {[id |-> <<round.target, oldest>>, from |-> round.target, to |-> oldest,
                       cursor |-> Min(head),
                       seenFrom |-> IF round.since = 0 THEN round.target ELSE round.since,
                       seenTo |-> round.observed]}
             ELSE {}
  IN /\ round.pc = "head"
     /\ round' = [pc |-> "store", observed |-> round.observed, since |-> round.since,
                  page |-> head, whole |-> gap = {},
                  gaps |-> IF gap = {} THEN round.gaps
                           ELSE Merged(round.gaps, CHOOSE g \in gap : TRUE)]
     /\ UNCHANGED <<made, now, stored, gaps, coverage, tradeAt, buckets, faults>>

StoreHead ==
  /\ round.pc = "store"
  /\ stored' = stored \cup round.page
  /\ round' = [round EXCEPT !.pc = "note"]
  /\ UNCHANGED <<made, now, gaps, coverage, tradeAt, buckets, faults>>

NoteGaps ==
  /\ round.pc = "note"
  /\ gaps' = round.gaps
  /\ round' = [round EXCEPT !.pc = "cover"]
  /\ UNCHANGED <<made, now, stored, coverage, tradeAt, buckets, faults>>

\* record_trade_observation ignores an interval without a start or a length.
Observed(s, e) == IF s > 0 /\ e > s THEN {<<s, e>>} ELSE {}

\* Since the last full round nothing was missed, unless this page left a gap.
CoverHead ==
  /\ round.pc = "cover"
  /\ coverage' = coverage \cup (IF round.whole THEN Observed(round.since, round.observed) ELSE {})
  /\ round' = [round EXCEPT !.pc = IF round.gaps = {} THEN "save" ELSE "walk"]
  /\ UNCHANGED <<made, now, stored, gaps, tradeAt, buckets, faults>>

\* One gap is walked a page further; which one is due is left open.
ReadOlder ==
  /\ round.pc = "walk"
  /\ \E g \in round.gaps :
       round' = [pc |-> "older", observed |-> round.observed, gaps |-> round.gaps,
                 gap |-> g, page |-> Page(g.cursor)]
  /\ UNCHANGED <<made, now, stored, gaps, coverage, tradeAt, buckets, faults>>

\* The page is refused, it or what is stored of it fails, or no gap is due:
\* the round goes on, the gap stays.
SkipOlder ==
  /\ round.pc \in {"walk", "advance"}
  /\ round' = [round EXCEPT !.pc = "save"]
  /\ UNCHANGED <<made, now, stored, gaps, coverage, tradeAt, buckets, faults>>

StoreOlder ==
  /\ round.pc = "older"
  /\ stored' = stored \cup round.page
  /\ round' = [round EXCEPT !.pc = "advance"]
  /\ UNCHANGED <<made, now, gaps, coverage, tradeAt, buckets, faults>>

ArrivedAnywhere(page, gap) == page # {}

\* The walk has arrived when the page reaches the lower edge of the gap.
Arrived(page, gap) == page # {} /\ Min(TimesOf(page)) <= gap.from

\* An arrived gap is closed and its interval counts as watched; otherwise its
\* cursor moves to the oldest trade of the page (an empty page moves nothing).
AdvanceGap ==
  LET g == round.gap
      rest == round.gaps \ {g}
      oldest == Min(round.page)
  IN /\ round.pc = "advance"
     /\ IF Arrived(round.page, g)
        THEN /\ coverage' = coverage \cup Observed(g.seenFrom, g.seenTo)
             /\ round' = [round EXCEPT !.pc = "save", !.gaps = rest]
        ELSE /\ round' = [round EXCEPT !.pc = "save", !.gaps =
                            IF round.page = {} THEN @
                            ELSE rest \cup {[g EXCEPT !.cursor = oldest,
                                                      !.to = Min({g.to, made[oldest]})]}]
             /\ UNCHANGED coverage
     /\ UNCHANGED <<made, now, stored, gaps, tradeAt, buckets, faults>>

SaveGaps ==
  /\ round.pc = "save"
  /\ gaps' = round.gaps
  /\ round' = [round EXCEPT !.pc = "rebuild"]
  /\ UNCHANGED <<made, now, stored, coverage, tradeAt, buckets, faults>>

\* A bar of the round's time is complete when it is over and wholly watched
\* (to 98 % in the code).
Complete(b) ==
  (b + 1) * Width <= round.observed /\ Covers(coverage, b * Width, (b + 1) * Width)

InBar(i, b) == made[i] \div Width = b

\* rebuild_trade_buckets: all bars from the stored trades and intervals, read
\* and published under one check (no other writer has this asset).
Rebuild ==
  /\ round.pc = "rebuild"
  /\ buckets' = [b \in {x \in 0..(MaxNow \div Width) : Complete(x)} |->
                   {i \in stored : InBar(i, b)}]
  /\ round' = [round EXCEPT !.pc = "patch"]
  /\ UNCHANGED <<made, now, stored, gaps, coverage, tradeAt, faults>>

\* merge_asset_observation moves tradeAt; the job checkpoint ends the round.
Patch ==
  /\ round.pc = "patch"
  /\ tradeAt' = round.observed
  /\ round' = Idle
  /\ UNCHANGED <<made, now, stored, gaps, coverage, buckets, faults>>

\* An error or the end of the turn: what the round held in memory is lost.
CutShort ==
  /\ round.pc \in {"head", "store"} \cup
       (IF Any("late fault") THEN {"note", "cover", "walk", "older", "advance", "save", "rebuild", "patch"}
        ELSE {})
  /\ faults < MaxFaults /\ faults' = faults + 1
  /\ round' = Idle
  /\ UNCHANGED <<made, now, stored, gaps, coverage, tradeAt, buckets>>

Next ==
  \/ Trade \/ Wait
  \/ Start \/ ReadHead \/ StoreHead \/ NoteGaps \/ CoverHead
  \/ ReadOlder \/ SkipOlder \/ StoreOlder \/ AdvanceGap \/ SaveGaps
  \/ Rebuild \/ Patch
  \/ CutShort

Spec == Init /\ [][Next]_vars

------------------------------------------------------------------------------
\* Every interval recorded as watched without a gap really is: no trade of the
\* provider inside it is missing from the store, and so a bar published as
\* complete counts every trade of its period (record_trade_observation and
\* rebuild_trade_buckets: "empty bars are written only where successful
\* catch-up intervals prove that the provider was observed").
HistoryTrue ==
  /\ \A iv \in coverage : \A i \in Trades :
       iv[1] <= made[i] /\ made[i] < iv[2] => i \in stored
  /\ \A b \in DOMAIN buckets : buckets[b] = {i \in Trades : InBar(i, b)}
=============================================================================
