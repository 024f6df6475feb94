------------------------------- MODULE TradeTape -------------------------------
(***************************************************************************)
(* What ChainPoolStream does with one decoded swap (collectors/             *)
(* chain_stream.py): the raw log, the trade of every market of its pool,   *)
(* the candles it falls in, the current candle of the market, and the way  *)
(* back when its block is removed, under leases of candle watches, elapsed *)
(* bars, retention and crashes.                                             *)
(*                                                                         *)
(* A swap is its number in source order (block, transaction, log index). A *)
(* candle keeps how often each swap was counted, which stands for volumes, *)
(* and its first and last swap, which stand for open and close.            *)
(***************************************************************************)
EXTENDS Integers, SequencesExt, FiniteSetsExt

CONSTANTS
  Time,         \* sequence: when swap x happened, BAR_MS units
  NumMarkets,   \* bases(pool), in order
  Width,        \* [bar |-> width], the bars of BAR_MS
  BaseBars,     \* always folded; the others only while watched
  MaxLate,      \* bound: how late a swap arrives or is removed
  Retain,       \* tape_cutoff
  LogRetain,    \* cutoff of the raw logs
  MaxClock, MaxFaults, MaxRetracts,  \* bounds
  None

Markets == 1..NumMarkets
Swaps == DOMAIN Time
Bars == DOMAIN Width
Opened(b, x) == (Time[x] \div Width[b]) * Width[b]
Slots == Markets \X {<<b, Opened(b, x)>> : b \in Bars, x \in Swaps}
Slot(m, b, x) == <<m, <<b, Opened(b, x)>>>>
BarOf(s) == s[2][1]
OpenOf(s) == s[2][2]

\* Source order, and a late swap of the widest bar still finds its period.
TapeAssumption ==
  /\ \A x, y \in Swaps : x < y => Time[x] <= Time[y]
  /\ \A b \in Bars : MaxLate + Width[b] <= Retain

VARIABLES
  clock,
  logs,      \* chain_stream_logs: none, pending (processed=0), processed
  trades,    \* trades: <<market, swap>>
  acc,       \* pool-candle-acc
  candle,    \* candles
  current,   \* market-candle
  watched,   \* watched_bars
  work,      \* what the holder of self.lock is doing
  due,       \* the rows close_elapsed_bars has selected
  accepted,  \* history: committed and not retracted since
  retracts, faults

tables == <<logs, trades, acc, candle, current>>
vars == <<clock, tables, watched, work, due, accepted, retracts, faults>>

Candles == [t : Nat, counted : [Swaps -> Nat], first : Swaps, last : Swaps, confirmed : BOOLEAN]
TypeOK ==
  /\ clock \in 0..MaxClock
  /\ logs \in [Swaps -> {"none", "pending", "processed"}]
  /\ trades \subseteq accepted /\ accepted \subseteq Markets \X Swaps
  /\ \A s \in Slots : {acc[s], candle[s]} \subseteq Candles \cup {None}
  /\ \A c \in Markets \X Bars : current[c] \in Candles \cup {None}
  /\ watched \subseteq Bars \ BaseBars /\ due \subseteq Slots
  /\ work # None => work.op \in {"commit", "retract"} /\ work.next \in 1..NumMarkets + 1

Init ==
  /\ clock = 0 /\ logs = [x \in Swaps |-> "none"] /\ trades = {}
  /\ acc = [s \in Slots |-> None] /\ candle = acc
  /\ current = [c \in Markets \X Bars |-> None]
  /\ watched = {} /\ work = None /\ due = {} /\ accepted = {}
  /\ retracts = 0 /\ faults = 0

-----------------------------------------------------------------------------
(* trade_to_candle and the rebuild from stored trades.                      *)

TradeToCandle(previous, x, b) ==
  IF previous = None \/ previous.t # Opened(b, x)
  THEN [t |-> Opened(b, x), counted |-> [y \in Swaps |-> IF y = x THEN 1 ELSE 0],
        first |-> x, last |-> x, confirmed |-> FALSE]
  ELSE [previous EXCEPT !.counted[x] = @ + 1,
                        !.first = IF x < @ THEN x ELSE @, !.last = IF x >= @ THEN x ELSE @]

InPeriod(stored, s) ==
  {x \in Swaps : <<s[1], x>> \in stored /\ Time[x] \in OpenOf(s)..OpenOf(s) + Width[BarOf(s)] - 1}

Rebuilt(stored, s) ==
  FoldLeft(LAMBDA c, x : TradeToCandle(c, x, BarOf(s)), None,
           SetToSortSeq(InPeriod(stored, s), <))

Elapsed(s) == OpenOf(s) + Width[BarOf(s)] <= clock
Stamped(c, s) == IF c = None THEN None ELSE [c EXCEPT !.confirmed = Elapsed(s)]

-----------------------------------------------------------------------------
(* process_log under self.lock: one transaction per market.                 *)

Receive(x) ==
  /\ work = None /\ logs[x] # "processed"
  /\ clock - Time[x] \in 0..MaxLate
  /\ work' = [op |-> "commit", swap |-> x, next |-> 1]
  /\ UNCHANGED <<clock, tables, watched, due, accepted, retracts, faults>>

\* Mutant: the raw log is left to the end of process_log.
LogLater(x) == logs
\* The first market's transaction also stores the raw log, a duplicate's too.
WithLog(x) == IF work.next = 1 /\ logs[x] = "none" THEN [logs EXCEPT ![x] = "pending"] ELSE logs

\* Mutant: the rebuilt candle already holds the new trade, and it is folded in.
FoldedTwice(s, x) == TradeToCandle(IF acc[s] # None THEN acc[s]
                                   ELSE Rebuilt(trades \cup {<<s[1], x>>}, s), x, BarOf(s))

\* The accumulator takes the trade; without one the stored trades are folded.
Folded(s, x) ==
  IF acc[s] # None THEN TradeToCandle(acc[s], x, BarOf(s))
  ELSE Rebuilt(trades \cup {<<s[1], x>>}, s)

FoldedBars == BaseBars \cup watched

\* _commit_trade_once
Commit(m) ==
  /\ work # None /\ work.op = "commit" /\ work.next = m /\ m \in Markets
  /\ LET x == work.swap
         mine == {Slot(m, b, x) : b \in FoldedBars}
         New(s) == Stamped(Folded(s, x), s)
     IN IF <<m, x>> \in trades
        THEN UNCHANGED <<trades, acc, candle, current, accepted>>
        ELSE /\ trades' = trades \cup {<<m, x>>} /\ accepted' = accepted \cup {<<m, x>>}
             /\ acc' = [s \in Slots |-> IF s \in mine THEN New(s) ELSE acc[s]]
             /\ candle' = [s \in Slots |-> IF s \in mine THEN New(s) ELSE candle[s]]
             /\ current' = [c \in Markets \X Bars |->
                  IF c[1] = m /\ c[2] \in FoldedBars
                     /\ (current[c] # None => Opened(c[2], x) >= current[c].t)
                  THEN New(Slot(m, c[2], x)) ELSE current[c]]
  /\ logs' = WithLog(work.swap)
  /\ work' = [work EXCEPT !.next = m + 1]
  /\ UNCHANGED <<clock, watched, due, retracts, faults>>

MarkProcessed ==
  /\ work # None /\ work.op = "commit" /\ work.next > NumMarkets
  /\ logs' = [logs EXCEPT ![work.swap] = IF @ = "none" THEN "none" ELSE "processed"]
  /\ work' = None
  /\ UNCHANGED <<clock, trades, acc, candle, current, watched, due, accepted, retracts, faults>>

\* The process stops, or a transaction fails: what is committed stays.
Crash ==
  /\ work # None \/ due # {} \/ watched # {}
  /\ faults < MaxFaults /\ faults' = faults + 1
  /\ work' = None /\ due' = {} /\ watched' \in {watched, {}}
  /\ UNCHANGED <<clock, tables, accepted, retracts>>

-----------------------------------------------------------------------------
(* retract_block: every base of every logged swap, then the log.            *)

StartRetract(x) ==
  /\ work = None /\ logs[x] # "none" /\ clock - Time[x] <= MaxLate
  /\ retracts < MaxRetracts /\ retracts' = retracts + 1
  /\ work' = [op |-> "retract", swap |-> x, next |-> 1]
  /\ UNCHANGED <<clock, tables, watched, due, accepted, faults>>

\* The current candle of the corrected period is corrected or goes with it.
CurrentAfter(c, fresh) ==
  LET s == <<c[1], <<c[2], current[c].t>>>>
  IN IF current[c] # None /\ s \in DOMAIN fresh THEN fresh[s] ELSE current[c]

\* retract_trade
RetractTrade(m) ==
  /\ work # None /\ work.op = "retract" /\ work.next = m /\ m \in Markets
  /\ LET x == work.swap
         left == trades \ {<<m, x>>}
         hit == {s \in {Slot(m, b, x) : b \in Bars} : candle[s] # None}  \* watched or not
         fresh == [s \in hit |-> Stamped(Rebuilt(left, s), s)]
     IN IF <<m, x>> \notin trades
        THEN UNCHANGED <<trades, acc, candle, current, accepted>>
        ELSE /\ trades' = left /\ accepted' = accepted \ {<<m, x>>}
             /\ acc' = [s \in Slots |-> IF s \in hit THEN fresh[s] ELSE acc[s]]
             /\ candle' = [s \in Slots |-> IF s \in hit THEN fresh[s] ELSE candle[s]]
             /\ current' = [c \in Markets \X Bars |-> CurrentAfter(c, fresh)]
  /\ work' = [work EXCEPT !.next = m + 1]
  /\ UNCHANGED <<clock, logs, watched, due, retracts, faults>>

DropLog ==
  /\ work # None /\ work.op = "retract" /\ work.next > NumMarkets
  /\ logs' = [logs EXCEPT ![work.swap] = "none"] /\ work' = None
  /\ UNCHANGED <<clock, trades, acc, candle, current, watched, due, accepted, retracts, faults>>

-----------------------------------------------------------------------------
(* Housekeeping, outside self.lock.                                         *)

\* close_elapsed_bars reads the due rows before it takes the write lock ...
SelectElapsed ==
  /\ due = {}
  /\ due' = {s \in Slots : candle[s] # None /\ ~candle[s].confirmed /\ Elapsed(s)}
  /\ due' # {}
  /\ UNCHANGED <<clock, tables, watched, work, accepted, retracts, faults>>

\* ... and looks at each of them again under it.
CloseBar(s) ==
  /\ s \in due /\ due' = due \ {s}
  /\ LET open == candle[s] # None /\ ~candle[s].confirmed /\ acc[s] # None
         closed == [acc[s] EXCEPT !.confirmed = TRUE]
         c == <<s[1], BarOf(s)>>
     IN IF open
        THEN /\ acc' = [acc EXCEPT ![s] = closed] /\ candle' = [candle EXCEPT ![s] = closed]
             /\ current' = IF current[c] # None /\ current[c].t = OpenOf(s)
                           THEN [current EXCEPT ![c] = closed] ELSE current
        ELSE UNCHANGED <<acc, candle, current>>
  /\ UNCHANGED <<clock, logs, trades, watched, work, accepted, retracts, faults>>

\* refresh_watches
Watch(b) ==
  /\ b \in Bars \ BaseBars /\ b \notin watched
  /\ watched' = watched \cup {b}
  /\ UNCHANGED <<clock, tables, work, due, accepted, retracts, faults>>

Lapse(b) ==
  /\ b \in watched /\ watched' = watched \ {b}
  /\ UNCHANGED <<clock, tables, work, due, accepted, retracts, faults>>

\* The retention at the end of a pools pass: trades, processed logs, accumulators.
PruneTrades ==
  /\ \E t \in trades : Time[t[2]] < clock - Retain
  /\ trades' = {t \in trades : Time[t[2]] >= clock - Retain}
  /\ UNCHANGED <<clock, logs, acc, candle, current, watched, work, due, accepted, retracts, faults>>

PruneLogs ==
  /\ \E x \in Swaps : logs[x] = "processed" /\ Time[x] < clock - LogRetain
  /\ logs' = [x \in Swaps |-> IF logs[x] = "processed" /\ Time[x] < clock - LogRetain
                              THEN "none" ELSE logs[x]]
  /\ UNCHANGED <<clock, trades, acc, candle, current, watched, work, due, accepted, retracts, faults>>

PruneAccumulators ==
  /\ \E s \in Slots : acc[s] # None /\ OpenOf(s) < clock - Retain
  /\ acc' = [s \in Slots |-> IF OpenOf(s) < clock - Retain THEN None ELSE acc[s]]
  /\ UNCHANGED <<clock, logs, trades, candle, current, watched, work, due, accepted, retracts, faults>>

\* self.lock is not held past MaxLate.
Tick ==
  /\ clock < MaxClock /\ clock' = clock + 1
  /\ work # None => clock' - Time[work.swap] <= MaxLate
  /\ UNCHANGED <<tables, watched, work, due, accepted, retracts, faults>>

Next ==
  \/ \E x \in Swaps : Receive(x) \/ StartRetract(x)
  \/ \E m \in Markets : Commit(m) \/ RetractTrade(m)
  \/ MarkProcessed \/ DropLog \/ Crash
  \/ SelectElapsed \/ \E s \in Slots : CloseBar(s)
  \/ \E b \in Bars : Watch(b) \/ Lapse(b)
  \/ PruneTrades \/ PruneLogs \/ PruneAccumulators \/ Tick

Spec == Init /\ [][Next]_vars

-----------------------------------------------------------------------------
CountedIn(s) == {x \in Swaps : candle[s].counted[x] > 0}

\* A candle counts no swap twice and none that is not of its period or was
\* removed, opens with the first and closes with the last it counts, and is
\* confirmed only when it is over, whatever arrived late, twice or after a
\* crash, and whatever was rebuilt or pruned since.  A bar that is always folded
\* has its candle, and counts every swap of the period.
CandleExact ==
  \A s \in Slots :
    LET tape == InPeriod(accepted, s)
    IN /\ candle[s] # None =>
            /\ CountedIn(s) \subseteq tape /\ \A x \in tape : candle[s].counted[x] <= 1
            /\ candle[s].first = Min(CountedIn(s)) /\ candle[s].last = Max(CountedIn(s))
            /\ candle[s].confirmed => Elapsed(s)
       /\ BarOf(s) \in BaseBars /\ tape # {} => candle[s] # None /\ CountedIn(s) = tape

\* The current candle of a market is the row of that period in candles, before
\* and after the bar closes, late swaps, removals and the loss of the period.
CurrentShowsTape ==
  \A c \in Markets \X Bars :
    current[c] # None => candle[<<c[1], <<c[2], current[c].t>>>>] = current[c]

\* While a block can still be removed, every trade of its swap is reachable from
\* its raw log, also where a crash fell between the markets' transactions.
EveryTradeRetractable ==
  \A t \in trades : Time[t[2]] >= clock - LogRetain => logs[t[2]] # "none"

\* Both: stored candles and the current one tell the tape.
CandlesTrue == CandleExact /\ CurrentShowsTape

=============================================================================
