---------------------------- MODULE MarketWriter ----------------------------
(*************************************************************************)
(* The buffered writer of a market stream (market_streams.py,            *)
(* MarketStreamProcessor): connections put trades and quotes into a      *)
(* bounded queue; a task takes what is there, coalesces what is          *)
(* replaceable, and commits it in short transactions, the announcements  *)
(* of a trade with the trade.  A batch that fails is replayed as a whole *)
(* although parts of it are committed; a stop writes what is left, a     *)
(* crash loses it.  Between two transactions a retention pass may run:   *)
(* first what is over a day old, whatever its rank, then what is beyond  *)
(* the newest.  It chooses its rows without the writer lock, removes     *)
(* them in short transactions, and its failure is not the batch's.       *)
(*                                                                       *)
(* A trade is its number, which is its order in time; a quote is the     *)
(* pair of source clocks of its price and of its statistics (0: none).   *)
(* Which messages of a batch share a transaction is left open.  Candles  *)
(* are the matter of CandleHistory.                                      *)
(*************************************************************************)
EXTENDS Integers, Sequences, FiniteSets, SequencesExt, FiniteSetsExt

CONSTANTS
  Capacity,        \* places of the queue (4096 in the code)
  TakeMax,         \* messages the task gathers (1000)
  PartMax,         \* messages of a transaction (16)
  Retained,        \* newest trades of a day kept of a market (10000)
  MaxTrades,       \* bound: trades
  MaxClock,        \* bound: source clock of a quote
  MaxOffers,       \* bound: messages put
  MaxMarketFaults  \* bound: failures, crashes and removals by other writers

VARIABLES
  inbox,      \* self.queue: messages put and not yet taken
  pending,    \* the batch at work, kept until all of it is committed
  todo,       \* what this attempt has still to commit
  pc,         \* where the writer task is
  trades,     \* the stored trades
  announced,  \* the trades announced to readers
  quote,      \* the stored quote
  retention,  \* where the retention pass is
  cutoff,     \* trades up to here were over a day old when the last pass began
  candidates, \* rows chosen for removal outside the lock
  offers,     \* how many messages were put
  accepted,   \* what was put and not lost with the process: trades, newest clocks
  cut,        \* history: trades of the day that retention took from the newest
  marketFaults

retentionVars == <<retention, cutoff, candidates>>
marketVars == <<inbox, pending, todo, pc, trades, announced, quote, retentionVars,
                offers, accepted, cut, marketFaults>>

ASSUME MarketAssumption ==
  /\ {Capacity, TakeMax, PartMax, Retained} \subseteq Nat \ {0}
  /\ {MaxTrades, MaxClock} \subseteq Nat

Quotes == [price : 0..MaxClock, statistics : 0..MaxClock]
NoQuote == [price |-> 0, statistics |-> 0]
TradeMessages == [trade : 1..MaxTrades]
QuoteMessages == [quote : {q \in Quotes : q.price > 0}]
Messages == TradeMessages \cup QuoteMessages
IsTrade(m) == "trade" \in DOMAIN m
TradesOf(messages) == {m.trade : m \in {x \in messages : IsTrade(x)}}
QuotesOf(messages) == {m.quote : m \in {x \in messages : ~IsTrade(x)}}

MarketTypeOK ==
  /\ inbox \in Seq(Messages) /\ Len(inbox) <= Capacity
  /\ pending \in Seq(Messages) /\ todo \subseteq Messages
  /\ pc \in {"idle", "taken", "flush", "last", "stopped"}
  /\ trades \subseteq 1..MaxTrades /\ announced \subseteq 1..MaxTrades
  /\ quote \in Quotes /\ cut \subseteq 1..MaxTrades
  /\ retention \in {"off", "due", "expired", "excess"} /\ cutoff \in 0..MaxTrades
  /\ candidates \subseteq 1..MaxTrades
  /\ accepted \in [trades : SUBSET (1..MaxTrades), quote : Quotes]

MarketInit ==
  /\ inbox = <<>> /\ pending = <<>> /\ todo = {} /\ pc = "idle"
  /\ trades = {} /\ announced = {} /\ quote = NoQuote
  /\ retention = "off" /\ cutoff = 0 /\ candidates = {}
  /\ offers = 0 /\ accepted = [trades |-> {}, quote |-> NoQuote] /\ cut = {}
  /\ marketFaults = 0

Later(a, b) == IF a >= b THEN a ELSE b

\* Mutant: the statistics go with the price.
OneClock(old, new) == IF new.price >= old.price THEN new ELSE old
\* merge_quote: price and statistics have source clocks of their own.
MergeQuote(old, new) ==
  [price |-> Later(new.price, old.price), statistics |-> Later(new.statistics, old.statistics)]

\* put waits while the queue is full.
Offer(m) ==
  /\ pc \notin {"last", "stopped"} /\ offers < MaxOffers /\ Len(inbox) < Capacity
  /\ offers' = offers + 1 /\ inbox' = Append(inbox, m)
  /\ accepted' = IF IsTrade(m) THEN [accepted EXCEPT !.trades = @ \cup {m.trade}]
                 ELSE [accepted EXCEPT !.quote = [price |-> Later(@.price, m.quote.price),
                                                  statistics |-> Later(@.statistics, m.quote.statistics)]]
  /\ UNCHANGED <<pending, todo, pc, trades, announced, quote, retentionVars, cut, marketFaults>>

\* The task adds what has gathered to its batch, also to one that failed, up to
\* its limit.
TakeBatch ==
  /\ pc \in {"idle", "taken"} /\ retention = "off"
  /\ \E n \in 1..Len(inbox) :
       /\ n = Len(inbox) \/ n = TakeMax - Len(pending)
       /\ Len(pending) + n <= TakeMax
       /\ pending' = pending \o SubSeq(inbox, 1, n)
       /\ inbox' = SubSeq(inbox, n + 1, Len(inbox))
  /\ pc' = "taken"
  /\ UNCHANGED <<todo, trades, announced, quote, retentionVars, offers, accepted, cut, marketFaults>>

\* What merge_quote leaves of several quotes: the newest of each clock.
Merged(quotes) ==
  [price |-> Max({q.price : q \in quotes}), statistics |-> Max({q.statistics : q \in quotes})]

\* _coalesce_backlog: all trades, and one quote.
Coalesced(messages) ==
  {m \in messages : IsTrade(m)}
    \cup (IF QuotesOf(messages) = {} THEN {} ELSE {[quote |-> Merged(QuotesOf(messages))]})

FlushBatch ==
  /\ pc = "taken" /\ retention = "off"
  /\ todo' = IF Len(pending) > PartMax THEN Coalesced(Range(pending)) ELSE Range(pending)
  /\ pc' = "flush"
  /\ UNCHANGED <<inbox, pending, trades, announced, quote, retentionVars, offers, accepted, cut, marketFaults>>

\* A quote that is older in both of its clocks is left out.
StoredQuote(old, new) ==
  IF old.price > new.price /\ old.statistics >= new.statistics THEN old ELSE MergeQuote(old, new)

\* One transaction: trades, quote and announcements of the trades that are new.
WritePart(part) ==
  /\ trades' = trades \cup TradesOf(part)
  /\ announced' = announced \cup (TradesOf(part) \ trades)
  /\ quote' = IF QuotesOf(part) = {} THEN quote ELSE StoredQuote(quote, Merged(QuotesOf(part)))

\* Mutant: the batch is dropped with its first part.
Forgotten(rest) == <<>>
\* The batch is kept until its last part is committed.
Kept(rest) == IF rest = {} THEN <<>> ELSE pending

\* After a commit retention may be due; the writer waits for it.
CommitPart ==
  /\ pc \in {"flush", "last"} /\ retention = "off"
  /\ \E part \in SUBSET todo :
       /\ part # {} /\ Cardinality(part) <= PartMax
       /\ WritePart(part) /\ todo' = todo \ part
  /\ pending' = Kept(todo')
  /\ pc' = IF todo' # {} THEN pc ELSE IF pc = "last" THEN "stopped" ELSE "idle"
  /\ retention' \in {"off", "due"}
  /\ UNCHANGED <<inbox, cutoff, candidates, offers, accepted, cut, marketFaults>>

MarketFault == marketFaults < MaxMarketFaults /\ marketFaults' = marketFaults + 1

\* The transaction of a part fails: the whole batch again, a second later.
FlushFails ==
  /\ pc = "flush" /\ retention = "off" /\ MarketFault
  /\ todo' = {} /\ pc' = "taken"
  /\ UNCHANGED <<inbox, pending, trades, announced, quote, retentionVars, offers, accepted, cut>>

\* stop: cancel the task, and with it a retention pass; it writes its batch on
\* the way out, then what is left in the queue.
StopWriter ==
  /\ pc \in {"idle", "taken", "flush"}
  /\ pending' = pending \o inbox /\ inbox' = <<>> /\ todo' = Range(pending')
  /\ pc' = IF todo' = {} THEN "stopped" ELSE "last"
  /\ retention' = "off" /\ candidates' = {}
  /\ UNCHANGED <<trades, announced, quote, cutoff, offers, accepted, cut, marketFaults>>

\* The write of a stop fails: nothing is left that would replay it.
StopFails ==
  /\ pc = "last" /\ retention = "off" /\ MarketFault
  /\ pending' = <<>> /\ todo' = {} /\ pc' = "stopped"
  /\ accepted' = [trades |-> announced, quote |-> quote]
  /\ UNCHANGED <<inbox, trades, announced, quote, retentionVars, offers, cut>>

\* The process dies, or is started again after a stop: what was not committed
\* is gone; the connections replay from their checkpoints.
RestartWriter ==
  /\ MarketFault
  /\ inbox' = <<>> /\ pending' = <<>> /\ todo' = {} /\ pc' = "idle"
  /\ retention' = "off" /\ candidates' = {}
  /\ accepted' = [trades |-> announced, quote |-> quote]
  /\ UNCHANGED <<trades, announced, quote, cutoff, offers, cut>>

\* Another writer of the schema takes a trade back.
Retract(i) ==
  /\ MarketFault /\ i \in trades
  /\ trades' = trades \ {i}
  /\ UNCHANGED <<inbox, pending, todo, pc, announced, quote, retentionVars, offers, accepted, cut>>

Newer(i, S) == {j \in S : j > i}

Beyond(i, S) == Cardinality(Newer(i, S)) >= Retained

\* A row is taken for its age or for its rank; anything else is recorded.
Expel(rows) ==
  /\ trades' = trades \ rows
  /\ cut' = cut \cup {i \in rows \cap trades : i > cutoff /\ ~Beyond(i, trades)}

\* _prune_market_trades: rows over a day old, read without lock, as many as one
\* pass takes.  Time has moved on since the last pass.
ChooseExpired ==
  /\ retention = "due" /\ retention' = "expired"
  /\ cutoff' \in cutoff..MaxTrades
  /\ candidates' \in SUBSET {i \in trades : i <= cutoff'}
  /\ UNCHANGED <<inbox, pending, todo, pc, trades, announced, quote, offers, accepted, cut, marketFaults>>

\* Each batch in its own transaction.
PruneExpired ==
  /\ retention = "expired"
  /\ \E rows \in SUBSET candidates : rows # {} /\ Expel(rows) /\ candidates' = candidates \ rows
  /\ UNCHANGED <<inbox, pending, todo, pc, announced, quote, retention, cutoff, offers, accepted, marketFaults>>

\* Then the rows beyond the retained ones, again without lock.
ChooseRows ==
  /\ retention = "expired" /\ candidates = {} /\ retention' = "excess"
  /\ candidates' \in SUBSET {i \in trades : Beyond(i, trades)}
  /\ UNCHANGED <<inbox, pending, todo, pc, trades, announced, quote, cutoff, offers, accepted, cut, marketFaults>>

\* Mutant: what was chosen is removed.
ExcessBlind(rows, S) == rows \cap S
\* In its transaction the removal reads the boundary again.
Excess(rows, S) == {i \in rows \cap S : Beyond(i, S)}

PruneRows ==
  /\ retention = "excess"
  /\ \E rows \in SUBSET candidates :
       rows # {} /\ Expel(Excess(rows, trades)) /\ candidates' = candidates \ rows
  /\ UNCHANGED <<inbox, pending, todo, pc, announced, quote, retention, cutoff, offers, accepted, marketFaults>>

\* The pass is over, or it failed: the batch goes on.
EndRetention ==
  /\ \/ retention = "excess" /\ candidates = {} /\ UNCHANGED marketFaults
     \/ retention # "off" /\ MarketFault
  /\ retention' = "off" /\ candidates' = {}
  /\ UNCHANGED <<inbox, pending, todo, pc, trades, announced, quote, cutoff, offers, accepted, cut>>

MarketNext ==
  \/ \E m \in Messages : Offer(m)
  \/ TakeBatch \/ FlushBatch \/ CommitPart \/ FlushFails \/ StopWriter
  \/ StopFails \/ RestartWriter
  \/ \E i \in 1..MaxTrades : Retract(i)
  \/ ChooseExpired \/ PruneExpired \/ ChooseRows \/ PruneRows \/ EndRetention

MarketSpec == MarketInit /\ [][MarketNext]_marketVars

------------------------------------------------------------------------------
Written == inbox = <<>> /\ pending = <<>>

\* Whatever failed, was replayed, stopped or split on the way: once the queue
\* is written, the stored quote has the newest price and the newest statistics
\* that were put, however they were batched, and every trade was stored and
\* announced.  Of the last day retention never takes one of the newest trades,
\* whatever other writers removed since it chose its rows; older ones it takes
\* whatever their rank.
WriterKeeps ==
  /\ Written => quote = accepted.quote /\ accepted.trades \subseteq announced
  /\ trades \subseteq announced
  /\ cut = {}
=============================================================================
