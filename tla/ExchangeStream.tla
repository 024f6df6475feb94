----------------------------- MODULE ExchangeStream -----------------------------
(***************************************************************************)
(* BinanceMarketFeed (collectors/exchange_stream.py) with the batch writer  *)
(* of collectors/market_streams.py, for the trades of one market: a socket  *)
(* delivers them live, and after each connection a replay by trade id fills *)
(* what was missed, behind a durable market-gap marker.                     *)
(*                                                                         *)
(* A trade is its source id; the venue numbers them without gaps.  The      *)
(* market has its baseline, the first page of a new market; the             *)
(* subscription is in force when the replay starts.                         *)
(***************************************************************************)
EXTENDS Integers, SequencesExt, FiniteSetsExt

CONSTANTS
  QueueMax,       \* capacity of the writer's queue
  WireMax,        \* bound: messages of the socket not yet read
  BatchMax,       \* most trades of one flush
  PageLimit,      \* trades of a replay page (1,000)
  MaxPages,       \* pages of one recovery (4)
  EarlyLoss,      \* may a connection end before its recovery wrote the marker?
  MaxId, MaxFaults  \* bounds

VARIABLES
  issued,         \* the venue's last trade id
  link,           \* "down", "opening" with the checkpoint captured, or "up"
  wire, queue,    \* messages of the socket, trades of the writer's queue
  trades,         \* ids in the trades table
  gap,            \* market-gap
  checkpoint,     \* gap and last trade captured before the socket opened
  live,           \* live_ids
  recovery,       \* locals of recover_market
  faults

vars == <<issued, link, wire, queue, trades, gap, checkpoint, live, recovery, faults>>

Ids == 1..MaxId
Newest == Max(trades)
Marker(status, from) == [status |-> status, from |-> from]
Settled == {"complete", "baseline"}

TypeOK ==
  /\ issued \in Ids /\ link \in {"down", "opening", "up"}
  /\ ToSet(wire) \cup ToSet(queue) \cup trades \subseteq Ids
  /\ Len(queue) <= QueueMax /\ Len(wire) <= WireMax
  /\ gap.status \in Settled \cup {"recovering", "retrying", "incomplete"} /\ gap.from \in 0..MaxId
  /\ live \in 0..MaxId /\ checkpoint.last \in 0..MaxId
  /\ recovery.pc \in {"off", "start", "fetch", "store", "finish", "wait", "done"}

Off == [pc |-> "off", cursor |-> 0, to |-> 0, page |-> {}, pages |-> 0, whole |-> FALSE]

Init ==
  /\ issued = 1 /\ link = "down" /\ wire = <<>> /\ queue = <<>> /\ trades = {1}
  /\ gap = Marker("baseline", 0) /\ checkpoint = [gap |-> gap, last |-> 1] /\ live = 0
  /\ recovery = Off /\ faults = 0

-----------------------------------------------------------------------------
(* The venue and the socket.                                                *)

Trade ==
  /\ issued < MaxId /\ issued' = issued + 1
  /\ (link = "up") => Len(wire) < WireMax
  /\ wire' = IF link = "up" THEN Append(wire, issued + 1) ELSE wire
  /\ UNCHANGED <<link, queue, trades, gap, checkpoint, live, recovery, faults>>

\* _connection, before the socket: the lower bound of the replay.
Capture ==
  /\ link = "down" /\ link' = "opening"
  /\ checkpoint' = [gap |-> gap, last |-> Newest] /\ live' = 0
  /\ UNCHANGED <<issued, wire, queue, trades, gap, recovery, faults>>

Subscribe ==
  /\ link = "opening" /\ link' = "up" /\ recovery' = [Off EXCEPT !.pc = "start"]
  /\ UNCHANGED <<issued, wire, queue, trades, gap, checkpoint, live, faults>>

\* handle: the reader waits while the writer's queue is full.
Receive ==
  /\ link = "up" /\ wire # <<>> /\ Len(queue) < QueueMax
  /\ wire' = Tail(wire) /\ queue' = Append(queue, Head(wire)) /\ live' = Max({live, Head(wire)})
  /\ UNCHANGED <<issued, link, trades, gap, checkpoint, recovery, faults>>

Fault == faults < MaxFaults /\ faults' = faults + 1
MayBreak == (recovery.pc = "start") => EarlyLoss

\* The socket breaks, is refused, or its group of markets changes (_supervise).
Disconnect ==
  /\ link # "down" /\ Fault /\ MayBreak
  /\ link' = "down" /\ wire' = <<>> /\ recovery' = Off
  /\ UNCHANGED <<issued, queue, trades, gap, checkpoint, live>>

Crash ==
  /\ Fault /\ MayBreak
  /\ link' = "down" /\ wire' = <<>> /\ queue' = <<>> /\ recovery' = Off /\ live' = 0
  /\ UNCHANGED <<issued, trades, gap, checkpoint>>

-----------------------------------------------------------------------------
(* The batch writer.                                                        *)

\* One transaction; a failed one leaves the batch pending.
Flush ==
  /\ queue # <<>>
  /\ LET n == Min({BatchMax, Len(queue)})
     IN trades' = trades \cup ToSet(SubSeq(queue, 1, n)) /\ queue' = SubSeq(queue, n + 1, Len(queue))
  /\ UNCHANGED <<issued, link, wire, gap, checkpoint, live, recovery, faults>>

-----------------------------------------------------------------------------
(* _recover and recover_market.                                             *)

RecoverySame == UNCHANGED <<issued, link, wire, queue, checkpoint, live, faults>>

\* Mutant: the last stored trade bounds the replay, whatever was left open.
LowerStored == checkpoint.last
\* A replay that was left open goes on where it was.
Lower ==
  IF checkpoint.gap.status \notin Settled THEN checkpoint.gap.from ELSE checkpoint.last

StartRecovery ==
  /\ recovery.pc = "start"
  /\ gap' = Marker("recovering", Lower)
  /\ recovery' = [Off EXCEPT !.pc = "fetch", !.to = issued, !.cursor = Lower + 1]
  /\ UNCHANGED trades /\ RecoverySame

FetchPage ==
  /\ recovery.pc = "fetch"
  /\ recovery' = [recovery EXCEPT !.pc = "store", !.pages = @ + 1,
       !.page = recovery.cursor..Min({issued, recovery.cursor + PageLimit - 1})]
  /\ UNCHANGED <<gap, trades>> /\ RecoverySame

High == Max(recovery.page \cup {recovery.cursor - 1})
\* A short page, or one with trades newer than the recovery.
LastPage ==
  \/ Cardinality(recovery.page) < PageLimit
  \/ \E id \in recovery.page : id > recovery.to

\* The replay met the live trades.
Meets == live = 0 \/ High >= live - 1

StorePage ==
  /\ recovery.pc = "store"
  /\ trades' = trades \cup recovery.page
  /\ gap' = IF recovery.page = {} THEN gap ELSE Marker("recovering", High)
  /\ recovery' = [recovery EXCEPT
       !.pc = IF LastPage \/ recovery.pages = MaxPages THEN "finish" ELSE "fetch",
       !.cursor = High + 1, !.whole = LastPage /\ Meets, !.page = {}]
  /\ RecoverySame

\* An incomplete replay is taken up again after a pause.
FinishRecovery ==
  /\ recovery.pc = "finish"
  /\ gap' = IF recovery.whole THEN Marker("complete", 0) ELSE Marker("incomplete", recovery.cursor - 1)
  /\ recovery' = [recovery EXCEPT !.pc = IF recovery.whole THEN "done" ELSE "wait"]
  /\ UNCHANGED trades /\ RecoverySame

\* A request, the candle backfill or a write failed.
FailRecovery ==
  /\ recovery.pc \in {"fetch", "store", "finish"} /\ Fault
  /\ gap' = [gap EXCEPT !.status = "retrying"]
  /\ recovery' = [recovery EXCEPT !.pc = "wait"]
  /\ UNCHANGED <<issued, link, wire, queue, trades, checkpoint, live>>

RetryRecovery ==
  /\ recovery.pc = "wait"
  /\ checkpoint' = [checkpoint EXCEPT !.gap = gap] /\ recovery' = [Off EXCEPT !.pc = "start"]
  /\ UNCHANGED <<issued, link, wire, queue, trades, gap, live, faults>>

Next ==
  \/ Trade \/ Capture \/ Subscribe \/ Receive \/ Disconnect \/ Crash \/ Flush
  \/ StartRecovery \/ FetchPage \/ StorePage \/ FinishRecovery \/ FailRecovery \/ RetryRecovery

Spec == Init /\ [][Next]_vars

-----------------------------------------------------------------------------
Missing == {id \in Min(trades)..Newest : id \notin trades}

\* Every trade missing between stored ones is still on its way, or the replay of
\* this connection or a durable marker will fetch it (_connection: "Captured
\* before opening WS so live writes cannot advance the replay lower bound while
\* recovery is still running").
GapsKnown ==
  \A id \in Missing :
    \/ id \in ToSet(queue) \cup ToSet(wire)
    \/ gap.status \notin Settled /\ gap.from < id
    \/ recovery.pc = "start" /\ Lower < id
=============================================================================
