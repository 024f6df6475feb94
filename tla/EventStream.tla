----------------------------- MODULE EventStream -----------------------------
(***************************************************************************)
(* The durable event journal and the SSE stream over it: realtime_events   *)
(* and its retention, one API process with its tailer and subscriber       *)
(* queues (stream_hub.py, api/stream.py), and the browser's cursor         *)
(* (web/src/composables/useStream.js).                                     *)
(*                                                                         *)
(* An event is its journal id.  `audience` says whose subscription it      *)
(* matches; every other property of its payload is abstracted away.  A     *)
(* snapshot is the journal cursor the published projection carries: it     *)
(* shows the effect of every event up to that cursor.                      *)
(***************************************************************************)
EXTENDS Integers, Sequences, FiniteSets, SequencesExt, FiniteSetsExt

CONSTANTS
  Clients,      \* browser tabs
  QueueMax,     \* asyncio.Queue(maxsize=1024) of one subscriber
  PageSize,     \* replay_page's limit
  TailSize,     \* _tail_rows' LIMIT
  StampLag,     \* how many earlier ids an event's `at` may undercut
  PruneInPage,  \* may a retention commit fall between a page's two reads?
  WireMax,      \* bound: frames on one connection not yet read
  MaxId,        \* bound: journal ids ever allocated
  MaxFaults     \* bound: dropped connections, failed handlers, API restarts, scope changes

StreamAssumption ==
  /\ QueueMax \in Nat \ {0} /\ PageSize \in Nat \ {0} /\ TailSize \in Nat \ {0}
  /\ StampLag \in Nat /\ PruneInPage \in BOOLEAN
  /\ WireMax \in Nat \ {0} /\ MaxId \in Nat /\ MaxFaults \in Nat

VARIABLES
  \* the journal
  allocated, inflight, journal, audience,
  committed,    \* history: every id that was ever committed
  snapshot,     \* cursor of the published projection
  \* the API process
  tailCursor, tailRows,
  subscribed,   \* _clients
  queue,        \* each subscriber's queue
  conn,         \* each response generator: where frames() is
  \* network and browser
  wire,         \* frames sent and not yet read
  phase,        \* where connectStream is
  lastEventId,
  reflected,    \* history: events the page shows, by its snapshot or one by one
  faults

journalVars == <<allocated, inflight, journal, audience, committed>>
hubVars == <<tailCursor, tailRows, subscribed, queue, conn>>
pageVars == <<phase, lastEventId, reflected>>
vars == <<journalVars, snapshot, hubVars, wire, pageVars, faults>>

Ids == 1..MaxId
Closing == 0  \* the None a full hub puts into a queue
Closed == [mode |-> "closed", upper |-> 0, seen |-> 0, owed |-> FALSE]
Frames == [type : {"event", "checkpoint", "reset", "end"}, id : 0..MaxId]
Frame(type, id) == [type |-> type, id |-> id]

\* cursor(): COALESCE(MAX(id), 0).
Highest(S) == IF S = {} THEN 0 ELSE Max(S)
Cursor == Highest(journal)

\* The ids of S in ascending order, up to n of them (ORDER BY id), and the
\* first n (ORDER BY id LIMIT n): the one such sequence, as a set.
Ascending(s) == \A j, k \in DOMAIN s : j < k => s[j] < s[k]
InOrder(S, n) == {s \in BoundedSeq(S, n) : Ascending(s) /\ ToSet(s) = S}
FirstIds(S, n) ==
  {s \in BoundedSeq(S, n) :
     /\ Ascending(s)
     /\ \A i \in S : i \in ToSet(s) \/ (Len(s) = n /\ \A j \in ToSet(s) : j < i)}

TypeOK ==
  /\ allocated \in 0..MaxId
  /\ inflight \in SUBSET Ids /\ journal \in SUBSET committed /\ committed \in SUBSET Ids
  /\ audience \in [Ids -> SUBSET Clients]
  /\ snapshot \in 0..MaxId /\ tailCursor \in 0..MaxId
  /\ tailRows \in Seq(Ids) /\ subscribed \in SUBSET Clients
  /\ queue \in [Clients -> Seq(0..MaxId)]
  /\ \A c \in Clients : Len(queue[c]) <= QueueMax
  /\ conn \in [Clients -> [mode : {"closed", "opening", "replay", "rows", "live"},
                           upper : 0..MaxId, seen : 0..MaxId, owed : BOOLEAN]]
  /\ wire \in [Clients -> Seq(Frames)]
  /\ phase \in [Clients -> {"boot", "connect", "open"}]
  /\ lastEventId \in [Clients -> 0..MaxId]
  /\ reflected \in [Clients -> SUBSET Ids]
  /\ faults \in 0..MaxFaults

Init ==
  /\ allocated = 0 /\ inflight = {} /\ journal = {} /\ committed = {}
  /\ audience = [i \in Ids |-> {}]
  /\ snapshot = 0 /\ tailCursor = 0 /\ tailRows = <<>>
  /\ subscribed = {} /\ queue = [c \in Clients |-> <<>>] /\ conn = [c \in Clients |-> Closed]
  /\ wire = [c \in Clients |-> <<>>]
  /\ phase = [c \in Clients |-> "boot"]
  /\ lastEventId = [c \in Clients |-> 0]
  /\ reflected = [c \in Clients |-> {}]
  /\ faults = 0

-----------------------------------------------------------------------------
(* Writers of the journal and retention.                                    *)

\* A writer transaction inserts an event.  BEGIN IMMEDIATE, or on PostgreSQL
\* the statement trigger's advisory lock, is taken before the id is allocated.
AllocateEvent ==
  /\ inflight = {}
  /\ allocated < MaxId
  /\ allocated' = allocated + 1
  /\ inflight' = inflight \cup {allocated + 1}
  /\ \E who \in SUBSET Clients : audience' = [audience EXCEPT ![allocated + 1] = who]
  /\ UNCHANGED <<journal, committed, snapshot, hubVars, wire, pageVars, faults>>

\* The transaction commits or rolls back; a PostgreSQL sequence keeps the gap.
EndTransaction ==
  \E i \in inflight :
    /\ inflight' = inflight \ {i}
    /\ \/ journal' = journal \cup {i} /\ committed' = committed \cup {i}
       \/ UNCHANGED <<journal, committed>>
    /\ UNCHANGED <<allocated, audience, snapshot, hubVars, wire, pageVars, faults>>

\* Sets of ids retention may have deleted so far in one pass that began at this
\* cursor: below it, lowest ids first but for the order of `at`.
Prunable(sequence) ==
  {S \in SUBSET {i \in journal : i < sequence} :
     \A i \in S : Cardinality({j \in journal \ S : j < i}) <= StampLag}
\* The commits of _prune_journal: ids chosen by age or by number, deleted in
\* ascending order 250 at a time.  What is old is the clock's choice.
Prune ==
  /\ PruneInPage \/ \A c \in Clients : conn[c].mode # "rows"
  /\ \E S \in Prunable(tailCursor) \ {{}} : journal' = journal \ S
  /\ UNCHANGED <<allocated, inflight, audience, committed,
                 snapshot, hubVars, wire, pageVars, faults>>

\* projection_tick publishes a payload built from a read transaction at some
\* moment since the previous publication, with that moment's cursor.
PublishSnapshot ==
  /\ \E v \in (snapshot + 1)..Cursor : snapshot' = v
  /\ UNCHANGED <<journalVars, hubVars, wire, pageVars, faults>>

-----------------------------------------------------------------------------
(* The tailer: read committed rows, then fan them out.                      *)

TailRead ==
  /\ tailRows = <<>>
  /\ tailRows' \in FirstIds({i \in journal : i > tailCursor}, TailSize)
  /\ tailRows' # <<>>
  /\ UNCHANGED <<journalVars, snapshot, tailCursor, subscribed, queue, conn, wire, pageVars, faults>>

\* Mutant: a dropped subscriber is not told to close.
FanoutSilent ==
  /\ tailRows # <<>>
  /\ LET full == {c \in subscribed : Len(queue[c]) + Len(tailRows) > QueueMax}
     IN /\ queue' = [c \in Clients |->
             IF c \in full THEN <<>>
             ELSE IF c \in subscribed THEN queue[c] \o tailRows
             ELSE queue[c]]
        /\ subscribed' = subscribed \ full
  /\ tailCursor' = Last(tailRows)
  /\ tailRows' = <<>>
  /\ UNCHANGED <<journalVars, snapshot, conn, wire, pageVars, faults>>

\* _fanout of every row, with no await between them: a subscriber whose queue
\* fills up is dropped and told to close.
Fanout ==
  /\ tailRows # <<>>
  /\ LET full == {c \in subscribed : Len(queue[c]) + Len(tailRows) > QueueMax}
     IN /\ queue' = [c \in Clients |->
             IF c \in full THEN <<Closing>>
             ELSE IF c \in subscribed THEN queue[c] \o tailRows
             ELSE queue[c]]
        /\ subscribed' = subscribed \ full
  /\ tailCursor' = Last(tailRows)
  /\ tailRows' = <<>>
  /\ UNCHANGED <<journalVars, snapshot, conn, wire, pageVars, faults>>

-----------------------------------------------------------------------------
(* One response: frames() of api/stream.py.                                 *)

\* visible() and frame_visible(): the event belongs to the subscription.
Visible(c, i) == c \in audience[i]

\* yield waits while the connection's buffer is full.
Send(c, frames) ==
  /\ Len(wire[c]) < WireMax
  /\ wire' = [wire EXCEPT ![c] = @ \o frames]

\* The generator starts: subscribe first, with the request's cursor.
Subscribe(c) ==
  /\ phase[c] = "connect"
  /\ phase' = [phase EXCEPT ![c] = "open"]
  /\ subscribed' = subscribed \cup {c}
  /\ queue' = [queue EXCEPT ![c] = <<>>]
  /\ conn' = [conn EXCEPT ![c] = [Closed EXCEPT !.mode = "opening", !.seen = lastEventId[c]]]
  /\ wire' = [wire EXCEPT ![c] = <<>>]
  /\ UNCHANGED <<journalVars, snapshot, tailCursor, tailRows, lastEventId, reflected, faults>>

\* ... and read the journal's head only then.
ReadUpper(c) ==
  /\ conn[c].mode = "opening"
  /\ conn' = [conn EXCEPT ![c].mode = "replay", ![c].upper = Cursor]
  /\ UNCHANGED <<journalVars, snapshot, tailCursor, tailRows, subscribed, queue, wire, pageVars, faults>>

\* Mutant: only a cursor beyond the head is refused.
CursorAhead(seen) == seen > Cursor

\* replay_page's test: the cursor lies outside the retained journal.
CursorExpired(seen) ==
  \/ seen > Cursor
  \/ journal # {} /\ \A i \in journal : seen < i - 1
\* A page of a response that cannot be replayed: reset, then the end.
ReplayReset(c) ==
  /\ conn[c].mode = "replay"
  /\ CursorExpired(conn[c].seen)
  /\ Send(c, <<Frame("reset", Cursor), Frame("end", 0)>>)
  /\ conn' = [conn EXCEPT ![c] = Closed]
  /\ subscribed' = subscribed \ {c}
  /\ queue' = [queue EXCEPT ![c] = <<>>]
  /\ UNCHANGED <<journalVars, snapshot, tailCursor, tailRows, pageVars, faults>>

\* The same statement finds the cursor inside the journal.
ReplayCheck(c) ==
  /\ conn[c].mode = "replay"
  /\ ~CursorExpired(conn[c].seen)
  /\ conn' = [conn EXCEPT ![c].mode = "rows", ![c].upper = IF Cursor < @ THEN Cursor ELSE @]
  /\ UNCHANGED <<journalVars, snapshot, tailCursor, tailRows, subscribed, queue, wire, pageVars, faults>>

\* Its next statement reads the page: the visible rows are sent, and a
\* checkpoint behind them if any was skipped.
ReplayRows(c) ==
  /\ conn[c].mode = "rows"
  /\ \E page \in FirstIds({i \in journal : conn[c].seen < i /\ i <= conn[c].upper}, PageSize) :
     \E shown \in InOrder({i \in ToSet(page) : Visible(c, i)}, PageSize) :
       LET reached == IF page = <<>> THEN conn[c].upper ELSE Last(page)
           events == [n \in DOMAIN shown |-> Frame("event", shown[n])]
       IN /\ Send(c, IF shown = page THEN events ELSE Append(events, Frame("checkpoint", reached)))
          /\ conn' = [conn EXCEPT ![c].seen = reached,
                                  ![c].mode = IF reached >= conn[c].upper THEN "live" ELSE "replay"]
  /\ UNCHANGED <<journalVars, snapshot, tailCursor, tailRows, subscribed, queue, pageVars, faults>>

\* One queued item: the closing mark, a duplicate of the replay, a visible
\* event, or one the subscription filters out.
ServeLive(c) ==
  /\ conn[c].mode = "live" /\ queue[c] # <<>>
  /\ LET i == Head(queue[c])
     IN \/ /\ i = Closing
           /\ Send(c, <<Frame("end", 0)>>)
           /\ conn' = [conn EXCEPT ![c] = Closed]
           /\ subscribed' = subscribed \ {c}
        \/ /\ i # Closing /\ i <= conn[c].seen
           /\ UNCHANGED <<wire, conn, subscribed>>
        \/ /\ i # Closing /\ i > conn[c].seen /\ Visible(c, i)
           /\ Send(c, <<Frame("event", i)>>)
           /\ conn' = [conn EXCEPT ![c].seen = i, ![c].owed = FALSE]
           /\ UNCHANGED subscribed
        \/ /\ i # Closing /\ i > conn[c].seen /\ ~Visible(c, i)
           /\ conn' = [conn EXCEPT ![c].seen = i, ![c].owed = TRUE]
           /\ UNCHANGED <<wire, subscribed>>
  /\ queue' = [queue EXCEPT ![c] = Tail(@)]
  /\ UNCHANGED <<journalVars, snapshot, tailCursor, tailRows, pageVars, faults>>

\* Five seconds after the last one, or with the heartbeat.
Checkpoint(c) ==
  /\ conn[c].mode = "live" /\ conn[c].owed
  /\ Send(c, <<Frame("checkpoint", conn[c].seen)>>)
  /\ conn' = [conn EXCEPT ![c].owed = FALSE]
  /\ UNCHANGED <<journalVars, snapshot, tailCursor, tailRows, subscribed, queue, pageVars, faults>>

-----------------------------------------------------------------------------
(* The browser: connectStream and handleStreamEvent.                        *)

\* Build the page from the published snapshot.
TakeSnapshot(c) ==
  /\ lastEventId' = [lastEventId EXCEPT ![c] = snapshot]
  /\ reflected' = [reflected EXCEPT ![c] = 1..snapshot]

Bootstrap(c) ==
  /\ phase[c] = "boot"
  /\ TakeSnapshot(c)
  /\ phase' = [phase EXCEPT ![c] = "connect"]
  /\ UNCHANGED <<journalVars, snapshot, hubVars, wire, faults>>

Reading(c, type) == phase[c] = "open" /\ wire[c] # <<>> /\ Head(wire[c]).type = type
ReadFrame(c) == wire' = [wire EXCEPT ![c] = Tail(@)]

\* An event is applied unless its id is not above the cursor.
ReceiveEvent(c) ==
  /\ Reading(c, "event")
  /\ ReadFrame(c)
  /\ LET i == Head(wire[c]).id
     IN IF i <= lastEventId[c] THEN UNCHANGED <<lastEventId, reflected>>
        ELSE /\ lastEventId' = [lastEventId EXCEPT ![c] = i]
             /\ reflected' = [reflected EXCEPT ![c] = @ \cup {i}]
  /\ UNCHANGED <<journalVars, snapshot, hubVars, phase, faults>>

ReceiveCheckpoint(c) ==
  /\ Reading(c, "checkpoint")
  /\ ReadFrame(c)
  /\ lastEventId' = [lastEventId EXCEPT ![c] =
       IF Head(wire[c]).id <= @ THEN @ ELSE Head(wire[c]).id]
  /\ UNCHANGED <<journalVars, snapshot, hubVars, phase, reflected, faults>>

\* A reset rebuilds the page and adopts the snapshot's cursor, not the frame's.
ReceiveReset(c) ==
  /\ Reading(c, "reset")
  /\ ReadFrame(c)
  /\ TakeSnapshot(c)
  /\ UNCHANGED <<journalVars, snapshot, hubVars, phase, faults>>

\* The response ended; reconnect after the backoff with the same cursor.
ReceiveEnd(c) ==
  /\ Reading(c, "end")
  /\ ReadFrame(c)
  /\ phase' = [phase EXCEPT ![c] = "connect"]
  /\ UNCHANGED <<journalVars, snapshot, hubVars, lastEventId, reflected, faults>>

-----------------------------------------------------------------------------
(* Faults.                                                                  *)

Fault == faults < MaxFaults /\ faults' = faults + 1
CloseConnections(C) ==
  /\ conn' = [c \in Clients |-> IF c \in C THEN Closed ELSE conn[c]]
  /\ subscribed' = subscribed \ C
  /\ queue' = [c \in Clients |-> IF c \in C THEN <<>> ELSE queue[c]]
  /\ wire' = [c \in Clients |-> IF c \in C THEN <<>> ELSE wire[c]]

\* The connection breaks, the watchdog aborts it, or a handler throws: what
\* was on the wire is lost and the cursor stays.
Disconnect(c) ==
  /\ Fault
  /\ phase[c] = "open"
  /\ CloseConnections({c})
  /\ phase' = [phase EXCEPT ![c] = "connect"]
  /\ UNCHANGED <<journalVars, snapshot, tailCursor, tailRows, lastEventId, reflected>>

\* A projection patch does not fit its base: poll the snapshot, adopt its
\* cursor (which may lie behind the present one) and abort the connection.
Reconcile(c) ==
  /\ Fault
  /\ Reading(c, "event") /\ Head(wire[c]).id > lastEventId[c]
  /\ TakeSnapshot(c)
  /\ CloseConnections({c})
  /\ phase' = [phase EXCEPT ![c] = "connect"]
  /\ UNCHANGED <<journalVars, snapshot, tailCursor, tailRows>>

\* Another page or asset: abort, forget the cursor, bootstrap again.
ChangeScope(c) ==
  /\ Fault
  /\ phase[c] # "boot"
  /\ CloseConnections({c})
  /\ phase' = [phase EXCEPT ![c] = "boot"]
  /\ lastEventId' = [lastEventId EXCEPT ![c] = 0]
  /\ reflected' = [reflected EXCEPT ![c] = {}]
  /\ UNCHANGED <<journalVars, snapshot, tailCursor, tailRows>>

\* The API process restarts: start_hub sets the tailer to the journal's head.
RestartApi ==
  /\ Fault
  /\ CloseConnections(Clients)
  /\ phase' = [c \in Clients |-> IF phase[c] = "open" THEN "connect" ELSE phase[c]]
  /\ tailCursor' = Cursor
  /\ tailRows' = <<>>
  /\ UNCHANGED <<journalVars, snapshot, lastEventId, reflected>>

-----------------------------------------------------------------------------
Serve(c) == ReadUpper(c) \/ ReplayReset(c) \/ ReplayCheck(c) \/ ReplayRows(c) \/ ServeLive(c)
Receive(c) == ReceiveEvent(c) \/ ReceiveCheckpoint(c) \/ ReceiveReset(c) \/ ReceiveEnd(c)

Next ==
  \/ AllocateEvent \/ EndTransaction \/ Prune
  \/ PublishSnapshot \/ TailRead \/ Fanout \/ RestartApi
  \/ \E c \in Clients :
       \/ Subscribe(c) \/ Serve(c) \/ Checkpoint(c)
       \/ Bootstrap(c) \/ Receive(c) \/ Disconnect(c) \/ Reconcile(c) \/ ChangeScope(c)

Spec == Init /\ [][Next]_vars

\* The tailer, the generators and the browser keep running (they retry every
\* failure), a writer transaction ends, and a projection older than expiry_ms
\* is published again.  Nothing makes an event, a retention pass or a fault
\* happen.
Fairness ==
  /\ WF_vars(EndTransaction) /\ WF_vars(PublishSnapshot)
  /\ WF_vars(TailRead) /\ WF_vars(Fanout)
  /\ \A c \in Clients :
       /\ WF_vars(Subscribe(c)) /\ WF_vars(Serve(c)) /\ WF_vars(Checkpoint(c))
       /\ WF_vars(Bootstrap(c)) /\ WF_vars(Receive(c))

LiveSpec == Spec /\ Fairness

-----------------------------------------------------------------------------
(* Properties.                                                              *)

\* The page has missed nothing: every committed event up to its cursor is
\* shown by its snapshot, was applied on top of it, or is not in its
\* subscription - whatever the order of replay, live queue, overflow,
\* retention, reset and restarts.
NoGap ==
  \A c \in Clients : phase[c] # "boot" =>
    \A i \in committed : i <= lastEventId[c] => i \in reflected[c] \/ ~Visible(c, i)

\* Every event in the journal is at or below each page's cursor eventually: a
\* tab that was dropped, reset, filtered or disconnected is never left waiting
\* on a connection that will carry nothing more.
EveryPageCatchesUp ==
  \A c \in Clients, i \in Ids : i \in journal ~> (phase[c] # "boot" /\ lastEventId[c] >= i)

=============================================================================
