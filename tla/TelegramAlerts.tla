---------------------------- MODULE TelegramAlerts ----------------------------
(***************************************************************************)
(* telegram_alerts.py for one user and one watched asset: risk transitions  *)
(* are read from the event journal behind a cursor, queued in an outbox and *)
(* sent by a dispatcher that cannot know whether an unanswered message      *)
(* arrived.  Unlinking, rebinding and crashes fall between any two steps.   *)
(***************************************************************************)
EXTENDS Integers, SequencesExt, FiniteSetsExt

CONSTANTS
  None,
  MaxAttempts, DailyLimit,
  Cooldown, EventAge, QueueLifetime, Interrupted, DayLength,  \* durations
  MaxId, MaxClock, MaxFaults  \* bounds

VARIABLES
  clock,
  journal,   \* status of the asset after each event, and its time
  low,       \* the oldest id the journal keeps
  cursor,    \* event_cursor
  flags,     \* telegram_asset_state
  seeded,    \* history: the last event the latest baseline holds
  binding,   \* telegram_bindings: [id, on, at]
  outbox,    \* telegram_outbox, by event
  budget,    \* telegram_daily_budget
  send,      \* what dispatch holds
  arrived,   \* history: how often a message of a row arrived
  latest, hurried,  \* history: when one arrived last, and whether that was too soon
  faults

sourceVars == <<journal, low>>
intakeVars == <<cursor, flags, seeded>>
history == <<arrived, latest, hurried>>
vars == <<clock, sourceVars, intakeVars, binding, outbox, budget, send, history, faults>>

Ids == 1..MaxId
Day(t) == t \div DayLength
Idle == [step |-> "idle"]
Statuses == {"pending", "sending", "sent", "uncertain", "failed", "cancelled"}
TypeOK ==
  /\ cursor \in 0..MaxId /\ flags \in {"clear", "triggered"} /\ low \in 1..MaxId + 1
  /\ \A i \in Ids : outbox[i] = None \/
       /\ outbox[i].status \in Statuses /\ outbox[i].attempts \in 0..MaxAttempts
  /\ \A d \in DOMAIN budget : budget[d] \in 0..DailyLimit
  /\ arrived \in [Ids -> 0..MaxAttempts] /\ hurried \in BOOLEAN
  /\ send.step \in {"idle", "authorize", "post", "finish"}

\* The first event was the baseline; a transition and its end are not read yet.
Init ==
  /\ clock = 1 /\ low = 1
  /\ journal = [i \in 1..3 |-> [status |-> IF i = 2 THEN "triggered" ELSE "clear", at |-> 1]]
  /\ cursor = 1 /\ flags = "clear" /\ seeded = 1
  /\ binding = [id |-> 1, on |-> TRUE, at |-> 0]
  /\ outbox = [i \in Ids |-> None] /\ budget = [d \in 0..Day(MaxClock) |-> 0] /\ send = Idle
  /\ arrived = [i \in Ids |-> 0] /\ latest = None /\ hurried = FALSE /\ faults = 0

Tick ==
  /\ clock < MaxClock /\ clock' = clock + 1
  /\ UNCHANGED <<sourceVars, intakeVars, binding, outbox, budget, send, history, faults>>

-----------------------------------------------------------------------------
(* scan_events.                                                             *)

Journal(status) ==
  /\ Len(journal) < MaxId /\ journal' = Append(journal, [status |-> status, at |-> clock])
  /\ UNCHANGED <<clock, low, intakeVars, binding, outbox, budget, send, history, faults>>

\* Retention.
Prune(id) ==
  /\ low < id /\ id <= Len(journal) /\ low' = id
  /\ faults < MaxFaults /\ faults' = faults + 1
  /\ UNCHANGED <<clock, journal, intakeVars, binding, outbox, budget, send, history>>

\* _enqueue: the binding is older than the event, and nothing of it is recent.
Wanted(i, box) ==
  /\ binding.on /\ binding.at < journal[i].at /\ clock - journal[i].at <= EventAge
  /\ \A j \in Ids : box[j] # None /\ box[j].created > clock - Cooldown
                      => box[j].status \in {"cancelled", "failed"}
Row == [status |-> "pending", binding |-> binding.id, created |-> clock, next |-> clock,
        attempts |-> 0, started |-> None, finished |-> None, day |-> None]

\* One event: a transition from clear to triggered is queued.
Taken(i, s) ==
  [flags |-> journal[i].status,
   box |-> IF journal[i].status = "triggered" /\ s.flags = "clear" /\ Wanted(i, s.box) /\ s.box[i] = None
           THEN [s.box EXCEPT ![i] = Row] ELSE s.box]

Gap == cursor < low - 1

\* process_events in one transaction: the events up to the watermark that the
\* journal and the projection both hold; a gap takes the projection, which may be
\* newer, as a new baseline.
ScanEvents(high, published) ==
  /\ cursor < high /\ high <= published /\ published <= Len(journal) /\ cursor' = high
  /\ IF Gap
     THEN flags' = journal[published].status /\ seeded' = published /\ UNCHANGED outbox
     ELSE LET rows == SetToSortSeq({i \in cursor + 1..high : low <= i}, <)
              end == FoldLeft(LAMBDA s, i : Taken(i, s), [flags |-> flags, box |-> outbox], rows)
          IN flags' = end.flags /\ outbox' = end.box /\ UNCHANGED seeded
  /\ UNCHANGED <<clock, sourceVars, binding, budget, send, history, faults>>

-----------------------------------------------------------------------------
(* dispatch.                                                                *)

With(i, fields) == [outbox EXCEPT ![i] = fields]

\* _claim first settles interrupted and expired rows.
Settled(r) ==
  IF r = None THEN r
  ELSE IF r.status = "sending" /\ r.started < clock - Interrupted
  THEN [r EXCEPT !.status = "uncertain", !.finished = clock]
  ELSE IF r.status = "pending" /\ r.created < clock - QueueLifetime
  THEN [r EXCEPT !.status = "failed", !.finished = clock] ELSE r

\* The latest message of this alert that arrived or may have arrived.
Previous(box, i) ==
  Max({-Cooldown} \cup {IF box[j].finished # None THEN box[j].finished ELSE box[j].started :
                   j \in {j \in Ids \ {i} : box[j] # None /\ box[j].status \in {"sent", "uncertain"}}})

\* A retry of the same day is not charged again.
Charge(r) == r.day # Day(clock)

\* Enabled binding, watch and preference are one here.
Recipient(r) == binding.on /\ r.binding = binding.id
Cancelled(r) == [r EXCEPT !.status = "cancelled", !.finished = clock]

\* _claim: the oldest due row is given up, put off or taken; the loop over the
\* rows of the transaction is one step for each.
Claim ==
  LET box == [i \in Ids |-> Settled(outbox[i])]
      due == {i \in Ids : box[i] # None /\ box[i].status = "pending" /\ box[i].next <= clock}
      i == Min(due)
      r == box[i]
      free == Previous(box, i) + Cooldown
      spent == Charge(r) /\ budget[Day(clock)] >= DailyLimit
  IN /\ send = Idle
     /\ \/ due = {} /\ box # outbox /\ outbox' = box /\ UNCHANGED <<budget, send>>
        \/ /\ due # {} /\ (~Recipient(r) \/ (free <= clock /\ spent))
           /\ outbox' = [box EXCEPT ![i] = Cancelled(r)] /\ UNCHANGED <<budget, send>>
        \/ /\ due # {} /\ Recipient(r) /\ free > clock
           /\ outbox' = [box EXCEPT ![i].next = free] /\ UNCHANGED <<budget, send>>
        \/ /\ due # {} /\ Recipient(r) /\ free <= clock /\ ~spent
           /\ budget' = [budget EXCEPT ![Day(clock)] = @ + IF Charge(r) THEN 1 ELSE 0]
           /\ outbox' = [box EXCEPT ![i] = [r EXCEPT !.status = "sending", !.started = clock,
                                              !.attempts = @ + 1, !.day = Day(clock)]]
           /\ send' = [step |-> "authorize", row |-> i, attempts |-> r.attempts + 1]
     /\ UNCHANGED <<clock, sourceVars, intakeVars, binding, history, faults>>

\* The last look at the binding and at the facts, before the request.
Authorize ==
  /\ send.step = "authorize"
  /\ LET r == outbox[send.row]
     IN IF r.status = "sending" /\ Recipient(r)
        THEN send' = [send EXCEPT !.step = "post"] /\ UNCHANGED outbox
        ELSE /\ send' = Idle
             /\ outbox' = IF r.status # "sending" THEN outbox
                          ELSE With(send.row, Cancelled(r))
  /\ UNCHANGED <<clock, sourceVars, intakeVars, binding, budget, history, faults>>

\* History: less than a cooldown after a message whose outcome is on record.
TooSoon ==
  /\ latest # None /\ latest.row # send.row /\ latest.at > clock - Cooldown
  /\ outbox[latest.row].status \in {"sent", "uncertain"}

\* sendMessage: it arrives and is answered, it is refused, or nobody knows.
Post(outcome) ==
  /\ send.step = "post"
  /\ outcome # "sent" => faults < MaxFaults
  /\ faults' = faults + IF outcome = "sent" THEN 0 ELSE 1
  /\ \E here \in BOOLEAN :
       /\ outcome = "sent" => here
       /\ outcome \in {"rejected", "refused"} => ~here
       /\ IF here
          THEN /\ arrived' = [arrived EXCEPT ![send.row] = @ + 1]
               /\ latest' = [row |-> send.row, at |-> clock]
               /\ hurried' = (hurried \/ TooSoon)
          ELSE UNCHANGED history
  /\ send' = [step |-> "finish", row |-> send.row, attempts |-> send.attempts, outcome |-> outcome]
  /\ UNCHANGED <<clock, sourceVars, intakeVars, binding, outbox, budget>>

\* Mutant: an unanswered message is tried again.
RetryableAlways(outcome) == outcome \in {"rejected", "unknown"}
Retryable(outcome) == outcome = "rejected"

\* _finish touches a row only while it is still being sent.
Finish ==
  /\ send.step = "finish" /\ send' = Idle
  /\ LET r == outbox[send.row]
         again == Retryable(send.outcome) /\ send.attempts < MaxAttempts
         status == IF again THEN "pending"
                   ELSE IF send.outcome = "sent" THEN "sent"
                   ELSE IF send.outcome = "unknown" THEN "uncertain" ELSE "failed"
     IN outbox' = IF r.status # "sending" THEN outbox
                  ELSE With(send.row, [r EXCEPT !.status = status,
                              !.next = clock + IF again THEN 1 ELSE 0,
                              !.finished = IF again THEN None ELSE clock])
  /\ UNCHANGED <<clock, sourceVars, intakeVars, binding, budget, history, faults>>

Crash ==
  /\ send # Idle /\ send' = Idle
  /\ faults < MaxFaults /\ faults' = faults + 1
  /\ UNCHANGED <<clock, sourceVars, cursor, flags, seeded, binding, outbox, budget, history>>

-----------------------------------------------------------------------------
(* unlink, and /start with a fresh code.                                    *)

Disabled ==
  [i \in Ids |-> IF outbox[i] # None /\ outbox[i].status \in {"pending", "sending"}
                 THEN Cancelled(outbox[i]) ELSE outbox[i]]

Unlink ==
  /\ binding.on /\ binding' = [binding EXCEPT !.on = FALSE] /\ outbox' = Disabled
  /\ UNCHANGED <<clock, sourceVars, intakeVars, budget, send, history, faults>>

Bind ==
  /\ faults < MaxFaults /\ faults' = faults + 1
  /\ binding' = [id |-> binding.id + 1, on |-> TRUE, at |-> clock] /\ outbox' = Disabled
  /\ UNCHANGED <<clock, sourceVars, intakeVars, budget, send, history>>

Next ==
  \/ Tick \/ \E s \in {"clear", "triggered"} : Journal(s)
  \/ \E id \in Ids : Prune(id)
  \/ \E high, published \in Ids : ScanEvents(high, published)
  \/ Claim \/ Authorize \/ \E o \in {"sent", "rejected", "refused", "unknown"} : Post(o)
  \/ Finish \/ Crash \/ Unlink \/ Bind

Spec == Init /\ [][Next]_vars

-----------------------------------------------------------------------------
\* A row is delivered at most once, whatever was not answered, interrupted,
\* retried or unlinked meanwhile.
AtMostOnce == \A i \in Ids : arrived[i] <= 1

\* Two messages of one alert are a cooldown apart, once the first is on record.
Spaced == ~hurried

\* The queue belongs to the binding: an open row is one of the live binding.
QueueOfBinding ==
  \A i \in Ids : outbox[i] # None /\ outbox[i].status \in {"pending", "sending"} =>
    binding.on /\ outbox[i].binding = binding.id

\* A transition is judged against the status the journal had before it.
FlagsFollow == cursor >= seeded => flags = journal[cursor].status

\* The alerts of a user: each at most once, in their rhythm, to the chat that is
\* bound, and for transitions that happened (telegram_alerts.py:3-7).
AlertsSound == AtMostOnce /\ Spaced /\ QueueOfBinding /\ FlagsFollow
=============================================================================
