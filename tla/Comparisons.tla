---------------------------- MODULE Comparisons ----------------------------
(***************************************************************************)
(* The comparison of a token with its reference (comparison_service.py,    *)
(* comparisons.py, comparison_alerts.py): one metric of one stock, from    *)
(* the dated quotes it is computed of to the packet a reader sees and the  *)
(* deviation alerts.  A spread of a pool and a premium differ in their     *)
(* legs and agree in all that is modelled here.  The refreshes of the      *)
(* process, full and derived, hold one lock in turn.                       *)
(*                                                                         *)
(* Abstracted: prices are integers whose difference is the deviation; the  *)
(* instrument, unit and independence checks of a quote (a quote that fails *)
(* them is one that has no time); the second by which a quote may be ahead *)
(* of the clock; the batches of 200 rows, since every subject is committed *)
(* as a whole.                                                             *)
(***************************************************************************)
EXTENDS Integers, Sequences, FiniteSets

CONSTANTS
  TokenPrices, ReferencePrices,
  Delays,       \* how late a reference may be, 0 of one that is live
  Lags,         \* how much later than its time a quote is read first
  LiveAge, LiveSkew, MaxAge, MaxSkew,  \* LIVE_AGE, LIVE_SKEW, MAX_AGE, MAX_SKEW
  Threshold,    \* the deviation that is worth an alert
  Needed, Sustain,  \* ... when so many observations show it, for so long
  Retention,    \* how long observations are kept
  MaxInstant, MaxRefreshes

ASSUME ComparisonAssumption ==
  /\ TokenPrices \subseteq Int /\ TokenPrices # {}
  /\ ReferencePrices \subseteq Int /\ ReferencePrices # {}
  /\ Delays \subseteq Nat /\ 0 \in Delays /\ Lags \subseteq Nat
  /\ LiveAge \in Nat /\ LiveSkew \in Nat /\ MaxAge \in Nat /\ MaxSkew \in Nat
  /\ Threshold \in Nat \ {0} /\ Needed \in Nat \ {0} /\ Sustain \in Nat /\ Retention \in Nat
  /\ MaxInstant \in Nat \ {0} /\ MaxRefreshes \in Nat

VARIABLES
  instant,       \* the clock, from 1: time 0 is "none"
  token, reference,  \* the two legs as the latest refresh read them
  observations,  \* comparison_samples: the token quotes kept
  refreshing,    \* the refresh under way: its phase and its `now`
  alert,         \* the fact comparison-alert-state
  packet,        \* the fact comparison
  signalled,     \* the alert events, in their order
  evaluated      \* what the alert was advanced with, one entry per commit

comparisonVars ==
  <<instant, token, reference, observations, refreshing, alert, packet,
    signalled, evaluated>>

Instants == 0..MaxInstant
TokenQuotes == [at : Instants, price : TokenPrices]
ReferenceQuotes == [at : Instants, price : ReferencePrices, delay : Delays]
Inputs == TokenQuotes \X ReferenceQuotes

AbsOf(n) == IF n < 0 THEN -n ELSE n
Earlier(m, n) == IF m < n THEN m ELSE n

Unavailable ==
  [status |-> "unavailable", value |-> 0, at |-> 0, valid |-> 0, live |-> 0, inputs |-> <<>>]
Known(m) == m.status # "unavailable"

Metrics ==
  {Unavailable} \cup
  [status : {"realtime", "snapshot", "delayed"}, value : Int, at : Nat,
   valid : Nat, live : Nat, inputs : Inputs]

\* A state of the alert with no streak.
Calm(active, valid, gap) ==
  [active |-> active, gap |-> gap, valid |-> valid, direction |-> 0,
   count |-> 0, first |-> 0, seen |-> <<>>]

AlertStates ==
  [active : BOOLEAN, gap : BOOLEAN, valid : Instants, direction : {-1, 0, 1},
   count : Nat, first : Instants, seen : {<<>>} \cup Inputs]

ComparisonTypeOK ==
  /\ instant \in Instants /\ token \in TokenQuotes /\ reference \in ReferenceQuotes
  /\ observations \subseteq TokenQuotes
  /\ refreshing \in [phase : {"idle", "started", "computing"}, now : Instants]
  /\ alert \in AlertStates /\ packet \in Metrics
  /\ signalled \in Seq([kind : {"spread-expanded", "spread-recovered"}, n : Nat])
  /\ evaluated \in Seq([now : Instants, live : BOOLEAN, value : Int, inputs : {<<>>} \cup Inputs])

Resting == [phase |-> "idle", now |-> 0]

ComparisonInit ==
  /\ instant = 1
  /\ token \in [at : {0}, price : TokenPrices]
  /\ reference \in [at : {0}, price : ReferencePrices, delay : {0}]
  /\ observations = {} /\ refreshing = Resting /\ alert = Calm(FALSE, 0, FALSE)
  /\ packet = Unavailable
  /\ signalled = <<>> /\ evaluated = <<>>

-----------------------------------------------------------------------------
\* timing: both times known, none ahead of the clock, none too old, and near
\* each other.
Comparable(t, r, now) ==
  /\ t.at # 0 /\ r.at # 0 /\ t.at <= now /\ r.at <= now
  /\ now - Earlier(t.at, r.at) <= MaxAge + r.delay
  /\ AbsOf(t.at - r.at) <= MaxSkew

LiveTimes(t, r) == r.delay = 0 /\ AbsOf(t.at - r.at) <= LiveSkew

\* stock_premium, pool_spread
Metric(t, r, now) ==
  IF ~Comparable(t, r, now) THEN Unavailable
  ELSE LET at == Earlier(t.at, r.at) IN
    [status |-> IF r.delay # 0 THEN "delayed"
                ELSE IF LiveTimes(t, r) /\ now - at <= LiveAge THEN "realtime" ELSE "snapshot",
     value |-> t.price - r.price, at |-> at, valid |-> at + MaxAge + r.delay,
     live |-> IF LiveTimes(t, r) THEN at + LiveAge ELSE 0, inputs |-> <<t, r>>]

\* at_reference: a delayed reference is compared with the stored observation
\* nearest to its own time.
Near(r) == {o \in observations : AbsOf(o.at - r.at) <= MaxSkew}
Aligned(t, r) ==
  IF r.at = 0 \/ r.delay = 0 \/ (t.at # 0 /\ AbsOf(t.at - r.at) <= MaxSkew) THEN {t}
  ELSE IF Near(r) = {} THEN {[t EXCEPT !.at = 0]}
  ELSE {o \in Near(r) : \A p \in Near(r) : AbsOf(o.at - r.at) <= AbsOf(p.at - r.at)}

\* Mutant: as it was calculated.
PublicAlways(m, now) == m
\* public_metric: what is shown of a metric at a later time.
Public(m, now) ==
  IF ~Known(m) \/ now > m.valid THEN Unavailable
  ELSE IF m.status = "realtime" /\ now > m.live THEN [m EXCEPT !.status = "snapshot"]
  ELSE m

-----------------------------------------------------------------------------
\* advance
Usable(m, now) == m.status = "realtime" /\ now <= m.live
Large(v) == AbsOf(v) >= Threshold
Small(v) == 10 * AbsOf(v) < 6 * Threshold
Side(v) == IF v >= 0 THEN 1 ELSE -1

\* Mutant: a streak goes on after a pause of any length.
ContinuedAlways(now) == IF alert.gap THEN Calm(alert.active, 0, FALSE) ELSE alert
\* A streak ends where the metric was missing or no refresh came in time.
Continued(now) ==
  IF alert.gap \/ (alert.valid # 0 /\ now - alert.valid > LiveAge)
  THEN Calm(alert.active, 0, FALSE) ELSE alert

\* Mutant: the streak of one direction counts for the other.
CountedAnyway(m, now) ==
  LET before == Continued(now) IN
  [before EXCEPT !.direction = Side(m.value),
                 !.count = @ + (IF before.seen = m.inputs THEN 0 ELSE 1),
                 !.first = IF @ = 0 THEN now ELSE @, !.seen = m.inputs, !.valid = now]
\* The streak with this deviation in it; one of the other direction starts anew.
Counted(m, now) ==
  LET before == IF Continued(now).direction = Side(m.value) THEN Continued(now)
                ELSE Calm(FALSE, 0, FALSE)
  IN [before EXCEPT !.direction = Side(m.value),
                    !.count = @ + (IF before.seen = m.inputs THEN 0 ELSE 1),
                    !.first = IF @ = 0 THEN now ELSE @, !.seen = m.inputs, !.valid = now]

Lasting(c, now) == c.count >= Needed /\ now - c.first >= Sustain

\* The state after an evaluation, and the kind of the event, if there is one.
Advanced(m, now) ==
  IF ~Usable(m, now) THEN Calm(alert.active, alert.valid, TRUE)
  ELSE IF Continued(now).active THEN Calm(~Small(m.value), now, FALSE)
  ELSE IF ~Large(m.value) THEN Calm(FALSE, now, FALSE)
  ELSE IF Lasting(Counted(m, now), now) THEN Calm(TRUE, now, FALSE)
  ELSE Counted(m, now)

\* check_alert: a shallow pool alerts nobody.
Judged(m, deep) == IF deep THEN m ELSE Unavailable

\* What an evaluation says of the deviation: nothing, unless it is live.
Seen(m, now) ==
  [now |-> now, live |-> Usable(m, now),
   value |-> IF Usable(m, now) THEN m.value ELSE 0,
   inputs |-> IF Usable(m, now) THEN m.inputs ELSE <<>>]

AlertEvents(after, n) ==
  IF after.active = alert.active THEN <<>>
  ELSE <<[kind |-> IF after.active THEN "spread-expanded" ELSE "spread-recovered", n |-> n]>>

-----------------------------------------------------------------------------
PassTime ==
  /\ instant < MaxInstant /\ instant' = instant + 1
  /\ UNCHANGED <<token, reference, observations, refreshing, alert, packet,
                 signalled, evaluated>>

\* refresh_comparisons, under its lock: the time of this refresh.
StartRefresh ==
  /\ refreshing.phase = "idle" /\ Len(evaluated) < MaxRefreshes
  /\ refreshing' = [phase |-> "started", now |-> instant]
  /\ UNCHANGED <<instant, token, reference, observations, alert, packet,
                 signalled, evaluated>>

\* Quotes as their sources date them: the same one, or a later one.
NewestQuote(old, quotes) == {q \in quotes : q = old \/ (q.at > old.at /\ instant - q.at \in Lags)}

\* token_observation and history_row: a quote without a time is no observation.
Observed(q) == IF q.at = 0 THEN {} ELSE {q}

\* new_history_rows, comparison_samples_batch: what is stored is not inserted again.
NewRows(rows) == rows \ observations
Inserted(rows) == observations \cup NewRows(rows)

\* The facts are read after the time of the refresh was; the token's quote is
\* kept as an observation, in a commit of its own (comparison_samples_batch).
ReadQuotes ==
  /\ refreshing.phase = "started"
  /\ token' \in NewestQuote(token, TokenQuotes)
  /\ reference' \in NewestQuote(reference, ReferenceQuotes)
  /\ observations' = Inserted(Observed(token'))
  /\ refreshing' = [refreshing EXCEPT !.phase = "computing"]
  /\ UNCHANGED <<instant, alert, packet, signalled, evaluated>>

\* A stock without pairs and without a packet is left out while it has no value.
LeaveOut ==
  /\ refreshing.phase = "computing" /\ packet = Unavailable /\ evaluated = <<>>
  /\ \E t \in Aligned(token, reference) : ~Known(Metric(t, reference, refreshing.now))
  /\ refreshing' = Resting
  /\ UNCHANGED <<instant, token, reference, observations, alert, packet,
                 signalled, evaluated>>

\* What a refresh computes for a subject: the state, event and packet.
Group(t, deep, now) ==
  LET m == Metric(t, reference, now)
      after == Advanced(Judged(m, deep), now)
  IN [alert |-> after, events |-> AlertEvents(after, Len(evaluated) + 1), packet |-> m,
      seen |-> Seen(Judged(m, deep), now)]

\* ComparisonBatch: the whole group in one transaction, and only then the
\* packet goes to the readers.
CommitSubject ==
  /\ refreshing.phase = "computing"
  /\ \E t \in Aligned(token, reference), deep \in BOOLEAN :
       LET group == Group(t, deep, refreshing.now) IN
       /\ alert' = group.alert
       /\ signalled' = signalled \o group.events
       /\ packet' = group.packet
       /\ evaluated' = Append(evaluated, group.seen)
  /\ refreshing' = Resting
  /\ UNCHANGED <<instant, token, reference, observations>>

\* The database stays busy, the turn is cancelled or the process dies.
BreakOff ==
  /\ refreshing.phase # "idle"
  /\ refreshing' = Resting
  /\ UNCHANGED <<instant, token, reference, observations, alert, packet,
                 signalled, evaluated>>

\* prune_comparisons
PruneObservations ==
  /\ observations' = {o \in observations : o.at >= instant - Retention}
  /\ observations' # observations
  /\ UNCHANGED <<instant, token, reference, refreshing, alert, packet,
                 signalled, evaluated>>

ComparisonNext ==
  \/ PassTime \/ StartRefresh \/ ReadQuotes \/ LeaveOut \/ CommitSubject
  \/ BreakOff \/ PruneObservations

ComparisonSpec == ComparisonInit /\ [][ComparisonNext]_comparisonVars

-----------------------------------------------------------------------------
Deviates(i, side) ==
  evaluated[i].live /\ Large(evaluated[i].value) /\ Side(evaluated[i].value) = side

\* The evaluations f to n are one streak: live and large deviations of one
\* side, no pause between them.
Streak(f, n, side) ==
  /\ \A i \in f..n : Deviates(i, side)
  /\ \A i \in f..n - 1 : evaluated[i + 1].now - evaluated[i].now <= LiveAge

InputsOf(i) == evaluated[i].inputs

\* An expansion is announced after a lasting streak of enough
\* different observations, a recovery on a live small deviation: a gap proves
\* neither.
AlertsJustified ==
  \A k \in DOMAIN signalled :
    LET n == signalled[k].n IN
    /\ n \in DOMAIN evaluated
    /\ signalled[k].kind = "spread-expanded" =>
         \E f \in 1..n, side \in {-1, 1} :
           /\ Streak(f, n, side) /\ evaluated[n].now - evaluated[f].now >= Sustain
           /\ Cardinality({InputsOf(i) : i \in f..n}) >= Needed
    /\ signalled[k].kind = "spread-recovered" =>
         evaluated[n].live /\ Small(evaluated[n].value)

\* The events tell the state: they alternate, and the last one is its cause.
EventsFollow ==
  /\ alert.active <=> signalled # <<>> /\ signalled[Len(signalled)].kind = "spread-expanded"
  /\ \A k \in DOMAIN signalled : (signalled[k].kind = "spread-expanded") <=> (k % 2 = 1)

\* read_comparison: the packet as it is shown now.
Shown == Public(packet, instant)

\* Whatever a reader is shown, and whenever: the two prices were quoted near
\* each other and not too long ago, and what is called realtime is.
ShownHonest ==
  LET t == Shown.inputs[1]
      r == Shown.inputs[2]
  IN Known(Shown) =>
       /\ Shown.value = t.price - r.price /\ AbsOf(t.at - r.at) <= MaxSkew
       /\ instant - t.at <= MaxAge + r.delay /\ instant - r.at <= MaxAge + r.delay
       /\ Shown.status = "realtime" =>
            /\ r.delay = 0 /\ AbsOf(t.at - r.at) <= LiveSkew
            /\ instant - t.at <= LiveAge /\ instant - r.at <= LiveAge

ComparisonsSound ==
  AlertsJustified /\ EventsFollow /\ ShownHonest

=============================================================================
