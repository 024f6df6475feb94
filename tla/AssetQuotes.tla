---------------------------- MODULE AssetQuotes ----------------------------
(*************************************************************************)
(* Quotation rounds (collectors/live_quotes.py) and the merge they end in *)
(* (collectors/assets.py, db.py).  Lanes take turns, one at a time (worker *)
(* quote network gate): a core of assets, and every asset of a base lane, *)
(* due ones first and oldest attempt first, within what a ledger of        *)
(* requests allows so far today.  A turn is asked for in batches; every    *)
(* row is merged field by field in one transaction with the checkpoint of  *)
(* its job, while the chain stream merges prices of its own, and a turn    *)
(* may be cancelled anywhere.  The clock counts the five-minute slots of   *)
(* the lanes.  Names, kinds, discovery marks, the market cap of a sample   *)
(* and the ranking of the core are left out.                               *)
(*************************************************************************)
EXTENDS Integers, Sequences, SequencesExt, FiniteSets, FiniteSetsExt

CONSTANTS
  None,
  Tokens,
  CoreCount,   \* assets of the core at most
  Batch,       \* assets of one request
  PerSlot,     \* requests the base lane earns in a slot
  CoreEvery, BaseEvery, \* ages at which a lane wants another price
  Published,   \* age up to which a price counts as fresh
  Soon, Spacing, \* look-ahead to an expiry, distance of such attempts
  Minute, Hour, MostFailures, \* back-off
  Anchored,    \* age of a price a chain execution may be valued with
  Bucket,      \* length of a sample's period
  Values,
  Clocked,     \* assets whose rows state a market time
  Streamed,    \* assets the chain stream values
  Lags,        \* how old a stated market time may be
  Delays,      \* of an execution
  Start,       \* of the day
  MaxClock, MaxMishaps \* bounds

VARIABLES
  now,
  asset,     \* token -> price and cap (facts or None), and provenance of the price
  samples,   \* token -> period -> price and evidence
  job,       \* token -> checkpoint of its quotation
  turn,      \* the lane that has its turn, what it has still to do
  ran,       \* lanes that had their turn in this slot
  used,      \* charged to the base lane today
  newest,    \* token -> field -> newest clock merged (history)
  slack,     \* requests outside the pace of the base lane (history)
  mishaps    \* what went wrong (bounded)

store == <<asset, samples, newest>>
vars == <<now, store, job, turn, ran, used, slack, mishaps>>

Lanes == {"core", "base"}
Fields == {"price", "cap"}
Idle == [lane |-> None, left |-> <<>>, rows |-> {}, rest |-> {}]
Later2(a, b) == IF a > b THEN a ELSE b

TypeOK ==
  /\ now \in Start..MaxClock /\ used \in 0..2 * PerSlot * (MaxClock + 2) /\ mishaps \in 0..MaxMishaps
  /\ \A t \in Tokens, f \in Fields : asset[t][f] # None => asset[t][f].time \in 0..MaxClock
  /\ turn.lane \in Lanes \cup {None} /\ turn.rest \subseteq Tokens /\ ran \subseteq Lanes
  /\ \A t \in Tokens : job[t].failures \in 0..MostFailures

Init ==
  /\ now = Start
  /\ asset = [t \in Tokens |-> [price |-> None, cap |-> None, provenance |-> None]]
  /\ samples = [t \in Tokens |-> <<>>]
  /\ newest = [t \in Tokens |-> [f \in Fields |-> 0]]
  /\ job = [t \in Tokens |-> [attempt |-> 0, success |-> 0, failures |-> 0, retry |-> 0, lane |-> None]]
  /\ turn = Idle /\ ran = {} /\ used = 0 /\ slack = 0 /\ mishaps = 0

Mishap(n) == mishaps + n <= MaxMishaps /\ mishaps' = mishaps + n

-----------------------------------------------------------------------------
\* The merge.

Observed(q) == IF q.at = None THEN q.got ELSE q.at
Time(t, f) == IF asset[t][f] = None THEN 0 ELSE asset[t][f].time
Said(q) == [value |-> q.value, time |-> Observed(q), source |-> q.source, at |-> q.at, got |-> q.got]

OneClock(t, f, q) == \A g \in Fields : Observed(q) >= Time(t, g)
Later(t, f, q) == Observed(q) >= Time(t, f)

\* _same_market_field: only a market time tells a repeat, and never the receipt.
SameMarketField(t, f, q) ==
  /\ q.at # None /\ asset[t][f] # None
  /\ [asset[t][f] EXCEPT !.got = q.got] = Said(q)
  /\ f = "price" /\ q.provenance # None => asset[t].provenance = q.provenance

Accepted(t, q) == {f \in q.fields : Later(t, f, q) /\ ~SameMarketField(t, f, q)}

\* What describes a price moves with it, where the quote says it.
Provenance(t, q) ==
  IF "price" \in Accepted(t, q) /\ q.provenance # None THEN q.provenance ELSE asset[t].provenance

Quoted(t, q) ==
  LET new(f) == IF f \in Accepted(t, q) THEN Said(q) ELSE asset[t][f]
  IN [price |-> new("price"), cap |-> new("cap"), provenance |-> Provenance(t, q)]

\* A sample is of the price as it stands: accepted, or standing while the
\* cap beside it moves, or a repeat whose sample is missing.
Sampled(t, q) ==
  /\ "price" \in q.fields
  /\ \/ "price" \in Accepted(t, q)
     \/ /\ "cap" \in Accepted(t, q)
        /\ asset[t].price # None /\ asset[t].price.value = q.value /\ Time(t, "price") = Observed(q)
     \/ /\ Later(t, "price", q) /\ SameMarketField(t, "price", q)
        /\ Observed(q) \div Bucket \notin DOMAIN samples[t]

\* merge_asset_observation, in the transaction of its caller.
Merge(t, q) ==
  LET b == Observed(q) \div Bucket
      merged == Quoted(t, q)
      kept == samples[t]
  IN /\ asset' = [asset EXCEPT ![t] = merged]
     /\ samples' = IF Sampled(t, q)
          THEN [samples EXCEPT ![t] = [i \in DOMAIN kept \cup {b} |->
                 IF i = b THEN [price |-> q.value, evidence |-> merged.price] ELSE kept[i]]]
          ELSE samples
     /\ newest' = [newest EXCEPT ![t] = [f \in Fields |->
          IF f \in q.fields THEN Later2(@[f], Observed(q)) ELSE @[f]]]

\* save_asset: without a market time the receipt is the clock, and a price
\* that is not one is left out.
Usable(r) == r.value \in Values
Row(r) ==
  [source |-> "OKX", at |-> r.at, got |-> now, value |-> r.value, provenance |-> None,
   fields |-> IF Usable(r) THEN Fields ELSE {"cap"}]

\* pool_asset_quote: an execution valued with the other token's price.
Derive(t, other, at, value) ==
  /\ t # other /\ asset[other].price # None /\ at >= Time(t, "price")
  /\ asset[other].price.source # "Chain RPC"
  /\ at - Time(other, "price") \in 0..Anchored
  /\ Merge(t, [source |-> "Chain RPC", at |-> at, got |-> now, value |-> value,
               provenance |-> "Chain RPC", fields |-> {"price"}])
  /\ UNCHANGED <<now, job, turn, ran, used, slack, mishaps>>

-----------------------------------------------------------------------------
\* Selection.

PriceTime(t) == Time(t, "price")
FreshPrice(a, time, age) == a.price # None /\ time - a.price.time \in 0..age
Due(t, every) == now >= Later2(job[t].retry, job[t].success + every)

\* quote_due: the stored observation counts, never the success of a job.
QuoteDue(t, every) ==
  job[t].retry <= now /\ (~FreshPrice(asset[t], now, every) \/ Due(t, every))

Impending(t) ==
  /\ ~QuoteDue(t, BaseEvery) /\ job[t].retry <= now
  /\ PriceTime(t) + Published - now \in 1..Soon
  /\ now - job[t].attempt >= Spacing

ByAttempt(S) == SetToSortSeq(S, LAMBDA t, u : job[t].attempt < job[u].attempt)
ByExpiry(S) ==
  SetToSortSeq(S, LAMBDA t, u : \/ PriceTime(t) < PriceTime(u)
                                \/ PriceTime(t) = PriceTime(u) /\ job[t].attempt < job[u].attempt)
FirstOf(s, n) == SubSeq(s, 1, IF n < Len(s) THEN n ELSE Len(s))

Core(chosen) == ByAttempt({t \in chosen : Due(t, CoreEvery)})

\* _baseline: due assets take their places before the impending ones.
DueQuotes == ByAttempt({t \in Tokens : QuoteDue(t, BaseEvery)})
ImpendingQuotes == ByExpiry({t \in Tokens : Impending(t)})
ImpendingFirst(places) == FirstOf(ImpendingQuotes \o DueQuotes, places)
Baseline(places) == FirstOf(DueQuotes \o ImpendingQuotes, places)

\* stock_batch_allowance: what the day has earned so far, and not all at once.
Scheduled == (now - Start + 1) * PerSlot
Unpaced == PerSlot
Allowance == Later2(0, Min({PerSlot, Scheduled - used}))

Settle(left, rows, rest) ==
  IF left = <<>> /\ rows = {} /\ rest = {} THEN Idle
  ELSE [turn EXCEPT !.left = left, !.rows = rows, !.rest = rest]

Begin(lane, work) ==
  /\ turn.lane = None /\ lane \notin ran /\ ran' = ran \cup {lane}
  /\ turn' = IF work = <<>> THEN Idle ELSE [Idle EXCEPT !.lane = lane, !.left = work]
  /\ UNCHANGED <<now, store, job, used>>

BeginCore ==
  /\ \E chosen \in SUBSET Tokens : Cardinality(chosen) <= CoreCount /\ Begin("core", Core(chosen))
  /\ UNCHANGED <<slack, mishaps>>

\* The ledger of the lane cannot always be read; the pace is then that of a slot.
BeginBase ==
  \/ Begin("base", Baseline(Batch * Allowance)) /\ UNCHANGED <<slack, mishaps>>
  \/ Begin("base", Baseline(Batch * PerSlot)) /\ Mishap(1) /\ slack' = slack + PerSlot

-----------------------------------------------------------------------------
\* A turn.

Asking == turn.lane # None /\ turn.left # <<>> /\ turn.rows = {} /\ turn.rest = {}
Asked == ToSet(FirstOf(turn.left, Batch))
Left == SubSeq(turn.left, Batch + 1, Len(turn.left))

\* Every attempt at a request is charged before it is sent.
Charge(n) ==
  /\ used' = IF turn.lane = "base" THEN used + n ELSE used
  /\ slack' = IF turn.lane = "base" THEN slack + n - 1 ELSE slack

Lagging(r) == ~Usable(r) \/ r.at \notin {None, now}

\* okx_post answers; assets may be missing, and rows may lack a price.
Answer(said) ==
  /\ Asking /\ Charge(1)
  /\ \A t \in Asked : said[t] # None => (said[t].at = None <=> t \notin Clocked)
  /\ Mishap(Cardinality({t \in Asked : said[t] = None \/ Lagging(said[t])}))
  /\ LET missing == {t \in Asked : said[t] = None} IN
     turn' = [turn EXCEPT !.left = Left, !.rest = missing,
                          !.rows = {[token |-> t, at |-> said[t].at, value |-> said[t].value] : t \in Asked \ missing}]
  /\ UNCHANGED <<now, store, job, ran>>

\* It fails, after as many attempts as the limit of its rate allowed.
Fail(n) ==
  /\ Asking /\ Charge(n) /\ Mishap(1)
  /\ turn' = [turn EXCEPT !.left = Left, !.rest = Asked]
  /\ UNCHANGED <<now, store, job, ran>>

QuotaExceeded ==
  /\ Asking /\ Mishap(1) /\ turn' = Idle
  /\ UNCHANGED <<now, store, job, ran, used, slack>>

BackOff(n) == Min({Hour, Minute * 2 ^ n})
Checkpoint(t, success) ==
  LET failures == IF success THEN 0 ELSE Min({MostFailures, job[t].failures + 1})
  IN job' = [job EXCEPT ![t] = [attempt |-> now, success |-> IF success THEN now ELSE @.success,
                                failures |-> failures, retry |-> IF success THEN 0 ELSE now + BackOff(failures),
                                lane |-> turn.lane]]

\* decide, on the asset the transaction commits.
DecideOnJob(r, committed) == Usable(r)
Decide(r, committed) == Usable(r) /\ (turn.lane = "base" => FreshPrice(committed, now, Published))

SaveRow(r) ==
  /\ r \in turn.rows /\ turn' = Settle(turn.left, turn.rows \ {r}, turn.rest)
  /\ Merge(r.token, Row(r)) /\ Checkpoint(r.token, Decide(r, asset'[r.token]))
  /\ UNCHANGED <<now, ran, used, slack, mishaps>>

\* A busy row is given up, without a checkpoint, and the others go on.
RowBusy(r) ==
  /\ r \in turn.rows /\ turn' = Settle(turn.left, turn.rows \ {r}, turn.rest) /\ Mishap(1)
  /\ UNCHANGED <<now, store, job, ran, used, slack>>

Missing(t) ==
  /\ turn.rows = {} /\ t \in turn.rest /\ turn' = Settle(turn.left, {}, turn.rest \ {t})
  /\ Checkpoint(t, FALSE)
  /\ UNCHANGED <<now, store, ran, used, slack, mishaps>>

MissingBusy(t) ==
  /\ turn.rows = {} /\ t \in turn.rest /\ turn' = Settle(turn.left, {}, turn.rest \ {t})
  /\ UNCHANGED <<now, store, job, ran, used, slack, mishaps>>

\* The turn expires or the worker starts again; what was merged and charged stays.
Restart ==
  /\ Mishap(1) /\ turn' = Idle /\ ran' = {}
  /\ UNCHANGED <<now, store, job, used, slack>>

\* A slot ends; a lane may be late, or still busy.
Tick ==
  /\ now < MaxClock /\ now' = now + 1 /\ ran' = {}
  /\ IF turn = Idle /\ ran = Lanes THEN UNCHANGED mishaps ELSE Mishap(1)
  /\ UNCHANGED <<store, job, turn, used, slack>>

Rows == [at : {now - lag : lag \in Lags} \cup {None}, value : Values \cup {0}]

Next ==
  \/ BeginCore \/ BeginBase \/ QuotaExceeded \/ Restart \/ Tick
  \/ Asking /\ \E said \in [Asked -> Rows \cup {None}] : Answer(said)
  \/ \E n \in 1..2 : Fail(n)
  \/ \E r \in turn.rows : SaveRow(r) \/ RowBusy(r)
  \/ \E t \in turn.rest : Missing(t) \/ MissingBusy(t)
  \/ \E t \in Streamed, other \in Tokens, delay \in Delays, value \in Values : Derive(t, other, now - delay, value)

Spec == Init /\ [][Next]_vars

-----------------------------------------------------------------------------
\* Each field shows the newest clock that was merged of it, however late and in
\* which order the sources answer.
FieldsNewest == \A t \in Tokens, f \in Fields : Time(t, f) = newest[t][f]

\* The price of a sample is the one its evidence is about, of that period.
SamplesProven ==
  \A t \in Tokens : \A b \in DOMAIN samples[t] :
    /\ samples[t][b].price = samples[t][b].evidence.value
    /\ samples[t][b].evidence.time \div Bucket = b

\* quote_packet: a description that is not of the price's source is not sent.
DescribedAnyway(t) == asset[t].provenance
Described(t) ==
  IF asset[t].provenance = asset[t].price.source THEN asset[t].provenance ELSE None

PacketsTrue ==
  \A t \in Tokens : asset[t].price # None => Described(t) \in {None, asset[t].price.source}

\* A success of the base lane means that a fresh price was in the store at that time.
CheckpointsTrue ==
  \A t \in Tokens : job[t].lane = "base" /\ job[t].failures = 0 =>
    asset[t].price # None /\ job[t].success - PriceTime(t) <= Published

\* Requests keep to what the day has earned, but for repeated attempts and turns
\* that could not read the ledger.
Paced == used <= Scheduled + slack

\* While nothing goes wrong no price outlives what is published as fresh.
CoverageKept == mishaps = 0 => \A t \in Tokens : now - Later2(PriceTime(t), Start) <= Published

QuotesKept == FieldsNewest /\ SamplesProven /\ PacketsTrue /\ CheckpointsTrue /\ Paced /\ CoverageKept
=============================================================================
