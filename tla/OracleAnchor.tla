---------------------------- MODULE OracleAnchor ----------------------------
(***************************************************************************)
(* The dated price rounds of the oracle feeds (collectors/                 *)
(* chainlink_anchor.py): a periodic round asks one feed after the other    *)
(* through the stream's gate, gives way to a backlog of the live queue for *)
(* a bounded time, and stores what it reads; a trade is valued with the    *)
(* stored round before it.                                                 *)
(*                                                                         *)
(* Abstracted: the words of an answer are a round of its feed or invalid,  *)
(* the price of a round is its number; a step of the clock is the period   *)
(* of the task, which is long against the round itself.                    *)
(***************************************************************************)
EXTENDS Integers, Sequences, FiniteSets

CONSTANTS
  Feeds,          \* a sequence: FEEDS in their order
  CallsPerFeed, MaxRoundCalls,  \* 4 and MAX_ROUND_RPC_CALLS
  WaitSteps,      \* BACKLOG_WAIT_STEPS
  ForceAge,       \* FORCE_SAMPLE_AGE_MS
  MaxQuoteAge, MaxWindowRows,
  Horizon, MaxSamples,
  MaxFeedRounds, MaxOracleClock, MaxOracleFaults

Feed == {Feeds[i] : i \in 1..Len(Feeds)}

OracleAssumption ==
  /\ Feeds \in Seq(Feed) /\ Len(Feeds) > 0
  /\ CallsPerFeed \in Nat \ {0} /\ MaxRoundCalls \in Nat /\ WaitSteps \in Nat
  /\ ForceAge \in Nat \ {0} /\ MaxQuoteAge \in Nat /\ MaxWindowRows \in Nat
  /\ Horizon \in Nat /\ MaxSamples \in Nat \ {0}
  /\ MaxFeedRounds \in Nat /\ MaxOracleClock \in Nat /\ MaxOracleFaults \in Nat

VARIABLES
  oracleClock,
  published,   \* of each feed: the times of its rounds, by number
  samples,     \* the facts oracle-feed: [round, at, observed]
  turnPhase,   \* "idle" | "begun" | "next" | "asking" | "read"
  position,    \* the feed this turn is at
  waited,      \* how long this turn has waited for the backlog
  forced,      \* ... and does no more
  calls,       \* how many calls this turn has made
  answer,      \* what the feed just asked has answered
  due,         \* when the next turn is due
  asked,       \* of each feed: when it was asked last
  oracleFaults

oracleVars ==
  <<oracleClock, published, samples, turnPhase, position, waited, forced,
    calls, answer, due, asked, oracleFaults>>

NoRound == [round |-> 0, at |-> 0, observed |-> 0]
Samples == [round : 1..MaxFeedRounds, at : 1..MaxOracleClock, observed : 1..MaxOracleClock]

OracleTypeOK ==
  /\ oracleClock \in 1..MaxOracleClock
  /\ published \in [Feed -> Seq(1..MaxOracleClock)]
  /\ \A f \in Feed : samples[f] \subseteq Samples
  /\ turnPhase \in {"idle", "begun", "next", "asking", "read"}
  /\ position \in 1..Len(Feeds) /\ waited \in 0..WaitSteps /\ forced \in BOOLEAN
  /\ calls \in 0..MaxRoundCalls /\ answer \in Samples \cup {NoRound}
  /\ due \in 1..MaxOracleClock + 1 /\ asked \in [Feed -> 0..MaxOracleClock]
  /\ oracleFaults \in 0..MaxOracleFaults

OracleInit ==
  /\ oracleClock = 1 /\ published = [f \in Feed |-> <<>>] /\ samples = [f \in Feed |-> {}]
  /\ turnPhase = "idle" /\ position = 1 /\ waited = 0 /\ forced = FALSE
  /\ calls = 0 /\ answer = NoRound /\ due = 1 /\ asked = [f \in Feed |-> 0]
  /\ oracleFaults = 0

-----------------------------------------------------------------------------
NewestOf(S) == {s \in S : \A other \in S : other.at <= s.at}

Recent(f) == \E s \in NewestOf(samples[f]) : oracleClock - s.observed < ForceAge

\* Mutant: deferred until every feed is overdue.
ForceLate == \A f \in Feed : ~Recent(f)
\* _force_due: decided by the stored times, so that a restart defers no further.
ForceDue == \E f \in Feed : ~Recent(f)

\* Mutant: a valuation may use a row of any age.
WindowAny(f, t) == {s \in samples[f] : s.at <= t}
\* The rows a valuation may use, and the one it uses (dated_quote_rate).
Window(f, t) == {s \in samples[f] : t - MaxQuoteAge <= s.at /\ s.at <= t}

\* dated_quote_rate: a window of too many rows values nothing.
Dated(f, t) == Window(f, t) # {} /\ Cardinality(Window(f, t)) <= MaxWindowRows
Rates(f, t) == {s.round : s \in NewestOf(Window(f, t))}

-----------------------------------------------------------------------------
turn == <<turnPhase, position, waited, forced, calls, answer>>

\* The feed's contract publishes a round.
PublishRound(f) ==
  /\ Len(published[f]) < MaxFeedRounds
  /\ \A i \in DOMAIN published[f] : published[f][i] < oracleClock
  /\ published' = [published EXCEPT ![f] = Append(@, oracleClock)]
  /\ UNCHANGED <<oracleClock, samples, turn, due, asked, oracleFaults>>

\* The turns come in their period and end within it.
PassPeriod ==
  /\ turnPhase = "idle" /\ oracleClock < due /\ oracleClock < MaxOracleClock
  /\ oracleClock' = oracleClock + 1
  /\ UNCHANGED <<published, samples, turn, due, asked, oracleFaults>>

EndTurn ==
  /\ turnPhase' = "idle" /\ position' = 1 /\ waited' = 0 /\ forced' = FALSE
  /\ calls' = 0 /\ answer' = NoRound /\ due' = oracleClock + 1

\* Without a stream the turn does nothing.
BeginTurn ==
  /\ turnPhase = "idle" /\ due <= oracleClock /\ turnPhase' = "begun"
  /\ UNCHANGED <<oracleClock, published, samples, position, waited, forced, calls, answer, due, asked, oracleFaults>>

\* _wait_for_backlog: clear at once or within the steps that are left of the turn.
Cleared(steps) == waited' \in waited..waited + steps
Backlogged(steps) == waited' = waited + steps

\* The wait before the first feed, and the one before each feed.
AwaitQueue ==
  /\ turnPhase \in {"begun", "next"} /\ ~forced
  /\ Cleared(WaitSteps - waited)
  /\ turnPhase' = IF turnPhase = "begun" THEN "next" ELSE "asking"
  /\ UNCHANGED <<oracleClock, published, samples, position, forced, calls, answer, due, asked, oracleFaults>>

ForceTurn ==
  /\ turnPhase \in {"begun", "next"} /\ ~forced
  /\ Backlogged(WaitSteps - waited) /\ ForceDue /\ forced' = TRUE
  /\ turnPhase' = IF turnPhase = "begun" THEN "next" ELSE "asking"
  /\ UNCHANGED <<oracleClock, published, samples, position, calls, answer, due, asked, oracleFaults>>

\* OracleDeferred: this feed and those after it wait for the next turn.
DeferTurn ==
  /\ turnPhase \in {"begun", "next"} /\ ~forced /\ ~ForceDue
  /\ EndTurn
  /\ UNCHANGED <<oracleClock, published, samples, asked, oracleFaults>>

\* A turn that does not wait any more.
AdmitForced ==
  /\ turnPhase = "next" /\ forced /\ turnPhase' = "asking"
  /\ UNCHANGED <<oracleClock, published, samples, position, waited, forced, calls, answer, due, asked, oracleFaults>>

\* The feed after this one, or the end of the turn.
NextFeed(made) ==
  IF position = Len(Feeds) THEN EndTurn
  ELSE /\ turnPhase' = "next" /\ position' = position + 1 /\ answer' = NoRound
       /\ calls' = made
       /\ UNCHANGED <<waited, forced, due>>

\* verified_sample: an admitted feed gets all its calls, however long the
\* queue; the node that answers may be behind.
ReadFeed ==
  /\ turnPhase = "asking" /\ calls + CallsPerFeed <= MaxRoundCalls
  /\ LET f == Feeds[position] IN
     \E i \in 1..Len(published[f]) :
       /\ answer' = [round |-> i, at |-> published[f][i], observed |-> oracleClock]
       /\ asked' = [asked EXCEPT ![f] = oracleClock]
  /\ calls' = calls + CallsPerFeed /\ turnPhase' = "read"
  /\ UNCHANGED <<oracleClock, published, samples, position, waited, forced, due, oracleFaults>>

\* No call is left, a call fails, the feed takes too long or its answer is not
\* that of the reviewed contract: the turn goes on.
ReadFails ==
  /\ turnPhase = "asking"
  /\ \E c \in 0..CallsPerFeed : calls + c <= MaxRoundCalls /\ NextFeed(calls + c)
  /\ asked' = [asked EXCEPT ![Feeds[position]] = oracleClock]
  /\ UNCHANGED <<oracleClock, published, samples, oracleFaults>>

\* save_sample: only a later round moves the feed on.
Storable(f, s) == \A last \in NewestOf(samples[f]) : s.round > last.round /\ s.at > last.at

\* What retention leaves of the rows: so long, and so many of the newest.
KeptSamples(S, now) ==
  LET young == {s \in S : s.at >= now - Horizon}
  IN {s \in young : Cardinality({other \in young : other.at > s.at}) < MaxSamples}

SaveSample ==
  /\ turnPhase = "read"
  /\ LET f == Feeds[position] IN
     samples' = IF Storable(f, answer)
                THEN [samples EXCEPT ![f] = KeptSamples(@ \cup {answer}, answer.at)] ELSE samples
  /\ NextFeed(calls)
  /\ UNCHANGED <<oracleClock, published, asked, oracleFaults>>

\* The write is given up.
SaveFails ==
  /\ turnPhase = "read" /\ oracleFaults < MaxOracleFaults /\ oracleFaults' = oracleFaults + 1
  /\ NextFeed(calls)
  /\ UNCHANGED <<oracleClock, published, samples, asked>>

\* The process is started again; its first turn comes at once.
RestartOracle ==
  /\ turnPhase # "idle" /\ oracleFaults < MaxOracleFaults /\ oracleFaults' = oracleFaults + 1
  /\ turnPhase' = "idle" /\ position' = 1 /\ waited' = 0 /\ forced' = FALSE
  /\ calls' = 0 /\ answer' = NoRound
  /\ UNCHANGED <<oracleClock, published, samples, due, asked>>

OracleNext ==
  \/ \E f \in Feed : PublishRound(f)
  \/ PassPeriod \/ BeginTurn \/ AwaitQueue \/ ForceTurn \/ DeferTurn \/ AdmitForced
  \/ ReadFeed \/ ReadFails \/ SaveSample \/ SaveFails \/ RestartOracle

OracleSpec == OracleInit /\ [][OracleNext]_oracleVars

-----------------------------------------------------------------------------
\* A trade is valued with a round its feed has published, not after the trade
\* and not long before it, and no stored round lies between the two.
RatesDated ==
  \A f \in Feed, t \in 1..MaxOracleClock : Dated(f, t) => \A i \in Rates(f, t) :
    /\ i \in DOMAIN published[f] /\ published[f][i] <= t /\ t - published[f][i] <= MaxQuoteAge
    /\ \A s \in samples[f] : s.at <= t => s.round <= i

\* However busy the live queue stays, and whatever restarts in between, a feed
\* is asked again soon after its newest observation is due.
DeferralEnds ==
  turnPhase = "idle" /\ oracleClock < due => \A f \in Feed : oracleClock - asked[f] < ForceAge

\* A turn that asks every feed once never runs out of calls.
CallsSuffice == turnPhase = "asking" => calls + CallsPerFeed <= MaxRoundCalls

AnchorSound == RatesDated /\ DeferralEnds /\ CallsSuffice

=============================================================================
