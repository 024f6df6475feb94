------------------------------ MODULE ChainRpc ------------------------------
(*************************************************************************)
(* ChainPoolStream.rpc (chain_stream.py): all reads of one chain go one   *)
(* at a time through a gate that spaces them, slows down when the node    *)
(* limits the rate, and picks between the HTTP endpoint and the socket.   *)
(* An endpoint is asked for its chain before its answers count.           *)
(*************************************************************************)
EXTENDS Integers, FiniteSets, FiniteSetsExt

CONSTANTS
  None,
  Kinds,      \* subset of {"bnb", "public", "plain"}: 56, 4663, 196
  HttpReads,  \* http_reads_enabled of a "public" chain
  Base, Slowest, \* rpc_base_interval, and the most it grows to
  Quiet,      \* time without a limit after which the base rate returns
  LongestDelay, FallbackTime,
  RetryAfter, \* what a limiting answer may ask for
  MaxClock, MaxFaults \* bounds

VARIABLES
  kind, endpoint, ws, \* environment: what answers at rpc_url, and the socket
  clock,
  call,         \* the read that holds the gate, or None
  rate,         \* interval, last, cooldown, failures, recovery
  verified, fallbackUntil,
  seen,         \* a call met the endpoint's last outage (history)
  foreign,      \* an answer of another chain was taken after that (history)
  pace,         \* the latest request: gap to the one before, and the limits then known (history)
  faults

env == <<kind, endpoint, ws, clock>>
route == <<verified, fallbackUntil>>
history == <<seen, foreign, pace>>
vars == <<env, call, rate, route, history, faults>>

Public == kind \in {"bnb", "public"}
ReadsHttp == kind = "bnb" \/ (kind = "public" /\ HttpReads)
BnbLogs == kind = "bnb" /\ call.method = "logs"

TypeOK ==
  /\ kind \in Kinds /\ endpoint \in {"right", "wrong", "down"} /\ ws \in BOOLEAN
  /\ clock \in 0..MaxClock /\ rate.interval \in Base..Slowest
  /\ call # None => call.attempt \in 0..2 /\ call.step \in {"begin", "slot", "asked"}
  /\ verified \in BOOLEAN /\ seen \in BOOLEAN /\ foreign \in BOOLEAN

Init ==
  /\ kind \in Kinds /\ endpoint = "right" /\ ws = FALSE /\ clock = 0
  /\ call = None /\ verified = FALSE /\ fallbackUntil = 0
  /\ rate = [interval |-> Base, last |-> None, cooldown |-> 0, failures |-> 0, recovery |-> 0]
  /\ seen = FALSE /\ foreign = FALSE /\ faults = 0
  /\ pace = [at |-> 0, gap |-> Slowest, limited |-> None, notBefore |-> 0]

------------------------------------------------------------------------------
(* The environment                                                        *)

\* A gateway that comes back may serve another chain.
Outage ==
  /\ faults < MaxFaults /\ faults' = faults + 1 /\ endpoint # "down"
  /\ endpoint' = "down" /\ seen' = FALSE
  /\ UNCHANGED <<kind, ws, clock, call, rate, route, foreign, pace>>

Restored(to) ==
  /\ endpoint = "down" /\ endpoint' = to
  /\ UNCHANGED <<kind, ws, clock, call, rate, route, history, faults>>

\* run: the socket is validated when it opens; when it closes, so is the proof.
Socket ==
  /\ call = None /\ ws' = ~ws
  /\ verified' = (verified /\ ~ws)
  /\ UNCHANGED <<kind, endpoint, clock, call, rate, fallbackUntil, history, faults>>

Slot == Max({rate.cooldown, IF rate.last = None THEN 0 ELSE rate.last + rate.interval})

Tick ==
  /\ clock < MaxClock /\ clock' = clock + 1
  /\ call # None => call.step = "asked" \/ (call.step = "slot" /\ Slot > clock)
  /\ UNCHANGED <<kind, endpoint, ws, call, rate, route, history, faults>>

------------------------------------------------------------------------------
(* One read                                                               *)

Call(method) ==
  /\ call = None
  /\ call' = [method |-> method, attempt |-> 0, step |-> "begin", ask |-> None]
  /\ UNCHANGED <<env, rate, route, history, faults>>

SlowUntilQuiet(r) == r.recovery # 0 /\ clock >= r.recovery

\* Each attempt: the base rate again after a quiet time, then the first slot.
Begin ==
  /\ call # None /\ call.step = "begin"
  /\ rate' = IF SlowUntilQuiet(rate) THEN [rate EXCEPT !.interval = Base, !.failures = 0, !.recovery = 0] ELSE rate
  /\ call' = [call EXCEPT !.step = "slot"]
  /\ UNCHANGED <<env, route, history, faults>>

\* Whom to ask: the socket, the endpoint, or first the endpoint for its chain.
BySocket == Public /\ ws /\ ~BnbLogs /\ (~ReadsHttp \/ clock < fallbackUntil)
Unproven == Public /\ ~verified
Ask ==
  IF call.ask # None THEN call.ask
  ELSE IF BySocket THEN "socket" ELSE IF Unproven THEN "chain" ELSE "endpoint"

Send ==
  /\ call # None /\ call.step = "slot" /\ Slot <= clock
  /\ rate' = [rate EXCEPT !.last = clock]
  /\ pace' = [pace EXCEPT !.at = clock, !.gap = IF rate.last = None THEN Slowest ELSE clock - rate.last]
  /\ call' = [call EXCEPT !.step = "asked", !.ask = Ask]
  /\ UNCHANGED <<env, route, seen, foreign, faults>>

Asked(whom) == call # None /\ call.step = "asked" /\ call.ask \in whom
Free == call' = None

\* Keep the reduced rate until a full quiet minute passes.
BaseRate == [rate EXCEPT !.cooldown = 0, !.interval = Base]
Accepted == [rate EXCEPT !.cooldown = 0]

Answered ==
  /\ Asked({"endpoint", "socket"}) /\ (call.ask = "endpoint" => endpoint # "down")
  /\ Free /\ rate' = Accepted
  /\ foreign' = (foreign \/ (Public /\ call.ask = "endpoint" /\ endpoint = "wrong" /\ seen))
  /\ UNCHANGED <<env, route, seen, pace, faults>>

\* eth_chainId: the read itself has its own slot.
Proved ==
  /\ Asked({"chain"}) /\ endpoint = "right" /\ verified' = TRUE
  /\ call' = [call EXCEPT !.step = "slot", !.ask = "endpoint"]
  /\ UNCHANGED <<env, rate, fallbackUntil, history, faults>>

\* Unreachable, or of another chain: the socket answers in its place for a
\* while; a page of logs of BNB never moves to the socket.
StillProved == verified
Unproved == FALSE

FallsBack == Public /\ ws /\ ~BnbLogs

EndpointFails ==
  /\ Asked({"endpoint", "chain"})
  /\ \/ endpoint = "down"
     \/ call.ask = "chain" /\ endpoint = "wrong"
  /\ seen' = (seen \/ FallsBack \/ BnbLogs)
  /\ IF FallsBack
     THEN /\ verified' = Unproved /\ fallbackUntil' = clock + FallbackTime
          /\ call' = [call EXCEPT !.step = "slot", !.ask = "socket"]
     ELSE /\ verified' = IF BnbLogs THEN Unproved ELSE verified
          /\ Free /\ UNCHANGED fallbackUntil
  /\ UNCHANGED <<env, rate, foreign, pace, faults>>

\* Any other error of the node, or of the socket.
Refused ==
  /\ call # None /\ call.step = "asked" /\ Free
  /\ UNCHANGED <<env, rate, route, history, faults>>

Delay(failures, after) == Max({Min({LongestDelay, 2 ^ Min({failures, 6})}), after})

\* Too many requests: wait, go slower, and try twice more.
Limited(after) ==
  /\ call # None /\ call.step = "asked" /\ after \in RetryAfter
  /\ call.ask # "socket" => endpoint # "down"
  /\ rate' = [rate EXCEPT !.failures = @ + 1, !.cooldown = clock + Delay(rate.failures + 1, after),
                          !.interval = Min({Slowest, 2 * @}), !.recovery = clock + Quiet]
  /\ pace' = [pace EXCEPT !.limited = clock, !.notBefore = clock + after]
  /\ verified' = (verified /\ ~(BnbLogs /\ call.ask # "socket"))
  /\ IF call.attempt = 2 THEN Free
     ELSE call' = [call EXCEPT !.attempt = @ + 1, !.step = "begin", !.ask = None]
  /\ UNCHANGED <<env, fallbackUntil, seen, foreign, faults>>

Next ==
  \/ Outage \/ Restored("right") \/ Restored("wrong") \/ Socket \/ Tick
  \/ Call("read") \/ Call("logs") \/ Begin \/ Send
  \/ Answered \/ Proved \/ EndpointFails \/ Refused
  \/ \E after \in RetryAfter : Limited(after)

Spec == Init /\ [][Next]_vars

------------------------------------------------------------------------------
\* Requests keep their distance, twice the base for the whole quiet time after
\* a limit, whatever was accepted, proved or moved to the socket meanwhile;
\* none goes out before the time the node asked for ("Keep the reduced rate
\* until a full quiet minute passes").
RateKept ==
  /\ pace.gap >= Base
  /\ pace.limited # None /\ pace.at > pace.limited =>
       /\ pace.at >= pace.notBefore
       /\ pace.at < pace.limited + Quiet => pace.gap >= 2 * Base

\* No answer of another chain is taken from an endpoint whose outage made a
\* read fall back or a page of logs fail: it has to name its chain again.
NoForeignChain == ~foreign
=============================================================================
