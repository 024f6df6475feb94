--------------------------- MODULE CollectorLoops ---------------------------
(*************************************************************************)
(* The collector process (worker.py) and a loop of it (scheduler.py): one  *)
(* process at a time owns the work, by a file lock; a loop runs, rests for *)
(* its interval and runs again; while the live streams are backlogged it  *)
(* is deferred, up to a ceiling.  The loop is that of the confirmations,   *)
(* the one that works for a backlogged stream at all; its round is        *)
(* followed chain by chain.  The permits of the heavy loops are in        *)
(* BackgroundBudget.                                                      *)
(*************************************************************************)
EXTENDS Integers, FiniteSets, FiniteSetsExt, Sequences, SequencesExt

CONSTANTS
  None,
  Processes,
  Chains,    \* the order in which a round visits the chains
  Interval, Delay,           \* rest after a turn, and before the first one
  Ceiling, Stagger, PollTime, \* of a deferral
  RoundTime, \* budget of a confirmation round
  MaxClock, MaxFaults \* bounds

VARIABLES
  clock, busy,  \* time; chains whose live queue is long
  owner,        \* process that holds pyradar-worker.lock, or None
  phase,        \* "off", "waiting", "opening", "running", "stopping", "closed"
  task,         \* process -> where its loop is, with what TASKS says of it
  round,        \* process -> confirmation round: chains to visit, and so on
  probes,       \* times at which a backlogged chain was worked on (history)
  faults

vars == <<clock, busy, owner, phase, task, round, probes, faults>>

ChainSet == {Chains[i] : i \in DOMAIN Chains}
Never == -Ceiling - 1

NoTask == [at |-> "none", wake |-> 0, due |-> 0, began |-> None, clear |-> None, busyAt |-> Never,
           expired |-> None, started |-> None, completed |-> Never]
NoRound == [cursor |-> 0, todo |-> <<>>, allowed |-> FALSE, probed |-> FALSE, until |-> 0,
            missed |-> [c \in ChainSet |-> 0]]

TypeOK ==
  /\ clock \in 0..MaxClock /\ busy \subseteq ChainSet /\ owner \in Processes \cup {None}
  /\ phase \in [Processes -> {"off", "waiting", "opening", "running", "stopping", "closed"}]
  /\ \A p \in Processes : task[p].at \in {"none", "rest", "defer", "turn", "ended"}
  /\ \A p \in Processes : round[p].cursor \in DOMAIN Chains \cup {0} /\ Range(round[p].todo) \subseteq ChainSet

Init ==
  /\ clock = 0 /\ busy = {} /\ owner = None /\ probes = <<>> /\ faults = 0
  /\ phase = [p \in Processes |-> "off"]
  /\ task = [p \in Processes |-> NoTask]
  /\ round = [p \in Processes |-> NoRound]

SetPhase(p, to) == phase' = [phase EXCEPT ![p] = to]
Alive(p) == task[p].at \in {"rest", "defer", "turn"}

------------------------------------------------------------------------------
(* The process                                                            *)

\* Started by the supervisor, or once more by hand.
Boot(p) ==
  /\ phase[p] = "off" /\ SetPhase(p, "waiting")
  /\ UNCHANGED <<clock, busy, owner, task, round, probes, faults>>

Lock(p) ==
  /\ phase[p] = "waiting" /\ owner = None /\ owner' = p /\ SetPhase(p, "opening")
  /\ UNCHANGED <<clock, busy, task, round, probes, faults>>

\* Stores and schema first, then the streams and the loop.
Start(p) ==
  /\ phase[p] = "opening" /\ SetPhase(p, "running")
  /\ task' = [task EXCEPT ![p] = [NoTask EXCEPT !.at = "rest", !.wake = clock + Delay, !.due = clock + Delay]]
  /\ UNCHANGED <<clock, busy, owner, round, probes, faults>>

\* SIGTERM, then shutdown_loops: its loop is cancelled and ends by itself.
Stop(p) ==
  /\ phase[p] = "running" /\ SetPhase(p, "stopping")
  /\ faults < MaxFaults /\ faults' = faults + 1
  /\ UNCHANGED <<clock, busy, owner, task, round, probes>>

EndLoop(p) ==
  /\ phase[p] \in {"stopping", "closed"} /\ Alive(p)
  /\ task' = [task EXCEPT ![p].at = "ended"]
  /\ UNCHANGED <<clock, busy, owner, phase, round, probes, faults>>

CancelOnly(p) == task[p].at # "turn"
Gathered(p) == ~Alive(p)

\* Only now the streams stop and the stores are closed.
CloseStores(p) ==
  /\ phase[p] = "stopping" /\ Gathered(p) /\ SetPhase(p, "closed")
  /\ UNCHANGED <<clock, busy, owner, task, round, probes, faults>>

Forget(p) ==
  /\ SetPhase(p, "off") /\ owner' = IF owner = p THEN None ELSE owner
  /\ task' = [task EXCEPT ![p] = NoTask]
  /\ round' = [round EXCEPT ![p] = NoRound]

Unlock(p) ==
  /\ phase[p] = "closed" /\ Gathered(p) /\ Forget(p)
  /\ UNCHANGED <<clock, busy, probes, faults>>

\* The kernel gives up the lock of a process that dies.
Kill(p) ==
  /\ phase[p] # "off" /\ faults < MaxFaults /\ faults' = faults + 1 /\ Forget(p)
  /\ UNCHANGED <<clock, busy, probes>>

------------------------------------------------------------------------------
(* One loop                                                               *)

Runs(p, at) == phase[p] = "running" /\ task[p].at = at
Set(p, t) == task' = [task EXCEPT ![p] = t]

ReleaseOnly(t) == t.expired # None /\ t.expired > t.completed
\* confirmation_backlog_probe_due
ProbeDue(t) == t.expired # None /\ t.started = t.expired /\ t.expired > t.completed

Rotated(n) == SubSeq(Chains, n + 1, Len(Chains)) \o SubSeq(Chains, 1, n)
KeepCursor(n) == n
NextCursor(n) == (n + 1) % Len(Chains)

\* action(): the turn begins; a round fixes its order, its licence and its time.
TurnBegins(p, t) ==
  LET begun == [t EXCEPT !.at = "turn", !.started = clock, !.began = None, !.clear = None]
  IN /\ Set(p, begun)
     /\ round' = [round EXCEPT ![p] = [@ EXCEPT !.cursor = NextCursor(@), !.todo = Rotated(round[p].cursor),
                    !.allowed = ProbeDue(begun), !.probed = FALSE, !.until = clock + RoundTime]]

BeganNow(t) == IF t.began = None \/ (busy # {} /\ t.clear # None) THEN clock ELSE t.began
\* A deferral is counted from its first poll, whatever happened since.
BeganOr(t) == IF t.began = None THEN clock ELSE t.began

ClearOr(t) == IF t.clear = None THEN clock ELSE t.clear

\* No backlog.
Begin(p) ==
  /\ Runs(p, "rest") /\ task[p].wake <= clock /\ busy = {}
  /\ TurnBegins(p, [task[p] EXCEPT !.busyAt = Never])
  /\ UNCHANGED <<clock, busy, owner, phase, probes, faults>>

\* One pass of the loop in _defer_for_live_backlog.
Defer(p) ==
  /\ Runs(p, "defer") \/ (Runs(p, "rest") /\ busy # {})
  /\ task[p].wake <= clock
  /\ LET t == [task[p] EXCEPT !.began = BeganOr(task[p]), !.busyAt = IF busy # {} THEN clock ELSE @]
         left == Ceiling - (clock - t.began)
         clear == ClearOr(t)
         calm == Stagger - (clock - clear)
         sleep(until) == [t EXCEPT !.at = "defer", !.wake = clock + Min({PollTime, left, until}),
                                   !.clear = IF busy # {} THEN None ELSE clear]
     IN IF left <= 0 THEN TurnBegins(p, [t EXCEPT !.expired = clock])
        ELSE IF busy # {} THEN Set(p, sleep(left)) /\ UNCHANGED round
        ELSE IF calm <= 0 THEN TurnBegins(p, t)
        ELSE Set(p, sleep(calm)) /\ UNCHANGED round
  /\ UNCHANGED <<clock, busy, owner, phase, probes, faults>>

\* The gap is counted from the end of the turn, whatever it made of it.
Rest(t) == [t EXCEPT !.at = "rest", !.wake = clock + Interval, !.due = clock + Interval,
                     !.started = None, !.busyAt = Never]
Completed(t) == [Rest(t) EXCEPT !.completed = clock]

\* What the round did not get to; a backlogged chain it declined was its turn.
RoundEnds(p) == [round[p] EXCEPT !.todo = <<>>, !.allowed = FALSE, !.probed = FALSE, !.until = 0,
                  !.missed = [c \in ChainSet |-> IF c \in Range(round[p].todo) THEN @[c] + 1 ELSE @[c]]]

\* The first chain is reached at once; time passes in its calls.
Reached(p) == Len(round[p].todo) < Len(Chains)
Over(p) == round[p].todo = <<>> \/ (Reached(p) /\ round[p].until <= clock)

Finish(p) ==
  /\ Runs(p, "turn") /\ Over(p)
  /\ Set(p, Completed(task[p]))
  /\ round' = [round EXCEPT ![p] = RoundEnds(p)]
  /\ UNCHANGED <<clock, busy, owner, phase, probes, faults>>

\* An exception of the action, the time limit of a turn: not a completion.
Fail(p) ==
  /\ Runs(p, "turn") /\ Reached(p)
  /\ faults < MaxFaults /\ faults' = faults + 1
  /\ Set(p, Rest(task[p]))
  /\ round' = [round EXCEPT ![p] = RoundEnds(p)]
  /\ UNCHANGED <<clock, busy, owner, phase, probes>>

\* Skipped for a backlog without licence, or once one such chain had its share.
Declined(p, c) == c \in busy /\ (~round[p].allowed \/ round[p].probed)

\* refresh_trade_confirmations, one chain.
Visit(p) ==
  /\ Runs(p, "turn") /\ ~Over(p)
  /\ LET c == Head(round[p].todo)
         probe == c \in busy /\ ~Declined(p, c)
     IN /\ round' = [round EXCEPT ![p].todo = Tail(@), ![p].missed[c] = 0, ![p].probed = @ \/ probe]
        /\ probes' = IF probe THEN Append(probes, clock) ELSE probes
  /\ UNCHANGED <<clock, busy, owner, phase, task, faults>>

\* live_stream_backlogged
Load(chains) ==
  /\ busy' = chains /\ busy # chains
  /\ UNCHANGED <<clock, owner, phase, task, round, probes, faults>>

\* The event loop wakes a sleeper in time.
Tick ==
  /\ clock < MaxClock /\ clock' = clock + 1
  /\ \A p \in Processes :
       Runs(p, "rest") \/ Runs(p, "defer") => task[p].wake > clock
  /\ UNCHANGED <<busy, owner, phase, task, round, probes, faults>>

Next ==
  \/ \E p \in Processes :
       \/ Boot(p) \/ Lock(p) \/ Start(p) \/ Stop(p) \/ CloseStores(p) \/ Unlock(p) \/ Kill(p)
       \/ Begin(p) \/ Defer(p) \/ Visit(p) \/ Finish(p) \/ Fail(p) \/ EndLoop(p)
  \/ \E chains \in SUBSET ChainSet : Load(chains)
  \/ Tick

Spec == Init /\ [][Next]_vars

------------------------------------------------------------------------------
\* While the loop of a process is left, that process has the lock and its
\* stores are open, also while it shuts down and another one waits (run).
OneOwner == \A p \in Processes : Alive(p) => owner = p /\ phase[p] # "closed"

\* A backlog that comes and goes cannot hold a loop back beyond the ceiling
\* ("prevents stream backlog alone from starving discovery forever"), and a
\* turn released before it follows a calm of at least the stagger.
DeferralBounded ==
  \A p \in Processes :
    LET t == task[p]
    IN /\ t.at = "defer" /\ phase[p] = "running" => clock - t.due <= Ceiling
       /\ t.at = "turn" /\ t.started # t.expired => t.started - t.busyAt >= Stagger

\* Confirmations take from a backlogged stream one bounded probe for each
\* deferral that lasted to the ceiling ("Allow a trickle only in the turn
\* released by the deferral ceiling"), also after a round that failed.
ProbesRare == \A i \in 2..Len(probes) : probes[i] - probes[i - 1] >= Ceiling

\* A slow chain may use up a round's time, never that of the other chains' turns.
NoChainStarved == \A p \in Processes : \A c \in ChainSet : round[p].missed[c] < Len(Chains)

LoopsSound == OneOwner /\ DeferralBounded /\ ProbesRare /\ NoChainStarved
=============================================================================
