---------------------------- MODULE RequestBudget ----------------------------
(*************************************************************************)
(* Requests to one metered provider (okx_client.py with request_ledger.py *)
(* for the Python processes, okx-client.ts with request-ledger.ts for the *)
(* Node process).  The processes share a durable ledger of the requests   *)
(* of the day, and of the day and a lane; its transactions are serialised *)
(* by the database.  Each process keeps its own count of the day and of   *)
(* the round, and each stage an allowance.  Python charges without giving *)
(* up its thread; Node awaits the ledger in between.                      *)
(*                                                                       *)
(* A task is a request with its retries; what it asks for is left out.    *)
(*************************************************************************)
EXTENDS Integers, FiniteSets, FiniteSetsExt

CONSTANTS
  None,
  PyTasks, NodeTasks,
  Allowances,  \* stages with an allowance, each opened once
  Class,       \* task -> "background", "interactive" or "critical"
  Skips,       \* tasks that skip the round's budget
  Laned,       \* tasks of the lane
  Stages,      \* task -> allowances it runs under, nested
  Cap,         \* class -> requests a day up to which it may go
  RoundLimit, LaneLimit, AllowanceLimit,
  MaxAttempts, \* of a task (4 in the code)
  MaxDays, MaxRounds, MaxFaults \* bounds

Tasks == PyTasks \cup NodeTasks
Processes == {"python", "node"}
Of(t) == IF t \in PyTasks THEN "python" ELSE "node"
Days == 1..MaxDays

VARIABLES
  day, slot, \* date and five-minute slot
  used, lane, \* the ledger: budget and lane_budget by day
  local,     \* process -> its day, daily, round, and the round's slot or generation
  remaining, \* allowance -> requests left
  task,      \* task -> its step, day, generation and attempt, or None
  charged,   \* history: day and class -> requests charged in the ledger
  sent,      \* history: day -> requests sent that were charged on it
  counted,   \* history: process -> requests of the current round
  staged,    \* history: allowance -> requests charged under it
  faults

vars == <<day, slot, used, lane, local, remaining, task, charged, sent, counted,
          staged, faults>>
ledger == <<used, lane>>
times == <<day, slot>>
histories == <<charged, counted, staged>>

Fresh(d, s) == [day |-> d, daily |-> 0, round |-> 0, mark |-> s]

TypeOK ==
  /\ day \in Days /\ slot \in 0..MaxRounds
  /\ used \in [Days -> 0..Cap["critical"]] /\ lane \in [Days -> 0..LaneLimit]
  /\ \A p \in Processes : local[p].daily \in 0..Cap["critical"] /\ local[p].round \in Int
  /\ remaining \in [Allowances -> Int]
  /\ \A t \in Tasks : task[t] # None => task[t].pc \in {"ask", "charge", "commit", "slot", "send"}

Init ==
  /\ day = 1 /\ slot = 0
  /\ used = [d \in Days |-> 0] /\ lane = [d \in Days |-> 0]
  /\ local = [p \in Processes |-> Fresh(1, 0)]
  /\ remaining = [a \in Allowances |-> AllowanceLimit]
  /\ task = [t \in Tasks |-> None]
  /\ charged = [d \in Days |-> [c \in DOMAIN Cap |-> 0]] /\ sent = [d \in Days |-> 0]
  /\ counted = [p \in Processes |-> 0] /\ staged = [a \in Allowances |-> 0]
  /\ faults = 0

Fault == faults < MaxFaults /\ faults' = faults + 1

------------------------------------------------------------------------------
(* Time and rounds                                                        *)

\* Python's round is a slot of the clock, noticed by its next request.
NewSlot ==
  /\ slot < MaxRounds /\ slot' = slot + 1
  /\ UNCHANGED <<day, ledger, local, remaining, task, histories, sent, faults>>

\* Midnight begins a slot as well.
NewDay ==
  /\ day < MaxDays /\ slot < MaxRounds /\ day' = day + 1 /\ slot' = slot + 1
  /\ UNCHANGED <<ledger, local, remaining, task, histories, sent, faults>>

\* startCollection of Node: a new generation.
StartCollection ==
  /\ local["node"].mark < MaxRounds
  /\ local' = [local EXCEPT !["node"].round = 0, !["node"].mark = @ + 1]
  /\ counted' = [counted EXCEPT !["node"] = 0]
  /\ UNCHANGED <<times, ledger, remaining, task, charged, staged, sent, faults>>

------------------------------------------------------------------------------
(* The ledger                                                             *)

Grants(t, d) == used[d] < Cap[Class[t]] /\ (t \in Laned => lane[d] < LaneLimit)

\* sharedUsage with a limit: one transaction for both counters.
Charge(t, d) ==
  /\ used' = [used EXCEPT ![d] = @ + 1]
  /\ lane' = IF t \in Laned THEN [lane EXCEPT ![d] = @ + 1] ELSE lane
  /\ charged' = [charged EXCEPT ![d][Class[t]] = @ + 1]

Stage(t, n) == [a \in Allowances |-> IF a \in Stages[t] THEN n[a] + 1 ELSE n[a]]
Unstage(t, n) == [a \in Allowances |-> IF a \in Stages[t] THEN n[a] - 1 ELSE n[a]]
Round(t) == IF t \in Skips THEN 0 ELSE 1

Move(t, pc) == task' = [task EXCEPT ![t].pc = pc]
Stop(t) == task' = [task EXCEPT ![t] = None]
At(t, pc) == task[t] # None /\ task[t].pc = pc

Begin(t) ==
  /\ task[t] = None
  /\ task' = [task EXCEPT ![t] = [pc |-> "ask", day |-> day, mark |-> 0, attempt |-> 1]]
  /\ UNCHANGED <<times, ledger, local, remaining, histories, sent, faults>>

------------------------------------------------------------------------------
(* charge of Python                                                       *)

\* rollover and reset_round.
RolledOver(t) ==
  LET old == local["python"]
      new == IF old.day = day THEN old ELSE Fresh(day, -1)
  IN IF Round(t) = 1 /\ new.mark < slot THEN [new EXCEPT !.round = 0, !.mark = slot] ELSE new

PyCharge(t) ==
  LET now == RolledOver(t)
      started == now.mark # local["python"].mark
      before == IF started THEN 0 ELSE counted["python"]
      refused == \/ \E a \in Stages[t] : remaining[a] <= 0
                 \/ now.daily >= Cap[Class[t]]
                 \/ Round(t) = 1 /\ now.round >= RoundLimit
                 \/ ~Grants(t, day)
  IN /\ At(t, "ask") /\ t \in PyTasks
     /\ IF refused
        THEN /\ local' = [local EXCEPT !["python"] = now] /\ Stop(t)
             /\ counted' = [counted EXCEPT !["python"] = before]
             /\ UNCHANGED <<ledger, remaining, charged, staged>>
        ELSE /\ Charge(t, day)
             /\ local' = [local EXCEPT !["python"] = [now EXCEPT !.daily = used[day] + 1, !.round = @ + Round(t)]]
             /\ counted' = [counted EXCEPT !["python"] = before + Round(t)]
             /\ remaining' = Unstage(t, remaining) /\ staged' = Stage(t, staged)
             /\ task' = [task EXCEPT ![t].pc = "slot", ![t].day = day]
     /\ UNCHANGED <<times, sent, faults>>

------------------------------------------------------------------------------
(* chargeRequest of Node                                                  *)

NodeAsk(t) ==
  /\ At(t, "ask") /\ t \in NodeTasks
  /\ local' = IF local["node"].day = day THEN local
              ELSE [local EXCEPT !["node"].day = day, !["node"].daily = 0]
  /\ task' = [task EXCEPT ![t].pc = "charge", ![t].day = day]
  /\ UNCHANGED <<times, ledger, remaining, histories, sent, faults>>

Seen(t, n) ==
  IF local["node"].day = task[t].day THEN Max({local["node"].daily, n}) ELSE local["node"].daily

\* After collectionStatus: all checks and the local reservation at once.
NodeReserve(t) ==
  LET daily == Seen(t, used[task[t].day])
      refused == \/ \E a \in Stages[t] : remaining[a] <= 0
                 \/ daily >= Cap[Class[t]]
                 \/ Round(t) = 1 /\ local["node"].round >= RoundLimit
  IN /\ At(t, "charge")
     /\ IF refused
        THEN Stop(t) /\ local' = [local EXCEPT !["node"].daily = daily] /\ UNCHANGED remaining
        ELSE /\ task' = [task EXCEPT ![t].pc = "commit", ![t].mark = local["node"].mark]
             /\ local' = [local EXCEPT !["node"].daily = daily, !["node"].round = @ + Round(t)]
             /\ remaining' = Unstage(t, remaining)
     /\ UNCHANGED <<times, ledger, histories, sent, faults>>

NodeCommit(t) ==
  LET d == task[t].day
  IN /\ At(t, "commit") /\ Grants(t, d) /\ Charge(t, d) /\ Move(t, "slot")
     /\ local' = [local EXCEPT !["node"].daily = Seen(t, used[d] + 1)]
     /\ counted' = IF task[t].mark = local["node"].mark
                   THEN [counted EXCEPT !["node"] = @ + Round(t)] ELSE counted
     /\ staged' = Stage(t, staged)
     /\ UNCHANGED <<times, remaining, sent, faults>>

RefundBlind(t) == local["node"].round - Round(t)
\* Only the round in which the count was reserved gets it back.
Refund(t) == IF task[t].mark = local["node"].mark THEN local["node"].round - Round(t) ELSE local["node"].round

\* The ledger refuses, fails, or its answer is lost after the commit.
NodeRefused(t) ==
  LET d == task[t].day
  IN /\ At(t, "commit") /\ Stop(t)
     /\ \/ ~Grants(t, d) /\ UNCHANGED <<ledger, charged, faults>>
        \/ Fault /\ UNCHANGED <<ledger, charged>>
        \/ Fault /\ Grants(t, d) /\ Charge(t, d)
     /\ local' = [local EXCEPT !["node"].round = Refund(t)]
     /\ remaining' = Stage(t, remaining)
     /\ UNCHANGED <<times, counted, staged, sent>>

------------------------------------------------------------------------------
(* The start slot and the request                                         *)

\* The wait for a start slot of the shared rate limiter.
ReserveSlot(t) ==
  /\ At(t, "slot") /\ Move(t, "send")
  /\ UNCHANGED <<times, ledger, local, remaining, histories, sent, faults>>

\* The provider answers, with an error too; or it asks to slow down, and the
\* next attempt is a request of its own.
Send(t, again) ==
  /\ At(t, "send")
  /\ sent' = [sent EXCEPT ![task[t].day] = @ + 1]
  /\ IF again /\ task[t].attempt < MaxAttempts
     THEN task' = [task EXCEPT ![t].pc = "ask", ![t].attempt = @ + 1]
     ELSE Stop(t)
  /\ UNCHANGED <<times, ledger, local, remaining, histories, faults>>

\* Cancelled, or the slot could not be reserved: what was charged stays charged.
Abandon(t) ==
  /\ task[t] # None /\ task[t].pc \in {"slot", "send"} /\ Fault /\ Stop(t)
  /\ UNCHANGED <<times, ledger, local, remaining, histories, sent>>

\* A new process begins with empty counts.
Restart(p) ==
  /\ Fault
  /\ local' = [local EXCEPT ![p] = Fresh(day, IF p = "node" THEN local[p].mark + 1 ELSE slot)]
  /\ local[p].mark < MaxRounds
  /\ counted' = [counted EXCEPT ![p] = 0]
  /\ task' = [t \in Tasks |-> IF Of(t) = p THEN None ELSE task[t]]
  /\ remaining' = [a \in Allowances |-> IF \E t \in Tasks : Of(t) = p /\ a \in Stages[t] THEN 0 ELSE remaining[a]]
  /\ UNCHANGED <<times, ledger, charged, staged, sent>>

Next ==
  \/ NewSlot \/ NewDay \/ StartCollection
  \/ \E t \in Tasks :
       \/ Begin(t) \/ PyCharge(t)
       \/ NodeAsk(t) \/ NodeReserve(t) \/ NodeCommit(t) \/ NodeRefused(t)
       \/ ReserveSlot(t) \/ \E again \in BOOLEAN : Send(t, again)
       \/ Abandon(t)
  \/ \E p \in Processes : Restart(p)

Spec == Init /\ [][Next]_vars

------------------------------------------------------------------------------
Pending(p) == {t \in Tasks : Of(t) = p /\ At(t, "commit") /\ task[t].mark = local[p].mark}

\* No request goes out that the ledger of its day did not count; background
\* and interactive work leave the reserves of what ranks above them untouched;
\* a round, a lane and a stage keep to their limits whatever was awaited,
\* refused, refunded or retried meanwhile ("cannot create an uncharged upstream
\* request").
RequestsCharged ==
  /\ \A d \in Days :
       LET n == charged[d]
       IN /\ sent[d] <= used[d] /\ used[d] = n["background"] + n["interactive"] + n["critical"]
          /\ n["background"] <= Cap["background"]
          /\ n["background"] + n["interactive"] <= Cap["interactive"]
          /\ used[d] <= Cap["critical"] /\ lane[d] <= LaneLimit
  /\ \A p \in Processes :
       /\ local[p].round = counted[p] + Cardinality({t \in Pending(p) : t \notin Skips})
       /\ local[p].round <= RoundLimit
  /\ \A a \in Allowances : remaining[a] >= 0 /\ staged[a] <= AllowanceLimit
=============================================================================
