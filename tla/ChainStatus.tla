----------------------------- MODULE ChainStatus -----------------------------
(*************************************************************************)
(* The status row of a chain stream (chain_stream.py).  The connection     *)
(* schedules snapshots that one task writes later, only the newest of     *)
(* them; the replay task writes its own and waits.  A row keeps the last   *)
(* failure of the row it replaces, so a write reads before it writes.     *)
(*************************************************************************)
EXTENDS Integers

CONSTANTS None, MaxReports, MaxFaults

VARIABLES
  pending,    \* status_pending: snapshot to write, or None
  task,       \* writer -> snapshot it is writing, or None
  recent,     \* last_status is less than ten seconds old
  lastError,  \* of the stored row; 0 is none
  reports,    \* failures reported so far
  open,       \* what the row may name: those since all was quiet, and what a failed write left (history)
  faults

vars == <<pending, task, recent, lastError, reports, open, faults>>

Writers == {"drain", "reconcile"}
Snapshot(error, force) == [error |-> error, force |-> force]
Locked == \E w \in Writers : task[w] # None /\ task[w].step # "lock"
Waiting(snapshot) == [step |-> "lock", error |-> snapshot.error, force |-> snapshot.force, previous |-> 0]
QuietNow == pending = None /\ \A w \in Writers : task[w] = None

TypeOK ==
  /\ pending # None => pending.error \in 0..MaxReports
  /\ \A w \in Writers : task[w] # None => task[w].step \in {"lock", "read", "write"}
  /\ recent \in BOOLEAN /\ lastError \in 0..MaxReports /\ open \subseteq 0..MaxReports

Init ==
  /\ pending = None /\ task = [w \in Writers |-> None] /\ recent = FALSE
  /\ lastError = 0 /\ reports = 0 /\ open = {} /\ faults = 0

Report(error) ==
  \/ error = 0 /\ UNCHANGED <<reports, open>>
  \/ /\ reports < MaxReports /\ reports' = reports + 1 /\ error = reports'
     /\ open' = (IF QuietNow THEN {} ELSE open) \cup {error}

Newest(snapshot) == snapshot
\* A failure waiting to be written gives way only to another failure.
Coalesced(snapshot) ==
  IF pending = None \/ snapshot.error # 0 \/ pending.error = 0 THEN snapshot ELSE pending

\* schedule_status_fact, after a failure or as a matter of course.
Schedule(error, force) ==
  /\ force \/ ~recent
  /\ Report(error) /\ (error # 0 => force)
  /\ pending' = Coalesced(Snapshot(error, force))
  /\ UNCHANGED <<task, recent, lastError, faults>>

\* _drain_status_facts
Drain ==
  /\ pending # None /\ task["drain"] = None
  /\ task' = [task EXCEPT !["drain"] = Waiting(pending)] /\ pending' = None
  /\ UNCHANGED <<recent, lastError, reports, open, faults>>

\* reconcile after a turn; a failed one is always written.
Reconciled(error) ==
  /\ task["reconcile"] = None /\ Report(error)
  /\ task' = [task EXCEPT !["reconcile"] = Waiting(Snapshot(error, error # 0))]
  /\ UNCHANGED <<pending, recent, lastError, faults>>

AnyEnters(w) == TRUE
Alone(w) == ~Locked

Enter(w) ==
  /\ task[w] # None /\ task[w].step = "lock" /\ Alone(w)
  /\ IF ~task[w].force /\ recent
     THEN task' = [task EXCEPT ![w] = None] /\ UNCHANGED recent
     ELSE task' = [task EXCEPT ![w].step = "read"] /\ recent' = TRUE
  /\ UNCHANGED <<pending, lastError, reports, open, faults>>

Read(w) ==
  /\ task[w] # None /\ task[w].step = "read"
  /\ task' = [task EXCEPT ![w].step = "write", ![w].previous = lastError]
  /\ UNCHANGED <<pending, recent, lastError, reports, open, faults>>

Write(w) ==
  /\ task[w] # None /\ task[w].step = "write"
  /\ lastError' = IF task[w].error # 0 THEN task[w].error ELSE task[w].previous
  /\ task' = [task EXCEPT ![w] = None]
  /\ UNCHANGED <<pending, recent, reports, open, faults>>

Fails(w) ==
  /\ task[w] # None /\ task[w].step # "lock" /\ faults < MaxFaults /\ faults' = faults + 1
  /\ task' = [task EXCEPT ![w] = None] /\ open' = open \cup {lastError}
  /\ UNCHANGED <<pending, recent, lastError, reports>>

TimePasses ==
  /\ recent /\ recent' = FALSE
  /\ UNCHANGED <<pending, task, lastError, reports, open, faults>>

Next ==
  \/ \E error \in 0..MaxReports, force \in BOOLEAN : Schedule(error, force)
  \/ \E error \in 0..MaxReports : Reconciled(error)
  \/ Drain \/ TimePasses
  \/ \E w \in Writers : Enter(w) \/ Read(w) \/ Write(w) \/ Fails(w)

Spec == Init /\ [][Next]_vars

------------------------------------------------------------------------------
\* When every snapshot is written, the row names one of the failures reported
\* since the last calm ("Keep the failure so lastError is durable"), although
\* normal snapshots came between and two tasks read and write the same row;
\* after a write that failed it may still name the one before.
FailureKept == QuietNow /\ open # {} => lastError \in open
=============================================================================
