----------------------------- MODULE StoreWriter -----------------------------
(*************************************************************************)
(* How a task of a process writes the research schema on PostgreSQL      *)
(* (db.py ResearchStore, storage_runtime.py Connection and               *)
(* AsyncConnection).  Tasks that share a connection take turns at an     *)
(* asyncio writer gate; the statements of a connection run one after the *)
(* other on its own thread; a transaction takes the advisory lock of the *)
(* schema before its first row gets an identity.  A task can be          *)
(* cancelled at any wait, the server can refuse a lock, fail a statement *)
(* or the commit, and a busy failure is retried as a whole.              *)
(*                                                                       *)
(* A write is two statements, each with a row that gets an identity (the *)
(* event cursor of the triggers).  The connections and gates are those   *)
(* of the shared lane, its checkpoint connection and the quote lane.     *)
(* A lost server connection is not modelled: the adapter does not reopen *)
(* one.                                                                  *)
(*************************************************************************)
EXTENDS Integers, Sequences, FiniteSets, SequencesExt

CONSTANTS
  Tasks,      \* coroutines that write
  Lane,       \* task -> its connection
  Gate,       \* connection -> its writer gate
  Attempts,   \* tries of retry_busy_write (3 in the code)
  MaxStoreFaults   \* bound: cancellations and failures of the server

\* Names that must differ, and the least the bounds must allow.
StoreAssumption ==
  /\ DOMAIN Lane = Tasks /\ DOMAIN Gate = {Lane[t] : t \in Tasks}
  /\ "free" \notin Tasks /\ "free" \notin DOMAIN Gate
  /\ Attempts \in Nat \ {0} /\ MaxStoreFaults \in Nat

VARIABLES
  task,       \* each task: where it is, its try, whether it is cancelled
  gate,       \* each gate: the task holding it, or "free"
  jobs,       \* each connection: the calls waiting for its thread
  tx,         \* each connection: its open transaction
  writer,     \* the connection holding the advisory lock, or "free"
  identity,   \* the identity sequence of the schema; it never runs back
  committed,  \* the rows in the order in which readers see them appear
  storeFaults

storeVars == <<task, gate, jobs, tx, writer, identity, committed, storeFaults>>

Connections == {Lane[t] : t \in Tasks}
Gates == {Gate[c] : c \in Connections}
GateOf(t) == Gate[Lane[t]]
Closed == [open |-> FALSE, rows |-> <<>>]
\* A write under the implicit transaction has no BEGIN of its own.
Calls(form) == IF form = "begin" THEN <<"begin", "first", "second", "commit">>
               ELSE <<"first", "second", "commit">>
Fresh == [at |-> "idle", form |-> "implicit", calls |-> <<>>, try |-> 1, answer |-> "none",
          cancelled |-> FALSE]

StoreTypeOK ==
  /\ \A t \in Tasks :
       /\ task[t].at \in {"idle", "gate", "call", "undo", "done", "failed", "cancelled"}
       /\ task[t].answer \in {"none", "ok", "busy", "error"}
       /\ task[t].try \in 1..Attempts
  /\ \A g \in Gates : gate[g] \in Tasks \cup {"free"}
  /\ \A c \in Connections : jobs[c] \in Seq([task : Tasks, try : 1..Attempts, call :
                                         {"begin", "first", "second", "commit", "rollback"}])
  /\ writer \in Connections \cup {"free"}
  /\ identity \in Nat /\ storeFaults \in 0..MaxStoreFaults

StoreInit ==
  /\ task = [t \in Tasks |-> Fresh]
  /\ gate = [g \in Gates |-> "free"]
  /\ jobs = [c \in Connections |-> <<>>]
  /\ tx = [c \in Connections |-> Closed]
  /\ writer = "free" /\ identity = 0 /\ committed = <<>> /\ storeFaults = 0

------------------------------------------------------------------------------
(* The task                                                               *)

Begin(t) ==
  /\ task[t].at = "idle"
  /\ \E form \in {"implicit", "begin"} :
       task' = [task EXCEPT ![t].at = "gate", ![t].form = form]
  /\ UNCHANGED <<gate, jobs, tx, writer, identity, committed, storeFaults>>

\* _run hands a call to the thread of the connection.
Queued(t, call) ==
  jobs' = [jobs EXCEPT ![Lane[t]] = Append(@, [task |-> t, try |-> task[t].try, call |-> call])]

\* _guard_write: one writer of the lane at a time.
Enter(t) ==
  LET calls == Calls(task[t].form)
  IN /\ task[t].at = "gate" /\ gate[GateOf(t)] = "free"
     /\ gate' = [gate EXCEPT ![GateOf(t)] = t]
     /\ Queued(t, Head(calls))
     /\ task' = [task EXCEPT ![t].at = "call", ![t].calls = Tail(calls), ![t].answer = "none"]
     /\ UNCHANGED <<tx, writer, identity, committed, storeFaults>>

LeaveOpen(t) == UNCHANGED jobs
\* The guard rolls back whatever the task left open on its connection.
Undo(t) == Queued(t, "rollback")

Ended(t, how) == [task EXCEPT ![t] = [Fresh EXCEPT !.at = how]]

\* The call succeeded: on to the next one, or out of the gate.
Continue(t) ==
  /\ task[t].at = "call" /\ task[t].answer = "ok" /\ ~task[t].cancelled
  /\ IF task[t].calls = <<>>
     THEN /\ task' = Ended(t, "done")
          /\ gate' = [gate EXCEPT ![GateOf(t)] = "free"]
          /\ UNCHANGED jobs
     ELSE /\ Queued(t, Head(task[t].calls))
          /\ task' = [task EXCEPT ![t].calls = Tail(@), ![t].answer = "none"]
          /\ UNCHANGED gate
  /\ UNCHANGED <<tx, writer, identity, committed, storeFaults>>

\* The call failed, or the task was cancelled and has waited for it all the
\* same: out through the guard.
Leave(t) ==
  /\ task[t].at = "call" /\ task[t].answer # "none"
  /\ task[t].answer # "ok" \/ task[t].cancelled
  /\ Undo(t)
  /\ task' = [task EXCEPT ![t].at = "undo"]
  /\ UNCHANGED <<gate, tx, writer, identity, committed, storeFaults>>

\* Only contention is retried; its transaction has been rolled back.
Retried(answer) == answer = "busy"

\* The gate is free again when the rollback is through, or when a cancelled
\* task no longer waits for it.
Freed(t) ==
  LET again == ~task[t].cancelled /\ Retried(task[t].answer) /\ task[t].try < Attempts
  IN /\ gate' = [gate EXCEPT ![GateOf(t)] = "free"]
     /\ task' = IF again THEN [task EXCEPT ![t].at = "gate", ![t].try = @ + 1, ![t].answer = "none"]
                ELSE Ended(t, IF task[t].cancelled THEN "cancelled" ELSE "failed")

Undone(t) ==
  /\ task[t].at = "undo"
  /\ ~\E i \in DOMAIN jobs[Lane[t]] : jobs[Lane[t]][i].task = t
  /\ Freed(t)
  /\ UNCHANGED <<jobs, tx, writer, identity, committed, storeFaults>>

StoreFault == storeFaults < MaxStoreFaults /\ storeFaults' = storeFaults + 1

\* Cancelled while it waits for the gate, or for the first time at a call:
\* _run waits for the call to end.
Cancel(t) ==
  /\ StoreFault /\ task[t].at \in {"gate", "call"} /\ ~task[t].cancelled
  /\ task' = IF task[t].at = "gate" THEN Ended(t, "cancelled") ELSE [task EXCEPT ![t].cancelled = TRUE]
  /\ UNCHANGED <<gate, jobs, tx, writer, identity, committed>>

\* Cancelled again: the wait for the call or for the rollback is given up, the
\* call or the rollback itself is not.
Abandon(t) ==
  /\ StoreFault
  /\ \/ task[t].at = "call" /\ task[t].cancelled /\ task[t].answer = "none"
        /\ Undo(t)
        /\ task' = [task EXCEPT ![t].at = "undo"]
        /\ UNCHANGED gate
     \/ task[t].at = "undo"
        /\ gate' = [gate EXCEPT ![GateOf(t)] = "free"]
        /\ task' = Ended(t, "cancelled")
        /\ UNCHANGED jobs
  /\ UNCHANGED <<tx, writer, identity, committed>>

------------------------------------------------------------------------------
(* The thread of a connection                                             *)

\* The task may have stopped waiting for this call.
Answered(job, answer) ==
  task' = IF task[job.task].at = "call" /\ job.call # "rollback"
          THEN [task EXCEPT ![job.task].answer = answer] ELSE task

Done(c) == jobs' = [jobs EXCEPT ![c] = Tail(@)]
Released(c) == writer' = IF writer = c THEN "free" ELSE writer
RolledBack(c) == tx' = [tx EXCEPT ![c] = Closed] /\ Released(c)

LockLate(c, call) == call = "commit" /\ writer # c
\* The first statement of a transaction takes the schema's writer lock before
\* anything gets an identity.
Locking(c, call) == call \in {"begin", "first", "second"} /\ writer # c

Locked(c, call) == IF Locking(c, call) THEN writer = "free" /\ writer' = c ELSE UNCHANGED writer

\* BEGIN IMMEDIATE is refused inside a transaction.
RunBegin(c) ==
  /\ jobs[c] # <<>> /\ Head(jobs[c]).call = "begin"
  /\ Locked(c, "begin")
  /\ tx' = [tx EXCEPT ![c].open = TRUE]
  /\ Answered(Head(jobs[c]), IF tx[c].open THEN "error" ELSE "ok") /\ Done(c)
  /\ UNCHANGED <<gate, identity, committed, storeFaults>>

\* A statement opens the transaction if need be; its row gets an identity.
RunStatement(c) ==
  LET job == Head(jobs[c])
  IN /\ jobs[c] # <<>> /\ job.call \in {"first", "second"}
     /\ Locked(c, job.call)
     /\ identity' = identity + 1
     /\ tx' = [tx EXCEPT ![c] = [open |-> TRUE, rows |->
                 Append(@.rows, [id |-> identity', task |-> job.task, try |-> job.try])]]
     /\ Answered(job, "ok") /\ Done(c)
     /\ UNCHANGED <<gate, committed, storeFaults>>

\* The lock times out (55P03): the transaction is rolled back, the call busy.
LockTimeout(c) ==
  /\ jobs[c] # <<>> /\ Locking(c, Head(jobs[c]).call) /\ writer # "free"
  /\ StoreFault
  /\ tx' = [tx EXCEPT ![c] = Closed] /\ UNCHANGED writer
  /\ Answered(Head(jobs[c]), "busy") /\ Done(c)
  /\ UNCHANGED <<gate, identity, committed>>

\* A statement fails: its savepoint takes back only itself, a serialization
\* failure or a deadlock the whole transaction.
StatementFails(c) ==
  /\ jobs[c] # <<>> /\ Head(jobs[c]).call \in {"first", "second"}
  /\ writer \in {c, "free"} /\ StoreFault
  /\ \/ Answered(Head(jobs[c]), "error") /\ tx' = [tx EXCEPT ![c].open = TRUE] /\ writer' = c
     \/ Answered(Head(jobs[c]), "busy") /\ tx' = [tx EXCEPT ![c] = Closed] /\ writer' = "free"
  /\ Done(c)
  /\ UNCHANGED <<gate, identity, committed>>

RunCommit(c) ==
  /\ jobs[c] # <<>> /\ Head(jobs[c]).call = "commit"
  /\ committed' = committed \o tx[c].rows
  /\ RolledBack(c)
  /\ Answered(Head(jobs[c]), "ok") /\ Done(c)
  /\ UNCHANGED <<gate, identity, storeFaults>>

CommitFails(c) ==
  /\ jobs[c] # <<>> /\ Head(jobs[c]).call = "commit" /\ StoreFault
  /\ RolledBack(c)
  /\ \E answer \in {"busy", "error"} : Answered(Head(jobs[c]), answer)
  /\ Done(c)
  /\ UNCHANGED <<gate, identity, committed>>

RunRollback(c) ==
  /\ jobs[c] # <<>> /\ Head(jobs[c]).call = "rollback"
  /\ RolledBack(c)
  /\ Done(c)
  /\ UNCHANGED <<task, gate, identity, committed, storeFaults>>

StoreNext ==
  \/ \E t \in Tasks :
       \/ Begin(t) \/ Enter(t) \/ Continue(t) \/ Leave(t) \/ Undone(t)
       \/ Cancel(t) \/ Abandon(t)
  \/ \E c \in Connections :
       \/ RunBegin(c) \/ RunStatement(c) \/ LockTimeout(c) \/ StatementFails(c)
       \/ RunCommit(c) \/ CommitFails(c) \/ RunRollback(c)

StoreSpec == StoreInit /\ [][StoreNext]_storeVars

------------------------------------------------------------------------------
RowsOf(t) == {row \in Range(committed) : row.task = t}

\* Readers that follow the identity never miss a late transaction: rows appear
\* in the order of their identities ("committed event cursors cannot skip a
\* late transaction"); and no write is ever visible in part, nor twice, nor
\* missing once its task was told that it is done -- whatever was cancelled,
\* refused or retried in between.
WritesWhole ==
  /\ \A i, j \in DOMAIN committed : i < j => committed[i].id < committed[j].id
  /\ \A t \in Tasks : Cardinality(RowsOf(t)) \in {0, 2}
  /\ \A t \in Tasks : task[t].at = "done" => Cardinality(RowsOf(t)) = 2
  /\ \A t \in Tasks : task[t].at = "failed" => RowsOf(t) = {}
=============================================================================
